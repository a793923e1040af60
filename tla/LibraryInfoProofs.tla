-------------------------- MODULE LibraryInfoProofs --------------------------
(***************************************************************************)
(* What the six probes of library_info find, and refuse, for any files on  *)
(* any platform; and which files make its answers what they say.           *)
(***************************************************************************)
EXTENDS LibraryInfo, FiniteSetTheorems, SequenceTheorems, WellFoundedInduction, TLAPS

(***************************************************************************)
(* Where the sections of several segments are put one after the other the  *)
(* result is a sequence, by induction on the segments: a set of numbers    *)
(* has a least one.                                                        *)
(***************************************************************************)
LEMMA LeastNumber ==
    ASSUME NEW T \in SUBSET Nat, T # {}
    PROVE  \E x \in T : \A y \in T : x <= y
<1> DEFINE R == {ss \in Nat \X Nat : ss[1] < ss[2]}
<1>1. IsWellFoundedOn(R, Nat)
  BY NatLessThanWellFounded DEF OpToRel
<1>2. PICK x \in T : \A y \in T : ~(<<y, x>> \in R)
  <2> HIDE DEF R
  <2> QED BY <1>1, WFMin
<1>3. \A y \in T : ~(y < x)
  BY <1>2
<1> QED BY <1>3

\* The recursive function that FlattenSeq chooses exists.
LEMMA FlattenUnfolds ==
    ASSUME NEW n \in Nat, NEW s
    PROVE  \E g : g = [i \in 1..n |-> IF i = 1 THEN s[i] ELSE g[i-1] \o s[i]]
<1> DEFINE Has(k) == \E g : g = [i \in 1..k |-> IF i = 1 THEN s[i] ELSE g[i-1] \o s[i]]
           T == {k \in Nat : ~Has(k)}
<1>1. Has(0)
  <2> DEFINE e == [i \in 1..0 |-> s[i]]
  <2>1. e = [i \in 1..0 |-> IF i = 1 THEN s[i] ELSE e[i-1] \o s[i]]
    OBVIOUS
  <2> QED BY <2>1
<1>2. ASSUME NEW k \in Nat, Has(k)
      PROVE  Has(k + 1)
  <2>1. PICK g : g = [i \in 1..k |-> IF i = 1 THEN s[i] ELSE g[i-1] \o s[i]]
    BY <1>2
  <2> DEFINE h == [i \in 1..k+1 |-> IF i \in 1..k THEN g[i]
                                    ELSE IF i = 1 THEN s[i] ELSE g[i-1] \o s[i]]
  <2>2. \A i \in 1..k+1 : h[i] = IF i = 1 THEN s[i] ELSE h[i-1] \o s[i]
    <3> SUFFICES ASSUME NEW i \in 1..k+1
                 PROVE  h[i] = IF i = 1 THEN s[i] ELSE h[i-1] \o s[i]
      OBVIOUS
    <3>1. i # 1 => i - 1 \in 1..k
      OBVIOUS
    <3>2. i # 1 => h[i-1] = g[i-1]
      BY <3>1
    <3>3. CASE i \in 1..k
      BY <2>1, <3>2, <3>3
    <3>4. CASE i \notin 1..k
      BY <3>2, <3>4
    <3> QED BY <3>3, <3>4
  <2>3. h = [i \in 1..k+1 |-> IF i = 1 THEN s[i] ELSE h[i-1] \o s[i]]
    BY <2>2
  <2> QED BY <2>3
<1> HIDE DEF Has
<1>3. T = {}
  <2> SUFFICES ASSUME T # {} PROVE FALSE
    OBVIOUS
  <2>1. PICK x \in T : \A y \in T : x <= y
    BY LeastNumber
  <2>2. x # 0
    BY <1>1
  <2>3. x - 1 \in Nat /\ x - 1 \notin T
    BY <2>1, <2>2
  <2> QED BY <1>2, <2>1, <2>3
<1>4. Has(n)
  BY <1>3
<1> QED BY <1>4 DEF Has

LEMMA FlattenIsSeq ==
    ASSUME NEW S, NEW s \in Seq(Seq(S))
    PROVE  Macho!FlattenSeq(s) \in Seq(S)
<1> DEFINE g == CHOOSE g : g = [i \in 1..Len(s) |-> IF i = 1 THEN s[i] ELSE g[i-1] \o s[i]]
<1>1. Len(s) \in Nat /\ \A i \in 1..Len(s) : s[i] \in Seq(S)
  BY LenProperties
<1>2. CASE Len(s) = 0
  BY <1>2, <1>1, LenProperties DEF Macho!FlattenSeq
<1>3. CASE Len(s) # 0
  <2>1. Macho!FlattenSeq(s) = g[Len(s)]
    BY <1>3 DEF Macho!FlattenSeq
  <2>2. g = [i \in 1..Len(s) |-> IF i = 1 THEN s[i] ELSE g[i-1] \o s[i]]
    BY <1>1, FlattenUnfolds
  <2> HIDE DEF g
  <2> DEFINE T == {k \in 1..Len(s) : g[k] \notin Seq(S)}
  <2>3. T = {}
    <3> SUFFICES ASSUME T # {} PROVE FALSE
      OBVIOUS
    <3>1. PICK x \in T : \A y \in T : x <= y
      <4>1. T \subseteq Nat
        BY <1>1
      <4> HIDE DEF T
      <4> QED BY <4>1, LeastNumber
    <3>2. x # 1
      BY <1>1, <2>2
    <3>3. x - 1 \in 1..Len(s) /\ x - 1 \notin T
      BY <3>1, <3>2, <1>1
    <3>4. g[x - 1] \in Seq(S) /\ s[x] \in Seq(S)
      BY <3>3, <1>1
    <3>5. g[x] = g[x - 1] \o s[x]
      BY <2>2, <3>2, <3>1
    <3> QED BY <3>4, <3>5, ConcatProperties
  <2> QED BY <1>1, <1>3, <2>1, <2>3
<1> QED BY <1>2, <1>3

LEMMA SeqOfMore ==
    ASSUME NEW A, NEW B, A \subseteq B, NEW s \in Seq(A)
    PROVE  s \in Seq(B)
  OBVIOUS

-----------------------------------------------------------------------------
USE LibraryInfoAssumption

Kinds == {"list", "throw", "abort"}

LEMMA ProbesAre ==
    /\ DOMAIN Probes = 1..6 /\ Len(Probes) = 6
    /\ \A p \in 1..6 : /\ Probes[p] \in ToSet(Probes)
                       /\ Probes[p].format \in Formats /\ Probes[p].bits \in {32, 64}
                       /\ Probes[p] = [format |-> Probes[p].format, bits |-> Probes[p].bits]
    /\ \A f \in Formats, b \in {32, 64} :
          \E p \in 1..6 : Probes[p] = [format |-> f, bits |-> b]
<1>1. DOMAIN Probes = 1..6 /\ Len(Probes) = 6
  BY DEF Probes
<1>2. \A p \in 1..6 : Probes[p] \in ToSet(Probes)
  BY <1>1 DEF ToSet
<1>3. \A p \in 1..6 : Probes[p].format \in Formats /\ Probes[p].bits \in {32, 64}
  BY DEF Probes, Formats
<1>4. \A p \in 1..6 :
         Probes[p] = [format |-> Probes[p].format, bits |-> Probes[p].bits]
  BY DEF Probes
<1>5. /\ Probes[1] = [format |-> "elf", bits |-> 32]
      /\ Probes[2] = [format |-> "elf", bits |-> 64]
      /\ Probes[3] = [format |-> "pe", bits |-> 32]
      /\ Probes[4] = [format |-> "pe", bits |-> 64]
      /\ Probes[5] = [format |-> "macho", bits |-> 32]
      /\ Probes[6] = [format |-> "macho", bits |-> 64]
  BY DEF Probes
<1>6. \A f \in Formats, b \in {32, 64} :
         \E p \in 1..6 : Probes[p] = [format |-> f, bits |-> b]
  BY <1>5 DEF Formats
<1> QED BY <1>1, <1>2, <1>3, <1>4, <1>6

LEMMA NoFmtIsNoProbe == \A p \in 1..6 : Probes[p] # NoFmt
  BY DEF Probes, NoFmt

\* Every answer is a list, an exception or an assert that failed.
LEMMA ElfKinds ==
    ASSUME NEW f, NEW n
    PROVE  \A a \in Elf!Sections(f) \cup Elf!Symbols(f) \cup Elf!SymbolsOf(f, n) :
              a.outcome \in Kinds
  BY DEF Elf!Sections, Elf!Symbols, Elf!SymbolsOf, Elf!NamesRead, Elf!Listing,
         Elf!Throws, Elf!Failing, Kinds

LEMMA PeKinds ==
    ASSUME NEW f, NEW n
    PROVE  \A a \in Pe!SymbolsOf(f, n) : a.outcome \in Kinds
<1> DEFINE s == Pe!SectionIndex(f, n)
<1>1. Pe!AddressZero.outcome \in Kinds
  BY DEF Pe!AddressZero, Pe!Failing, Pe!Listing, Kinds
<1>2. \A i : \A a \in Pe!Round(f, s, i) : a.outcome \in Kinds
  BY <1>1 DEF Pe!Round, Pe!PastTheEnd, Pe!Listing, Pe!Throws, Pe!Failing, Kinds
<1>3. ASSUME NEW r, \A i \in DOMAIN r : r[i].outcome \in Kinds
      PROVE  \A a \in Pe!Together(r) : a.outcome \in Kinds
  BY <1>3 DEF Pe!Together, Pe!Listing, Kinds
<1> HIDE DEF s
<1>4. ASSUME NEW a \in Pe!SymbolsOf(f, n)
      PROVE  a.outcome \in Kinds
  <2>1. CASE s = 0
    BY <1>4, <2>1 DEF Pe!SymbolsOf, Pe!Listing, Kinds, s
  <2>2. CASE s # 0 /\ f.functions = <<>>
    BY <1>1, <1>4, <2>2 DEF Pe!SymbolsOf, s
  <2>3. CASE s # 0 /\ f.functions # <<>>
    <3>1. PICK r \in {q \in [DOMAIN f.functions ->
                                UNION {Pe!Round(f, s, i) : i \in DOMAIN f.functions}] :
                         \A i \in DOMAIN q : q[i] \in Pe!Round(f, s, i)} :
               a \in Pe!Together(r)
      BY <1>4, <2>3 DEF Pe!SymbolsOf, s
    <3> QED BY <1>2, <1>3, <3>1
  <2> QED BY <2>1, <2>2, <2>3
<1> QED BY <1>4

LEMMA MachoKinds ==
    ASSUME NEW names
    PROVE  \A a \in {Listing(names)} : a.outcome \in Kinds
  BY DEF Listing, Kinds

LEMMA AnythingKinds == \A a \in Anything : a.outcome \in Kinds /\ a.outcome # "abort"
  BY DEF Anything, Listing, Throws, Failing, Kinds

\* What the assumption says of the file that is read.
LEMMA InputIs ==
    ASSUME TypeOK
    PROVE  /\ os \in {"linux", "windows", "macos"}
           /\ bits \in {32, 64} /\ file.bits \in {32, 64}
           /\ file.format \in Formats \cup NoFormats
           /\ \A k \in 1..6 : Probes[k] = [format |-> file.format, bits |-> file.bits]
                                <=> IsOf(file, Probes[k])
           /\ file.format \in Formats => file.ends = "after"
  BY DEF TypeOK

\* A binary begins with its magic number, and is what one of the probes is for.
LEMMA BinaryIs ==
    ASSUME TypeOK, file.format \in Formats
    PROVE  \E k \in 1..6 : /\ Probes[k] = [format |-> file.format, bits |-> file.bits]
                           /\ Probes[k].format = file.format /\ Probes[k].bits = file.bits
                           /\ IsOf(file, Probes[k]) /\ ~file.blanks
<1>1. PICK k \in 1..6 : Probes[k] = [format |-> file.format, bits |-> file.bits]
  BY InputIs, ProbesAre
<1>2. Probes[k].format = file.format /\ Probes[k].bits = file.bits
  BY <1>1
<1>3. IsOf(file, Probes[k])
  BY <1>1, InputIs
<1>4. ~file.blanks
  BY <1>3, Zenon DEF IsOf
<1> QED BY <1>1, <1>2, <1>3, <1>4

\* The probe that is for a file accepts it, unless it looks for the header of a
\* PE file in a wrong place.
LEMMA BinaryMatches ==
    ASSUME TypeOK, NEW k \in 1..6, IsOf(file, Probes[k]),
           ~(Probes[k].format = "pe" /\ LongIsEightBytes)
    PROVE  Matches(Probes[k])
<1>1. Probes[k].format \in Formats
  BY ProbesAre
<1>2. CASE Probes[k].format = "elf"
  BY <1>2 DEF IsOf, Matches, ElfMatches
<1>3. CASE Probes[k].format = "pe"
  BY <1>3 DEF IsOf, Matches, PeMatches, IsDos
<1>4. CASE Probes[k].format = "macho"
  BY <1>4 DEF IsOf, Matches, MachoMatches
<1> QED BY <1>1, <1>2, <1>3, <1>4 DEF Formats

\* A probe accepts the files it is for, and others by skipping blanks only.
LEMMA MatchIs ==
    ASSUME TypeOK, NEW k \in 1..6, Matches(Probes[k])
    PROVE  \/ Probes[k] = [format |-> file.format, bits |-> file.bits]
           \/ Probes[k].format = "elf" /\ file.blanks
<1>1. Probes[k].format \in Formats
  BY ProbesAre
<1>2. CASE Probes[k].format = "elf"
  <2>1. CASE file.blanks
    BY <1>2, <2>1
  <2>2. CASE ~file.blanks
    <3>1. IsOf(file, Probes[k])
      BY <1>2, <2>2 DEF IsOf, Matches, ElfMatches
    <3> QED BY <3>1, InputIs
  <2> QED BY <2>1, <2>2
<1>3. CASE Probes[k].format = "pe"
  <2>1. IsOf(file, Probes[k])
    BY <1>3 DEF IsOf, Matches, PeMatches, IsDos
  <2> QED BY <2>1, InputIs
<1>4. CASE Probes[k].format = "macho"
  <2>1. IsOf(file, Probes[k])
    BY <1>4 DEF IsOf, Matches, MachoMatches
  <2> QED BY <2>1, InputIs
<1> QED BY <1>1, <1>2, <1>3, <1>4 DEF Formats

\* A file no probe accepts is no binary, or a PE file sought in a wrong place.
LEMMA NoneMatches ==
    ASSUME TypeOK, \A k \in 1..6 : ~Matches(Probes[k])
    PROVE  file.format \in NoFormats \/ (file.format = "pe" /\ LongIsEightBytes)
<1>1. CASE file.format \in Formats /\ ~(file.format = "pe" /\ LongIsEightBytes)
  BY <1>1, BinaryIs, BinaryMatches
<1> QED BY <1>1, InputIs

\* So is one a probe fails on that was not cut.
LEMMA FailingFile ==
    ASSUME TypeOK, NEW k \in 1..6, Fails(Probes[k]) \/ MayFail(Probes[k])
    PROVE  \/ cut \/ file.format \in NoFormats
           \/ file.format = "pe" /\ LongIsEightBytes
<1>1. SUFFICES ASSUME ~cut, file.format \in Formats
               PROVE  file.format = "pe" /\ LongIsEightBytes
  BY InputIs
<1>2. file.ends = "after"
  BY <1>1, InputIs
<1>3. Probes[k].format \in Formats
  BY ProbesAre
<1>4. ~Fails(Probes[k])
  BY <1>2, <1>3 DEF Fails, ElfFails, PeFails, Formats
<1>5. IsDos /\ LongIsEightBytes
  BY <1>1, <1>4 DEF MayFail
<1>6. PICK j \in 1..6 : /\ Probes[j].format = file.format /\ IsOf(file, Probes[j])
  BY <1>1, BinaryIs
<1>7. \E m \in DosMagic : StartsWith(file, m)
  BY <1>5 DEF IsDos
<1>8. 1 \in DOMAIN file.bytes /\ file.bytes[1] \in {"MZ", "ZM"}
  BY <1>7 DEF DosMagic, StartsWith
<1>9. CASE file.format = "elf"
  BY <1>6, <1>8, <1>9 DEF IsOf, StartsWith, ElfMagic
<1>10. CASE file.format = "macho"
  BY <1>6, <1>8, <1>10 DEF IsOf, StartsWith, MachoMagic
<1> QED BY <1>1, <1>5, <1>9, <1>10 DEF Formats

-----------------------------------------------------------------------------
LEMMA InitLI == Init => LIInv
<1> SUFFICES ASSUME Init PROVE LIInv
  OBVIOUS
<1>1. Closed /\ \E x \in Inputs : os = x.os /\ bits = x.bits /\ file = x.file
  BY DEF Init
<1>2. TypeOK
  <2>1. cut \in BOOLEAN /\ onlyNative \in BOOLEAN
    BY <1>1, Zenon DEF Closed
  <2>2. probe \in 0..Len(Probes)
    BY <1>1, ProbesAre DEF Closed
  <2>3. /\ asked.question \in {"none", "sections", "symbols", "symbols_of"}
        /\ answer.outcome \in {"list", "throw", "abort"}
    BY <1>1 DEF Nothing, Listing, Closed
  <2> QED BY <1>1, <2>1, <2>2, <2>3 DEF TypeOK, Closed
<1>3. ProbeInv /\ RefusalInv /\ FormatIsFile
  BY <1>1 DEF Closed, ProbeInv, RefusalInv, FormatIsFile
<1> QED BY <1>2, <1>3 DEF LIInv

LEMMA OpenLI ==
    ASSUME LIInv, NEW native \in BOOLEAN, Open(native), UNCHANGED <<os, bits>>
    PROVE  LIInv'
<1> USE DEF LIInv, TypeOK, Open
<1>1. CASE file.format = "missing"
  <2>1. pc' = "refused" /\ probe' = probe
    BY <1>1
  <2>2. TypeOK'
    BY <2>1, <1>1
  <2>3. ProbeInv' /\ RefusalInv' /\ FormatIsFile'
    BY <2>1, <1>1 DEF ProbeInv, RefusalInv, FormatIsFile, NoFormats
  <2> QED BY <2>2, <2>3
<1>2. CASE file.format # "missing"
  <2>1. pc' = "probing" /\ probe' = 1
    BY <1>2
  <2>2. TypeOK'
    BY <2>1, <1>2, ProbesAre
  <2>3. ProbeInv' /\ RefusalInv' /\ FormatIsFile'
    BY <2>1, ProbesAre DEF ProbeInv, RefusalInv, FormatIsFile
  <2> QED BY <2>2, <2>3
<1> QED BY <1>1, <1>2

\* What the checks of a format depend on stays as it is.
LEMMA ChecksStay ==
    ASSUME UNCHANGED <<os, bits, file>>
    PROVE  /\ \A p : Matches(p)' <=> Matches(p)
           /\ \A p : Refused(p)' <=> Refused(p)
           /\ LongIsEightBytes' <=> LongIsEightBytes
  BY DEF Matches, ElfMatches, PeMatches, MachoMatches, IsDos, Refused, LongIsEightBytes

LEMMA ProbeMatchesLI ==
    ASSUME LIInv, ProbeMatches, UNCHANGED <<os, bits>>
    PROVE  LIInv'
<1> DEFINE p == Probes[probe]
<1>1. /\ TypeOK /\ probe \in 1..6 /\ pc = "probing" /\ Matches(p)
      /\ UNCHANGED <<os, bits, file, cut, onlyNative, stream, asked, answer>>
  BY ProbesAre DEF LIInv, ProbeInv, ProbeMatches
<1>2. p \in ToSet(Probes) /\ p # NoFmt
  BY <1>1, ProbesAre, NoFmtIsNoProbe
<1>3. \/ p = [format |-> file.format, bits |-> file.bits]
      \/ p.format = "elf" /\ file.blanks
  BY <1>1, MatchIs
<1>4. p.format = "elf" /\ file.blanks => file.format \in NoFormats
  BY <1>1, InputIs, BinaryIs
<1>5. CASE onlyNative /\ Refused(p)
  <2>1. pc' = "refused" /\ probe' = 0 /\ fmt' = fmt
    BY <1>5 DEF ProbeMatches, Refuse
  <2>2. TypeOK'
    BY <1>1, <2>1, ProbesAre DEF TypeOK
  <2>3. ProbeInv' /\ FormatIsFile'
    BY <2>1 DEF ProbeInv, FormatIsFile
  <2>4. RefusalInv'
    BY <1>1, <1>3, <1>4, <1>5, <2>1, ChecksStay DEF RefusalInv
  <2> QED BY <2>2, <2>3, <2>4 DEF LIInv
<1>6. CASE ~(onlyNative /\ Refused(p))
  <2>1. pc' = "open" /\ probe' = 0 /\ fmt' = p
    BY <1>6 DEF ProbeMatches
  <2> HIDE DEF p
  <2>2. TypeOK'
    BY <1>1, <1>2, <2>1, ProbesAre DEF TypeOK
  <2>3. ProbeInv' /\ FormatIsFile'
    BY <1>1, <1>3, <2>1 DEF ProbeInv, FormatIsFile, BlanksSkipped
  <2>4. RefusalInv'
    BY <1>1, <1>6, <2>1, ChecksStay DEF RefusalInv
  <2> QED BY <2>2, <2>3, <2>4 DEF LIInv
<1> QED BY <1>5, <1>6

LEMMA ProbeNextLI ==
    ASSUME LIInv, ProbeNext, UNCHANGED <<os, bits>>
    PROVE  LIInv'
<1>1. /\ TypeOK /\ probe \in 1..6 /\ pc = "probing" /\ ~Matches(Probes[probe])
      /\ \A k \in 1..probe - 1 : ~Matches(Probes[k])
      /\ UNCHANGED <<os, bits, file, cut, onlyNative, stream, asked, answer>>
  BY ProbesAre DEF LIInv, ProbeInv, ProbeNext
<1>2. \A k \in 1..probe : ~Matches(Probes[k])
  BY <1>1
<1>3. CASE probe = 6
  <2>1. pc' = "refused" /\ probe' = 0 /\ fmt' = fmt
    BY <1>3, ProbesAre DEF ProbeNext, Refuse
  <2>2. TypeOK'
    BY <1>1, <2>1, ProbesAre DEF TypeOK
  <2>3. ProbeInv' /\ FormatIsFile'
    BY <2>1 DEF ProbeInv, FormatIsFile
  <2>4. file.format \in NoFormats \/ (file.format = "pe" /\ LongIsEightBytes)
    BY <1>1, <1>2, <1>3, NoneMatches
  <2>5. RefusalInv'
    BY <1>1, <2>1, <2>4, ChecksStay DEF RefusalInv
  <2> QED BY <2>2, <2>3, <2>5 DEF LIInv
<1>4. CASE probe # 6
  <2>1. pc' = pc /\ probe' = probe + 1 /\ fmt' = fmt
    BY <1>4, ProbesAre DEF ProbeNext
  <2>2. TypeOK'
    BY <1>1, <1>4, <2>1, ProbesAre DEF TypeOK
  <2>3. ProbeInv'
    BY <1>1, <1>2, <1>4, <2>1, ProbesAre, ChecksStay DEF ProbeInv
  <2>4. RefusalInv' /\ FormatIsFile'
    BY <1>1, <2>1 DEF RefusalInv, FormatIsFile
  <2> QED BY <2>2, <2>3, <2>4 DEF LIInv
<1> QED BY <1>3, <1>4

LEMMA ProbeFailsLI ==
    ASSUME LIInv, ProbeFails, UNCHANGED <<os, bits>>
    PROVE  LIInv'
<1>1. /\ TypeOK /\ pc = "probing" /\ pc' = "refused" /\ probe' = 0 /\ fmt' = fmt
      /\ stream' = "failed"
      /\ UNCHANGED <<os, bits, file, cut, onlyNative, asked, answer>>
  BY DEF LIInv, ProbeFails, Refuse
<1>2. TypeOK'
  BY <1>1, ProbesAre DEF TypeOK
<1>3. ProbeInv' /\ FormatIsFile'
  BY <1>1 DEF ProbeInv, FormatIsFile
<1>4. \/ cut \/ file.format \in NoFormats
      \/ file.format = "pe" /\ LongIsEightBytes
  <2>1. probe \in 1..6
    BY <1>1, ProbesAre DEF LIInv, ProbeInv
  <2> QED BY <1>1, <2>1, FailingFile DEF ProbeFails
<1>5. RefusalInv'
  BY <1>1, <1>4, ChecksStay DEF RefusalInv
<1> QED BY <1>2, <1>3, <1>5 DEF LIInv

\* A question leaves the format alone, and what it answers is a list, an
\* exception or an assert that failed.
LEMMA AnswerLI ==
    ASSUME LIInv, UNCHANGED <<os, bits>>,
           NEW q \in {"sections", "symbols", "symbols_of"}, NEW n, NEW full,
           \A a \in full : a.outcome \in Kinds,
           Answer(q, n, full)
    PROVE  LIInv'
<1>1. /\ TypeOK /\ pc = "open"
      /\ UNCHANGED <<os, bits, pc, file, cut, onlyNative, probe, fmt>>
  BY DEF LIInv, Answer
<1>2. answer'.outcome \in Kinds
  BY DEF Answer, Outcomes, Throws, Failing, Kinds
<1>3. asked'.question \in {"sections", "symbols", "symbols_of"}
  BY DEF Answer
<1>4. stream' \in {"good", "failed"}
  BY <1>1 DEF Answer, TypeOK
<1>5. TypeOK'
  BY <1>1, <1>2, <1>3, <1>4, ProbesAre DEF TypeOK, Kinds
<1>6. ProbeInv' /\ FormatIsFile'
  BY <1>1 DEF LIInv, ProbeInv, FormatIsFile, BlanksSkipped
<1>7. RefusalInv'
  BY <1>1, ChecksStay DEF LIInv, RefusalInv
<1> QED BY <1>5, <1>6, <1>7 DEF LIInv

\* Where an object is open its format is one of the six.
LEMMA OpenFormat ==
    ASSUME LIInv, pc = "open"
    PROVE  fmt.format \in Formats
<1>1. fmt \in ToSet(Probes)
  BY DEF LIInv, TypeOK
<1>2. PICK p \in 1..6 : fmt = Probes[p]
  BY <1>1, ProbesAre DEF ToSet
<1> QED BY <1>2, ProbesAre

LEMMA AskSectionsLI ==
    ASSUME LIInv, AskSections, UNCHANGED <<os, bits>>
    PROVE  LIInv'
<1>1. pc = "open"
  BY DEF AskSections, Answer
<1>2. CASE fmt.format = file.format /\ file.format = "elf"
  BY <1>2, AnswerLI, ElfKinds DEF AskSections
<1>3. CASE fmt.format = file.format /\ file.format = "pe"
  BY <1>3, AnswerLI, MachoKinds DEF AskSections
<1>4. CASE fmt.format = file.format /\ file.format = "macho"
  BY <1>4, AnswerLI, MachoKinds DEF AskSections
<1>5. CASE fmt.format # file.format
  <2>1. Answer("sections", <<>>, Anything)
    BY <1>5 DEF AskSections
  <2>2. \A a \in Anything : a.outcome \in Kinds
    BY AnythingKinds
  <2> QED BY <2>1, <2>2, AnswerLI
<1>6. fmt.format \in {"elf", "pe", "macho"}
  BY <1>1, OpenFormat DEF Formats
<1>7. CASE fmt.format = file.format
  BY <1>2, <1>3, <1>4, <1>6, <1>7
<1> QED BY <1>5, <1>7

LEMMA AskSymbolsLI ==
    ASSUME LIInv, AskSymbols, UNCHANGED <<os, bits>>
    PROVE  LIInv'
<1>1. pc = "open"
  BY DEF AskSymbols, Answer
<1>2. CASE fmt.format = file.format /\ file.format = "elf"
  BY <1>2, AnswerLI, ElfKinds DEF AskSymbols
<1>3. CASE fmt.format = file.format /\ file.format = "pe"
  BY <1>3, AnswerLI, MachoKinds DEF AskSymbols
<1>4. CASE fmt.format = file.format /\ file.format = "macho"
  BY <1>4, AnswerLI, MachoKinds DEF AskSymbols
<1>5. CASE fmt.format # file.format
  <2>1. Answer("symbols", <<>>, Anything)
    BY <1>5 DEF AskSymbols
  <2>2. \A a \in Anything : a.outcome \in Kinds
    BY AnythingKinds
  <2> QED BY <2>1, <2>2, AnswerLI
<1>6. fmt.format \in {"elf", "pe", "macho"}
  BY <1>1, OpenFormat DEF Formats
<1>7. CASE fmt.format = file.format
  BY <1>2, <1>3, <1>4, <1>6, <1>7
<1> QED BY <1>5, <1>7

LEMMA AskSymbolsOfLI ==
    ASSUME LIInv, NEW n \in SectionNames, AskSymbolsOf(n), UNCHANGED <<os, bits>>
    PROVE  LIInv'
<1>1. pc = "open"
  BY DEF AskSymbolsOf, Answer
<1>2. CASE fmt.format = file.format /\ file.format = "elf"
  BY <1>2, AnswerLI, ElfKinds DEF AskSymbolsOf
<1>3. CASE fmt.format = file.format /\ file.format = "pe"
  BY <1>3, AnswerLI, PeKinds DEF AskSymbolsOf
<1>4. CASE fmt.format = file.format /\ file.format = "macho"
  BY <1>4, AnswerLI, MachoKinds DEF AskSymbolsOf
<1>5. CASE fmt.format # file.format
  <2>1. Answer("symbols_of", n, Anything)
    BY <1>5 DEF AskSymbolsOf
  <2>2. \A a \in Anything : a.outcome \in Kinds
    BY AnythingKinds
  <2> QED BY <2>1, <2>2, AnswerLI
<1>6. fmt.format \in {"elf", "pe", "macho"}
  BY <1>1, OpenFormat DEF Formats
<1>7. CASE fmt.format = file.format
  BY <1>2, <1>3, <1>4, <1>6, <1>7
<1> QED BY <1>5, <1>7

LEMMA CutLI ==
    ASSUME LIInv, Cut, UNCHANGED <<os, bits>>
    PROVE  LIInv'
<1>1. /\ TypeOK /\ cut' = TRUE
      /\ UNCHANGED <<os, bits, pc, file, onlyNative, probe, fmt, stream, asked, answer>>
  BY DEF LIInv, Cut
<1>2. TypeOK'
  BY <1>1, ProbesAre DEF TypeOK
<1>3. ProbeInv' /\ FormatIsFile'
  BY <1>1, ChecksStay, ProbesAre DEF LIInv, ProbeInv, FormatIsFile, BlanksSkipped
<1>4. RefusalInv'
  BY <1>1, ChecksStay DEF LIInv, RefusalInv, Cut
<1> QED BY <1>2, <1>3, <1>4 DEF LIInv

LEMMA CloseLI ==
    ASSUME LIInv, Close, UNCHANGED <<os, bits>>
    PROVE  LIInv'
<1>1. /\ TypeOK /\ pc' = "closed" /\ cut' = FALSE /\ onlyNative' = FALSE
      /\ probe' = 0 /\ fmt' = NoFmt /\ stream' = "good" /\ asked' = Nothing
      /\ answer' = Listing({}) /\ UNCHANGED <<os, bits, file>>
  BY DEF LIInv, Close
<1>2. TypeOK'
  <2>1. cut' \in BOOLEAN /\ onlyNative' \in BOOLEAN
    BY <1>1, Zenon
  <2>2. probe' \in 0..Len(Probes)
    BY <1>1, ProbesAre
  <2>3. /\ asked'.question \in {"none", "sections", "symbols", "symbols_of"}
        /\ answer'.outcome \in {"list", "throw", "abort"}
    BY <1>1 DEF Nothing, Listing
  <2> QED BY <1>1, <2>1, <2>2, <2>3 DEF TypeOK
<1>3. ProbeInv' /\ RefusalInv' /\ FormatIsFile'
  BY <1>1 DEF ProbeInv, RefusalInv, FormatIsFile
<1> QED BY <1>2, <1>3 DEF LIInv

LEMMA StepLI == LIInv /\ [Next]_vars => LIInv'
<1> SUFFICES ASSUME LIInv, [Next]_vars PROVE LIInv'
  OBVIOUS
<1>1. CASE UNCHANGED vars
  <2>1. TypeOK'
    BY <1>1 DEF vars, LIInv, TypeOK
  <2>2. ProbeInv' /\ RefusalInv' /\ FormatIsFile'
    BY <1>1, ChecksStay DEF vars, LIInv, ProbeInv, RefusalInv, FormatIsFile, BlanksSkipped
  <2> QED BY <2>1, <2>2 DEF LIInv
<1>2. CASE Next
  BY <1>2, OpenLI, ProbeMatchesLI, ProbeNextLI, ProbeFailsLI, AskSectionsLI,
     AskSymbolsLI, AskSymbolsOfLI, CutLI, CloseLI DEF Next, Step
<1> QED BY <1>1, <1>2

(***************************************************************************)
(* While the probes go on, the formats tried are not the one of the file;  *)
(* and there is always one of four reasons why a file was refused          *)
(* (library_info::init()).                                                 *)
(***************************************************************************)
THEOREM LibraryInfoInvariant == Spec => []LIInv
  BY InitLI, StepLI, PTL DEF Spec

(***************************************************************************)
(* The class that reads a file is the one for the format and the address   *)
(* size that the definitions of the formats give the file: no other of the *)
(* probes before it accepts it or fails on it, and none accepts a file of  *)
(* no format but the one that skips blanks.                                *)
(***************************************************************************)
THEOREM LibraryInfoFormat == Spec => []FormatIsFile
<1>1. LIInv => FormatIsFile
  BY DEF LIInv
<1> QED BY <1>1, LibraryInfoInvariant, PTL

(***************************************************************************)
(* An object made with throw_if_not_native_format is open for native files *)
(* only, on every platform but the one of MACH-O: the checks for macOS     *)
(* test macros that nothing defines.                                       *)
(***************************************************************************)
THEOREM LibraryInfoNonNative ==
    ASSUME \A x \in Inputs : x.os # "macos"
    PROVE  Spec => []NonNativeRefused
<1>1. ASSUME LIInv
      PROVE  NonNativeRefused
  <2>1. TypeOK /\ os # "macos"
    BY <1>1 DEF LIInv, TypeOK
  <2>2. ASSUME pc = "open", onlyNative
        PROVE  Native(file) \/ BlanksSkipped
    <3> SUFFICES ASSUME ~BlanksSkipped PROVE Native(file)
      OBVIOUS
    <3>1. fmt = [format |-> file.format, bits |-> file.bits] /\ ~Refused(fmt)
      BY <1>1, <2>2 DEF LIInv, FormatIsFile, RefusalInv
    <3>2. fmt.format = file.format /\ fmt.bits = file.bits
      BY <3>1
    <3>3. file.format \in Formats
      BY <1>1, <2>2, <3>2, OpenFormat
    <3> QED BY <2>1, <3>1, <3>2, <3>3, InputIs DEF Refused, Native, Formats
  <2> QED BY <2>2 DEF NonNativeRefused
<1> QED BY <1>1, LibraryInfoInvariant, PTL

(***************************************************************************)
(* Every file of the three formats is understood unless it is cut short,   *)
(* or not native where that was asked for, if a PE file is read only where *)
(* a long has four bytes.                                                  *)
(***************************************************************************)
THEOREM LibraryInfoUnderstood ==
    ASSUME \A x \in Inputs : x.file.format = "pe" => x.os = "windows" \/ x.bits = 32
    PROVE  Spec => []FormatsUnderstood
<1>1. ASSUME LIInv
      PROVE  FormatsUnderstood
  <2>1. TypeOK /\ (file.format = "pe" => ~LongIsEightBytes)
    BY <1>1 DEF LIInv, TypeOK, LongIsEightBytes
  <2>2. ASSUME Refused([format |-> file.format, bits |-> file.bits])
        PROVE  ~Native(file)
    BY <2>1, <2>2, InputIs DEF Refused, Native
  <2> QED BY <1>1, <2>1, <2>2 DEF LIInv, RefusalInv, FormatsUnderstood
<1> QED BY <1>1, LibraryInfoInvariant, PTL

-----------------------------------------------------------------------------
(***************************************************************************)
(* The answers.  The lemmas about one file say when a list that one of the *)
(* classes gives is what the file says.                                    *)
(***************************************************************************)
Says(answers, names) == \A a \in answers : a.outcome = "list" => a.names = names

LEMMA OneListing ==
    ASSUME NEW names
    PROVE  Says({Listing(names)}, names)
  BY DEF Says, Listing

\* The only member of a set is its greatest and its least.
LEMMA OnlyMember ==
    ASSUME NEW j \in Nat
    PROVE  Elf!Max({j}) = j /\ Elf!Min({j}) = j /\ Pe!Max({j}) = j
  BY DEF Elf!Max, Elf!Min, Pe!Max

\* What the walk through the table of names finds and misses.
LEMMA ElfSections ==
    ASSUME NEW f, Elf!Counted(f), Elf!NamesWhole(f),
           NEW a \in Elf!Sections(f), a.outcome = "list"
    PROVE  /\ a.names \subseteq Elf!FileSections(f)
           /\ \A n \in Elf!FileSections(f) : \E m \in a.names : Elf!Ends(n, m)
<1>1. Elf!FileHeaders(f) = DOMAIN f.sections
  BY DEF Elf!FileHeaders, Elf!Counted
<1>2. a.names = ToSet(f.strings) \ {<<>>}
  <2>1. Elf!ToSet(f.strings) = ToSet(f.strings)
    BY DEF Elf!ToSet, ToSet
  <2>2. Elf!Sections(f) = {Elf!Listing(ToSet(f.strings) \ {<<>>})}
    BY <2>1 DEF Elf!Sections, Elf!NamesRead, Elf!Counted
  <2> QED BY <2>2 DEF Elf!Listing
<1>3. ASSUME NEW k \in DOMAIN f.strings
      PROVE  f.strings[k] \in Seq(Elf!ToSet(f.strings[k]))
  BY DEF Elf!NamesWhole, Elf!IsSequence
<1>4. ASSUME NEW m \in a.names
      PROVE  m \in Elf!FileSections(f)
  <2>1. PICK k \in DOMAIN f.strings : m = f.strings[k] /\ m # <<>>
    BY <1>2 DEF ToSet
  <2>2. PICK i \in DOMAIN f.sections : f.sections[i].name = [string |-> k, part |-> 1]
    BY <2>1 DEF Elf!NamesWhole
  <2>3. f.sections[i].name.string = k /\ f.sections[i].name.part = 1
    BY <2>2
  <2>4. SubSeq(m, 1, Len(m)) = m
    BY <1>3, <2>1, SubSeqFull
  <2>5. Elf!SectionName(f, i) = m
    BY <2>1, <2>3, <2>4 DEF Elf!SectionName
  <2> QED BY <1>1, <2>1, <2>5 DEF Elf!FileSections
<1>5. ASSUME NEW n \in Elf!FileSections(f)
      PROVE  \E m \in a.names : Elf!Ends(n, m)
  <2>1. PICK i \in DOMAIN f.sections : n = Elf!SectionName(f, i) /\ n # <<>>
    BY <1>1 DEF Elf!FileSections
  <2> DEFINE part == f.sections[i].name.part
             m == f.strings[f.sections[i].name.string]
  <2>2. f.sections[i].name.string \in DOMAIN f.strings /\ part \in Nat \ {0}
    BY DEF Elf!NamesWhole
  <2>3. n = SubSeq(m, part, Len(m))
    BY <2>1 DEF Elf!SectionName
  <2>4. m \in Seq(Elf!ToSet(m)) /\ Len(m) \in Nat /\ DOMAIN m = 1..Len(m)
    BY <1>3, <2>2, LenProperties
  <2> HIDE DEF part, m
  <2>5. part <= Len(m)
    BY <2>1, <2>2, <2>3, <2>4
  <2>6. part \in DOMAIN m /\ m # <<>>
    BY <2>2, <2>4, <2>5
  <2>7. m \in a.names
    BY <1>2, <2>2, <2>6 DEF m, ToSet
  <2>8. Elf!Ends(n, m)
    BY <2>3, <2>6 DEF Elf!Ends
  <2> QED BY <2>7, <2>8
<1> QED BY <1>4, <1>5

\* Where no two sections have one name, a search finds one section at most.
LEMMA OneSection ==
    ASSUME NEW f, Elf!Counted(f), Elf!SectionsDistinct(f), NEW i \in DOMAIN f.sections
    PROVE  /\ i \in Nat \ {0} /\ i <= Len(f.sections) /\ Len(f.sections) \in Nat
           /\ Elf!SectionsNamed(f, Elf!SectionName(f, i)) = {i}
<1>1. DOMAIN f.sections = 1..Len(f.sections) /\ Len(f.sections) \in Nat
  BY LenProperties DEF Elf!SectionsDistinct, Elf!IsSequence
<1> QED BY <1>1 DEF Elf!SectionsNamed, Elf!Headers, Elf!SectionsDistinct

LEMMA OneTable ==
    ASSUME NEW f, Elf!Counted(f), Elf!SectionsDistinct(f), NEW i \in DOMAIN f.sections
    PROVE  Elf!Contents(f, f.sections[i].type, Elf!SectionName(f, i)) = f.sections[i].entries
<1>1. {j \in Elf!SectionsNamed(f, Elf!SectionName(f, i)) :
          f.sections[j].type = f.sections[i].type} = {i}
  BY OneSection
<1>2. i \in Nat /\ {i} # {}
  BY OneSection
<1> QED BY <1>1, <1>2, OnlyMember DEF Elf!Contents

LEMMA ContentsOf ==
    ASSUME NEW f, Elf!Counted(f), Elf!SectionsDistinct(f), NEW type, NEW name,
           Elf!Contents(f, type, name) # <<>>
    PROVE  \E i \in DOMAIN f.sections : /\ f.sections[i].type = type
                                        /\ Elf!SectionName(f, i) = name
                                        /\ Elf!Contents(f, type, name) = f.sections[i].entries
<1> DEFINE found == {j \in Elf!SectionsNamed(f, name) : f.sections[j].type = type}
<1>1. PICK i \in found : TRUE
  BY DEF Elf!Contents
<1>2. i \in DOMAIN f.sections /\ f.sections[i].type = type /\ Elf!SectionName(f, i) = name
  BY <1>1 DEF Elf!SectionsNamed, Elf!Headers
<1> QED BY <1>2, OneTable

\* What is in the two tables of symbols is all that is in any.
LEMMA TwoTables ==
    ASSUME NEW f, Elf!Counted(f), Elf!SectionsDistinct(f), Elf!SymbolsKept(f)
    PROVE  Elf!FileSymbols(f) = ToSet(Elf!Contents(f, "symtab", <<".symtab">>))
                                  \cup ToSet(Elf!Contents(f, "dynsym", <<".dynsym">>))
<1> DEFINE symtab == Elf!Contents(f, "symtab", <<".symtab">>)
           dynsym == Elf!Contents(f, "dynsym", <<".dynsym">>)
<1>1. ASSUME NEW s \in Elf!FileSymbols(f)
      PROVE  s \in ToSet(symtab) \cup ToSet(dynsym)
  <2>1. PICK i \in DOMAIN f.sections : /\ f.sections[i].type \in {"symtab", "dynsym"}
                                      /\ s \in ToSet(f.sections[i].entries)
    BY DEF Elf!FileSymbols, Elf!ToSet, ToSet
  <2>2. \/ f.sections[i].entries = symtab
        \/ f.sections[i].entries = dynsym
    BY <2>1, OneTable DEF Elf!SymbolsKept
  <2> QED BY <2>1, <2>2
<1>2. ASSUME NEW type \in {"symtab", "dynsym"}, NEW name,
             NEW s \in ToSet(Elf!Contents(f, type, name))
      PROVE  s \in Elf!FileSymbols(f)
  <2>1. Elf!Contents(f, type, name) # <<>>
    BY <1>2 DEF ToSet
  <2>2. PICK i \in DOMAIN f.sections :
                 /\ f.sections[i].type = type
                 /\ Elf!Contents(f, type, name) = f.sections[i].entries
    BY <2>1, ContentsOf
  <2> QED BY <2>2, <1>2 DEF Elf!FileSymbols, Elf!ToSet, ToSet
<1> QED BY <1>1, <1>2

\* The symbols the class lists are those another module may bind to.
LEMMA ListedIsExported ==
    ASSUME NEW f, Elf!Counted(f), Elf!SectionsDistinct(f), Elf!SymbolsKept(f)
    PROVE  Elf!Listed(f) = Elf!Exported(f)
<1> DEFINE symtab == Elf!Contents(f, "symtab", <<".symtab">>)
           dynsym == Elf!Contents(f, "dynsym", <<".dynsym">>)
<1>1. Elf!FileSymbols(f) = ToSet(symtab) \cup ToSet(dynsym)
  BY TwoTables
<1>2. /\ symtab # <<>> => Elf!SymbolTable(f) = symtab
      /\ symtab = <<>> => Elf!SymbolTable(f) = dynsym
  BY DEF Elf!SymbolTable, Elf!SymbolsKept
<1>3. ToSet(<<>>) = {} /\ \A t : Elf!ToSet(t) = ToSet(t)
  BY DEF ToSet, Elf!ToSet
<1>4. \A s \in Elf!FileSymbols(f) : s.binding \in {"local", "global", "weak"}
  BY DEF Elf!SymbolsKept
<1>5. symtab # <<>> => ToSet(dynsym) \cap Elf!Exported(f) \subseteq ToSet(symtab)
  BY <1>3 DEF Elf!SymbolsKept
<1> HIDE DEF symtab, dynsym
<1>6. ASSUME NEW s
      PROVE  s \in Elf!Listed(f) <=> s \in Elf!Exported(f)
  <2>1. s \in Elf!Listed(f) => s \in Elf!Exported(f)
    BY <1>1, <1>2, <1>3, <1>4 DEF Elf!Listed, Elf!Exported, Elf!IsVisible
  <2>2. s \in Elf!Exported(f) => s \in ToSet(Elf!SymbolTable(f))
    BY <1>1, <1>2, <1>3, <1>5 DEF Elf!Exported
  <2>3. s \in Elf!Exported(f) => s \in Elf!Listed(f)
    BY <1>3, <2>2 DEF Elf!Listed, Elf!Exported, Elf!IsVisible
  <2> QED BY <2>1, <2>3
<1> QED BY <1>6

LEMMA ElfSymbols ==
    ASSUME NEW f, Elf!Counted(f), Elf!SectionsDistinct(f), Elf!SymbolsKept(f)
    PROVE  Says(Elf!Symbols(f), Elf!FileExports(f))
<1>1. Elf!Symbols(f) = {Elf!Listing(Elf!FileExports(f))}
  BY ListedIsExported DEF Elf!Symbols, Elf!NamesRead, Elf!Counted, Elf!FileExports
<1> QED BY <1>1 DEF Says, Elf!Listing

\* Without the count there are no tables, and no symbols.
LEMMA ElfUncounted ==
    ASSUME NEW f, ~Elf!Counted(f), NEW n
    PROVE  Says(Elf!Symbols(f), {}) /\ Says(Elf!SymbolsOf(f, n), {})
<1>1. \A type, name : Elf!Contents(f, type, name) = <<>>
  BY DEF Elf!Contents, Elf!SectionsNamed, Elf!Headers
<1>2. Elf!Listed(f) = {}
  BY <1>1 DEF Elf!Listed, Elf!SymbolTable, Elf!ToSet
<1>3. /\ Elf!Symbols(f) = {Elf!Listing({}), Elf!Throws}
      /\ Elf!SymbolsOf(f, n) = {Elf!Listing({}), Elf!Throws}
  <2>1. {s \in Elf!Listed(f) : s.section = Elf!SectionIndex(f, n)} = {}
    BY <1>2
  <2>2. Elf!Names({}) = {}
    BY DEF Elf!Names
  <2> QED BY <1>2, <2>1, <2>2 DEF Elf!Symbols, Elf!SymbolsOf, Elf!NamesRead
<1> QED BY <1>3 DEF Says, Elf!Listing, Elf!Throws, Elf!Failing

LEMMA ElfSymbolsOf ==
    ASSUME NEW f, Elf!Counted(f), Elf!SectionsDistinct(f), Elf!SymbolsKept(f),
           Elf!SymbolsPlaced(f), NEW n
    PROVE  Says(Elf!SymbolsOf(f, n), Elf!FileExportsOf(f, n))
<1>1. Elf!FileHeaders(f) = DOMAIN f.sections
  BY DEF Elf!FileHeaders, Elf!Counted
<1>2. ASSUME NEW s \in Elf!Exported(f)
      PROVE  s.section = Elf!SectionIndex(f, n) <=> Elf!SectionName(f, s.section) = n
  <2>1. s.section \in DOMAIN f.sections
    BY DEF Elf!SymbolsPlaced
  <2>2. /\ s.section \in Nat \ {0} /\ s.section <= Len(f.sections)
        /\ Len(f.sections) \in Nat
    BY <2>1, OneSection
  <2>3. CASE n = <<>>
    BY <2>1, <2>2, <2>3 DEF Elf!SectionIndex, Elf!Undefined, Elf!SymbolsPlaced
  <2>4. CASE n # <<>> /\ Elf!SectionsNamed(f, n) = {}
    BY <2>1, <2>2, <2>4 DEF Elf!SectionIndex, Elf!SectionsNamed, Elf!Headers
  <2>5. CASE n # <<>> /\ Elf!SectionsNamed(f, n) # {}
    <3>1. PICK i \in DOMAIN f.sections : Elf!SectionName(f, i) = n
      BY <2>5 DEF Elf!SectionsNamed, Elf!Headers
    <3>2. Elf!SectionsNamed(f, n) = {i} /\ i \in Nat
      BY <3>1, OneSection
    <3>3. Elf!SectionIndex(f, n) = i
      BY <2>5, <3>2, OnlyMember DEF Elf!SectionIndex
    <3> QED BY <2>1, <3>1, <3>3 DEF Elf!SectionsDistinct
  <2> QED BY <2>3, <2>4, <2>5
<1>3. {s \in Elf!Listed(f) : s.section = Elf!SectionIndex(f, n)}
        = {s \in Elf!Exported(f) : /\ s.section \in Elf!FileHeaders(f)
                                  /\ Elf!SectionName(f, s.section) = n}
  BY <1>1, <1>2, ListedIsExported DEF Elf!SymbolsPlaced
<1>4. Elf!SymbolsOf(f, n) = {Elf!Listing(Elf!FileExportsOf(f, n))}
  BY <1>3 DEF Elf!SymbolsOf, Elf!NamesRead, Elf!Counted, Elf!FileExportsOf
<1> QED BY <1>4 DEF Says, Elf!Listing

\* The names of the functions of one section.
NamesIn(f, s) == {f.names[i].name : i \in
                     {j \in DOMAIN f.names : f.functions[f.names[j].ordinal] = s}}

\* The rounds over the exports of one section, each of which comes to its end.
LEMMA PeRounds ==
    ASSUME NEW f, NEW s, NEW q,
           DOMAIN q = DOMAIN f.names,
           \A i \in DOMAIN q : q[i] \in Pe!Round(f, s, i)
    PROVE  Pe!Together(q) = {Pe!Listing(NamesIn(f, s))}
<1> DEFINE of == [i \in DOMAIN f.names |->
                    IF f.functions[f.names[i].ordinal] = s THEN {f.names[i].name} ELSE {}]
<1>1. \A i \in DOMAIN q : q[i] = Pe!Listing(of[i])
  BY DEF Pe!Round
<1> HIDE DEF of
<1>2. \A i \in DOMAIN q : q[i].outcome = "list" /\ q[i].names = of[i]
  <2> SUFFICES ASSUME NEW i \in DOMAIN q
               PROVE  q[i].outcome = "list" /\ q[i].names = of[i]
    OBVIOUS
  <2>1. q[i] = [outcome |-> "list", names |-> of[i]]
    BY <1>1 DEF Pe!Listing
  <2> QED BY <2>1
<1>3. Pe!Together(q) = {Pe!Listing(UNION {q[i].names : i \in DOMAIN q})}
  BY <1>2 DEF Pe!Together
<1>4. UNION {q[i].names : i \in DOMAIN q} = UNION {of[i] : i \in DOMAIN q}
  BY <1>2
<1>5. UNION {of[i] : i \in DOMAIN q} = NamesIn(f, s)
  <2>1. \A i \in DOMAIN f.names :
           /\ f.functions[f.names[i].ordinal] = s => of[i] = {f.names[i].name}
           /\ f.functions[f.names[i].ordinal] # s => of[i] = {}
    BY DEF of
  <2>2. ASSUME NEW i \in DOMAIN q, NEW x \in of[i]
        PROVE  x \in NamesIn(f, s)
    <3>1. i \in DOMAIN f.names
      OBVIOUS
    <3>2. f.functions[f.names[i].ordinal] = s /\ x = f.names[i].name
      BY <2>1, <2>2, <3>1
    <3> QED BY <3>1, <3>2 DEF NamesIn
  <2>3. ASSUME NEW x \in NamesIn(f, s)
        PROVE  \E i \in DOMAIN q : x \in of[i]
    BY <2>1, <2>3 DEF NamesIn
  <2> QED BY <2>2, <2>3
<1> QED BY <1>3, <1>4, <1>5

LEMMA PeSymbolsOf ==
    ASSUME NEW f, Pe!ExportsNamed(f), NEW n
    PROVE  Says(Pe!SymbolsOf(f, n), Pe!FileExportsOf(f, n))
<1> DEFINE s == Pe!SectionIndex(f, n)
           found == {i \in DOMAIN f.sections : f.sections[i].name = n}
<1>1. /\ DOMAIN f.sections = 1..Len(f.sections) /\ Len(f.sections) \in Nat
      /\ DOMAIN f.names = 1..Len(f.names) /\ DOMAIN f.functions = 1..Len(f.functions)
      /\ DOMAIN f.names = DOMAIN f.functions
  BY LenProperties DEF Pe!ExportsNamed, Pe!IsSequence
<1>2. ASSUME NEW i \in found
      PROVE  i \in Nat \ {0} /\ s = IF f.sections[i].raw THEN i ELSE 0
  <2>1. i \in Nat \ {0}
    BY <1>1
  <2>2. found = {i}
    BY DEF Pe!ExportsNamed
  <2>3. Pe!Max(found) = i
    BY <2>1, <2>2, OnlyMember
  <2> QED BY <2>1, <2>3 DEF Pe!SectionIndex
<1>3. ASSUME NEW j \in DOMAIN f.names
      PROVE  LET i == f.functions[f.names[j].ordinal]
             IN  i \in DOMAIN f.sections /\ i # 0 /\ f.sections[i].raw
  BY <1>1 DEF Pe!ExportsNamed
<1>4. Pe!FileExportsOf(f, n) = {f.names[i].name : i \in
          {j \in DOMAIN f.names : f.functions[f.names[j].ordinal] \in found}}
  BY <1>3 DEF Pe!FileExportsOf, Pe!ToSet
<1>5. s = 0 \/ s \in found
  <2>1. CASE found = {}
    BY <2>1 DEF Pe!SectionIndex
  <2>2. CASE found # {}
    <3>1. PICK i \in found : TRUE
      BY <2>2
    <3> QED BY <1>2, <3>1
  <2> QED BY <2>1, <2>2
<1>6. \A j \in DOMAIN f.names :
         f.functions[f.names[j].ordinal] \in found <=>
            s # 0 /\ f.functions[f.names[j].ordinal] = s
  BY <1>2, <1>3, <1>5
<1> HIDE DEF s, found
<1>7. CASE s = 0
  <2>1. Pe!FileExportsOf(f, n) = {}
    BY <1>4, <1>6, <1>7
  <2>2. Pe!SymbolsOf(f, n) = {Pe!Listing({})}
    BY <1>7 DEF Pe!SymbolsOf, s
  <2> QED BY <2>1, <2>2 DEF Says, Pe!Listing
<1>8. CASE s # 0 /\ f.functions = <<>>
  <2>1. DOMAIN f.names = {}
    <3>1. DOMAIN f.functions = {}
      BY <1>8
    <3> QED BY <1>1, <3>1, Zenon
  <2>2. Pe!FileExportsOf(f, n) = {}
    BY <1>4, <2>1
  <2>3. Pe!SymbolsOf(f, n) = {Pe!AddressZero}
    BY <1>8 DEF Pe!SymbolsOf, s
  <2> QED BY <2>2, <2>3 DEF Says, Pe!AddressZero, Pe!Listing, Pe!Failing
<1>9. CASE s # 0 /\ f.functions # <<>>
  <2> DEFINE all == UNION {Pe!Round(f, s, i) : i \in DOMAIN f.functions}
  <2>1. ASSUME NEW a \in Pe!SymbolsOf(f, n)
        PROVE  a = Pe!Listing(Pe!FileExportsOf(f, n))
    <3>1. PICK q \in [DOMAIN f.functions -> all] :
                   /\ \A i \in DOMAIN q : q[i] \in Pe!Round(f, s, i)
                   /\ a \in Pe!Together(q)
      BY <1>9 DEF Pe!SymbolsOf, s
    <3>2. DOMAIN q = DOMAIN f.names
      BY <1>1
    <3>3. Pe!Together(q) = {Pe!Listing(NamesIn(f, s))}
      <4> HIDE DEF all
      <4> HIDE DEF s
      <4>1. \A i \in DOMAIN q : q[i] \in Pe!Round(f, s, i)
        BY <3>1
      <4> QED BY <3>2, <4>1, PeRounds
    <3>4. {j \in DOMAIN f.names : f.functions[f.names[j].ordinal] = s}
            = {j \in DOMAIN f.names : f.functions[f.names[j].ordinal] \in found}
      BY <1>6, <1>9
    <3> QED BY <1>4, <3>1, <3>3, <3>4 DEF NamesIn
  <2> QED BY <2>1 DEF Says, Pe!Listing
<1> QED BY <1>7, <1>8, <1>9

\* Where the addresses of the tables are in the file no assert fails.
LEMMA PeAsserts ==
    ASSUME NEW f, Pe!ExportsNamed(f), NEW n
    PROVE  f.functions # <<>> => \A a \in Pe!SymbolsOf(f, n) : a.outcome # "abort"
<1> DEFINE s == Pe!SectionIndex(f, n)
<1>1. DOMAIN f.names = DOMAIN f.functions
  BY LenProperties DEF Pe!ExportsNamed, Pe!IsSequence
<1> HIDE DEF s
<1>2. ASSUME f.functions # <<>>, NEW a \in Pe!SymbolsOf(f, n)
      PROVE  a.outcome = "list"
  <2>1. CASE s = 0
    BY <1>2, <2>1 DEF Pe!SymbolsOf, Pe!Listing, s
  <2>2. CASE s # 0
    <3> DEFINE all == UNION {Pe!Round(f, s, i) : i \in DOMAIN f.functions}
    <3>1. PICK q \in [DOMAIN f.functions -> all] :
                   /\ \A i \in DOMAIN q : q[i] \in Pe!Round(f, s, i)
                   /\ a \in Pe!Together(q)
      BY <1>2, <2>2 DEF Pe!SymbolsOf, s
    <3>2. DOMAIN q = DOMAIN f.names
      BY <1>1
    <3>3. Pe!Together(q) = {Pe!Listing(NamesIn(f, s))}
      <4> HIDE DEF all
      <4> HIDE DEF s
      <4>1. \A i \in DOMAIN q : q[i] \in Pe!Round(f, s, i)
        BY <3>1
      <4> QED BY <3>2, <4>1, PeRounds
    <3> QED BY <3>1, <3>3 DEF Pe!Listing
  <2> QED BY <2>1, <2>2
<1> QED BY <1>2

LEMMA AllSectionsIsSeq ==
    ASSUME NEW f, Macho!SectionsDistinct(f)
    PROVE  LET all == Macho!AllSections(f)
           IN  DOMAIN all = 1..Len(all) /\ Len(all) \in Nat
<1> DEFINE S == UNION {ToSet(f[i].sections) : i \in Macho!Commands(f, "segment")}
           each == [i \in DOMAIN f |-> IF i \in Macho!Commands(f, "segment")
                                      THEN f[i].sections ELSE <<>>]
<1>1. DOMAIN f = 1..Len(f) /\ Len(f) \in Nat
  BY LenProperties DEF Macho!SectionsDistinct, Macho!IsSequence
<1>2. \A i \in Macho!Commands(f, "segment") : f[i].sections \in Seq(ToSet(f[i].sections))
  BY DEF Macho!SectionsDistinct, Macho!IsSequence, Macho!ToSet, ToSet
<1>3. \A i \in Macho!Commands(f, "segment") : f[i].sections \in Seq(S)
  <2> SUFFICES ASSUME NEW i \in Macho!Commands(f, "segment")
               PROVE  f[i].sections \in Seq(S)
    OBVIOUS
  <2>1. ToSet(f[i].sections) \subseteq S
    OBVIOUS
  <2> HIDE DEF S
  <2> QED BY <1>2, <2>1, SeqOfMore
<1> HIDE DEF S
<1>4. \A i \in DOMAIN f : each[i] \in Seq(S)
  BY <1>3
<1>5. each \in [1..Len(f) -> Seq(S)]
  BY <1>1, <1>4
<1>6. each \in Seq(Seq(S))
  BY <1>1, <1>5
<1>7. Macho!AllSections(f) = Macho!FlattenSeq(each)
  BY DEF Macho!AllSections
<1> HIDE DEF each
<1>8. Macho!AllSections(f) \in Seq(S)
  BY <1>6, <1>7, FlattenIsSeq
<1> QED BY <1>8, LenProperties

\* Among sections with names of their own the place of a name is an index.
LEMMA PlaceIsIndex ==
    ASSUME NEW f, Macho!SectionsDistinct(f), NEW j \in DOMAIN Macho!AllSections(f)
    PROVE  j \in Nat \ {0} /\ Macho!Place(f, Macho!AllSections(f)[j]) = j
<1> DEFINE all == Macho!AllSections(f)
<1>1. DOMAIN all = 1..Len(all) /\ Len(all) \in Nat
  BY AllSectionsIsSeq
<1>2. j \in Nat \ {0}
  BY <1>1
<1>3. {i \in DOMAIN all : all[i] = all[j]} = {j}
  BY DEF Macho!SectionsDistinct
<1>4. Macho!Min({j}) = j
  BY <1>2 DEF Macho!Min
<1>5. {i \in 1..j : all[i] # <<>>} = 1..j
  BY <1>1, <1>2 DEF Macho!SectionsDistinct
<1>6. Cardinality(1..j) = j
  BY <1>2, FS_Interval
<1>7. Macho!Cardinality(1..j) = Cardinality(1..j)
  BY DEF Macho!Cardinality, Cardinality
<1> QED BY <1>2, <1>3, <1>4, <1>5, <1>6, <1>7 DEF Macho!Place

LEMMA MachoSymbols ==
    ASSUME NEW f, Macho!SymbolsExternal(f)
    PROVE  Macho!Symbols(f) = Macho!FileExports(f)
<1>1. {x \in Macho!FileSymbols(f) : Macho!Gathers(x, 0)} = Macho!Exported(f)
  BY DEF Macho!Exported, Macho!Gathers, Macho!Defined, Macho!SymbolsExternal,
         Macho!NoSection
<1> QED BY <1>1 DEF Macho!Symbols, Macho!SymbolNames, Macho!FileExports, Macho!NoSection

LEMMA MachoSymbolsOf ==
    ASSUME NEW f, Macho!SymbolsExternal(f), Macho!SectionsDistinct(f), NEW n
    PROVE  Macho!SymbolsOf(f, n) = Macho!FileExportsOf(f, n)
<1> DEFINE all == Macho!AllSections(f)
<1>1. \A s \in Macho!Exported(f) : s.sect \in DOMAIN all
  BY DEF Macho!Exported, Macho!Defined, Macho!SectionsDistinct
<1>2. CASE n \in Macho!Sections(f)
  <2>1. PICK j \in DOMAIN all : all[j] = n
    BY <1>2 DEF Macho!Sections, Macho!ToSet
  <2>2. Macho!Place(f, n) = j /\ j # 0
    BY <2>1, PlaceIsIndex
  <2>3. {x \in Macho!FileSymbols(f) : Macho!Gathers(x, j)}
          = {x \in Macho!Exported(f) : all[x.sect] = n}
    BY <1>1, <2>1, <2>2 DEF Macho!Gathers, Macho!Defined, Macho!Exported,
       Macho!SymbolsExternal, Macho!SectionsDistinct, Macho!NoSection
  <2> QED BY <1>2, <2>2, <2>3 DEF Macho!SymbolsOf, Macho!SymbolNames, Macho!FileExportsOf
<1>3. CASE n \notin Macho!Sections(f)
  <2>1. \A s \in Macho!Exported(f) : all[s.sect] # n
    BY <1>1, <1>3 DEF Macho!Sections, Macho!ToSet, Macho!SectionsDistinct
  <2> QED BY <1>3, <2>1 DEF Macho!SymbolsOf, Macho!FileExportsOf
<1> QED BY <1>2, <1>3

-----------------------------------------------------------------------------
\* A step keeps the last question and its answer, forgets them or asks anew,
\* always about the same file.
LEMMA StepAnswers ==
    ASSUME [Next]_vars
    PROVE  /\ file' = file
           /\ \/ UNCHANGED <<asked, answer>>
              \/ asked'.question = "none" /\ answer'.outcome = "list"
              \/ AskSections \/ AskSymbols
              \/ \E n \in SectionNames : AskSymbolsOf(n)
<1>1. CASE UNCHANGED vars
  BY <1>1 DEF vars
<1>2. CASE Next
  <2>1. CASE Close
    BY <2>1 DEF Close, Nothing, Listing
  <2>2. CASE \E native \in BOOLEAN : Open(native)
    BY <2>2 DEF Open
  <2>3. CASE ProbeMatches \/ ProbeNext \/ ProbeFails \/ Cut
    BY <2>3 DEF ProbeMatches, ProbeNext, ProbeFails, Cut
  <2>4. AskSections \/ AskSymbols \/ (\E n \in SectionNames : AskSymbolsOf(n)) => file' = file
    BY DEF AskSections, AskSymbols, AskSymbolsOf, Answer
  <2> QED BY <1>2, <2>1, <2>2, <2>3, <2>4 DEF Next, Step
<1> QED BY <1>1, <1>2

\* An answer that is a list is one the class gave, never a part of it.
LEMMA AnswerSays ==
    ASSUME NEW q, NEW n, NEW full, NEW names, Says(full, names), Answer(q, n, full)
    PROVE  /\ asked'.question = q /\ asked'.section = n
           /\ answer'.outcome = "list" => answer'.names = names
<1>1. answer' \in full \/ answer' = Throws
  BY DEF Answer, Outcomes
<1>2. answer'.outcome = "list" => answer' \in full
  BY <1>1 DEF Throws, Failing
<1> QED BY <1>2 DEF Answer, Says

\* Where a binary is asked about the class is the one for it.
LEMMA AskedOf ==
    ASSUME LIInv, pc = "open", IsBinary
    PROVE  /\ fmt.format = file.format /\ file.format \in Formats
           /\ file.body \in Bodies(file.format)
<1>1. fmt.format = file.format
  <2>1. ~file.blanks
    BY BinaryIs DEF LIInv, IsBinary
  <2> QED BY <2>1 DEF LIInv, FormatIsFile, BlanksSkipped
<1>2. file.body \in Bodies(file.format)
  BY DEF LIInv, TypeOK, Bodies
<1> QED BY <1>1, <1>2 DEF IsBinary

LEMMA AskSectionsSays ==
    ASSUME LIInv, SectionsAsLinked, AskSections, file.format = "elf", Counted,
           answer'.outcome = "list"
    PROVE  /\ answer'.names \subseteq FileSections
           /\ \A n \in FileSections : \E m \in answer'.names : Elf!Ends(n, m)
<1>1. pc = "open" /\ IsBinary
  BY DEF AskSections, Answer, IsBinary, Formats
<1>2. Answer("sections", <<>>, Elf!Sections(file.body))
  BY <1>1, AskedOf DEF AskSections
<1>3. answer' \in Elf!Sections(file.body)
  <2>1. answer' \in Elf!Sections(file.body) \/ answer' = Throws
    BY <1>2 DEF Answer, Outcomes
  <2> QED BY <2>1 DEF Throws, Failing
<1>4. Elf!Counted(file.body) /\ Elf!NamesWhole(file.body)
  BY <1>1, AskedOf DEF Counted, SectionsAsLinked, CountedBodies
<1>5. FileSections = Elf!FileSections(file.body)
  BY DEF FileSections
<1> QED BY <1>3, <1>4, <1>5, ElfSections

LEMMA AskSymbolsSays ==
    ASSUME LIInv, SymbolsAsLinked, AskSymbols, IsBinary
    PROVE  asked'.question = "symbols"
              /\ (answer'.outcome = "list"
                    => answer'.names = IF Counted THEN FileExports ELSE {})
<1>1. pc = "open"
  BY DEF AskSymbols, Answer
<1>2. CASE file.format = "elf"
  <2>1. Answer("symbols", <<>>, Elf!Symbols(file.body))
    BY <1>1, <1>2, AskedOf DEF AskSymbols
  <2>2. CASE Counted
    <3>1. Says(Elf!Symbols(file.body), FileExports)
      BY <1>1, <1>2, <2>2, AskedOf, ElfSymbols
         DEF SymbolsAsLinked, CountedBodies, Counted, FileExports
    <3> QED BY <2>1, <2>2, <3>1, AnswerSays
  <2>3. CASE ~Counted
    <3>1. Says(Elf!Symbols(file.body), {})
      BY <2>3, ElfUncounted DEF Counted
    <3> QED BY <2>1, <2>3, <3>1, AnswerSays
  <2> QED BY <2>2, <2>3
<1>3. CASE file.format = "pe"
  <2>1. Answer("symbols", <<>>, {Listing(Pe!Symbols(file.body))})
    BY <1>1, <1>3, AskedOf DEF AskSymbols
  <2>2. Counted /\ FileExports = Pe!Symbols(file.body)
    BY <1>3 DEF Counted, FileExports, Pe!Symbols, Pe!FileExports, Pe!ToSet
  <2>3. Says({Listing(Pe!Symbols(file.body))}, FileExports)
    BY <2>2, OneListing
  <2> QED BY <2>1, <2>2, <2>3, AnswerSays
<1>4. CASE file.format = "macho"
  <2>1. Answer("symbols", <<>>, {Listing(Macho!Symbols(file.body))})
    BY <1>1, <1>4, AskedOf DEF AskSymbols
  <2>2. Counted /\ FileExports = Macho!Symbols(file.body)
    BY <1>1, <1>4, AskedOf, MachoSymbols DEF Counted, FileExports, SymbolsAsLinked
  <2>3. Says({Listing(Macho!Symbols(file.body))}, FileExports)
    BY <2>2, OneListing
  <2> QED BY <2>1, <2>2, <2>3, AnswerSays
<1> QED BY <1>1, <1>2, <1>3, <1>4, AskedOf DEF Formats

LEMMA AskSymbolsOfSays ==
    ASSUME LIInv, PlacesAsLinked, NEW n, AskSymbolsOf(n), IsBinary
    PROVE  asked'.question = "symbols_of" /\ asked'.section = n
              /\ (answer'.outcome = "list"
                    => answer'.names = IF Counted THEN FileExportsOf(n) ELSE {})
<1>1. pc = "open"
  BY DEF AskSymbolsOf, Answer
<1>2. CASE file.format = "elf"
  <2>1. Answer("symbols_of", n, Elf!SymbolsOf(file.body, n))
    BY <1>1, <1>2, AskedOf DEF AskSymbolsOf
  <2>2. CASE Counted
    <3>1. Says(Elf!SymbolsOf(file.body, n), FileExportsOf(n))
      BY <1>1, <1>2, <2>2, AskedOf, ElfSymbolsOf
         DEF PlacesAsLinked, SymbolsAsLinked, CountedBodies, Counted, FileExportsOf
    <3> QED BY <2>1, <2>2, <3>1, AnswerSays
  <2>3. CASE ~Counted
    <3>1. Says(Elf!SymbolsOf(file.body, n), {})
      BY <2>3, ElfUncounted DEF Counted
    <3> QED BY <2>1, <2>3, <3>1, AnswerSays
  <2> QED BY <2>2, <2>3
<1>3. CASE file.format = "pe"
  <2>1. Answer("symbols_of", n, Pe!SymbolsOf(file.body, n))
    BY <1>1, <1>3, AskedOf DEF AskSymbolsOf
  <2>2. Counted /\ Says(Pe!SymbolsOf(file.body, n), FileExportsOf(n))
    BY <1>1, <1>3, AskedOf, PeSymbolsOf DEF Counted, FileExportsOf, PlacesAsLinked
  <2> QED BY <2>1, <2>2, AnswerSays
<1>4. CASE file.format = "macho"
  <2>1. Answer("symbols_of", n, {Listing(Macho!SymbolsOf(file.body, n))})
    BY <1>1, <1>4, AskedOf DEF AskSymbolsOf
  <2>2. Counted /\ FileExportsOf(n) = Macho!SymbolsOf(file.body, n)
    BY <1>1, <1>4, AskedOf, MachoSymbolsOf
       DEF Counted, FileExportsOf, PlacesAsLinked, SymbolsAsLinked
  <2>3. Says({Listing(Macho!SymbolsOf(file.body, n))}, FileExportsOf(n))
    BY <2>2, OneListing
  <2> QED BY <2>1, <2>2, <2>3, AnswerSays
<1> QED BY <1>1, <1>2, <1>3, <1>4, AskedOf DEF Formats

\* What the file says stays.
LEMMA FileStays ==
    ASSUME file' = file
    PROVE  /\ Counted' <=> Counted
           /\ IsBinary' <=> IsBinary
           /\ FileSections' = FileSections /\ FileExports' = FileExports
           /\ \A n : FileExportsOf(n)' = FileExportsOf(n)
  BY DEF Counted, IsBinary, FileSections, FileExports, FileExportsOf

LEMMA AskQuestions ==
    /\ AskSections => asked'.question = "sections"
    /\ AskSymbols => asked'.question = "symbols"
    /\ \A n : AskSymbolsOf(n) => asked'.question = "symbols_of"
  BY DEF AskSections, AskSymbols, AskSymbolsOf, Answer

LEMMA InitAsked == Init => asked.question = "none" /\ answer.outcome = "list"
  BY DEF Init, Closed, Nothing, Listing

(***************************************************************************)
(* sections() of an ELF file invents no section and misses none but those  *)
(* whose name is the end of another, whatever reads the cut of the file    *)
(* makes fail: for any tables in which each string is the whole name of    *)
(* some section, however many other names share it.                        *)
(***************************************************************************)
THEOREM LibraryInfoSections ==
    ASSUME SectionsAsLinked
    PROVE  Spec => []OnlyEndsMissed
<1>1. Init => OnlyEndsMissed
  BY InitAsked DEF OnlyEndsMissed
<1>2. ASSUME LIInv, OnlyEndsMissed, [Next]_vars
      PROVE  OnlyEndsMissed'
  <2>1. file' = file
    BY <1>2, StepAnswers
  <2>2. CASE UNCHANGED <<asked, answer>>
    BY <1>2, <2>1, <2>2, FileStays DEF OnlyEndsMissed
  <2>3. CASE AskSections
    BY <1>2, <2>1, <2>3, FileStays, AskSectionsSays DEF OnlyEndsMissed
  <2>4. CASE asked'.question # "sections"
    BY <2>4 DEF OnlyEndsMissed
  <2> QED BY <1>2, <2>2, <2>3, <2>4, StepAnswers, AskQuestions
<1> QED BY <1>1, <1>2, LibraryInfoInvariant, PTL DEF Spec

(***************************************************************************)
(* symbols() lists the exports, all of them and nothing else, of the table *)
(* that is left: if the tables have their usual names and strings, and a   *)
(* Mach-O file has no symbols but external ones.                           *)
(***************************************************************************)
THEOREM LibraryInfoSymbols ==
    ASSUME SymbolsAsLinked
    PROVE  Spec => []SymbolsListed
<1>1. Init => SymbolsListed
  BY InitAsked DEF SymbolsListed
<1>2. ASSUME LIInv, SymbolsListed, [Next]_vars
      PROVE  SymbolsListed'
  <2>1. file' = file
    BY <1>2, StepAnswers
  <2>2. CASE UNCHANGED <<asked, answer>>
    <3>1. (IF Counted THEN FileExports ELSE {})' = IF Counted THEN FileExports ELSE {}
      BY <2>1, <2>2, FileStays
    <3> QED BY <1>2, <2>1, <2>2, <3>1, FileStays DEF SymbolsListed, Complete
  <2>3. CASE AskSymbols
    <3>1. CASE ~IsBinary
      BY <2>1, <3>1, FileStays DEF SymbolsListed
    <3>2. CASE IsBinary
      <4>1. answer'.outcome = "list" => answer'.names = IF Counted THEN FileExports ELSE {}
        BY <1>2, <2>3, <3>2, AskSymbolsSays
      <4> QED BY <2>1, <4>1, FileStays DEF SymbolsListed, Complete
    <3> QED BY <3>1, <3>2
  <2>4. CASE asked'.question # "symbols"
    BY <2>4 DEF SymbolsListed
  <2> QED BY <1>2, <2>2, <2>3, <2>4, StepAnswers, AskQuestions
<1> QED BY <1>1, <1>2, LibraryInfoInvariant, PTL DEF Spec

(***************************************************************************)
(* symbols(section_name) lists the exports of that section: if no two      *)
(* sections have one name, a PE file exports every function under one      *)
(* name, and the Mach-O file's nameless sections do not shift the index.   *)
(***************************************************************************)
THEOREM LibraryInfoSectionSymbols ==
    ASSUME PlacesAsLinked
    PROVE  Spec => []SectionSymbolsListed
<1>1. Init => SectionSymbolsListed
  BY InitAsked DEF SectionSymbolsListed
<1>2. ASSUME LIInv, SectionSymbolsListed, [Next]_vars
      PROVE  SectionSymbolsListed'
  <2>1. file' = file
    BY <1>2, StepAnswers
  <2>2. CASE UNCHANGED <<asked, answer>>
    <3>1. (IF Counted THEN FileExportsOf(asked.section) ELSE {})' = IF Counted THEN FileExportsOf(asked.section) ELSE {}
      BY <2>1, <2>2, FileStays
    <3> QED BY <1>2, <2>1, <2>2, <3>1, FileStays DEF SectionSymbolsListed, Complete
  <2>3. CASE \E n \in SectionNames : AskSymbolsOf(n)
    <3>1. CASE ~IsBinary
      BY <2>1, <3>1, FileStays DEF SectionSymbolsListed
    <3>2. CASE IsBinary
      <4>1. PICK n \in SectionNames : AskSymbolsOf(n)
        BY <2>3
      <4>2. /\ asked'.section = n
            /\ answer'.outcome = "list"
                 => answer'.names = IF Counted THEN FileExportsOf(n) ELSE {}
        BY <1>2, <3>2, <4>1, AskSymbolsOfSays
      <4> QED BY <2>1, <4>2, FileStays DEF SectionSymbolsListed, Complete
    <3> QED BY <3>1, <3>2
  <2>4. CASE asked'.question # "symbols_of"
    BY <2>4 DEF SectionSymbolsListed
  <2> QED BY <1>2, <2>2, <2>3, <2>4, StepAnswers, AskQuestions
<1> QED BY <1>1, <1>2, LibraryInfoInvariant, PTL DEF Spec

\* Nothing but the exports of a PE file makes an assert fail.
LEMMA ElfNoAssert ==
    ASSUME NEW f, NEW n
    PROVE  \A a \in Elf!Sections(f) \cup Elf!Symbols(f) \cup Elf!SymbolsOf(f, n) :
              a.outcome # "abort"
  BY DEF Elf!Sections, Elf!Symbols, Elf!SymbolsOf, Elf!NamesRead, Elf!Listing,
         Elf!Throws, Elf!Failing

LEMMA AnswerNoAssert ==
    ASSUME NEW q, NEW n, NEW full, \A a \in full : a.outcome # "abort",
           Answer(q, n, full)
    PROVE  answer'.outcome # "abort"
  BY DEF Answer, Outcomes, Throws, Failing

LEMMA ListNoAssert ==
    ASSUME NEW q, NEW n, NEW names, Answer(q, n, {Listing(names)})
    PROVE  answer'.outcome # "abort"
  BY DEF Answer, Outcomes, Throws, Failing, Listing

LEMMA AnythingNoAssert ==
    ASSUME NEW q, NEW n, Answer(q, n, Anything)
    PROVE  answer'.outcome # "abort"
<1>1. \A a \in Anything : a.outcome # "abort"
  BY AnythingKinds
<1> QED BY <1>1, AnswerNoAssert

\* Where an object is open its format is one of three.
LEMMA AskedFormat ==
    ASSUME LIInv, pc = "open"
    PROVE  \/ fmt.format # file.format
           \/ fmt.format = file.format /\ file.format = "elf"
           \/ fmt.format = file.format /\ file.format = "pe"
           \/ fmt.format = file.format /\ file.format = "macho"
<1>1. fmt.format \in {"elf", "pe", "macho"}
  BY OpenFormat DEF Formats
<1> QED BY <1>1

(***************************************************************************)
(* The asserts of pe_info.hpp hold in every call, if every PE file has an  *)
(* export directory and a name for each of its functions.                  *)
(***************************************************************************)
THEOREM LibraryInfoAsserts ==
    ASSUME AddressesThere
    PROVE  Spec => []AssertsHold
<1>1. Init => AssertsHold
  BY InitAsked DEF AssertsHold
<1>2. ASSUME LIInv, AssertsHold, [Next]_vars
      PROVE  AssertsHold'
  <2>1. CASE AskSections
    <3>1. pc = "open"
      BY <2>1 DEF AskSections, Answer
    <3>2. \/ Answer("sections", <<>>, Anything)
          \/ Answer("sections", <<>>, Elf!Sections(file.body))
          \/ \E names : Answer("sections", <<>>, {Listing(names)})
      <4>1. CASE fmt.format # file.format
        BY <2>1, <4>1 DEF AskSections
      <4>2. CASE fmt.format = file.format /\ file.format = "elf"
        BY <2>1, <4>2 DEF AskSections
      <4>3. CASE fmt.format = file.format /\ file.format = "pe"
        BY <2>1, <4>3 DEF AskSections
      <4>4. CASE fmt.format = file.format /\ file.format = "macho"
        BY <2>1, <4>4 DEF AskSections
      <4> QED BY <1>2, <3>1, <4>1, <4>2, <4>3, <4>4, AskedFormat
    <3>3. \A a \in Elf!Sections(file.body) : a.outcome # "abort"
      BY ElfNoAssert
    <3> QED BY <3>2, <3>3, AnythingNoAssert, AnswerNoAssert, ListNoAssert DEF AssertsHold
  <2>2. CASE AskSymbols
    <3>1. pc = "open"
      BY <2>2 DEF AskSymbols, Answer
    <3>2. \/ Answer("symbols", <<>>, Anything)
          \/ Answer("symbols", <<>>, Elf!Symbols(file.body))
          \/ \E names : Answer("symbols", <<>>, {Listing(names)})
      <4>1. CASE fmt.format # file.format
        BY <2>2, <4>1 DEF AskSymbols
      <4>2. CASE fmt.format = file.format /\ file.format = "elf"
        BY <2>2, <4>2 DEF AskSymbols
      <4>3. CASE fmt.format = file.format /\ file.format = "pe"
        BY <2>2, <4>3 DEF AskSymbols
      <4>4. CASE fmt.format = file.format /\ file.format = "macho"
        BY <2>2, <4>4 DEF AskSymbols
      <4> QED BY <1>2, <3>1, <4>1, <4>2, <4>3, <4>4, AskedFormat
    <3>3. \A a \in Elf!Symbols(file.body) : a.outcome # "abort"
      BY ElfNoAssert
    <3> QED BY <3>2, <3>3, AnythingNoAssert, AnswerNoAssert, ListNoAssert DEF AssertsHold
  <2>3. CASE \E n \in SectionNames : AskSymbolsOf(n)
    <3>1. PICK n \in SectionNames : AskSymbolsOf(n)
      BY <2>3
    <3>2. pc = "open"
      BY <3>1 DEF AskSymbolsOf, Answer
    <3>3. CASE fmt.format # file.format
      <4>1. Answer("symbols_of", n, Anything)
        BY <3>1, <3>3 DEF AskSymbolsOf
      <4> QED BY <4>1, AnythingNoAssert DEF AssertsHold
    <3>4. CASE fmt.format = file.format /\ file.format = "elf"
      <4>1. Answer("symbols_of", n, Elf!SymbolsOf(file.body, n))
        BY <3>1, <3>4 DEF AskSymbolsOf
      <4> QED BY <4>1, ElfNoAssert, AnswerNoAssert DEF AssertsHold
    <3>5. CASE fmt.format = file.format /\ file.format = "pe"
      <4>1. Answer("symbols_of", n, Pe!SymbolsOf(file.body, n))
        BY <3>1, <3>5 DEF AskSymbolsOf
      <4>2. file.body \in Bodies("pe")
        BY <1>2, <3>5 DEF LIInv, TypeOK, Bodies
      <4>3. \A a \in Pe!SymbolsOf(file.body, n) : a.outcome # "abort"
        BY <4>2, PeAsserts DEF AddressesThere
      <4> QED BY <4>1, <4>3, AnswerNoAssert DEF AssertsHold
    <3>6. CASE fmt.format = file.format /\ file.format = "macho"
      <4>1. Answer("symbols_of", n, {Listing(Macho!SymbolsOf(file.body, n))})
        BY <3>1, <3>6 DEF AskSymbolsOf
      <4> QED BY <4>1, ListNoAssert DEF AssertsHold
    <3> QED BY <1>2, <3>2, <3>3, <3>4, <3>5, <3>6, AskedFormat
  <2> QED BY <1>2, <2>1, <2>2, <2>3, StepAnswers DEF AssertsHold
<1> QED BY <1>1, <1>2, LibraryInfoInvariant, PTL DEF Spec
=============================================================================
