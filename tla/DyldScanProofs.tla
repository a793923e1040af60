---------------------------- MODULE DyldScanProofs ----------------------------
(***************************************************************************)
(* The scan of path_from_handle() on macOS is right for any number of      *)
(* images, and whatever other threads load and unload meanwhile.           *)
(***************************************************************************)
EXTENDS DyldScan, SequenceTheorems, TLAPS

USE DyldScanAssumption

\* A sequence without its k-th element: what is before it, then what is after.
LEMMA RemoveAtProperties ==
    ASSUME NEW S, NEW s \in Seq(S), NEW k \in 1..Len(s)
    PROVE  /\ RemoveAt(s, k) \in Seq(S)
           /\ Len(RemoveAt(s, k)) = Len(s) - 1
           /\ \A p \in 1..Len(s) - 1 :
                 RemoveAt(s, k)[p] = IF p < k THEN s[p] ELSE s[p + 1]
<1>0. \E before, after \in Seq(S) :
         /\ RemoveAt(s, k) = before \o after
         /\ Len(before) = k - 1 /\ \A p \in 1..k - 1 : before[p] = s[p]
         /\ Len(after) = Len(s) - k /\ \A p \in 1..Len(s) - k : after[p] = s[k + p]
  <2> DEFINE b == SubSeq(s, 1, k - 1)
             a == SubSeq(s, k + 1, Len(s))
  <2>1. b \in Seq(S) /\ Len(b) = k - 1 /\ \A p \in 1..k - 1 : b[p] = s[p]
    <3>1. \A p \in 1..k - 1 : s[p] \in S
      OBVIOUS
    <3> QED BY <3>1, SubSeqProperties
  <2>2. /\ a \in Seq(S) /\ Len(a) = Len(s) - k
        /\ \A p \in 1..Len(s) - k : a[p] = s[k + p]
    <3>1. \A p \in k + 1..Len(s) : s[p] \in S
      OBVIOUS
    <3> QED BY <3>1, SubSeqProperties
  <2>3. RemoveAt(s, k) = b \o a
    BY DEF RemoveAt
  <2> HIDE DEF a, b
  <2> QED BY <2>1, <2>2, <2>3, Zenon
<1>1. PICK before \in Seq(S), after \in Seq(S) :
         /\ RemoveAt(s, k) = before \o after
         /\ Len(before) = k - 1 /\ \A p \in 1..k - 1 : before[p] = s[p]
         /\ Len(after) = Len(s) - k /\ \A p \in 1..Len(s) - k : after[p] = s[k + p]
  BY <1>0, Zenon
<1>2. /\ Len(before) = k - 1 /\ \A p \in 1..k - 1 : before[p] = s[p]
      /\ Len(after) = Len(s) - k /\ \A p \in 1..Len(s) - k : after[p] = s[k + p]
  BY <1>1
<1>3. before \o after \in Seq(S) /\ Len(before \o after) = Len(s) - 1
  BY <1>2, ConcatProperties
<1>4. ASSUME NEW p \in 1..Len(s) - 1
      PROVE  (before \o after)[p] = IF p < k THEN s[p] ELSE s[p + 1]
  <2>1. CASE p < k
    BY <1>2, <2>1, ConcatProperties
  <2>2. CASE ~(p < k)
    <3>1. PICK q \in 1..Len(s) - k : q = p - Len(before) /\ k + q = p + 1
      BY <1>2, <2>2
    <3>2. (before \o after)[p] = after[q]
      BY <1>2, <2>2, <3>1, ConcatProperties
    <3> QED BY <1>2, <2>2, <3>1, <3>2
  <2> QED BY <2>1, <2>2
<1> QED BY <1>1, <1>3, <1>4

\* dyld's own data.
DyldOK ==
    /\ images \in Seq(Libs) /\ IsInjective(images)
    /\ refs \in [Libs -> Nat]
    /\ cell \in [Libs -> Cells \cup {NULL}] /\ text \in [Cells -> Libs \cup {Garbage}]
    /\ ToSet(images) = Loaded
    /\ \A l \in Libs : IF l \in Loaded THEN cell[l] \in Cells /\ text[cell[l]] = l
                       ELSE cell[l] = NULL

ScanOK ==
    /\ others \in [Libs -> 0..MaxRefs]
    /\ target \in Targets
    /\ pc \in {"idle", "name", "open", "close", "convert", "found", "missing"}
    /\ i \in 0..count + 1 /\ count \in Nat
    /\ name \in Cells \cup {Program, NULL}
    /\ path \in Libs \cup {Program, NULL, Garbage}
    /\ probe \in Libs \cup {Program, NULL}
    /\ removed \in BOOLEAN

LEMMA TypeParts == TypeOK <=> DyldOK /\ ScanOK
BY DEF TypeOK, DyldOK, ScanOK

LEMMA Places ==
    ASSUME images \in Seq(Libs)
    PROVE  /\ IsInjective(images) <=>
                 \A p, q \in 1..Len(images) : images[p] = images[q] => p = q
           /\ ToSet(images) = {images[p] : p \in 1..Len(images)}
           /\ \A p \in 1..Len(images) : images[p] \in Libs
BY DEF IsInjective, ToSet

LEMMA AcquireKeeps ==
    ASSUME DyldOK, NEW l \in Libs, Acquire(l)
    PROVE  /\ DyldOK'
           /\ Len(images) <= Len(images')
           /\ \A p \in 1..Len(images) : images'[p] = images[p]
           /\ \A m \in Loaded : /\ cell'[m] = cell[m]
                                /\ \A c \in Cells : text'[c] = m => text[c] = m
<1>0. refs[l] \in Nat /\ refs' = [refs EXCEPT ![l] = @ + 1]
      /\ refs' \in [Libs -> Nat]
  BY DEF DyldOK, Acquire
<1>1. CASE refs[l] > 0
  <2>1. images' = images /\ cell' = cell /\ text' = text
    BY <1>1 DEF Acquire
  <2>2. Loaded' = Loaded
    BY <1>0, <1>1 DEF Loaded, DyldOK
  <2> QED BY <1>0, <2>1, <2>2 DEF DyldOK, IsInjective, ToSet
<1>2. CASE ~(refs[l] > 0)
  <2>1. PICK c \in Cells : /\ ~InUse(c)
                           /\ images' = Append(images, l)
                           /\ cell' = [cell EXCEPT ![l] = c]
                           /\ text' = [text EXCEPT ![c] = l]
    BY <1>2 DEF Acquire
  <2>2. Loaded' = Loaded \cup {l} /\ l \notin Loaded
    BY <1>0, <1>2 DEF Loaded, DyldOK
  <2>3. /\ images' \in Seq(Libs) /\ Len(images') = Len(images) + 1
        /\ \A p \in 1..Len(images) : images'[p] = images[p]
        /\ images'[Len(images) + 1] = l
    BY <2>1 DEF DyldOK
  <2>4. \A p \in 1..Len(images) : images[p] \in Loaded
    BY Places DEF DyldOK
  <2>5. \A p, q \in 1..Len(images') : images'[p] = images'[q] => p = q
    <3>1. /\ Len(images) \in Nat
          /\ \A p, q \in 1..Len(images) : images[p] = images[q] => p = q
      BY Places DEF DyldOK
    <3> HIDE DEF Loaded
    <3> QED BY <2>2, <2>3, <2>4, <3>1
  <2>6. {images'[p] : p \in 1..Len(images')} = Loaded'
    <3>0. Len(images) \in Nat
      BY DEF DyldOK
    <3>1. \A p \in 1..Len(images') : images'[p] \in Loaded'
      BY <2>2, <2>3, <2>4, <3>0
    <3>2. \A m \in Loaded' : \E p \in 1..Len(images') : images'[p] = m
      <4>1. \A m \in Loaded : \E p \in 1..Len(images) : images[p] = m
        BY Places DEF DyldOK
      <4>2. Len(images) \in Nat
        BY DEF DyldOK
      <4> QED BY <2>2, <2>3, <4>1, <4>2
    <3> QED BY <3>1, <3>2
  <2>7. \A m \in Loaded : cell[m] \in Cells /\ cell[m] # c
    BY <2>1 DEF InUse, DyldOK, Loaded
  <2>8. \A m \in Libs : IF m \in Loaded' THEN cell'[m] \in Cells /\ text'[cell'[m]] = m
                        ELSE cell'[m] = NULL
    BY <2>1, <2>2, <2>7 DEF DyldOK
  <2>9. /\ cell' \in [Libs -> Cells \cup {NULL}]
        /\ text' \in [Cells -> Libs \cup {Garbage}]
    BY <2>1 DEF DyldOK
  <2>10. DyldOK'
    <3> HIDE DEF Loaded
    <3>1. IsInjective(images)' /\ ToSet(images)' = Loaded'
      BY <2>3, <2>5, <2>6 DEF IsInjective, ToSet
    <3> QED BY <1>0, <2>3, <2>8, <2>9, <3>1 DEF DyldOK
  <2>11. Len(images) <= Len(images')
    BY <2>3 DEF DyldOK
  <2> QED BY <2>1, <2>2, <2>3, <2>7, <2>10, <2>11 DEF DyldOK, Loaded
<1> QED BY <1>1, <1>2

LEMMA ReleaseKeeps ==
    ASSUME DyldOK, NEW l \in Libs, refs[l] > 0, Release(l), removed \in BOOLEAN
    PROVE  /\ DyldOK' /\ removed' \in BOOLEAN
           /\ ~removed' => ~removed /\ images' = images
           /\ text' = text
           /\ \A m \in Libs : m # l \/ refs[l] > 1 => cell'[m] = cell[m]
<1>0. refs[l] \in Nat /\ refs' = [refs EXCEPT ![l] = @ - 1] /\ text' = text
      /\ refs' \in [Libs -> Nat]
  BY DEF DyldOK, Release
<1>1. CASE refs[l] > 1
  <2>1. images' = images /\ cell' = cell /\ removed' = removed
    BY <1>1 DEF Release
  <2>2. Loaded' = Loaded
    BY <1>0, <1>1 DEF Loaded, DyldOK
  <2> QED BY <1>0, <2>1, <2>2 DEF DyldOK, IsInjective, ToSet
<1>2. CASE ~(refs[l] > 1)
  <2>1. PICK k \in 1..Len(images) : images[k] = l /\ images' = RemoveAt(images, k)
    BY <1>2 DEF Release
  <2>2. cell' = [cell EXCEPT ![l] = NULL] /\ removed' = TRUE
    BY <1>2 DEF Release
  <2>3. Loaded' = Loaded \ {l}
    BY <1>0, <1>2 DEF Loaded, DyldOK
  <2>4. /\ images' \in Seq(Libs) /\ Len(images') = Len(images) - 1
        /\ \A p \in 1..Len(images) - 1 :
              images'[p] = IF p < k THEN images[p] ELSE images[p + 1]
    <3>1. images \in Seq(Libs)
      BY DEF DyldOK
    <3>2. /\ RemoveAt(images, k) \in Seq(Libs)
          /\ Len(RemoveAt(images, k)) = Len(images) - 1
          /\ \A p \in 1..Len(images) - 1 :
                RemoveAt(images, k)[p] = IF p < k THEN images[p] ELSE images[p + 1]
      BY <3>1, RemoveAtProperties
    <3> QED BY <2>1, <3>2
  <2>5. /\ Len(images) \in Nat
        /\ \A p, q \in 1..Len(images) : images[p] = images[q] => p = q
        /\ \A p \in 1..Len(images) : images[p] \in Loaded
        /\ \A m \in Loaded : \E p \in 1..Len(images) : images[p] = m
    BY Places DEF DyldOK
  <2>6. \A p, q \in 1..Len(images') : images'[p] = images'[q] => p = q
    BY <2>4, <2>5
  <2>7. {images'[p] : p \in 1..Len(images')} = Loaded'
    <3>1. \A p \in 1..Len(images') : images'[p] \in Loaded'
      BY <2>1, <2>3, <2>4, <2>5
    <3>2. ASSUME NEW m \in Loaded' PROVE \E p \in 1..Len(images') : images'[p] = m
      <4>1. PICK q \in 1..Len(images) : images[q] = m
        BY <2>3, <2>5, <3>2
      <4>2. q # k
        BY <2>1, <2>3, <3>2, <4>1
      <4>3. CASE q < k
        BY <2>1, <2>4, <2>5, <4>1, <4>3
      <4>4. CASE q > k
        <5>1. q - 1 \in 1..Len(images') /\ images'[q - 1] = m
          BY <2>1, <2>4, <2>5, <4>1, <4>4
        <5> QED BY <5>1
      <4> QED BY <4>2, <4>3, <4>4
    <3> QED BY <3>1, <3>2
  <2>8. \A m \in Libs : IF m \in Loaded' THEN cell'[m] \in Cells /\ text'[cell'[m]] = m
                        ELSE cell'[m] = NULL
    BY <1>0, <2>2, <2>3 DEF DyldOK
  <2>9. DyldOK'
    <3> HIDE DEF Loaded
    <3>1. IsInjective(images)' /\ ToSet(images)' = Loaded'
      BY <2>4, <2>6, <2>7 DEF IsInjective, ToSet
    <3> QED BY <1>0, <2>2, <2>4, <2>8, <3>1 DEF DyldOK
  <2> QED BY <1>0, <1>2, <2>2, <2>9 DEF DyldOK
<1> QED BY <1>1, <1>2

-----------------------------------------------------------------------------
(* The object keeps its library in the list, and the name of it in place.  *)

LEMMA TargetKept ==
    ASSUME DIInv
    PROVE  /\ \A l \in Libs : others[l] > 0 \/ probe = l =>
                 refs[l] > 0 /\ (l = target => refs[l] > 1)
           /\ target \in Libs => /\ target \in Loaded
                                /\ cell[target] \in Cells
                                /\ text[cell[target]] = target
                                /\ \E p \in 1..Len(images) : images[p] = target
<1>0. DyldOK /\ ScanOK /\ RefsExact
  BY TypeParts DEF DIInv
<1>1. \A l \in Libs : others[l] \in Nat /\ refs[l] \in Nat
  BY <1>0 DEF DyldOK, ScanOK
<1>2. target \in Libs => target \in Loaded
  BY <1>0, <1>1 DEF RefsExact, Own, Loaded
<1>3. target \in Libs => \E p \in 1..Len(images) : images[p] = target
  BY <1>0, <1>2, Places DEF DyldOK
<1> QED BY <1>0, <1>1, <1>2, <1>3 DEF RefsExact, Own, DyldOK

LEMMA LoadKeeps ==
    ASSUME DIInv, NEW l \in Libs, Acquire(l), target' = target
    PROVE  /\ DyldOK' /\ NameInv'
           /\ target \in Libs => cell'[target] = cell[target]
           /\ Len(images) <= Len(images')
           /\ \A p \in 1..Len(images) : images'[p] = images[p]
<1>0. DyldOK /\ ScanOK /\ NameInv
  BY TypeParts DEF DIInv
<1>1. /\ DyldOK'
      /\ Len(images) <= Len(images')
      /\ \A p \in 1..Len(images) : images'[p] = images[p]
      /\ \A m \in Loaded : /\ cell'[m] = cell[m]
                           /\ \A c \in Cells : text'[c] = m => text[c] = m
  BY <1>0, AcquireKeeps
<1>2. target \in Libs => target \in Loaded
  BY TargetKept
<1>3. NameInv'
  <2>1. CASE target \in Libs
    BY <1>0, <1>1, <1>2, <2>1 DEF NameInv
  <2>2. CASE target \notin Libs
    BY <1>0, <1>1, <2>2 DEF NameInv, DyldOK, ScanOK
  <2> QED BY <2>1, <2>2
<1> QED BY <1>1, <1>2, <1>3

LEMMA UnloadKeeps ==
    ASSUME DIInv, NEW l \in Libs, Release(l), target' = target,
           others[l] > 0 \/ probe = l
    PROVE  /\ DyldOK' /\ NameInv' /\ removed' \in BOOLEAN
           /\ target \in Libs => cell'[target] = cell[target]
           /\ ~removed' => ~removed /\ images' = images
<1>0. DyldOK /\ ScanOK /\ NameInv
  BY TypeParts DEF DIInv
<1>1. refs[l] > 0 /\ (l = target => refs[l] > 1)
  BY TargetKept
<1>2. /\ DyldOK' /\ removed' \in BOOLEAN
      /\ ~removed' => ~removed /\ images' = images
      /\ text' = text
      /\ \A m \in Libs : m # l \/ refs[l] > 1 => cell'[m] = cell[m]
  BY <1>0, <1>1, ReleaseKeeps DEF ScanOK
<1>3. target \in Libs => cell'[target] = cell[target]
  BY <1>1, <1>2
<1>4. NameInv'
  <2>1. CASE target \in Libs
    BY <1>0, <1>2, <1>3, <2>1 DEF NameInv
  <2>2. CASE target \notin Libs
    BY <1>0, <1>2, <2>2 DEF NameInv, DyldOK, ScanOK
  <2> QED BY <2>1, <2>2
<1> QED BY <1>2, <1>3, <1>4

-----------------------------------------------------------------------------
(* One lemma per step.                                                     *)

Rest == RefsExact /\ ProbeInv /\ AheadInv /\ FoundUndisturbed /\ PathIsTarget

LEMMA Parts ==
    /\ DIInv => DyldOK /\ ScanOK /\ NameInv /\ Rest
    /\ DyldOK' /\ ScanOK' /\ NameInv' /\ Rest' => DIInv'
BY TypeParts DEF DIInv, Rest, TypeOK, DyldOK, ScanOK

LEMMA OtherLoadsStep ==
    ASSUME DIInv, NEW l \in Libs, OtherLoads(l) PROVE DIInv'
<1>0. DyldOK /\ ScanOK /\ Rest
  BY Parts
<1>1. /\ Acquire(l) /\ others[l] < MaxRefs
      /\ others' = [others EXCEPT ![l] = @ + 1]
      /\ refs' = [refs EXCEPT ![l] = @ + 1]
      /\ UNCHANGED <<target, pc, i, count, name, path, probe, removed>>
  BY DEF OtherLoads, Acquire, scan
<1>2. /\ DyldOK' /\ NameInv'
      /\ target \in Libs => cell'[target] = cell[target]
      /\ Len(images) <= Len(images')
      /\ \A p \in 1..Len(images) : images'[p] = images[p]
  BY <1>1, LoadKeeps
<1>3. ScanOK'
  BY <1>0, <1>1 DEF ScanOK
<1>4. RefsExact'
  <2>1. /\ refs \in [Libs -> Nat] /\ others \in [Libs -> 0..MaxRefs]
        /\ \A m \in Libs : refs[m] = others[m] + Own(m) + (IF probe = m THEN 1 ELSE 0)
    BY <1>0 DEF Rest, RefsExact, DyldOK, ScanOK
  <2>2. ASSUME NEW m \in Libs
        PROVE  refs'[m] = others'[m] + Own(m)' + (IF probe' = m THEN 1 ELSE 0)
    <3>1. refs[m] \in Nat /\ others[m] \in Nat /\ Own(m) \in Nat /\ Own(m)' = Own(m)
      BY <1>1, <2>1 DEF Own
    <3>2. \/ refs'[m] = refs[m] /\ others'[m] = others[m]
          \/ refs'[m] = refs[m] + 1 /\ others'[m] = others[m] + 1
      BY <1>1, <2>1
    <3>3. refs[m] = others[m] + Own(m) + (IF probe = m THEN 1 ELSE 0)
      BY <2>1
    <3> HIDE DEF Own
    <3> QED BY <1>1, <3>1, <3>2, <3>3
  <2> QED BY <2>2 DEF RefsExact
<1>5. AheadInv'
  <2>1. Len(images) \in Nat /\ Len(images') \in Nat
    BY <1>0, <1>2 DEF DyldOK
  <2> QED BY <1>0, <1>1, <1>2, <2>1 DEF Rest, AheadInv, Ahead
<1>6. ProbeInv' /\ FoundUndisturbed' /\ PathIsTarget'
  BY <1>0, <1>1, <1>2 DEF Rest, ProbeInv, FoundUndisturbed, PathIsTarget, ScanOK
<1> QED BY <1>2, <1>3, <1>4, <1>5, <1>6, Parts DEF Rest

LEMMA OtherUnloadsStep ==
    ASSUME DIInv, NEW l \in Libs, OtherUnloads(l) PROVE DIInv'
<1>0. DyldOK /\ ScanOK /\ Rest
  BY Parts
<1>1. /\ Release(l) /\ others[l] > 0
      /\ others' = [others EXCEPT ![l] = @ - 1]
      /\ refs' = [refs EXCEPT ![l] = @ - 1]
      /\ UNCHANGED <<target, pc, i, count, name, path, probe>>
  BY DEF OtherUnloads, Release, scan
<1>2. /\ DyldOK' /\ NameInv' /\ removed' \in BOOLEAN
      /\ target \in Libs => cell'[target] = cell[target]
      /\ ~removed' => ~removed /\ images' = images
  BY <1>1, UnloadKeeps
<1>3. ScanOK'
  BY <1>0, <1>1, <1>2 DEF ScanOK
<1>4. RefsExact'
  <2>1. /\ refs \in [Libs -> Nat] /\ others \in [Libs -> 0..MaxRefs]
        /\ \A m \in Libs : refs[m] = others[m] + Own(m) + (IF probe = m THEN 1 ELSE 0)
    BY <1>0 DEF Rest, RefsExact, DyldOK, ScanOK
  <2>2. ASSUME NEW m \in Libs
        PROVE  refs'[m] = others'[m] + Own(m)' + (IF probe' = m THEN 1 ELSE 0)
    <3>1. refs[m] \in Nat /\ others[m] \in Nat /\ Own(m) \in Nat /\ Own(m)' = Own(m)
      BY <1>1, <2>1 DEF Own
    <3>2. \/ refs'[m] = refs[m] /\ others'[m] = others[m]
          \/ refs'[m] = refs[m] - 1 /\ others'[m] = others[m] - 1
      BY <1>1, <2>1
    <3>3. refs[m] = others[m] + Own(m) + (IF probe = m THEN 1 ELSE 0)
      BY <2>1
    <3> HIDE DEF Own
    <3> QED BY <1>1, <3>1, <3>2, <3>3
  <2> QED BY <2>2 DEF RefsExact
<1>5. AheadInv'
  BY <1>0, <1>1, <1>2 DEF Rest, AheadInv, Ahead
<1>6. ProbeInv' /\ FoundUndisturbed' /\ PathIsTarget'
  BY <1>0, <1>1, <1>2 DEF Rest, ProbeInv, FoundUndisturbed, PathIsTarget, ScanOK
<1> QED BY <1>2, <1>3, <1>4, <1>5, <1>6, Parts DEF Rest

\* Steps that leave dyld alone.
LEMMA DyldSame ==
    ASSUME DIInv, UNCHANGED <<dyld, others, target>>, probe' = probe \/
           (probe \notin Libs /\ probe' \notin Libs)
    PROVE  DyldOK' /\ NameInv' /\ RefsExact'
<1>0. DyldOK /\ NameInv /\ RefsExact
  BY Parts DEF Rest
<1>1. /\ images' = images /\ refs' = refs /\ cell' = cell /\ text' = text
      /\ others' = others /\ target' = target
  BY DEF dyld
<1>2. DyldOK'
  BY <1>0, <1>1 DEF DyldOK, IsInjective, ToSet, Loaded
<1>3. RefsExact'
  BY <1>0, <1>1 DEF RefsExact, Own
<1> QED BY <1>0, <1>1, <1>2, <1>3 DEF NameInv

LEMMA BeginStep == ASSUME DIInv, Begin PROVE DIInv'
<1>0. DyldOK /\ ScanOK /\ NameInv /\ Rest
  BY Parts
<1>1. /\ pc = "idle" /\ pc' = "name" /\ count' = Len(images) + 1 /\ i' = 0
      /\ removed' = FALSE
      /\ images' = images /\ UNCHANGED <<dyld, others, target, name, path, probe>>
  BY DEF Begin, dyld
<1>2. DyldOK' /\ NameInv' /\ RefsExact'
  BY <1>1, DyldSame
<1>3. Len(images) \in Nat
  BY <1>0 DEF DyldOK
<1>4. ScanOK'
  <2>1. i' \in 0..count' + 1 /\ count' \in Nat
    BY <1>1, <1>3
  <2> QED BY <1>0, <1>1, <2>1 DEF ScanOK
<1>5. AheadInv'
  <2>1. target \in Libs => \E p \in 1..Len(images) : images[p] = target
    BY TargetKept
  <2> QED BY <1>1, <1>3, <2>1 DEF AheadInv, Ahead
<1>6. ProbeInv' /\ FoundUndisturbed' /\ PathIsTarget'
  BY <1>0, <1>1 DEF Rest, ProbeInv, FoundUndisturbed, PathIsTarget
<1> QED BY <1>2, <1>4, <1>5, <1>6, Parts DEF Rest

LEMMA ReadNameStep == ASSUME DIInv, ReadName PROVE DIInv'
<1>0. DyldOK /\ ScanOK /\ NameInv /\ Rest
  BY Parts
<1>1. /\ pc = "name" /\ pc' = "open" /\ images' = images /\ cell' = cell
      /\ UNCHANGED <<dyld, others, target, i, count, path, probe, removed>>
      /\ name' = CASE i = 0 -> Program
                   [] i \in 1..Len(images) -> cell[images[i]]
                   [] OTHER -> NULL
  BY DEF ReadName, dyld
<1>2. DyldOK' /\ NameInv' /\ RefsExact'
  BY <1>1, DyldSame
<1>3. i \in Nat /\ Len(images) \in Nat /\ \A p \in 1..Len(images) : images[p] \in Libs
  BY <1>0, Places DEF DyldOK, ScanOK
<1>4. name' \in Cells \cup {Program, NULL}
  BY <1>0, <1>1, <1>3 DEF DyldOK
<1>5. ScanOK'
  BY <1>0, <1>1, <1>4 DEF ScanOK
<1>6. AheadInv'
  <2>1. \A p \in 1..Len(images) : i = p => name' = cell[images[p]]
    BY <1>1, <1>3
  <2> QED BY <1>0, <1>1, <1>3, <2>1 DEF Rest, AheadInv, Ahead
<1>7. ProbeInv' /\ FoundUndisturbed' /\ PathIsTarget'
  <2>1. pc = "name" /\ pc' = "open" /\ probe' = probe
    BY <1>1
  <2> QED BY <1>0, <2>1 DEF Rest, ProbeInv, FoundUndisturbed, PathIsTarget
<1> QED BY <1>2, <1>5, <1>6, <1>7, Parts DEF Rest

LEMMA OpenProgramStep == ASSUME DIInv, OpenProgram PROVE DIInv'
<1>0. DyldOK /\ ScanOK /\ NameInv /\ Rest
  BY Parts
<1>1. /\ pc = "open" /\ pc' = "close" /\ images' = images /\ cell' = cell
      /\ name \in {NULL, Program} /\ probe' \in {Program, NULL}
      /\ name = NULL => probe' = Program
      /\ UNCHANGED <<dyld, others, target, i, count, name, path, removed>>
  BY DEF OpenProgram, dyld
<1>2. probe = NULL
  BY <1>0, <1>1 DEF Rest, ProbeInv
<1>3. DyldOK' /\ NameInv' /\ RefsExact'
  BY <1>1, <1>2, DyldSame
<1>4. ScanOK'
  BY <1>0, <1>1 DEF ScanOK
<1>5. AheadInv'
  <2>1. target \in Libs => cell[target] \in Cells
    BY TargetKept
  <2> QED BY <1>0, <1>1, <2>1 DEF Rest, AheadInv, Ahead
<1>6. ProbeInv' /\ FoundUndisturbed' /\ PathIsTarget'
  BY <1>0, <1>1 DEF Rest, ProbeInv, FoundUndisturbed, PathIsTarget
<1> QED BY <1>3, <1>4, <1>5, <1>6, Parts DEF Rest

LEMMA OpenImageStep == ASSUME DIInv, OpenImage PROVE DIInv'
<1>0. DyldOK /\ ScanOK /\ NameInv /\ Rest
  BY Parts
<1>1. PICK l \in Libs \cap Read(name) : probe' = l /\ Acquire(l)
  BY DEF OpenImage
<1>2. /\ pc = "open" /\ pc' = "close" /\ name \in Cells
      /\ refs' = [refs EXCEPT ![l] = @ + 1]
      /\ UNCHANGED <<others, target, i, count, name, path, removed>>
  BY <1>1 DEF OpenImage, Acquire
<1>3. l \in Libs /\ l = text[name] /\ probe = NULL
  BY <1>0, <1>1, <1>2 DEF Read, Rest, ProbeInv
<1>4. /\ DyldOK' /\ NameInv'
      /\ target \in Libs => cell'[target] = cell[target]
      /\ Len(images) <= Len(images')
      /\ \A p \in 1..Len(images) : images'[p] = images[p]
  BY <1>1, <1>2, <1>3, LoadKeeps
<1>5. ScanOK'
  BY <1>0, <1>1, <1>2, <1>3 DEF ScanOK
<1>6. RefsExact'
  BY <1>0, <1>1, <1>2, <1>3 DEF Rest, RefsExact, Own, DyldOK, ScanOK
<1>7. target \in Libs /\ name = cell[target] => l = target
  BY <1>3, TargetKept
<1>8. AheadInv'
  <2>1. Len(images) \in Nat /\ Len(images') \in Nat
    BY <1>0, <1>4 DEF DyldOK
  <2> QED BY <1>0, <1>1, <1>2, <1>4, <1>7, <2>1 DEF Rest, AheadInv, Ahead
<1>9. ProbeInv' /\ FoundUndisturbed' /\ PathIsTarget'
  BY <1>0, <1>1, <1>2, <1>3, <1>4
     DEF Rest, ProbeInv, FoundUndisturbed, PathIsTarget, NameInv
<1> QED BY <1>4, <1>5, <1>6, <1>8, <1>9, Parts DEF Rest

LEMMA OpenGoneStep == ASSUME DIInv, OpenGone PROVE DIInv'
<1>0. DyldOK /\ ScanOK /\ NameInv /\ Rest
  BY Parts
<1>1. /\ pc = "open" /\ pc' = "close" /\ name \in Cells /\ probe' = NULL
      /\ images' = images /\ cell' = cell
      /\ UNCHANGED <<dyld, others, target, i, count, name, path, removed>>
  BY DEF OpenGone, dyld
<1>2. probe = NULL
  BY <1>0, <1>1 DEF Rest, ProbeInv
<1>3. DyldOK' /\ NameInv' /\ RefsExact'
  BY <1>1, <1>2, DyldSame
<1>4. ScanOK'
  BY <1>0, <1>1 DEF ScanOK
\* The name of the object's library is in use, so it leads to that.
<1>5. ~(target \in Libs /\ name = cell[target])
  <2>1. ASSUME target \in Libs, name = cell[target] PROVE FALSE
    <3>1. Read(name) \subseteq Loaded
      BY <1>1, <2>1, TargetKept DEF Read, InUse
    <3> QED BY <3>1 DEF OpenGone
  <2> QED BY <2>1
<1>6. AheadInv'
  BY <1>0, <1>1, <1>5 DEF Rest, AheadInv, Ahead
<1>7. ProbeInv' /\ FoundUndisturbed' /\ PathIsTarget'
  BY <1>0, <1>1 DEF Rest, ProbeInv, FoundUndisturbed, PathIsTarget
<1> QED BY <1>3, <1>4, <1>6, <1>7, Parts DEF Rest

LEMMA CloseStep == ASSUME DIInv, CloseAndCompare PROVE DIInv'
<1>0. DyldOK /\ ScanOK /\ NameInv /\ Rest
  BY Parts
<1>1. /\ pc = "close" /\ probe' = NULL
      /\ UNCHANGED <<others, target, count, name, path>>
      /\ \/ probe = target /\ pc' = "convert" /\ i' = i
         \/ probe # target /\ i = count /\ pc' = "missing" /\ i' = i
         \/ probe # target /\ i # count /\ pc' = "name" /\ i' = i + 1
  BY DEF CloseAndCompare, Decide
<1>2. /\ DyldOK' /\ NameInv' /\ removed' \in BOOLEAN /\ RefsExact'
      /\ target \in Libs => cell'[target] = cell[target]
      /\ ~removed' => ~removed /\ images' = images
  <2>1. CASE probe \in Libs
    <3>1. Release(probe) /\ refs' = [refs EXCEPT ![probe] = @ - 1]
      BY <2>1 DEF CloseAndCompare, Release
    <3>2. RefsExact'
      BY <1>0, <1>1, <2>1, <3>1 DEF Rest, RefsExact, Own, DyldOK, ScanOK
    <3> QED BY <1>1, <2>1, <3>1, <3>2, UnloadKeeps
  <2>2. CASE probe \notin Libs
    <3>1. UNCHANGED <<dyld, removed>> /\ images' = images /\ cell' = cell
      BY <2>2 DEF CloseAndCompare, dyld
    <3> QED BY <1>0, <1>1, <2>2, <3>1, DyldSame DEF ScanOK
  <2> QED BY <2>1, <2>2
<1>3. i \in Nat /\ count \in Nat /\ i <= count
  BY <1>0, <1>1 DEF ScanOK, Rest, AheadInv
<1>4. ScanOK'
  BY <1>0, <1>1, <1>2, <1>3 DEF ScanOK
<1>5. Len(images) \in Nat
  BY <1>0 DEF DyldOK
<1>6. AheadInv'
  BY <1>0, <1>1, <1>2, <1>3, <1>5 DEF Rest, AheadInv, Ahead
<1>7. ProbeInv'
  BY <1>0, <1>1, <1>2 DEF Rest, ProbeInv, ScanOK
<1>8. FoundUndisturbed'
  <2>1. ASSUME pc' = "missing", ~removed', target \in Libs
        PROVE  FALSE
    BY <1>0, <1>1, <1>2, <1>3, <1>5, <2>1 DEF Rest, AheadInv, Ahead
  <2>2. ASSUME pc' = "missing", target = Program
        PROVE  name' # NULL
    BY <1>0, <1>1, <2>2 DEF Rest, ProbeInv
  <2> QED BY <1>0, <1>1, <1>2, <2>1, <2>2 DEF FoundUndisturbed, ScanOK
<1>9. PathIsTarget'
  BY <1>1 DEF PathIsTarget
<1> QED BY <1>2, <1>4, <1>6, <1>7, <1>8, <1>9, Parts DEF Rest

LEMMA ConvertStep == ASSUME DIInv, Convert PROVE DIInv'
<1>0. DyldOK /\ ScanOK /\ NameInv /\ Rest
  BY Parts
<1>1. /\ pc = "convert" /\ pc' = "found" /\ path' \in Read(name)
      /\ cell' = cell
      /\ UNCHANGED <<dyld, others, target, i, count, name, probe, removed>>
  BY DEF Convert, dyld
<1>2. DyldOK' /\ NameInv' /\ RefsExact'
  BY <1>1, DyldSame
<1>3. path' = target \/ (target = Program /\ path' = NULL)
  <2>1. CASE target = Program
    BY <1>0, <1>1, <2>1 DEF Rest, ProbeInv, Read
  <2>2. CASE target # Program
    <3>1. name = cell[target] /\ target \in Libs
      BY <1>0, <1>1, <2>2 DEF Rest, ProbeInv, ScanOK
    <3> QED BY <1>1, <3>1, TargetKept DEF Read, InUse
  <2> QED BY <2>1, <2>2
<1>4. ScanOK'
  BY <1>0, <1>1, <1>3 DEF ScanOK
<1>5. AheadInv' /\ ProbeInv' /\ FoundUndisturbed' /\ PathIsTarget'
  BY <1>0, <1>1, <1>3
     DEF Rest, AheadInv, ProbeInv, FoundUndisturbed, PathIsTarget
<1> QED BY <1>2, <1>4, <1>5, Parts DEF Rest

LEMMA ReturnStep == ASSUME DIInv, Return PROVE DIInv'
<1>0. DyldOK /\ ScanOK /\ NameInv /\ Rest
  BY Parts
<1>1. /\ pc \in {"found", "missing"} /\ pc' = "idle" /\ i' = 0 /\ count' = 0
      /\ removed' = FALSE /\ name' = NULL /\ path' = NULL /\ probe' = probe
      /\ UNCHANGED <<dyld, others, target>>
  BY DEF Return
<1>2. DyldOK' /\ NameInv' /\ RefsExact'
  BY <1>1, DyldSame
<1>3. ScanOK'
  <2>1. i' \in 0..count' + 1 /\ count' \in Nat
    BY <1>1
  <2> QED BY <1>0, <1>1, <2>1 DEF ScanOK
<1>4. AheadInv' /\ ProbeInv' /\ FoundUndisturbed' /\ PathIsTarget'
  BY <1>0, <1>1 DEF Rest, AheadInv, ProbeInv, FoundUndisturbed, PathIsTarget
<1> QED BY <1>2, <1>3, <1>4, Parts DEF Rest

-----------------------------------------------------------------------------
LEMMA ScanInit == Init => DIInv
<1> SUFFICES ASSUME Init PROVE DIInv
  OBVIOUS
<1>0. target \in Libs \cup {Program}
  BY DEF Init
<1>1. CASE target \in Libs
  <2>1. images = <<target>> /\ target # Program
    BY <1>1 DEF Init
  <2>2. images \in Seq(Libs) /\ Len(images) = 1 /\ images[1] = target
    BY <1>1, <2>1
  <2>3. refs = [l \in Libs |-> IF l = target THEN 1 ELSE 0] /\ Loaded = {target}
    BY <1>1 DEF Init, Own, Loaded
  <2>4. IsInjective(images) /\ ToSet(images) = {target}
    BY <2>2, Places
  <2>5. /\ cell[target] \in Cells /\ text[cell[target]] = target
        /\ \A c \in Cells : text[c] = target => cell[target] = c
        /\ text \in [Cells -> Libs \cup {Garbage}]
    BY <1>1 DEF Init
  <2>6. DyldOK
    <3> HIDE DEF Loaded
    <3> QED BY <2>2, <2>3, <2>4, <2>5 DEF Init, DyldOK
  <2>7. ScanOK
    <3>1. i \in 0..count + 1 /\ count \in Nat
      BY DEF Init
    <3>2. others \in [Libs -> 0..MaxRefs]
      BY DEF Init
    <3> QED BY <3>1, <3>2 DEF Init, ScanOK
  <2>8. RefsExact /\ ProbeInv /\ AheadInv /\ FoundUndisturbed /\ PathIsTarget
    BY DEF Init, RefsExact, Own, ProbeInv, AheadInv, FoundUndisturbed, PathIsTarget
  <2> QED BY <2>5, <2>6, <2>7, <2>8, TypeParts DEF DIInv, NameInv
<1>2. CASE target = Program
  <2>1. images = <<>> /\ target \notin Libs
    BY <1>2 DEF Init
  <2>2. images \in Seq(Libs) /\ Len(images) = 0
    BY <2>1
  <2>3. refs = [l \in Libs |-> 0] /\ Loaded = {}
    BY <2>1 DEF Init, Own, Loaded
  <2>4. IsInjective(images) /\ ToSet(images) = {}
    BY <2>2, Places
  <2>5. text = [c \in Cells |-> Garbage] /\ \A l \in Libs : cell[l] = NULL
    BY <2>1 DEF Init
  <2>6. DyldOK
    <3> HIDE DEF Loaded
    <3> QED BY <2>2, <2>3, <2>4, <2>5 DEF Init, DyldOK
  <2>7. ScanOK
    <3>1. i \in 0..count + 1 /\ count \in Nat
      BY DEF Init
    <3>2. others \in [Libs -> 0..MaxRefs]
      BY DEF Init
    <3> QED BY <3>1, <3>2 DEF Init, ScanOK
  <2>8. RefsExact /\ ProbeInv /\ AheadInv /\ FoundUndisturbed /\ PathIsTarget
    BY DEF Init, RefsExact, Own, ProbeInv, AheadInv, FoundUndisturbed, PathIsTarget
  <2> QED BY <1>2, <2>5, <2>6, <2>7, <2>8, TypeParts DEF DIInv, NameInv
<1> QED BY <1>0, <1>1, <1>2

LEMMA ScanStep == DIInv /\ [Next]_vars => DIInv'
<1> SUFFICES ASSUME DIInv, [Next]_vars PROVE DIInv'
  OBVIOUS
<1>1. CASE UNCHANGED vars
  <2>1. /\ images' = images /\ refs' = refs /\ others' = others /\ cell' = cell
        /\ text' = text /\ target' = target /\ pc' = pc /\ i' = i /\ count' = count
        /\ name' = name /\ path' = path /\ probe' = probe /\ removed' = removed
    BY <1>1 DEF vars
  <2>2. DyldOK' /\ NameInv' /\ RefsExact'
    BY <2>1, DyldSame DEF dyld
  <2>3. DyldOK /\ ScanOK /\ NameInv /\ Rest
    BY Parts
  <2>4. ScanOK' /\ ProbeInv' /\ FoundUndisturbed' /\ PathIsTarget'
    BY <2>1, <2>3 DEF ScanOK, Rest, ProbeInv, FoundUndisturbed, PathIsTarget
  <2>5. AheadInv'
    BY <2>1, <2>3 DEF Rest, AheadInv, Ahead
  <2> QED BY <2>2, <2>4, <2>5, Parts DEF Rest
<1>2. CASE Next
  <2>1. \/ \E l \in Libs : OtherLoads(l) \/ OtherUnloads(l)
        \/ Begin \/ ReadName \/ OpenProgram \/ OpenImage \/ OpenGone
        \/ CloseAndCompare \/ Convert \/ Return
    BY <1>2, Zenon DEF Next, Scan
  <2> QED BY <2>1, OtherLoadsStep, OtherUnloadsStep, BeginStep, ReadNameStep,
             OpenProgramStep, OpenImageStep, OpenGoneStep, CloseStep, ConvertStep,
             ReturnStep
<1> QED BY <1>1, <1>2

-----------------------------------------------------------------------------
(***************************************************************************)
(* The invariant of the scan: the list of images and the memory of their   *)
(* names fit the references dyld counts, and the image of the object is    *)
(* still ahead or has been recognised, unless an image left the list.      *)
(***************************************************************************)
THEOREM ScanInvariant == Spec => []DIInv
BY ScanInit, ScanStep, PTL DEF Spec

\* The scan leaves no reference behind and takes none away.
THEOREM ScanKeepsReferences == Spec => []RefsExact
<1>1. DIInv => RefsExact
  BY DEF DIInv
<1> QED BY <1>1, ScanInvariant, PTL

\* The path is made from memory of dyld that is still the name of the image.
THEOREM ScanPath == Spec => []PathIsTarget
<1>1. DIInv => PathIsTarget
  BY DEF DIInv
<1> QED BY <1>1, ScanInvariant, PTL

\* A library is found unless an image left the list meanwhile.
THEOREM ScanFinds == Spec => []FoundUndisturbed
<1>1. DIInv => FoundUndisturbed
  BY DEF DIInv
<1> QED BY <1>1, ScanInvariant, PTL

-----------------------------------------------------------------------------
\* What the loop has left to do: at this place, and three steps for every
\* other one up to the bound.
Here == IF pc = "name" THEN 3 ELSE IF pc = "open" THEN 2 ELSE 1
Remaining == 3 * (count - i) + Here

InLoop == pc \in {"name", "open", "close"}

(***************************************************************************)
(* Why the walk ends (ScanEnds, but for fairness): in the loop a step of   *)
(* the thread leaves less to do and a step of another one as much, however *)
(* many images are loaded and unloaded meanwhile, and what is left is a    *)
(* number.                                                                 *)
(***************************************************************************)
ScanProgresses ==
    [][InLoop =>
        /\ Remaining \in Nat
        /\ InLoop' => /\ Scan => Remaining' < Remaining
                      /\ ~Scan => Remaining' = Remaining
        /\ ~InLoop' => CloseAndCompare]_vars

THEOREM ScanTerminates == Spec => ScanProgresses
<1> DEFINE P == InLoop =>
                  /\ Remaining \in Nat
                  /\ InLoop' => /\ Scan => Remaining' < Remaining
                                /\ ~Scan => Remaining' = Remaining
                  /\ ~InLoop' => CloseAndCompare
<1>1. DIInv /\ [Next]_vars => [P]_vars
  <2> SUFFICES ASSUME DIInv, Next, InLoop
               PROVE  /\ Remaining \in Nat
                      /\ InLoop' => /\ Scan => Remaining' < Remaining
                                    /\ ~Scan => Remaining' = Remaining
                      /\ ~InLoop' => CloseAndCompare
    OBVIOUS
  <2>1. count \in Nat /\ i \in Nat /\ i <= count
    BY Parts DEF ScanOK, Rest, AheadInv, InLoop
  <2>2. Remaining \in Nat
    BY <2>1 DEF Remaining, Here, InLoop
  <2>3. ASSUME NEW l \in Libs, OtherLoads(l) \/ OtherUnloads(l)
        PROVE  UNCHANGED <<pc, i, count>>
    BY <2>3 DEF OtherLoads, OtherUnloads, scan
  <2>4. ASSUME UNCHANGED <<pc, i, count>>
        PROVE  InLoop' /\ ~Scan /\ Remaining' = Remaining
    <3>1. ~Scan
      BY <2>1, <2>4 DEF Scan, ReadName, OpenProgram, OpenImage, OpenGone,
                        CloseAndCompare, Decide, Convert, InLoop
    <3> QED BY <2>4, <3>1 DEF InLoop, Remaining, Here
  <2>5. CASE ReadName \/ OpenProgram \/ OpenImage \/ OpenGone
    <3>1. /\ i' = i /\ count' = count
          /\ \/ pc = "name" /\ pc' = "open"
             \/ pc = "open" /\ pc' = "close"
      BY <2>5 DEF ReadName, OpenProgram, OpenImage, OpenGone
    <3>2. InLoop' /\ Remaining' < Remaining /\ Scan
      BY <2>1, <2>5, <3>1 DEF InLoop, Remaining, Here, Scan
    <3> QED BY <2>2, <3>2
  <2>6. CASE CloseAndCompare
    <3>1. /\ pc = "close" /\ count' = count
          /\ pc' \in {"convert", "missing"} \/ (pc' = "name" /\ i' = i + 1)
      BY <2>6 DEF CloseAndCompare, Decide
    <3>2. ASSUME InLoop' PROVE Remaining' < Remaining
      <4>1. pc' = "name" /\ i' = i + 1
        BY <3>1, <3>2 DEF InLoop
      <4>2. Here = 1 /\ Here' = 3
        BY <3>1, <4>1 DEF Here
      <4>3. Remaining = 3 * (count - i) + 1 /\ Remaining' = 3 * (count - (i + 1)) + 3
        BY <3>1, <4>1, <4>2 DEF Remaining
      <4> QED BY <2>1, <4>3
    <3> QED BY <2>2, <2>6, <3>2 DEF Scan
  <2>7. ~Begin /\ ~Convert /\ ~Return
    BY DEF Begin, Convert, Return, InLoop
  <2> QED BY <2>2, <2>3, <2>4, <2>5, <2>6, <2>7 DEF Next, Scan
<1>2. DIInv /\ DIInv' /\ [Next]_vars => [P]_vars
  BY <1>1
<1> QED BY <1>2, ScanInvariant, PTL DEF Spec, ScanProgresses
===============================================================================
