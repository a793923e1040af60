----------------------------- MODULE ImportProofs -----------------------------
(***************************************************************************)
(* The properties of Import hold for any number of threads, values,        *)
(* control blocks and libraries.                                           *)
(***************************************************************************)
EXTENDS Import, Counting

USE ImportAssumption

LEMMA Finite == IsFiniteSet(Owners) /\ IsFiniteSet(Objects)
BY FS_Union DEF Owners, Objects

LEMMA InitInv == Init => IInv
<1> SUFFICES ASSUME Init PROVE IInv
  OBVIOUS
<1>1. TypeOK
  BY DEF Init, TypeOK, Labels, Objects, Owners
<1>2. UsesExact
  <2>1. \A b \in Blocks : Sharing(b) = {}
    BY DEF Init, Sharing, Owners
  <2> QED BY <2>1, FS_EmptySet DEF UsesExact, Init
<1>3. CountExact
  <2>1. \A h \in Libs : Referring(h) = {}
    BY DEF Init, Referring, Objects
  <2> QED BY <2>1, FS_EmptySet DEF CountExact, Init
<1>4. BlockInv /\ Apart /\ \A t \in Threads : ThreadInv(t)
  BY DEF Init, BlockInv, Apart, ThreadInv, Owners, Objects
<1> QED BY <1>1, <1>2, <1>3, <1>4 DEF IInv

-----------------------------------------------------------------------------
(* The tables of counts follow the owners.                                 *)

LEMMA CountsAre ==
    ASSUME TypeOK, UsesExact, CountExact
    PROVE  /\ \A b \in Blocks : uses[b] = Count(ptr, b)
           /\ \A h \in Libs : count[h] = Count(held, h)
           /\ DOMAIN ptr = Owners /\ DOMAIN held = Objects
BY DEF TypeOK, UsesExact, CountExact, Sharing, Referring, Count

\* One owner takes or gives up a block.
LEMMA UsesChange ==
    ASSUME TypeOK, UsesExact, CountExact, NEW x \in Owners, DOMAIN ptr' = Owners,
           ptr'[x] # ptr[x], \A y \in Owners : y # x => ptr'[y] = ptr[y],
           uses' \in [Blocks -> Int],
           \A b \in Blocks :
              uses'[b] = IF b = ptr'[x] THEN uses[b] + 1
                         ELSE IF b = ptr[x] THEN uses[b] - 1 ELSE uses[b]
    PROVE  UsesExact' /\ uses' \in [Blocks -> Nat]
<1> DEFINE g == ptr'
           d == uses'
<1>1. \A b \in Blocks : d[b] \in Nat /\ d[b] = Count(g, b)
  <2> HIDE DEF g, d
  <2>1. /\ DOMAIN g = Owners /\ g[x] # ptr[x]
        /\ \A y \in Owners : y # x => g[y] = ptr[y]
        /\ \A b \in Blocks : d[b] = IF b = g[x] THEN uses[b] + 1
                                    ELSE IF b = ptr[x] THEN uses[b] - 1
                                    ELSE uses[b]
    BY DEF g, d
  <2>2. /\ \A b \in Blocks : uses[b] = Count(ptr, b)
        /\ DOMAIN ptr = Owners /\ IsFiniteSet(Owners)
    BY CountsAre, Finite
  <2> QED BY ONLY <2>1, <2>2, CountedChange, x \in Owners
<1> QED BY <1>1 DEF UsesExact, Sharing, Count

\* One object takes or gives back a library.
LEMMA HeldChange ==
    ASSUME TypeOK, UsesExact, CountExact, NEW x \in Objects,
           DOMAIN held' = Objects,
           held'[x] # held[x], \A y \in Objects : y # x => held'[y] = held[y],
           count' \in [Libs -> Int],
           \A h \in Libs :
              count'[h] = IF h = held'[x] THEN count[h] + 1
                          ELSE IF h = held[x] THEN count[h] - 1 ELSE count[h]
    PROVE  CountExact' /\ count' \in [Libs -> Nat]
<1> DEFINE g == held'
           d == count'
<1>1. \A h \in Libs : d[h] \in Nat /\ d[h] = Count(g, h)
  <2> HIDE DEF g, d
  <2>1. /\ DOMAIN g = Objects /\ g[x] # held[x]
        /\ \A y \in Objects : y # x => g[y] = held[y]
        /\ \A h \in Libs : d[h] = IF h = g[x] THEN count[h] + 1
                                  ELSE IF h = held[x] THEN count[h] - 1
                                  ELSE count[h]
    BY DEF g, d
  <2>2. /\ \A h \in Libs : count[h] = Count(held, h)
        /\ DOMAIN held = Objects /\ IsFiniteSet(Objects)
    BY CountsAre, Finite
  <2> QED BY ONLY <2>1, <2>2, CountedChange, x \in Objects
<1> QED BY <1>1 DEF CountExact, Referring, Count

\* Nothing changed, or two objects exchanged what they have.
LEMMA UsesSame ==
    ASSUME UsesExact, ptr' = ptr, uses' = uses PROVE UsesExact'
BY DEF UsesExact, Sharing

LEMMA HeldSame ==
    ASSUME CountExact, held' = held, count' = count PROVE CountExact'
BY DEF CountExact, Referring

LEMMA HeldExchange ==
    ASSUME TypeOK, UsesExact, CountExact, NEW x \in Objects, NEW y \in Objects,
           DOMAIN held' = Objects, held'[x] = held[y], held'[y] = held[x],
           \A z \in Objects : z \notin {x, y} => held'[z] = held[z],
           count' = count
    PROVE  CountExact'
<1> DEFINE g == held'
<1>1. \A h \in Libs : count[h] = Count(g, h)
  <2> HIDE DEF g
  <2>1. /\ DOMAIN g = Objects /\ g[x] = held[y] /\ g[y] = held[x]
        /\ \A z \in Objects : z \notin {x, y} => g[z] = held[z]
    BY DEF g
  <2> QED BY <2>1, CountsAre, CountExchange, Finite
<1> QED BY <1>1 DEF CountExact, Referring, Count

\* A block somebody shares has a count that is not zero.
LEMMA SharedIsUsed ==
    ASSUME TypeOK, UsesExact, CountExact, NEW x \in Owners, ptr[x] # NULL
    PROVE  uses[ptr[x]] \in Nat \ {0} /\ ptr[x] \in Blocks
<1>1. ptr[x] \in Blocks
  BY DEF TypeOK
<1> QED BY <1>1, CountsAre, CountPositive, Finite

LEMMA ReferredIsMapped ==
    ASSUME TypeOK, UsesExact, CountExact, NEW o \in Objects, held[o] # NULL
    PROVE  count[held[o]] \in Nat \ {0} /\ held[o] \in Libs
<1>1. held[o] \in Libs
  BY DEF TypeOK
<1> QED BY <1>1, CountsAre, CountPositive, Finite

-----------------------------------------------------------------------------
(* Every step, by what it does to the owners of blocks and of libraries.   *)

Make(t, v, b) ==
    \/ \E h \in Libs : MakeFromPath(t, v, b, h)
    \/ \E i \in Insts : MakeFromCopy(t, v, b, i) \/ MakeFromMove(t, v, b, i)

LEMMA Steps ==
    ASSUME Next
    PROVE  \E t \in Threads :
             \/ \E i \in Insts : (\E h \in Libs : Load(t, i, h)) \/ Unload(t, i)
             \/ \E v \in Vals, b \in Blocks : Make(t, v, b)
             \/ GetThrows(t) \/ Get(t) \/ Share(t) \/ ReleaseLocal(t)
             \/ \E v \in Vals : ReleaseValue(t, v) \/ BeginCall(t, v)
             \/ Destroy(t) \/ EndCall(t)
             \/ \E v \in Vals, w \in Vals : CopyValue(t, v, w)
BY Zenon DEF Next, User, Step, Make

LEMMA UsesStep == IInv /\ [Next]_vars => UsesExact' /\ uses' \in [Blocks -> Nat]
<1> SUFFICES ASSUME IInv, [Next]_vars
             PROVE  UsesExact' /\ uses' \in [Blocks -> Nat]
  OBVIOUS
<1>0. TypeOK /\ UsesExact /\ CountExact
  BY DEF IInv
<1>1. ASSUME ptr' = ptr, uses' = uses
      PROVE  UsesExact' /\ uses' \in [Blocks -> Nat]
  BY <1>0, <1>1, UsesSame DEF TypeOK
<1>2. ASSUME NEW t \in Threads, NEW v \in Vals, NEW b \in Blocks, Make(t, v, b)
      PROVE  UsesExact' /\ uses' \in [Blocks -> Nat]
  <2>1. /\ pc[t] = "idle" /\ Free(b)
        /\ uses' = [uses EXCEPT ![b] = 1] /\ ptr' = [ptr EXCEPT ![t] = b]
    BY <1>2 DEF Make, MakeFromPath, MakeFromCopy, MakeFromMove, MakeShared
  <2>2. ptr[t] = NULL /\ uses[b] = 0 /\ t \in Owners
    BY <2>1 DEF IInv, ThreadInv, Free, Owners
  <2> QED BY <1>0, <2>1, <2>2, UsesChange DEF TypeOK
<1>3. ASSUME NEW t \in Threads, Share(t)
      PROVE  UsesExact' /\ uses' \in [Blocks -> Nat]
  <2>1. /\ var[t] \in Owners /\ ptr[var[t]] = NULL /\ ptr[t] \in Blocks
    BY <1>0, <1>3 DEF Share, IInv, ThreadInv, Owners, TypeOK
  <2> QED BY <1>0, <1>3, <2>1, UsesChange DEF Share, TypeOK
<1>4. ASSUME NEW t \in Threads, NEW x \in Owners, Release(t, x)
      PROVE  UsesExact' /\ uses' \in [Blocks -> Nat]
  <2>1. ptr[x] \in Blocks
    BY <1>0, <1>4 DEF Release, TypeOK
  <2> QED BY <1>0, <1>4, <2>1, UsesChange DEF Release, TypeOK
<1>5. ASSUME NEW t \in Threads, NEW v \in Vals, NEW w \in Vals,
             CopyValue(t, v, w)
      PROVE  UsesExact' /\ uses' \in [Blocks -> Nat]
  <2>1. w \in Owners /\ ptr[v] \in Blocks /\ ptr[w] = NULL
    BY <1>0, <1>5 DEF CopyValue, TypeOK, Owners
  <2> QED BY <1>0, <1>5, <2>1, UsesChange DEF CopyValue, TypeOK
<1>6. CASE UNCHANGED vars
  BY <1>1, <1>6 DEF vars
<1>7. CASE Next
  <2>1. PICK t \in Threads :
             \/ \E i \in Insts : (\E h \in Libs : Load(t, i, h)) \/ Unload(t, i)
             \/ \E v \in Vals, b \in Blocks : Make(t, v, b)
             \/ GetThrows(t) \/ Get(t) \/ Share(t) \/ ReleaseLocal(t)
             \/ \E v \in Vals : ReleaseValue(t, v) \/ BeginCall(t, v)
             \/ Destroy(t) \/ EndCall(t)
             \/ \E v \in Vals, w \in Vals : CopyValue(t, v, w)
    BY <1>7, Steps
  <2>2. t \in Owners /\ Vals \subseteq Owners
    BY DEF Owners
  <2>3. CASE \/ \E i \in Insts : (\E h \in Libs : Load(t, i, h)) \/ Unload(t, i)
             \/ GetThrows(t) \/ Get(t) \/ Destroy(t) \/ EndCall(t)
             \/ \E v \in Vals : BeginCall(t, v)
    BY <1>1, <2>3 DEF Load, Unload, GetThrows, Get, Destroy, EndCall, BeginCall
  <2>4. CASE ReleaseLocal(t) \/ \E v \in Vals : ReleaseValue(t, v)
    BY <1>4, <2>2, <2>4 DEF ReleaseLocal, ReleaseValue
  <2> QED BY <1>2, <1>3, <1>5, <2>1, <2>3, <2>4
<1> QED BY <1>6, <1>7

LEMMA HeldStep == IInv /\ [Next]_vars => CountExact' /\ count' \in [Libs -> Nat]
<1> SUFFICES ASSUME IInv, [Next]_vars
             PROVE  CountExact' /\ count' \in [Libs -> Nat]
  OBVIOUS
<1>0. TypeOK /\ UsesExact /\ CountExact
  BY DEF IInv
<1>1. ASSUME held' = held, count' = count
      PROVE  CountExact' /\ count' \in [Libs -> Nat]
  BY <1>0, <1>1, HeldSame DEF TypeOK
<1>2. ASSUME NEW o \in Objects, NEW h \in Libs, held[o] = NULL,
             held' = [held EXCEPT ![o] = h],
             count' = [count EXCEPT ![h] = @ + 1]
      PROVE  CountExact' /\ count' \in [Libs -> Nat]
  BY <1>0, <1>2, HeldChange DEF TypeOK
<1>3. ASSUME NEW o \in Objects, held[o] # NULL,
             held' = [held EXCEPT ![o] = NULL],
             count' = [count EXCEPT ![held[o]] = @ - 1]
      PROVE  CountExact' /\ count' \in [Libs -> Nat]
  <2>1. held[o] \in Libs
    BY <1>0, <1>3 DEF TypeOK
  <2> QED BY <1>0, <1>3, <2>1, HeldChange DEF TypeOK
<1>4. ASSUME NEW t \in Threads, NEW v \in Vals, NEW b \in Blocks, Make(t, v, b)
      PROVE  CountExact' /\ count' \in [Libs -> Nat]
  <2>1. held[b] = NULL /\ b \in Objects /\ Insts \subseteq Objects
    BY <1>4 DEF Make, MakeFromPath, MakeFromCopy, MakeFromMove, MakeShared,
                IInv, BlockInv, Objects
  <2>2. CASE \E h \in Libs : MakeFromPath(t, v, b, h)
    BY <1>2, <2>1, <2>2 DEF MakeFromPath
  <2>3. ASSUME NEW i \in Insts, MakeFromCopy(t, v, b, i)
        PROVE  CountExact' /\ count' \in [Libs -> Nat]
    <3>1. held[i] \in Libs \cup {NULL}
      BY <1>0, <2>1 DEF TypeOK
    <3>2. CASE held[i] = NULL
      BY <1>0, <1>1, <2>1, <2>3, <3>2 DEF MakeFromCopy, TypeOK
    <3>3. CASE held[i] # NULL
      BY <1>2, <2>1, <2>3, <3>1, <3>3 DEF MakeFromCopy
    <3> QED BY <3>2, <3>3
  <2>4. ASSUME NEW i \in Insts, MakeFromMove(t, v, b, i)
        PROVE  CountExact' /\ count' \in [Libs -> Nat]
    <3>1. i \in Objects /\ i # b /\ count' = count
          /\ held' = [held EXCEPT ![b] = held[i], ![i] = NULL]
      BY <2>1, <2>4 DEF MakeFromMove, Objects
    <3> QED BY <1>0, <2>1, <3>1, HeldExchange DEF TypeOK
  <2> QED BY <1>4, <2>2, <2>3, <2>4 DEF Make
<1>5. ASSUME NEW t \in Threads, Destroy(t)
      PROVE  CountExact' /\ count' \in [Libs -> Nat]
  <2>1. dying[t] \in Objects
    BY <1>0, <1>5 DEF Destroy, IInv, ThreadInv, TypeOK, Objects
  <2>2. CASE held[dying[t]] = NULL
    BY <1>0, <1>1, <1>5, <2>1, <2>2 DEF Destroy, TypeOK
  <2>3. CASE held[dying[t]] # NULL
    BY <1>3, <1>5, <2>1, <2>3 DEF Destroy
  <2> QED BY <2>2, <2>3
<1>6. CASE UNCHANGED vars
  BY <1>1, <1>6 DEF vars
<1>7. CASE Next
  <2>1. PICK t \in Threads :
             \/ \E i \in Insts : (\E h \in Libs : Load(t, i, h)) \/ Unload(t, i)
             \/ \E v \in Vals, b \in Blocks : Make(t, v, b)
             \/ GetThrows(t) \/ Get(t) \/ Share(t) \/ ReleaseLocal(t)
             \/ \E v \in Vals : ReleaseValue(t, v) \/ BeginCall(t, v)
             \/ Destroy(t) \/ EndCall(t)
             \/ \E v \in Vals, w \in Vals : CopyValue(t, v, w)
    BY <1>7, Steps
  <2>2. Insts \subseteq Objects
    BY DEF Objects
  <2>3. CASE \E i \in Insts : (\E h \in Libs : Load(t, i, h)) \/ Unload(t, i)
    BY <1>2, <1>3, <2>2, <2>3 DEF Load, Unload
  <2>4. CASE \/ GetThrows(t) \/ Get(t) \/ Share(t) \/ ReleaseLocal(t)
             \/ \E v \in Vals : ReleaseValue(t, v) \/ BeginCall(t, v)
             \/ EndCall(t)
             \/ \E v \in Vals, w \in Vals : CopyValue(t, v, w)
    BY <1>1, <2>4 DEF GetThrows, Get, Share, ReleaseLocal, ReleaseValue,
                      Release, BeginCall, EndCall, CopyValue
  <2> QED BY <1>4, <1>5, <2>1, <2>3, <2>4
<1> QED BY <1>6, <1>7

-----------------------------------------------------------------------------
(* The rest of the invariant.                                              *)

LEMMA TypeStep == IInv /\ [Next]_vars => TypeOK'
<1> SUFFICES ASSUME IInv, [Next]_vars PROVE TypeOK'
  OBVIOUS
<1>0. TypeOK /\ uses' \in [Blocks -> Nat] /\ count' \in [Libs -> Nat]
  BY UsesStep, HeldStep DEF IInv
<1> USE DEF TypeOK, Labels, Objects, Owners, Goto
<1>1. CASE UNCHANGED vars
  BY <1>0, <1>1 DEF vars
<1>2. CASE Next
  <2>1. PICK t \in Threads :
             \/ \E i \in Insts : (\E h \in Libs : Load(t, i, h)) \/ Unload(t, i)
             \/ \E v \in Vals, b \in Blocks : Make(t, v, b)
             \/ GetThrows(t) \/ Get(t) \/ Share(t) \/ ReleaseLocal(t)
             \/ \E v \in Vals : ReleaseValue(t, v) \/ BeginCall(t, v)
             \/ Destroy(t) \/ EndCall(t)
             \/ \E v \in Vals, w \in Vals : CopyValue(t, v, w)
    BY <1>2, Steps
  <2>2. CASE \E i \in Insts : (\E h \in Libs : Load(t, i, h)) \/ Unload(t, i)
    BY <1>0, <2>2 DEF Load, Unload
  <2>3. CASE \E v \in Vals, b \in Blocks : Make(t, v, b)
    BY <1>0, <2>3, SMTT(30)
       DEF Make, MakeFromPath, MakeFromCopy, MakeFromMove, MakeShared
  <2>4. CASE GetThrows(t) \/ Get(t)
    <3>1. ptr[t] \in Blocks /\ var[t] \in Vals
      BY <1>0, <2>4 DEF GetThrows, Get, IInv, ThreadInv
    <3> QED BY <1>0, <2>4, <3>1 DEF GetThrows, Get
  <2>5. CASE Share(t)
    BY <1>0, <2>5 DEF Share, IInv, ThreadInv
  <2>6. CASE ReleaseLocal(t) \/ \E v \in Vals : ReleaseValue(t, v)
    BY <1>0, <2>6 DEF ReleaseLocal, ReleaseValue, Release
  <2>7. CASE Destroy(t) \/ EndCall(t) \/ \E v \in Vals : BeginCall(t, v)
    BY <1>0, <2>7 DEF Destroy, EndCall, BeginCall
  <2>8. CASE \E v \in Vals, w \in Vals : CopyValue(t, v, w)
    BY <1>0, <2>8 DEF CopyValue
  <2> QED BY <2>1, <2>2, <2>3, <2>4, <2>5, <2>6, <2>7, <2>8
<1> QED BY <1>1, <1>2

\* The library of a block in use, or being destroyed, is not touched by
\* another thread; this is why a value stays valid.
LEMMA BlockStep == IInv /\ [Next]_vars => BlockInv'
<1> SUFFICES ASSUME IInv, [Next]_vars PROVE BlockInv'
  OBVIOUS
<1>0. /\ TypeOK /\ UsesExact /\ CountExact /\ BlockInv
      /\ \A u \in Threads : ThreadInv(u)
      /\ \A x \in Owners : ptr[x] # NULL =>
            ptr[x] \in Blocks /\ uses[ptr[x]] \in Nat \ {0}
  BY SharedIsUsed DEF IInv
<1> USE DEF BlockInv, Free, Goto
<1>1. CASE UNCHANGED vars
  BY <1>0, <1>1 DEF vars
<1>2. CASE Next
  <2>1. PICK t \in Threads :
             \/ \E i \in Insts : (\E h \in Libs : Load(t, i, h)) \/ Unload(t, i)
             \/ \E v \in Vals, b \in Blocks : Make(t, v, b)
             \/ GetThrows(t) \/ Get(t) \/ Share(t) \/ ReleaseLocal(t)
             \/ \E v \in Vals : ReleaseValue(t, v) \/ BeginCall(t, v)
             \/ Destroy(t) \/ EndCall(t)
             \/ \E v \in Vals, w \in Vals : CopyValue(t, v, w)
    BY <1>2, Steps
  <2>2. CASE \E i \in Insts : (\E h \in Libs : Load(t, i, h)) \/ Unload(t, i)
    BY <1>0, <2>2 DEF Load, Unload, TypeOK, Objects, Owners
  <2>3. ASSUME NEW v \in Vals, NEW b \in Blocks, Make(t, v, b)
        PROVE  BlockInv'
    <3>1. /\ ptr' = [ptr EXCEPT ![t] = b] /\ uses' = [uses EXCEPT ![b] = 1]
          /\ sym' = sym /\ dying' = dying /\ Free(b)
          /\ \A c \in Blocks : c # b => held'[c] = held[c]
      BY <1>0, <2>3 DEF Make, MakeFromPath, MakeFromCopy, MakeFromMove,
                        MakeShared, TypeOK, Objects
    <3>2. \A w \in Vals : ptr'[w] = ptr[w] /\ (ptr[w] # NULL => ptr[w] # b)
      BY <1>0, <3>1 DEF TypeOK, Owners
    <3>3. \A c \in Blocks : Free(c)' => c # b /\ Free(c)
      BY <1>0, <3>1 DEF TypeOK
    <3> QED BY <1>0, <3>1, <3>2, <3>3 DEF Owners
  <2>4. CASE GetThrows(t) \/ Get(t)
    BY <1>0, <2>4 DEF GetThrows, Get, ThreadInv, TypeOK, Owners
  <2>5. CASE Share(t)
    <3>1. /\ ptr[t] \in Blocks /\ uses[ptr[t]] \in Nat \ {0}
          /\ sym[var[t]] = held[ptr[t]] /\ held[ptr[t]] \in Libs
      BY <1>0, <2>5 DEF Share, ThreadInv, Owners
    <3> QED BY <1>0, <2>5, <3>1 DEF Share, ThreadInv, TypeOK, Owners
  <2>6. ASSUME NEW x \in Owners, Release(t, x), pc[t] # "destroy",
               held' = held,
               sym' = sym \/ \E v \in Vals : x = v /\ sym' = [sym EXCEPT ![v] = NULL]
        PROVE  BlockInv'
    <3>1. \A v \in Vals : ptr'[v] # NULL => /\ ptr'[v] = ptr[v] /\ ptr[v] # NULL
                                             /\ sym'[v] = sym[v]
      BY <1>0, <2>6 DEF Release, TypeOK, Owners
    <3>2. dying[t] = NULL
      BY <1>0, <2>6 DEF Release, ThreadInv
    <3>3. \A c \in Blocks : Free(c)' => Free(c)
      BY <1>0, <2>6, <3>2 DEF Release, TypeOK
    <3> QED BY <1>0, <2>6, <3>1, <3>3
  <2>7. CASE Destroy(t)
    <3>1. dying[t] \in Blocks /\ uses[dying[t]] = 0
      BY <1>0, <2>7 DEF Destroy, ThreadInv, TypeOK
    <3>2. \A v \in Vals : ptr[v] # NULL => ptr[v] \in Blocks /\ ptr[v] # dying[t]
      BY <1>0, <3>1 DEF Owners
    <3>3. \A c \in Blocks : Free(c)' => c = dying[t] \/ Free(c)
      BY <1>0, <2>7 DEF Destroy, TypeOK
    <3>4. \A c \in Objects : held'[c] = IF c = dying[t] THEN NULL ELSE held[c]
      BY <1>0, <2>7 DEF Destroy, TypeOK
    <3> QED BY <1>0, <2>7, <3>2, <3>3, <3>4 DEF Destroy, Objects
  <2>8. CASE EndCall(t) \/ \E v \in Vals : BeginCall(t, v)
    BY <1>0, <2>8 DEF EndCall, BeginCall
  <2>9. ASSUME NEW v \in Vals, NEW w \in Vals, CopyValue(t, v, w)
        PROVE  BlockInv'
    <3>1. ptr[v] \in Blocks /\ uses[ptr[v]] \in Nat \ {0}
      BY <1>0, <2>9 DEF CopyValue, Owners
    <3> QED BY <1>0, <2>9, <3>1 DEF CopyValue, TypeOK, Owners
  <2>10. CASE ReleaseLocal(t) \/ \E v \in Vals : ReleaseValue(t, v)
    BY <2>6, <2>10 DEF ReleaseLocal, ReleaseValue, Release, Owners
  <2> QED BY <2>1, <2>2, <2>3, <2>4, <2>5, <2>7, <2>8, <2>9, <2>10
<1> QED BY <1>1, <1>2

LEMMA ApartStep == IInv /\ [Next]_vars => Apart'
<1> SUFFICES ASSUME IInv, [Next]_vars PROVE Apart'
  OBVIOUS
<1>0. /\ TypeOK /\ Apart
      /\ \A u \in Threads : ThreadInv(u)
      /\ \A x \in Owners : ptr[x] # NULL =>
            ptr[x] \in Blocks /\ uses[ptr[x]] \in Nat \ {0}
  BY SharedIsUsed DEF IInv
<1> USE DEF Apart, Goto
<1>1. CASE UNCHANGED vars
  BY <1>0, <1>1 DEF vars
<1>2. CASE Next
  <2>1. PICK t \in Threads :
             \/ \E i \in Insts : (\E h \in Libs : Load(t, i, h)) \/ Unload(t, i)
             \/ \E v \in Vals, b \in Blocks : Make(t, v, b)
             \/ GetThrows(t) \/ Get(t) \/ Share(t) \/ ReleaseLocal(t)
             \/ \E v \in Vals : ReleaseValue(t, v) \/ BeginCall(t, v)
             \/ Destroy(t) \/ EndCall(t)
             \/ \E v \in Vals, w \in Vals : CopyValue(t, v, w)
    BY <1>2, Steps
  <2>2. CASE \E i \in Insts : (\E h \in Libs : Load(t, i, h)) \/ Unload(t, i)
    BY <1>0, <2>2 DEF Load, Unload
  <2>3. ASSUME NEW v \in Vals, NEW b \in Blocks, Make(t, v, b)
        PROVE  Apart'
    <3>1. /\ pc' = [pc EXCEPT ![t] = "get"] /\ var' = [var EXCEPT ![t] = v]
          /\ dying' = dying /\ Unused(v)
      BY <2>3 DEF Make, MakeFromPath, MakeFromCopy, MakeFromMove, MakeShared
    <3> QED BY <1>0, <3>1 DEF TypeOK, Unused
  <2>4. CASE GetThrows(t) \/ Share(t) \/ EndCall(t)
    BY <1>0, <2>4 DEF GetThrows, Share, EndCall, TypeOK, ThreadInv
  <2>5. CASE Get(t) \/ \E v \in Vals, w \in Vals : CopyValue(t, v, w)
    BY <1>0, <2>5 DEF Get, CopyValue, TypeOK
  <2>6. ASSUME NEW x \in Owners, Release(t, x), var' = var
        PROVE  Apart'
    <3>1. \A u \in Threads : dying[u] # NULL => dying[u] # ptr[x]
      BY <1>0, <2>6 DEF Release, ThreadInv
    <3>2. pc' = [pc EXCEPT ![t] = pc'[t]] /\ pc'[t] \in {"destroy", "idle"}
      BY <1>0, <2>6 DEF Release, TypeOK
    <3>3. /\ dying' = [dying EXCEPT ![t] = dying'[t]]
          /\ dying'[t] \in {ptr[x], NULL}
      BY <1>0, <2>6 DEF Release, TypeOK
    <3> QED BY <1>0, <2>6, <3>1, <3>2, <3>3 DEF TypeOK
  <2>7. CASE ReleaseLocal(t) \/ \E v \in Vals : ReleaseValue(t, v)
    BY <2>6, <2>7 DEF ReleaseLocal, ReleaseValue, Owners
  <2>8. CASE Destroy(t)
    BY <1>0, <2>8 DEF Destroy, TypeOK
  <2>9. ASSUME NEW v \in Vals, BeginCall(t, v)
        PROVE  Apart'
    BY <1>0, <2>9 DEF BeginCall, TypeOK, ThreadInv
  <2> QED BY <2>1, <2>2, <2>3, <2>4, <2>5, <2>7, <2>8, <2>9
<1> QED BY <1>1, <1>2

\* The thread u keeps what it has established while the thread t works.
LEMMA ThreadStep == IInv /\ [Next]_vars => \A u \in Threads : ThreadInv(u)'
<1> SUFFICES ASSUME IInv, [Next]_vars, NEW u \in Threads PROVE ThreadInv(u)'
  OBVIOUS
<1>0. /\ TypeOK /\ Apart /\ BlockInv
      /\ \A t \in Threads : ThreadInv(t)
      /\ \A x \in Owners : ptr[x] # NULL =>
            ptr[x] \in Blocks /\ uses[ptr[x]] \in Nat \ {0}
      /\ Threads \subseteq Owners /\ Vals \subseteq Owners
      /\ Insts \subseteq Objects /\ Blocks \subseteq Objects
  BY SharedIsUsed DEF IInv, Owners, Objects
<1> USE DEF ThreadInv, Goto
<1>1. CASE UNCHANGED vars
  BY <1>0, <1>1 DEF vars
<1>2. CASE Next
  <2>1. PICK t \in Threads :
             \/ \E i \in Insts : (\E h \in Libs : Load(t, i, h)) \/ Unload(t, i)
             \/ \E v \in Vals, b \in Blocks : Make(t, v, b)
             \/ GetThrows(t) \/ Get(t) \/ Share(t) \/ ReleaseLocal(t)
             \/ \E v \in Vals : ReleaseValue(t, v) \/ BeginCall(t, v)
             \/ Destroy(t) \/ EndCall(t)
             \/ \E v \in Vals, w \in Vals : CopyValue(t, v, w)
    BY <1>2, Steps
  <2>2. ASSUME NEW i \in Insts, (\E h \in Libs : Load(t, i, h)) \/ Unload(t, i)
        PROVE  ThreadInv(u)'
    <3>1. ptr[u] # NULL => held'[ptr[u]] = held[ptr[u]]
      BY <1>0, <2>2 DEF Load, Unload, TypeOK
    <3> QED BY <1>0, <2>2, <3>1 DEF Load, Unload
  <2>3. ASSUME NEW v \in Vals, NEW b \in Blocks, Make(t, v, b)
        PROVE  ThreadInv(u)'
    <3>1. /\ pc[t] = "idle" /\ pc' = [pc EXCEPT ![t] = "get"]
          /\ var' = [var EXCEPT ![t] = v] /\ ptr[v] = NULL
          /\ ptr' = [ptr EXCEPT ![t] = b] /\ uses' = [uses EXCEPT ![b] = 1]
          /\ sym' = sym /\ dying' = dying /\ Free(b) /\ Unused(v)
          /\ \A c \in Blocks : c # b => held'[c] = held[c]
      BY <1>0, <2>3 DEF Make, MakeFromPath, MakeFromCopy, MakeFromMove,
                        MakeShared, TypeOK
    <3>2. ptr'[v] = NULL /\ v # t
      BY <1>0, <3>1 DEF TypeOK
    <3>3. CASE u = t
      BY <1>0, <3>1, <3>2, <3>3 DEF TypeOK
    <3>4. CASE u # t
      <4>1. ptr[u] # NULL => ptr[u] # b /\ held'[ptr[u]] = held[ptr[u]]
        BY <1>0, <3>1 DEF Free
      <4>2. dying[u] # NULL => dying[u] # b /\ dying[u] \in Blocks
        BY <1>0, <3>1 DEF Free, TypeOK
      <4>3. var[u] \in Vals => ptr'[var[u]] = ptr[var[u]]
        BY <1>0, <3>1 DEF TypeOK, Owners
      <4> QED BY <1>0, <3>1, <3>4, <4>1, <4>2, <4>3 DEF TypeOK
    <3> QED BY <3>3, <3>4
  <2>4. CASE GetThrows(t)
    BY <1>0, <2>4 DEF GetThrows, TypeOK
  <2>5. CASE Get(t)
    <3>1. u # t /\ pc[u] = "share" => sym'[var[u]] = sym[var[u]]
      BY <1>0, <2>5 DEF Get, TypeOK, Apart
    <3> QED BY <1>0, <2>5, <3>1 DEF Get, TypeOK
  <2>6. CASE Share(t)
    <3>1. /\ ptr[t] \in Blocks /\ uses[ptr[t]] \in Nat \ {0}
          /\ var[t] \in Vals /\ ptr[var[t]] = NULL
      BY <1>0, <2>6 DEF Share
    <3>2. \A c \in Blocks : uses[c] = 0 => uses'[c] = 0
      BY <1>0, <2>6, <3>1 DEF Share, TypeOK
    <3>3. ptr'[u] = ptr[u] /\ (u # t /\ var[u] \in Vals /\ var[u] # var[t]
             => ptr'[var[u]] = ptr[var[u]])
      BY <1>0, <2>6, <3>1 DEF Share, TypeOK, Owners
    <3>4. u # t => var[u] # var[t]
      BY <1>0, <2>6 DEF Share, Apart
    <3> QED BY <1>0, <2>6, <3>1, <3>2, <3>3, <3>4 DEF Share, TypeOK
  <2>7. CASE ReleaseLocal(t)
    <3>1. /\ ptr[t] \in Blocks /\ uses[ptr[t]] \in Nat \ {0}
          /\ var[t] = NULL
      BY <1>0, <2>7 DEF ReleaseLocal
    <3>2. \A c \in Blocks : uses[c] = 0 => uses'[c] = 0
      BY <1>0, <2>7, <3>1 DEF ReleaseLocal, Release, TypeOK
    <3>3. /\ u # t => ptr'[u] = ptr[u]
          /\ var[u] \in Vals => ptr'[var[u]] = ptr[var[u]]
      BY <1>0, <2>7 DEF ReleaseLocal, Release, TypeOK, Owners
    <3>4. CASE u = t
      BY <1>0, <2>7, <3>1, <3>4 DEF ReleaseLocal, Release, TypeOK
    <3>5. CASE u # t
      BY <1>0, <2>7, <3>2, <3>3, <3>5 DEF ReleaseLocal, Release, TypeOK
    <3> QED BY <3>4, <3>5
  <2>8. ASSUME NEW v \in Vals, ReleaseValue(t, v)
        PROVE  ThreadInv(u)'
    <3>1. /\ ptr[v] \in Blocks /\ uses[ptr[v]] \in Nat \ {0}
          /\ var[u] # v
      BY <1>0, <2>8 DEF ReleaseValue, Release, Unused
    <3>2. \A c \in Blocks : uses[c] = 0 => uses'[c] = 0
      BY <1>0, <2>8, <3>1 DEF ReleaseValue, Release, TypeOK
    <3>3. /\ ptr'[u] = ptr[u]
          /\ var[u] \in Vals => /\ ptr'[var[u]] = ptr[var[u]]
                                /\ sym'[var[u]] = sym[var[u]]
      BY <1>0, <2>8, <3>1 DEF ReleaseValue, Release, TypeOK, Owners
    <3>4. CASE u = t
      BY <1>0, <2>8, <3>1, <3>3, <3>4 DEF ReleaseValue, Release, TypeOK
    <3>5. CASE u # t
      BY <1>0, <2>8, <3>2, <3>3, <3>5 DEF ReleaseValue, Release, TypeOK
    <3> QED BY <3>4, <3>5
  <2>9. CASE Destroy(t)
    <3>1. dying[t] \in Blocks /\ uses[dying[t]] = 0
      BY <1>0, <2>9 DEF Destroy, TypeOK
    <3>2. ptr[u] # NULL => held'[ptr[u]] = held[ptr[u]]
      BY <1>0, <2>9, <3>1 DEF Destroy, TypeOK
    <3> QED BY <1>0, <2>9, <3>2 DEF Destroy, TypeOK
  <2>10. CASE EndCall(t)
    BY <1>0, <2>10 DEF EndCall, TypeOK
  <2>11. ASSUME NEW v \in Vals, BeginCall(t, v)
         PROVE  ThreadInv(u)'
    BY <1>0, <2>11 DEF BeginCall, TypeOK
  <2>12. ASSUME NEW v \in Vals, NEW w \in Vals, CopyValue(t, v, w)
         PROVE  ThreadInv(u)'
    <3>1. /\ ptr[v] \in Blocks /\ uses[ptr[v]] \in Nat \ {0}
          /\ var[u] # w
      BY <1>0, <2>12 DEF CopyValue, Unused
    <3>2. \A c \in Blocks : uses[c] = 0 => uses'[c] = 0
      BY <1>0, <2>12, <3>1 DEF CopyValue, TypeOK
    <3>3. /\ ptr'[u] = ptr[u]
          /\ var[u] \in Vals => /\ ptr'[var[u]] = ptr[var[u]]
                                /\ sym'[var[u]] = sym[var[u]]
      BY <1>0, <2>12, <3>1 DEF CopyValue, TypeOK, Owners
    <3> QED BY <1>0, <2>12, <3>2, <3>3 DEF CopyValue, TypeOK
  <2> QED BY <2>1, <2>2, <2>3, <2>4, <2>5, <2>6, <2>7, <2>8, <2>9, <2>10,
             <2>11, <2>12
<1> QED BY <1>1, <1>2

-----------------------------------------------------------------------------
(***************************************************************************)
(* The invariant that carries the results below: the tables of counts are  *)
(* exact, a value points into the library of its block, and only the       *)
(* thread that dropped the last reference touches that library.            *)
(***************************************************************************)
THEOREM ImportInvariant == Spec => []IInv
<1>1. IInv /\ [Next]_vars => IInv'
  BY TypeStep, UsesStep, HeldStep, BlockStep, ApartStep, ThreadStep DEF IInv
<1> QED BY <1>1, InitInv, PTL DEF Spec

LEMMA ValuesValid == IInv => ImportedIsLoaded
<1> SUFFICES ASSUME IInv, NEW v \in Vals, ptr[v] # NULL
             PROVE  sym[v] \in Libs /\ count[sym[v]] > 0
  BY DEF ImportedIsLoaded
<1>1. ptr[v] \in Blocks /\ sym[v] \in Libs /\ sym[v] = held[ptr[v]]
  BY DEF IInv, BlockInv, TypeOK, Owners
<1>2. ptr[v] \in Objects /\ held[ptr[v]] # NULL
  BY <1>1 DEF Objects
<1> QED BY <1>1, <1>2, ReferredIsMapped DEF IInv

\* What an imported value points into stays mapped (import.hpp: the library
\* "won't get unload until all copies of return value are not destroyed").
THEOREM ValuesStayValid == Spec => []ImportedIsLoaded
  BY ValuesValid, ImportInvariant, PTL

\* Every variable keeps its type; no count is ever negative.
THEOREM ImportTypes == Spec => []TypeOK
<1>1. IInv => TypeOK
  BY DEF IInv
<1> QED BY <1>1, ImportInvariant, PTL

\* The control blocks count the values and variables that share them exactly.
THEOREM ExactUses == Spec => []UsesExact
<1>1. IInv => UsesExact
  BY DEF IInv
<1> QED BY <1>1, ImportInvariant, PTL

\* The loader counts the objects that refer to a library, the ones hidden in
\* control blocks included, exactly.
THEOREM ExactCounts == Spec => []CountExact
<1>1. IInv => CountExact
  BY DEF IInv
<1> QED BY <1>1, ImportInvariant, PTL

\* Every step loads, shares, moves or drops one reference, or none.
LEMMA RefsStep ==
    ASSUME IInv, IInv', [Next]_vars
    PROVE  [Refs!Next]_(Refs!avars)
<1>0. TypeOK /\ TypeOK' /\ CountExact /\ CountExact' /\ UsesExact /\ UsesExact'
      /\ Insts \subseteq Objects /\ Blocks \subseteq Objects
  BY DEF IInv, Objects
<1>1. ASSUME held' = held, count' = count PROVE UNCHANGED Refs!avars
  BY <1>1 DEF Refs!avars
<1>2. ASSUME NEW o \in Objects, NEW h \in Libs, held[o] = NULL,
             held' = [held EXCEPT ![o] = h],
             count' = [count EXCEPT ![h] = @ + 1]
      PROVE  Refs!Take(o, h)
  BY <1>0, <1>2 DEF Refs!Take, TypeOK
<1>3. ASSUME NEW o \in Objects, held[o] # NULL,
             held' = [held EXCEPT ![o] = NULL],
             count' = [count EXCEPT ![held[o]] = @ - 1]
      PROVE  Refs!Drop(o)
  <2>1. held[o] \in Libs /\ count[held[o]] \in Nat \ {0}
    BY <1>0, <1>3, ReferredIsMapped
  <2>2. CASE count[held[o]] > 1
    BY <1>0, <1>3, <2>1, <2>2 DEF Refs!Drop, TypeOK
  <2>3. CASE count[held[o]] = 1
    <3>1. count'[held[o]] = 0
      BY <1>0, <1>3, <2>1, <2>3 DEF TypeOK
    <3>2. \A p \in Objects : held'[p] # held[o]
      <4>1. PICK h \in Libs : h = held[o]
        BY <2>1
      <4>2. IsFiniteSet(Referring(h)')
        BY FS_Subset, Finite DEF Referring
      <4>3. Cardinality(Referring(h)') = 0
        BY <1>0, <3>1, <4>1 DEF CountExact
      <4>4. Referring(h)' = {}
        BY <4>2, <4>3, FS_EmptySet
      <4> QED BY <4>1, <4>4 DEF Referring
    <3>3. {h \in Libs : count'[h] > 0} = {h \in Libs : count[h] > 0} \ {held[o]}
      BY <1>0, <1>3, <2>1, <3>1 DEF TypeOK
    <3> QED BY <1>3, <3>2, <3>3 DEF Refs!Drop
  <2> QED BY <2>1, <2>2, <2>3
<1>4. CASE UNCHANGED vars
  BY <1>1, <1>4 DEF vars
<1>5. CASE Next
  <2>1. PICK t \in Threads :
           \/ \E i \in Insts : (\E h \in Libs : Load(t, i, h)) \/ Unload(t, i)
           \/ \E v \in Vals, b \in Blocks : Make(t, v, b)
           \/ GetThrows(t) \/ Get(t) \/ Share(t) \/ ReleaseLocal(t)
           \/ \E v \in Vals : ReleaseValue(t, v) \/ BeginCall(t, v)
           \/ Destroy(t) \/ EndCall(t)
           \/ \E v \in Vals, w \in Vals : CopyValue(t, v, w)
    BY <1>5, Steps
  <2>2. CASE \E i \in Insts : (\E h \in Libs : Load(t, i, h)) \/ Unload(t, i)
    BY <1>0, <1>2, <1>3, <2>2 DEF Load, Unload, Refs!Next
  <2>3. ASSUME NEW v \in Vals, NEW b \in Blocks, Make(t, v, b)
        PROVE  [Refs!Next]_(Refs!avars)
    <3>1. held[b] = NULL /\ b \in Objects
      BY <1>0, <2>3 DEF Make, MakeFromPath, MakeFromCopy, MakeFromMove,
                              MakeShared, IInv, BlockInv
    <3>2. CASE \E h \in Libs : MakeFromPath(t, v, b, h)
      BY <1>2, <3>1, <3>2 DEF MakeFromPath, Refs!Next
    <3>3. ASSUME NEW i \in Insts, MakeFromCopy(t, v, b, i)
          PROVE  [Refs!Next]_(Refs!avars)
      <4>1. CASE held[i] = NULL
        BY <1>0, <1>1, <3>1, <3>3, <4>1 DEF MakeFromCopy, TypeOK
      <4>2. CASE held[i] # NULL
        <5>1. held[i] \in Libs /\ count[held[i]] \in Nat \ {0}
          BY <1>0, <4>2, ReferredIsMapped
        <5>2. {h \in Libs : count'[h] > 0} = {h \in Libs : count[h] > 0}
          BY <1>0, <3>3, <4>2, <5>1 DEF MakeFromCopy, TypeOK
        <5>3. Refs!Share(b, i)
          BY <3>3, <4>2, <5>2 DEF MakeFromCopy, Refs!Share
        <5> QED BY <1>0, <3>1, <5>3 DEF Refs!Next
      <4> QED BY <4>1, <4>2
    <3>4. ASSUME NEW i \in Insts, MakeFromMove(t, v, b, i)
          PROVE  [Refs!Next]_(Refs!avars)
      <4>1. Refs!Trade(b, i)
        BY <3>1, <3>4 DEF MakeFromMove, Refs!Trade
      <4> QED BY <1>0, <3>1, <4>1 DEF Refs!Next
    <3> QED BY <2>3, <3>2, <3>3, <3>4 DEF Make
  <2>4. CASE Destroy(t)
    <3>1. dying[t] \in Objects
      BY <1>0, <2>4 DEF Destroy, IInv, ThreadInv, TypeOK
    <3>2. CASE held[dying[t]] = NULL
      BY <1>0, <1>1, <2>4, <3>1, <3>2 DEF Destroy, TypeOK
    <3>3. CASE held[dying[t]] # NULL
      <4>1. PICK o \in Objects : o = dying[t]
        BY <3>1
      <4>2. Refs!Drop(o)
        BY <1>3, <2>4, <3>3, <4>1 DEF Destroy
      <4> QED BY <4>2 DEF Refs!Next
    <3> QED BY <3>2, <3>3
  <2>5. CASE \/ GetThrows(t) \/ Get(t) \/ Share(t) \/ ReleaseLocal(t)
             \/ \E v \in Vals : ReleaseValue(t, v) \/ BeginCall(t, v)
             \/ EndCall(t)
             \/ \E v \in Vals, w \in Vals : CopyValue(t, v, w)
    BY <1>1, <2>5 DEF GetThrows, Get, Share, ReleaseLocal, ReleaseValue,
                      Release, BeginCall, EndCall, CopyValue
  <2> QED BY <2>1, <2>2, <2>3, <2>4, <2>5
<1> QED BY <1>4, <1>5

\* With the objects hidden in control blocks the program is LibraryRefs.
THEOREM ImportImplementation == Spec => ImplementsRefs
<1>1. Init => Refs!Init
  BY DEF Init, Refs!Init
<1> QED BY <1>1, RefsStep, ImportInvariant, PTL DEF Spec, ImplementsRefs, Refs!Spec
===============================================================================
