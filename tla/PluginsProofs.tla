----------------------------- MODULE PluginsProofs -----------------------------
(***************************************************************************)
(* The plugins of Plugins hold for any number of threads, values, control  *)
(* blocks and libraries; the invariant of Import is kept by their steps.   *)
(***************************************************************************)
EXTENDS Plugins, ImportProofs

USE ImportAssumption

\* Bind is the only step on the variables of Import that it does not know.
LEMMA PluginSteps ==
    ASSUME [PluginNext]_allVars
    PROVE  \/ [Next]_vars
           \/ \E t \in Threads, w \in Vals, b \in Blocks, h \in Libs : Bind(t, w, b, h)
<1>1. CASE UNCHANGED allVars
  BY <1>1 DEF allVars
<1>2. CASE PluginNext
  <2>1. PICK t \in Threads :
            \/ User(t) /\ UNCHANGED pluginVars
            \/ Create(t)
            \/ PluginStep(t)
    BY <1>2 DEF PluginNext
  <2>2. CASE User(t)
    BY <2>2, Zenon DEF Next
  <2>3. CASE Create(t)
    BY <2>3 DEF Create
  <2>4. CASE PluginStep(t)
    <3>1. \/ Step(t)
          \/ \E w \in Vals, b \in Blocks, h \in Libs : Bind(t, w, b, h)
          \/ Locate(t) \/ BindThrows(t) \/ Delete(t)
      BY <2>4, Zenon DEF PluginStep, Step, DestroyDeleter, EndGetPlugin
    <3> QED BY <3>1 DEF Next, Locate, BindThrows, Delete
  <2> QED BY <2>1, <2>2, <2>3, <2>4
<1> QED BY <1>1, <1>2

\* A plugin a thread has a plain pointer to is in a library that is mapped: the
\* one the factory keeps that the thread is calling.
LEMMA MadeIsMapped ==
    ASSUME PluginIInv, NEW t \in Threads, made[t] # NULL
    PROVE  made[t] \in Libs /\ count[made[t]] > 0
<1>0. /\ TypeOK /\ UsesExact /\ CountExact /\ BlockInv /\ PluginInv /\ ThreadInv(t)
      /\ Blocks \subseteq Objects
  BY DEF PluginIInv, IInv, Objects
<1>1. var[t] \in Vals /\ ptr[var[t]] # NULL /\ made[t] = sym[var[t]]
  BY <1>0 DEF PluginInv, ThreadInv
<1>2. /\ ptr[var[t]] \in Blocks /\ sym[var[t]] \in Libs
      /\ sym[var[t]] = held[ptr[var[t]]]
  BY <1>0, <1>1 DEF BlockInv, TypeOK, Owners
<1> QED BY <1>0, <1>1, <1>2, ReferredIsMapped

\* So the path the plugin tells is opened as that library; and no other thread
\* has the value the plugin becomes or the block it gets.
LEMMA BindStarts ==
    ASSUME PluginIInv, NEW t \in Threads, NEW w \in Vals, NEW b \in Blocks,
           NEW h \in Libs, Bind(t, w, b, h)
    PROVE  /\ h = made[t] /\ held[b] = NULL /\ uses[b] = 0
           /\ \A x \in Owners : ptr[x] # b
           /\ \A u \in Threads : dying[u] # b /\ var[u] # w
           /\ w \in Owners /\ b \in Objects /\ w \notin Threads
<1>0. TypeOK /\ UsesExact /\ CountExact /\ BlockInv /\ ThreadInv(t) /\ PluginInv
  BY DEF PluginIInv, IInv
<1>1. /\ told[t] # NULL /\ h \in Opened(told[t]) /\ Unused(w) /\ Free(b)
  BY DEF Bind
<1>2. told[t] = made[t] /\ made[t] # NULL
  BY <1>0, <1>1 DEF PluginInv
<1>3. h = made[t]
  BY <1>1, <1>2, MadeIsMapped DEF Opened
<1>4. \A x \in Owners : ptr[x] # b
  <2> SUFFICES ASSUME NEW x \in Owners, ptr[x] = b PROVE FALSE
    OBVIOUS
  <2>1. uses[b] \in Nat \ {0}
    BY <1>0, SharedIsUsed
  <2> QED BY <1>1, <2>1 DEF Free
<1> QED BY <1>0, <1>1, <1>3, <1>4 DEF Free, Unused, BlockInv, Owners, Objects

LEMMA BindStep ==
    ASSUME PluginIInv, NEW t \in Threads, NEW w \in Vals, NEW b \in Blocks,
           NEW h \in Libs, Bind(t, w, b, h)
    PROVE  IInv'
<1>0. /\ TypeOK /\ UsesExact /\ CountExact /\ BlockInv /\ Apart
      /\ \A u \in Threads : ThreadInv(u)
  BY DEF PluginIInv, IInv
<1>1. /\ h = made[t] /\ held[b] = NULL /\ uses[b] = 0
      /\ \A x \in Owners : ptr[x] # b
      /\ \A u \in Threads : dying[u] # b /\ var[u] # w
      /\ w \in Owners /\ b \in Objects /\ w \notin Threads
  BY BindStarts
<1>2. /\ ptr[w] = NULL
      /\ held' = [held EXCEPT ![b] = h]
      /\ count' = [count EXCEPT ![h] = @ + 1]
      /\ uses' = [uses EXCEPT ![b] = 1] /\ ptr' = [ptr EXCEPT ![w] = b]
      /\ sym' = [sym EXCEPT ![w] = h]
      /\ pc' = pc /\ var' = var /\ dying' = dying
  BY <1>1 DEF Bind
<1>3. UsesExact' /\ uses' \in [Blocks -> Nat]
  BY <1>0, <1>1, <1>2, UsesChange DEF TypeOK
<1>4. CountExact' /\ count' \in [Libs -> Nat]
  BY <1>0, <1>1, <1>2, HeldChange DEF TypeOK
<1>5. TypeOK'
  BY <1>0, <1>1, <1>2, <1>3, <1>4 DEF TypeOK, Objects, Owners
<1>6. BlockInv'
  <2>1. ASSUME NEW v \in Vals, ptr'[v] # NULL
        PROVE  sym'[v] \in Libs /\ sym'[v] = held'[ptr'[v]]
    <3>1. CASE v = w
      BY <1>0, <1>1, <1>2, <3>1 DEF TypeOK
    <3>2. CASE v # w
      <4>1. ptr'[v] = ptr[v] /\ sym'[v] = sym[v] /\ ptr[v] \in Objects
            /\ ptr[v] # b
        BY <1>0, <1>1, <1>2, <2>1, <3>2 DEF TypeOK, Owners, Objects
      <4>2. held'[ptr[v]] = held[ptr[v]]
        BY <1>0, <1>2, <4>1 DEF TypeOK
      <4> QED BY <1>0, <2>1, <4>1, <4>2 DEF BlockInv
    <3> QED BY <3>1, <3>2
  <2>2. ASSUME NEW c \in Blocks, Free(c)'
        PROVE  held'[c] = NULL
    BY <1>0, <1>1, <1>2, <2>2 DEF Free, TypeOK, BlockInv, Objects
  <2> QED BY <2>1, <2>2 DEF BlockInv
<1>7. Apart'
  BY <1>0, <1>2 DEF Apart
<1>8. ASSUME NEW u \in Threads PROVE ThreadInv(u)'
  <2>1. ptr'[u] = ptr[u] /\ (ptr[u] # NULL => held'[ptr[u]] = held[ptr[u]])
    BY <1>0, <1>1, <1>2 DEF TypeOK, Owners, Objects
  <2>2. var[u] \in Vals => ptr'[var[u]] = ptr[var[u]] /\ sym'[var[u]] = sym[var[u]]
    BY <1>0, <1>1, <1>2 DEF TypeOK, Owners
  <2>3. dying[u] # NULL => uses'[dying[u]] = uses[dying[u]]
    BY <1>0, <1>1, <1>2 DEF TypeOK
  <2> QED BY <1>0, <1>2, <2>1, <2>2, <2>3 DEF ThreadInv
<1> QED BY <1>3, <1>4, <1>5, <1>6, <1>7, <1>8 DEF IInv

LEMMA ImportStep == PluginIInv /\ [PluginNext]_allVars => IInv'
<1> SUFFICES ASSUME PluginIInv, [PluginNext]_allVars PROVE IInv'
  OBVIOUS
<1>1. CASE [Next]_vars
  <2>1. IInv
    BY DEF PluginIInv
  <2> QED BY <1>1, <2>1, TypeStep, UsesStep, HeldStep, BlockStep, ApartStep,
             ThreadStep DEF IInv
<1> QED BY <1>1, BindStep, PluginSteps

-----------------------------------------------------------------------------
(* The plugins.                                                            *)

LEMMA PluginTypeStep == PluginIInv /\ [PluginNext]_allVars => PluginTypeOK'
<1> SUFFICES ASSUME PluginIInv, [PluginNext]_allVars PROVE PluginTypeOK'
  OBVIOUS
<1>0. PluginTypeOK /\ IInv
  BY DEF PluginIInv
<1>1. CASE UNCHANGED pluginVars
  BY <1>0, <1>1 DEF PluginTypeOK, pluginVars
<1>2. ASSUME NEW t \in Threads, Create(t)
      PROVE  PluginTypeOK'
  <2>1. sym[var[t]] \in Libs
    BY <1>0, <1>2 DEF Create, IInv, ThreadInv, BlockInv
  <2> QED BY <1>0, <1>2, <2>1 DEF Create, PluginTypeOK
<1>3. ASSUME NEW t \in Threads, NEW w \in Vals, NEW b \in Blocks, NEW h \in Libs,
             Bind(t, w, b, h)
      PROVE  PluginTypeOK'
  BY <1>0, <1>3 DEF Bind, PluginTypeOK
<1>4. ASSUME NEW t \in Threads, Locate(t) \/ BindThrows(t) \/ Delete(t)
      PROVE  PluginTypeOK'
  BY <1>0, <1>4 DEF Locate, BindThrows, Delete, PluginTypeOK
<1> QED BY <1>1, <1>2, <1>3, <1>4, Zenon
    DEF PluginNext, PluginStep, allVars

\* A step of Import leaves the value another thread calls, and the library of a
\* block somebody has, as they are.
LEMMA ValuesKept ==
    ASSUME IInv, NEW t \in Threads, User(t) \/ Step(t),
           NEW u \in Threads, u # t
    PROVE  /\ pc'[u] = pc[u] /\ var'[u] = var[u]
           /\ pc[u] = "calling" => sym'[var[u]] = sym[var[u]]
<1>0. TypeOK /\ Apart /\ ThreadInv(u)
  BY DEF IInv
<1> USE DEF Goto, TypeOK
<1>1. ASSUME NEW i \in Insts, (\E h \in Libs : Load(t, i, h)) \/ Unload(t, i)
      PROVE  pc' = pc /\ var' = var /\ sym' = sym
  BY <1>1 DEF Load, Unload
<1>2. ASSUME NEW v \in Vals, NEW b \in Blocks, MakeShared(t, v, b)
      PROVE  pc'[u] = pc[u] /\ var'[u] = var[u] /\ sym' = sym
  BY <1>0, <1>2 DEF MakeShared
<1>3. ASSUME NEW v \in Vals, BeginCall(t, v)
      PROVE  pc'[u] = pc[u] /\ var'[u] = var[u] /\ sym' = sym
  BY <1>0, <1>3 DEF BeginCall
<1>4. CASE GetThrows(t) \/ Share(t) \/ ReleaseLocal(t) \/ Destroy(t) \/ EndCall(t)
  BY <1>0, <1>4 DEF GetThrows, Share, ReleaseLocal, Release, Destroy, EndCall
<1>5. CASE Get(t)
  BY <1>0, <1>5 DEF Get, Apart
<1>6. ASSUME NEW v \in Vals, ReleaseValue(t, v)
      PROVE  /\ pc'[u] = pc[u] /\ var'[u] = var[u]
             /\ sym'[var[u]] = sym[var[u]] \/ var[u] \notin Vals
  BY <1>0, <1>6 DEF ReleaseValue, Release, Unused
<1>7. ASSUME NEW v \in Vals, NEW w \in Vals, CopyValue(t, v, w)
      PROVE  /\ pc'[u] = pc[u] /\ var'[u] = var[u]
             /\ sym'[var[u]] = sym[var[u]] \/ var[u] \notin Vals
  BY <1>0, <1>7 DEF CopyValue, Unused
<1>8. pc[u] = "calling" => var[u] \in Vals
  BY <1>0 DEF ThreadInv
<1>9. \/ \E i \in Insts : (\E h \in Libs : Load(t, i, h)) \/ Unload(t, i)
      \/ \E v \in Vals, b \in Blocks : MakeShared(t, v, b)
      \/ \E v \in Vals : BeginCall(t, v) \/ ReleaseValue(t, v)
      \/ \E v \in Vals, w \in Vals : CopyValue(t, v, w)
      \/ GetThrows(t) \/ Share(t) \/ ReleaseLocal(t) \/ Destroy(t) \/ EndCall(t)
      \/ Get(t)
  BY Zenon DEF User, Step, MakeFromPath, MakeFromCopy, MakeFromMove
<1> QED BY <1>1, <1>2, <1>3, <1>4, <1>5, <1>6, <1>7, <1>8, <1>9

LEMMA OwnersKept ==
    ASSUME IInv, NEW t \in Threads, User(t) \/ Step(t),
           NEW b \in Blocks, ~Free(b), dying[t] # b
    PROVE  held'[b] = held[b] /\ ~Free(b)'
<1>0. /\ TypeOK /\ UsesExact /\ CountExact
      /\ \A u \in Threads : ThreadInv(u)
      /\ \A x \in Owners : ptr[x] # NULL =>
            ptr[x] \in Blocks /\ uses[ptr[x]] \in Nat \ {0}
      /\ Threads \subseteq Owners /\ Vals \subseteq Owners
      /\ Insts \cap Blocks = {} /\ b \in Objects
  BY SharedIsUsed DEF IInv, Owners, Objects
<1> USE DEF Goto, TypeOK, Free
<1>1. ASSUME NEW i \in Insts, (\E h \in Libs : Load(t, i, h)) \/ Unload(t, i)
      PROVE  held'[b] = held[b] /\ ~Free(b)'
  BY <1>0, <1>1 DEF Load, Unload
<1>2. ASSUME NEW v \in Vals, NEW c \in Blocks, Make(t, v, c)
      PROVE  held'[b] = held[b] /\ ~Free(b)'
  <2>1. b # c /\ uses' = [uses EXCEPT ![c] = 1] /\ dying' = dying
    BY <1>0, <1>2 DEF Make, MakeFromPath, MakeFromCopy, MakeFromMove, MakeShared
  <2>2. held'[b] = held[b]
    BY <1>0, <1>2, <2>1
       DEF Make, MakeFromPath, MakeFromCopy, MakeFromMove
  <2> QED BY <1>0, <2>1, <2>2
<1>3. CASE GetThrows(t) \/ Get(t) \/ EndCall(t) \/ \E v \in Vals : BeginCall(t, v)
  BY <1>0, <1>3 DEF GetThrows, Get, EndCall, BeginCall
<1>4. CASE Share(t)
  <2>1. ptr[t] \in Blocks /\ uses[ptr[t]] \in Nat \ {0}
    BY <1>0, <1>4 DEF Share, ThreadInv
  <2> QED BY <1>0, <1>4, <2>1 DEF Share
<1>5. ASSUME NEW x \in Owners, Release(t, x), dying[t] = NULL
      PROVE  held'[b] = held[b] /\ ~Free(b)'
  <2>1. ptr[x] \in Blocks /\ uses[ptr[x]] \in Nat \ {0}
    BY <1>0, <1>5 DEF Release
  <2>2. CASE b = ptr[x] /\ uses[b] = 1
    BY <1>0, <1>5, <2>1, <2>2 DEF Release
  <2>3. CASE b = ptr[x] /\ uses[b] # 1
    BY <1>0, <1>5, <2>1, <2>3 DEF Release
  <2>4. CASE b # ptr[x]
    <3>1. uses'[b] = uses[b] /\ held' = held
      BY <1>0, <1>5, <2>4 DEF Release
    <3>2. ASSUME NEW u \in Threads, dying[u] = b PROVE dying'[u] = b
      BY <1>0, <1>5, <3>2 DEF Release
    <3> QED BY <1>0, <3>1, <3>2
  <2> QED BY <2>2, <2>3, <2>4
<1>6. CASE ReleaseLocal(t) \/ \E v \in Vals : ReleaseValue(t, v)
  <2>1. dying[t] = NULL
    BY <1>0, <1>6 DEF ReleaseLocal, ReleaseValue, ThreadInv
  <2> QED BY <1>0, <1>5, <1>6, <2>1 DEF ReleaseLocal, ReleaseValue
<1>7. CASE Destroy(t)
  <2>1. dying[t] \in Objects
    BY <1>0, <1>7 DEF Destroy, ThreadInv, Objects
  <2>2. held'[b] = held[b] /\ uses' = uses
    BY <1>0, <1>7, <2>1 DEF Destroy
  <2>3. ASSUME NEW u \in Threads, dying[u] = b PROVE dying'[u] = b
    BY <1>0, <1>7, <2>3 DEF Destroy
  <2> QED BY <1>0, <2>2, <2>3
<1>8. ASSUME NEW v \in Vals, NEW w \in Vals, CopyValue(t, v, w)
      PROVE  held'[b] = held[b] /\ ~Free(b)'
  <2>1. ptr[v] \in Blocks /\ uses[ptr[v]] \in Nat \ {0}
    BY <1>0, <1>8 DEF CopyValue
  <2> QED BY <1>0, <1>8, <2>1 DEF CopyValue
<1>9. \/ \E i \in Insts : (\E h \in Libs : Load(t, i, h)) \/ Unload(t, i)
      \/ \E v \in Vals, c \in Blocks : Make(t, v, c)
      \/ GetThrows(t) \/ Get(t) \/ Share(t) \/ ReleaseLocal(t)
      \/ \E v \in Vals : ReleaseValue(t, v) \/ BeginCall(t, v)
      \/ Destroy(t) \/ EndCall(t)
      \/ \E v \in Vals, w \in Vals : CopyValue(t, v, w)
  BY Zenon DEF User, Step, Make
<1> QED BY <1>1, <1>2, <1>3, <1>4, <1>6, <1>7, <1>8, <1>9

LEMMA PluginStepInv == PluginIInv /\ [PluginNext]_allVars => PluginInv'
<1> SUFFICES ASSUME PluginIInv, [PluginNext]_allVars PROVE PluginInv'
  OBVIOUS
<1>0. /\ PluginTypeOK /\ IInv /\ PluginInv /\ TypeOK
      /\ \A u \in Threads : ThreadInv(u)
  BY DEF PluginIInv, IInv
<1>1. CASE UNCHANGED allVars
  BY <1>0, <1>1 DEF PluginInv, allVars, vars, pluginVars, Free
<1>2. ASSUME NEW t \in Threads, User(t) \/ Step(t), UNCHANGED pluginVars,
             pc[t] = "calling" => made[t] = NULL,
             pc[t] = "destroy" => object[dying[t]] = NULL
      PROVE  PluginInv'
  <2>1. ASSUME NEW u \in Threads, made'[u] # NULL
        PROVE  pc'[u] = "calling" /\ made'[u] = sym'[var'[u]]
    <3>1. made[u] # NULL /\ pc[u] = "calling" /\ made[u] = sym[var[u]] /\ u # t
      BY <1>0, <1>2, <2>1 DEF PluginInv, pluginVars
    <3> QED BY <1>0, <1>2, <3>1, ValuesKept DEF pluginVars
  <2>2. ASSUME NEW b \in Blocks, object'[b] # NULL
        PROVE  held'[b] = object'[b] /\ ~Free(b)'
    <3>1. object[b] # NULL /\ held[b] = object[b] /\ ~Free(b)
          /\ object'[b] = object[b]
      BY <1>0, <1>2, <2>2 DEF PluginInv, pluginVars
    <3>2. dying[t] # b
      BY <1>0, <1>2, <3>1, NULL \notin Blocks DEF ThreadInv
    <3> QED BY <1>0, <1>2, <3>1, <3>2, OwnersKept
  <2>3. \A u \in Threads : told'[u] # NULL => told'[u] = made'[u]
    BY <1>0, <1>2 DEF PluginInv, pluginVars
  <2> QED BY <2>1, <2>2, <2>3 DEF PluginInv
<1>3. ASSUME NEW t \in Threads, User(t), UNCHANGED pluginVars
      PROVE  PluginInv'
  <2>1. pc[t] = "idle"
    BY <1>3, Zenon DEF User, Load, Unload, ReleaseValue, BeginCall, CopyValue,
                MakeFromPath, MakeFromCopy, MakeFromMove, MakeShared
  <2> QED BY <1>2, <1>3, <2>1
<1>4. ASSUME NEW t \in Threads, UNCHANGED pluginVars,
             \/ GetThrows(t) \/ Get(t) \/ Share(t) \/ ReleaseLocal(t)
             \/ DestroyDeleter(t) \/ EndGetPlugin(t)
      PROVE  PluginInv'
  <2>1. Step(t)
    BY <1>4, Zenon DEF Step, DestroyDeleter, EndGetPlugin
  <2>2. /\ pc[t] = "calling" => made[t] = NULL
        /\ pc[t] = "destroy" => object[dying[t]] = NULL
    BY <1>4 DEF GetThrows, Get, Share, ReleaseLocal, DestroyDeleter, Destroy,
                EndGetPlugin, EndCall
  <2> QED BY <1>2, <1>4, <2>1, <2>2
<1>5. ASSUME NEW t \in Threads, Create(t)
      PROVE  PluginInv'
  BY <1>0, <1>5 DEF Create, PluginInv, PluginTypeOK, vars, Free
<1>6. ASSUME NEW t \in Threads, Locate(t) \/ BindThrows(t)
      PROVE  PluginInv'
  BY <1>0, <1>6 DEF Locate, BindThrows, PluginInv, PluginTypeOK, vars, Free
<1>7. ASSUME NEW t \in Threads, Delete(t)
      PROVE  PluginInv'
  BY <1>0, <1>7 DEF Delete, PluginInv, PluginTypeOK, vars, Free
<1>8. ASSUME NEW t \in Threads, NEW w \in Vals, NEW b \in Blocks, NEW h \in Libs,
             Bind(t, w, b, h)
      PROVE  PluginInv'
  <2>1. /\ h = made[t] /\ b \in Objects /\ uses[b] = 0
        /\ \A u \in Threads : var[u] # w
    BY <1>8, BindStarts
  <2>2. ASSUME NEW u \in Threads, made'[u] # NULL
        PROVE  pc'[u] = "calling" /\ made'[u] = sym'[var'[u]]
    BY <1>0, <1>8, <2>1, <2>2 DEF Bind, PluginInv, PluginTypeOK, TypeOK, ThreadInv
  <2>3. ASSUME NEW c \in Blocks, object'[c] # NULL
        PROVE  held'[c] = object'[c] /\ ~Free(c)'
    BY <1>0, <1>8, <2>1, <2>3
       DEF Bind, PluginInv, PluginTypeOK, TypeOK, Free, Objects
  <2>4. \A u \in Threads : told'[u] # NULL => told'[u] = made'[u]
    BY <1>0, <1>8 DEF Bind, PluginInv, PluginTypeOK
  <2> QED BY <2>2, <2>3, <2>4 DEF PluginInv
<1> QED BY <1>1, <1>3, <1>4, <1>5, <1>6, <1>7, <1>8, Zenon
    DEF PluginNext, PluginStep

-----------------------------------------------------------------------------
(***************************************************************************)
(* The invariant of Import goes on to hold when control blocks hold        *)
(* plugins: the deleter owns the library of its plugin, and a plain        *)
(* pointer is only in the hands of a thread that still has the factory.    *)
(***************************************************************************)
THEOREM PluginInvariant == PluginSpec => []PluginIInv
<1>1. PluginInit => PluginIInv
  BY InitInv DEF PluginInit, PluginIInv, PluginTypeOK, PluginInv
<1>2. PluginIInv /\ [PluginNext]_allVars => PluginIInv'
  BY ImportStep, PluginTypeStep, PluginStepInv DEF PluginIInv
<1> QED BY <1>1, <1>2, PTL DEF PluginSpec

\* The code of a plugin is mapped as long as the plugin exists (tutorial8).
THEOREM PluginsStayMapped == PluginSpec => []PluginCodeMapped
<1>1. PluginIInv => PluginCodeMapped
  <2> SUFFICES ASSUME PluginIInv PROVE PluginCodeMapped
    OBVIOUS
  <2>0. /\ TypeOK /\ UsesExact /\ CountExact /\ BlockInv /\ PluginInv
        /\ \A u \in Threads : ThreadInv(u)
        /\ Blocks \subseteq Objects
    BY DEF PluginIInv, IInv, Objects
  <2>1. ASSUME NEW o \in Objects, held[o] # NULL PROVE count[held[o]] > 0
    BY <2>0, <2>1, ReferredIsMapped
  <2>2. \A t \in Threads : made[t] # NULL => count[made[t]] > 0
    BY MadeIsMapped
  <2>3. ASSUME NEW b \in Blocks, object[b] # NULL PROVE count[object[b]] > 0
    BY <2>0, <2>1, <2>3 DEF PluginInv
  <2> QED BY <2>2, <2>3 DEF PluginCodeMapped
<1> QED BY <1>1, PluginInvariant, PTL

(***************************************************************************)
(* With plugins among them the imported values go on to be valid, and the  *)
(* counts to be those of the owners: a deleter is one more of them.        *)
(***************************************************************************)
THEOREM PluginValues == PluginSpec => [](ImportedIsLoaded /\ UsesExact /\ CountExact)
<1>1. PluginIInv => ImportedIsLoaded /\ UsesExact /\ CountExact
  BY ValuesValid DEF PluginIInv, IInv
<1> QED BY <1>1, PluginInvariant, PTL

(***************************************************************************)
(* A program with plugins still implements LibraryRefs: the library that   *)
(* bind() puts into a deleter is one more load, and a plugin that nobody   *)
(* holds takes back exactly that one.                                      *)
(***************************************************************************)
THEOREM PluginImplementation == PluginSpec => ImplementsRefs
<1>1. PluginInit => Refs!Init
  BY DEF PluginInit, Init, Refs!Init
<1>2. ASSUME PluginIInv, NEW t \in Threads, NEW w \in Vals, NEW b \in Blocks,
             NEW h \in Libs, Bind(t, w, b, h)
      PROVE  Refs!Next
  <2>1. held[b] = NULL /\ b \in Objects
    BY <1>2, BindStarts
  <2>2. /\ held' = [held EXCEPT ![b] = h]
        /\ count' = [count EXCEPT ![h] = @ + 1]
    BY <1>2 DEF Bind
  <2>3. count \in [Libs -> Nat]
    BY <1>2 DEF PluginIInv, IInv, TypeOK
  <2>4. Refs!Take(b, h)
    BY <2>1, <2>2, <2>3 DEF Refs!Take
  <2> QED BY <2>1, <2>4 DEF Refs!Next
<1>3. ASSUME PluginIInv, PluginIInv', [PluginNext]_allVars
      PROVE  [Refs!Next]_(Refs!avars)
  <2>1. IInv /\ IInv'
    BY <1>3 DEF PluginIInv
  <2> QED BY <1>2, <1>3, <2>1, PluginSteps, RefsStep
<1> QED BY <1>1, <1>3, PluginInvariant, PTL DEF PluginSpec, ImplementsRefs, Refs!Spec
===============================================================================
