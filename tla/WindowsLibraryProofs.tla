------------------------- MODULE WindowsLibraryProofs -------------------------
(***************************************************************************)
(* What WindowsLibrary says of load() and of locations holds for paths of  *)
(* any length and a buffer of any size.                                    *)
(***************************************************************************)
EXTENDS WindowsLibrary, TLAPS

USE WindowsLibraryAssumption

\* GetModuleFileNameW() writes no more than the buffer holds and names the
\* module it was asked for; nothing when it fails.
LEMMA ModuleFileName ==
    ASSUME TypeOK, NEW module \in {"library", "program", "private", None}
    PROVE  LET call == GetModuleFileName(module, DefaultPathSize) IN
           /\ call.of \in Modules \cup {None} /\ call.written \in Nat
           /\ call.returned = 0 <=> module = "private"
           /\ module \in Modules => call.of = module
           /\ module = None => call.of = "program"
           /\ module = "private" => call.of = None
<1>1. length["library"] \in Nat \ {0} /\ length["program"] \in Nat \ {0}
  BY DEF TypeOK, Modules
<1>2. DefaultPathSize \in Nat \ {0}
  OBVIOUS
<1>3. CASE module = "private"
  BY <1>3 DEF GetModuleFileName, Modules
<1>4. CASE module = "library"
  BY <1>1, <1>2, <1>4 DEF GetModuleFileName, Modules
<1>5. CASE module = "program"
  BY <1>1, <1>2, <1>5 DEF GetModuleFileName, Modules
<1>6. CASE module = None /\ module \notin {"library", "program", "private"}
  BY <1>1, <1>2, <1>6 DEF GetModuleFileName, Modules
<1> QED BY <1>3, <1>4, <1>5, <1>6

LEMMA PathAnswer ==
    ASSUME TypeOK, NEW module \in {"library", "program", "private", None},
           PathFromHandle(module)
    PROVE  /\ ec' \in {"ok", "mod_not_found"}
           /\ answer' \in [of : Modules \cup {None}, written : Nat]
           /\ (ec' = "ok") = (answer'.of # None)
           /\ answer'.of = IF module = None THEN "program"
                           ELSE IF module = "private" THEN None ELSE module
<1> DEFINE call == GetModuleFileName(module, DefaultPathSize)
<1>1. /\ ec' = IF call.returned # 0 THEN "ok" ELSE "mod_not_found"
      /\ answer' = [of |-> call.of, written |-> call.written]
  BY DEF PathFromHandle
<1>2. /\ call.of \in Modules \cup {None} /\ call.written \in Nat
      /\ call.returned = 0 <=> module = "private"
      /\ module \in Modules => call.of = module
      /\ module = None => call.of = "program"
      /\ module = "private" => call.of = None
  BY ModuleFileName
<1> HIDE DEF call
<1> QED BY <1>1, <1>2 DEF Modules

\* What Locate() answers, by what it was asked.
LEMMA Located ==
    ASSUME TypeOK, NEW q \in Questions, Locate(q)
    PROVE  /\ ec' \in Errors
           /\ answer' \in [of : Modules \cup {None}, written : Nat]
           /\ (ec' = "ok") = (answer'.of # None)
           /\ answer'.of # Owner(q)' => q = "symbol" /\ pointer' = "freed"
<1>0. /\ handle' = handle /\ pointer' = pointer
      /\ q = "symbol" => pointer # None
      /\ pointer \in {None, "library", "freed"}
  BY DEF Locate, TypeOK
<1>1. ASSUME NEW e \in Errors \ {"ok"}, Refuse(e)
      PROVE  /\ ec' \in Errors /\ ec' # "ok" /\ answer'.of = None
             /\ answer' \in [of : Modules \cup {None}, written : Nat]
  BY <1>1 DEF Refuse, NoAnswer
<1>2. CASE q = "object"
  <2>1. CASE handle = None
    <3>1. Refuse("bad_file_descriptor")
      BY <1>2, <2>1 DEF Locate
    <3>2. Owner(q)' = None
      BY <1>0, <1>2, <2>1 DEF Owner
    <3>3. "bad_file_descriptor" \in Errors \ {"ok"}
      BY DEF Errors
    <3>4. /\ ec' \in Errors /\ ec' # "ok" /\ answer'.of = None
          /\ answer' \in [of : Modules \cup {None}, written : Nat]
      BY <1>1, <3>1, <3>3
    <3> QED BY <3>2, <3>4
  <2>2. CASE handle # None
    <3>1. PathFromHandle("library")
      BY <1>2, <2>2 DEF Locate
    <3> QED BY <1>0, <1>2, <2>2, <3>1, PathAnswer DEF Owner, Errors, Modules
  <2> QED BY <2>1, <2>2
<1>3. CASE q = "program"
  <2>1. PathFromHandle(None)
    BY <1>3 DEF Locate
  <2> QED BY <1>3, <2>1, PathAnswer DEF Owner, Errors, Modules
<1>4. CASE q \in Addresses
  <2>1. SymbolLocation(q)
    BY <1>4 DEF Locate, Addresses
  <2>2. CASE q = "null"
    <3>1. Refuse("bad_address")
      BY <2>1, <2>2 DEF SymbolLocation
    <3> QED BY <1>1, <2>2, <3>1 DEF Owner, Errors
  <2>3. CASE q = "kernel"
    <3>1. Refuse("invalid_parameter")
      BY <2>1, <2>3 DEF SymbolLocation
    <3> QED BY <1>1, <2>3, <3>1 DEF Owner, Errors
  <2>4. CASE q = "function"
    <3>1. PathFromHandle("program")
      BY <2>1, <2>4 DEF SymbolLocation, AllocationBase
    <3> QED BY <2>4, <3>1, PathAnswer DEF Owner, Errors, Modules
  <2>5. CASE q = "stack"
    <3>1. PathFromHandle("private")
      BY <2>1, <2>5 DEF SymbolLocation, AllocationBase
    <3> QED BY <2>5, <3>1, PathAnswer DEF Owner, Errors, Modules
  <2>6. CASE q = "symbol"
    <3>1. PathFromHandle(IF pointer = "library" THEN "library" ELSE None)
      BY <2>1, <2>6 DEF SymbolLocation, AllocationBase
    <3>2. CASE pointer = "library"
      BY <1>0, <2>6, <3>1, <3>2, PathAnswer DEF Owner, Errors, Modules
    <3>3. CASE pointer # "library"
      BY <1>0, <2>6, <3>1, <3>3, PathAnswer DEF Owner, Errors, Modules
    <3> QED BY <3>2, <3>3
  <2> QED BY <1>4, <2>2, <2>3, <2>4, <2>5, <2>6 DEF Addresses
<1> QED BY <1>2, <1>3, <1>4 DEF Questions

-----------------------------------------------------------------------------
LEMMA WindowsInit == Init => WIInv
<1> SUFFICES ASSUME Init PROVE WIInv
  OBVIOUS
<1>1. TypeOK
  BY DEF Init, TypeOK, NoAnswer, Errors, Modules
<1> QED BY <1>1 DEF Init, WIInv, AttemptInv, MissedInv, LoadResult,
                   DecoratedFirst, LocationOfModule, Loading, Candidates

LEMMA WindowsTypeStep == WIInv /\ [Next]_vars => TypeOK'
<1> SUFFICES ASSUME WIInv, [Next]_vars PROVE TypeOK'
  OBVIOUS
<1>0. TypeOK /\ AttemptInv
  BY DEF WIInv
<1> USE DEF TypeOK, Candidates, Errors, request
<1>1. CASE UNCHANGED vars
  BY <1>0, <1>1 DEF vars
<1>2. ASSUME NEW c \in Candidates, NEW k \in Contents, FileChange(c, k)
      PROVE  TypeOK'
  BY <1>0, <1>2 DEF FileChange, AbsentNow
<1>3. ASSUME NEW decorations \in BOOLEAN, BeginLoad(decorations)
      PROVE  TypeOK'
  BY <1>0, <1>3 DEF BeginLoad, Freed
<1>4. ASSUME NEW c \in {"decorated", "mingw"}, TryDecorated(c)
      PROVE  TypeOK'
  BY <1>0, <1>4 DEF TryDecorated, LastError, Contents, AttemptInv, Loading
<1>5. CASE FileIsThere \/ FileIsAbsent \/ ExistsThrows
  BY <1>0, <1>5 DEF FileIsThere, FileIsAbsent, ExistsThrows
<1>6. CASE TryExact
  BY <1>0, <1>6 DEF TryExact, LastError, Contents
<1>7. CASE Return
  BY <1>0, <1>7 DEF Return, NoAnswer
<1>8. CASE Unload \/ GetSymbol
  BY <1>0, <1>8 DEF Unload, Freed, GetSymbol
<1>9. ASSUME NEW q \in Questions, Locate(q)
      PROVE  TypeOK'
  <2>1. /\ ec' \in Errors /\ answer' \in [of : Modules \cup {None}, written : Nat]
    BY <1>0, <1>9, Located
  <2>2. /\ pc' = "located" /\ asked' = q
        /\ UNCHANGED <<files, length, decorate, handle, escaped, missed, pointer>>
    BY <1>9 DEF Locate
  <2> QED BY <1>0, <2>1, <2>2
<1> QED BY <1>1, <1>2, <1>3, <1>4, <1>5, <1>6, <1>7, <1>8, <1>9 DEF Next

\* A load() that goes on has no library and nothing to hide in ec.
LEMMA AttemptStep == WIInv /\ [Next]_vars => AttemptInv' /\ LoadResult'
<1> SUFFICES ASSUME WIInv, [Next]_vars PROVE AttemptInv' /\ LoadResult'
  OBVIOUS
<1>0. TypeOK /\ AttemptInv /\ LoadResult
  BY DEF WIInv
<1> USE DEF AttemptInv, LoadResult, Loading, Candidates
<1>1. CASE UNCHANGED vars
  BY <1>0, <1>1 DEF vars
<1>2. ASSUME NEW c \in Candidates, NEW k \in Contents, FileChange(c, k)
      PROVE  AttemptInv' /\ LoadResult'
  BY <1>0, <1>2 DEF FileChange
<1>3. ASSUME NEW decorations \in BOOLEAN, BeginLoad(decorations)
      PROVE  AttemptInv' /\ LoadResult'
  BY <1>0, <1>3 DEF BeginLoad, Freed
<1>4. ASSUME NEW c \in {"decorated", "mingw"}, TryDecorated(c)
      PROVE  AttemptInv' /\ LoadResult'
  BY <1>0, <1>4 DEF TryDecorated, LastError, Contents, TypeOK
<1>5. CASE FileIsThere \/ FileIsAbsent \/ ExistsThrows
  BY <1>0, <1>5 DEF FileIsThere, FileIsAbsent, ExistsThrows
<1>6. CASE TryExact
  BY <1>0, <1>6 DEF TryExact, LastError, Contents, TypeOK
<1>7. CASE Return
  BY <1>0, <1>7 DEF Return
<1>8. CASE Unload \/ GetSymbol
  BY <1>0, <1>8 DEF Unload, GetSymbol
<1>9. ASSUME NEW q \in Questions, Locate(q)
      PROVE  AttemptInv' /\ LoadResult'
  BY <1>0, <1>9 DEF Locate
<1> QED BY <1>1, <1>2, <1>3, <1>4, <1>5, <1>6, <1>7, <1>8, <1>9 DEF Next

\* A name once missed stays so until the load() is over.
LEMMA MissedStep == WIInv /\ [Next]_vars => MissedInv' /\ DecoratedFirst'
<1> SUFFICES ASSUME WIInv, [Next]_vars PROVE MissedInv' /\ DecoratedFirst'
  OBVIOUS
<1>0. TypeOK /\ AttemptInv /\ MissedInv /\ DecoratedFirst
  BY DEF WIInv
<1> USE DEF MissedInv, DecoratedFirst, Loading, Candidates
<1>1. CASE UNCHANGED vars
  BY <1>0, <1>1 DEF vars
<1>2. ASSUME NEW c \in Candidates, NEW k \in Contents, FileChange(c, k)
      PROVE  MissedInv' /\ DecoratedFirst'
  BY <1>0, <1>2 DEF FileChange, AbsentNow
<1>3. ASSUME NEW decorations \in BOOLEAN, BeginLoad(decorations)
      PROVE  MissedInv' /\ DecoratedFirst'
  BY <1>0, <1>3 DEF BeginLoad
<1>4. ASSUME NEW c \in {"decorated", "mingw"}, TryDecorated(c)
      PROVE  MissedInv' /\ DecoratedFirst'
  BY <1>0, <1>4 DEF TryDecorated, AttemptInv, TypeOK
<1>5. CASE FileIsThere \/ FileIsAbsent \/ ExistsThrows
  BY <1>0, <1>5 DEF FileIsThere, FileIsAbsent, ExistsThrows, Checked, AttemptInv, TypeOK
<1>6. CASE TryExact
  BY <1>0, <1>6 DEF TryExact, AttemptInv
<1>7. CASE Return
  BY <1>0, <1>7 DEF Return
<1>8. CASE Unload \/ GetSymbol
  BY <1>0, <1>8 DEF Unload, GetSymbol
<1>9. ASSUME NEW q \in Questions, Locate(q)
      PROVE  MissedInv' /\ DecoratedFirst'
  BY <1>0, <1>9 DEF Locate
<1> QED BY <1>1, <1>2, <1>3, <1>4, <1>5, <1>6, <1>7, <1>8, <1>9 DEF Next

LEMMA LocationStep == WIInv /\ [Next]_vars => LocationOfModule'
<1> SUFFICES ASSUME WIInv, [Next]_vars PROVE LocationOfModule'
  OBVIOUS
<1>0. TypeOK /\ LocationOfModule
  BY DEF WIInv
<1>1. CASE UNCHANGED vars
  <2>1. pc' = pc /\ ec' = ec /\ answer' = answer /\ asked' = asked
        /\ handle' = handle /\ pointer' = pointer
    BY <1>1 DEF vars, request
  <2> QED BY <1>0, <2>1 DEF LocationOfModule, Owner
<1>2. ASSUME NEW q \in Questions, Locate(q)
      PROVE  LocationOfModule'
  <2>1. asked' = q
    BY <1>2 DEF Locate
  <2> QED BY <1>0, <1>2, <2>1, Located DEF LocationOfModule
<1>3. ASSUME Next, ~\E q \in Questions : Locate(q)
      PROVE  pc' # "located"
  BY <1>3 DEF Next, FileChange, BeginLoad, TryDecorated, FileIsThere, FileIsAbsent,
              ExistsThrows, TryExact, Return, Unload, GetSymbol, Candidates
<1> QED BY <1>1, <1>2, <1>3 DEF LocationOfModule

\* A path that fits the buffer with its end is written whole.
LEMMA WrittenWhole ==
    ASSUME TypeOK, \A n \in Lengths : n < DefaultPathSize,
           NEW module \in {"library", "program", "private", None},
           PathFromHandle(module), ec' = "ok"
    PROVE  answer'.written = length[answer'.of]
<1>1. \A of \in Modules : length[of] < DefaultPathSize
  BY DEF TypeOK
<1>2. CASE module = "private"
  BY <1>2 DEF PathFromHandle, GetModuleFileName
<1>3. CASE module = "library" \/ module = "program"
  BY <1>1, <1>3 DEF PathFromHandle, GetModuleFileName, Modules
<1>4. CASE module = None /\ module \notin {"library", "program", "private"}
  BY <1>1, <1>4 DEF PathFromHandle, GetModuleFileName, Modules
<1> QED BY <1>2, <1>3, <1>4

LEMMA WholeStep ==
    ASSUME \A n \in Lengths : n < DefaultPathSize, WIInv, LocationWhole, [Next]_vars
    PROVE  LocationWhole'
<1>0. TypeOK
  BY DEF WIInv
<1>1. CASE UNCHANGED vars
  BY <1>1 DEF vars, request, LocationWhole
<1>2. ASSUME NEW q \in Questions, Locate(q)
      PROVE  LocationWhole'
  <2>1. length' = length
    BY <1>2 DEF Locate
  <2>2. \/ \E e \in Errors \ {"ok"} : Refuse(e)
        \/ \E module \in {"library", "program", "private", None} : PathFromHandle(module)
    <3>1. CASE q = "object"
      BY <1>2, <3>1 DEF Locate, Errors
    <3>2. CASE q = "program"
      BY <1>2, <3>2 DEF Locate
    <3>3. CASE q \in Addresses
      <4>1. SymbolLocation(q)
        BY <1>2, <3>3 DEF Locate, Addresses
      <4>2. AllocationBase(q) \in {"library", "program", "private", None}
        BY DEF AllocationBase
      <4> QED BY <4>1, <4>2 DEF SymbolLocation, Errors
    <3> QED BY <3>1, <3>2, <3>3 DEF Questions
  <2>3. CASE \E e \in Errors \ {"ok"} : Refuse(e)
    BY <2>3 DEF Refuse, LocationWhole
  <2>4. CASE \E module \in {"library", "program", "private", None} : PathFromHandle(module)
    BY <1>0, <2>1, <2>4, WrittenWhole DEF LocationWhole
  <2> QED BY <2>2, <2>3, <2>4
<1>3. ASSUME Next, ~\E q \in Questions : Locate(q)
      PROVE  pc' # "located"
  BY <1>3 DEF Next, FileChange, BeginLoad, TryDecorated, FileIsThere, FileIsAbsent,
              ExistsThrows, TryExact, Return, Unload, GetSymbol, Candidates
<1> QED BY <1>1, <1>2, <1>3 DEF LocationWhole

-----------------------------------------------------------------------------
\* The invariant of the object on Windows: each attempt of load() starts from
\* no library and no error, and what was passed over is remembered.
THEOREM WindowsInvariant == Spec => []WIInv
<1>1. WIInv /\ [Next]_vars => WIInv'
  BY WindowsTypeStep, AttemptStep, MissedStep, LocationStep DEF WIInv
<1> QED BY <1>1, WindowsInit, PTL DEF Spec

\* load() leaves a library or an error, of up to three attempts.
THEOREM WindowsLoadResult == Spec => []LoadResult
<1>1. WIInv => LoadResult
  BY DEF WIInv
<1> QED BY <1>1, WindowsInvariant, PTL

\* Decorated names come first, whatever happens to the files meanwhile.
THEOREM WindowsDecoratedFirst == Spec => []DecoratedFirst
<1>1. WIInv => DecoratedFirst
  BY DEF WIInv
<1> QED BY <1>1, WindowsInvariant, PTL

\* A location is that of the module asked for, the dangling pointer excepted.
THEOREM WindowsLocation == Spec => []LocationOfModule
<1>1. WIInv => LocationOfModule
  BY DEF WIInv
<1> QED BY <1>1, WindowsInvariant, PTL

\* Where every path fits the first buffer with its end, a location is whole.
THEOREM WindowsLocationWhole ==
    ASSUME \A n \in Lengths : n < DefaultPathSize
    PROVE  Spec => []LocationWhole
<1>1. Init => LocationWhole
  BY DEF Init, LocationWhole
<1>2. WIInv /\ LocationWhole /\ [Next]_vars => LocationWhole'
  BY WholeStep
<1> QED BY <1>1, <1>2, WindowsInvariant, PTL DEF Spec
===============================================================================
