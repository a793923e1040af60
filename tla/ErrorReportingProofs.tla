------------------------- MODULE ErrorReportingProofs -------------------------
(***************************************************************************)
(* What ErrorReporting says of error codes and of the texts of exceptions  *)
(* holds on every system and for any operations a thread calls.            *)
(***************************************************************************)
EXTENDS ErrorReporting, TLAPS

USE ErrorReportingAssumption

LEMMA ErrorInit == Init => EIInv
BY DEF Init, EIInv, TypeOK, OperationInv, ProgressInv, ErrorCodeIsResult,
       LoaderTextIsOwn, LoadLeavesNoMessage, Errors, Messages, Labels

\* The variables a step of an operation may change, and what is left of the
\* others; each of them is one step.
LEMMA StepTypes ==
    ASSUME TypeOK, ProgressInv, Step
    PROVE  TypeOK'
<1>0. UNCHANGED <<system, escaped>>
  BY DEF Step
<1> USE DEF TypeOK, Errors, Messages, Labels, Goto, Got, Fail, Throw, Reset,
            LoaderFailed, LoaderSucceeded
<1>1. CASE LoadEmpty \/ LoadUnload
  BY <1>0, <1>1 DEF LoadEmpty, LoadUnload
<1>2. CASE OpenDecorated \/ CheckDecorated
  BY <1>0, <1>2 DEF OpenDecorated, Opened, CheckDecorated
<1>3. CASE OpenExact \/ NotSelf \/ OpenSelf
  BY <1>0, <1>3 DEF OpenExact, Opened, NotSelf, OpenSelf
<1>4. CASE AssignTrivial \/ AssignNoLocation \/ AssignCopy
  BY <1>0, <1>4 DEF AssignTrivial, AssignNoLocation, AssignCopy, Opened
<1>5. CASE SymbolUnloaded \/ SymbolFound \/ SymbolMissing
  BY <1>0, <1>5 DEF SymbolUnloaded, SymbolFound, SymbolMissing
<1>6. CASE LocationUnloaded \/ LocationLinkMap \/ LocationNoLinkMap
  BY <1>0, <1>6 DEF LocationUnloaded, LocationLinkMap, LocationNoLinkMap
<1>7. CASE LocationImages \/ LocationAddress \/ LocationOtherAddress
  BY <1>0, <1>7 DEF LocationImages, LocationAddress, LocationOtherAddress
<1>8. CASE \/ ProgramLocationLink \/ ProgramLocationBuffer
           \/ ProgramLocationFile \/ ProgramLocationSysctl
  BY <1>0, <1>8 DEF ProgramLocationLink, ProgramLocationBuffer,
                    ProgramLocationFile, ProgramLocationSysctl
<1>9. CASE SymbolLocationNull \/ SymbolLocation \/ Report
  BY <1>0, <1>9 DEF SymbolLocationNull, SymbolLocation, Report
<1> QED BY <1>1, <1>2, <1>3, <1>4, <1>5, <1>6, <1>7, <1>8, <1>9
        DEF Step, Quietly

Results == ErrorCodeIsResult /\ LoaderTextIsOwn /\ LoadLeavesNoMessage

LEMMA StepResults ==
    ASSUME TypeOK, OperationInv, ProgressInv, Step
    PROVE  OperationInv' /\ ProgressInv' /\ Results'
<1>0. UNCHANGED <<system, escaped>>
  BY DEF Step
<1> USE DEF TypeOK, Errors, Messages, Labels, Goto, Got, Fail, Throw, Reset,
            LoaderFailed, LoaderSucceeded, OperationInv, ProgressInv, Results,
            TextOps, ErrorCodeIsResult, LoaderTextIsOwn, LoadLeavesNoMessage
<1>1. CASE LoadEmpty \/ LoadUnload
  BY <1>0, <1>1 DEF LoadEmpty, LoadUnload
<1>2. CASE OpenDecorated \/ CheckDecorated
  BY <1>0, <1>2 DEF OpenDecorated, Opened, CheckDecorated
<1>3. CASE OpenExact \/ NotSelf \/ OpenSelf
  BY <1>0, <1>3 DEF OpenExact, Opened, NotSelf, OpenSelf
<1>4. CASE AssignTrivial \/ AssignNoLocation \/ AssignCopy
  BY <1>0, <1>4 DEF AssignTrivial, AssignNoLocation, AssignCopy, Opened
<1>5. CASE SymbolUnloaded \/ SymbolFound \/ SymbolMissing
  BY <1>0, <1>5 DEF SymbolUnloaded, SymbolFound, SymbolMissing
<1>6. CASE LocationUnloaded \/ LocationLinkMap \/ LocationNoLinkMap
  BY <1>0, <1>6 DEF LocationUnloaded, LocationLinkMap, LocationNoLinkMap
<1>7. CASE LocationImages \/ LocationAddress \/ LocationOtherAddress
  BY <1>0, <1>7 DEF LocationImages, LocationAddress, LocationOtherAddress
<1>8. CASE \/ ProgramLocationLink \/ ProgramLocationBuffer
           \/ ProgramLocationFile \/ ProgramLocationSysctl
  BY <1>0, <1>8 DEF ProgramLocationLink, ProgramLocationBuffer,
                    ProgramLocationFile, ProgramLocationSysctl
<1>9. CASE SymbolLocationNull \/ SymbolLocation
  BY <1>0, <1>9 DEF SymbolLocationNull, SymbolLocation
<1>10. CASE Report
  BY <1>0, <1>10 DEF Report
<1> QED BY <1>1, <1>2, <1>3, <1>4, <1>5, <1>6, <1>7, <1>8, <1>9, <1>10
        DEF Step, Quietly

LEMMA ErrorStep == EIInv /\ [Next]_vars => EIInv'
<1> SUFFICES ASSUME EIInv, [Next]_vars PROVE EIInv'
  OBVIOUS
<1>0. TypeOK /\ OperationInv /\ ProgressInv /\ Results
  BY DEF EIInv, Results
<1>1. CASE UNCHANGED vars
  <2>1. /\ system' = system /\ lib' = lib /\ dl' = dl /\ ec' = ec /\ op' = op
        /\ throws' = throws /\ pc' = pc /\ result' = result /\ text' = text
        /\ escaped' = escaped
    BY <1>1 DEF vars
  <2>2. TypeOK'
    BY <1>0, <2>1 DEF TypeOK
  <2>3. OperationInv' /\ ProgressInv'
    BY <1>0, <2>1 DEF OperationInv, ProgressInv
  <2>4. ErrorCodeIsResult' /\ LoaderTextIsOwn' /\ LoadLeavesNoMessage'
    BY <1>0, <2>1
       DEF Results, ErrorCodeIsResult, LoaderTextIsOwn, LoadLeavesNoMessage
  <2> QED BY <2>2, <2>3, <2>4 DEF EIInv
<1>2. CASE Step
  BY <1>0, <1>2, StepTypes, StepResults DEF EIInv, Results
<1>3. ASSUME NEW o \in Ops, NEW throwing \in BOOLEAN, Call(o, throwing)
      PROVE  EIInv'
  <2>1. o \in Operations /\ First(o) \in Labels \ {"exists", "self", "failed", "done", "idle"}
    BY DEF Operations, First, Labels
  <2>2. TypeOK'
    BY <1>0, <1>3, <2>1 DEF TypeOK, Call, Goto, Messages, Errors
  <2>3. OperationInv'
    <3>1. op' = o /\ pc' = First(o)
      BY <1>3 DEF Call, Goto
    <3> QED BY <2>1, <3>1 DEF OperationInv, First, Operations
  <2>4. ProgressInv'
    <3>1. op' = o /\ pc' = First(o) /\ text' = "none"
      BY <1>3 DEF Call, Goto
    <3>2. First(o) # "dladdr" => ec' = "ok"
      BY <1>3, <2>1 DEF Call, First, Clears, Operations
    <3> QED BY <2>1, <3>1, <3>2 DEF ProgressInv
  <2>5. pc' # "done"
    BY <1>3, <2>1 DEF Call, Goto
  <2> QED BY <2>2, <2>3, <2>4, <2>5
          DEF EIInv, ErrorCodeIsResult, LoaderTextIsOwn, LoadLeavesNoMessage
<1>4. CASE ExistsThrows /\ UNCHANGED system
  BY <1>0, <1>4 DEF ExistsThrows, Goto, EIInv, TypeOK, OperationInv, ProgressInv,
                    ErrorCodeIsResult, LoaderTextIsOwn, LoadLeavesNoMessage, Labels
<1>5. CASE Return
  BY <1>0, <1>5 DEF Return, Goto, EIInv, TypeOK, OperationInv, ProgressInv,
                    ErrorCodeIsResult, LoaderTextIsOwn, LoadLeavesNoMessage, Labels,
                    Messages
<1> QED BY <1>1, <1>2, <1>3, <1>4, <1>5 DEF Next

-----------------------------------------------------------------------------
(***************************************************************************)
(* The invariant of error reporting: between the loader calls of an        *)
(* operation ec is clean, except where the last error is still to be used, *)
(* and the message that will be reported is of this operation.             *)
(***************************************************************************)
THEOREM ErrorInvariant == Spec => []EIInv
BY ErrorInit, ErrorStep, PTL DEF Spec

\* The error_code tells the result of the operation, whatever was in it before;
\* the one exception is sysctl() on FreeBSD.
THEOREM ErrorCodes == Spec => []ErrorCodeIsResult
<1>1. EIInv => ErrorCodeIsResult
  BY DEF EIInv
<1> QED BY <1>1, ErrorInvariant, PTL

\* An exception of load() and get() carries no text of an earlier operation.
THEOREM LoaderTexts == Spec => []LoaderTextIsOwn
<1>1. EIInv => LoaderTextIsOwn
  BY DEF EIInv
<1> QED BY <1>1, ErrorInvariant, PTL

\* A load() that succeeded leaves no message for a later exception.
THEOREM LoadsAreQuiet == Spec => []LoadLeavesNoMessage
<1>1. EIInv => LoadLeavesNoMessage
  BY DEF EIInv
<1> QED BY <1>1, ErrorInvariant, PTL

-----------------------------------------------------------------------------
(***************************************************************************)
(* exists() is asked by the load of a decorated name only, and that is the *)
(* one way an exception leaves the overload with an error_code: a program  *)
(* that does not append decorations never meets it.                        *)
(***************************************************************************)
THEOREM OnlyDecoratedEscape ==
    ASSUME "load_decorated" \notin Ops
    PROVE  Spec => []OnlyErrorCode
<1> DEFINE Plain == /\ pc = "idle" \/ op \in Ops
                    /\ pc \notin {"decorated", "exists"} /\ escaped = FALSE
<1>1. Init => Plain
  BY DEF Init
<1>2. EIInv /\ Plain /\ [Next]_vars => Plain'
  <2> SUFFICES ASSUME EIInv, Plain, [Next]_vars PROVE Plain'
    OBVIOUS
  <2>0. /\ pc = "idle" \/ op \in Ops
        /\ pc \notin {"decorated", "exists"} /\ escaped = FALSE
    OBVIOUS
  <2>1. CASE UNCHANGED vars
    BY <2>0, <2>1 DEF vars
  <2>2. CASE Step
    <3>0. escaped' = FALSE /\ Quietly
      BY <2>0, <2>2 DEF Step
    <3> USE <2>0 DEF Goto, Got, Fail, Throw, Opened
    <3>1. CASE LoadEmpty \/ LoadUnload
      <4>1. op # "load_decorated"
        BY <3>1 DEF LoadEmpty, LoadUnload
      <4> QED BY <3>0, <3>1, <4>1 DEF LoadEmpty, LoadUnload
    <3>2. CASE \/ OpenDecorated \/ CheckDecorated \/ OpenExact \/ NotSelf \/ OpenSelf
      BY <3>0, <3>2 DEF OpenDecorated, CheckDecorated, OpenExact, NotSelf, OpenSelf
    <3>3. CASE \/ AssignTrivial \/ AssignNoLocation \/ AssignCopy
               \/ SymbolUnloaded \/ SymbolFound \/ SymbolMissing
      BY <3>0, <3>3 DEF AssignTrivial, AssignNoLocation, AssignCopy,
                        SymbolUnloaded, SymbolFound, SymbolMissing
    <3>4. CASE \/ LocationUnloaded \/ LocationLinkMap \/ LocationNoLinkMap
               \/ LocationImages \/ LocationAddress \/ LocationOtherAddress
      BY <3>0, <3>4 DEF LocationUnloaded, LocationLinkMap, LocationNoLinkMap,
                        LocationImages, LocationAddress, LocationOtherAddress
    <3>5. CASE \/ ProgramLocationLink \/ ProgramLocationBuffer
               \/ ProgramLocationFile \/ ProgramLocationSysctl
               \/ SymbolLocationNull \/ SymbolLocation \/ Report
      BY <3>0, <3>5 DEF ProgramLocationLink, ProgramLocationBuffer,
                        ProgramLocationFile, ProgramLocationSysctl,
                        SymbolLocationNull, SymbolLocation, Report
    <3> QED BY <3>0, <3>1, <3>2, <3>3, <3>4, <3>5 DEF Quietly
  <2>3. ASSUME NEW o \in Ops, NEW throwing \in BOOLEAN, Call(o, throwing)
        PROVE  Plain'
    <3>1. o \in Operations /\ First(o) \notin {"decorated", "exists"} /\ op' = o
      BY <2>3 DEF Operations, First, Call
    <3> QED BY <2>0, <2>3, <3>1 DEF Call, Goto
  <2>4. CASE ExistsThrows
    BY <2>0, <2>4 DEF ExistsThrows, Goto
  <2>5. CASE Return
    BY <2>5 DEF Return, Goto
  <2> QED BY <2>1, <2>2, <2>3, <2>4, <2>5 DEF Next
<1>3. Plain => OnlyErrorCode
  BY DEF OnlyErrorCode
<1> QED BY <1>1, <1>2, <1>3, ErrorInvariant, PTL DEF Spec

(***************************************************************************)
(* A text of an earlier failure can only come out of assign(), location(), *)
(* program_location() and symbol_location_ptr(), which report errors that  *)
(* are not the loader's: a program that calls none of these reads in every *)
(* exception about the operation that threw it, whatever error_codes and   *)
(* has() left behind.                                                      *)
(***************************************************************************)
THEOREM OwnTexts ==
    ASSUME Ops \subseteq TextOps \cup {"has"}
    PROVE  Spec => []TextIsOwn
<1> DEFINE Silent == op \notin TextOps => throws = FALSE /\ text = "none"
<1>1. Init => Silent
  BY DEF Init
<1>2. EIInv /\ Silent /\ [Next]_vars => Silent'
  <2> SUFFICES ASSUME EIInv, Silent, [Next]_vars PROVE Silent'
    OBVIOUS
  <2>1. CASE UNCHANGED vars
    BY <2>1 DEF vars
  <2>2. CASE Step
    <3>1. OperationInv /\ pc \in Labels
      BY DEF EIInv, TypeOK
    <3>2. op' = op /\ throws' = throws
      BY <2>2 DEF Step, Quietly, LoadEmpty, LoadUnload, OpenDecorated,
         CheckDecorated, OpenExact, NotSelf, OpenSelf, AssignTrivial,
         AssignNoLocation, AssignCopy, SymbolUnloaded, SymbolFound, SymbolMissing,
         LocationUnloaded, LocationLinkMap, LocationNoLinkMap, LocationImages,
         LocationAddress, LocationOtherAddress, ProgramLocationLink,
         ProgramLocationBuffer, ProgramLocationFile, ProgramLocationSysctl,
         SymbolLocationNull, SymbolLocation, Report, Opened
    <3>3. text' = text \/ throws
      BY <2>2 DEF Step, Quietly, LoadEmpty, LoadUnload, OpenDecorated,
         CheckDecorated, OpenExact, NotSelf, OpenSelf, AssignTrivial,
         AssignNoLocation, AssignCopy, SymbolUnloaded, SymbolFound, SymbolMissing,
         LocationUnloaded, LocationLinkMap, LocationNoLinkMap, LocationImages,
         LocationAddress, LocationOtherAddress, ProgramLocationLink,
         ProgramLocationBuffer, ProgramLocationFile, ProgramLocationSysctl,
         SymbolLocationNull, SymbolLocation, Report, Opened, Throw
    <3> QED BY <3>2, <3>3
  <2>3. ASSUME NEW o \in Ops, NEW throwing \in BOOLEAN, Call(o, throwing)
        PROVE  Silent'
    BY <2>3 DEF Call
  <2>4. CASE ExistsThrows
    BY <2>4 DEF ExistsThrows
  <2>5. CASE Return
    BY <2>5 DEF Return
  <2> QED BY <2>1, <2>2, <2>3, <2>4, <2>5 DEF Next
<1>3. EIInv /\ Silent => TextIsOwn
  <2> SUFFICES ASSUME EIInv, Silent, pc = "done" PROVE text # "old"
    BY DEF TextIsOwn
  <2>1. LoaderTextIsOwn
    BY DEF EIInv
  <2> QED BY <2>1 DEF TextOps, LoaderTextIsOwn
<1> QED BY <1>1, <1>2, <1>3, ErrorInvariant, PTL DEF Spec
===============================================================================
