-------------------------------- MODULE Plugins --------------------------------
(***************************************************************************)
(* Plugins that keep their own library loaded (example/tutorial8), on top  *)
(* of imported values: get_plugin() imports a factory, calls it and binds  *)
(* the plain pointer it returns to a shared_ptr whose deleter owns one     *)
(* more shared_library, opened by the location the plugin tells.  Then the *)
(* factory goes out of scope.  (The example includes boost::dll, of which  *)
(* midll is the port; here it runs on midll.)                              *)
(*                                                                         *)
(* A plugin the user holds is a value like the imported ones: it shares    *)
(* the control block with the deleter in it, and a call of one of its      *)
(* methods is a call of the value.                                         *)
(***************************************************************************)
EXTENDS Import

VARIABLES
    made,       \* the plugin a thread has a plain pointer to: its library
    told,       \* the library whose path location() gave the thread
    object      \* the plugin the deleter in a control block deletes

pluginVars == <<made, told, object>>
allVars == <<vars, pluginVars>>

PluginTypeOK ==
    /\ made \in [Threads -> Libs \cup {NULL}]
    /\ told \in [Threads -> Libs \cup {NULL}]
    /\ object \in [Blocks -> Libs \cup {NULL}]

PluginInit ==
    /\ Init
    /\ made = [t \in Threads |-> NULL]
    /\ told = [t \in Threads |-> NULL]
    /\ object = [b \in Blocks |-> NULL]

-----------------------------------------------------------------------------
\* creator(): the factory is the value being called, and no plugin itself.
Create(t) ==
    /\ pc[t] = "calling" /\ made[t] = NULL
    /\ object[ptr[var[t]]] = NULL
    /\ made' = [made EXCEPT ![t] = sym[var[t]]]
    /\ UNCHANGED <<vars, told, object>>

\* bind(): plugin->location(), which is code of the plugin.
Locate(t) ==
    /\ made[t] # NULL /\ told[t] = NULL
    /\ told' = [told EXCEPT ![t] = made[t]]
    /\ UNCHANGED <<vars, made, object>>

\* The constructor of shared_library with that path: the loader gives out one
\* more reference to a library mapped under the path, and maps whatever is in
\* the file by now if there is none.
Opened(l) == IF count[l] > 0 THEN {l} ELSE Libs

\* The library goes into the deleter, and the plugin becomes the value w; until
\* then the new reference is the thread's own, so no step is needed in between.
\* Mutant: the deleter gets no library of its own.
BindUnowned(t, w, b, h) ==
    /\ told[t] # NULL /\ h = told[t]
    /\ ptr[w] = NULL /\ Unused(w) /\ Free(b)
    /\ uses' = [uses EXCEPT ![b] = 1]
    /\ ptr' = [ptr EXCEPT ![w] = b]
    /\ sym' = [sym EXCEPT ![w] = made[t]]
    /\ object' = [object EXCEPT ![b] = made[t]]
    /\ made' = [made EXCEPT ![t] = NULL]
    /\ told' = [told EXCEPT ![t] = NULL]
    /\ UNCHANGED <<count, held, pc, var, dying>>
Bind(t, w, b, h) ==
    /\ told[t] # NULL /\ h \in Opened(told[t])
    /\ ptr[w] = NULL /\ Unused(w) /\ Free(b)
    /\ held' = [held EXCEPT ![b] = h]
    /\ count' = [count EXCEPT ![h] = @ + 1]
    /\ uses' = [uses EXCEPT ![b] = 1]
    /\ ptr' = [ptr EXCEPT ![w] = b]
    /\ sym' = [sym EXCEPT ![w] = made[t]]
    /\ object' = [object EXCEPT ![b] = made[t]]
    /\ made' = [made EXCEPT ![t] = NULL]
    /\ told' = [told EXCEPT ![t] = NULL]
    /\ UNCHANGED <<pc, var, dying>>

\* location() or the constructor of shared_library throws: nobody deletes the
\* plugin any more.
BindThrows(t) ==
    /\ made[t] # NULL
    /\ made' = [made EXCEPT ![t] = NULL]
    /\ told' = [told EXCEPT ![t] = NULL]
    /\ UNCHANGED <<vars, object>>

\* library_holding_deleter::operator() of the last owner: the destructor is
\* code of the plugin.
Delete(t) ==
    /\ pc[t] = "destroy" /\ object[dying[t]] # NULL
    /\ object' = [object EXCEPT ![dying[t]] = NULL]
    /\ UNCHANGED <<vars, made, told>>

\* The deleter, and with it the library, goes after the plugin; mutant: before.
DestroyAnyTime(t) == Destroy(t)
DestroyDeleter(t) == Destroy(t) /\ object[dying[t]] = NULL

\* The factory goes out of scope after the plugin is bound; mutant: before.
EndGetPluginEarly(t) == EndCall(t)
EndGetPlugin(t) == EndCall(t) /\ made[t] = NULL

PluginStep(t) ==
    \/ /\ GetThrows(t) \/ Get(t) \/ Share(t) \/ ReleaseLocal(t)
          \/ DestroyDeleter(t) \/ EndGetPlugin(t)
       /\ UNCHANGED pluginVars
    \/ Locate(t)
    \/ \E w \in Vals, b \in Blocks, h \in Libs : Bind(t, w, b, h)
    \/ BindThrows(t) \/ Delete(t)

PluginNext ==
    \E t \in Threads :
        \/ User(t) /\ UNCHANGED pluginVars
        \/ Create(t)
        \/ PluginStep(t)

PluginSpec == PluginInit /\ [][PluginNext]_allVars

\* A thread that has a plain pointer binds it or is left by an exception; for
\* the rest see Import.
FairPluginSpec == PluginSpec /\ \A t \in Threads : WF_allVars(PluginStep(t))

-----------------------------------------------------------------------------
(***************************************************************************)
(* The code of a plugin is mapped as long as the plugin exists: while only *)
(* the factory keeps it, after the factory has gone, and while the last    *)
(* owner deletes it ("Returned variable holds a reference to               *)
(* shared_library and it is safe to use it.", refcounting_api.hpp).  For   *)
(* that the path must lead back to the library the plugin is from.         *)
(***************************************************************************)
PluginCodeMapped ==
    /\ \A t \in Threads : made[t] # NULL => count[made[t]] > 0
    /\ \A b \in Blocks : object[b] # NULL => count[object[b]] > 0

(***************************************************************************)
(* A plugin nobody holds any more is deleted, before its library goes.     *)
(***************************************************************************)
Forgotten(b) == object[b] # NULL /\ \A x \in Owners : ptr[x] # b
PluginsDeleted == \A b \in Blocks : Forgotten(b) ~> object[b] = NULL

\* The deleter owns the library of its plugin, and the plain pointer is that of
\* the value the thread calls.
PluginInv ==
    /\ \A t \in Threads : made[t] # NULL =>
          pc[t] = "calling" /\ made[t] = sym[var[t]]
    /\ \A t \in Threads : told[t] # NULL => told[t] = made[t]
    /\ \A b \in Blocks : object[b] # NULL =>
          held[b] = object[b] /\ ~Free(b)

PluginIInv == PluginTypeOK /\ IInv /\ PluginInv
===============================================================================
