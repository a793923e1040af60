------------------------------- MODULE MCImport -------------------------------
(***************************************************************************)
(* Imported values and the plugins made from them, for TLC.                *)
(***************************************************************************)
EXTENDS Plugins, TLC

===============================================================================
