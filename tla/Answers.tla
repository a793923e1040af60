-------------------------------- MODULE Answers --------------------------------
(***************************************************************************)
(* How a question to library_info may end: with a list of names, with an   *)
(* exception of the stream, or with the program, where an assert fails.    *)
(* A list is the set of its names: their order is left out.                *)
(***************************************************************************)
Listing(names) == [outcome |-> "list", names |-> names]
Failing(outcome) == [outcome |-> outcome, names |-> {}]
Throws == Failing("throw")
===============================================================================
