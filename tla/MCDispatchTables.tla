-------------------------- MODULE MCDispatchTables --------------------------
(* A small instance of DispatchTables. *)
EXTENDS DispatchTables, TLC

CONSTANTS c1, c2

(* Two callers on one bridge stack, or on two. *)
Stacks == {(c1 :> 1) @@ (c2 :> s) : s \in {1, 2}}
TwoHooks == <<3, 6>>   \* both hash to the first slot
OneScene == {{"imports"}, {"exports"}, {"win32u"}}
=============================================================================
