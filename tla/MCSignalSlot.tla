---------------------------- MODULE MCSignalSlot ----------------------------
(* Small instances of SignalSlot. *)
EXTENDS SignalSlot

CONSTANTS t1, t2, b1, b2, none

Wine == [handler |-> "function", from_ntdll |-> TRUE, reset |-> FALSE]
OneShot == [handler |-> "function", from_ntdll |-> TRUE, reset |-> TRUE]
Ignore == [handler |-> "SIG_IGN", from_ntdll |-> FALSE, reset |-> TRUE]
Default == [handler |-> "SIG_DFL", from_ntdll |-> FALSE, reset |-> FALSE]
AnyAction == {Wine, OneShot, Ignore, Default}
=============================================================================
