-------------------------- MODULE MCSyscallRouter ---------------------------
(* Small instances of SyscallRouter. *)
EXTENDS SyscallRouter

CONSTANTS t1, t2
=============================================================================
