---------------------------- MODULE MCSocketPair ----------------------------
(* Small instances of SocketPair: what the launcher leaves open. *)
EXTENDS SocketPair

AnyDescriptor == {Closed, File, Socket}
=============================================================================
