--------------------------- MODULE MCReflexState ---------------------------
(* Small instances of ReflexState. *)
EXTENDS ReflexState, FiniteSets, TLC

CONSTANTS t1, t2, h1, ah, p1, id1, sel

Route(numbers, zero, user) ==
  [leaf : {"route_syscall"}, arg : numbers, r10_zero : zero, rcx_user : user]
SampleRoutes ==
  Route({id1, sel, NoId, Bypass}, {TRUE}, {TRUE})
    \cup Route({id1}, {FALSE}, {TRUE}) \cup Route({id1, sel}, {TRUE}, {FALSE})

(* Any thread may make any call. *)
AnyCall == [t \in Threads |-> ControlCalls \cup QueryCalls \cup SampleRoutes]
=============================================================================
