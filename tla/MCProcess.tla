----------------------------- MODULE MCProcess ------------------------------
(***************************************************************************)
(* Small instances of the parts that share no state with each other.  A      *)
(* behaviour is one of one part; the others stay in one of their initial      *)
(* states.                                                                    *)
(***************************************************************************)
EXTENDS Faketime, SocketPair, ThunkTails, ImageCopies, PeExport, Int2e, TraceRing, Bootstrap, Startup, TLC

CONSTANTS p1, p2, t1, t2, m1, m2, f1, f2, e1, e2, e3, s1, s2, s3, g1, g2, g3, q1, q2, q3, none

ThreadSymmetry == Permutations(Threads)

AnyDescriptor == {Closed, File, Socket}

(* Files of five tokens with a thunk's head, complete or not, and two thunks in  *)
(* a row.                                                                        *)
Tokens == {"head", "branch", "W", "X"}
SmallFiles ==
  {c \in [1..5 -> Tokens] : \E i \in 1..4 : c[i] = "head" /\ c[i + 1] = "branch"}
  \cup {<<"head", "branch", x, "head", "branch", y>> : x, y \in Tokens}

TwoDevices == (f1 :> 1) @@ (f2 :> 2)
OneInode == (f1 :> 7) @@ (f2 :> 7)

Homes == (s1 :> 0) @@ (s2 :> 2) @@ (s3 :> 1)

(* A game, a helper of Wine's, and a program given by a Unix path. *)
Arguments ==
  {(q1 :> <<{"loader"}, {"exe", "drive"}>>) @@
   (q2 :> <<{"exe", "drive", "helper"}, {"exe", "unix"}>>) @@
   (q3 :> <<{}, {"exe", "unix"}>>)}

TwoOverrides == <<"dxgi", "hid">>
PlayersHid == <<[dll |-> "hid", order |-> "b"]>>
Preloads == {<<>>, <<"x", "self">>}
NoRegistry == [kind : {"missing"}, sections : {<<>>}]

(* The registry, the gamescope session, memory running out, each with the      *)
(* rest at rest.                                                               *)
SmallSessions ==
  [argv : Arguments, overrides : {<<>>}, desktop : {FALSE}, above : {9}, scarce : BOOLEAN, setenvs : {0},
   registry : [kind : {"wine"}, sections : {<<>>, <<"profile">>, <<"value">>}]]
  \cup
  [argv : Arguments, overrides : {<<>>, PlayersHid}, desktop : {FALSE}, above : {0, 1, 2}, scarce : {FALSE},
   setenvs : {2}, registry : NoRegistry]
  \cup
  [argv : Arguments, overrides : {PlayersHid}, desktop : {TRUE}, above : {9}, scarce : {TRUE}, setenvs : {1},
   registry : NoRegistry]
  \cup
  [argv : Arguments, overrides : {<<>>}, desktop : {FALSE}, above : {9}, scarce : {FALSE}, setenvs : {0},
   registry : [kind : {"wine"}, sections : {<<"guid">>, <<"profile", "value">>}] \cup [kind : {"foreign"}, sections : {<<>>}]]

VARIABLE part

Parts == {"faketime", "pair", "tails", "images", "export", "int2e", "trace", "bootstrap", "startup"}

(* The part runs, or is in the given initial state. *)
Active(name, idle) == part = name \/ (part # name /\ idle)

ProcessInit ==
  /\ part \in Parts
  /\ Init /\ ImageInit /\ TraceInit
  /\ Active("pair", limit = 6 /\ fds = [fd \in Fds |-> Closed]) /\ PairInit
  /\ Active("tails", content = <<"head", "branch", "X", "X", "X">> /\ signature = 1 /\ regular = FALSE /\ game_process = FALSE) /\ TailInit
  /\ Active("export", position = 0 /\ name_count = 0 /\ wanted = 1) /\ ExportInit
  /\ Active("int2e", capacity = 1 /\ may_fail = FALSE) /\ Int2eInit
  /\ Active("bootstrap", keys_fail = FALSE) /\ BootstrapInit
  /\ Active("startup", registry = [kind |-> "foreign", sections |-> <<>>]) /\ StartupInit

ProcessNext ==
  /\ UNCHANGED part
  /\ \/ part = "faketime" /\ Next
        /\ UNCHANGED <<pairVars, tailVars, imageVars, exportVars, int2eVars, traceVars, bootstrapVars, startupVars>>
     \/ part = "pair" /\ PairNext
        /\ UNCHANGED <<vars, tailVars, imageVars, exportVars, int2eVars, traceVars, bootstrapVars, startupVars>>
     \/ part = "tails" /\ TailNext
        /\ UNCHANGED <<vars, pairVars, imageVars, exportVars, int2eVars, traceVars, bootstrapVars, startupVars>>
     \/ part = "images" /\ ImageNext
        /\ UNCHANGED <<vars, pairVars, tailVars, exportVars, int2eVars, traceVars, bootstrapVars, startupVars>>
     \/ part = "export" /\ ExportNext
        /\ UNCHANGED <<vars, pairVars, tailVars, imageVars, int2eVars, traceVars, bootstrapVars, startupVars>>
     \/ part = "int2e" /\ Int2eNext
        /\ UNCHANGED <<vars, pairVars, tailVars, imageVars, exportVars, traceVars, bootstrapVars, startupVars>>
     \/ part = "trace" /\ TraceNext
        /\ UNCHANGED <<vars, pairVars, tailVars, imageVars, exportVars, int2eVars, bootstrapVars, startupVars>>
     \/ part = "bootstrap" /\ BootstrapNext
        /\ UNCHANGED <<vars, pairVars, tailVars, imageVars, exportVars, int2eVars, traceVars, startupVars>>
     \/ part = "startup" /\ StartupNext
        /\ UNCHANGED <<vars, pairVars, tailVars, imageVars, exportVars, int2eVars, traceVars, bootstrapVars>>

processVars ==
  <<part, vars, pairVars, tailVars, imageVars, exportVars,
    int2eVars, traceVars, bootstrapVars, startupVars>>

ProcessSpec == ProcessInit /\ [][ProcessNext]_processVars

(* However code obtains a PE file (a read, a data view, a second image), it    *)
(* sees Windows' syscall tails and no other change, and the process's own      *)
(* image keeps Wine's.                                                         *)
CopiesShowWindowsTails == TailsAreExact /\ ImagesAreToldApart
=============================================================================
