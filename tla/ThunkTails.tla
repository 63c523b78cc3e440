----------------------------- MODULE ThunkTails -----------------------------
(***************************************************************************)
(* syscall/pe_stub_layout.rs, the part on file contents: a read from the      *)
(* start of a PE file, and a data view of one, show Windows' syscall tails.   *)
(* Bytes are tokens: a thunk is its head, its branch and its tail; "W" is     *)
(* Windows' tail, "X" any other bytes.                                         *)
(***************************************************************************)
EXTENDS Integers, Sequences, FiniteSets

CONSTANTS
  Contents,         \* token sequences that a file may hold
  Signatures,       \* how many tokens show the PE signature of the file
  MinRead           \* MIN_FILE_READ and MIN_FILE_VIEW, in tokens

VARIABLES
  content, signature, regular, game_process, \* external: the file and the process
  shown,            \* what the last read or view showed
  whole             \* whether the runtime meant to rewrite it

tailVars == <<content, signature, regular, game_process, shown, whole>>

ThunkLength == 3
TailOffset == 2

TailInit ==
  /\ content \in Contents /\ signature \in Signatures
  /\ regular \in BOOLEAN /\ game_process \in BOOLEAN
  /\ shown = <<>> /\ whole = FALSE

is_syscall_thunk_head(b, i) ==
  i + ThunkLength - 1 <= Len(b) /\ b[i] = "head" /\ b[i + 1] = "branch"

(* The thunks that the scan finds: from the left, none inside another. *)
RECURSIVE ThunksFrom(_, _)
ThunksFrom(b, i) ==
  IF i + ThunkLength - 1 > Len(b) THEN {}
  ELSE IF is_syscall_thunk_head(b, i) THEN {i} \cup ThunksFrom(b, i + ThunkLength)
  ELSE ThunksFrom(b, i + 1)

rewrite_syscall_thunk_tails(b) ==
  LET found == ThunksFrom(b, 1) IN
  [i \in 1..Len(b) |-> IF i - TailOffset \in found THEN "W" ELSE b[i]]

count_pending_thunk_tails(b) ==
  Cardinality({i \in ThunksFrom(b, 1) : b[i + TailOffset] # "W"})

looks_like_pe_file(n) == signature <= n

(* Bound: a behaviour is one look at the file. *)
FirstLook ==
  /\ shown = <<>> /\ ~whole
  /\ UNCHANGED <<content, signature, regular, game_process>>

(* read and pread, which go on to after_file_read from the file's start.  Only   *)
(* there do the bytes open like a PE file.                                        *)
Read(from, n) ==
  LET b == SubSeq(content, from + 1, from + n) IN
  /\ FirstLook /\ from + n <= Len(content)
  /\ whole' = (from = 0 /\ n >= MinRead /\ game_process /\ regular /\ looks_like_pe_file(n))
  /\ shown' = IF whole' THEN rewrite_syscall_thunk_tails(b) ELSE b

(* mmap of n tokens, with after_file_map: rewrite_pe_view replaces the view by a  *)
(* private copy of the file, which may fail.                                      *)
MapView(n) ==
  LET b == SubSeq(content, 1, n)
      due == n >= MinRead /\ game_process /\ regular /\ looks_like_pe_file(n) /\ count_pending_thunk_tails(b) > 0
  IN /\ FirstLook /\ n <= Len(content)
     /\ \/ due /\ shown' = rewrite_syscall_thunk_tails(b) /\ whole' = TRUE
        \/ shown' = b /\ whole' = FALSE

TailNext ==
  \/ \E from, n \in 0..Len(content) : Read(from, n)
  \/ \E n \in 0..Len(content) : MapView(n)

TailSpec == TailInit /\ [][TailNext]_tailVars

-----------------------------------------------------------------------------
(* Every complete thunk of a rewritten buffer has Windows' tail, also when       *)
(* thunks overlap or follow each other; a token that differs from the file is    *)
(* the tail of a thunk of the file; and rewriting again changes nothing.          *)
TailsAreExact ==
  whole =>
    /\ \A i \in DOMAIN shown : is_syscall_thunk_head(shown, i) => shown[i + TailOffset] = "W"
    /\ \A i \in DOMAIN shown :
         shown[i] # content[i] => i > TailOffset /\ is_syscall_thunk_head(content, i - TailOffset)
    /\ rewrite_syscall_thunk_tails(shown) = shown /\ count_pending_thunk_tails(shown) = 0
=============================================================================
