----------------------------- MODULE Bootstrap ------------------------------
(***************************************************************************)
(* The interposed malloc and free of hooks.rs up to the pending-free ring     *)
(* (PendingFrees): resolve_real_malloc and resolve_real_free with their        *)
(* thread-local "resolving" marks, the bootstrap pool that serves allocations  *)
(* made by dlsym itself, and the range of win32u that decides which calls the  *)
(* ring sees.                                                                  *)
(***************************************************************************)
EXTENDS Integers, Sequences, FiniteSets

CONSTANTS
  Allocators,     \* threads
  PoolSize,       \* BOOTSTRAP_POOL_SIZE, in units of its alignment
  Sizes,          \* sizes asked for, in those units
  Keys,           \* what pthread_key_create can return
  NoKey,          \* u32::MAX
  MaxAllocCalls, MaxNesting   \* bounds: calls, and calls inside calls

ASSUME BootstrapAssumption ==
  /\ PoolSize \in Nat /\ Sizes \subseteq Nat \ {0}
  /\ NoKey \notin Keys /\ MaxNesting \in Nat \ {0}

Interposed == {"malloc", "free"}

VARIABLES
  real,           \* REAL_MALLOC and REAL_FREE are known
  key, live_keys, \* RESOLVING_*_KEY; external: the keys of the process
  marks,          \* external: <<key, thread>> whose thread-local value is set
  pool_offset,    \* BOOTSTRAP_OFFSET
  blocks,         \* bootstrap blocks handed out: <<start, length>>
  heap_frees,     \* starts of bootstrap blocks given to the real free
  keys_fail,      \* pthread_key_create fails in this behaviour
  loaded,         \* external: win32u is loaded
  range, scanned, \* WIN32U_START # 0 and WIN32U_END > start; WIN32U_SCANNED
  frames,         \* every thread's calls, the innermost last
  alloc_calls, alloc_forked

keyVars == <<key, live_keys, marks, keys_fail>>
poolVars == <<pool_offset, blocks, heap_frees>>
rangeVars == <<loaded, range, scanned>>
bootstrapVars == <<real, keyVars, poolVars, rangeVars, frames, alloc_calls, alloc_forked>>

BootstrapInit ==
  /\ real = [f \in Interposed |-> FALSE]
  /\ key = [f \in Interposed |-> NoKey] /\ live_keys = {} /\ marks = {} /\ keys_fail \in BOOLEAN
  /\ pool_offset = 0 /\ blocks = {} /\ heap_frees = {}
  /\ loaded = FALSE /\ range = FALSE /\ scanned = FALSE
  /\ frames = [t \in Allocators |-> <<>>]
  /\ alloc_calls = 0 /\ alloc_forked = FALSE

Frame(f, arg, win32u) == [fn |-> f, arg |-> arg, win32u |-> win32u, pc |-> "real", key |-> NoKey]

(* The innermost call of a thread's calls, and those that it is inside of. *)
Innermost(calls) == calls[Len(calls)]
Outer(calls) == SubSeq(calls, 1, Len(calls) - 1)

InFrame(t, label) == frames[t] # <<>> /\ Innermost(frames[t]).pc = label
Top(t) == Innermost(frames[t])
FSet(t, frame) == frames' = [frames EXCEPT ![t] = Append(Outer(@), frame)]
FGo(t, label) == FSet(t, [Top(t) EXCEPT !.pc = label])
FReturn(t) == frames' = [frames EXCEPT ![t] = Outer(@)]

(* A program calls malloc or free, from win32u or not; dlsym may call them too. *)
CallAllocator(t) ==
  /\ alloc_calls < MaxAllocCalls /\ alloc_calls' = alloc_calls + 1
  /\ Len(frames[t]) < MaxNesting /\ (frames[t] = <<>> \/ InFrame(t, "dlsym"))
  /\ \/ \E size \in Sizes, win32u \in {FALSE, loaded} :
          frames' = [frames EXCEPT ![t] = Append(@, Frame("malloc", size, win32u))]
     \/ \E block \in blocks : frames' = [frames EXCEPT ![t] = Append(@, Frame("free", block[1], FALSE))]
     \/ \E win32u \in {FALSE, loaded} :   \* a heap block
          frames' = [frames EXCEPT ![t] = Append(@, Frame("free", PoolSize, win32u))]
  /\ UNCHANGED <<real, keyVars, poolVars, rangeVars, alloc_forked>>

(* is_bootstrap_ptr; then resolve_real_*: is the function known? *)
LoadReal(t) ==
  /\ InFrame(t, "real")
  /\ IF Top(t).fn = "free" /\ Top(t).arg < PoolSize
     THEN FReturn(t)
     ELSE FGo(t, IF real[Top(t).fn] THEN "caller" ELSE "key")
  /\ UNCHANGED <<real, keyVars, poolVars, rangeVars, alloc_calls, alloc_forked>>

(* pthread_key: load, create, compare_exchange; the loser deletes its key. *)
LoadKey(t) ==
  /\ InFrame(t, "key")
  /\ \/ key[Top(t).fn] # NoKey /\ FGo(t, "mark") /\ UNCHANGED live_keys
     \/ /\ key[Top(t).fn] = NoKey /\ ~keys_fail
        /\ \E k \in Keys \ live_keys :
             /\ \A other \in Keys \ live_keys : k <= other   \* the C library's first free key
             /\ live_keys' = live_keys \cup {k} /\ FSet(t, [Top(t) EXCEPT !.pc = "publish", !.key = k])
     \/ key[Top(t).fn] = NoKey /\ keys_fail /\ FGo(t, "mark") /\ UNCHANGED live_keys
  /\ UNCHANGED <<real, key, marks, keys_fail, poolVars, rangeVars, alloc_calls, alloc_forked>>

(* Mutant: the created key is stored over another thread's. *)
PublishKeyBlindly(t) ==
  /\ InFrame(t, "publish")
  /\ key' = [key EXCEPT ![Top(t).fn] = Top(t).key]
  /\ FSet(t, [Top(t) EXCEPT !.pc = "mark", !.key = NoKey])
  /\ UNCHANGED <<real, live_keys, marks, keys_fail, poolVars, rangeVars, alloc_calls, alloc_forked>>

PublishKey(t) ==
  /\ InFrame(t, "publish")
  /\ IF key[Top(t).fn] = NoKey
     THEN key' = [key EXCEPT ![Top(t).fn] = Top(t).key] /\ UNCHANGED live_keys
     ELSE live_keys' = live_keys \ {Top(t).key} /\ UNCHANGED key
  /\ FSet(t, [Top(t) EXCEPT !.pc = "mark", !.key = NoKey])
  /\ UNCHANGED <<real, marks, keys_fail, poolVars, rangeVars, alloc_calls, alloc_forked>>

(* A marked thread is inside dlsym already: free does nothing, malloc uses the *)
(* pool.  Otherwise the mark is set, unless there is no key.                    *)
CheckMark(t) ==
  LET mark == <<key[Top(t).fn], t>> IN
  /\ InFrame(t, "mark")
  /\ IF mark \in marks
     THEN /\ IF Top(t).fn = "malloc" THEN FGo(t, "pool") ELSE FReturn(t)
          /\ UNCHANGED marks
     ELSE /\ marks' = IF mark[1] = NoKey THEN marks ELSE marks \cup {mark}
          /\ FGo(t, "dlsym")
  /\ UNCHANGED <<real, key, live_keys, keys_fail, poolVars, rangeVars, alloc_calls, alloc_forked>>

(* dlsym answers, or finds nothing. *)
DlsymReturns(t) ==
  /\ InFrame(t, "dlsym")
  /\ marks' = marks \ {<<key[Top(t).fn], t>>}
  /\ \/ real' = [real EXCEPT ![Top(t).fn] = TRUE] /\ FGo(t, "caller")
     \/ /\ IF Top(t).fn = "malloc" THEN FGo(t, "pool") ELSE FReturn(t)
        /\ UNCHANGED real
  /\ UNCHANGED <<key, live_keys, keys_fail, poolVars, rangeVars, alloc_calls, alloc_forked>>

BootstrapAlloc(t) ==   \* fetch_add, then the bound
  /\ InFrame(t, "pool")
  /\ pool_offset' = pool_offset + Top(t).arg
  /\ blocks' = IF pool_offset + Top(t).arg > PoolSize THEN blocks ELSE blocks \cup {<<pool_offset, Top(t).arg>>}
  /\ FReturn(t)
  /\ UNCHANGED <<real, keyVars, heap_frees, rangeVars, alloc_calls, alloc_forked>>

-----------------------------------------------------------------------------
(* caller_from_win32u *)

(* The guard is enabled and this is the game process.  The swap of              *)
(* WIN32U_SCANNED: the first call scans whoever makes it, later ones only if    *)
(* their own image is win32u.                                                   *)
ClassifyCaller(t) ==
  /\ InFrame(t, "caller")
  /\ \/ range /\ FGo(t, IF Top(t).win32u THEN "ring" ELSE "call") /\ UNCHANGED scanned
     \/ ~range /\ scanned' = TRUE /\ FGo(t, IF scanned /\ ~Top(t).win32u THEN "call" ELSE "scan")
  /\ UNCHANGED <<real, keyVars, poolVars, loaded, range, alloc_calls, alloc_forked>>

ScanImages(t) ==   \* dl_iterate_phdr with record_win32u
  /\ InFrame(t, "scan")
  /\ range' = (range \/ loaded)
  /\ FGo(t, IF Top(t).win32u /\ loaded THEN "ring" ELSE "call")
  /\ UNCHANGED <<real, keyVars, poolVars, loaded, scanned, alloc_calls, alloc_forked>>

(* The pending-free ring (PendingFrees) and the real function.  malloc calls the *)
(* real one before it looks at its caller; that touches nothing modelled here.   *)
CallReal(t) ==
  /\ InFrame(t, "call") \/ InFrame(t, "ring")
  /\ heap_frees' = IF Top(t).fn = "free" /\ Top(t).arg < PoolSize THEN heap_frees \cup {Top(t).arg} ELSE heap_frees
  /\ FReturn(t)
  /\ UNCHANGED <<real, keyVars, pool_offset, blocks, rangeVars, alloc_calls, alloc_forked>>

LoadWin32uSo ==
  /\ ~loaded /\ loaded' = TRUE
  /\ UNCHANGED <<real, keyVars, poolVars, range, scanned, frames, alloc_calls, alloc_forked>>

(* after_fork: the child's thread clears its marks and forgets the scan. *)
BootstrapFork(t) ==
  /\ frames[t] = <<>> /\ ~alloc_forked /\ alloc_forked' = TRUE
  /\ frames' = [u \in Allocators |-> <<>>]
  /\ marks' = {} /\ scanned' = FALSE
  /\ UNCHANGED <<real, key, live_keys, keys_fail, poolVars, loaded, range, alloc_calls>>

AllocatorStep(t) ==
  \/ LoadReal(t) \/ LoadKey(t) \/ PublishKey(t) \/ CheckMark(t) \/ DlsymReturns(t)
  \/ BootstrapAlloc(t) \/ ClassifyCaller(t) \/ ScanImages(t) \/ CallReal(t)

BootstrapNext ==
  \/ \E t \in Allocators : CallAllocator(t) \/ AllocatorStep(t) \/ BootstrapFork(t)
  \/ LoadWin32uSo

BootstrapSpec == BootstrapInit /\ [][BootstrapNext]_bootstrapVars

-----------------------------------------------------------------------------
(* Properties *)

(* Bootstrap blocks lie in the pool, overlap no other, and never reach the     *)
(* real free, with threads bumping the offset at once and past the end.        *)
PoolBlocksAreDisjoint ==
  /\ \A b \in blocks : b[1] + b[2] <= PoolSize
  /\ \A b, c \in blocks : b # c => b[1] + b[2] <= c[1] \/ c[1] + c[2] <= b[1]
  /\ heap_frees = {}

(* While a key can be had, a thread is inside dlsym once per function, so that *)
(* an allocation made by dlsym never calls dlsym again; and the key in use was *)
(* never deleted.                                                              *)
DlsymIsNotReentered ==
  /\ ~keys_fail => \A t \in Allocators : \A i, j \in 1..Len(frames[t]) :
       frames[t][i].pc = "dlsym" /\ frames[t][j].pc = "dlsym" /\ frames[t][i].fn = frames[t][j].fn => i = j
  /\ \A f \in Interposed : key[f] # NoKey => key[f] \in live_keys
  /\ \A k \in live_keys : (\E f \in Interposed : key[f] = k) \/ alloc_forked
       \/ \E t \in Allocators : \E i \in 1..Len(frames[t]) : frames[t][i].key = k

(* Every call that win32u makes once the real function is known goes through   *)
(* the pending-free ring, and no other call does.                              *)
RingSeesWin32u ==
  \A t \in Allocators :
    /\ InFrame(t, "ring") => Top(t).win32u
    /\ InFrame(t, "call") => ~Top(t).win32u

(* malloc and free from the first call of the process on: blocks of the pool   *)
(* are apart, dlsym is not entered again, and the ring sees win32u's calls.    *)
AllocationsAreSafe == PoolBlocksAreDisjoint /\ DlsymIsNotReentered /\ RingSeesWin32u
=============================================================================
