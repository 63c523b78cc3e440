---------------------------- MODULE PendingFrees ----------------------------
(***************************************************************************)
(* The win32u double-free guard: the malloc and free of runtime/src/hooks.rs  *)
(* with LINUWUX_WIN32U_FREE_GUARD=1 in the game process, over the hashed      *)
(* history of runtime/src/hooks/pending_frees.rs, for several threads and a   *)
(* fork.                                                                      *)
(*                                                                         *)
(* The allocator behind them hands out and takes back addresses atomically.   *)
(* Callers are in win32u or elsewhere; win32u may free a pointer once more    *)
(* that it freed and that was not allocated since.                            *)
(***************************************************************************)
EXTENDS Naturals, FiniteSets

CONSTANTS
  Threads, Addresses, NoAddress,
  Capacity,        \* CAPACITY
  Buckets,         \* 0..BUCKET_COUNT-1
  BucketOf,        \* History::bucket, a function of the address
  MaxCalls,        \* bound: calls to malloc and free
  Transfers,       \* whether win32u may free what code elsewhere allocated
  MayFork          \* whether the process may fork

ASSUME PendingFreesAssumption ==
  /\ Capacity \in Nat \ {0}
  /\ BucketOf \in [Addresses -> Buckets]
  /\ NoAddress \notin Addresses
  /\ MaxCalls \in Nat /\ Transfers \in BOOLEAN /\ MayFork \in BOOLEAN

Indices == 0..(Capacity - 1)
NO_ENTRY == Capacity
Empty == [address |-> NoAddress, next |-> NO_ENTRY, prev |-> NO_ENTRY]

VARIABLES
  entries, buckets, next_index,   \* History
  torn,       \* whether a thread is in the middle of changing it
  lock,       \* LOCK
  answer,     \* what the last operation on the history answered
  heap,       \* who holds each address: "free", "win32u", "elsewhere", or a
              \* call of malloc ("new") or free ("old") working on it
  stale,      \* history: freed by win32u and not allocated since
  age,        \* history: marks made since an address was marked, up to Capacity
  pc, address, again,   \* per thread: where, on what, whether it is the bug's free
  skipped,    \* history: frees of allocated blocks that were not carried out
  doubled,    \* history: whether a second free reached the allocator
  calls

historyVars == <<entries, buckets, next_index, torn, answer>>
vars == <<historyVars, lock, heap, stale, age, pc, address, again, skipped, doubled, calls>>

NewEntries == [i \in Indices |-> Empty]
NewBuckets == [b \in Buckets |-> NO_ENTRY]

Init ==
  /\ entries = NewEntries /\ buckets = NewBuckets /\ next_index = 0
  /\ torn = FALSE /\ lock = FALSE /\ answer = FALSE
  /\ heap = [a \in Addresses |-> "free"]
  /\ stale = {}
  /\ age = [a \in Addresses |-> Capacity]
  /\ pc = [t \in Threads |-> "idle"]
  /\ address = [t \in Threads |-> NoAddress]
  /\ again = [t \in Threads |-> FALSE]
  /\ skipped = FALSE /\ doubled = FALSE
  /\ calls = 0

Goto(t, label) == pc' = [pc EXCEPT ![t] = label]
Return(t) ==
  /\ Goto(t, "idle")
  /\ address' = [address EXCEPT ![t] = NoAddress]
  /\ again' = [again EXCEPT ![t] = FALSE]

-----------------------------------------------------------------------------
(* History *)

History == [entries |-> entries, buckets |-> buckets]

(* The indices that find visits from bucket b on: its head, and the next of   *)
(* each of them.                                                             *)
Chain(h, b) ==
  {i \in Indices : \A S \in SUBSET Indices :
     /\ h.buckets[b] \in S \cup {NO_ENTRY}
     /\ \A j \in S : h.entries[j].next \in S \cup {NO_ENTRY}
     => i \in S}

Find(a) == {i \in Chain(History, BucketOf[a]) : entries[i].address = a}

(* The history once entry i is unlinked and cleared. *)
Unlinked(h, i) ==
  LET e == h.entries[i]
      Relinked(j) ==
        [address |-> h.entries[j].address,
         next |-> IF j = e.prev THEN e.next ELSE h.entries[j].next,
         prev |-> IF j = e.next THEN e.prev ELSE h.entries[j].prev]
  IN  [entries |-> [j \in Indices |-> IF j = i THEN Empty ELSE Relinked(j)],
       buckets |-> IF e.prev = NO_ENTRY
                   THEN [h.buckets EXCEPT ![BucketOf[e.address]] = e.next]
                   ELSE h.buckets]

(* The history once a is in the empty slot i, at the head of its chain. *)
Linked(h, i, a) ==
  LET head == h.buckets[BucketOf[a]]
      Behind(j) ==
        [address |-> h.entries[j].address,
         next |-> h.entries[j].next,
         prev |-> IF j = head THEN i ELSE h.entries[j].prev]
      new == [address |-> a, next |-> head, prev |-> NO_ENTRY]
  IN  [entries |-> [j \in Indices |-> IF j = i THEN new ELSE Behind(j)],
       buckets |-> [h.buckets EXCEPT ![BucketOf[a]] = i]]

(* The entry that the next mark replaces is evicted first. *)
Cleared ==
  IF entries[next_index].address # NoAddress THEN Unlinked(History, next_index) ELSE History

Write(h) == entries' = h.entries /\ buckets' = h.buckets

seen_or_mark(a) ==
  /\ answer' = (Find(a) # {})
  /\ \/ Find(a) # {} /\ UNCHANGED <<entries, buckets, next_index>>
     \/ /\ Find(a) = {}
        /\ Write(Linked(Cleared, next_index, a))
        /\ next_index' = (next_index + 1) % Capacity

(* Mutant: the next mark reuses the slot that became free. *)
consume_reuses_slot(a) ==
  /\ answer' = (Find(a) # {})
  /\ \/ \E i \in Find(a) : Write(Unlinked(History, i)) /\ next_index' = i
     \/ Find(a) = {} /\ UNCHANGED <<entries, buckets, next_index>>

consume(a) ==
  /\ answer' = (Find(a) # {})
  /\ \/ \E i \in Find(a) : Write(Unlinked(History, i))
     \/ Find(a) = {} /\ UNCHANGED <<entries, buckets>>
  /\ UNCHANGED next_index

-----------------------------------------------------------------------------
(* malloc_inner and free_inner *)

Call ==
  /\ calls < MaxCalls
  /\ calls' = calls + 1

(* The allocator answers first; only for win32u is the history consulted. *)
Malloc(t, a, who) ==
  /\ pc[t] = "idle"
  /\ Call
  /\ heap[a] = "free"
  /\ stale' = stale \ {a}
  /\ \/ /\ who = "elsewhere"
        /\ heap' = [heap EXCEPT ![a] = who]
        /\ UNCHANGED <<address, pc>>
     \/ /\ who = "win32u"
        /\ heap' = [heap EXCEPT ![a] = "new"]
        /\ address' = [address EXCEPT ![t] = a]
        /\ Goto(t, "lock_consume")
  /\ UNCHANGED <<historyVars, lock, age, again, skipped, doubled>>

FreeElsewhere(a) ==
  /\ Call
  /\ heap[a] = "elsewhere"
  /\ heap' = [heap EXCEPT ![a] = "free"]
  /\ UNCHANGED <<historyVars, lock, stale, age, pc, address, again, skipped, doubled>>

FreeWin32u(t, a) ==
  /\ pc[t] = "idle"
  /\ Call
  /\ heap[a] = "win32u" \/ (Transfers /\ heap[a] = "elsewhere")
  /\ heap' = [heap EXCEPT ![a] = "old"]
  /\ address' = [address EXCEPT ![t] = a]
  /\ again' = [again EXCEPT ![t] = FALSE]
  /\ Goto(t, "lock_mark")
  /\ UNCHANGED <<historyVars, lock, stale, age, skipped, doubled>>

(* The bug of win32u that the guard is there for. *)
FreeAgain(t, a) ==
  /\ pc[t] = "idle"
  /\ Call
  /\ a \in stale
  /\ address' = [address EXCEPT ![t] = a]
  /\ again' = [again EXCEPT ![t] = TRUE]
  /\ Goto(t, "lock_mark")
  /\ UNCHANGED <<historyVars, lock, heap, stale, age, skipped, doubled>>

(* Mutant: the lock is stored without looking at it. *)
LockStores(t) ==
  /\ pc[t] \in {"lock_mark", "lock_consume"}
  /\ lock' = TRUE
  /\ Goto(t, IF pc[t] = "lock_mark" THEN "mark" ELSE "consume")
  /\ UNCHANGED <<historyVars, heap, stale, age, address, again, skipped, doubled, calls>>

Lock(t) ==
  /\ pc[t] \in {"lock_mark", "lock_consume"}
  /\ ~lock
  /\ lock' = TRUE
  /\ Goto(t, IF pc[t] = "lock_mark" THEN "mark" ELSE "consume")
  /\ UNCHANGED <<historyVars, heap, stale, age, address, again, skipped, doubled, calls>>

(* The operation under the lock begins to write. *)
BeginWrite(t) ==
  /\ pc[t] \in {"mark", "consume"}
  /\ ~torn
  /\ torn' = TRUE
  /\ UNCHANGED <<entries, buckets, next_index, answer, lock, heap, stale, age, pc,
                 address, again, skipped, doubled, calls>>

Consume(t) ==
  /\ pc[t] = "consume"
  /\ torn
  /\ consume(address[t])
  /\ torn' = FALSE
  /\ Goto(t, "unlock_consume")
  /\ UNCHANGED <<lock, heap, stale, age, address, again, skipped, doubled, calls>>

Aged(a) == [b \in Addresses |-> IF b = a THEN 0
                                ELSE IF age[b] < Capacity THEN age[b] + 1 ELSE age[b]]

Mark(t) ==
  /\ pc[t] = "mark"
  /\ torn
  /\ seen_or_mark(address[t])
  /\ age' = IF answer' THEN age ELSE Aged(address[t])
  /\ torn' = FALSE
  /\ Goto(t, IF answer' THEN "unlock_seen" ELSE "unlock_mark")
  /\ UNCHANGED <<lock, heap, stale, address, again, skipped, doubled, calls>>

(* malloc returns the block to win32u. *)
ReturnBlock(t) ==
  /\ pc[t] = "unlock_consume"
  /\ lock' = FALSE
  /\ heap' = [heap EXCEPT ![address[t]] = "win32u"]
  /\ Return(t)
  /\ UNCHANGED <<historyVars, stale, age, skipped, doubled, calls>>

(* free returns without freeing. *)
SkipFree(t) ==
  /\ pc[t] = "unlock_seen"
  /\ lock' = FALSE
  /\ skipped' = (skipped \/ ~again[t])
  /\ Return(t)
  /\ UNCHANGED <<historyVars, heap, stale, age, doubled, calls>>

UnlockMark(t) ==
  /\ pc[t] = "unlock_mark"
  /\ lock' = FALSE
  /\ Goto(t, "free")
  /\ UNCHANGED <<historyVars, heap, stale, age, address, again, skipped, doubled, calls>>

RealFree(t) ==
  /\ pc[t] = "free"
  /\ heap' = [heap EXCEPT ![address[t]] = "free"]
  /\ stale' = IF again[t] THEN stale ELSE stale \cup {address[t]}
  /\ doubled' = (doubled \/ again[t])
  /\ Return(t)
  /\ UNCHANGED <<historyVars, lock, age, skipped, calls>>

(* Mutant: the lock is as the parent left it. *)
ForkKeepsLock(t) ==
  /\ MayFork
  /\ pc[t] = "idle"
  /\ pc' = [u \in Threads |-> "idle"]
  /\ address' = [u \in Threads |-> NoAddress]
  /\ again' = [u \in Threads |-> FALSE]
  /\ entries' = NewEntries /\ buckets' = NewBuckets /\ next_index' = 0
  /\ torn' = FALSE
  /\ stale' = {}
  /\ UNCHANGED <<lock, answer, heap, age, skipped, doubled, calls>>

(* after_fork: the child goes on with one thread and an empty history.  What  *)
(* its other threads were working on stays as it is.                         *)
Fork(t) ==
  /\ MayFork
  /\ pc[t] = "idle"
  /\ pc' = [u \in Threads |-> "idle"]
  /\ address' = [u \in Threads |-> NoAddress]
  /\ again' = [u \in Threads |-> FALSE]
  /\ entries' = NewEntries /\ buckets' = NewBuckets /\ next_index' = 0
  /\ torn' = FALSE
  /\ lock' = FALSE
  /\ stale' = {}
  /\ UNCHANGED <<answer, heap, age, skipped, doubled, calls>>

Step(t) ==
  \/ Lock(t) \/ BeginWrite(t) \/ Consume(t) \/ Mark(t) \/ ReturnBlock(t)
  \/ SkipFree(t) \/ UnlockMark(t) \/ RealFree(t)

Next ==
  \E t \in Threads :
    \/ Step(t) \/ Fork(t)
    \/ \E a \in Addresses :
         \/ \E who \in {"win32u", "elsewhere"} : Malloc(t, a, who)
         \/ FreeElsewhere(a) \/ FreeWin32u(t, a) \/ FreeAgain(t, a)

Spec == Init /\ [][Next]_vars
FairSpec == Spec /\ \A t \in Threads : WF_vars(Step(t))

-----------------------------------------------------------------------------
(* Properties *)

Labels == {"idle", "lock_mark", "lock_consume", "mark", "consume", "unlock_consume",
           "unlock_seen", "unlock_mark", "free"}

(* The type of every variable. *)
TypeOK ==
  /\ entries \in [Indices -> [address : Addresses \cup {NoAddress},
                              next : 0..NO_ENTRY, prev : 0..NO_ENTRY]]
  /\ buckets \in [Buckets -> 0..NO_ENTRY]
  /\ next_index \in Indices
  /\ torn \in BOOLEAN /\ lock \in BOOLEAN /\ answer \in BOOLEAN
  /\ heap \in [Addresses -> {"free", "win32u", "elsewhere", "new", "old"}]
  /\ stale \subseteq Addresses
  /\ age \in [Addresses -> 0..Capacity]
  /\ pc \in [Threads -> Labels]
  /\ address \in [Threads -> Addresses \cup {NoAddress}]
  /\ again \in [Threads -> BOOLEAN]
  /\ skipped \in BOOLEAN /\ doubled \in BOOLEAN
  /\ calls \in 0..MaxCalls

(* LOCK serialises the history: a thread that starts to change it never       *)
(* meets the half-finished change of another, nor of one that a fork ended.  *)
NoTornAccess ==
  Cardinality({t \in Threads : pc[t] \in {"mark", "consume"}}) <= 1 /\ (torn => lock)

(* The while loop of find ends: no chain of entries runs in a circle.         *)
ChainsEnd == \A S \in (SUBSET Indices) \ {{}} : \E i \in S : entries[i].next \notin S

(* A pointer that win32u freed and nobody allocated since is found in the     *)
(* history until CAPACITY later frees were recorded, whatever malloc and free *)
(* other threads are in: until then a second free of it cannot reach the      *)
(* allocator.  Once one did, the allocator may hand out what is in use.       *)
StaleIsRemembered ==
  ~doubled => \A a \in stale : age[a] < Capacity => Find(a) # {}

(* A spinning malloc or free gets the lock in the end, also in a forked child *)
(* whose parent's threads held it.                                           *)
EveryCallReturns == \A t \in Threads : pc[t] # "idle" ~> pc[t] = "idle"

(* The hashed history answers and evicts as the ring of the unit test does.  *)
Ring == INSTANCE RingHistory WITH ring <- [i \in Indices |-> entries[i].address]
ImplementsRing == Ring!RingSpec

(* hooks.rs:11: the guard is for a pointer that reaches free "twice ... with  *)
(* no intervening allocation": it never drops the free of an allocated block. *)
OnlyDoubleFreesAreSkipped == ~skipped

(* The history under concurrent malloc and free: it has its type, is only used *)
(* whole, its chains end, and it finds what is stale.                         *)
HistoryIsSound == TypeOK /\ NoTornAccess /\ ChainsEnd /\ StaleIsRemembered
=============================================================================
