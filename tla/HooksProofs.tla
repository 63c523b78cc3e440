----------------------------- MODULE HooksProofs ----------------------------
(***************************************************************************)
(* The interposed functions of hooks.rs.                                      *)
(*                                                                         *)
(* sigaction, for every finite set of threads, any set of actions and blocks, *)
(* and any number of updates, signals and forks: no snapshot is freed while   *)
(* something points to it, the bridge stays ahead of Wine's handler, and a    *)
(* refused update changes nothing.                                            *)
(*                                                                         *)
(* malloc and free, for every set of threads, pool size, sizes and keys: the  *)
(* blocks of the bootstrap pool stay apart and never reach the real free, no  *)
(* thread resolves a function inside its own dlsym, and the ring sees the      *)
(* calls of win32u and no others.                                              *)
(***************************************************************************)
EXTENDS SignalSlot, Bootstrap, FiniteSetTheorems, TLAPS

-----------------------------------------------------------------------------
(* sigaction *)

Labels == {"idle", "acquire", "direct", "snapshot", "swap", "install", "release", "undo",
           "load", "read", "leave", "forward"}

(* Between taking SIGNAL_UPDATE_LOCK and giving it back. *)
Held == {"direct", "snapshot", "swap", "install", "release", "undo"}

(* The signals that are counted in SignalSlot::readers. *)
Counted == {"load", "read", "leave"}
Reading == {t \in Threads : pc[t] \in Counted}

(* The type invariant, but for the count of readers. *)
Types ==
  /\ current \in Blocks \cup {Null}
  /\ owned \in BOOLEAN /\ lock \in BOOLEAN /\ dead \in BOOLEAN
  /\ block \in [Blocks -> ActionType]
  /\ kernel \in ActionType
  /\ pc \in [Threads -> Labels]
  /\ act \in [Threads -> ActionType] /\ oldact \in [Threads -> ActionType]
  /\ snapshot \in [Threads -> Blocks \cup {Null}]
  /\ previous \in [Threads -> Blocks \cup {Null}]
  /\ updates \in 0..MaxUpdates /\ signals \in 0..MaxSignals

(* One thread at most is inside the lock. *)
OneUpdater ==
  \A t \in Threads : pc[t] \in Held => lock /\ \A u \in Threads : pc[u] \in Held => u = t

(* The action that sigaction reports when it replaces block b. *)
InForce(b) == IF b = Null THEN kernel ELSE block[b]

(* What a thread relies on: a reader that its snapshot is live; an update that *)
(* the action it installs is no free block, that its new snapshot and the one  *)
(* it replaced are live and not in the slot, that oldact is what it replaced,  *)
(* and that an action sent straight to the kernel met no bridge.               *)
ThreadInv(t) ==
  /\ pc[t] = "read" /\ snapshot[t] # Null => block[snapshot[t]] # NoAction
  /\ pc[t] \in {"acquire", "snapshot"} => act[t].id # 0
  /\ pc[t] = "swap" =>
       snapshot[t] \in Blocks /\ snapshot[t] # current /\ block[snapshot[t]] # NoAction
  /\ pc[t] \in {"install", "release", "undo"} /\ previous[t] # Null =>
       previous[t] # current /\ block[previous[t]] # NoAction
  /\ pc[t] = "install" => dead \/ oldact[t] = InForce(previous[t])
  /\ pc[t] = "direct" => ~owned

SlotInv ==
  /\ Types
  /\ OneUpdater
  /\ readers = Cardinality(Reading)
  /\ current # Null => block[current] # NoAction
  /\ \A t \in Threads : ThreadInv(t)

-----------------------------------------------------------------------------
(* Actions and counts. *)

(* Actions have their type; a free block's action is number 0, and no action   *)
(* that a program installs is.                                                 *)
LEMMA ActionFacts ==
  /\ NoAction \in ActionType /\ NoAction.id = 0
  /\ Bridge \in ActionType /\ Bridge.id # 0
  /\ \A a \in Actions, n \in 1..MaxUpdates : Action(a, n) \in ActionType /\ Action(a, n).id = n
<1>1. MaxUpdates \in Nat /\ 0 \in 0..(MaxUpdates + 1) /\ MaxUpdates + 1 \in 0..(MaxUpdates + 1)
      /\ MaxUpdates + 1 # 0 /\ \A n \in 1..MaxUpdates : n \in 0..(MaxUpdates + 1)
  BY SignalAssumption DEF SignalAssumption
<1>2. \A a \in Actions : a.handler \in Handlers /\ a.from_ntdll \in BOOLEAN /\ a.reset \in BOOLEAN
  BY SignalAssumption, Zenon DEF SignalAssumption
<1>3. \A n \in 0..(MaxUpdates + 1) : \A a :
        a.handler \in Handlers /\ a.from_ntdll \in BOOLEAN /\ a.reset \in BOOLEAN
          => Action(a, n) \in ActionType /\ Action(a, n).id = n
  BY DEF Action, ActionType
<1>4. \A h \in Handlers : Plain(h).handler \in Handlers /\ Plain(h).from_ntdll \in BOOLEAN
                           /\ Plain(h).reset \in BOOLEAN
  BY DEF Plain
<1>5. "SIG_DFL" \in Handlers /\ "function" \in Handlers
  BY DEF Handlers
<1>6. NoAction \in ActionType /\ NoAction.id = 0 /\ Bridge \in ActionType /\ Bridge.id # 0
  BY <1>1, <1>3, <1>4, <1>5, Zenon DEF NoAction, Bridge
<1> QED
  BY <1>1, <1>2, <1>3, <1>6, Zenon

(* The readers are finitely many. *)
LEMMA ReadingIsFinite ==
  /\ IsFiniteSet(Threads) /\ IsFiniteSet(Reading)
  /\ Cardinality(Reading) \in 0..Cardinality(Threads)
  /\ Cardinality(Reading) = 0 => Reading = {}
<1>1. IsFiniteSet(Threads)
  BY SignalAssumption, Zenon DEF SignalAssumption
<1>2. Reading \in SUBSET Threads
  BY Zenon DEF Reading
<1>3. IsFiniteSet(Reading) /\ Cardinality(Reading) <= Cardinality(Threads)
  BY <1>1, <1>2, FS_Subset, Zenon
<1>4. Cardinality(Reading) \in Nat /\ Cardinality(Threads) \in Nat
  BY <1>1, <1>3, FS_CardinalityType, Zenon
<1>5. Cardinality(Reading) = 0 => Reading = {}
  BY <1>3, FS_EmptySet, Zenon
<1> QED
  BY <1>1, <1>3, <1>4, <1>5

(* A step that moves one thread changes the count by that thread alone. *)
LEMMA ReadingMoves ==
  ASSUME NEW t \in Threads, \A u \in Threads \ {t} : pc'[u] = pc[u]
  PROVE  /\ (pc[t] \in Counted <=> pc'[t] \in Counted) =>
              Cardinality(Reading') = Cardinality(Reading)
         /\ pc[t] \notin Counted /\ pc'[t] \in Counted =>
              Cardinality(Reading') = Cardinality(Reading) + 1
         /\ pc[t] \in Counted /\ pc'[t] \notin Counted =>
              Cardinality(Reading') = Cardinality(Reading) - 1
<1>0. IsFiniteSet(Reading)
  BY ReadingIsFinite, Zenon
<1>1. CASE pc[t] \in Counted <=> pc'[t] \in Counted
  <2>1. Reading' = Reading
    BY <1>1 DEF Reading
  <2> QED
    BY <1>1, <2>1, Zenon
<1>2. CASE pc[t] \notin Counted /\ pc'[t] \in Counted
  <2>1. Reading' = Reading \cup {t} /\ t \notin Reading
    BY <1>2 DEF Reading
  <2> QED
    BY <1>0, <1>2, <2>1, FS_AddElement, Zenon
<1>3. CASE pc[t] \in Counted /\ pc'[t] \notin Counted
  <2>1. Reading' = Reading \ {t} /\ t \in Reading
    BY <1>3 DEF Reading
  <2> QED
    BY <1>0, <1>3, <2>1, FS_RemoveElement, Zenon
<1> QED
  BY <1>1, <1>2, <1>3, Zenon

-----------------------------------------------------------------------------
(* What the other threads keep. *)

Others(t) ==
  \A u \in Threads \ {t} :
    /\ pc'[u] = pc[u] /\ act'[u] = act[u] /\ oldact'[u] = oldact[u]
    /\ snapshot'[u] = snapshot[u] /\ previous'[u] = previous[u]

(* A step that frees and publishes nothing: at most it empties the slot (the   *)
(* one-shot reset) or ends the process (the default action).                   *)
LEMMA QuietOthers ==
  ASSUME SlotInv, NEW t \in Threads, Others(t), NEW u \in Threads \ {t},
         block' = block, owned' = owned, dead => dead',
         kernel' = kernel \/ dead', current' \in {current, Null}
  PROVE  ThreadInv(u)'
<1>1. /\ pc'[u] = pc[u] /\ act'[u] = act[u] /\ oldact'[u] = oldact[u]
      /\ snapshot'[u] = snapshot[u] /\ previous'[u] = previous[u] /\ ThreadInv(u)
  BY Zenon DEF Others, SlotInv
<1>2. Null \notin Blocks
  BY SignalAssumption, Zenon DEF SignalAssumption
<1>3. dead' \/ InForce(previous[u])' = InForce(previous[u])
  BY <1>1, Zenon DEF InForce
<1> QED
  BY <1>1, <1>2, <1>3, Zenon DEF ThreadInv

(* A step of the thread inside the lock: the others are outside. *)
LEMMA UpdaterOthers ==
  ASSUME SlotInv, NEW t \in Threads, pc[t] \in Held, Others(t), NEW u \in Threads \ {t},
         pc[u] = "read" /\ snapshot[u] # Null => block'[snapshot[u]] # NoAction
  PROVE  ThreadInv(u)'
<1>1. /\ pc'[u] = pc[u] /\ act'[u] = act[u]
      /\ snapshot'[u] = snapshot[u] /\ ThreadInv(u)
  BY Zenon DEF Others, SlotInv
<1>2. pc[u] \notin Held
  BY Zenon DEF SlotInv, OneUpdater
<1>3. pc[u] \notin {"direct", "swap", "install", "release", "undo", "snapshot"}
  BY <1>2, Zenon DEF Held
<1> QED
  BY <1>1, <1>3, Zenon DEF ThreadInv

(* SIGNAL_UPDATE_LOCK is taken by a thread that finds it free, and given back  *)
(* by the thread that has it.                                                  *)
LEMMA LockMoves ==
  ASSUME SlotInv, NEW t \in Threads, Others(t),
         \/ lock' = lock /\ (pc'[t] \in Held => pc[t] \in Held)
         \/ ~lock /\ lock'
         \/ pc[t] \in Held /\ pc'[t] \notin Held
  PROVE  OneUpdater'
<1>1. \A u \in Threads \ {t} : pc'[u] = pc[u]
  BY Zenon DEF Others
<1>2. \A u, v \in Threads : pc[u] \in Held => lock /\ (pc[v] \in Held => v = u)
  BY Zenon DEF SlotInv, OneUpdater
<1>3. ASSUME NEW u \in Threads, pc'[u] \in Held
      PROVE  lock' /\ \A v \in Threads : pc'[v] \in Held => v = u
  <2>1. CASE u = t
    BY <1>1, <1>2, <1>3, <2>1
  <2>2. CASE u # t
    BY <1>1, <1>2, <1>3, <2>2
  <2> QED
    BY <2>1, <2>2, Zenon
<1> QED
  BY <1>3, Zenon DEF OneUpdater

(* A call that returns leaves nothing behind. *)
LEMMA ReturnFacts ==
  ASSUME Types, NEW t \in Threads, Return(t)
  PROVE  /\ Others(t) /\ pc'[t] = "idle" /\ ThreadInv(t)'
         /\ pc' \in [Threads -> Labels]
         /\ act' \in [Threads -> ActionType] /\ oldact' \in [Threads -> ActionType]
         /\ snapshot' \in [Threads -> Blocks \cup {Null}]
         /\ previous' \in [Threads -> Blocks \cup {Null}]
<1>1. NoAction \in ActionType /\ "idle" \in Labels
  BY ActionFacts, Zenon DEF Labels
<1>2. Others(t) /\ pc'[t] = "idle"
  BY Zenon DEF Types, Return, Goto, Others
<1>3. ThreadInv(t)'
  BY <1>2 DEF ThreadInv
<1> QED
  BY <1>1, <1>2, <1>3, Zenon DEF Types, Return, Goto

-----------------------------------------------------------------------------
(* The steps of sigaction. *)

(* A program calls sigaction. *)
LEMMA SigactionStep == ASSUME SlotInv, NEW t \in Threads, Sigaction(t) PROVE SlotInv'
<1>1. Types /\ pc[t] = "idle" /\ current' = current /\ readers' = readers /\ block' = block
      /\ owned' = owned /\ dead' = dead /\ kernel' = kernel /\ lock' = lock
  BY Zenon DEF SlotInv, Sigaction, slotVars
<1>2. updates' \in 0..MaxUpdates /\ updates + 1 \in 1..MaxUpdates
  BY <1>1, SignalAssumption DEF SignalAssumption, Sigaction, Types
<1>3. PICK a \in ActionType : a.id # 0 /\ act' = [act EXCEPT ![t] = a]
  <2>1. CASE \E a \in Actions : act' = [act EXCEPT ![t] = Action(a, updates + 1)]
    <3>1. PICK a \in Actions : act' = [act EXCEPT ![t] = Action(a, updates + 1)]
      BY <2>1, Zenon
    <3>2. Action(a, updates + 1) \in ActionType /\ Action(a, updates + 1).id = updates + 1
      BY <1>2, ActionFacts, Zenon
    <3>3. updates + 1 # 0
      BY <1>2
    <3> QED
      BY <3>1, <3>2, <3>3, Zenon
  <2>2. CASE act' = [act EXCEPT ![t] = Bridge]
    BY <2>2, ActionFacts, Zenon
  <2> QED
    BY <2>1, <2>2, Zenon DEF Sigaction
<1>4. pc' = [pc EXCEPT ![t] = "acquire"] /\ pc'[t] = "acquire" /\ act'[t] = a /\ Others(t)
  BY <1>1, <1>3, Zenon DEF Sigaction, Goto, Types, Others
<1>5. Types'
  <2>1. "acquire" \in Labels
    BY Zenon DEF Labels
  <2> QED
    BY <1>1, <1>2, <1>3, <1>4, <2>1, Zenon DEF Types, Sigaction
<1>6. pc[t] \notin Held /\ pc'[t] \notin Held /\ pc[t] \notin Counted /\ pc'[t] \notin Counted
  BY <1>1, <1>4, Zenon DEF Held, Counted
<1>7. OneUpdater'
  BY <1>1, <1>4, <1>6, LockMoves, Zenon
<1>8. readers' = Cardinality(Reading')
  BY <1>1, <1>4, <1>6, ReadingMoves, Zenon DEF Others, SlotInv
<1>9. ThreadInv(t)'
  BY <1>3, <1>4 DEF ThreadInv
<1>10. \A u \in Threads \ {t} : ThreadInv(u)'
  BY <1>1, <1>4, QuietOthers, Zenon
<1> QED
  BY <1>1, <1>5, <1>7, <1>8, <1>9, <1>10, Zenon DEF SlotInv

(* It takes the lock. *)
LEMMA AcquireStep == ASSUME SlotInv, NEW t \in Threads, Acquire(t) PROVE SlotInv'
<1>1. Types /\ ThreadInv(t) /\ pc[t] = "acquire" /\ current' = current /\ readers' = readers
      /\ block' = block /\ owned' = owned /\ dead' = dead /\ kernel' = kernel
      /\ ~lock /\ lock' = TRUE
  BY Zenon DEF SlotInv, Acquire
<1>2. Others(t) /\ act'[t] = act[t]
      /\ pc' = [pc EXCEPT ![t] = IF owned \/ act[t].from_ntdll THEN "snapshot" ELSE "direct"]
  BY <1>1, Zenon DEF Acquire, Goto, Types, Others, localVars
<1>3. /\ pc'[t] \in {"snapshot", "direct"} /\ pc'[t] \in Labels
      /\ pc'[t] = "direct" => ~owned
  BY <1>1, <1>2, Zenon DEF Types, Labels
<1>4. Types'
  BY <1>1, <1>2, <1>3, Zenon DEF Types, Acquire, localVars, Labels
<1>5. pc[t] \notin Counted /\ pc'[t] \notin Counted
  BY <1>1, <1>3, Zenon DEF Counted
<1>6. OneUpdater'
  BY <1>1, <1>2, LockMoves, Zenon
<1>7. readers' = Cardinality(Reading')
  BY <1>1, <1>2, <1>5, ReadingMoves, Zenon DEF Others, SlotInv
<1>8. ThreadInv(t)'
  BY <1>1, <1>2, <1>3 DEF ThreadInv
<1>9. \A u \in Threads \ {t} : ThreadInv(u)'
  BY <1>1, <1>2, QuietOthers, Zenon
<1> QED
  BY <1>1, <1>4, <1>6, <1>7, <1>8, <1>9, Zenon DEF SlotInv

(* The thread inside the lock unlocks and returns, and frees nothing. *)
LEMMA UnlockStep ==
  ASSUME SlotInv, NEW t \in Threads, pc[t] \in Held, Unlock, Return(t),
         UNCHANGED <<current, readers, owned, block, dead, updates, signals>>,
         kernel' \in ActionType
  PROVE  SlotInv'
<1>1. Types /\ lock' = FALSE /\ current' = current /\ readers' = readers /\ block' = block
      /\ owned' = owned /\ dead' = dead /\ updates' = updates /\ signals' = signals
  BY Zenon DEF SlotInv, Unlock
<1>2. /\ Others(t) /\ pc'[t] = "idle" /\ ThreadInv(t)'
      /\ pc' \in [Threads -> Labels]
      /\ act' \in [Threads -> ActionType] /\ oldact' \in [Threads -> ActionType]
      /\ snapshot' \in [Threads -> Blocks \cup {Null}]
      /\ previous' \in [Threads -> Blocks \cup {Null}]
  BY <1>1, ReturnFacts, Zenon
<1>3. Types'
  BY <1>1, <1>2, Zenon DEF Types
<1>4. pc[t] \notin Counted /\ pc'[t] \notin Counted /\ pc'[t] \notin Held
  BY <1>2, Zenon DEF Counted, Held
<1>5. OneUpdater'
  BY <1>2, <1>4, LockMoves, Zenon
<1>6. readers' = Cardinality(Reading')
  BY <1>1, <1>2, <1>4, ReadingMoves, Zenon DEF Others, SlotInv
<1>7. \A u \in Threads \ {t} : ThreadInv(u)'
  <2> TAKE u \in Threads \ {t}
  <2>1. pc[u] = "read" /\ snapshot[u] # Null => block'[snapshot[u]] # NoAction
    BY <1>1, Zenon DEF SlotInv, ThreadInv
  <2> QED
    BY <1>2, <2>1, UpdaterOthers, Zenon
<1> QED
  BY <1>1, <1>2, <1>3, <1>5, <1>6, <1>7, Zenon DEF SlotInv

(* An action of no interest, the bridge itself, and a kernel that refuses the   *)
(* query: the call ends at once.                                               *)
LEMMA ShortStep ==
  ASSUME SlotInv, NEW t \in Threads, InstallDirectly(t) \/ LeaveBridge(t) \/ QueryFails(t)
  PROVE  SlotInv'
<1>1. pc[t] \in Held /\ kernel \in ActionType /\ act[t] \in ActionType
  BY Zenon DEF InstallDirectly, LeaveBridge, QueryFails, Held, SlotInv, Types
<1>2. kernel' \in ActionType
  BY <1>1, Zenon DEF InstallDirectly, LeaveBridge, QueryFails
<1>3. /\ Unlock /\ Return(t)
      /\ UNCHANGED <<current, readers, owned, block, dead, updates, signals>>
  BY Zenon DEF InstallDirectly, LeaveBridge, QueryFails
<1> QED
  BY <1>1, <1>2, <1>3, UnlockStep, Zenon

(* A free block gets the action; nothing pointed to it. *)
LEMMA TakeSnapshotStep == ASSUME SlotInv, NEW t \in Threads, TakeSnapshot(t) PROVE SlotInv'
<1>0. Types /\ ThreadInv(t) /\ pc[t] = "snapshot" /\ pc[t] \in Held
      /\ current' = current /\ readers' = readers /\ owned' = owned /\ kernel' = kernel
      /\ dead' = dead /\ updates' = updates /\ signals' = signals
  BY Zenon DEF SlotInv, TakeSnapshot, Held
<1>1. CASE Unlock /\ Return(t) /\ UNCHANGED block
  <2>1. UNCHANGED <<current, readers, owned, block, dead, updates, signals>> /\ kernel' \in ActionType
    BY <1>0, <1>1, Zenon DEF Types
  <2> QED
    BY <1>0, <1>1, <2>1, UnlockStep, Zenon
<1>2. ASSUME NEW b \in Blocks, block[b] = NoAction, block' = [block EXCEPT ![b] = act[t]],
             snapshot' = [snapshot EXCEPT ![t] = b], Goto(t, "swap"),
             UNCHANGED <<lock, act, previous, oldact>>
      PROVE  SlotInv'
  <2>1. act[t] \in ActionType /\ act[t] # NoAction
    BY <1>0, ActionFacts, Zenon DEF Types, ThreadInv
  <2>2. Others(t) /\ pc'[t] = "swap" /\ snapshot'[t] = b /\ lock' = lock
    BY <1>0, <1>2, Zenon DEF Types, Goto, Others
  <2>3. block'[b] # NoAction /\ \A c \in Blocks : block[c] # NoAction => block'[c] # NoAction
    BY <1>0, <1>2, <2>1, Zenon DEF Types
  <2>4. Types'
    <3>1. "swap" \in Labels
      BY Zenon DEF Labels
    <3> QED
      BY <1>0, <1>2, <2>1, <3>1, Zenon DEF Types, Goto
  <2>5. pc[t] \notin Counted /\ pc'[t] \notin Counted
    BY <1>0, <2>2, Zenon DEF Counted
  <2>6. OneUpdater'
    BY <1>0, <2>2, LockMoves, Zenon
  <2>7. readers' = Cardinality(Reading')
    BY <1>0, <2>2, <2>5, ReadingMoves, Zenon DEF Others, SlotInv
  <2>8. current # Null => current \in Blocks /\ block[current] # NoAction
    BY <1>0, Zenon DEF SlotInv, Types
  <2>9. b # current /\ b # Null
    BY <1>2, <2>8, SignalAssumption, Zenon DEF SignalAssumption
  <2>10. ThreadInv(t)'
    BY <1>0, <2>2, <2>3, <2>9 DEF ThreadInv
  <2>11. \A u \in Threads \ {t} : ThreadInv(u)'
    <3> TAKE u \in Threads \ {t}
    <3>1. pc[u] = "read" /\ snapshot[u] # Null => block'[snapshot[u]] # NoAction
      BY <1>0, <2>3, Zenon DEF SlotInv, ThreadInv, Types
    <3> QED
      BY <1>0, <2>2, <3>1, UpdaterOthers, Zenon
  <2>12. current' # Null => block'[current'] # NoAction
    BY <1>0, <2>3, <2>8, Zenon
  <2> QED
    BY <2>4, <2>6, <2>7, <2>10, <2>11, <2>12, Zenon DEF SlotInv
<1> QED
  BY <1>1, <1>2, Zenon DEF TakeSnapshot

(* The new snapshot goes into the slot, the old one comes out of it. *)
LEMMA SwapSnapshotStep == ASSUME SlotInv, NEW t \in Threads, SwapSnapshot(t) PROVE SlotInv'
<1>1. Types /\ ThreadInv(t) /\ pc[t] = "swap" /\ pc[t] \in Held
      /\ current' = snapshot[t] /\ readers' = readers /\ block' = block /\ owned' = owned
      /\ lock' = lock /\ dead' = dead /\ kernel' = kernel
  BY Zenon DEF SlotInv, SwapSnapshot, Held
<1>2. snapshot[t] \in Blocks /\ snapshot[t] # current /\ block[snapshot[t]] # NoAction
  BY <1>1, Zenon DEF ThreadInv
<1>3. (IF current = Null THEN kernel ELSE block[current]) \in ActionType
  BY <1>1, Zenon DEF Types
<1>4. /\ Others(t) /\ pc'[t] = "install" /\ previous'[t] = current
      /\ oldact'[t] = IF current = Null THEN kernel ELSE block[current]
  BY <1>1, Zenon DEF SwapSnapshot, Types, Goto, Others
<1>5. Types'
  <2>1. "install" \in Labels
    BY Zenon DEF Labels
  <2> QED
    BY <1>1, <1>2, <1>3, <2>1, Zenon DEF Types, SwapSnapshot, Goto
<1>6. pc[t] \notin Counted /\ pc'[t] \notin Counted
  BY <1>1, <1>4, Zenon DEF Counted
<1>7. OneUpdater'
  BY <1>1, <1>4, LockMoves, Zenon
<1>8. readers' = Cardinality(Reading')
  BY <1>1, <1>4, <1>6, ReadingMoves, Zenon DEF Others, SlotInv
<1>9. ThreadInv(t)'
  <2>1. current # Null => block[current] # NoAction
    BY Zenon DEF SlotInv
  <2>2. InForce(previous[t])' = oldact'[t]
    BY <1>1, <1>4, Zenon DEF InForce
  <2> QED
    BY <1>1, <1>2, <1>4, <2>1, <2>2 DEF ThreadInv
<1>10. \A u \in Threads \ {t} : ThreadInv(u)'
  <2> TAKE u \in Threads \ {t}
  <2>1. pc[u] = "read" /\ snapshot[u] # Null => block'[snapshot[u]] # NoAction
    BY <1>1, Zenon DEF SlotInv, ThreadInv
  <2> QED
    BY <1>1, <1>4, <2>1, UpdaterOthers, Zenon
<1> QED
  BY <1>1, <1>2, <1>5, <1>7, <1>8, <1>9, <1>10, Zenon DEF SlotInv

(* The kernel takes the bridge, or refuses it and the old snapshot goes back. *)
LEMMA InstallBridgeStep == ASSUME SlotInv, NEW t \in Threads, InstallBridge(t) PROVE SlotInv'
<1>1. Types /\ ThreadInv(t) /\ pc[t] = "install" /\ pc[t] \in Held
      /\ readers' = readers /\ block' = block /\ owned' = owned /\ lock' = lock /\ dead' = dead
  BY Zenon DEF SlotInv, InstallBridge, Held
<1>2. current # Null => block[current] # NoAction
  BY Zenon DEF SlotInv
<1>3. previous[t] # Null => previous[t] # current /\ block[previous[t]] # NoAction
  BY <1>1, Zenon DEF ThreadInv
<1>4. /\ Others(t)
      /\ \/ pc'[t] = "release" /\ current' = current /\ previous'[t] = previous[t]
         \/ pc'[t] = "undo" /\ current' = previous[t] /\ previous'[t] = current
  BY <1>1, Zenon DEF InstallBridge, Types, Goto, Others
<1>5. Types'
  <2>1. "release" \in Labels /\ "undo" \in Labels
    BY Zenon DEF Labels
  <2>2. kernel' \in ActionType /\ current' \in Blocks \cup {Null}
        /\ previous' \in [Threads -> Blocks \cup {Null}]
    BY <1>1, ActionFacts, ZenonT(30) DEF InstallBridge, Types
  <2> QED
    BY <1>1, <2>1, <2>2, Zenon DEF Types, InstallBridge, Goto
<1>6. pc[t] \notin Counted /\ pc'[t] \notin Counted
  BY <1>1, <1>4, Zenon DEF Counted
<1>7. OneUpdater'
  BY <1>1, <1>4, LockMoves, Zenon
<1>8. readers' = Cardinality(Reading')
  BY <1>1, <1>4, <1>6, ReadingMoves, Zenon DEF Others, SlotInv
<1>9. ThreadInv(t)'
  BY <1>1, <1>2, <1>3, <1>4 DEF ThreadInv
<1>10. \A u \in Threads \ {t} : ThreadInv(u)'
  <2> TAKE u \in Threads \ {t}
  <2>1. pc[u] = "read" /\ snapshot[u] # Null => block'[snapshot[u]] # NoAction
    BY <1>1, Zenon DEF SlotInv, ThreadInv
  <2> QED
    BY <1>1, <1>4, <2>1, UpdaterOthers, Zenon
<1>11. current' # Null => block'[current'] # NoAction
  BY <1>1, <1>2, <1>3, <1>4
<1> QED
  BY <1>5, <1>7, <1>8, <1>9, <1>10, <1>11, Zenon DEF SlotInv

(* release_snapshot frees a block that left the slot, once nobody reads. *)
LEMMA ReleaseSnapshotStep == ASSUME SlotInv, NEW t \in Threads, ReleaseSnapshot(t) PROVE SlotInv'
<1>1. Types /\ ThreadInv(t) /\ pc[t] \in {"release", "undo"} /\ pc[t] \in Held
      /\ current' = current /\ readers' = readers /\ lock' = FALSE /\ dead' = dead
      /\ kernel' = kernel /\ updates' = updates /\ signals' = signals /\ owned' \in BOOLEAN
      /\ readers = Cardinality(Reading)
  BY Zenon DEF SlotInv, ReleaseSnapshot, Unlock, Held
<1>2. block' = [b \in Blocks |-> IF b = previous[t] THEN NoAction ELSE block[b]]
      /\ (previous[t] = Null \/ readers = 0) /\ Return(t)
  BY Zenon DEF ReleaseSnapshot
<1>3. /\ Others(t) /\ pc'[t] = "idle" /\ ThreadInv(t)'
      /\ pc' \in [Threads -> Labels]
      /\ act' \in [Threads -> ActionType] /\ oldact' \in [Threads -> ActionType]
      /\ snapshot' \in [Threads -> Blocks \cup {Null}]
      /\ previous' \in [Threads -> Blocks \cup {Null}]
  BY <1>1, <1>2, ReturnFacts, Zenon
<1>4. Types'
  <2>1. block' \in [Blocks -> ActionType]
    BY <1>1, <1>2, ActionFacts, Zenon DEF Types
  <2> QED
    BY <1>1, <1>3, <2>1, Zenon DEF Types
<1>5. pc[t] \notin Counted /\ pc'[t] \notin Counted /\ pc'[t] \notin Held
  BY <1>1, <1>3, Zenon DEF Counted, Held
<1>6. OneUpdater'
  BY <1>1, <1>3, <1>5, LockMoves, Zenon
<1>7. readers' = Cardinality(Reading')
  BY <1>1, <1>3, <1>5, ReadingMoves, Zenon DEF Others
<1>8. \A b \in Blocks : b # previous[t] => block'[b] = block[b]
  BY <1>2, Zenon
<1>9. \A u \in Threads \ {t} : ThreadInv(u)'
  <2> TAKE u \in Threads \ {t}
  <2>1. pc[u] = "read" /\ snapshot[u] # Null => block'[snapshot[u]] # NoAction
    <3> SUFFICES ASSUME pc[u] = "read", snapshot[u] # Null PROVE block'[snapshot[u]] # NoAction
      BY Zenon
    <3>1. u \in Reading
      BY Zenon DEF Reading, Counted
    <3>2. previous[t] = Null
      BY <1>1, <1>2, <3>1, ReadingIsFinite, Zenon
    <3>3. snapshot[u] \in Blocks /\ block[snapshot[u]] # NoAction
      BY <1>1, Zenon DEF Types, SlotInv, ThreadInv
    <3> QED
      BY <1>8, <3>2, <3>3, Zenon
  <2> QED
    BY <1>1, <1>3, <2>1, UpdaterOthers, Zenon
<1>10. current' # Null => block'[current'] # NoAction
  <2> SUFFICES ASSUME current # Null PROVE block'[current] # NoAction
    BY <1>1, Zenon
  <2>1. current \in Blocks /\ block[current] # NoAction
    BY <1>1, Zenon DEF Types, SlotInv
  <2>2. current # previous[t]
    BY <1>1, Zenon DEF ThreadInv
  <2> QED
    BY <1>8, <2>1, <2>2, Zenon
<1> QED
  BY <1>3, <1>4, <1>6, <1>7, <1>9, <1>10, Zenon DEF SlotInv

-----------------------------------------------------------------------------
(* The steps of a signal. *)

(* A signal reaches the bridge, which counts it. *)
LEMMA DeliverStep == ASSUME SlotInv, NEW t \in Threads, Deliver(t) PROVE SlotInv'
<1>1. Types /\ pc[t] = "idle" /\ current' = current /\ readers' = readers + 1 /\ block' = block
      /\ owned' = owned /\ dead' = dead /\ kernel' = kernel /\ lock' = lock
      /\ readers = Cardinality(Reading)
  BY Zenon DEF SlotInv, Deliver
<1>2. signals' \in 0..MaxSignals
  BY <1>1, SignalAssumption DEF SignalAssumption, Deliver, Types
<1>3. Others(t) /\ pc'[t] = "load"
  BY <1>1, Zenon DEF Deliver, Goto, Types, Others, localVars
<1>4. Types'
  <2>1. "load" \in Labels
    BY Zenon DEF Labels
  <2> QED
    BY <1>1, <1>2, <2>1, Zenon DEF Types, Deliver, Goto, localVars
<1>5. pc[t] \notin Counted /\ pc'[t] \in Counted /\ pc'[t] \notin Held
  BY <1>1, <1>3, Zenon DEF Counted, Held
<1>6. OneUpdater'
  BY <1>1, <1>3, <1>5, LockMoves, Zenon
<1>7. readers' = Cardinality(Reading')
  BY <1>1, <1>3, <1>5, ReadingMoves, Zenon DEF Others
<1>8. ThreadInv(t)'
  BY <1>3 DEF ThreadInv
<1>9. \A u \in Threads \ {t} : ThreadInv(u)'
  BY <1>1, <1>3, QuietOthers, Zenon
<1> QED
  BY <1>1, <1>4, <1>6, <1>7, <1>8, <1>9, Zenon DEF SlotInv

(* It loads the slot, and copies the action out of the block it found. *)
LEMMA ReadStep ==
  ASSUME SlotInv, NEW t \in Threads, LoadSnapshot(t) \/ ReadSnapshot(t)
  PROVE  SlotInv'
<1>1. Types /\ current' = current /\ readers' = readers /\ block' = block
      /\ owned' = owned /\ dead' = dead /\ kernel' = kernel /\ lock' = lock
      /\ readers = Cardinality(Reading) /\ updates' = updates /\ signals' = signals
      /\ (current # Null => block[current] # NoAction)
  BY Zenon DEF SlotInv, LoadSnapshot, ReadSnapshot, slotVars
<1>2. /\ Others(t)
      /\ \/ pc[t] = "load" /\ pc'[t] = "read" /\ snapshot'[t] = current
         \/ pc[t] = "read" /\ pc'[t] = "leave"
  BY <1>1, Zenon DEF LoadSnapshot, ReadSnapshot, Goto, Types, Others
<1>3. Types'
  <2>1. "read" \in Labels /\ "leave" \in Labels
    BY Zenon DEF Labels
  <2>2. pc' \in [Threads -> Labels]
    BY <1>1, <2>1, Zenon DEF LoadSnapshot, ReadSnapshot, Goto, Types
  <2>3. snapshot' \in [Threads -> Blocks \cup {Null}]
    BY <1>1, Zenon DEF LoadSnapshot, ReadSnapshot, Types
  <2>4. act' \in [Threads -> ActionType]
    <3>1. (IF snapshot[t] = Null THEN NoAction ELSE block[snapshot[t]]) \in ActionType
      BY <1>1, ActionFacts, Zenon DEF Types
    <3> QED
      BY <1>1, <3>1, Zenon DEF LoadSnapshot, ReadSnapshot, Types
  <2> QED
    BY <1>1, <2>2, <2>3, <2>4, Zenon DEF Types, LoadSnapshot, ReadSnapshot
<1>4. pc[t] \in Counted /\ pc'[t] \in Counted /\ pc'[t] \notin Held
  BY <1>2, Zenon DEF Counted, Held
<1>5. OneUpdater'
  BY <1>1, <1>2, <1>4, LockMoves, Zenon
<1>6. readers' = Cardinality(Reading')
  BY <1>1, <1>2, <1>4, ReadingMoves, Zenon DEF Others
<1>7. ThreadInv(t)'
  BY <1>1, <1>2 DEF ThreadInv
<1>8. \A u \in Threads \ {t} : ThreadInv(u)'
  BY <1>1, <1>2, QuietOthers, Zenon
<1> QED
  BY <1>1, <1>3, <1>5, <1>6, <1>7, <1>8, Zenon DEF SlotInv

(* It is no longer counted: what it forwards is its own copy. *)
LEMMA LeaveReadersStep == ASSUME SlotInv, NEW t \in Threads, LeaveReaders(t) PROVE SlotInv'
<1>1. Types /\ pc[t] = "leave" /\ current' = current /\ readers' = readers - 1 /\ block' = block
      /\ owned' = owned /\ dead' = dead /\ kernel' = kernel /\ lock' = lock
      /\ readers = Cardinality(Reading)
  BY Zenon DEF SlotInv, LeaveReaders
<1>2. Others(t) /\ pc'[t] = "forward"
  BY <1>1, Zenon DEF LeaveReaders, Goto, Types, Others, localVars
<1>3. Types'
  <2>1. "forward" \in Labels
    BY Zenon DEF Labels
  <2> QED
    BY <1>1, <2>1, Zenon DEF Types, LeaveReaders, Goto, localVars
<1>4. pc[t] \in Counted /\ pc'[t] \notin Counted /\ pc'[t] \notin Held
  BY <1>1, <1>2, Zenon DEF Counted, Held
<1>5. OneUpdater'
  BY <1>1, <1>2, <1>4, LockMoves, Zenon
<1>6. readers' = Cardinality(Reading')
  BY <1>1, <1>2, <1>4, ReadingMoves, Zenon DEF Others
<1>7. ThreadInv(t)'
  BY <1>2 DEF ThreadInv
<1>8. \A u \in Threads \ {t} : ThreadInv(u)'
  BY <1>1, <1>2, QuietOthers, Zenon
<1> QED
  BY <1>1, <1>3, <1>5, <1>6, <1>7, <1>8, Zenon DEF SlotInv

(* A one-shot function leaves the slot, the default action ends the process. *)
LEMMA ForwardStep == ASSUME SlotInv, NEW t \in Threads, Forward(t) PROVE SlotInv'
<1>1. Types /\ pc[t] = "forward" /\ readers' = readers /\ block' = block /\ owned' = owned
      /\ lock' = lock /\ readers = Cardinality(Reading) /\ Return(t)
      /\ updates' = updates /\ signals' = signals
      /\ (current # Null => block[current] # NoAction)
  BY Zenon DEF SlotInv, Forward
<1>2. /\ current' \in {current, Null} /\ (dead => dead') /\ dead' \in BOOLEAN
      /\ (kernel' = kernel \/ dead') /\ kernel' \in ActionType
  BY <1>1, ActionFacts, Zenon DEF Forward, Types
<1>3. /\ Others(t) /\ pc'[t] = "idle" /\ ThreadInv(t)'
      /\ pc' \in [Threads -> Labels]
      /\ act' \in [Threads -> ActionType] /\ oldact' \in [Threads -> ActionType]
      /\ snapshot' \in [Threads -> Blocks \cup {Null}]
      /\ previous' \in [Threads -> Blocks \cup {Null}]
  BY <1>1, ReturnFacts, Zenon
<1>4. Types'
  BY <1>1, <1>2, <1>3, Zenon DEF Types
<1>5. pc[t] \notin Counted /\ pc'[t] \notin Counted /\ pc'[t] \notin Held
  BY <1>1, <1>3, Zenon DEF Counted, Held
<1>6. OneUpdater'
  BY <1>1, <1>3, <1>5, LockMoves, Zenon
<1>7. readers' = Cardinality(Reading')
  BY <1>1, <1>3, <1>5, ReadingMoves, Zenon DEF Others
<1>8. \A u \in Threads \ {t} : ThreadInv(u)'
  BY <1>1, <1>2, <1>3, QuietOthers, Zenon
<1>9. current' # Null => block'[current'] # NoAction
  BY <1>1, <1>2, Zenon
<1> QED
  BY <1>3, <1>4, <1>6, <1>7, <1>8, <1>9, Zenon DEF SlotInv

(* A forked child has one thread, outside every call, and counts no reader. *)
LEMMA ForkStep == ASSUME SlotInv, NEW t \in Threads, Fork(t) PROVE SlotInv'
<1>1. Types /\ current' = current /\ readers' = 0 /\ block' = block
      /\ owned' = owned /\ dead' = dead /\ kernel' = kernel /\ lock' = FALSE
      /\ updates' = updates /\ signals' = signals /\ ForkLocals
      /\ (current # Null => block[current] # NoAction)
  BY Zenon DEF SlotInv, Fork
<1>2. \A u \in Threads : pc'[u] = "idle"
  BY <1>1, Zenon DEF ForkLocals
<1>3. Types'
  <2>1. "idle" \in Labels /\ NoAction \in ActionType /\ Null \in Blocks \cup {Null}
    BY ActionFacts, Zenon DEF Labels
  <2>2. /\ pc' \in [Threads -> Labels]
        /\ act' \in [Threads -> ActionType] /\ oldact' \in [Threads -> ActionType]
        /\ snapshot' \in [Threads -> Blocks \cup {Null}]
        /\ previous' \in [Threads -> Blocks \cup {Null}]
    BY <1>1, <2>1, Zenon DEF ForkLocals
  <2> QED
    BY <1>1, <2>2, Zenon DEF Types
<1>4. Reading' = {} /\ OneUpdater'
  BY <1>2 DEF Reading, Counted, OneUpdater, Held
<1>5. readers' = Cardinality(Reading')
  BY <1>1, <1>4, FS_EmptySet, Zenon
<1>6. \A u \in Threads : ThreadInv(u)'
  BY <1>2 DEF ThreadInv
<1> QED
  BY <1>1, <1>3, <1>4, <1>5, <1>6, Zenon DEF SlotInv

-----------------------------------------------------------------------------
(* The theorems. *)

(* The slot starts empty. *)
LEMMA InitSlot == ASSUME Init PROVE SlotInv
<1>1. NoAction \in ActionType /\ "idle" \in Labels /\ 0 \in 0..MaxUpdates /\ 0 \in 0..MaxSignals
  <2>1. 0 \in 0..MaxUpdates /\ 0 \in 0..MaxSignals
    BY SignalAssumption DEF SignalAssumption
  <2> QED
    BY <2>1, ActionFacts, Zenon DEF Labels
<1>2. Types
  BY <1>1, Zenon DEF Init, Types
<1>3. \A t \in Threads : pc[t] = "idle"
  BY Zenon DEF Init
<1>4. Reading = {} /\ OneUpdater
  BY <1>3 DEF Reading, Counted, OneUpdater, Held
<1>5. readers = Cardinality(Reading)
  BY <1>4, FS_EmptySet, Zenon DEF Init
<1>6. \A t \in Threads : ThreadInv(t)
  BY <1>3 DEF ThreadInv
<1> QED
  BY <1>2, <1>4, <1>5, <1>6, Zenon DEF SlotInv, Init

(* Every step keeps the invariant. *)
LEMMA NextSlot == ASSUME SlotInv, [Next]_vars PROVE SlotInv'
<1>1. CASE UNCHANGED vars
  <2>1. /\ UNCHANGED <<current, readers, owned, lock, block, kernel, dead, updates, signals>>
        /\ UNCHANGED <<pc, act, snapshot, previous, oldact>>
    BY <1>1, Zenon DEF vars, slotVars, localVars
  <2> QED
    BY <2>1 DEF SlotInv, Types, OneUpdater, Reading, ThreadInv, InForce
<1> QED
  BY <1>1, SigactionStep, AcquireStep, ShortStep, TakeSnapshotStep, SwapSnapshotStep,
     InstallBridgeStep, ReleaseSnapshotStep, DeliverStep, ReadStep, LeaveReadersStep,
     ForwardStep, ForkStep, Zenon
  DEF Next, Step

(* It holds throughout. *)
LEMMA SlotInvariance == Spec => []SlotInv
  BY InitSlot, NextSlot, PTL DEF Spec

(* Under any interleaving of sigaction, signals and forks, everything has its   *)
(* type and release_snapshot never frees a block that the slot, a signal that   *)
(* reads it or an update in progress still points to.                           *)
THEOREM SnapshotsStayLive == Spec => []SnapshotsAreSound
<1>1. ASSUME SlotInv PROVE SnapshotsAreSound
  <2>1. readers \in 0..Cardinality(Threads)
    BY <1>1, ReadingIsFinite, Zenon DEF SlotInv
  <2>2. TypeOK
    BY <1>1, <2>1, Zenon DEF SlotInv, Types, TypeOK, Labels
  <2>3. SnapshotsAreLive
    BY <1>1, Zenon DEF SlotInv, ThreadInv, SnapshotsAreLive
  <2> QED
    BY <2>2, <2>3, Zenon DEF SnapshotsAreSound
<1> QED
  BY <1>1, SlotInvariance, PTL

(* Once owned is published no sigaction takes the bridge out of the kernel: a   *)
(* call that decided for the kernel did so under the lock, before owned.        *)
THEOREM BridgeIsAhead == Spec => BridgeStaysAhead
<1>1. ASSUME SlotInv, [Next]_vars
      PROVE  [owned /\ kernel = Bridge => kernel' = Bridge \/ dead']_vars
  <2>1. ASSUME NEW t \in Threads, InstallDirectly(t) PROVE ~owned
    BY <1>1, <2>1, Zenon DEF InstallDirectly, SlotInv, ThreadInv
  <2>2. ASSUME NEW t \in Threads, Step(t) \/ Deliver(t) \/ Fork(t) \/ Sigaction(t),
               ~InstallDirectly(t)
        PROVE  kernel' = kernel \/ kernel' = Bridge \/ dead'
    BY <2>2, Zenon
    DEF Step, Deliver, Fork, Sigaction, Acquire, QueryFails, LeaveBridge, TakeSnapshot,
        SwapSnapshot, InstallBridge, ReleaseSnapshot, LoadSnapshot, ReadSnapshot,
        LeaveReaders, Forward
  <2> QED
    BY <1>1, <2>1, <2>2, Zenon DEF Next
<1> QED
  BY <1>1, SlotInvariance, PTL DEF Spec, BridgeStaysAhead

(* A refused update puts the action back that it had replaced: the block is     *)
(* still the one that oldact was copied from, and the kernel's action has not   *)
(* changed unless the default action ended the process.                         *)
THEOREM RefusalChangesNothing == Spec => RefusedUpdateChangesNothing
<1>1. ASSUME SlotInv, [Next]_vars
      PROVE  [\A t \in Threads :
                pc[t] = "install" /\ pc'[t] = "undo" =>
                  oldact[t] = (IF current' = Null THEN kernel ELSE block[current']) \/ dead]_vars
  <2>1. ASSUME NEW t \in Threads, pc[t] = "install", pc'[t] = "undo"
        PROVE  InstallBridge(t)
    <3>1. ASSUME NEW u \in Threads, Step(u) \/ Deliver(u) \/ Sigaction(u)
          PROVE  u = t /\ InstallBridge(t)
      <4>1. \E l \in Labels : pc' = [pc EXCEPT ![u] = l]
        BY <3>1, Zenon
        DEF Labels, Step, Deliver, Sigaction, Acquire, InstallDirectly, QueryFails, LeaveBridge,
            TakeSnapshot, SwapSnapshot, InstallBridge, ReleaseSnapshot, LoadSnapshot,
            ReadSnapshot, LeaveReaders, Forward, Return, Goto
      <4>2. u = t
        BY <1>1, <2>1, <4>1, Zenon DEF SlotInv, Types
      <4> QED
        BY <2>1, <3>1, <4>2
        DEF Step, Deliver, Sigaction, Acquire, InstallDirectly, QueryFails, LeaveBridge,
            TakeSnapshot, SwapSnapshot, ReleaseSnapshot, LoadSnapshot,
            ReadSnapshot, LeaveReaders, Forward
    <3>2. ASSUME NEW u \in Threads, Fork(u) PROVE FALSE
      BY <2>1, <3>2, Zenon DEF Fork, ForkLocals
    <3>3. ~UNCHANGED vars
      BY <2>1, Zenon DEF vars
    <3> QED
      BY <1>1, <3>1, <3>2, <3>3, ZenonT(30) DEF Next
  <2>2. ASSUME NEW t \in Threads, pc[t] = "install", pc'[t] = "undo"
        PROVE  oldact[t] = (IF current' = Null THEN kernel ELSE block[current']) \/ dead
    <3>1. InstallBridge(t) /\ Types /\ ThreadInv(t)
      BY <1>1, <2>1, <2>2, Zenon DEF SlotInv
    <3>2. "undo" # "release"
      BY Zenon
    <3>3. current' = previous[t]
      BY <2>2, <3>1, <3>2, Zenon DEF InstallBridge, Goto, Types
    <3> QED
      BY <2>2, <3>1, <3>3, Zenon DEF ThreadInv, InForce
  <2> QED
    BY <2>2, Zenon
<1> QED
  BY <1>1, SlotInvariance, PTL DEF Spec, RefusedUpdateChangesNothing

-----------------------------------------------------------------------------
(* malloc and free before the real ones are known *)

(* Where an interposed call can be, and its record. *)
FrameLabels ==
  {"real", "key", "publish", "mark", "dlsym", "pool", "caller", "scan", "ring", "call"}

FrameRecord ==
  [fn : Interposed, arg : Nat, win32u : BOOLEAN, pc : FrameLabels, key : Keys \cup {NoKey}]

(* A call that got past is_bootstrap_ptr is of a heap block, only a thread that  *)
(* is about to publish a key holds one, and a call from win32u is classified so. *)
FrameOK(fr, ld) ==
  /\ fr \in FrameRecord
  /\ fr.fn = "free" /\ fr.pc # "real" => ~(fr.arg < PoolSize)
  /\ fr.key # NoKey => fr.pc = "publish"
  /\ fr.win32u => ld
  /\ fr.pc = "ring" => fr.win32u
  /\ fr.pc = "call" => ~fr.win32u

(* Keys of a call of thread t, for the published keys ks, the live keys lk, the  *)
(* marks ms: a created key is live and not published, and a call inside dlsym    *)
(* has its thread marked, unless keys cannot be had.                             *)
KeyOK(fr, t, ks, lk, ms, kf) ==
  /\ fr.pc = "publish" => fr.key \in lk /\ fr.key # NoKey /\ \A f \in Interposed : ks[f] # fr.key
  /\ fr.pc \in {"mark", "dlsym"} /\ ~kf => ks[fr.fn] # NoKey
  /\ fr.pc = "dlsym" /\ ~kf => <<ks[fr.fn], t>> \in ms

(* A thread's calls: all but the innermost are inside dlsym, and no two of them  *)
(* for one function.                                                             *)
StackOK(s, t, ks, lk, ms, kf, ld) ==
  /\ s \in Seq(FrameRecord)
  /\ \A i \in 1..Len(s) : FrameOK(s[i], ld) /\ KeyOK(s[i], t, ks, lk, ms, kf)
  /\ \A i \in 1..(Len(s) - 1) : s[i].pc = "dlsym"
  /\ ~kf => \A i, j \in 1..Len(s) :
       s[i].pc = "dlsym" /\ s[j].pc = "dlsym" /\ s[i].fn = s[j].fn => i = j

(* The keys that calls of a stack created and have not published. *)
KeysOf(s) == {s[i].key : i \in 1..Len(s)} \ {NoKey}

(* Published keys are live, and no two functions or calls have the same. *)
KeysAreOwn ==
  /\ key \in [Interposed -> Keys \cup {NoKey}] /\ live_keys \subseteq Keys
  /\ \A f \in Interposed : key[f] # NoKey => key[f] \in live_keys
  /\ \A f, g \in Interposed : f # g /\ key[f] # NoKey => key[f] # key[g]
  /\ \A t, u \in Allocators : t # u => KeysOf(frames[t]) \cap KeysOf(frames[u]) = {}
  /\ \A k \in live_keys : \/ \E f \in Interposed : key[f] = k
                          \/ alloc_forked
                          \/ \E t \in Allocators : k \in KeysOf(frames[t])

(* Every block ends where the next one begins, or before. *)
PoolIsApart ==
  /\ pool_offset \in Nat /\ blocks \subseteq Nat \X Nat /\ heap_frees = {}
  /\ \A b \in blocks : b[1] + b[2] <= PoolSize /\ b[1] + b[2] <= pool_offset
  /\ \A b, c \in blocks : b # c => b[1] + b[2] <= c[1] \/ c[1] + c[2] <= b[1]

(* The calls of every thread. *)
FramesAreOK ==
  /\ DOMAIN frames = Allocators /\ frames \in [Allocators -> Seq(FrameRecord)]
  /\ \A t \in Allocators : StackOK(frames[t], t, key, live_keys, marks, keys_fail, loaded)

(* The inductive invariant of malloc and free. *)
AllocInv == KeysAreOwn /\ PoolIsApart /\ FramesAreOK /\ loaded \in BOOLEAN

-----------------------------------------------------------------------------
(* Stacks of calls. *)

(* The first n calls. *)
LEMMA FirstOf ==
  ASSUME NEW S, NEW s \in Seq(S), NEW n \in Nat, n <= Len(s)
  PROVE  /\ SubSeq(s, 1, n) \in Seq(S) /\ Len(SubSeq(s, 1, n)) = n
         /\ \A i \in 1..n : SubSeq(s, 1, n)[i] = s[i]
  BY SMT

(* The calls below the innermost one. *)
LEMMA FrontOf ==
  ASSUME NEW S, NEW s \in Seq(S), s # <<>>
  PROVE  /\ Outer(s) \in Seq(S) /\ Len(s) \in Nat \ {0} /\ Len(Outer(s)) = Len(s) - 1
         /\ \A i \in 1..(Len(s) - 1) : Outer(s)[i] = s[i]
         /\ Innermost(s) = s[Len(s)] /\ Innermost(s) \in S
<1> DEFINE n == Len(s) - 1
<1>1. Len(s) \in Nat \ {0} /\ n \in Nat /\ n <= Len(s)
  BY SMT
<1>2. Outer(s) = SubSeq(s, 1, n) /\ Innermost(s) = s[Len(s)]
  BY Zenon DEF Outer, Innermost
<1>3. s[Len(s)] \in S
  BY <1>1, SMT
<1> HIDE DEF n
<1>4. SubSeq(s, 1, n) \in Seq(S) /\ Len(SubSeq(s, 1, n)) = n /\ \A i \in 1..n : SubSeq(s, 1, n)[i] = s[i]
  BY <1>1, FirstOf, SMT
<1> QED
  BY <1>1, <1>2, <1>3, <1>4, Zenon DEF n

(* A call inside the innermost one. *)
LEMMA AppendOf ==
  ASSUME NEW S, NEW s \in Seq(S), NEW x \in S
  PROVE  /\ Append(s, x) \in Seq(S) /\ Len(Append(s, x)) = Len(s) + 1 /\ Len(s) \in Nat
         /\ Append(s, x)[Len(s) + 1] = x
         /\ \A i \in 1..Len(s) : Append(s, x)[i] = s[i]
  BY SMT

(* It is the innermost one then. *)
LEMMA LastOfAppend ==
  ASSUME NEW S, NEW s \in Seq(S), NEW x \in S
  PROVE  Innermost(Append(s, x)) = x /\ Append(s, x) # <<>>
<1>1. Len(Append(s, x)) = Len(s) + 1 /\ Append(s, x)[Len(s) + 1] = x
  BY AppendOf, Zenon
<1>2. Len(s) + 1 # Len(<<>>)
  BY SMT
<1> QED
  BY <1>1, <1>2, Zenon DEF Innermost

(* The last index is the only new one. *)
LEMMA LastIndex ==
  ASSUME NEW n \in Nat, NEW i \in 1..(n + 1)
  PROVE  i \in 1..n \/ i = n + 1
  BY SMT

(* Indices below the innermost call are indices. *)
LEMMA LowerIndex ==
  ASSUME NEW n \in Nat \ {0}
  PROVE  /\ \A i \in 1..(n - 1) : i \in 1..n /\ i # n
         /\ \A i \in 1..(n - 1 - 1) : i \in 1..(n - 1)
         /\ n \in 1..n
  BY SMT

(* Returning from the innermost call. *)
LEMMA StackFront ==
  ASSUME NEW s, NEW t, NEW ks, NEW lk, NEW ms, NEW kf, NEW ld,
         StackOK(s, t, ks, lk, ms, kf, ld), s # <<>>
  PROVE  /\ StackOK(Outer(s), t, ks, lk, ms, kf, ld)
         /\ \A i \in 1..Len(Outer(s)) : Outer(s)[i].pc = "dlsym"
<1> DEFINE r == Outer(s)
<1>1. s \in Seq(FrameRecord)
  BY Zenon DEF StackOK
<1>2. /\ r \in Seq(FrameRecord) /\ Len(s) \in Nat \ {0} /\ Len(r) = Len(s) - 1
      /\ \A i \in 1..(Len(s) - 1) : r[i] = s[i]
  BY <1>1, FrontOf, Zenon
<1> HIDE DEF r
<1>3. \A i \in 1..Len(r) : i \in 1..Len(s) /\ r[i] = s[i] /\ s[i].pc = "dlsym"
  BY <1>2, LowerIndex, Zenon DEF StackOK
<1>4. \A i \in 1..(Len(r) - 1) : i \in 1..Len(r)
  BY <1>2, LowerIndex, Zenon
<1>5. \A i \in 1..Len(r) : FrameOK(r[i], ld) /\ KeyOK(r[i], t, ks, lk, ms, kf)
  BY <1>3, Zenon DEF StackOK
<1>6. ASSUME ~kf, NEW i \in 1..Len(r), NEW j \in 1..Len(r),
             r[i].pc = "dlsym", r[j].pc = "dlsym", r[i].fn = r[j].fn
      PROVE  i = j
  BY <1>3, <1>6, Zenon DEF StackOK
<1>7. StackOK(r, t, ks, lk, ms, kf, ld) /\ \A i \in 1..Len(r) : r[i].pc = "dlsym"
  BY <1>2, <1>3, <1>4, <1>5, <1>6, Zenon DEF StackOK
<1> QED
  BY <1>7, Zenon DEF r

(* A new innermost call, or a new state of it. *)
LEMMA StackAppend ==
  ASSUME NEW r, NEW x, NEW t, NEW ks, NEW lk, NEW ms, NEW kf, NEW ld,
         StackOK(r, t, ks, lk, ms, kf, ld), \A i \in 1..Len(r) : r[i].pc = "dlsym",
         FrameOK(x, ld), KeyOK(x, t, ks, lk, ms, kf),
         x.pc = "dlsym" /\ ~kf => \A i \in 1..Len(r) : r[i].fn # x.fn
  PROVE  StackOK(Append(r, x), t, ks, lk, ms, kf, ld)
<1> DEFINE s == Append(r, x)
<1>1. r \in Seq(FrameRecord) /\ x \in FrameRecord
  BY Zenon DEF StackOK, FrameOK
<1>2. /\ s \in Seq(FrameRecord) /\ Len(s) = Len(r) + 1 /\ Len(r) \in Nat
      /\ s[Len(r) + 1] = x /\ \A i \in 1..Len(r) : s[i] = r[i]
  BY <1>1, AppendOf, ZenonT(60)
<1> HIDE DEF s
<1>3. \A i \in 1..Len(s) : i \in 1..Len(r) \/ i = Len(r) + 1
  BY <1>2, LastIndex, Zenon
<1>4. \A i \in 1..(Len(s) - 1) : i \in 1..Len(r)
  BY <1>2, SMT
<1>5. \A i \in 1..Len(s) : FrameOK(s[i], ld) /\ KeyOK(s[i], t, ks, lk, ms, kf)
  BY <1>2, <1>3, Zenon DEF StackOK
<1>6. ASSUME ~kf, NEW i \in 1..Len(s), NEW j \in 1..Len(s),
             s[i].pc = "dlsym", s[j].pc = "dlsym", s[i].fn = s[j].fn
      PROVE  i = j
  <2>1. CASE i \in 1..Len(r) /\ j \in 1..Len(r)
    BY <1>2, <1>6, <2>1, Zenon DEF StackOK
  <2>2. CASE i \in 1..Len(r) /\ j = Len(r) + 1
    BY <1>2, <1>6, <2>2, Zenon
  <2>3. CASE i = Len(r) + 1 /\ j \in 1..Len(r)
    BY <1>2, <1>6, <2>3, Zenon
  <2> QED
    BY <1>3, <2>1, <2>2, <2>3, Zenon
<1>7. StackOK(s, t, ks, lk, ms, kf, ld)
  BY <1>2, <1>4, <1>5, <1>6, Zenon DEF StackOK
<1> QED
  BY <1>7, Zenon DEF s

(* Keys or marks change while the calls stay. *)
LEMMA StackStays ==
  ASSUME NEW s, NEW t, NEW ks, NEW lk, NEW ms, NEW kf, NEW ld, NEW ks2, NEW lk2, NEW ms2,
         StackOK(s, t, ks, lk, ms, kf, ld),
         \A i \in 1..Len(s) : KeyOK(s[i], t, ks2, lk2, ms2, kf)
  PROVE  StackOK(s, t, ks2, lk2, ms2, kf, ld)
  BY Zenon DEF StackOK

(* win32u is loaded while the calls stay. *)
LEMMA StackLoads ==
  ASSUME NEW s, NEW t, NEW ks, NEW lk, NEW ms, NEW kf, NEW ld,
         StackOK(s, t, ks, lk, ms, kf, ld)
  PROVE  StackOK(s, t, ks, lk, ms, kf, TRUE)
<1>1. \A fr : FrameOK(fr, ld) => FrameOK(fr, TRUE)
  BY Zenon DEF FrameOK
<1>2. \A i \in 1..Len(s) : FrameOK(s[i], TRUE)
  BY <1>1, Zenon DEF StackOK
<1> QED
  BY <1>2, Zenon DEF StackOK

(* The empty stack, and the calls under a call inside dlsym. *)
LEMMA StackEnds ==
  ASSUME NEW s, NEW t, NEW ks, NEW lk, NEW ms, NEW kf, NEW ld
  PROVE  /\ s = <<>> => StackOK(s, t, ks, lk, ms, kf, ld) /\ \A i \in 1..Len(s) : s[i].pc = "dlsym"
         /\ StackOK(s, t, ks, lk, ms, kf, ld) /\ s # <<>> /\ Innermost(s).pc = "dlsym" =>
              \A i \in 1..Len(s) : s[i].pc = "dlsym"
<1>1. ASSUME s = <<>> PROVE StackOK(s, t, ks, lk, ms, kf, ld) /\ \A i \in 1..Len(s) : s[i].pc = "dlsym"
  <2>1. s \in Seq(FrameRecord) /\ (\A i \in 1..Len(s) : FALSE) /\ \A i \in 1..(Len(s) - 1) : FALSE
    BY <1>1, SMT
  <2> QED
    BY <2>1, Zenon DEF StackOK
<1>2. ASSUME StackOK(s, t, ks, lk, ms, kf, ld), s # <<>>, Innermost(s).pc = "dlsym", NEW i \in 1..Len(s)
      PROVE  s[i].pc = "dlsym"
  <2>1. s \in Seq(FrameRecord)
    BY <1>2, Zenon DEF StackOK
  <2>2. Len(s) \in Nat \ {0} /\ Innermost(s) = s[Len(s)]
    BY <1>2, <2>1, FrontOf, Zenon
  <2>3. i = Len(s) \/ i \in 1..(Len(s) - 1)
    BY <2>2, SMT
  <2> QED
    BY <1>2, <2>2, <2>3, Zenon DEF StackOK
<1> QED
  BY <1>1, <1>2, Zenon

(* Only the innermost call can hold a key. *)
LEMMA KeysOfStack ==
  ASSUME NEW s, NEW t, NEW ks, NEW lk, NEW ms, NEW kf, NEW ld,
         StackOK(s, t, ks, lk, ms, kf, ld)
  PROVE  /\ (\A i \in 1..Len(s) : s[i].pc = "dlsym") => KeysOf(s) = {}
         /\ s # <<>> => KeysOf(s) = {Innermost(s).key} \ {NoKey}
<1>1. s \in Seq(FrameRecord) /\ \A i \in 1..Len(s) : s[i].pc # "publish" => s[i].key = NoKey
  BY Zenon DEF StackOK, FrameOK
<1>2. (\A i \in 1..Len(s) : s[i].pc = "dlsym") => KeysOf(s) = {}
  BY <1>1, Zenon DEF KeysOf
<1>3. ASSUME s # <<>> PROVE KeysOf(s) = {Innermost(s).key} \ {NoKey}
  <2>1. Len(s) \in Nat \ {0} /\ Innermost(s) = s[Len(s)]
    BY <1>1, <1>3, FrontOf, Zenon
  <2>2. Len(s) \in 1..Len(s) /\ \A i \in 1..Len(s) : i = Len(s) \/ i \in 1..(Len(s) - 1)
    BY <2>1, SMT
  <2>3. \A i \in 1..(Len(s) - 1) : i \in 1..Len(s) /\ s[i].pc = "dlsym"
    BY <2>1, LowerIndex, Zenon DEF StackOK
  <2>4. \A i \in 1..Len(s) : i = Len(s) \/ s[i].key = NoKey
    BY <1>1, <2>2, <2>3, Zenon
  <2> QED
    BY <2>1, <2>2, <2>4, Zenon DEF KeysOf
<1> QED
  BY <1>2, <1>3, Zenon
(* What the invariant says of a thread with a call. *)
LEMMA TopOf ==
  ASSUME AllocInv, NEW t \in Allocators, frames[t] # <<>>
  PROVE  /\ StackOK(Outer(frames[t]), t, key, live_keys, marks, keys_fail, loaded)
         /\ \A i \in 1..Len(Outer(frames[t])) : Outer(frames[t])[i].pc = "dlsym"
         /\ FrameOK(Top(t), loaded) /\ KeyOK(Top(t), t, key, live_keys, marks, keys_fail)
         /\ Top(t) \in FrameRecord /\ KeysOf(frames[t]) = {Top(t).key} \ {NoKey}
         /\ ~keys_fail /\ Top(t).pc = "dlsym" =>
              \A i \in 1..Len(Outer(frames[t])) : Outer(frames[t])[i].fn # Top(t).fn
<1> DEFINE s == frames[t]
           r == Outer(s)
<1>1. StackOK(s, t, key, live_keys, marks, keys_fail, loaded)
  BY Zenon DEF AllocInv, FramesAreOK
<1> HIDE DEF s
<1>2. s # <<>> /\ Top(t) = Innermost(s)
  BY Zenon DEF s, Top
<1>3. s \in Seq(FrameRecord)
  BY <1>1, Zenon DEF StackOK
<1>4. /\ Len(s) \in Nat \ {0} /\ Len(r) = Len(s) - 1 /\ \A i \in 1..(Len(s) - 1) : r[i] = s[i]
      /\ Innermost(s) = s[Len(s)] /\ Innermost(s) \in FrameRecord
  BY <1>2, <1>3, FrontOf, Zenon
<1>5. /\ StackOK(r, t, key, live_keys, marks, keys_fail, loaded) /\ \A i \in 1..Len(r) : r[i].pc = "dlsym"
      /\ KeysOf(s) = {Innermost(s).key} \ {NoKey}
  BY <1>1, <1>2, StackFront, KeysOfStack, Zenon
<1>6. Len(s) \in 1..Len(s)
  BY <1>4, LowerIndex, Zenon
<1>7. FrameOK(Innermost(s), loaded) /\ KeyOK(Innermost(s), t, key, live_keys, marks, keys_fail)
  BY <1>1, <1>4, <1>6, Zenon DEF StackOK
<1> HIDE DEF r
<1>8. ASSUME ~keys_fail, Innermost(s).pc = "dlsym", NEW i \in 1..Len(r) PROVE r[i].fn # Innermost(s).fn
  <2>1. i \in 1..Len(s) /\ i # Len(s) /\ r[i] = s[i] /\ s[i].pc = "dlsym"
    BY <1>4, <1>5, LowerIndex, Zenon
  <2> QED
    BY <1>1, <1>4, <1>6, <1>8, <2>1, Zenon DEF StackOK
<1> QED
  BY <1>2, <1>4, <1>5, <1>7, <1>8, Zenon DEF s, r

(* What a step that gives thread t the calls s does. *)
LEMMA FramesOfStep ==
  ASSUME AllocInv, NEW t \in Allocators, NEW s, frames' = [frames EXCEPT ![t] = s],
         keys_fail' = keys_fail,
         StackOK(s, t, key', live_keys', marks', keys_fail, loaded'),
         \A u \in Allocators \ {t} : StackOK(frames[u], u, key', live_keys', marks', keys_fail, loaded')
  PROVE  FramesAreOK' /\ frames'[t] = s /\ \A u \in Allocators \ {t} : frames'[u] = frames[u]
<1>1. frames \in [Allocators -> Seq(FrameRecord)] /\ s \in Seq(FrameRecord)
  BY Zenon DEF AllocInv, FramesAreOK, StackOK
<1>2. /\ frames' \in [Allocators -> Seq(FrameRecord)] /\ DOMAIN frames' = Allocators
      /\ frames'[t] = s /\ \A u \in Allocators \ {t} : frames'[u] = frames[u]
  BY <1>1, Zenon
<1>3. ASSUME NEW u \in Allocators
      PROVE  StackOK(frames'[u], u, key', live_keys', marks', keys_fail', loaded')
  <2>1. CASE u = t
    BY <1>2, <2>1, Zenon
  <2>2. CASE u # t
    BY <1>2, <2>2, Zenon
  <2> QED
    BY <2>1, <2>2, Zenon
<1> QED
  BY <1>2, <1>3, Zenon DEF FramesAreOK

(* Keys while no thread gets or loses one. *)
LEMMA KeysStay ==
  ASSUME KeysAreOwn, NEW t \in Allocators, key' = key, live_keys' = live_keys,
         alloc_forked' = alloc_forked, \A u \in Allocators \ {t} : frames'[u] = frames[u],
         KeysOf(frames'[t]) = {}, KeysOf(frames[t]) = {}
  PROVE  KeysAreOwn'
<1>1. \A u \in Allocators : KeysOf(frames'[u]) = KeysOf(frames[u])
  <2> SUFFICES ASSUME NEW u \in Allocators PROVE KeysOf(frames'[u]) = KeysOf(frames[u])
    BY Zenon
  <2>1. CASE u = t
    BY <2>1, Zenon
  <2>2. CASE u # t
    BY <2>2, Zenon
  <2> QED
    BY <2>1, <2>2, Zenon
<1>2. \A u, v \in Allocators : u # v => KeysOf(frames'[u]) \cap KeysOf(frames'[v]) = {}
  BY <1>1, Zenon DEF KeysAreOwn
<1>3. \A k \in live_keys' : \/ \E f \in Interposed : key'[f] = k
                            \/ alloc_forked'
                            \/ \E u \in Allocators : k \in KeysOf(frames'[u])
  BY <1>1, Zenon DEF KeysAreOwn
<1> QED
  BY <1>2, <1>3, Zenon DEF KeysAreOwn

(* A call goes on or returns, without a key of its own. *)
LEMMA MoveKeeps ==
  ASSUME AllocInv, NEW t \in Allocators, frames[t] # <<>>, Top(t).pc # "publish",
         key' = key, live_keys' = live_keys, keys_fail' = keys_fail, loaded' = loaded,
         alloc_forked' = alloc_forked,
         StackOK(Outer(frames[t]), t, key, live_keys, marks', keys_fail, loaded),
         \A u \in Allocators \ {t} : StackOK(frames[u], u, key, live_keys, marks', keys_fail, loaded),
         \/ FReturn(t)
         \/ \E g : /\ FSet(t, g) /\ FrameOK(g, loaded) /\ KeyOK(g, t, key, live_keys, marks', keys_fail)
                   /\ g.pc # "publish"
                   /\ g.pc = "dlsym" /\ ~keys_fail =>
                        \A i \in 1..Len(Outer(frames[t])) : Outer(frames[t])[i].fn # g.fn
  PROVE  FramesAreOK' /\ KeysAreOwn'
<1> DEFINE r == Outer(frames[t])
<1>1. /\ \A i \in 1..Len(r) : r[i].pc = "dlsym"
      /\ KeysOf(frames[t]) = {Top(t).key} \ {NoKey} /\ FrameOK(Top(t), loaded)
  BY TopOf, Zenon
<1>2. KeysOf(frames[t]) = {}
  BY <1>1, Zenon DEF FrameOK
<1>3. StackOK(r, t, key, live_keys, marks', keys_fail, loaded)
  BY Zenon
<1>4. KeysAreOwn
  BY Zenon DEF AllocInv
<1> HIDE DEF r
<1>5. ASSUME NEW s, frames' = [frames EXCEPT ![t] = s], KeysOf(s) = {},
             StackOK(s, t, key, live_keys, marks', keys_fail, loaded)
      PROVE  FramesAreOK' /\ KeysAreOwn'
  <2>1. FramesAreOK' /\ frames'[t] = s /\ \A u \in Allocators \ {t} : frames'[u] = frames[u]
    BY <1>5, FramesOfStep, Zenon
  <2>2. KeysOf(frames'[t]) = {}
    BY <1>5, <2>1, Zenon
  <2> QED
    BY <1>2, <1>4, <2>1, <2>2, KeysStay, Zenon
<1>6. CASE FReturn(t)
  <2>1. frames' = [frames EXCEPT ![t] = r]
    BY <1>6, Zenon DEF FReturn, r
  <2>2. KeysOf(r) = {}
    BY <1>1, <1>3, KeysOfStack, Zenon
  <2> QED
    BY <1>3, <1>5, <2>1, <2>2, Zenon
<1>7. ASSUME NEW g, FSet(t, g), FrameOK(g, loaded), KeyOK(g, t, key, live_keys, marks', keys_fail),
             g.pc # "publish", g.pc = "dlsym" /\ ~keys_fail => \A i \in 1..Len(r) : r[i].fn # g.fn
      PROVE  FramesAreOK' /\ KeysAreOwn'
  <2> DEFINE s == Append(r, g)
  <2>1. frames' = [frames EXCEPT ![t] = s]
    BY <1>7, Zenon DEF FSet, r
  <2>2. StackOK(s, t, key, live_keys, marks', keys_fail, loaded)
    BY <1>1, <1>3, <1>7, StackAppend, Zenon
  <2>3. r \in Seq(FrameRecord) /\ g \in FrameRecord
    BY <1>3, <1>7, Zenon DEF StackOK, FrameOK
  <2>4. Innermost(s) = g /\ s # <<>>
    BY <2>3, LastOfAppend, Zenon
  <2> HIDE DEF s
  <2>5. KeysOf(s) = {g.key} \ {NoKey}
    BY <2>2, <2>4, KeysOfStack, Zenon
  <2>6. KeysOf(s) = {}
    BY <1>7, <2>5, Zenon DEF FrameOK
  <2> QED
    BY <1>5, <2>1, <2>2, <2>6, Zenon
<1> QED
  BY <1>6, <1>7, Zenon DEF r

(* A call goes on with a new label. *)
LEMMA SetPc ==
  ASSUME NEW fr \in FrameRecord, NEW l \in FrameLabels
  PROVE  /\ [fr EXCEPT !.pc = l] \in FrameRecord /\ [fr EXCEPT !.pc = l].pc = l
         /\ [fr EXCEPT !.pc = l].fn = fr.fn /\ [fr EXCEPT !.pc = l].arg = fr.arg
         /\ [fr EXCEPT !.pc = l].win32u = fr.win32u /\ [fr EXCEPT !.pc = l].key = fr.key
  BY Zenon DEF FrameRecord

-----------------------------------------------------------------------------
(* malloc and free, step by step. *)

(* The steps of a call that has no key of its own: it returns, or goes on with a *)
(* label that fits.                                                               *)
LEMMA GoMoves ==
  ASSUME AllocInv, NEW t \in Allocators, frames[t] # <<>>, Top(t).pc # "publish",
         key' = key, live_keys' = live_keys, keys_fail' = keys_fail, loaded' = loaded,
         alloc_forked' = alloc_forked,
         StackOK(Outer(frames[t]), t, key, live_keys, marks', keys_fail, loaded),
         \A u \in Allocators \ {t} : StackOK(frames[u], u, key, live_keys, marks', keys_fail, loaded),
         \/ FReturn(t)
         \/ \E l \in FrameLabels \ {"publish", "dlsym"} :
              /\ FGo(t, l)
              /\ Top(t).fn = "free" => ~(Top(t).arg < PoolSize)
              /\ l = "mark" /\ ~keys_fail => key[Top(t).fn] # NoKey
              /\ l = "ring" => Top(t).win32u
              /\ l = "call" => ~Top(t).win32u
  PROVE  FramesAreOK' /\ KeysAreOwn'
<1>1. FrameOK(Top(t), loaded) /\ Top(t) \in FrameRecord
  BY TopOf, Zenon
<1>2. CASE FReturn(t)
  BY <1>2, MoveKeeps, Zenon
<1>3. ASSUME NEW l \in FrameLabels \ {"publish", "dlsym"}, FGo(t, l),
             Top(t).fn = "free" => ~(Top(t).arg < PoolSize),
             l = "mark" /\ ~keys_fail => key[Top(t).fn] # NoKey,
             l = "ring" => Top(t).win32u, l = "call" => ~Top(t).win32u
      PROVE  FramesAreOK' /\ KeysAreOwn'
  <2> DEFINE g == [Top(t) EXCEPT !.pc = l]
  <2>1. /\ g \in FrameRecord /\ g.pc = l /\ g.fn = Top(t).fn /\ g.arg = Top(t).arg
        /\ g.win32u = Top(t).win32u /\ g.key = Top(t).key
    BY <1>1, <1>3, SetPc, Zenon
  <2>2. FSet(t, g)
    BY <1>3, Zenon DEF FGo
  <2> HIDE DEF g
  <2>3. g.key = NoKey
    BY <1>1, <2>1, Zenon DEF FrameOK
  <2>4. FrameOK(g, loaded)
    BY <1>1, <1>3, <2>1, <2>3, Zenon DEF FrameOK
  <2>5. KeyOK(g, t, key, live_keys, marks', keys_fail)
    BY <1>3, <2>1, Zenon DEF KeyOK
  <2>6. g.pc # "publish" /\ g.pc # "dlsym"
    BY <1>3, <2>1, Zenon
  <2> QED
    BY <2>2, <2>4, <2>5, <2>6, MoveKeeps, Zenon
<1> QED
  BY <1>2, <1>3, Zenon

(* The same where keys and marks stay. *)
LEMMA GoKeeps ==
  ASSUME AllocInv, NEW t \in Allocators, frames[t] # <<>>, Top(t).pc # "publish",
         UNCHANGED keyVars, loaded' = loaded, alloc_forked' = alloc_forked,
         \/ FReturn(t)
         \/ \E l \in FrameLabels \ {"publish", "dlsym"} :
              /\ FGo(t, l)
              /\ Top(t).fn = "free" => ~(Top(t).arg < PoolSize)
              /\ l = "mark" /\ ~keys_fail => key[Top(t).fn] # NoKey
              /\ l = "ring" => Top(t).win32u
              /\ l = "call" => ~Top(t).win32u
  PROVE  FramesAreOK' /\ KeysAreOwn'
<1>1. key' = key /\ live_keys' = live_keys /\ marks' = marks /\ keys_fail' = keys_fail
  BY Zenon DEF keyVars
<1>2. StackOK(Outer(frames[t]), t, key, live_keys, marks', keys_fail, loaded)
  BY <1>1, TopOf, Zenon
<1>3. \A u \in Allocators \ {t} : StackOK(frames[u], u, key, live_keys, marks', keys_fail, loaded)
  BY <1>1, Zenon DEF AllocInv, FramesAreOK
<1> QED
  BY <1>1, <1>2, <1>3, GoMoves, Zenon

(* A label read from the innermost call. *)
LEMMA AtLabel ==
  ASSUME NEW t, NEW l, InFrame(t, l)
  PROVE  frames[t] # <<>> /\ Top(t).pc = l
  BY Zenon DEF InFrame, Top

(* is_bootstrap_ptr: what goes on is a heap block. *)
LEMMA LoadRealKeeps ==
  ASSUME AllocInv, NEW t \in Allocators, LoadReal(t)
  PROVE  FramesAreOK' /\ KeysAreOwn'
<1>1. frames[t] # <<>> /\ Top(t).pc = "real"
  BY AtLabel, Zenon DEF LoadReal
<1>2. UNCHANGED keyVars /\ loaded' = loaded /\ alloc_forked' = alloc_forked
  BY Zenon DEF LoadReal, rangeVars
<1>3. \/ FReturn(t)
      \/ ~(Top(t).fn = "free" /\ Top(t).arg < PoolSize) /\ (FGo(t, "caller") \/ FGo(t, "key"))
  BY Zenon DEF LoadReal
<1>4. "caller" \in FrameLabels \ {"publish", "dlsym"} /\ "key" \in FrameLabels \ {"publish", "dlsym"}
  BY Zenon DEF FrameLabels
<1>5. CASE FReturn(t)
  BY <1>1, <1>2, <1>5, GoKeeps, Zenon
<1>6. CASE ~(Top(t).fn = "free" /\ Top(t).arg < PoolSize) /\ FGo(t, "caller")
  BY <1>1, <1>2, <1>4, <1>6, GoKeeps, Zenon
<1>7. CASE ~(Top(t).fn = "free" /\ Top(t).arg < PoolSize) /\ FGo(t, "key")
  BY <1>1, <1>2, <1>4, <1>7, GoKeeps, Zenon
<1> QED
  BY <1>3, <1>5, <1>6, <1>7, Zenon

(* The call of a function whose label is past is_bootstrap_ptr. *)
LEMMA PastPointerCheck ==
  ASSUME AllocInv, NEW t \in Allocators, frames[t] # <<>>, Top(t).pc # "real"
  PROVE  Top(t).fn = "free" => ~(Top(t).arg < PoolSize)
  BY TopOf, Zenon DEF FrameOK

(* caller_from_win32u. *)
LEMMA CallerKeeps ==
  ASSUME AllocInv, NEW t \in Allocators, ClassifyCaller(t) \/ ScanImages(t)
  PROVE  FramesAreOK' /\ KeysAreOwn'
<1>1. frames[t] # <<>> /\ Top(t).pc \in {"caller", "scan"}
  BY AtLabel, Zenon DEF ClassifyCaller, ScanImages
<1>2. UNCHANGED keyVars /\ loaded' = loaded /\ alloc_forked' = alloc_forked
  BY Zenon DEF ClassifyCaller, ScanImages
<1>3. Top(t).win32u => loaded
  BY <1>1, TopOf, Zenon DEF FrameOK
<1>4. \/ FGo(t, "ring") /\ Top(t).win32u
      \/ FGo(t, "call") /\ ~Top(t).win32u
      \/ FGo(t, "scan")
  BY <1>3, Zenon DEF ClassifyCaller, ScanImages
<1>5. {"ring", "call", "scan"} \subseteq FrameLabels \ {"publish", "dlsym"}
  BY Zenon DEF FrameLabels
<1>6. Top(t).fn = "free" => ~(Top(t).arg < PoolSize)
  BY <1>1, PastPointerCheck, Zenon
<1>7. Top(t).pc # "publish"
  BY <1>1, Zenon
<1>8. CASE FGo(t, "ring") /\ Top(t).win32u
  BY <1>1, <1>2, <1>5, <1>6, <1>7, <1>8, GoKeeps, Zenon
<1>9. CASE FGo(t, "call") /\ ~Top(t).win32u
  BY <1>1, <1>2, <1>5, <1>6, <1>7, <1>9, GoKeeps, Zenon
<1>10. CASE FGo(t, "scan")
  BY <1>1, <1>2, <1>5, <1>6, <1>7, <1>10, GoKeeps, Zenon
<1> QED
  BY <1>4, <1>8, <1>9, <1>10, Zenon

(* bootstrap_alloc and the real function return. *)
LEMMA ReturnKeeps ==
  ASSUME AllocInv, NEW t \in Allocators, BootstrapAlloc(t) \/ CallReal(t)
  PROVE  FramesAreOK' /\ KeysAreOwn'
<1>1. frames[t] # <<>> /\ Top(t).pc \in {"pool", "call", "ring"}
  BY AtLabel, Zenon DEF BootstrapAlloc, CallReal
<1>2. UNCHANGED keyVars /\ loaded' = loaded /\ alloc_forked' = alloc_forked
  BY Zenon DEF BootstrapAlloc, CallReal, rangeVars
<1>3. FReturn(t) /\ Top(t).pc # "publish"
  BY <1>1, Zenon DEF BootstrapAlloc, CallReal
<1> QED
  BY <1>1, <1>2, <1>3, GoKeeps, Zenon

(* Marks of one more call. *)
LEMMA MoreMarks ==
  ASSUME NEW s, NEW t, NEW ks, NEW lk, NEW ms, NEW kf, NEW ld, NEW ms2, ms \subseteq ms2,
         StackOK(s, t, ks, lk, ms, kf, ld)
  PROVE  StackOK(s, t, ks, lk, ms2, kf, ld)
<1>1. \A i \in 1..Len(s) : KeyOK(s[i], t, ks, lk, ms2, kf)
  BY Zenon DEF StackOK, KeyOK
<1> QED
  BY <1>1, StackStays, Zenon

(* A thread enters dlsym for a function only if it is not inside already. *)
LEMMA CheckMarkKeeps ==
  ASSUME AllocInv, NEW t \in Allocators, CheckMark(t)
  PROVE  FramesAreOK' /\ KeysAreOwn'
<1> DEFINE mark == <<key[Top(t).fn], t>>
           r == Outer(frames[t])
<1>1. frames[t] # <<>> /\ Top(t).pc = "mark"
  BY AtLabel, Zenon DEF CheckMark
<1>2. /\ key' = key /\ live_keys' = live_keys /\ keys_fail' = keys_fail
      /\ loaded' = loaded /\ alloc_forked' = alloc_forked
  BY Zenon DEF CheckMark, rangeVars
<1>3. Top(t).fn = "free" => ~(Top(t).arg < PoolSize)
  BY <1>1, PastPointerCheck, Zenon
<1>4. CASE mark \in marks
  <2>1. (FGo(t, "pool") \/ FReturn(t)) /\ UNCHANGED keyVars
    BY <1>2, <1>4, Zenon DEF CheckMark, keyVars
  <2>2. "pool" \in FrameLabels \ {"publish", "dlsym"}
    BY Zenon DEF FrameLabels
  <2> QED
    BY <1>1, <1>2, <1>3, <2>1, <2>2, GoKeeps, Zenon
<1>5. CASE mark \notin marks
  <2>1. /\ StackOK(r, t, key, live_keys, marks, keys_fail, loaded) /\ FrameOK(Top(t), loaded)
        /\ KeyOK(Top(t), t, key, live_keys, marks, keys_fail) /\ Top(t) \in FrameRecord
        /\ \A i \in 1..Len(r) : r[i].pc = "dlsym"
    BY <1>1, TopOf, Zenon
  <2>2. FGo(t, "dlsym") /\ marks' = IF mark[1] = NoKey THEN marks ELSE marks \cup {mark}
    BY <1>5, Zenon DEF CheckMark
  <2>3. mark[1] = key[Top(t).fn]
    BY Zenon
  <2>4. ~keys_fail => key[Top(t).fn] # NoKey
    BY <1>1, <2>1, Zenon DEF KeyOK
  <2>5. marks \subseteq marks' /\ (~keys_fail => mark \in marks')
    <3> HIDE DEF mark
    <3> QED
      BY <2>2, <2>3, <2>4, Zenon
  <2>6. StackOK(r, t, key, live_keys, marks', keys_fail, loaded)
    BY <2>1, <2>5, MoreMarks, Zenon
  <2>7. \A u \in Allocators \ {t} : StackOK(frames[u], u, key, live_keys, marks', keys_fail, loaded)
    <3>1. \A u \in Allocators : StackOK(frames[u], u, key, live_keys, marks, keys_fail, loaded)
      BY Zenon DEF AllocInv, FramesAreOK
    <3> QED
      BY <2>5, <3>1, MoreMarks, Zenon
  <2> DEFINE g == [Top(t) EXCEPT !.pc = "dlsym"]
  <2>8. "dlsym" \in FrameLabels
    BY Zenon DEF FrameLabels
  <2>9. /\ g \in FrameRecord /\ g.pc = "dlsym" /\ g.fn = Top(t).fn /\ g.arg = Top(t).arg
        /\ g.win32u = Top(t).win32u /\ g.key = Top(t).key
    BY <2>1, <2>8, SetPc, Zenon
  <2>10. FSet(t, g)
    BY <2>2, Zenon DEF FGo
  <2> HIDE DEF g
  <2>11. FrameOK(g, loaded)
    BY <1>1, <1>3, <2>1, <2>9, Zenon DEF FrameOK
  <2>12. KeyOK(g, t, key, live_keys, marks', keys_fail)
    BY <2>4, <2>5, <2>9, Zenon DEF KeyOK
  <2>13. ASSUME ~keys_fail, NEW i \in 1..Len(r) PROVE r[i].fn # g.fn
    <3>1. KeyOK(r[i], t, key, live_keys, marks, keys_fail) /\ r[i].pc = "dlsym"
      BY <2>1, Zenon DEF StackOK
    <3>2. <<key[r[i].fn], t>> \in marks
      BY <2>13, <3>1, Zenon DEF KeyOK
    <3> QED
      BY <1>5, <2>9, <3>2, Zenon
  <2>14. g.pc # "publish" /\ (g.pc = "dlsym" /\ ~keys_fail => \A i \in 1..Len(r) : r[i].fn # g.fn)
    BY <2>9, <2>13, Zenon
  <2>15. Top(t).pc # "publish"
    BY <1>1, Zenon
  <2> QED
    BY <1>1, <1>2, <2>6, <2>7, <2>10, <2>11, <2>12, <2>14, <2>15, MoveKeeps, Zenon
<1> QED
  BY <1>4, <1>5, Zenon

(* dlsym returns: the mark that is cleared is this call's alone. *)
LEMMA DlsymKeeps ==
  ASSUME AllocInv, NEW t \in Allocators, DlsymReturns(t)
  PROVE  FramesAreOK' /\ KeysAreOwn'
<1> DEFINE f == Top(t).fn
           r == Outer(frames[t])
<1>1. frames[t] # <<>> /\ Top(t).pc = "dlsym"
  BY AtLabel, Zenon DEF DlsymReturns
<1>2. /\ key' = key /\ live_keys' = live_keys /\ keys_fail' = keys_fail
      /\ loaded' = loaded /\ alloc_forked' = alloc_forked /\ marks' = marks \ {<<key[f], t>>}
  BY Zenon DEF DlsymReturns, rangeVars
<1>3. Top(t).fn = "free" => ~(Top(t).arg < PoolSize)
  BY <1>1, PastPointerCheck, Zenon
<1>4. FReturn(t) \/ FGo(t, "caller") \/ FGo(t, "pool")
  BY Zenon DEF DlsymReturns
<1>5. {"caller", "pool"} \subseteq FrameLabels \ {"publish", "dlsym"} /\ Top(t).pc # "publish"
  BY <1>1, Zenon DEF FrameLabels
<1>6. /\ StackOK(r, t, key, live_keys, marks, keys_fail, loaded) /\ Top(t) \in FrameRecord
      /\ \A i \in 1..Len(r) : r[i].pc = "dlsym"
      /\ ~keys_fail => \A i \in 1..Len(r) : r[i].fn # f
  BY <1>1, TopOf, Zenon
<1>7. f \in Interposed /\ \A i \in 1..Len(r) : r[i].fn \in Interposed
  <2>1. \A fr \in FrameRecord : fr.fn \in Interposed
    BY Zenon DEF FrameRecord
  <2> QED
    BY <1>6, <2>1, Zenon DEF StackOK, FrameOK
<1> HIDE DEF f, r
<1>8. StackOK(r, t, key, live_keys, marks', keys_fail, loaded)
  <2>1. ASSUME NEW i \in 1..Len(r) PROVE KeyOK(r[i], t, key, live_keys, marks', keys_fail)
    <3>1. KeyOK(r[i], t, key, live_keys, marks, keys_fail)
      BY <1>6, Zenon DEF StackOK
    <3>2. ASSUME ~keys_fail PROVE <<key[r[i].fn], t>> \in marks'
      <4>1. <<key[r[i].fn], t>> \in marks /\ key[r[i].fn] # NoKey
        BY <1>6, <3>1, <3>2, Zenon DEF KeyOK
      <4>2. key[r[i].fn] # key[f]
        BY <1>6, <1>7, <3>2, <4>1, Zenon DEF AllocInv, KeysAreOwn
      <4> QED
        BY <1>2, <4>1, <4>2, Zenon
    <3> QED
      BY <3>1, <3>2, Zenon DEF KeyOK
  <2> QED
    BY <1>6, <2>1, StackStays, Zenon
<1>9. ASSUME NEW u \in Allocators \ {t} PROVE StackOK(frames[u], u, key, live_keys, marks', keys_fail, loaded)
  <2>1. StackOK(frames[u], u, key, live_keys, marks, keys_fail, loaded)
    BY Zenon DEF AllocInv, FramesAreOK
  <2>2. \A k : <<k, u>> \in marks => <<k, u>> \in marks'
    BY <1>2, Zenon
  <2>3. \A i \in 1..Len(frames[u]) : KeyOK(frames[u][i], u, key, live_keys, marks', keys_fail)
    BY <2>1, <2>2, Zenon DEF StackOK, KeyOK
  <2> QED
    BY <2>1, <2>3, StackStays, Zenon
<1>10. CASE FReturn(t)
  BY <1>1, <1>2, <1>5, <1>8, <1>9, <1>10, GoMoves, Zenon DEF r
<1>11. CASE FGo(t, "caller")
  BY <1>1, <1>2, <1>3, <1>5, <1>8, <1>9, <1>11, GoMoves, Zenon DEF r
<1>12. CASE FGo(t, "pool")
  BY <1>1, <1>2, <1>3, <1>5, <1>8, <1>9, <1>12, GoMoves, Zenon DEF r
<1> QED
  BY <1>4, <1>10, <1>11, <1>12, Zenon

(* A key that a call holds is live. *)
LEMMA KeysAreLive ==
  ASSUME NEW s, NEW t, NEW ks, NEW lk, NEW ms, NEW kf, NEW ld,
         StackOK(s, t, ks, lk, ms, kf, ld)
  PROVE  KeysOf(s) \subseteq lk
  BY Zenon DEF StackOK, FrameOK, KeyOK, KeysOf

(* g is the call fr at label l with key k. *)
IsFrame(g, fr, l, k) ==
  /\ g \in FrameRecord /\ g.pc = l /\ g.key = k
  /\ g.fn = fr.fn /\ g.arg = fr.arg /\ g.win32u = fr.win32u

(* A call goes on with a new label and a new key. *)
LEMMA SetKey ==
  ASSUME NEW fr \in FrameRecord, NEW l \in FrameLabels, NEW k \in Keys \cup {NoKey}
  PROVE  IsFrame([fr EXCEPT !.pc = l, !.key = k], fr, l, k)
  BY Zenon DEF FrameRecord, IsFrame

(* The innermost call is replaced; the rest of the thread's calls and those of   *)
(* the other threads fit the new keys.                                           *)
LEMMA ReplaceTop ==
  ASSUME AllocInv, NEW t \in Allocators, frames[t] # <<>>, NEW g, FSet(t, g),
         keys_fail' = keys_fail, loaded' = loaded, FrameOK(g, loaded),
         g.pc # "dlsym", KeyOK(g, t, key', live_keys', marks', keys_fail),
         StackOK(Outer(frames[t]), t, key', live_keys', marks', keys_fail, loaded),
         \A u \in Allocators \ {t} : StackOK(frames[u], u, key', live_keys', marks', keys_fail, loaded)
  PROVE  /\ FramesAreOK' /\ KeysOf(frames'[t]) = {g.key} \ {NoKey}
         /\ \A u \in Allocators \ {t} : frames'[u] = frames[u]
<1> DEFINE r == Outer(frames[t])
           s == Append(r, g)
<1>1. \A i \in 1..Len(r) : r[i].pc = "dlsym"
  BY TopOf, Zenon
<1>2. frames' = [frames EXCEPT ![t] = s]
  BY Zenon DEF FSet
<1>3. StackOK(r, t, key', live_keys', marks', keys_fail, loaded)
  BY Zenon
<1> HIDE DEF r
<1>4. StackOK(s, t, key', live_keys', marks', keys_fail, loaded)
  BY <1>1, <1>3, StackAppend, Zenon
<1>5. r \in Seq(FrameRecord) /\ g \in FrameRecord
  BY <1>3, Zenon DEF StackOK, FrameOK
<1>6. Innermost(s) = g /\ s # <<>>
  BY <1>5, LastOfAppend, Zenon
<1> HIDE DEF s
<1>7. KeysOf(s) = {g.key} \ {NoKey}
  BY <1>4, <1>6, KeysOfStack, Zenon
<1>8. FramesAreOK' /\ frames'[t] = s /\ \A u \in Allocators \ {t} : frames'[u] = frames[u]
  BY <1>2, <1>4, FramesOfStep, Zenon
<1> QED
  BY <1>7, <1>8, Zenon

(* More keys are live. *)
LEMMA MoreKeys ==
  ASSUME NEW s, NEW t, NEW ks, NEW lk, NEW ms, NEW kf, NEW ld, NEW lk2, lk \subseteq lk2,
         StackOK(s, t, ks, lk, ms, kf, ld)
  PROVE  StackOK(s, t, ks, lk2, ms, kf, ld)
<1>1. \A i \in 1..Len(s) : KeyOK(s[i], t, ks, lk2, ms, kf)
  BY Zenon DEF StackOK, KeyOK
<1> QED
  BY <1>1, StackStays, Zenon

(* pthread_key, up to the key's creation. *)
LEMMA LoadKeyKeeps ==
  ASSUME AllocInv, NEW t \in Allocators, LoadKey(t)
  PROVE  FramesAreOK' /\ KeysAreOwn'
<1>1. frames[t] # <<>> /\ Top(t).pc # "publish" /\ Top(t).pc # "real"
  <2>1. frames[t] # <<>> /\ Top(t).pc = "key"
    BY AtLabel, Zenon DEF LoadKey
  <2> QED
    BY <2>1, Zenon
<1>2. /\ key' = key /\ marks' = marks /\ keys_fail' = keys_fail
      /\ loaded' = loaded /\ alloc_forked' = alloc_forked
  BY Zenon DEF LoadKey, rangeVars
<1>3. Top(t).fn = "free" => ~(Top(t).arg < PoolSize)
  BY <1>1, PastPointerCheck, Zenon
<1>4. CASE FGo(t, "mark") /\ live_keys' = live_keys /\ (~keys_fail => key[Top(t).fn] # NoKey)
  <2>1. "mark" \in FrameLabels \ {"publish", "dlsym"} /\ UNCHANGED keyVars
    BY <1>2, <1>4, Zenon DEF FrameLabels, keyVars
  <2> QED
    BY <1>1, <1>2, <1>3, <1>4, <2>1, GoKeeps, Zenon
<1>5. ASSUME NEW k \in Keys \ live_keys, live_keys' = live_keys \cup {k},
             FSet(t, [Top(t) EXCEPT !.pc = "publish", !.key = k])
      PROVE  FramesAreOK' /\ KeysAreOwn'
  <2> DEFINE g == [Top(t) EXCEPT !.pc = "publish", !.key = k]
             r == Outer(frames[t])
  <2>1. /\ StackOK(r, t, key, live_keys, marks, keys_fail, loaded) /\ FrameOK(Top(t), loaded)
        /\ Top(t) \in FrameRecord /\ KeysOf(frames[t]) = {Top(t).key} \ {NoKey}
    BY <1>1, TopOf, Zenon
  <2>2. KeysOf(frames[t]) = {}
    BY <1>1, <2>1, Zenon DEF FrameOK
  <2>3. "publish" \in FrameLabels /\ k \in Keys \cup {NoKey} /\ k # NoKey /\ live_keys \subseteq live_keys'
    BY <1>5, BootstrapAssumption, Zenon DEF FrameLabels, BootstrapAssumption
  <2>4. IsFrame(g, Top(t), "publish", k)
    BY <2>1, <2>3, SetKey, Zenon
  <2>5. FSet(t, g)
    BY <1>5, Zenon
  <2> HIDE DEF g
  <2>6. FrameOK(g, loaded)
    BY <1>3, <2>1, <2>4, Zenon DEF FrameOK, IsFrame
  <2>7. KeysAreOwn
    BY Zenon DEF AllocInv
  <2>8. k \in live_keys' /\ \A f \in Interposed : key[f] # k
    BY <1>5, <2>3, <2>7, Zenon DEF KeysAreOwn
  <2>9. KeyOK(g, t, key', live_keys', marks', keys_fail)
    BY <1>2, <2>3, <2>4, <2>8, Zenon DEF KeyOK, IsFrame
  <2>10. StackOK(r, t, key', live_keys', marks', keys_fail, loaded)
    BY <1>2, <2>1, <2>3, MoreKeys, Zenon
  <2>11. \A u \in Allocators : StackOK(frames[u], u, key, live_keys, marks, keys_fail, loaded)
    BY Zenon DEF AllocInv, FramesAreOK
  <2>12. \A u \in Allocators \ {t} : StackOK(frames[u], u, key', live_keys', marks', keys_fail, loaded)
    BY <1>2, <2>3, <2>11, MoreKeys, Zenon
  <2>13. g.pc # "dlsym"
    BY <2>4, Zenon DEF IsFrame
  <2>14. /\ FramesAreOK' /\ KeysOf(frames'[t]) = {g.key} \ {NoKey}
         /\ \A u \in Allocators \ {t} : frames'[u] = frames[u]
    BY <1>1, <1>2, <2>5, <2>6, <2>9, <2>10, <2>12, <2>13, ReplaceTop, Zenon
  <2>15. KeysOf(frames'[t]) = {k}
    BY <2>3, <2>4, <2>14, Zenon DEF IsFrame
  <2>16. \A u \in Allocators : KeysOf(frames[u]) \subseteq live_keys
    BY <2>11, KeysAreLive, Zenon
  <2>17. \A u \in Allocators \ {t} : k \notin KeysOf(frames'[u]) /\ KeysOf(frames'[u]) = KeysOf(frames[u])
    BY <1>5, <2>14, <2>16, Zenon
  <2>18. ASSUME NEW u \in Allocators, NEW v \in Allocators, u # v
         PROVE  KeysOf(frames'[u]) \cap KeysOf(frames'[v]) = {}
    <3>1. CASE u = t
      BY <2>15, <2>17, <2>18, <3>1, Zenon
    <3>2. CASE v = t
      BY <2>15, <2>17, <2>18, <3>2, Zenon
    <3>3. CASE u # t /\ v # t
      BY <2>7, <2>17, <2>18, <3>3, Zenon DEF KeysAreOwn
    <3> QED
      BY <3>1, <3>2, <3>3, Zenon
  <2>19. ASSUME NEW o \in live_keys'
         PROVE  \/ \E f \in Interposed : key'[f] = o
                \/ alloc_forked'
                \/ \E u \in Allocators : o \in KeysOf(frames'[u])
    <3>1. CASE o = k
      BY <2>15, <3>1, Zenon
    <3>2. CASE o \in live_keys
      <4>1. \/ \E f \in Interposed : key[f] = o
            \/ alloc_forked
            \/ \E u \in Allocators : o \in KeysOf(frames[u])
        BY <2>7, <3>2, Zenon DEF KeysAreOwn
      <4>2. ASSUME NEW u \in Allocators, o \in KeysOf(frames[u]) PROVE o \in KeysOf(frames'[u])
        BY <2>2, <2>17, <4>2, Zenon
      <4> QED
        BY <1>2, <4>1, <4>2, Zenon
    <3> QED
      BY <1>5, <3>1, <3>2, Zenon
  <2>20. live_keys' \subseteq Keys /\ \A f \in Interposed : key'[f] # NoKey => key'[f] \in live_keys'
    BY <1>2, <1>5, <2>7, Zenon DEF KeysAreOwn
  <2>21. KeysAreOwn'
    BY <1>2, <2>7, <2>18, <2>19, <2>20, Zenon DEF KeysAreOwn
  <2> QED
    BY <2>14, <2>21, Zenon
<1> QED
  BY <1>4, <1>5, Zenon DEF LoadKey

(* Keys of the calls fit once another call's key is published or deleted. *)
LEMMA KeyGoes ==
  ASSUME AllocInv, NEW t \in Allocators, frames[t] # <<>>, Top(t).pc = "publish",
         NEW ks, NEW lk,
         \/ /\ key[Top(t).fn] = NoKey /\ ks = [key EXCEPT ![Top(t).fn] = Top(t).key] /\ lk = live_keys
         \/ ks = key /\ lk = live_keys \ {Top(t).key},
         NEW s, NEW u, StackOK(s, u, key, live_keys, marks, keys_fail, loaded),
         Top(t).key \notin KeysOf(s)
  PROVE  StackOK(s, u, ks, lk, marks, keys_fail, loaded)
<1> DEFINE f == Top(t).fn
           k == Top(t).key
<1>1. \A i \in 1..Len(s) : s[i].pc = "publish" => s[i].key # k
  BY Zenon DEF StackOK, KeyOK, KeysOf
<1>2. key \in [Interposed -> Keys \cup {NoKey}] /\ \A i \in 1..Len(s) : s[i].fn \in Interposed
  <2>1. \A fr \in FrameRecord : fr.fn \in Interposed
    BY Zenon DEF FrameRecord
  <2> QED
    BY <2>1, Zenon DEF AllocInv, KeysAreOwn, StackOK, FrameOK
<1> HIDE DEF f, k
<1>3. ASSUME NEW i \in 1..Len(s) PROVE KeyOK(s[i], u, ks, lk, marks, keys_fail)
  <2>1. KeyOK(s[i], u, key, live_keys, marks, keys_fail)
    BY Zenon DEF StackOK
  <2>2. CASE ks = key /\ lk = live_keys \ {k}
    BY <1>1, <2>1, <2>2, Zenon DEF KeyOK
  <2>3. CASE key[f] = NoKey /\ ks = [key EXCEPT ![f] = k] /\ lk = live_keys
    <3>1. \A o \in Interposed : (o # f => ks[o] = key[o]) /\ (o = f => ks[o] = k)
      BY <1>2, <2>3, Zenon
    <3>2. ASSUME s[i].pc = "publish"
          PROVE  s[i].key \in lk /\ s[i].key # NoKey /\ \A o \in Interposed : ks[o] # s[i].key
      BY <1>1, <2>1, <2>3, <3>1, <3>2, Zenon DEF KeyOK
    <3>3. ASSUME s[i].pc \in {"mark", "dlsym"}, ~keys_fail
          PROVE  ks[s[i].fn] # NoKey /\ ks[s[i].fn] = key[s[i].fn]
      <4>1. key[s[i].fn] # NoKey
        BY <2>1, <3>3, Zenon DEF KeyOK
      <4> QED
        BY <1>2, <2>3, <3>1, <4>1, Zenon
    <3>4. ASSUME s[i].pc = "dlsym", ~keys_fail PROVE <<ks[s[i].fn], u>> \in marks
      <4>1. ks[s[i].fn] = key[s[i].fn]
        BY <3>3, <3>4, Zenon
      <4>2. <<key[s[i].fn], u>> \in marks
        BY <2>1, <3>4, Zenon DEF KeyOK
      <4> QED
        BY <4>1, <4>2, Zenon
    <3> QED
      BY <3>2, <3>3, <3>4, Zenon DEF KeyOK
  <2> QED
    BY <2>2, <2>3, Zenon DEF f, k
<1> QED
  BY <1>3, StackStays, Zenon

(* pthread_key: the compare_exchange, and the loser's pthread_key_delete. *)
LEMMA PublishKeyKeeps ==
  ASSUME AllocInv, NEW t \in Allocators, PublishKey(t)
  PROVE  FramesAreOK' /\ KeysAreOwn'
<1> DEFINE f == Top(t).fn
           k == Top(t).key
           r == Outer(frames[t])
           g == [Top(t) EXCEPT !.pc = "mark", !.key = NoKey]
<1>1. frames[t] # <<>> /\ Top(t).pc = "publish"
  BY AtLabel, Zenon DEF PublishKey
<1>2. /\ marks' = marks /\ keys_fail' = keys_fail /\ loaded' = loaded /\ alloc_forked' = alloc_forked
  BY Zenon DEF PublishKey, rangeVars
<1>3. \/ key[f] = NoKey /\ key' = [key EXCEPT ![f] = k] /\ live_keys' = live_keys
      \/ key[f] # NoKey /\ key' = key /\ live_keys' = live_keys \ {k}
  BY Zenon DEF PublishKey
<1>4. /\ StackOK(r, t, key, live_keys, marks, keys_fail, loaded) /\ FrameOK(Top(t), loaded)
      /\ KeyOK(Top(t), t, key, live_keys, marks, keys_fail) /\ Top(t) \in FrameRecord
      /\ KeysOf(frames[t]) = {k} \ {NoKey} /\ \A i \in 1..Len(r) : r[i].pc = "dlsym"
  BY <1>1, TopOf, Zenon
<1>5. k \in live_keys /\ k # NoKey /\ \A o \in Interposed : key[o] # k
  BY <1>1, <1>4, Zenon DEF KeyOK
<1>6. KeysOf(frames[t]) = {k} /\ KeysOf(r) = {}
  BY <1>4, <1>5, KeysOfStack, Zenon
<1>7. f \in Interposed
  BY <1>4, Zenon DEF FrameRecord
<1>8. KeysAreOwn /\ \A u \in Allocators : StackOK(frames[u], u, key, live_keys, marks, keys_fail, loaded)
  BY Zenon DEF AllocInv, FramesAreOK
<1>9. \A u \in Allocators \ {t} : k \notin KeysOf(frames[u])
  BY <1>6, <1>8, Zenon DEF KeysAreOwn
<1>10. StackOK(r, t, key', live_keys', marks, keys_fail, loaded)
  BY <1>1, <1>3, <1>4, <1>6, KeyGoes, Zenon
<1>11. \A u \in Allocators \ {t} : StackOK(frames[u], u, key', live_keys', marks, keys_fail, loaded)
  BY <1>1, <1>3, <1>8, <1>9, KeyGoes, Zenon
<1>12. FSet(t, g)
  BY Zenon DEF PublishKey
<1>13. "mark" \in FrameLabels /\ NoKey \in Keys \cup {NoKey}
  BY Zenon DEF FrameLabels
<1>14. Top(t).fn = "free" => ~(Top(t).arg < PoolSize)
  BY <1>1, PastPointerCheck, Zenon
<1>15. IsFrame(g, Top(t), "mark", NoKey)
  BY <1>4, <1>13, SetKey, Zenon
<1> HIDE DEF g
<1>16. FrameOK(g, loaded)
  BY <1>4, <1>14, <1>15, Zenon DEF FrameOK, IsFrame
<1> HIDE DEF f, k, r
<1>17. key \in [Interposed -> Keys \cup {NoKey}] /\ live_keys \subseteq Keys
  BY <1>8, Zenon DEF KeysAreOwn
<1>18. /\ key' \in [Interposed -> Keys \cup {NoKey}] /\ live_keys' \subseteq Keys
       /\ key'[f] # NoKey /\ \A o \in Interposed : o # f => key'[o] = key[o]
  BY <1>3, <1>5, <1>7, <1>17, Zenon
<1>19. KeyOK(g, t, key', live_keys', marks, keys_fail) /\ g.pc # "dlsym"
  <2>1. g.pc = "mark" /\ key'[g.fn] # NoKey
    BY <1>15, <1>18, Zenon DEF IsFrame, f
  <2> QED
    BY <2>1, Zenon DEF KeyOK
<1>20. /\ FramesAreOK' /\ KeysOf(frames'[t]) = {g.key} \ {NoKey}
       /\ \A u \in Allocators \ {t} : frames'[u] = frames[u]
  BY <1>1, <1>2, <1>10, <1>11, <1>12, <1>16, <1>19, ReplaceTop, Zenon DEF r
<1>21. KeysOf(frames'[t]) = {} /\ \A u \in Allocators \ {t} : KeysOf(frames'[u]) = KeysOf(frames[u])
  BY <1>15, <1>20, Zenon DEF IsFrame
<1>22. ASSUME NEW u \in Allocators, NEW v \in Allocators, u # v
       PROVE  KeysOf(frames'[u]) \cap KeysOf(frames'[v]) = {}
  <2>1. CASE u = t
    BY <1>21, <2>1, Zenon
  <2>2. CASE v = t
    BY <1>21, <2>2, Zenon
  <2>3. CASE u # t /\ v # t
    BY <1>8, <1>21, <1>22, <2>3, Zenon DEF KeysAreOwn
  <2> QED
    BY <2>1, <2>2, <2>3, Zenon
<1>23. key'[f] = k \/ (key' = key /\ live_keys' = live_keys \ {k})
  BY <1>3, <1>7, <1>17, Zenon
<1>24. \A o \in Interposed : key'[o] # NoKey => key'[o] \in live_keys'
  <2> SUFFICES ASSUME NEW o \in Interposed, key'[o] # NoKey PROVE key'[o] \in live_keys'
    BY Zenon
  <2>1. CASE key' = key /\ live_keys' = live_keys \ {k}
    BY <1>5, <1>8, <2>1, Zenon DEF KeysAreOwn
  <2>2. CASE key'[f] = k /\ live_keys' = live_keys
    BY <1>5, <1>8, <1>18, <2>2, Zenon DEF KeysAreOwn
  <2> QED
    BY <1>3, <1>23, <2>1, <2>2, Zenon
<1>25. \A o, p \in Interposed : o # p /\ key'[o] # NoKey => key'[o] # key'[p]
  <2> SUFFICES ASSUME NEW o \in Interposed, NEW p \in Interposed, o # p, key'[o] # NoKey
               PROVE  key'[o] # key'[p]
    BY Zenon
  <2>1. CASE key' = key
    BY <1>8, <2>1, Zenon DEF KeysAreOwn
  <2>2. CASE key'[f] = k /\ o = f
    BY <1>5, <1>18, <2>2, Zenon
  <2>3. CASE key'[f] = k /\ p = f
    BY <1>5, <1>18, <2>3, Zenon
  <2>4. CASE o # f /\ p # f
    BY <1>8, <1>18, <2>4, Zenon DEF KeysAreOwn
  <2> QED
    BY <1>23, <2>1, <2>2, <2>3, <2>4, Zenon
<1>26. ASSUME NEW o \in live_keys'
       PROVE  \/ \E q \in Interposed : key'[q] = o
              \/ alloc_forked'
              \/ \E u \in Allocators : o \in KeysOf(frames'[u])
  <2>1. o \in live_keys /\ (o = k => key'[f] = k)
    BY <1>3, <1>23, <1>26, Zenon
  <2>2. CASE o = k
    BY <1>7, <2>1, <2>2, Zenon
  <2>3. CASE o # k
    <3>1. \/ \E q \in Interposed : key[q] = o
          \/ alloc_forked
          \/ \E u \in Allocators : o \in KeysOf(frames[u])
      BY <1>8, <2>1, Zenon DEF KeysAreOwn
    <3>2. ASSUME NEW u \in Allocators, o \in KeysOf(frames[u]) PROVE o \in KeysOf(frames'[u])
      BY <1>6, <1>21, <2>3, <3>2, Zenon
    <3>3. ASSUME NEW q \in Interposed, key[q] = o PROVE key'[q] = o
      <4>1. o # NoKey
        BY <1>17, <2>1, BootstrapAssumption, Zenon DEF BootstrapAssumption
      <4> QED
        BY <1>3, <1>18, <3>3, <4>1, Zenon
    <3> QED
      BY <1>2, <3>1, <3>2, <3>3, Zenon
  <2> QED
    BY <2>2, <2>3, Zenon
<1>27. KeysAreOwn'
  BY <1>18, <1>22, <1>24, <1>25, <1>26, Zenon DEF KeysAreOwn
<1> QED
  BY <1>20, <1>27, Zenon

(* A call begins, the first of its thread or inside dlsym. *)
LEMMA CallKeeps ==
  ASSUME AllocInv, NEW t \in Allocators, CallAllocator(t)
  PROVE  FramesAreOK' /\ KeysAreOwn'
<1> DEFINE r == frames[t]
<1>1. /\ key' = key /\ live_keys' = live_keys /\ marks' = marks /\ keys_fail' = keys_fail
      /\ loaded' = loaded /\ alloc_forked' = alloc_forked
  BY Zenon DEF CallAllocator, keyVars, rangeVars
<1>2. StackOK(r, t, key, live_keys, marks, keys_fail, loaded) /\ KeysAreOwn
  BY Zenon DEF AllocInv, FramesAreOK
<1>3. r = <<>> \/ (r # <<>> /\ Innermost(r).pc = "dlsym")
  BY Zenon DEF CallAllocator, InFrame
<1> HIDE DEF r
<1>4. \A i \in 1..Len(r) : r[i].pc = "dlsym"
  BY <1>2, <1>3, StackEnds, Zenon
<1>5. KeysOf(r) = {}
  BY <1>2, <1>4, KeysOfStack, Zenon
<1>6. \E fn \in Interposed, arg \in Nat, win32u \in {FALSE, loaded} :
        frames' = [frames EXCEPT ![t] = Append(r, Frame(fn, arg, win32u))]
  <2>1. "malloc" \in Interposed /\ "free" \in Interposed
    BY Zenon DEF Interposed
  <2>2. PoolSize \in Nat /\ Sizes \subseteq Nat /\ \A b \in blocks : b[1] \in Nat
    <3>1. \A b \in Nat \X Nat : b[1] \in Nat
      BY SMT
    <3>2. blocks \subseteq Nat \X Nat
      BY Zenon DEF AllocInv, PoolIsApart
    <3> QED
      BY <3>1, <3>2, BootstrapAssumption, Zenon DEF BootstrapAssumption
  <2>3. \/ \E size \in Sizes, win32u \in {FALSE, loaded} :
             frames' = [frames EXCEPT ![t] = Append(r, Frame("malloc", size, win32u))]
        \/ \E b \in blocks : frames' = [frames EXCEPT ![t] = Append(r, Frame("free", b[1], FALSE))]
        \/ \E win32u \in {FALSE, loaded} :
             frames' = [frames EXCEPT ![t] = Append(r, Frame("free", PoolSize, win32u))]
    BY Zenon DEF CallAllocator, r
  <2> QED
    BY <2>1, <2>2, <2>3, Zenon
<1>7. PICK fn \in Interposed, arg \in Nat, win32u \in {FALSE, loaded} :
        frames' = [frames EXCEPT ![t] = Append(r, Frame(fn, arg, win32u))]
  BY <1>6, Zenon
<1> DEFINE x == Frame(fn, arg, win32u)
           s == Append(r, x)
<1>8. x \in FrameRecord /\ x.pc = "real" /\ x.key = NoKey /\ (x.win32u => loaded)
  <2>1. "real" \in FrameLabels /\ NoKey \in Keys \cup {NoKey} /\ win32u \in BOOLEAN /\ (win32u => loaded)
    <3>1. loaded \in BOOLEAN /\ (win32u = FALSE \/ win32u = loaded)
      BY Zenon DEF AllocInv
    <3>2. CASE win32u = FALSE
      BY <3>2, Zenon DEF FrameLabels
    <3>3. CASE win32u = loaded
      BY <3>1, <3>3, Zenon DEF FrameLabels
    <3> QED
      BY <3>1, <3>2, <3>3, Zenon
  <2> QED
    BY <2>1, Zenon DEF Frame, FrameRecord
<1>9. frames' = [frames EXCEPT ![t] = s]
  BY <1>7, Zenon
<1> HIDE DEF x
<1>10. FrameOK(x, loaded) /\ KeyOK(x, t, key, live_keys, marks, keys_fail) /\ x.pc # "dlsym"
  BY <1>8, Zenon DEF FrameOK, KeyOK
<1>11. StackOK(s, t, key, live_keys, marks, keys_fail, loaded)
  BY <1>2, <1>4, <1>10, StackAppend, Zenon
<1>12. r \in Seq(FrameRecord)
  BY <1>2, Zenon DEF StackOK
<1>13. Innermost(s) = x /\ s # <<>>
  BY <1>8, <1>12, LastOfAppend, Zenon
<1> HIDE DEF s
<1>14. KeysOf(s) = {}
  <2>1. KeysOf(s) = {x.key} \ {NoKey}
    BY <1>11, <1>13, KeysOfStack, Zenon
  <2> QED
    BY <1>8, <2>1, Zenon
<1>15. \A u \in Allocators \ {t} : StackOK(frames[u], u, key', live_keys', marks', keys_fail, loaded')
  BY <1>1, Zenon DEF AllocInv, FramesAreOK
<1>16. StackOK(s, t, key', live_keys', marks', keys_fail, loaded')
  BY <1>1, <1>11, Zenon
<1>17. FramesAreOK' /\ frames'[t] = s /\ \A u \in Allocators \ {t} : frames'[u] = frames[u]
  BY <1>1, <1>9, <1>15, <1>16, FramesOfStep, Zenon
<1>18. KeysOf(frames'[t]) = {} /\ KeysOf(frames[t]) = {}
  BY <1>5, <1>14, <1>17, Zenon DEF r
<1> QED
  BY <1>1, <1>2, <1>17, <1>18, KeysStay, Zenon

(* win32u is loaded. *)
LEMMA LoadKeeps ==
  ASSUME AllocInv, LoadWin32uSo
  PROVE  FramesAreOK' /\ KeysAreOwn'
<1>1. /\ key' = key /\ live_keys' = live_keys /\ marks' = marks /\ keys_fail' = keys_fail
      /\ loaded' = TRUE /\ alloc_forked' = alloc_forked /\ frames' = frames
  BY Zenon DEF LoadWin32uSo, keyVars
<1>2. KeysAreOwn'
  BY <1>1, Zenon DEF AllocInv, KeysAreOwn
<1>3. \A t \in Allocators : StackOK(frames[t], t, key, live_keys, marks, keys_fail, TRUE)
  BY StackLoads, Zenon DEF AllocInv, FramesAreOK
<1> QED
  BY <1>1, <1>2, <1>3, Zenon DEF AllocInv, FramesAreOK

(* A stack without calls holds no key. *)
LEMMA NoCallsNoKeys == KeysOf(<<>>) = {} /\ <<>> \in Seq(FrameRecord)
<1>1. <<>> \in Seq(FrameRecord) /\ \A i \in 1..Len(<<>>) : FALSE
  BY SMT
<1> QED
  BY <1>1, Zenon DEF KeysOf

(* after_fork: the child's thread begins without calls. *)
LEMMA ForkKeeps ==
  ASSUME AllocInv, NEW t \in Allocators, BootstrapFork(t)
  PROVE  FramesAreOK' /\ KeysAreOwn'
<1>1. /\ key' = key /\ live_keys' = live_keys /\ marks' = {} /\ keys_fail' = keys_fail
      /\ loaded' = loaded /\ alloc_forked' = TRUE /\ frames' = [u \in Allocators |-> <<>>]
  BY Zenon DEF BootstrapFork
<1>2. \A u \in Allocators : frames'[u] = <<>>
  BY <1>1, Zenon
<1>3. \A u \in Allocators : KeysOf(frames'[u]) = {}
  BY <1>2, NoCallsNoKeys, Zenon
<1>4. KeysAreOwn'
  BY <1>1, <1>3, Zenon DEF AllocInv, KeysAreOwn
<1>5. \A u \in Allocators : StackOK(frames'[u], u, key', live_keys', marks', keys_fail', loaded')
  BY <1>2, StackEnds, Zenon
<1>6. frames' \in [Allocators -> Seq(FrameRecord)] /\ DOMAIN frames' = Allocators
  BY <1>1, NoCallsNoKeys, Zenon
<1> QED
  BY <1>4, <1>5, <1>6, Zenon DEF FramesAreOK

(* A block of n units behind offset o, for blocks that end before o. *)
LEMMA BlockFits ==
  ASSUME PoolIsApart, NEW n \in Nat, ~(pool_offset + n > PoolSize), PoolSize \in Nat
  PROVE  LET bs == blocks \cup {<<pool_offset, n>>} IN
         /\ bs \subseteq Nat \X Nat
         /\ \A b \in bs : b[1] + b[2] <= PoolSize /\ b[1] + b[2] <= pool_offset + n
         /\ \A b, c \in bs : b # c => b[1] + b[2] <= c[1] \/ c[1] + c[2] <= b[1]
<1> DEFINE new == <<pool_offset, n>>
           bs == blocks \cup {new}
<1>1. pool_offset \in Nat /\ blocks \subseteq Nat \X Nat
  BY Zenon DEF PoolIsApart
<1>2. new \in Nat \X Nat /\ new[1] = pool_offset /\ new[2] = n
  BY <1>1, Zenon
<1>3. new[1] + new[2] <= PoolSize /\ new[1] + new[2] <= pool_offset + n
  BY <1>1, <1>2, SMT
<1>4. \A b \in blocks : b[1] + b[2] <= PoolSize /\ b[1] + b[2] <= pool_offset
  BY Zenon DEF PoolIsApart
<1>5. \A b \in blocks : b[1] \in Nat /\ b[2] \in Nat
  BY <1>1, SMT
<1>6. \A b \in blocks : b[1] + b[2] <= pool_offset + n /\ b[1] + b[2] <= new[1]
  BY <1>1, <1>2, <1>4, <1>5, SMT
<1>7. \A b, c \in blocks : b # c => b[1] + b[2] <= c[1] \/ c[1] + c[2] <= b[1]
  BY Zenon DEF PoolIsApart
<1> HIDE DEF new
<1>8. \A b, c \in bs : b # c => b[1] + b[2] <= c[1] \/ c[1] + c[2] <= b[1]
  BY <1>6, <1>7, Zenon
<1>9. bs \subseteq Nat \X Nat /\ \A b \in bs : b[1] + b[2] <= PoolSize /\ b[1] + b[2] <= pool_offset + n
  BY <1>1, <1>2, <1>3, <1>4, <1>6, Zenon
<1> QED
  BY <1>8, <1>9, Zenon DEF new

(* bootstrap_alloc hands out what nobody has, or nothing. *)
LEMMA PoolKeeps ==
  ASSUME AllocInv, NEW t \in Allocators, BootstrapAlloc(t)
  PROVE  PoolIsApart'
<1> DEFINE n == Top(t).arg
<1>1. frames[t] # <<>>
  BY AtLabel, Zenon DEF BootstrapAlloc
<1>2. Top(t) \in FrameRecord
  BY <1>1, TopOf, Zenon
<1>3. n \in Nat
  BY <1>2, Zenon DEF FrameRecord
<1>4. PoolIsApart /\ PoolSize \in Nat
  BY BootstrapAssumption, Zenon DEF AllocInv, BootstrapAssumption
<1>5. /\ pool_offset' = pool_offset + n /\ heap_frees' = heap_frees
      /\ blocks' = IF pool_offset + n > PoolSize THEN blocks ELSE blocks \cup {<<pool_offset, n>>}
  BY Zenon DEF BootstrapAlloc
<1> HIDE DEF n
<1>6. pool_offset + n \in Nat /\ pool_offset \in Nat /\ heap_frees = {}
  <2>1. pool_offset \in Nat /\ heap_frees = {}
    BY <1>4, Zenon DEF PoolIsApart
  <2> QED
    BY <1>3, <2>1, SMT
<1>7. CASE pool_offset + n > PoolSize
  <2>1. blocks' = blocks
    BY <1>5, <1>7, Zenon
  <2>2. blocks \subseteq Nat \X Nat /\ \A b \in blocks : b[1] + b[2] <= pool_offset
    BY <1>4, Zenon DEF PoolIsApart
  <2>3. \A b \in blocks : b[1] \in Nat /\ b[2] \in Nat
    BY <2>2, SMT
  <2>4. \A b \in blocks : b[1] + b[2] <= pool_offset + n
    BY <1>3, <1>6, <2>2, <2>3, SMT
  <2> QED
    BY <1>4, <1>5, <1>6, <2>1, <2>4, Zenon DEF PoolIsApart
<1>8. CASE ~(pool_offset + n > PoolSize)
  <2>1. blocks' = blocks \cup {<<pool_offset, n>>}
    BY <1>5, <1>8, Zenon
  <2>2. /\ blocks' \subseteq Nat \X Nat
        /\ \A b \in blocks' : b[1] + b[2] <= PoolSize /\ b[1] + b[2] <= pool_offset + n
        /\ \A b, c \in blocks' : b # c => b[1] + b[2] <= c[1] \/ c[1] + c[2] <= b[1]
    BY <1>3, <1>4, <1>8, <2>1, BlockFits, Zenon
  <2> QED
    BY <1>5, <1>6, <2>2, Zenon DEF PoolIsApart
<1> QED
  BY <1>7, <1>8, Zenon

(* Every step keeps the invariant. *)
LEMMA AllocStep == AllocInv /\ [BootstrapNext]_bootstrapVars => AllocInv'
<1> SUFFICES ASSUME AllocInv, [BootstrapNext]_bootstrapVars PROVE AllocInv'
  BY Zenon
<1>1. ASSUME UNCHANGED poolVars PROVE PoolIsApart'
  BY <1>1, Zenon DEF AllocInv, PoolIsApart, poolVars
<1>2. ASSUME loaded' = loaded PROVE loaded' \in BOOLEAN
  BY <1>2, Zenon DEF AllocInv
<1>3. ASSUME NEW t \in Allocators, CallAllocator(t) PROVE AllocInv'
  <2>1. UNCHANGED poolVars /\ loaded' = loaded
    BY <1>3, Zenon DEF CallAllocator, rangeVars
  <2> QED
    BY <1>1, <1>2, <1>3, <2>1, CallKeeps, Zenon DEF AllocInv
<1>4. ASSUME NEW t \in Allocators, LoadReal(t) \/ LoadKey(t) \/ PublishKey(t) \/ CheckMark(t) \/ DlsymReturns(t) PROVE AllocInv'
  <2>1. UNCHANGED poolVars /\ loaded' = loaded
    BY <1>4, Zenon DEF LoadReal, LoadKey, PublishKey, CheckMark, DlsymReturns, rangeVars
  <2>2. FramesAreOK' /\ KeysAreOwn'
    BY <1>4, LoadRealKeeps, LoadKeyKeeps, PublishKeyKeeps, CheckMarkKeeps, DlsymKeeps, Zenon
  <2> QED
    BY <1>1, <1>2, <2>1, <2>2, Zenon DEF AllocInv
<1>5. ASSUME NEW t \in Allocators, BootstrapAlloc(t) PROVE AllocInv'
  <2>1. loaded' = loaded
    BY <1>5, Zenon DEF BootstrapAlloc, rangeVars
  <2> QED
    BY <1>2, <1>5, <2>1, PoolKeeps, ReturnKeeps, Zenon DEF AllocInv
<1>6. ASSUME NEW t \in Allocators, ClassifyCaller(t) \/ ScanImages(t) PROVE AllocInv'
  <2>1. UNCHANGED poolVars /\ loaded' = loaded
    BY <1>6, Zenon DEF ClassifyCaller, ScanImages
  <2> QED
    BY <1>1, <1>2, <1>6, <2>1, CallerKeeps, Zenon DEF AllocInv
<1>7. ASSUME NEW t \in Allocators, CallReal(t) PROVE AllocInv'
  <2>1. pool_offset' = pool_offset /\ blocks' = blocks /\ loaded' = loaded
    BY <1>7, Zenon DEF CallReal, rangeVars
  <2>2. frames[t] # <<>> /\ Top(t).pc # "real"
    <3>1. frames[t] # <<>> /\ Top(t).pc \in {"call", "ring"}
      BY <1>7, AtLabel, Zenon DEF CallReal
    <3> QED
      BY <3>1, Zenon
  <2>3. heap_frees' = heap_frees
    BY <1>7, <2>2, PastPointerCheck, Zenon DEF CallReal
  <2>4. PoolIsApart'
    BY <2>1, <2>3, Zenon DEF AllocInv, PoolIsApart
  <2> QED
    BY <1>2, <1>7, <2>1, <2>4, ReturnKeeps, Zenon DEF AllocInv
<1>8. ASSUME NEW t \in Allocators, BootstrapFork(t) PROVE AllocInv'
  <2>1. UNCHANGED poolVars /\ loaded' = loaded
    BY <1>8, Zenon DEF BootstrapFork
  <2> QED
    BY <1>1, <1>2, <1>8, <2>1, ForkKeeps, Zenon DEF AllocInv
<1>9. CASE LoadWin32uSo
  <2>1. UNCHANGED poolVars /\ loaded' \in BOOLEAN
    BY <1>9, Zenon DEF LoadWin32uSo
  <2> QED
    BY <1>1, <1>9, <2>1, LoadKeeps, Zenon DEF AllocInv
<1>10. CASE UNCHANGED bootstrapVars
  <2>1. UNCHANGED <<keyVars, poolVars, rangeVars, frames, alloc_forked>>
    BY <1>10, Zenon DEF bootstrapVars
  <2>2. /\ key' = key /\ live_keys' = live_keys /\ marks' = marks /\ keys_fail' = keys_fail
        /\ loaded' = loaded /\ alloc_forked' = alloc_forked /\ frames' = frames
    BY <2>1, Zenon DEF keyVars, rangeVars
  <2>3. FramesAreOK' /\ KeysAreOwn'
    BY <2>2, Zenon DEF AllocInv, FramesAreOK, KeysAreOwn
  <2> QED
    BY <1>1, <1>2, <2>1, <2>2, <2>3, Zenon DEF AllocInv
<1> QED
  BY <1>3, <1>4, <1>5, <1>6, <1>7, <1>8, <1>9, <1>10, Zenon DEF BootstrapNext, AllocatorStep

(* Before the first call. *)
LEMMA AllocInit == BootstrapInit => AllocInv
<1> SUFFICES ASSUME BootstrapInit PROVE AllocInv
  BY Zenon
<1>1. /\ key = [f \in Interposed |-> NoKey] /\ live_keys = {} /\ pool_offset = 0 /\ blocks = {}
      /\ heap_frees = {} /\ loaded = FALSE /\ frames = [t \in Allocators |-> <<>>]
  BY Zenon DEF BootstrapInit
<1>2. \A t \in Allocators : frames[t] = <<>>
  BY <1>1, Zenon
<1>3. \A t \in Allocators : KeysOf(frames[t]) = {}
  BY <1>2, NoCallsNoKeys, Zenon
<1>4. KeysAreOwn
  BY <1>1, <1>3, Zenon DEF KeysAreOwn
<1>5. FramesAreOK
  <2>1. \A t \in Allocators : StackOK(frames[t], t, key, live_keys, marks, keys_fail, loaded)
    BY <1>2, StackEnds, Zenon
  <2>2. frames \in [Allocators -> Seq(FrameRecord)] /\ DOMAIN frames = Allocators
    BY <1>1, NoCallsNoKeys, Zenon
  <2> QED
    BY <2>1, <2>2, Zenon DEF FramesAreOK
<1>6. PoolIsApart
  <2>1. 0 \in Nat
    BY SMT
  <2> QED
    BY <1>1, <2>1, Zenon DEF PoolIsApart
<1> QED
  BY <1>1, <1>4, <1>5, <1>6, Zenon DEF AllocInv

(* malloc and free from the first call of the process on: blocks of the bootstrap *)
(* pool are apart and never reach the real free, no allocation inside dlsym calls *)
(* dlsym again, keys in use are not deleted, and the ring sees win32u's calls.    *)
THEOREM AllocationsStaySafe == BootstrapSpec => []AllocationsAreSafe
<1>1. AllocInv => AllocationsAreSafe
  <2> SUFFICES ASSUME AllocInv PROVE AllocationsAreSafe
    BY Zenon
  <2>1. PoolBlocksAreDisjoint
    BY Zenon DEF AllocInv, PoolIsApart, PoolBlocksAreDisjoint
  <2>2. \A t \in Allocators : StackOK(frames[t], t, key, live_keys, marks, keys_fail, loaded)
    BY Zenon DEF AllocInv, FramesAreOK
  <2>3. DlsymIsNotReentered
    <3>1. ~keys_fail => \A t \in Allocators : \A i, j \in 1..Len(frames[t]) :
            frames[t][i].pc = "dlsym" /\ frames[t][j].pc = "dlsym" /\ frames[t][i].fn = frames[t][j].fn => i = j
      BY <2>2, Zenon DEF StackOK
    <3>2. \A t \in Allocators : \A k \in KeysOf(frames[t]) : \E i \in 1..Len(frames[t]) : frames[t][i].key = k
      BY Zenon DEF KeysOf
    <3>3. \A f \in Interposed : key[f] # NoKey => key[f] \in live_keys
      BY Zenon DEF AllocInv, KeysAreOwn
    <3>4. \A k \in live_keys : \/ \E f \in Interposed : key[f] = k
                               \/ alloc_forked
                               \/ \E t \in Allocators : k \in KeysOf(frames[t])
      BY Zenon DEF AllocInv, KeysAreOwn
    <3> QED
      BY <3>1, <3>2, <3>3, <3>4, Zenon DEF DlsymIsNotReentered
  <2>4. RingSeesWin32u
    <3>1. ASSUME NEW t \in Allocators, NEW l, InFrame(t, l) PROVE Top(t).pc = l /\ FrameOK(Top(t), loaded)
      BY <3>1, AtLabel, TopOf, Zenon
    <3>2. ASSUME NEW t \in Allocators, InFrame(t, "ring") PROVE Top(t).win32u
      BY <3>1, <3>2, Zenon DEF FrameOK
    <3>3. ASSUME NEW t \in Allocators, InFrame(t, "call") PROVE ~Top(t).win32u
      BY <3>1, <3>3, Zenon DEF FrameOK
    <3> QED
      BY <3>2, <3>3, Zenon DEF RingSeesWin32u
  <2> QED
    BY <2>1, <2>3, <2>4, Zenon DEF AllocationsAreSafe
<1> QED
  BY AllocInit, AllocStep, <1>1, PTL DEF BootstrapSpec
=============================================================================
