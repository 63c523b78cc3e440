----------------------------- MODULE SignalSlot -----------------------------
(***************************************************************************)
(* The interposed sigaction and the forwarding of signals, runtime/src/       *)
(* hooks.rs, for one of the two signals LinUwUx keeps its bridge handler in:  *)
(* several threads install actions while signals are delivered to others.     *)
(*                                                                         *)
(* A snapshot of the program's action is a heap block; a freed block may be   *)
(* handed out again.  An access to the slot that another thread can tell      *)
(* apart from the next one is a step of its own.                              *)
(***************************************************************************)
EXTENDS Naturals, FiniteSets

CONSTANTS
  Threads,
  Actions,        \* the actions a program installs: its handler, whether it is
                  \* in Wine's ntdll, and SA_RESETHAND
  Blocks, Null,   \* heap blocks for snapshots
  MaxUpdates,     \* bound: calls to sigaction
  MaxSignals,     \* bound: signals delivered
  InstallMayFail, \* whether the kernel may refuse the bridge
  MayFork

Handlers == {"SIG_DFL", "SIG_IGN", "function"}

ASSUME SignalAssumption ==
  /\ Actions \subseteq [handler : Handlers, from_ntdll : BOOLEAN, reset : BOOLEAN]
  /\ IsFiniteSet(Threads) /\ Null \notin Blocks
  /\ MaxUpdates \in Nat /\ MaxSignals \in Nat
  /\ InstallMayFail \in BOOLEAN /\ MayFork \in BOOLEAN

(* An action is identified by the call of sigaction that installed it. *)
Action(a, n) ==
  [handler |-> a.handler, from_ntdll |-> a.from_ntdll, reset |-> a.reset, id |-> n]
Plain(h) == [handler |-> h, from_ntdll |-> FALSE, reset |-> FALSE]
NoAction == Action(Plain("SIG_DFL"), 0)
Bridge == Action(Plain("function"), MaxUpdates + 1)

VARIABLES
  current,     \* SignalSlot::current
  readers, owned,
  lock,        \* SIGNAL_UPDATE_LOCK
  block,       \* heap: the action a block holds, or NoAction when it is free
  kernel,      \* the kernel's disposition: Bridge or an action of the program
  pc, act,     \* per thread: where it is, the action it installs or forwards
  snapshot,    \* per thread: the block it works with
  previous,    \* per thread: the block it replaced
  oldact,      \* per thread: what sigaction is going to report
  dead,        \* whether a signal met SIG_DFL and ended the process
  updates, signals

slotVars == <<current, readers, owned, lock>>
localVars == <<act, snapshot, previous, oldact>>
vars == <<slotVars, block, kernel, pc, localVars, dead, updates, signals>>

Init ==
  /\ current = Null /\ readers = 0 /\ owned = FALSE /\ lock = FALSE
  /\ block = [b \in Blocks |-> NoAction]
  /\ kernel = NoAction
  /\ pc = [t \in Threads |-> "idle"]
  /\ act = [t \in Threads |-> NoAction]
  /\ snapshot = [t \in Threads |-> Null]
  /\ previous = [t \in Threads |-> Null]
  /\ oldact = [t \in Threads |-> NoAction]
  /\ dead = FALSE
  /\ updates = 0 /\ signals = 0

Goto(t, label) == pc' = [pc EXCEPT ![t] = label]
Unlock == lock' = FALSE

(* The call of sigaction or of the bridge is over, and with it its locals. *)
Return(t) ==
  /\ Goto(t, "idle")
  /\ act' = [act EXCEPT ![t] = NoAction] /\ oldact' = [oldact EXCEPT ![t] = NoAction]
  /\ snapshot' = [snapshot EXCEPT ![t] = Null] /\ previous' = [previous EXCEPT ![t] = Null]

-----------------------------------------------------------------------------
(* sigaction *)

(* The program installs an action of its own, or puts the one back that a     *)
(* query of the kernel showed it.                                            *)
Sigaction(t) ==
  /\ pc[t] = "idle" /\ ~dead
  /\ updates < MaxUpdates
  /\ updates' = updates + 1
  /\ \/ \E a \in Actions : act' = [act EXCEPT ![t] = Action(a, updates + 1)]
     \/ kernel = Bridge /\ act' = [act EXCEPT ![t] = Bridge]
  /\ Goto(t, "acquire")
  /\ UNCHANGED <<slotVars, block, kernel, snapshot, previous, oldact, dead, signals>>

(* Mutant: once bridged, other handlers still go to the kernel. *)
AcquireNotOwned(t) ==
  /\ pc[t] = "acquire"
  /\ ~lock
  /\ lock' = TRUE
  /\ Goto(t, IF act[t].from_ntdll THEN "snapshot" ELSE "direct")
  /\ UNCHANGED <<current, readers, owned, block, kernel, localVars, dead, updates, signals>>

(* With the lock: an action of no interest goes to the kernel as it is, the   *)
(* bridge itself is left in place, any other action gets a snapshot.          *)
Acquire(t) ==
  /\ pc[t] = "acquire"
  /\ ~lock
  /\ lock' = TRUE
  /\ Goto(t, IF owned \/ act[t].from_ntdll THEN "snapshot" ELSE "direct")
  /\ UNCHANGED <<current, readers, owned, block, kernel, localVars, dead, updates, signals>>

InstallDirectly(t) ==
  /\ pc[t] = "direct"
  /\ kernel' = act[t] \/ (InstallMayFail /\ UNCHANGED kernel)
  /\ Unlock
  /\ Return(t)
  /\ UNCHANGED <<current, readers, owned, block, dead, updates, signals>>

LeaveBridge(t) ==
  /\ pc[t] = "snapshot"
  /\ act[t] = Bridge
  /\ Unlock
  /\ Return(t)
  /\ UNCHANGED <<current, readers, owned, block, kernel, dead, updates, signals>>

(* The first thing install_bridge does is ask for the kernel's action. *)
QueryFails(t) ==
  /\ pc[t] = "snapshot"
  /\ InstallMayFail
  /\ Unlock
  /\ Return(t)
  /\ UNCHANGED <<current, readers, owned, block, kernel, dead, updates, signals>>

TakeSnapshot(t) ==
  /\ pc[t] = "snapshot"
  /\ act[t] # Bridge
  /\ \/ \E b \in Blocks :
          /\ block[b] = NoAction
          /\ block' = [block EXCEPT ![b] = act[t]]
          /\ snapshot' = [snapshot EXCEPT ![t] = b]
          /\ Goto(t, "swap")
          /\ UNCHANGED <<lock, act, previous, oldact>>
     \/ /\ \A b \in Blocks : block[b] # NoAction
        /\ Unlock
        /\ Return(t)
        /\ UNCHANGED block
  /\ UNCHANGED <<current, readers, owned, kernel, dead, updates, signals>>

(* Swap it in, and copy the action it replaces (or the kernel's) for oldact. *)
SwapSnapshot(t) ==
  /\ pc[t] = "swap"
  /\ current' = snapshot[t]
  /\ previous' = [previous EXCEPT ![t] = current]
  /\ oldact' = [oldact EXCEPT ![t] = IF current = Null THEN kernel ELSE block[current]]
  /\ Goto(t, "install")
  /\ UNCHANGED <<readers, owned, lock, block, kernel, act, snapshot, dead,
                 updates, signals>>

(* Mutant: a refused update leaves the slot empty. *)
InstallBridgeEmpties(t) ==
  /\ pc[t] = "install"
  /\ \/ /\ kernel' = Bridge
        /\ Goto(t, "release")
        /\ UNCHANGED <<current, previous>>
     \/ /\ InstallMayFail
        /\ current' = Null
        /\ previous' = [previous EXCEPT ![t] = current]
        /\ Goto(t, "undo")
        /\ UNCHANGED kernel
  /\ UNCHANGED <<readers, owned, lock, block, act, snapshot, oldact, dead, updates, signals>>

InstallBridge(t) ==
  /\ pc[t] = "install"
  /\ \/ /\ kernel' = Bridge
        /\ Goto(t, "release")
        /\ UNCHANGED <<current, previous>>
     \/ /\ InstallMayFail
        /\ current' = previous[t]
        /\ previous' = [previous EXCEPT ![t] = current]
        /\ Goto(t, "undo")
        /\ UNCHANGED kernel
  /\ UNCHANGED <<readers, owned, lock, block, act, snapshot, oldact, dead, updates, signals>>

(* Mutant: the snapshot is freed under its readers. *)
ReleaseSnapshotAtOnce(t) ==
  /\ pc[t] \in {"release", "undo"}
  /\ block' = [b \in Blocks |-> IF b = previous[t] THEN NoAction ELSE block[b]]
  /\ owned' = (owned \/ pc[t] = "release")
  /\ Unlock
  /\ Return(t)
  /\ UNCHANGED <<current, readers, kernel, dead, updates, signals>>

(* release_snapshot: wait until nobody reads, then free. *)
ReleaseSnapshot(t) ==
  /\ pc[t] \in {"release", "undo"}
  /\ previous[t] = Null \/ readers = 0
  /\ block' = [b \in Blocks |-> IF b = previous[t] THEN NoAction ELSE block[b]]
  /\ owned' = (owned \/ pc[t] = "release")
  /\ Unlock
  /\ Return(t)
  /\ UNCHANGED <<current, readers, kernel, dead, updates, signals>>

-----------------------------------------------------------------------------
(* A signal reaches the bridge and is forwarded. *)

Deliver(t) ==
  /\ pc[t] = "idle" /\ ~dead
  /\ kernel = Bridge
  /\ signals < MaxSignals
  /\ signals' = signals + 1
  /\ readers' = readers + 1
  /\ Goto(t, "load")
  /\ UNCHANGED <<current, owned, lock, block, kernel, localVars, dead, updates>>

LoadSnapshot(t) ==
  /\ pc[t] = "load"
  /\ snapshot' = [snapshot EXCEPT ![t] = current]
  /\ Goto(t, "read")
  /\ UNCHANGED <<slotVars, block, kernel, act, previous, oldact, dead,
                 updates, signals>>

ReadSnapshot(t) ==
  /\ pc[t] = "read"
  /\ act' = [act EXCEPT ![t] = IF snapshot[t] = Null THEN NoAction ELSE block[snapshot[t]]]
  /\ Goto(t, "leave")
  /\ UNCHANGED <<slotVars, block, kernel, snapshot, previous, oldact, dead,
                 updates, signals>>

LeaveReaders(t) ==
  /\ pc[t] = "leave"
  /\ readers' = readers - 1
  /\ Goto(t, "forward")
  /\ UNCHANGED <<current, owned, lock, block, kernel, localVars, dead,
                 updates, signals>>

(* SIG_DFL, which is also what an empty slot reads as, is restored in the     *)
(* kernel and raised.  A one-shot function leaves the slot before it runs.   *)
Forward(t) ==
  /\ pc[t] = "forward"
  /\ \/ /\ act[t].handler = "SIG_DFL"
        /\ dead' = TRUE
        /\ kernel' = NoAction
        /\ UNCHANGED current
     \/ /\ act[t].handler # "SIG_DFL"
        /\ current' = IF act[t].handler = "function" /\ act[t].reset
                          /\ current = snapshot[t]
                       THEN Null ELSE current
        /\ UNCHANGED <<dead, kernel>>
  /\ Return(t)
  /\ UNCHANGED <<readers, owned, lock, block, updates, signals>>

ForkLocals ==
  /\ pc' = [u \in Threads |-> "idle"]
  /\ act' = [u \in Threads |-> NoAction] /\ oldact' = [u \in Threads |-> NoAction]
  /\ snapshot' = [u \in Threads |-> Null] /\ previous' = [u \in Threads |-> Null]

(* Mutant: the readers of the parent are still counted in the child. *)
ForkKeepsReaders(t) ==
  /\ MayFork
  /\ pc[t] = "idle" /\ ~dead
  /\ ForkLocals
  /\ lock' = FALSE
  /\ UNCHANGED <<current, readers, owned, block, kernel, dead, updates, signals>>

(* after_fork, in a child that only has thread t. *)
Fork(t) ==
  /\ MayFork
  /\ pc[t] = "idle" /\ ~dead
  /\ ForkLocals
  /\ lock' = FALSE
  /\ readers' = 0
  /\ UNCHANGED <<current, owned, block, kernel, dead, updates, signals>>

Step(t) ==
  \/ Acquire(t) \/ InstallDirectly(t) \/ QueryFails(t) \/ LeaveBridge(t)
  \/ TakeSnapshot(t)
  \/ SwapSnapshot(t) \/ InstallBridge(t) \/ ReleaseSnapshot(t)
  \/ LoadSnapshot(t) \/ ReadSnapshot(t) \/ LeaveReaders(t) \/ Forward(t)

Next ==
  \E t \in Threads :
    Step(t) \/ Deliver(t) \/ Fork(t) \/ Sigaction(t)

Spec == Init /\ [][Next]_vars
FairSpec == Spec /\ \A t \in Threads : WF_vars(Step(t))

-----------------------------------------------------------------------------
(* Properties *)

ActionType == [handler : Handlers, from_ntdll : BOOLEAN, reset : BOOLEAN, id : 0..(MaxUpdates + 1)]

(* The type of every variable. *)
TypeOK ==
  /\ current \in Blocks \cup {Null}
  /\ readers \in 0..Cardinality(Threads)
  /\ owned \in BOOLEAN /\ lock \in BOOLEAN /\ dead \in BOOLEAN
  /\ block \in [Blocks -> ActionType]
  /\ kernel \in ActionType
  /\ pc \in [Threads -> {"idle", "acquire", "direct", "snapshot", "swap", "install",
                         "release", "undo", "load", "read", "leave", "forward"}]
  /\ act \in [Threads -> ActionType] /\ oldact \in [Threads -> ActionType]
  /\ snapshot \in [Threads -> Blocks \cup {Null}]
  /\ previous \in [Threads -> Blocks \cup {Null}]
  /\ updates \in 0..MaxUpdates /\ signals \in 0..MaxSignals

(* No snapshot is freed under a signal that reads it, nor while the slot or   *)
(* an update in progress still points to it.                                 *)
SnapshotsAreLive ==
  /\ current # Null => block[current] # NoAction
  /\ \A t \in Threads :
       /\ pc[t] = "read" /\ snapshot[t] # Null => block[snapshot[t]] # NoAction
       /\ pc[t] \in {"install", "release"} /\ previous[t] # Null
            => block[previous[t]] # NoAction

(* Once a thread published that Wine's handler is bridged, no sigaction takes *)
(* the bridge out of the kernel again, in the parent or in a forked child:   *)
(* only the default action does, and it ends the process.                    *)
BridgeStaysAhead == [][owned /\ kernel = Bridge => kernel' = Bridge \/ dead']_vars

(* A sigaction that the kernel refuses changes nothing: the action that was   *)
(* in force before it is in force after it.                                  *)
RefusedUpdateChangesNothing ==
  [][\A t \in Threads :
       pc[t] = "install" /\ pc'[t] = "undo" =>
         oldact[t] = (IF current' = Null THEN kernel ELSE block[current']) \/ dead]_vars

(* Every sigaction and every forwarded signal comes to an end: the lock and   *)
(* the wait for readers do not block each other, nor a forked child.         *)
EveryCallEnds == \A t \in Threads : pc[t] # "idle" ~> pc[t] = "idle"

(* The slot under concurrent sigaction and signals: it has its type, and no    *)
(* snapshot is freed while something points to it.                             *)
SnapshotsAreSound == TypeOK /\ SnapshotsAreLive
=============================================================================
