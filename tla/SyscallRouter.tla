--------------------------- MODULE SyscallRouter ----------------------------
(***************************************************************************)
(* The path of a Windows syscall through the KUSER dispatcher bridge          *)
(* (syscall/kuser_dispatch.rs::dispatcher_target), the marker table           *)
(* (syscall/reflex_markers.rs) and the SIGSYS handler                         *)
(* (syscall/sigsys_router.rs::redirect), for several threads.                 *)
(*                                                                         *)
(* A thread runs program code, or code of a Reflex handler that was entered   *)
(* for a syscall and has not finished with it (a frame); either may make      *)
(* further syscalls, deeper on the stack.  Stacks grow downwards: a deeper    *)
(* call has a smaller stack value.  Steps on the shared table that other      *)
(* threads can see are separate actions.                                      *)
(***************************************************************************)
EXTENDS Naturals, Sequences, FiniteSets

CONSTANTS
  Threads,
  Capacity,      \* MARKER_CAPACITY
  MaxStack,      \* bound: stack depths 1..MaxStack
  MaxSyscalls,   \* bound: syscalls made in a behaviour
  DirectAtStub   \* whether code may run a marked stub's syscall instruction
                 \* without calling the dispatcher first

ASSUME RouterAssumption ==
  /\ IsFiniteSet(Threads)
  /\ Capacity \in Nat \ {0}
  /\ MaxStack \in Nat \ {0}
  /\ MaxSyscalls \in Nat
  /\ DirectAtStub \in BOOLEAN

Slots == 1..Capacity
Stacks == 1..MaxStack
Empty == [stack |-> 0, tid |-> "none", rip |-> "none", phase |-> 0, saved |-> 0]
Reserved == MaxStack + 1      \* u64::MAX in MARKER_STACKS
Rips == {"marked", "plain", "direct"}

VARIABLES
  table,     \* the marker arrays: [Slots -> stack, tid, rip, phase, saved]
  active,    \* ACTIVE_MARKERS
  pc,        \* where each thread is
  cur,       \* the syscall each thread is making
  frames,    \* the routed syscalls each thread has not finished, outermost first
  slot,      \* the slot each thread is working on
  cont,      \* where to go on after a marker was released
  outcome,   \* what happened to each thread's last trap
  syscalls   \* syscalls made; also numbers them

tableVars == <<table, active>>
vars == <<tableVars, pc, cur, frames, slot, cont, outcome, syscalls>>

NoCall == [stack |-> 0, rip |-> "none", id |-> 0, magic |-> FALSE, replay |-> FALSE]
NoResult == [way |-> "none", id |-> 0, restored |-> 0]

Init ==
  /\ table = [i \in Slots |-> Empty]
  /\ active = 0
  /\ pc = [t \in Threads |-> "run"]
  /\ cur = [t \in Threads |-> NoCall]
  /\ frames = [t \in Threads |-> << >>]
  /\ slot = [t \in Threads |-> 1]
  /\ cont = [t \in Threads |-> "none"]
  /\ outcome = [t \in Threads |-> NoResult]
  /\ syscalls = 0

Top(t) == frames[t][Len(frames[t])]
Pop(t) == SubSeq(frames[t], 1, Len(frames[t]) - 1)
StackLimit(t) == IF frames[t] = << >> THEN MaxStack ELSE Top(t).stack - 1

Visible(i) == table[i].stack \in Stacks
Mine(t, i) == table[i].tid = t /\ Visible(i)
Goto(t, label) == pc' = [pc EXCEPT ![t] = label]

-----------------------------------------------------------------------------
(* Program or Reflex code makes a syscall, or Reflex is done with one. *)

NewCall(t, rips, first) ==
  /\ pc[t] = "run"
  /\ syscalls < MaxSyscalls
  /\ syscalls' = syscalls + 1
  /\ \E s \in 1..StackLimit(t), r \in rips, m \in BOOLEAN :
       cur' = [cur EXCEPT ![t] = [stack |-> s, rip |-> r, id |-> syscalls + 1,
                                  magic |-> m, replay |-> FALSE]]
  /\ Goto(t, first)
  /\ outcome' = [outcome EXCEPT ![t] = NoResult]
  /\ UNCHANGED <<tableVars, frames, slot, cont>>

(* Through the KUSER slot: the stub is one the IAT scan found Reflex hooking  *)
(* and is called from outside Reflex's image ("marked"), or it is not.       *)
CallDispatcher(t) == NewCall(t, {"marked", "plain"}, "retire")

CallDirectly(t) ==
  NewCall(t, IF DirectAtStub THEN {"marked", "direct"} ELSE {"direct"}, "trap")

(* Reflex replays the syscall it was entered for, at the same RIP and RSP,    *)
(* with the bypass magic in XMM5.                                            *)
ReflexReplays(t) ==
  /\ pc[t] = "run"
  /\ frames[t] # << >>
  /\ cur' = [cur EXCEPT ![t] = [Top(t) EXCEPT !.magic = TRUE, !.replay = TRUE]]
  /\ Goto(t, "trap")
  /\ outcome' = [outcome EXCEPT ![t] = NoResult]
  /\ UNCHANGED <<tableVars, frames, slot, cont, syscalls>>

(* Reflex answers the syscall itself and returns to its caller. *)
ReflexAnswers(t) ==
  /\ pc[t] = "run"
  /\ frames[t] # << >>
  /\ frames' = [frames EXCEPT ![t] = Pop(t)]
  /\ outcome' = [outcome EXCEPT ![t] = NoResult]
  /\ UNCHANGED <<tableVars, pc, cur, slot, cont, syscalls>>

(* The syscall leaves LinUwUx for Wine (or is completed in its place); a      *)
(* replayed one is then finished.                                            *)
Done(t, way, restored) ==
  /\ outcome' = [outcome EXCEPT ![t] = [way |-> way, id |-> cur[t].id,
                                        restored |-> restored]]
  /\ frames' = [frames EXCEPT ![t] = IF cur[t].replay THEN Pop(t) ELSE @]

-----------------------------------------------------------------------------
(* release_marker: reserve the slot, clear it, free it, then uncount it. *)

Release(t, i, next) ==
  /\ table' = [table EXCEPT ![i].stack = Reserved]
  /\ slot' = [slot EXCEPT ![t] = i]
  /\ cont' = [cont EXCEPT ![t] = next]
  /\ Goto(t, "clear")

ClearSlot(t) ==
  /\ pc[t] = "clear"
  /\ table' = [table EXCEPT ![slot[t]] = Empty]
  /\ Goto(t, "uncount")
  /\ UNCHANGED <<active, cur, frames, slot, cont, outcome, syscalls>>

Uncount(t) ==
  /\ pc[t] = "uncount"
  /\ active' = active - 1
  /\ Goto(t, cont[t])
  /\ UNCHANGED <<table, cur, frames, slot, cont, outcome, syscalls>>

-----------------------------------------------------------------------------
(* dispatcher_target: retire this thread's markers at or below the stack      *)
(* pointer, then arm a marker for a marked stub or keep Wine's dispatcher.   *)

(* Mutant: a marker at the very same depth is kept. *)
ToRetireBelow(t, i) == Mine(t, i) /\ table[i].stack < cur[t].stack

ToRetire(t, i) == Mine(t, i) /\ table[i].stack <= cur[t].stack

RetireMarkers(t) ==
  /\ pc[t] = "retire"
  /\ \/ \E i \in Slots :
          /\ active # 0
          /\ ToRetire(t, i)
          /\ Release(t, i, "retire")
          /\ UNCHANGED <<active, cur, frames, outcome, syscalls>>
     \/ /\ active = 0 \/ \A i \in Slots : ~ToRetire(t, i)
        /\ cur[t].rip = "marked"
        /\ Goto(t, "reserve")
        /\ UNCHANGED <<tableVars, cur, frames, slot, cont, outcome, syscalls>>
     \/ /\ active = 0 \/ \A i \in Slots : ~ToRetire(t, i)
        /\ cur[t].rip # "marked"
        /\ Goto(t, "run")
        /\ Done(t, "dispatcher", 0)
        /\ UNCHANGED <<tableVars, cur, slot, cont, syscalls>>

(* Mutant: a slot that is taken is waited for instead of passed. *)
ReserveSlotSpins(t) ==
  /\ pc[t] = "reserve"
  /\ table[1].stack = 0
  /\ table' = [table EXCEPT ![1].stack = Reserved]
  /\ slot' = [slot EXCEPT ![t] = 1]
  /\ Goto(t, "count")
  /\ UNCHANGED <<active, cur, frames, cont, outcome, syscalls>>

(* remember_marker: the probe takes a free slot; with none the call stays on  *)
(* Wine's dispatcher.                                                        *)
ReserveSlot(t) ==
  /\ pc[t] = "reserve"
  /\ \/ \E i \in Slots :
          /\ table[i].stack = 0
          /\ table' = [table EXCEPT ![i].stack = Reserved]
          /\ slot' = [slot EXCEPT ![t] = i]
          /\ Goto(t, "count")
          /\ UNCHANGED <<frames, outcome>>
     \/ /\ \A i \in Slots : table[i].stack # 0
        /\ Goto(t, "run")
        /\ Done(t, "dispatcher", 0)
        /\ UNCHANGED <<table, slot>>
  /\ UNCHANGED <<active, cur, cont, syscalls>>

(* Mutant: the marker is published without being counted. *)
CountMarkerForgotten(t) ==
  /\ pc[t] = "count"
  /\ Goto(t, "publish")
  /\ UNCHANGED <<tableVars, cur, frames, slot, cont, outcome, syscalls>>

CountMarker(t) ==
  /\ pc[t] = "count"
  /\ active' = active + 1
  /\ Goto(t, "publish")
  /\ UNCHANGED <<table, cur, frames, slot, cont, outcome, syscalls>>

PublishMarker(t) ==
  /\ pc[t] = "publish"
  /\ table' = [table EXCEPT ![slot[t]] =
                 [stack |-> cur[t].stack, tid |-> t, rip |-> cur[t].rip,
                  phase |-> 0, saved |-> 0]]
  /\ Goto(t, "trap")
  /\ UNCHANGED <<active, cur, frames, slot, cont, outcome, syscalls>>

-----------------------------------------------------------------------------
(* redirect, in the SIGSYS handler of the thread that trapped. *)

Matches(t, i) == Mine(t, i) /\ table[i].stack = cur[t].stack /\ table[i].rip = cur[t].rip
Found(t) == IF active = 0 THEN {} ELSE {i \in Slots : Matches(t, i)}

(* consume: the second trap of a marker restores the context of the first and *)
(* releases the marker; the first records it and goes on as a bridged call.  *)
ConsumeReplay(t) ==
  /\ pc[t] = "trap"
  /\ \E i \in Found(t) :
       /\ table[i].phase = 1
       /\ Release(t, i, "run")
       /\ Done(t, "replayed", table[i].saved)
  /\ UNCHANGED <<active, cur, syscalls>>

ConsumeRoute(t) ==
  /\ pc[t] = "trap"
  /\ \E i \in Found(t) :
       /\ table[i].phase = 0
       /\ table' = [table EXCEPT ![i].phase = 1, ![i].saved = cur[t].id]
       /\ slot' = [slot EXCEPT ![t] = i]
  /\ Goto(t, "bridged")
  /\ UNCHANGED <<active, cur, frames, cont, outcome, syscalls>>

ConsumeNone(t) ==
  /\ pc[t] = "trap"
  /\ Found(t) = {}
  /\ Goto(t, "unbridged")
  /\ UNCHANGED <<tableVars, cur, frames, slot, cont, outcome, syscalls>>

(* The bypass magic: cancel a bridged marker, and complete a window-list size *)
(* probe here or forward to Wine.                                            *)
Bypass(t) ==
  /\ cur[t].magic
  /\ \E way \in {"bypassed", "completed"} : Done(t, way, 0)
  /\ \/ pc[t] = "bridged" /\ Release(t, slot[t], "run")
     \/ pc[t] = "unbridged" /\ Goto(t, "run") /\ UNCHANGED <<table, slot, cont>>
  /\ UNCHANGED <<active, cur, syscalls>>

(* No route: not the registered target process, or route_syscall declines. *)
ForwardToWine(t) ==
  /\ ~cur[t].magic
  /\ Done(t, "forwarded", 0)
  /\ \/ pc[t] = "bridged" /\ Release(t, slot[t], "run")
     \/ pc[t] = "unbridged" /\ Goto(t, "run") /\ UNCHANGED <<table, slot, cont>>
  /\ UNCHANGED <<active, cur, syscalls>>

(* route_syscall selects a target: the thread continues in Reflex's handler. *)
RouteToReflex(t) ==
  /\ pc[t] \in {"bridged", "unbridged"}
  /\ ~cur[t].magic
  /\ frames' = [frames EXCEPT ![t] = Append(@, cur[t])]
  /\ outcome' = [outcome EXCEPT ![t] = [way |-> "routed", id |-> cur[t].id, restored |-> 0]]
  /\ Goto(t, "run")
  /\ UNCHANGED <<tableVars, cur, slot, cont, syscalls>>

Step(t) ==
  \/ ClearSlot(t) \/ Uncount(t) \/ RetireMarkers(t) \/ ReserveSlot(t)
  \/ CountMarker(t) \/ PublishMarker(t) \/ ConsumeReplay(t) \/ ConsumeRoute(t)
  \/ ConsumeNone(t) \/ Bypass(t) \/ ForwardToWine(t) \/ RouteToReflex(t)

Next ==
  \E t \in Threads :
    CallDispatcher(t) \/ CallDirectly(t) \/ ReflexReplays(t) \/ ReflexAnswers(t) \/ Step(t)

Spec == Init /\ [][Next]_vars
FairSpec == Spec /\ \A t \in Threads : WF_vars(Step(t))

-----------------------------------------------------------------------------
(* Properties *)

Ids == 0..MaxSyscalls
CallType == [stack : 0..MaxStack, rip : Rips \cup {"none"}, id : Ids,
             magic : BOOLEAN, replay : BOOLEAN]

(* The type of every variable. *)
TypeOK ==
  /\ table \in [Slots -> [stack : 0..Reserved, tid : Threads \cup {"none"},
                          rip : Rips \cup {"none"}, phase : 0..1, saved : Ids]]
  /\ active \in 0..(Capacity + Cardinality(Threads))
  /\ pc \in [Threads -> {"run", "retire", "clear", "uncount", "reserve", "count",
                         "publish", "trap", "bridged", "unbridged"}]
  /\ cur \in [Threads -> CallType]
  /\ frames \in [Threads -> Seq(CallType)]
  /\ slot \in [Threads -> Slots]
  /\ cont \in [Threads -> {"none", "run", "retire"}]
  /\ outcome \in [Threads -> [way : {"none", "dispatcher", "replayed", "bypassed",
                                     "completed", "forwarded", "routed"},
                              id : Ids, restored : Ids]]
  /\ syscalls \in Ids

(* "Count the reserved slot before publishing its stack value, so the fast    *)
(* path cannot skip a visible marker": the count covers the visible markers. *)
CountCoversVisible == Cardinality({i \in Slots : Visible(i)}) <= active

(* While Reflex works on a bridged syscall, no syscall it makes deeper down   *)
(* takes its marker away: the context to restore is still the one recorded   *)
(* when that syscall trapped.                                                *)
OuterMarkerSurvives ==
  \A t \in Threads :
    \A k \in 1..Len(frames[t]) :
      frames[t][k].rip = "marked" =>
        \E i \in Slots :
          /\ Mine(t, i)
          /\ table[i].stack = frames[t][k].stack
          /\ table[i].rip = "marked"
          /\ table[i].phase = 1
          /\ table[i].saved = frames[t][k].id

(* A replay restores the context that the same syscall had when it was        *)
(* routed: "a marker never leaks into a later syscall at a reused stack      *)
(* depth".                                                                   *)
ReplayRestoresOwnContext ==
  \A t \in Threads : outcome[t].way = "replayed" => outcome[t].restored = outcome[t].id

(* Nothing is lost at a full table or in a race for a slot: every syscall     *)
(* that entered the bridge or the handler comes out of it.                   *)
EverySyscallLeaves == \A t \in Threads : pc[t] # "run" ~> pc[t] = "run"

(* The marker table under nested and concurrent syscalls: it has its type, the *)
(* count covers what is visible, and an outer syscall keeps its marker.        *)
MarkersAreSound == TypeOK /\ CountCoversVisible /\ OuterMarkerSurvives
=============================================================================
