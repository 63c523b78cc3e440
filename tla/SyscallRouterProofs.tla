------------------------- MODULE SyscallRouterProofs -------------------------
(***************************************************************************)
(* The marker table of the KUSER dispatcher bridge for every finite set of   *)
(* threads, table capacity, stack depth and number of syscalls: a reserved   *)
(* slot has one owner, and a thread in the bridge or in the handler has the  *)
(* call it works on. Then nesting, when marked stubs are reached through the *)
(* bridge only: an outer syscall keeps its marker while Reflex works on it,  *)
(* and a replay restores its own context.                                    *)
(***************************************************************************)
EXTENDS SyscallRouter, TLAPS

(* The type invariant, but for the count of markers. *)
Entry == [stack : 0..Reserved, tid : Threads \cup {"none"}, rip : Rips \cup {"none"},
          phase : 0..1, saved : Ids]
Outcome == [way : {"none", "dispatcher", "replayed", "bypassed", "completed", "forwarded", "routed"},
            id : Ids, restored : Ids]
Labels == {"run", "retire", "clear", "uncount", "reserve", "count", "publish", "trap",
           "bridged", "unbridged"}

Types ==
  /\ table \in [Slots -> Entry]
  /\ pc \in [Threads -> Labels]
  /\ cur \in [Threads -> CallType]
  /\ frames \in [Threads -> Seq(CallType)]
  /\ slot \in [Threads -> Slots]
  /\ cont \in [Threads -> {"none", "run", "retire"}]
  /\ outcome \in [Threads -> Outcome]
  /\ syscalls \in Ids

(* A thread that works on a reserved slot works on it alone; one on its way    *)
(* into Reflex has its marker.                                                 *)
HoldsSlot(t) == pc[t] \in {"count", "publish", "clear"}
InBridge(t) ==
  \/ pc[t] \in {"retire", "reserve", "count", "publish"}
  \/ pc[t] \in {"clear", "uncount"} /\ cont[t] = "retire"
Trapped(t) == pc[t] \in {"trap", "bridged", "unbridged"}

SlotsOK ==
  /\ \A t \in Threads : HoldsSlot(t) => table[slot[t]].stack = Reserved
  /\ \A t, u \in Threads : HoldsSlot(t) /\ HoldsSlot(u) /\ slot[t] = slot[u] => t = u
  /\ \A t \in Threads : pc[t] = "bridged" => Matches(t, slot[t])
  /\ \A t \in Threads : pc[t] \in {"clear", "uncount"} => cont[t] \in {"run", "retire"}
CallsOK ==
  /\ \A t \in Threads : InBridge(t) => cur[t].stack \in Stacks /\ ~cur[t].replay
  /\ \A t \in Threads : Trapped(t) /\ cur[t].replay => frames[t] # << >>

BaseInv == Types /\ SlotsOK /\ CallsOK

-----------------------------------------------------------------------------
(* The constants. *)
LEMMA Bounds ==
  /\ Capacity \in Nat /\ MaxStack \in Nat /\ MaxSyscalls \in Nat
  /\ 1 \in Slots /\ Reserved \in Nat /\ Reserved \notin Stacks /\ Reserved # 0 /\ 0 \notin Stacks
  /\ Stacks \subseteq 1..Reserved /\ 0 \in Ids
  BY RouterAssumption DEF RouterAssumption, Slots, Stacks, Reserved, Ids

(* No outcome is one. *)
LEMMA NoResultType == NoResult \in Outcome
  BY Bounds, Zenon DEF NoResult, Outcome

(* Nobody but t moves. *)
Others(t) ==
  \A u \in Threads \ {t} :
    /\ pc'[u] = pc[u] /\ cur'[u] = cur[u] /\ frames'[u] = frames[u]
    /\ slot'[u] = slot[u] /\ cont'[u] = cont[u] /\ outcome'[u] = outcome[u]

(* Steps that leave the table alone leave the reserved slots to their owners. *)
LEMMA QuietSlots ==
  ASSUME SlotsOK, NEW t \in Threads, Others(t), UNCHANGED table,
         pc'[t] \in {"run", "retire", "trap", "unbridged", "reserve"}
  PROVE  SlotsOK'
<1>1. ~HoldsSlot(t)' /\ \A u \in Threads \ {t} : HoldsSlot(u)' <=> HoldsSlot(u)
  BY Zenon DEF HoldsSlot, Others
<1>3. \A u \in Threads \ {t} : slot'[u] = slot[u] /\ pc'[u] = pc[u] /\ cont'[u] = cont[u]
  BY Zenon DEF Others
<1>4. \A u \in Threads \ {t} : Matches(u, slot[u])' <=> Matches(u, slot[u])
  BY <1>3, Zenon DEF Matches, Mine, Visible, Others
<1> QED
  BY <1>1, <1>3, <1>4 DEF SlotsOK

-----------------------------------------------------------------------------
(* A call is made: its depth is below the frames, as far as they go. *)
LEMMA NewCallBase ==
  ASSUME BaseInv, NEW t \in Threads, NEW rips \in SUBSET Rips,
         NEW first \in {"retire", "trap"}, NewCall(t, rips, first)
  PROVE  BaseInv'
<1> USE DEF BaseInv
<1>0. pc[t] = "run" /\ syscalls + 1 \in Ids /\ syscalls' = syscalls + 1
  BY Bounds DEF NewCall, Types, Ids
<1>1. PICK s \in 1..StackLimit(t), r \in rips, m \in BOOLEAN :
        cur' = [cur EXCEPT ![t] = [stack |-> s, rip |-> r, id |-> syscalls + 1,
                                   magic |-> m, replay |-> FALSE]]
  BY Zenon DEF NewCall
<1>2. s \in Stacks
  <2>1. frames[t] \in Seq(CallType)
    BY Zenon DEF Types
  <2>2. CASE frames[t] = << >>
    BY <2>2, Bounds, Zenon DEF StackLimit, Stacks
  <2>3. CASE frames[t] # << >>
    <3>1. Len(frames[t]) \in 1..Len(frames[t])
      BY <2>1, <2>3
    <3>2. Top(t) \in CallType
      BY <2>1, <3>1 DEF Top
    <3>3. Top(t).stack \in 0..MaxStack
      BY <3>2, Zenon DEF CallType
    <3> QED
      BY <2>3, <3>3, Bounds DEF StackLimit, Stacks
  <2> QED
    BY <2>2, <2>3, Zenon
<1>3. [stack |-> s, rip |-> r, id |-> syscalls + 1, magic |-> m, replay |-> FALSE] \in CallType
  BY <1>0, <1>2, Bounds DEF CallType, Stacks
<1>4. /\ Others(t) /\ cur'[t].stack = s /\ cur'[t].replay = FALSE /\ pc'[t] = first
      /\ UNCHANGED <<table, active>>
  BY <1>1 DEF NewCall, Others, Types, Goto, tableVars
<1>5. Types'
  <2>1. cur' \in [Threads -> CallType]
    BY <1>1, <1>3, Zenon DEF Types
  <2>2. pc' \in [Threads -> Labels]
    BY Zenon DEF Types, NewCall, Goto, Labels
  <2>3. outcome' \in [Threads -> Outcome]
    BY NoResultType, Zenon DEF Types, NewCall
  <2> QED
    BY <1>0, <2>1, <2>2, <2>3, Zenon DEF Types, NewCall, tableVars
<1>7. SlotsOK'
  BY <1>4, QuietSlots, Zenon
<1>8. CallsOK'
  BY <1>2, <1>4 DEF CallsOK, InBridge, Trapped, Others
<1> QED
  BY <1>5, <1>7, <1>8, Zenon

(* Reflex works: it replays its innermost syscall, or answers it. *)
LEMMA ReflexBase ==
  ASSUME BaseInv, NEW t \in Threads, ReflexReplays(t) \/ ReflexAnswers(t)
  PROVE  BaseInv'
<1> USE DEF BaseInv
<1>1. /\ pc[t] = "run" /\ frames[t] # << >> /\ frames[t] \in Seq(CallType)
      /\ UNCHANGED <<table, active>>
  BY Zenon DEF ReflexReplays, ReflexAnswers, Types, tableVars
<1>2. Top(t) \in CallType /\ Pop(t) \in Seq(CallType)
  <2>1. Len(frames[t]) \in 1..Len(frames[t])
    BY <1>1
  <2> QED
    BY <1>1, <2>1 DEF Top, Pop
<1>3. Others(t) /\ pc'[t] \in {"run", "trap"} /\ (pc'[t] = "trap" => frames'[t] = frames[t])
  BY <1>1 DEF ReflexReplays, ReflexAnswers, Others, Types, Goto
<1>4. Types'
  <2>1. cur' \in [Threads -> CallType]
    <3>1. [Top(t) EXCEPT !.magic = TRUE, !.replay = TRUE] \in CallType
      BY <1>2, Zenon DEF CallType
    <3> QED
      BY <3>1, Zenon DEF ReflexReplays, ReflexAnswers, Types
  <2>2. frames' \in [Threads -> Seq(CallType)]
    BY <1>2, Zenon DEF ReflexReplays, ReflexAnswers, Types
  <2>3. pc' \in [Threads -> Labels]
    BY Zenon DEF Types, ReflexReplays, ReflexAnswers, Goto, Labels
  <2>4. outcome' \in [Threads -> Outcome]
    BY NoResultType, Zenon DEF Types, ReflexReplays, ReflexAnswers
  <2> QED
    BY <1>1, <2>1, <2>2, <2>3, <2>4, Zenon DEF Types, ReflexReplays, ReflexAnswers
<1>6. SlotsOK'
  BY <1>1, <1>3, QuietSlots, Zenon
<1>7. CallsOK'
  BY <1>1, <1>3 DEF CallsOK, InBridge, Trapped, Others
<1> QED
  BY <1>4, <1>6, <1>7, Zenon

(* A syscall leaves; a replayed one takes its frame with it. *)
LEMMA DoneTypes ==
  ASSUME BaseInv, NEW t \in Threads, NEW way, NEW restored \in Ids,
         way \in {"dispatcher", "replayed", "bypassed", "completed", "forwarded"},
         InBridge(t) \/ Trapped(t), Done(t, way, restored)
  PROVE  /\ frames' \in [Threads -> Seq(CallType)] /\ outcome' \in [Threads -> Outcome]
         /\ \A u \in Threads \ {t} : frames'[u] = frames[u] /\ outcome'[u] = outcome[u]
<1> USE DEF BaseInv
<1>1. [way |-> way, id |-> cur[t].id, restored |-> restored] \in Outcome
  BY Zenon DEF Types, CallType, Outcome
<1>2. frames[t] \in Seq(CallType) /\ (cur[t].replay => Pop(t) \in Seq(CallType))
  <2>1. cur[t].replay => frames[t] # << >>
    BY Zenon DEF CallsOK
  <2>2. frames[t] \in Seq(CallType)
    BY Zenon DEF Types
  <2> QED
    BY <2>1, <2>2 DEF Pop
<1> QED
  BY <1>1, <1>2, Zenon DEF Done, Types

(* release_marker begins: the slot leaves the visible ones, the count stays. *)
LEMMA ReleaseBase ==
  ASSUME BaseInv, NEW t \in Threads, NEW i \in Slots, NEW next \in {"run", "retire"},
         Mine(t, i), pc[t] \in {"retire", "trap", "bridged"},
         Release(t, i, next), Others(t), active' = active
  PROVE  /\ table' \in [Slots -> Entry] /\ pc' \in [Threads -> Labels]
         /\ slot' \in [Threads -> Slots] /\ cont' \in [Threads -> {"none", "run", "retire"}]
         /\ SlotsOK'
<1> USE DEF BaseInv
<1>1. /\ table' \in [Slots -> Entry] /\ pc' \in [Threads -> Labels]
      /\ slot' \in [Threads -> Slots] /\ cont' \in [Threads -> {"none", "run", "retire"}]
  <2>1. table[i] \in Entry /\ Reserved \in 0..Reserved
    BY Bounds DEF Types
  <2>2. [table[i] EXCEPT !.stack = Reserved] \in Entry
    BY <2>1, Zenon DEF Entry
  <2> QED
    BY <2>2, Zenon DEF Types, Release, Goto, Labels
<1>2. /\ \A j \in Slots \ {i} : table'[j] = table[j]
      /\ table'[i].stack = Reserved /\ slot'[t] = i /\ cont'[t] = next /\ pc'[t] = "clear"
  BY Zenon DEF Types, Release, Goto, Entry
<1>4. SlotsOK'
  <2>1. \A u \in Threads \ {t} : HoldsSlot(u)' <=> HoldsSlot(u)
    BY Zenon DEF HoldsSlot, Others
  <2>2. \A u \in Threads : HoldsSlot(u) => slot[u] # i
    BY Bounds, Zenon DEF SlotsOK, Mine, Visible
  <2>3. \A u \in Threads \ {t} : slot'[u] = slot[u] /\ pc'[u] = pc[u] /\ cont'[u] = cont[u]
                                 /\ cur'[u] = cur[u] /\ slot[u] \in Slots
    BY Zenon DEF Others, Types
  <2>4. ASSUME NEW u \in Threads \ {t}, pc[u] = "bridged" PROVE Matches(u, slot[u])'
    <3>1. Matches(u, slot[u])
      BY <2>4, Zenon DEF SlotsOK
    <3>2. slot[u] # i
      BY <3>1, Zenon DEF Matches, Mine
    <3> QED
      BY <1>2, <2>3, <3>1, <3>2 DEF Matches, Mine, Visible
  <2>5. \A u \in Threads \ {t} : HoldsSlot(u) => table'[slot'[u]].stack = Reserved /\ slot'[u] # i
    BY <1>2, <2>2, <2>3 DEF SlotsOK
  <2>6. \A u \in Threads : pc'[u] = "bridged" => Matches(u, slot[u])'
    BY <1>2, <2>3, <2>4, Zenon
  <2>7. \A u \in Threads : pc'[u] \in {"clear", "uncount"} => cont'[u] \in {"run", "retire"}
    BY <1>2, <2>3, Zenon DEF SlotsOK
  <2>8. \A u, v \in Threads : HoldsSlot(u)' /\ HoldsSlot(v)' /\ slot'[u] = slot'[v] => u = v
    BY <1>2, <2>1, <2>3, <2>5 DEF SlotsOK
  <2>9. \A u \in Threads : HoldsSlot(u)' => table'[slot'[u]].stack = Reserved
    BY <1>2, <2>1, <2>5, Zenon
  <2> QED
    BY <2>6, <2>7, <2>8, <2>9, Zenon DEF SlotsOK
<1> QED
  BY <1>1, <1>4, Zenon

(* The slot is cleared and freed ... *)
LEMMA ClearBase ==
  ASSUME BaseInv, NEW t \in Threads, ClearSlot(t)
  PROVE  BaseInv'
<1> USE DEF BaseInv
<1>0. pc[t] = "clear" /\ slot[t] \in Slots /\ table[slot[t]].stack = Reserved /\ HoldsSlot(t)
  BY Zenon DEF ClearSlot, Types, SlotsOK, HoldsSlot
<1>1. Empty \in Entry /\ Empty.stack = 0
  BY Bounds DEF Empty, Entry
<1>2. Types'
  BY <1>1, Zenon DEF Types, ClearSlot, Goto, Labels
<1>3. /\ \A j \in Slots \ {slot[t]} : table'[j] = table[j]
      /\ table'[slot[t]] = Empty /\ pc'[t] = "uncount" /\ Others(t)
      /\ UNCHANGED <<active, cur, frames, slot, cont>>
  BY Zenon DEF Types, ClearSlot, Goto, Others
<1>5. SlotsOK'
  <2>1. ~HoldsSlot(t)' /\ \A u \in Threads \ {t} : HoldsSlot(u)' <=> HoldsSlot(u)
    BY <1>3, Zenon DEF HoldsSlot, Others
  <2>2. \A u \in Threads \ {t} : HoldsSlot(u) => slot[u] # slot[t]
    BY <1>0, Zenon DEF SlotsOK
  <2>3. ASSUME NEW u \in Threads, pc'[u] = "bridged" PROVE Matches(u, slot[u])'
    <3>1. u # t /\ Matches(u, slot[u]) /\ slot[u] \in Slots
      BY <1>3, <2>3, Zenon DEF SlotsOK, Others, Types
    <3>2. slot[u] # slot[t]
      BY <1>0, <3>1, Bounds, Zenon DEF Matches, Mine, Visible
    <3> QED
      BY <1>3, <3>1, <3>2, Zenon DEF Matches, Mine, Visible
  <2>4. \A u \in Threads : HoldsSlot(u)' => table'[slot'[u]].stack = Reserved
    BY <1>3, <2>1, <2>2, Zenon DEF SlotsOK, Types
  <2>5. \A u \in Threads : pc'[u] \in {"clear", "uncount"} => cont'[u] \in {"run", "retire"}
    BY <1>0, <1>3, Zenon DEF SlotsOK, Others
  <2>6. \A u, v \in Threads : HoldsSlot(u)' /\ HoldsSlot(v)' /\ slot'[u] = slot'[v] => u = v
    BY <1>3, <2>1, Zenon DEF SlotsOK
  <2> QED
    BY <2>3, <2>4, <2>5, <2>6, Zenon DEF SlotsOK
<1>6. CallsOK'
  BY <1>0, <1>3 DEF CallsOK, InBridge, Trapped, Others
<1> QED
  BY <1>2, <1>5, <1>6, Zenon

(* ... and then uncounted. *)
LEMMA UncountBase ==
  ASSUME BaseInv, NEW t \in Threads, Uncount(t)
  PROVE  BaseInv'
<1> USE DEF BaseInv
<1>0. pc[t] = "uncount" /\ cont[t] \in {"run", "retire"}
  BY Zenon DEF Uncount, SlotsOK
<1>1. Others(t) /\ pc'[t] = cont[t] /\ UNCHANGED <<table, cur, frames, slot, cont>> /\ active' = active - 1
  BY Zenon DEF Uncount, Types, Goto, Others
<1>4. Types'
  BY <1>0, Zenon DEF Types, Uncount, Goto, Labels
<1>5. SlotsOK'
  BY <1>0, <1>1, QuietSlots, Zenon
<1>6. CallsOK'
  BY <1>0, <1>1, Zenon DEF CallsOK, InBridge, Trapped, Others
<1> QED
  BY <1>4, <1>5, <1>6, Zenon

(* dispatcher_target retires a marker, or is done with them. *)
LEMMA RetireBase ==
  ASSUME BaseInv, NEW t \in Threads, RetireMarkers(t)
  PROVE  BaseInv'
<1> USE DEF BaseInv
<1>0. pc[t] = "retire" /\ InBridge(t) /\ cur[t].stack \in Stacks /\ ~cur[t].replay
  BY Zenon DEF RetireMarkers, InBridge, CallsOK
<1>1. ASSUME NEW i \in Slots, ToRetire(t, i), Release(t, i, "retire"),
             UNCHANGED <<active, cur, frames, outcome, syscalls>>
      PROVE  BaseInv'
  <2>1. Others(t) /\ pc'[t] = "clear" /\ cont'[t] = "retire"
    BY <1>1, Zenon DEF Release, Goto, Types, Others
  <2>2. /\ table' \in [Slots -> Entry] /\ pc' \in [Threads -> Labels]
        /\ slot' \in [Threads -> Slots] /\ cont' \in [Threads -> {"none", "run", "retire"}]
        /\ SlotsOK'
    BY <1>0, <1>1, <2>1, ReleaseBase, Zenon DEF ToRetire
  <2>3. Types'
    BY <1>1, <2>2, Zenon DEF Types
  <2>4. CallsOK'
    BY <1>0, <1>1, <2>1, Zenon DEF CallsOK, InBridge, Trapped, Others
  <2> QED
    BY <2>2, <2>3, <2>4, Zenon
<1>2. ASSUME Goto(t, "reserve"), UNCHANGED <<tableVars, cur, frames, slot, cont, outcome, syscalls>>
      PROVE  BaseInv'
  <2>1. Others(t) /\ pc'[t] = "reserve" /\ UNCHANGED <<table, active, cur, frames>>
    BY <1>2, Zenon DEF Goto, Types, Others, tableVars
  <2>2. Types'
    BY <1>2, Zenon DEF Types, Goto, Labels, tableVars
  <2>3. SlotsOK'
    BY <1>0, <2>1, QuietSlots, Zenon
  <2>4. CallsOK'
    BY <1>0, <2>1, Zenon DEF CallsOK, InBridge, Trapped, Others
  <2> QED
    BY <2>2, <2>3, <2>4, Zenon
<1>3. ASSUME Goto(t, "run"), Done(t, "dispatcher", 0), UNCHANGED <<tableVars, cur, slot, cont, syscalls>>
      PROVE  BaseInv'
  <2>1. /\ frames' \in [Threads -> Seq(CallType)] /\ outcome' \in [Threads -> Outcome]
        /\ \A u \in Threads \ {t} : frames'[u] = frames[u] /\ outcome'[u] = outcome[u]
    BY <1>0, <1>3, DoneTypes, Bounds, Zenon
  <2>2. Others(t) /\ pc'[t] = "run" /\ UNCHANGED <<table, active, cur>>
    BY <1>3, <2>1, Zenon DEF Goto, Types, Others, tableVars
  <2>3. Types'
    BY <1>3, <2>1, Zenon DEF Types, Goto, Labels, tableVars
  <2>4. SlotsOK'
    BY <1>0, <2>2, QuietSlots, Zenon
  <2>5. CallsOK'
    BY <1>0, <2>2 DEF CallsOK, InBridge, Trapped, Others
  <2> QED
    BY <2>3, <2>4, <2>5, Zenon
<1> QED
  BY <1>1, <1>2, <1>3, Zenon DEF RetireMarkers

(* A free slot is reserved, or the table is full. *)
LEMMA ReserveBase ==
  ASSUME BaseInv, NEW t \in Threads, ReserveSlot(t)
  PROVE  BaseInv'
<1> USE DEF BaseInv
<1>0. /\ pc[t] = "reserve" /\ InBridge(t) /\ cur[t].stack \in Stacks /\ ~cur[t].replay
      /\ UNCHANGED <<active, cur, cont, syscalls>>
  BY Zenon DEF ReserveSlot, InBridge, CallsOK
<1>1. ASSUME NEW i \in Slots, table[i].stack = 0,
             table' = [table EXCEPT ![i].stack = Reserved], slot' = [slot EXCEPT ![t] = i],
             Goto(t, "count"), UNCHANGED <<frames, outcome>>
      PROVE  BaseInv'
  <2>1. /\ Others(t) /\ pc'[t] = "count" /\ slot'[t] = i
        /\ \A j \in Slots \ {i} : table'[j] = table[j]
        /\ table'[i].stack = Reserved
    BY <1>0, <1>1 DEF Goto, Types, Others, Entry
  <2>2. Types'
    <3>1. table[i] \in Entry /\ Reserved \in 0..Reserved
      BY Bounds DEF Types
    <3>2. [table[i] EXCEPT !.stack = Reserved] \in Entry
      BY <3>1, Zenon DEF Entry
    <3>3. table' \in [Slots -> Entry]
      BY <1>1, <3>2, Zenon DEF Types
    <3> QED
      BY <1>0, <1>1, <3>3, Zenon DEF Types, Goto, Labels
  <2>4. SlotsOK'
    <3>1. \A u \in Threads \ {t} : HoldsSlot(u)' <=> HoldsSlot(u)
      BY <2>1, Zenon DEF HoldsSlot, Others
    <3>2. \A u \in Threads \ {t} : HoldsSlot(u) => slot[u] # i
      BY <1>1, Bounds, Zenon DEF SlotsOK
    <3>3. \A u \in Threads \ {t} : slot'[u] = slot[u] /\ pc'[u] = pc[u] /\ cont'[u] = cont[u]
                                   /\ cur'[u] = cur[u] /\ slot[u] \in Slots
      BY <2>1, Zenon DEF Others, Types
    <3>4. ASSUME NEW u \in Threads, pc'[u] = "bridged" PROVE Matches(u, slot[u])'
      <4>1. u # t /\ Matches(u, slot[u])
        BY <2>1, <3>3, <3>4, Zenon DEF SlotsOK
      <4>2. slot[u] # i
        BY <1>1, <4>1, Bounds, Zenon DEF Matches, Mine, Visible
      <4> QED
        BY <2>1, <3>3, <4>1, <4>2 DEF Matches, Mine, Visible
    <3>5. \A u \in Threads \ {t} : HoldsSlot(u)' => table'[slot'[u]].stack = Reserved /\ slot'[u] # i
      BY <2>1, <3>1, <3>2, <3>3 DEF SlotsOK, Others
    <3>6. \A u \in Threads : HoldsSlot(u)' => table'[slot'[u]].stack = Reserved
      BY <2>1, <3>5, Zenon
    <3>7. \A u, v \in Threads : HoldsSlot(u)' /\ HoldsSlot(v)' /\ slot'[u] = slot'[v] => u = v
      BY <2>1, <3>1, <3>3, <3>5 DEF SlotsOK, HoldsSlot
    <3>8. \A u \in Threads : pc'[u] \in {"clear", "uncount"} => cont'[u] \in {"run", "retire"}
      BY <2>1, <3>3, Zenon DEF SlotsOK
    <3> QED
      BY <3>4, <3>6, <3>7, <3>8, Zenon DEF SlotsOK
  <2>5. CallsOK'
    BY <1>0, <1>1, <2>1, Zenon DEF CallsOK, InBridge, Trapped, Others
  <2> QED
    BY <2>2, <2>4, <2>5, Zenon
<1>2. ASSUME Goto(t, "run"), Done(t, "dispatcher", 0), UNCHANGED <<table, slot>>
      PROVE  BaseInv'
  <2>1. /\ frames' \in [Threads -> Seq(CallType)] /\ outcome' \in [Threads -> Outcome]
        /\ \A u \in Threads \ {t} : frames'[u] = frames[u] /\ outcome'[u] = outcome[u]
    BY <1>0, <1>2, DoneTypes, Bounds, Zenon
  <2>2. Others(t) /\ pc'[t] = "run" /\ UNCHANGED <<table, active, cur>>
    BY <1>0, <1>2, <2>1, Zenon DEF Goto, Types, Others
  <2>3. Types'
    BY <1>0, <1>2, <2>1, Zenon DEF Types, Goto, Labels
  <2>4. SlotsOK'
    BY <1>0, <2>2, QuietSlots, Zenon
  <2>5. CallsOK'
    BY <1>0, <2>2 DEF CallsOK, InBridge, Trapped, Others
  <2> QED
    BY <2>3, <2>4, <2>5, Zenon
<1> QED
  BY <1>1, <1>2, Zenon DEF ReserveSlot

(* The reserved slot is counted, and then published. *)
LEMMA PublishBase ==
  ASSUME BaseInv, NEW t \in Threads, CountMarker(t) \/ PublishMarker(t)
  PROVE  BaseInv'
<1> USE DEF BaseInv
<1>0. /\ HoldsSlot(t) /\ InBridge(t) /\ cur[t].stack \in Stacks /\ ~cur[t].replay
      /\ slot[t] \in Slots /\ table[slot[t]].stack = Reserved
  BY Zenon DEF CountMarker, PublishMarker, HoldsSlot, InBridge, CallsOK, SlotsOK, Types
<1>1. CASE CountMarker(t)
  <2>1. /\ Others(t) /\ pc[t] = "count" /\ pc'[t] = "publish" /\ active' = active + 1
        /\ UNCHANGED <<table, cur, frames, slot, cont>>
    BY <1>1, Zenon DEF CountMarker, Goto, Types, Others
  <2>2. Types'
    BY <1>1, Zenon DEF CountMarker, Types, Goto, Labels
  <2>4. SlotsOK'
    <3>1. \A u \in Threads : HoldsSlot(u)' <=> HoldsSlot(u)
      BY <2>1, Zenon DEF HoldsSlot, Others
    <3>2. \A u \in Threads : /\ pc'[u] = "bridged" <=> pc[u] = "bridged"
                             /\ pc'[u] \in {"clear", "uncount"} <=> pc[u] \in {"clear", "uncount"}
      BY <2>1, Zenon DEF Others
    <3> QED
      BY <2>1, <3>1, <3>2, Zenon DEF SlotsOK, Matches, Mine, Visible
  <2>5. CallsOK'
    BY <1>0, <2>1, Zenon DEF CallsOK, InBridge, Trapped, Others
  <2> QED
    BY <2>2, <2>4, <2>5, Zenon
<1>2. CASE PublishMarker(t)
  <2>1. /\ Others(t) /\ pc[t] = "publish" /\ pc'[t] = "trap"
        /\ \A j \in Slots \ {slot[t]} : table'[j] = table[j]
        /\ table'[slot[t]].stack = cur[t].stack
        /\ UNCHANGED <<active, cur, frames, slot, cont>>
    BY <1>0, <1>2, Zenon DEF PublishMarker, Goto, Types, Others
  <2>2. Types'
    <3>1. [stack |-> cur[t].stack, tid |-> t, rip |-> cur[t].rip, phase |-> 0, saved |-> 0] \in Entry
      BY <1>0, Bounds DEF Types, CallType, Entry
    <3> QED
      BY <1>2, <3>1, Zenon DEF PublishMarker, Types, Goto, Labels
  <2>4. SlotsOK'
    <3>1. ~HoldsSlot(t)' /\ \A u \in Threads \ {t} : HoldsSlot(u)' <=> HoldsSlot(u)
      BY <2>1, Zenon DEF HoldsSlot, Others
    <3>2. \A u \in Threads \ {t} : HoldsSlot(u) => slot[u] # slot[t]
      BY <1>0, Zenon DEF SlotsOK
    <3>3. ASSUME NEW u \in Threads, pc'[u] = "bridged" PROVE Matches(u, slot[u])'
      <4>1. u # t /\ Matches(u, slot[u]) /\ slot[u] \in Slots
        BY <2>1, <3>3, Zenon DEF SlotsOK, Others, Types
      <4>2. slot[u] # slot[t]
        BY <1>0, <4>1, Bounds, Zenon DEF Matches, Mine, Visible
      <4> QED
        BY <2>1, <4>1, <4>2, Zenon DEF Matches, Mine, Visible
    <3>4. \A u \in Threads : HoldsSlot(u)' => table'[slot'[u]].stack = Reserved
      BY <2>1, <3>1, <3>2, Zenon DEF SlotsOK, Types
    <3>5. \A u \in Threads : pc'[u] \in {"clear", "uncount"} => cont'[u] \in {"run", "retire"}
      BY <2>1, Zenon DEF SlotsOK, Others
    <3>6. \A u, v \in Threads : HoldsSlot(u)' /\ HoldsSlot(v)' /\ slot'[u] = slot'[v] => u = v
      BY <2>1, <3>1, Zenon DEF SlotsOK
    <3> QED
      BY <3>3, <3>4, <3>5, <3>6, Zenon DEF SlotsOK
  <2>5. CallsOK'
    BY <1>0, <2>1, Zenon DEF CallsOK, InBridge, Trapped, Others
  <2> QED
    BY <2>2, <2>4, <2>5, Zenon
<1> QED
  BY <1>1, <1>2, Zenon

(* A trapped syscall leaves, and its marker, if it has one, is released. *)
LEMMA LeaveBase ==
  ASSUME BaseInv, NEW t \in Threads, NEW way, NEW restored \in Ids,
         way \in {"replayed", "bypassed", "completed", "forwarded"},
         Trapped(t), Done(t, way, restored), UNCHANGED <<active, cur, syscalls>>,
         \/ \E i \in Slots : Mine(t, i) /\ Release(t, i, "run") /\ pc[t] \in {"trap", "bridged"}
         \/ Goto(t, "run") /\ UNCHANGED <<table, slot, cont>>
  PROVE  BaseInv'
<1> USE DEF BaseInv
<1>1. /\ frames' \in [Threads -> Seq(CallType)] /\ outcome' \in [Threads -> Outcome]
      /\ \A u \in Threads \ {t} : frames'[u] = frames[u] /\ outcome'[u] = outcome[u]
  BY DoneTypes, Zenon
<1>2. CASE \E i \in Slots : Mine(t, i) /\ Release(t, i, "run") /\ pc[t] \in {"trap", "bridged"}
  <2>1. PICK i \in Slots : Mine(t, i) /\ Release(t, i, "run") /\ pc[t] \in {"trap", "bridged"}
    BY <1>2, Zenon
  <2>2. Others(t) /\ pc'[t] = "clear" /\ cont'[t] = "run"
    BY <1>1, <2>1 DEF Release, Goto, Types, Others
  <2>3. /\ table' \in [Slots -> Entry] /\ pc' \in [Threads -> Labels]
        /\ slot' \in [Threads -> Slots] /\ cont' \in [Threads -> {"none", "run", "retire"}]
        /\ SlotsOK'
    BY <2>1, <2>2, ReleaseBase, Zenon
  <2>4. Types'
    BY <1>1, <2>3, Zenon DEF Types
  <2>5. CallsOK'
    BY <2>2 DEF CallsOK, InBridge, Trapped, Others
  <2> QED
    BY <2>3, <2>4, <2>5, Zenon
<1>3. CASE Goto(t, "run") /\ UNCHANGED <<table, slot, cont>>
  <2>1. Others(t) /\ pc'[t] = "run"
    BY <1>1, <1>3, Zenon DEF Goto, Types, Others
  <2>2. Types'
    BY <1>1, <1>3, Zenon DEF Types, Goto, Labels
  <2>3. SlotsOK'
    BY <1>3, <2>1, QuietSlots, Zenon
  <2>4. CallsOK'
    BY <2>1 DEF CallsOK, InBridge, Trapped, Others
  <2> QED
    BY <2>2, <2>3, <2>4, Zenon
<1> QED
  BY <1>2, <1>3, Zenon

(* A marker whose first trap was recorded is a marker. *)
LEMMA Recorded ==
  ASSUME NEW e \in Entry, NEW d \in Ids
  PROVE  [e EXCEPT !.phase = 1, !.saved = d] \in Entry
<1>1. [e EXCEPT !.phase = 1] \in Entry
  BY DEF Entry
<1>2. [[e EXCEPT !.phase = 1] EXCEPT !.saved = d] \in Entry
  BY <1>1, Zenon DEF Entry
<1> QED
  BY <1>2, Zenon

(* The SIGSYS handler: a marker's second trap, its first, or no marker. *)
LEMMA ConsumeBase ==
  ASSUME BaseInv, NEW t \in Threads, ConsumeReplay(t) \/ ConsumeRoute(t) \/ ConsumeNone(t)
  PROVE  BaseInv'
<1> USE DEF BaseInv
<1>0. pc[t] = "trap" /\ Trapped(t)
  BY Zenon DEF ConsumeReplay, ConsumeRoute, ConsumeNone, Trapped
<1>00. \A i \in Found(t) : i \in Slots /\ Matches(t, i)
  BY Zenon DEF Found
<1>1. CASE ConsumeReplay(t)
  <2>1. PICK i \in Found(t) : Release(t, i, "run") /\ Done(t, "replayed", table[i].saved)
    BY <1>1, Zenon DEF ConsumeReplay
  <2>2. i \in Slots /\ Mine(t, i) /\ table[i].saved \in Ids
    BY <1>00, Zenon DEF Matches, Types, Entry
  <2> QED
    BY <1>0, <1>1, <2>1, <2>2, LeaveBase, Zenon DEF ConsumeReplay
<1>2. CASE ConsumeRoute(t)
  <2>1. PICK i \in Found(t) :
          /\ table' = [table EXCEPT ![i].phase = 1, ![i].saved = cur[t].id]
          /\ slot' = [slot EXCEPT ![t] = i]
    BY <1>2, Zenon DEF ConsumeRoute
  <2>2. i \in Slots /\ Matches(t, i) /\ table[i] \in Entry
    BY <1>00, Zenon DEF Types
  <2>3. /\ Others(t) /\ pc'[t] = "bridged" /\ slot'[t] = i
        /\ UNCHANGED <<active, cur, frames, cont>>
    BY <1>2, <2>1, <2>2 DEF ConsumeRoute, Goto, Types, Others
  <2>4. /\ \A j \in Slots \ {i} : table'[j] = table[j]
        /\ table'[i] \in Entry
        /\ table'[i].stack = table[i].stack /\ table'[i].tid = table[i].tid /\ table'[i].rip = table[i].rip
    <3>1. table'[i] = [table[i] EXCEPT !.phase = 1, !.saved = cur[t].id]
      BY <2>1, <2>2, Zenon DEF Types
    <3>2. cur[t].id \in Ids
      BY Zenon DEF Types, CallType
    <3>3. [table[i] EXCEPT !.phase = 1, !.saved = cur[t].id] \in Entry
      BY <2>2, <3>2, Recorded, Zenon
    <3>4. table'[i].stack = table[i].stack /\ table'[i].tid = table[i].tid /\ table'[i].rip = table[i].rip
      BY <2>2, <3>1, Zenon DEF Entry
    <3> QED
      BY <2>1, <2>2, <3>1, <3>3, <3>4, Zenon DEF Types
  <2>5. Types'
    <3>1. table' \in [Slots -> Entry]
      BY <2>1, <2>2, <2>4, Zenon DEF Types
    <3> QED
      BY <1>2, <2>1, <2>2, <3>1, Zenon DEF ConsumeRoute, Types, Goto, Labels
  <2>6. \A j \in Slots : Visible(j)' <=> Visible(j)
    BY <2>4, Zenon DEF Visible
  <2>8. SlotsOK'
    <3>1. ~HoldsSlot(t)' /\ \A u \in Threads \ {t} : HoldsSlot(u)' <=> HoldsSlot(u)
      BY <2>3, Zenon DEF HoldsSlot, Others
    <3>2. \A j \in Slots : /\ table'[j].stack = table[j].stack /\ table'[j].tid = table[j].tid
                           /\ table'[j].rip = table[j].rip
      BY <2>4, Zenon
    <3>3. \A u \in Threads \ {t} : slot'[u] = slot[u] /\ pc'[u] = pc[u] /\ cont'[u] = cont[u]
                                   /\ cur'[u] = cur[u] /\ slot[u] \in Slots
      BY <2>3, Zenon DEF Others, Types
    <3>4. ASSUME NEW u \in Threads, pc'[u] = "bridged" PROVE Matches(u, slot[u])'
      <4>1. CASE u = t
        BY <2>2, <2>3, <3>2, <4>1 DEF Matches, Mine, Visible
      <4>2. CASE u # t
        <5>1. Matches(u, slot[u]) /\ slot'[u] = slot[u] /\ cur'[u] = cur[u] /\ slot[u] \in Slots
          BY <3>3, <3>4, <4>2, Zenon DEF SlotsOK
        <5> QED
          BY <3>2, <5>1, Zenon DEF Matches, Mine, Visible
      <4> QED
        BY <4>1, <4>2, Zenon
    <3>5. \A u \in Threads : HoldsSlot(u)' => table'[slot'[u]].stack = Reserved
      BY <3>1, <3>2, <3>3 DEF SlotsOK
    <3>6. \A u, v \in Threads : HoldsSlot(u)' /\ HoldsSlot(v)' /\ slot'[u] = slot'[v] => u = v
      BY <3>1, <3>3 DEF SlotsOK
    <3>7. \A u \in Threads : pc'[u] \in {"clear", "uncount"} => cont'[u] \in {"run", "retire"}
      BY <2>3, <3>3, Zenon DEF SlotsOK
    <3> QED
      BY <3>4, <3>5, <3>6, <3>7, Zenon DEF SlotsOK
  <2>9. CallsOK'
    BY <1>0, <2>3, Zenon DEF CallsOK, InBridge, Trapped, Others
  <2> QED
    BY <2>5, <2>8, <2>9, Zenon
<1>3. CASE ConsumeNone(t)
  <2>1. /\ Others(t) /\ pc'[t] = "unbridged" /\ UNCHANGED <<table, active, cur, frames>>
    BY <1>3, Zenon DEF ConsumeNone, Goto, Types, Others, tableVars
  <2>2. Types'
    BY <1>3, Zenon DEF ConsumeNone, Types, Goto, Labels, tableVars
  <2>3. SlotsOK'
    BY <1>0, <2>1, QuietSlots, Zenon
  <2>4. CallsOK'
    BY <1>0, <2>1 DEF CallsOK, InBridge, Trapped, Others
  <2> QED
    BY <2>2, <2>3, <2>4, Zenon
<1> QED
  BY <1>1, <1>2, <1>3, Zenon

(* The handler passes the syscall on: to Wine, or into Reflex. *)
LEMMA PassOnBase ==
  ASSUME BaseInv, NEW t \in Threads, Bypass(t) \/ ForwardToWine(t) \/ RouteToReflex(t)
  PROVE  BaseInv'
<1> USE DEF BaseInv
<1>0. Trapped(t) /\ pc[t] \in {"bridged", "unbridged"}
  BY Zenon DEF Bypass, ForwardToWine, RouteToReflex, Trapped
<1>1. CASE Bypass(t) \/ ForwardToWine(t)
  <2>1. PICK way \in {"bypassed", "completed", "forwarded"} : Done(t, way, 0)
    BY <1>1, Zenon DEF Bypass, ForwardToWine
  <2>2. \/ \E i \in Slots : Mine(t, i) /\ Release(t, i, "run") /\ pc[t] \in {"trap", "bridged"}
        \/ Goto(t, "run") /\ UNCHANGED <<table, slot, cont>>
    <3>1. CASE pc[t] = "bridged" /\ Release(t, slot[t], "run")
      <4>1. slot[t] \in Slots /\ Mine(t, slot[t])
        BY <3>1, Zenon DEF SlotsOK, Matches, Types
      <4> QED
        BY <3>1, <4>1, Zenon
    <3> QED
      BY <1>1, <3>1, Zenon DEF Bypass, ForwardToWine
  <2>3. UNCHANGED <<active, cur, syscalls>>
    BY <1>1, Zenon DEF Bypass, ForwardToWine
  <2> QED
    BY <1>0, <2>1, <2>2, <2>3, LeaveBase, Bounds, Zenon
<1>2. CASE RouteToReflex(t)
  <2>1. /\ Others(t) /\ pc'[t] = "run" /\ UNCHANGED <<table, active, cur>>
    BY <1>2, Zenon DEF RouteToReflex, Goto, Types, Others, tableVars
  <2>2. Types'
    <3>1. Append(frames[t], cur[t]) \in Seq(CallType)
      BY DEF Types
    <3>2. frames' \in [Threads -> Seq(CallType)]
      BY <1>2, <3>1, Zenon DEF RouteToReflex, Types
    <3>3. [way |-> "routed", id |-> cur[t].id, restored |-> 0] \in Outcome
      BY Bounds, Zenon DEF Types, CallType, Outcome
    <3>4. outcome' \in [Threads -> Outcome]
      BY <1>2, <3>3, Zenon DEF RouteToReflex, Types
    <3> QED
      BY <1>2, <3>2, <3>4, Zenon DEF RouteToReflex, Types, Goto, Labels, tableVars
  <2>3. SlotsOK'
    BY <1>0, <2>1, QuietSlots, Zenon
  <2>4. CallsOK'
    BY <1>0, <2>1 DEF CallsOK, InBridge, Trapped, Others
  <2> QED
    BY <2>2, <2>3, <2>4, Zenon
<1> QED
  BY <1>1, <1>2, Zenon

(* An empty table. *)
LEMMA InitBase == Init => BaseInv
<1> SUFFICES ASSUME Init PROVE BaseInv
  BY Zenon
<1>1. Types
  <2>1. Empty \in Entry /\ NoCall \in CallType
    BY Bounds DEF Empty, Entry, NoCall, CallType
  <2> QED
    BY <2>1, NoResultType, Bounds DEF Init, Types, Labels
<1>3. SlotsOK /\ CallsOK
  BY Zenon DEF Init, SlotsOK, CallsOK, HoldsSlot, InBridge, Trapped
<1> QED
  BY <1>1, <1>3, Zenon DEF BaseInv

(* Every step. *)
LEMMA NextBase == BaseInv /\ [Next]_vars => BaseInv'
<1> SUFFICES ASSUME BaseInv, [Next]_vars PROVE BaseInv'
  BY Zenon
<1>1. CASE UNCHANGED vars
  BY <1>1 DEF vars, tableVars, BaseInv, Types, SlotsOK, CallsOK, HoldsSlot,
              InBridge, Trapped, Matches, Mine, Visible
<1>2. ASSUME NEW t \in Threads, CallDispatcher(t) \/ CallDirectly(t) PROVE BaseInv'
  BY <1>2, NewCallBase, Zenon DEF CallDispatcher, CallDirectly, Rips
<1> QED
  BY <1>1, <1>2, ReflexBase, ClearBase, UncountBase, RetireBase, ReserveBase, PublishBase,
     ConsumeBase, PassOnBase, Zenon DEF Next, Step


(* A call on its way from the bridge to its first trap. *)
Fresh(t) == pc[t] = "trap" /\ ~cur[t].replay /\ cur[t].rip = "marked"

(* A thread's markers are told apart by depth; one that was not consumed yet   *)
(* belongs to the trap its thread is in.                                       *)
Marks(t) ==
  /\ \A i \in Slots : Mine(t, i) =>
       /\ table[i].rip = "marked"
       /\ table[i].phase = 0 => Fresh(t) /\ table[i].stack = cur[t].stack
  /\ \A i, j \in Slots : Mine(t, i) /\ Mine(t, j) /\ table[i].stack = table[j].stack => i = j
  /\ Fresh(t) => \E i \in Slots : Matches(t, i) /\ table[i].phase = 0
  /\ pc[t] = "bridged" => table[slot[t]].phase = 1 /\ table[slot[t]].saved = cur[t].id
  /\ pc[t] \in {"reserve", "count", "publish"} =>
       \A i \in Slots : Mine(t, i) => table[i].stack > cur[t].stack

(* The frames go down the stack. *)
Ordered(t) ==
  /\ \A k \in 1..Len(frames[t]) : frames[t][k].stack \in Stacks
  /\ \A j, k \in 1..Len(frames[t]) : j < k => frames[t][k].stack < frames[t][j].stack

(* A new call is below every frame, a replayed one is the innermost frame. *)
Above(t) == \A k \in 1..Len(frames[t]) : frames[t][k].stack > cur[t].stack
Calls(t) ==
  /\ InBridge(t) => Above(t)
  /\ pc[t] \in {"reserve", "count", "publish", "bridged"} => cur[t].rip = "marked"
  /\ Trapped(t) /\ ~cur[t].replay => Above(t) /\ cur[t].stack \in Stacks
  /\ Trapped(t) /\ cur[t].replay =>
       /\ pc[t] # "bridged" /\ cur[t].magic
       /\ cur[t].stack = Top(t).stack /\ cur[t].rip = Top(t).rip /\ cur[t].id = Top(t).id
  /\ pc[t] = "unbridged" => cur[t].rip # "marked"

(* OuterMarkerSurvives and ReplayRestoresOwnContext for one thread. *)
KeptBy(t, i, call) ==
  /\ Mine(t, i)
  /\ table[i].stack = call.stack
  /\ table[i].rip = "marked"
  /\ table[i].phase = 1
  /\ table[i].saved = call.id
Kept(t) ==
  \A k \in 1..Len(frames[t]) :
    frames[t][k].rip = "marked" => \E i \in Slots : KeptBy(t, i, frames[t][k])
Restores(t) == outcome[t].way = "replayed" => outcome[t].restored = outcome[t].id

ThreadInv(t) == Marks(t) /\ Ordered(t) /\ Calls(t) /\ Kept(t) /\ Restores(t)
NestInv == \A t \in Threads : ThreadInv(t)

(* What the fast path relies on: with a count of zero there is no marker. *)
ZeroMeansNone == active = 0 => \A i \in Slots : ~Visible(i)

-----------------------------------------------------------------------------
(* u's markers are left alone. *)
SameMarks(u) ==
  \A i \in Slots : /\ Mine(u, i)' <=> Mine(u, i)
                   /\ Mine(u, i) => table'[i] = table[i]

(* A thread whose state and markers nobody touched. *)
LEMMA OthersKeep ==
  ASSUME BaseInv, NestInv, NEW t \in Threads, Others(t),
         \A u \in Threads \ {t} : SameMarks(u), ThreadInv(t)'
  PROVE  NestInv'
<1> SUFFICES ASSUME NEW u \in Threads \ {t} PROVE ThreadInv(u)'
  BY Zenon DEF NestInv
<1>1. /\ pc'[u] = pc[u] /\ cur'[u] = cur[u] /\ frames'[u] = frames[u]
      /\ slot'[u] = slot[u] /\ cont'[u] = cont[u] /\ outcome'[u] = outcome[u]
  BY Zenon DEF Others
<1>2. \A i \in Slots : /\ Mine(u, i)' <=> Mine(u, i)
                       /\ Mine(u, i) => table'[i] = table[i]
  BY Zenon DEF SameMarks
<1>3. Marks(u) /\ Ordered(u) /\ Calls(u) /\ Kept(u) /\ Restores(u)
  BY Zenon DEF NestInv, ThreadInv
<1>4. pc[u] = "bridged" => slot[u] \in Slots /\ Mine(u, slot[u])
  BY Zenon DEF BaseInv, SlotsOK, Matches, Types
<1>5. (Fresh(u)' <=> Fresh(u)) /\ (InBridge(u)' <=> InBridge(u)) /\ (Trapped(u)' <=> Trapped(u))
  BY <1>1, Zenon DEF Fresh, InBridge, Trapped
<1>6. Marks(u)'
  <2>1. \A i \in Slots : Matches(u, i) => Matches(u, i)' /\ table'[i] = table[i]
    BY <1>1, <1>2, Zenon DEF Matches
  <2> QED
    BY <1>1, <1>2, <1>3, <1>4, <1>5, <2>1 DEF Marks
<1>7. Ordered(u)'
  BY <1>1, <1>3, Zenon DEF Ordered
<1>8. Calls(u)'
  BY <1>1, <1>3, <1>5, Zenon DEF Calls, Above, Top
<1>9. Kept(u)'
  BY <1>1, <1>2, <1>3 DEF Kept, KeptBy
<1>10. Restores(u)'
  BY <1>1, <1>3, Zenon DEF Restores
<1> QED
  BY <1>6, <1>7, <1>8, <1>9, <1>10, Zenon DEF ThreadInv

(* An unchanged table. *)
LEMMA TableSame ==
  ASSUME UNCHANGED table, NEW u
  PROVE  SameMarks(u)
  BY Zenon DEF SameMarks, Mine, Visible

(* A thread that is in no first trap has only consumed markers; it keeps them. *)
LEMMA QuietMarks ==
  ASSUME NEW t \in Threads, Marks(t), SameMarks(t), ~Fresh(t), ~Fresh(t)',
         pc'[t] \notin {"bridged", "reserve", "count", "publish"}
  PROVE  Marks(t)'
  BY Zenon DEF Marks, SameMarks

(* The markers of the frames that remain. *)
LEMMA KeptSame ==
  ASSUME NEW t \in Threads, Kept(t), SameMarks(t), frames'[t] = frames[t]
  PROVE  Kept(t)'
  BY DEF Kept, KeptBy, SameMarks

(* The innermost frame is the lowest. *)
LEMMA TopIsLowest ==
  ASSUME BaseInv, NEW t \in Threads, Ordered(t), frames[t] # << >>
  PROVE  /\ Top(t) \in CallType /\ Top(t).stack \in Stacks
         /\ Len(frames[t]) \in 1..Len(frames[t]) /\ Len(frames[t]) \in Nat
         /\ \A k \in 1..Len(frames[t]) :
              frames[t][k].stack >= Top(t).stack
              /\ (k < Len(frames[t]) => frames[t][k].stack > Top(t).stack)
<1>1. frames[t] \in Seq(CallType)
  BY Zenon DEF BaseInv, Types
<1>2. Len(frames[t]) \in 1..Len(frames[t]) /\ Len(frames[t]) \in Nat
  BY <1>1
<1>3. Top(t) \in CallType /\ Top(t).stack \in Stacks
  BY <1>1, <1>2 DEF Top, Ordered
<1>4. ASSUME NEW k \in 1..Len(frames[t])
      PROVE  frames[t][k].stack >= Top(t).stack
             /\ (k < Len(frames[t]) => frames[t][k].stack > Top(t).stack)
  <2>1. frames[t][k].stack \in Stacks
    BY Zenon DEF Ordered
  <2>2. CASE k = Len(frames[t])
    BY <1>2, <1>3, <2>1, <2>2 DEF Top, Stacks
  <2>3. CASE k < Len(frames[t])
    <3>1. Top(t).stack < frames[t][k].stack
      BY <1>2, <2>3, Zenon DEF Top, Ordered
    <3> QED
      BY <1>3, <2>1, <3>1 DEF Stacks
  <2> QED
    BY <1>2, <2>2, <2>3
<1> QED
  BY <1>2, <1>3, <1>4, Zenon

(* A frame less. *)
LEMMA PopKeeps ==
  ASSUME BaseInv, NEW t \in Threads, Ordered(t), frames[t] # << >>, frames'[t] = Pop(t)
  PROVE  /\ Ordered(t)'
         /\ \A k \in 1..Len(frames'[t]) :
              k \in 1..Len(frames[t]) /\ k < Len(frames[t]) /\ frames'[t][k] = frames[t][k]
<1>1. frames[t] \in Seq(CallType)
  BY Zenon DEF BaseInv, Types
<1>2. Len(frames[t]) \in 1..Len(frames[t]) /\ Len(frames[t]) \in Nat
  BY <1>1
<1>3. \A k \in 1..Len(frames'[t]) :
        k \in 1..Len(frames[t]) /\ k < Len(frames[t]) /\ frames'[t][k] = frames[t][k]
  BY <1>1, <1>2 DEF Pop
<1>4. Ordered(t)'
  BY <1>3, Zenon DEF Ordered
<1> QED
  BY <1>3, <1>4, Zenon

-----------------------------------------------------------------------------
(* A call is made, below every frame: its depth is within StackLimit. *)
LEMMA NewCallNests ==
  ASSUME BaseInv, NestInv, ~DirectAtStub, NEW t \in Threads, CallDispatcher(t) \/ CallDirectly(t)
  PROVE  NestInv'
<1>1. PICK rips, first : /\ NewCall(t, rips, first)
                         /\ \/ first = "retire"
                            \/ first = "trap" /\ rips = {"direct"}
  BY Zenon DEF CallDispatcher, CallDirectly
<1>2. PICK s \in 1..StackLimit(t), r \in rips, m \in BOOLEAN :
        cur' = [cur EXCEPT ![t] = [stack |-> s, rip |-> r, id |-> syscalls + 1,
                                   magic |-> m, replay |-> FALSE]]
  BY <1>1, Zenon DEF NewCall
<1>3. /\ Others(t) /\ cur'[t].stack = s /\ cur'[t].rip = r /\ ~cur'[t].replay
      /\ pc[t] = "run" /\ pc'[t] = first /\ frames'[t] = frames[t]
      /\ outcome'[t] = NoResult /\ table' = table
  BY <1>1, <1>2 DEF NewCall, Others, BaseInv, Types, Goto, tableVars
<1>4. ThreadInv(t)
  BY Zenon DEF NestInv
<1>5. ~Fresh(t) /\ ~Fresh(t)'
  BY <1>1, <1>3, Zenon DEF Fresh
<1>6. Marks(t)'
  BY <1>1, <1>3, <1>4, <1>5, QuietMarks, TableSame, Zenon DEF ThreadInv
<1>7. Above(t)' /\ s \in Stacks
  <2>1. CASE frames[t] = << >>
    BY <1>3, <2>1, Bounds DEF Above, StackLimit, Stacks
  <2>2. CASE frames[t] # << >>
    <3>1. /\ Top(t).stack \in Stacks
          /\ \A k \in 1..Len(frames[t]) : frames[t][k].stack >= Top(t).stack
      BY <1>4, <2>2, TopIsLowest, Zenon DEF ThreadInv
    <3>2. \A k \in 1..Len(frames[t]) : frames[t][k].stack \in Stacks
      BY <1>4, Zenon DEF ThreadInv, Ordered
    <3>3. s \in Stacks /\ s < Top(t).stack
      BY <2>2, <3>1, Bounds DEF StackLimit, Stacks
    <3>4. \A k \in 1..Len(frames[t]) : frames[t][k].stack > s
      BY <3>1, <3>2, <3>3 DEF Stacks
    <3> QED
      BY <1>3, <3>3, <3>4, Zenon DEF Above
  <2> QED
    BY <2>1, <2>2, Zenon
<1>8. Calls(t)'
  BY <1>1, <1>3, <1>7, Zenon DEF Calls
<1>9. Ordered(t)' /\ Kept(t)'
  BY <1>3, <1>4, KeptSame, TableSame, Zenon DEF ThreadInv, Ordered
<1>10. Restores(t)'
  BY <1>3 DEF Restores, NoResult
<1> QED
  BY <1>3, <1>6, <1>8, <1>9, <1>10, TableSame, OthersKeep, Zenon DEF ThreadInv

(* Reflex replays its innermost syscall, or answers it. *)
LEMMA ReflexNests ==
  ASSUME BaseInv, NestInv, NEW t \in Threads, ReflexReplays(t) \/ ReflexAnswers(t)
  PROVE  NestInv'
<1>1. /\ pc[t] = "run" /\ frames[t] # << >> /\ table' = table /\ outcome'[t] = NoResult /\ Others(t)
  BY DEF ReflexReplays, ReflexAnswers, BaseInv, Types, tableVars, Others, Goto
<1>2. ThreadInv(t) /\ ~Fresh(t)
  BY <1>1, Zenon DEF NestInv, Fresh
<1>3. Top(t) \in CallType
  BY <1>1, <1>2, TopIsLowest, Zenon DEF ThreadInv
<1>4. CASE ReflexReplays(t)
  <2>1. /\ pc'[t] = "trap" /\ frames'[t] = frames[t]
        /\ cur'[t] = [Top(t) EXCEPT !.magic = TRUE, !.replay = TRUE]
    BY <1>4, Zenon DEF ReflexReplays, BaseInv, Types, Goto
  <2>2. /\ cur'[t].stack = Top(t).stack /\ cur'[t].rip = Top(t).rip /\ cur'[t].id = Top(t).id
        /\ cur'[t].replay /\ cur'[t].magic
    BY <1>3, <2>1, Zenon DEF CallType
  <2>3. Marks(t)'
    BY <1>1, <1>2, <2>1, <2>2, QuietMarks, TableSame, Zenon DEF ThreadInv, Fresh
  <2>4. Calls(t)'
    BY <2>1, <2>2, Zenon DEF Calls, InBridge, Top
  <2> QED
    BY <1>1, <1>2, <2>1, <2>3, <2>4, KeptSame, TableSame, OthersKeep
       DEF ThreadInv, Ordered, Restores, NoResult
<1>5. CASE ReflexAnswers(t)
  <2>1. pc'[t] = "run" /\ frames'[t] = Pop(t)
    BY <1>1, <1>5, Zenon DEF ReflexAnswers, BaseInv, Types
  <2>2. /\ Ordered(t)'
        /\ \A k \in 1..Len(frames'[t]) : k \in 1..Len(frames[t]) /\ frames'[t][k] = frames[t][k]
    BY <1>1, <1>2, <2>1, PopKeeps, Zenon DEF ThreadInv
  <2>3. Marks(t)'
    BY <1>1, <1>2, <2>1, QuietMarks, TableSame, Zenon DEF ThreadInv, Fresh
  <2>4. Calls(t)'
    BY <2>1, Zenon DEF Calls, InBridge, Trapped
  <2>5. Kept(t)'
    BY <1>1, <1>2, <2>2 DEF ThreadInv, Kept, KeptBy, Mine, Visible
  <2> QED
    BY <1>1, <2>2, <2>3, <2>4, <2>5, TableSame, OthersKeep DEF ThreadInv, Restores, NoResult
<1> QED
  BY <1>4, <1>5, Zenon

-----------------------------------------------------------------------------
(* The table while a marker is released: the releaser loses that marker alone. *)
LEMMA ReleaseMarks ==
  ASSUME BaseInv, NEW t \in Threads, NEW i \in Slots, Mine(t, i), table' = [table EXCEPT ![i].stack = Reserved]
  PROVE  /\ \A u \in Threads \ {t} : SameMarks(u)
         /\ \A j \in Slots : /\ Mine(t, j)' <=> Mine(t, j) /\ j # i
                             /\ j # i => table'[j] = table[j]
<1>1. table \in [Slots -> Entry] /\ table[i] \in Entry /\ table[i].tid = t
  BY Zenon DEF BaseInv, Types, Mine
<1>2. \A j \in Slots \ {i} : table'[j] = table[j]
  BY <1>1, Zenon
<1>3. table'[i] = [table[i] EXCEPT !.stack = Reserved]
  BY <1>1, Zenon
<1>4. table'[i].tid = t /\ ~Visible(i)'
  BY <1>1, <1>3, Bounds, Zenon DEF Visible, Entry
<1> QED
  BY <1>1, <1>2, <1>4, Zenon DEF SameMarks, Mine, Visible

(* A marker that no frame needs is released: the bridge retires one at or      *)
(* below the call, or the handler cancels the one of a call that leaves.       *)
LEMMA ReleaseNests ==
  ASSUME BaseInv, NestInv, NEW t \in Threads, NEW i \in Slots, NEW next \in {"run", "retire"},
         Mine(t, i), table[i].stack <= cur[t].stack, Above(t), ~Fresh(t),
         Release(t, i, next), Others(t), frames'[t] = frames[t], cur'[t] = cur[t],
         Restores(t)'
  PROVE  NestInv'
<1>1. ThreadInv(t)
  BY Zenon DEF NestInv
<1>2. /\ table' = [table EXCEPT ![i].stack = Reserved] /\ pc'[t] = "clear"
  BY Zenon DEF Release, Goto, BaseInv, Types
<1>3. /\ \A u \in Threads \ {t} : SameMarks(u)
      /\ \A j \in Slots : /\ Mine(t, j)' <=> Mine(t, j) /\ j # i
                          /\ j # i => table'[j] = table[j]
  BY <1>2, ReleaseMarks, Zenon
<1>4. Marks(t)'
  BY <1>1, <1>2, <1>3 DEF ThreadInv, Marks, Fresh
<1>5. Calls(t)'
  BY <1>2, Zenon DEF Calls, Above, Trapped, InBridge
<1>6. Kept(t)'
  <2>1. \A k \in 1..Len(frames[t]) : ~KeptBy(t, i, frames[t][k])
    <3>1. table[i].stack \in Nat /\ cur[t].stack \in Nat
      BY Bounds DEF BaseInv, Types, Entry, CallType
    <3>2. \A k \in 1..Len(frames[t]) : frames[t][k].stack \in Nat /\ frames[t][k].stack > cur[t].stack
      BY <1>1 DEF ThreadInv, Ordered, Above, Stacks
    <3> QED
      BY <3>1, <3>2 DEF KeptBy
  <2>2. \A k \in 1..Len(frames[t]), j \in Slots : KeptBy(t, j, frames[t][k]) => KeptBy(t, j, frames[t][k])'
    BY <1>3, <2>1, Zenon DEF KeptBy
  <2> QED
    BY <1>1, <2>2, Zenon DEF ThreadInv, Kept, KeptBy
<1> QED
  BY <1>1, <1>3, <1>4, <1>5, <1>6, OthersKeep, Zenon DEF ThreadInv, Ordered

(* release_marker ends: the slot was reserved, so it was nobody's marker. *)
LEMMA ClearNests ==
  ASSUME BaseInv, NestInv, NEW t \in Threads, ClearSlot(t) \/ Uncount(t)
  PROVE  NestInv'
<1>1. /\ Others(t) /\ pc[t] \in {"clear", "uncount"} /\ pc'[t] \in {"uncount", "run", "retire"}
      /\ frames'[t] = frames[t] /\ cur'[t] = cur[t] /\ outcome'[t] = outcome[t] /\ cont'[t] = cont[t]
      /\ InBridge(t)' => InBridge(t)
  BY Zenon DEF ClearSlot, Uncount, Goto, BaseInv, Types, SlotsOK, Others, InBridge
<1>2. ThreadInv(t) /\ ~Fresh(t) /\ ~Fresh(t)'
  BY <1>1, Zenon DEF NestInv, Fresh
<1>3. \A u \in Threads : SameMarks(u)
  <2>1. CASE ClearSlot(t)
    <3>1. /\ slot[t] \in Slots /\ table[slot[t]].stack = Reserved /\ table'[slot[t]] = Empty
          /\ \A j \in Slots \ {slot[t]} : table'[j] = table[j]
      BY <2>1, Zenon DEF ClearSlot, BaseInv, Types, SlotsOK, HoldsSlot
    <3>2. ~Visible(slot[t]) /\ ~Visible(slot[t])'
      BY <2>1, <3>1, Bounds DEF Visible, Empty, ClearSlot
    <3> QED
      BY <2>1, <3>1, <3>2, Zenon DEF SameMarks, Mine, Visible, ClearSlot
  <2>2. CASE Uncount(t)
    BY <2>2, TableSame, Zenon DEF Uncount
  <2> QED
    BY <2>1, <2>2, Zenon
<1>4. Marks(t)'
  BY <1>1, <1>2, <1>3, QuietMarks, Zenon DEF ThreadInv
<1>5. Calls(t)'
  BY <1>1, <1>2, Zenon DEF ThreadInv, Calls, Above, Trapped
<1>6. Kept(t)'
  BY <1>1, <1>2, <1>3, KeptSame, Zenon DEF ThreadInv
<1> QED
  BY <1>1, <1>2, <1>3, <1>4, <1>5, <1>6, OthersKeep, Zenon DEF ThreadInv, Ordered, Restores

(* A call of the bridge that stays on Wine's dispatcher. *)
LEMMA StaysNests ==
  ASSUME BaseInv, NestInv, NEW t \in Threads, InBridge(t), ~Trapped(t),
         Done(t, "dispatcher", 0), Goto(t, "run"), UNCHANGED <<table, cur, slot, cont>>
  PROVE  NestInv'
<1>1. ~cur[t].replay
  BY Zenon DEF BaseInv, CallsOK
<1>2. /\ Others(t) /\ pc'[t] = "run" /\ frames'[t] = frames[t]
      /\ outcome'[t] = [way |-> "dispatcher", id |-> cur[t].id, restored |-> 0]
  BY <1>1, Zenon DEF Done, Goto, BaseInv, Types, Others
<1>3. ThreadInv(t) /\ ~Fresh(t) /\ ~Fresh(t)'
  BY <1>2, Zenon DEF NestInv, Fresh, Trapped
<1>4. Marks(t)'
  BY <1>2, <1>3, QuietMarks, TableSame, Zenon DEF ThreadInv
<1>5. Calls(t)'
  BY <1>2, Zenon DEF Calls, Trapped, InBridge
<1> QED
  BY <1>2, <1>3, <1>4, <1>5, KeptSame, TableSame, OthersKeep DEF ThreadInv, Ordered, Restores

(* retire_for_dispatcher_entry: what it takes is at or below the call, and     *)
(* every frame is above it.                                                    *)
LEMMA RetireNests ==
  ASSUME ZeroMeansNone, BaseInv, NestInv, NEW t \in Threads, RetireMarkers(t)
  PROVE  NestInv'
<1>1. pc[t] = "retire" /\ InBridge(t) /\ ~Trapped(t) /\ ~Fresh(t)
  BY Zenon DEF RetireMarkers, InBridge, Trapped, Fresh
<1>2. ThreadInv(t) /\ Above(t)
  BY <1>1, Zenon DEF NestInv, ThreadInv, Calls
<1>3. CASE \E i \in Slots :
             /\ ToRetire(t, i)
             /\ Release(t, i, "retire")
             /\ UNCHANGED <<active, cur, frames, outcome, syscalls>>
  <2>1. PICK i \in Slots :
          /\ ToRetire(t, i)
          /\ Release(t, i, "retire")
          /\ UNCHANGED <<active, cur, frames, outcome, syscalls>>
    BY <1>3, Zenon
  <2>2. Others(t) /\ Restores(t)'
    BY <1>2, <2>1, Zenon DEF Others, Release, Goto, BaseInv, Types, ThreadInv, Restores
  <2> QED
    BY <1>1, <1>2, <2>1, <2>2, ReleaseNests, Zenon DEF ToRetire
<1>4. CASE /\ active = 0 \/ \A i \in Slots : ~ToRetire(t, i)
           /\ cur[t].rip = "marked"
           /\ Goto(t, "reserve")
           /\ UNCHANGED <<tableVars, cur, frames, slot, cont, outcome, syscalls>>
  <2>1. \A i \in Slots : Mine(t, i) => table[i].stack > cur[t].stack
    <3>1. \A i \in Slots : ~ToRetire(t, i)
      BY <1>4, Zenon DEF ZeroMeansNone, ToRetire, Mine
    <3>2. cur[t].stack \in Nat /\ \A i \in Slots : table[i].stack \in Nat
      BY Bounds DEF BaseInv, Types, CallType, Entry
    <3> QED
      BY <3>1, <3>2 DEF ToRetire
  <2>2. /\ Others(t) /\ pc'[t] = "reserve"
        /\ table' = table /\ cur' = cur /\ frames' = frames /\ outcome' = outcome
    BY <1>4, Zenon DEF Goto, BaseInv, Types, Others, tableVars
  <2>3. Marks(t)'
    BY <1>1, <1>2, <2>1, <2>2, Zenon DEF ThreadInv, Marks, Fresh, Mine, Visible
  <2>4. Calls(t)'
    BY <1>2, <1>4, <2>2, Zenon DEF Calls, Above, Trapped
  <2> QED
    BY <1>2, <2>2, <2>3, <2>4, KeptSame, TableSame, OthersKeep, Zenon DEF ThreadInv, Ordered, Restores
<1>5. CASE /\ Goto(t, "run")
           /\ Done(t, "dispatcher", 0)
           /\ UNCHANGED <<tableVars, cur, slot, cont, syscalls>>
  BY <1>1, <1>5, StaysNests, Zenon DEF tableVars
<1> QED
  BY <1>3, <1>4, <1>5, Zenon DEF RetireMarkers

(* remember_marker up to the count: a free slot was nobody's marker either. *)
LEMMA ReserveNests ==
  ASSUME BaseInv, NestInv, NEW t \in Threads, ReserveSlot(t) \/ CountMarker(t)
  PROVE  NestInv'
<1>1. pc[t] \in {"reserve", "count"} /\ InBridge(t) /\ ~Trapped(t) /\ ~Fresh(t) /\ ThreadInv(t)
  BY Zenon DEF ReserveSlot, CountMarker, InBridge, Trapped, Fresh, NestInv
<1>2. CASE /\ Goto(t, "run") /\ Done(t, "dispatcher", 0)
           /\ UNCHANGED <<table, slot, active, cur, cont, syscalls>>
  BY <1>1, <1>2, StaysNests, Zenon
<1>3. ASSUME /\ Others(t) /\ pc'[t] \in {"count", "publish"}
             /\ frames'[t] = frames[t] /\ cur'[t] = cur[t] /\ outcome'[t] = outcome[t]
             /\ \A u \in Threads : SameMarks(u)
      PROVE  NestInv'
  <2>1. \A i \in Slots : /\ Mine(t, i)' <=> Mine(t, i)
                         /\ Mine(t, i) => table'[i] = table[i]
    BY <1>3, Zenon DEF SameMarks
  <2>2. Marks(t)'
    BY <1>1, <1>3, <2>1, SMTT(30) DEF ThreadInv, Marks, Fresh
  <2>3. Calls(t)'
    BY <1>1, <1>3, Zenon DEF ThreadInv, Calls, Above, Trapped
  <2>4. Kept(t)'
    BY <1>1, <1>3, KeptSame, Zenon DEF ThreadInv
  <2> QED
    BY <1>1, <1>3, <2>2, <2>3, <2>4, OthersKeep, Zenon DEF ThreadInv, Ordered, Restores
<1>4. CASE \E i \in Slots :
             /\ table[i].stack = 0
             /\ table' = [table EXCEPT ![i].stack = Reserved]
             /\ slot' = [slot EXCEPT ![t] = i]
             /\ Goto(t, "count")
             /\ UNCHANGED <<frames, outcome, active, cur, cont, syscalls>>
  <2>1. PICK i \in Slots :
             /\ table[i].stack = 0
             /\ table' = [table EXCEPT ![i].stack = Reserved]
             /\ slot' = [slot EXCEPT ![t] = i]
             /\ Goto(t, "count")
             /\ UNCHANGED <<frames, outcome, active, cur, cont, syscalls>>
    BY <1>4, Zenon
  <2>2. /\ Others(t) /\ pc'[t] = "count" /\ \A j \in Slots \ {i} : table'[j] = table[j]
        /\ frames'[t] = frames[t] /\ cur'[t] = cur[t] /\ outcome'[t] = outcome[t]
    BY <2>1, Zenon DEF Goto, BaseInv, Types, Others
  <2>3. table'[i].stack = Reserved
    BY <2>1 DEF BaseInv, Types, Entry
  <2>4. ~Visible(i) /\ ~Visible(i)'
    BY <2>1, <2>3, Bounds, Zenon DEF Visible
  <2>5. \A u \in Threads : SameMarks(u)
    BY <2>2, <2>4, Zenon DEF SameMarks, Mine, Visible
  <2> QED
    BY <1>3, <2>2, <2>5, Zenon
<1>5. CASE CountMarker(t)
  <2>1. /\ Others(t) /\ pc'[t] = "publish" /\ table' = table
        /\ frames'[t] = frames[t] /\ cur'[t] = cur[t] /\ outcome'[t] = outcome[t]
    BY <1>5, Zenon DEF CountMarker, Goto, BaseInv, Types, Others
  <2> QED
    BY <1>3, <2>1, TableSame, Zenon
<1> QED
  BY <1>2, <1>4, <1>5, Zenon DEF ReserveSlot

(* The marker is published: it is the only one of its thread at its depth. *)
LEMMA PublishNests ==
  ASSUME BaseInv, NestInv, NEW t \in Threads, PublishMarker(t)
  PROVE  NestInv'
<1>0. PICK i \in Slots : i = slot[t]
  BY Zenon DEF BaseInv, Types
<1>1. pc[t] = "publish" /\ InBridge(t) /\ ~Fresh(t) /\ ThreadInv(t)
  BY Zenon DEF PublishMarker, InBridge, Fresh, NestInv
<1>2. cur[t].rip = "marked" /\ Above(t) /\ cur[t].stack \in Stacks /\ ~cur[t].replay
  BY <1>1, Zenon DEF ThreadInv, Calls, BaseInv, CallsOK
<1>3. /\ Others(t) /\ pc'[t] = "trap" /\ UNCHANGED <<cur, frames, outcome>>
      /\ \A j \in Slots \ {i} : table'[j] = table[j]
      /\ table'[i] = [stack |-> cur[t].stack, tid |-> t, rip |-> "marked", phase |-> 0, saved |-> 0]
  BY <1>0, <1>1, <1>2, Zenon DEF PublishMarker, Goto, BaseInv, Types, Others
<1>4. /\ table'[i].stack = cur[t].stack /\ table'[i].tid = t /\ table'[i].rip = "marked"
      /\ table'[i].phase = 0
  BY <1>3
<1>5. ~Visible(i)
  BY <1>0, <1>1, Bounds, Zenon DEF BaseInv, SlotsOK, HoldsSlot, Visible
<1>6. \A u \in Threads \ {t} : SameMarks(u)
  BY <1>3, <1>4, <1>5, Zenon DEF SameMarks, Mine, Visible
<1>7. /\ Mine(t, i)' /\ ~Mine(t, i) /\ Fresh(t)' /\ Matches(t, i)'
      /\ \A j \in Slots \ {i} : Mine(t, j)' <=> Mine(t, j)
  <2>1. Mine(t, i)' /\ ~Mine(t, i) /\ Matches(t, i)'
    BY <1>2, <1>3, <1>4, <1>5, Zenon DEF Mine, Visible, Matches
  <2>2. Fresh(t)'
    BY <1>2, <1>3, Zenon DEF Fresh
  <2> QED
    BY <1>3, <2>1, <2>2, Zenon DEF Mine, Visible
<1>8. Marks(t)'
  <2>1. \A j \in Slots \ {i} : Mine(t, j) =>
          table[j].rip = "marked" /\ table[j].phase # 0 /\ table[j].stack > cur[t].stack
    BY <1>1, Zenon DEF ThreadInv, Marks
  <2>2. \A j \in Slots : Mine(t, j)' =>
          /\ table'[j].rip = "marked"
          /\ table'[j].phase = 0 => Fresh(t)' /\ table'[j].stack = cur'[t].stack
    BY <1>3, <1>4, <1>7, <2>1, Zenon
  <2>3. \A j \in Slots \ {i} : Mine(t, j)' => table'[j].stack # table'[i].stack
    <3>1. cur[t].stack \in Nat /\ \A j \in Slots : table[j].stack \in Nat
      BY Bounds DEF BaseInv, Types, CallType, Entry
    <3> QED
      BY <1>3, <1>4, <1>7, <2>1, <3>1
  <2>4. \A j, k \in Slots : Mine(t, j)' /\ Mine(t, k)' /\ table'[j].stack = table'[k].stack => j = k
    BY <1>1, <1>3, <1>7, <2>3, Zenon DEF ThreadInv, Marks
  <2>5. Matches(t, i)' /\ table'[i].phase = 0
    BY <1>1, <1>4, <1>7, Zenon
  <2> QED
    BY <1>3, <2>2, <2>4, <2>5, Zenon DEF Marks
<1>9. Calls(t)'
  BY <1>2, <1>3, SMTT(30) DEF Calls, Above, InBridge
<1>10. Kept(t)'
  BY <1>1, <1>3, <1>7 DEF ThreadInv, Kept, KeptBy
<1> QED
  BY <1>1, <1>3, <1>6, <1>8, <1>9, <1>10, OthersKeep, Zenon DEF ThreadInv, Ordered, Restores

-----------------------------------------------------------------------------
(* The handler finds every marker there is to find: the count never hides one. *)
LEMMA FoundIsAll ==
  ASSUME ZeroMeansNone, BaseInv, NEW t \in Threads
  PROVE  \A i \in Slots : Matches(t, i) <=> i \in Found(t)
  BY Zenon DEF ZeroMeansNone, Found, Matches, Mine

(* A second trap: it is the replay of the innermost frame, whose marker is the *)
(* only one at that depth, so what is restored is the frame's own context.     *)
LEMMA ReplayNests ==
  ASSUME BaseInv, NestInv, NEW t \in Threads, ConsumeReplay(t)
  PROVE  NestInv'
<1>1. PICK i \in Found(t) :
        /\ table[i].phase = 1
        /\ Release(t, i, "run")
        /\ Done(t, "replayed", table[i].saved)
  BY Zenon DEF ConsumeReplay
<1>2. i \in Slots /\ Matches(t, i) /\ Mine(t, i) /\ pc[t] = "trap" /\ Trapped(t) /\ cur' = cur
  BY Zenon DEF Found, Matches, ConsumeReplay, Trapped
<1>3. Marks(t) /\ Ordered(t) /\ Calls(t) /\ Kept(t)
  BY Zenon DEF NestInv, ThreadInv
<1>4. cur[t].rip = "marked" /\ table[i].stack = cur[t].stack
  BY <1>2, <1>3, Zenon DEF Marks, Matches
<1>5. cur[t].replay
  <2> SUFFICES ASSUME ~cur[t].replay PROVE FALSE
    BY Zenon
  <2>1. Fresh(t)
    BY <1>2, <1>4, Zenon DEF Fresh
  <2>2. PICK j \in Slots : Matches(t, j) /\ table[j].phase = 0
    BY <1>3, <2>1, Zenon DEF Marks
  <2>3. i = j
    BY <1>2, <1>3, <2>2, Zenon DEF Marks, Matches
  <2> QED
    BY <1>1, <2>2, <2>3
<1>6. /\ frames[t] # << >> /\ Len(frames[t]) \in 1..Len(frames[t])
      /\ cur[t].stack = Top(t).stack /\ cur[t].rip = Top(t).rip /\ cur[t].id = Top(t).id
      /\ \A k \in 1..Len(frames[t]) : k < Len(frames[t]) => frames[t][k].stack > cur[t].stack
  <2>1. frames[t] # << >>
    BY <1>2, <1>5, Zenon DEF BaseInv, CallsOK
  <2>2. cur[t].stack = Top(t).stack /\ cur[t].rip = Top(t).rip /\ cur[t].id = Top(t).id
    BY <1>2, <1>3, <1>5, Zenon DEF Calls
  <2> QED
    BY <1>3, <2>1, <2>2, TopIsLowest, Zenon
<1>7. table[i].saved = cur[t].id
  <2>1. PICK j \in Slots : KeptBy(t, j, Top(t))
    BY <1>3, <1>4, <1>6, Zenon DEF Kept, Top
  <2>2. i = j
    BY <1>2, <1>3, <1>4, <1>6, <2>1, Zenon DEF Marks, KeptBy
  <2> QED
    BY <1>6, <2>1, <2>2, Zenon DEF KeptBy
<1>8. /\ Others(t) /\ pc'[t] = "clear" /\ cont'[t] = "run" /\ frames'[t] = Pop(t)
      /\ outcome'[t] = [way |-> "replayed", id |-> cur[t].id, restored |-> table[i].saved]
      /\ table' = [table EXCEPT ![i].stack = Reserved]
  BY <1>1, <1>2, <1>5, Zenon DEF Release, Done, Goto, BaseInv, Types, Others
<1>9. /\ \A u \in Threads \ {t} : SameMarks(u)
      /\ \A j \in Slots : /\ Mine(t, j)' <=> Mine(t, j) /\ j # i
                          /\ j # i => table'[j] = table[j]
  BY <1>2, <1>8, ReleaseMarks, Zenon
<1>10. Marks(t)'
  BY <1>3, <1>5, <1>8, <1>9 DEF Marks, Fresh
<1>11. Calls(t)'
  BY <1>8, Zenon DEF Calls, Trapped, InBridge
<1>12. /\ Ordered(t)'
       /\ \A k \in 1..Len(frames'[t]) :
            k \in 1..Len(frames[t]) /\ k < Len(frames[t]) /\ frames'[t][k] = frames[t][k]
  BY <1>3, <1>6, <1>8, PopKeeps, Zenon
<1>13. Kept(t)'
  <2> SUFFICES ASSUME NEW k \in 1..Len(frames'[t]), frames'[t][k].rip = "marked"
               PROVE  \E j \in Slots : KeptBy(t, j, frames[t][k])'
    BY Zenon DEF Kept
  <2>1. /\ k \in 1..Len(frames[t]) /\ frames'[t][k] = frames[t][k]
        /\ frames[t][k].stack > cur[t].stack /\ frames[t][k].stack \in Nat
    BY <1>3, <1>6, <1>12 DEF Ordered, Stacks
  <2>2. PICK j \in Slots : KeptBy(t, j, frames[t][k])
    BY <1>3, <2>1, Zenon DEF Kept
  <2>3. j # i
    <3>1. cur[t].stack \in Nat
      BY DEF BaseInv, Types, CallType
    <3> QED
      BY <1>4, <2>1, <2>2, <3>1 DEF KeptBy
  <2> QED
    BY <1>9, <2>1, <2>2, <2>3, Zenon DEF KeptBy
<1>14. Restores(t)'
  BY <1>7, <1>8 DEF Restores
<1> QED
  BY <1>8, <1>9, <1>10, <1>11, <1>12, <1>13, <1>14, OthersKeep, Zenon DEF ThreadInv

(* A first trap: the marker records the context of the call. *)
LEMMA RouteNests ==
  ASSUME BaseInv, NestInv, NEW t \in Threads, ConsumeRoute(t)
  PROVE  NestInv'
<1>1. PICK i \in Found(t) :
        /\ table[i].phase = 0
        /\ table' = [table EXCEPT ![i].phase = 1, ![i].saved = cur[t].id]
        /\ slot' = [slot EXCEPT ![t] = i]
  BY Zenon DEF ConsumeRoute
<1>2. i \in Slots /\ Matches(t, i) /\ Mine(t, i) /\ pc[t] = "trap" /\ Trapped(t)
  BY Zenon DEF Found, Matches, ConsumeRoute, Trapped
<1>3. Marks(t) /\ Ordered(t) /\ Calls(t) /\ Kept(t) /\ Restores(t)
  BY Zenon DEF NestInv, ThreadInv
<1>4. Fresh(t) /\ table[i].stack = cur[t].stack
  BY <1>1, <1>2, <1>3, Zenon DEF Marks
<1>5. Above(t) /\ cur[t].stack \in Stacks /\ cur[t].rip = "marked" /\ ~cur[t].replay
  BY <1>2, <1>3, <1>4, Zenon DEF Calls, Fresh
<1>6. /\ Others(t) /\ pc'[t] = "bridged" /\ slot'[t] = i /\ UNCHANGED <<cur, frames, outcome>>
      /\ \A j \in Slots \ {i} : table'[j] = table[j]
  BY <1>1, <1>2, Zenon DEF ConsumeRoute, Goto, BaseInv, Types, Others
<1>7. /\ table'[i].phase = 1 /\ table'[i].saved = cur[t].id /\ table'[i].stack = table[i].stack
      /\ table'[i].tid = table[i].tid /\ table'[i].rip = table[i].rip
  <2>1. table[i] \in Entry /\ table'[i] = [table[i] EXCEPT !.phase = 1, !.saved = cur[t].id]
    BY <1>1, <1>2, Zenon DEF BaseInv, Types
  <2> QED
    BY <2>1, Zenon DEF Entry
<1>8. \A u \in Threads, j \in Slots : Mine(u, j)' <=> Mine(u, j)
  BY <1>6, <1>7, Zenon DEF Mine, Visible
<1>9. \A u \in Threads \ {t} : SameMarks(u)
  BY <1>2, <1>6, <1>8, Zenon DEF SameMarks, Mine
<1>10. Marks(t)'
  <2>1. \A j \in Slots : Mine(t, j) => table'[j].rip = "marked" /\ table'[j].phase # 0
                                       /\ table'[j].stack = table[j].stack
    <3>1. \A j \in Slots \ {i} : Mine(t, j) => table[j].rip = "marked" /\ table[j].phase # 0
      BY <1>2, <1>3, <1>4, Zenon DEF Marks
    <3> QED
      BY <1>2, <1>5, <1>6, <1>7, <3>1 DEF Matches
  <2>2. \A j, k \in Slots : Mine(t, j)' /\ Mine(t, k)' /\ table'[j].stack = table'[k].stack => j = k
    BY <1>3, <1>8, <2>1, Zenon DEF Marks
  <2>3. ~Fresh(t)'
    BY <1>6, Zenon DEF Fresh
  <2> QED
    BY <1>6, <1>7, <1>8, <2>1, <2>2, <2>3, Zenon DEF Marks
<1>11. Calls(t)'
  BY <1>5, <1>6, Zenon DEF Calls, Above, InBridge
<1>12. Kept(t)'
  <2>1. \A k \in 1..Len(frames[t]) : ~KeptBy(t, i, frames[t][k])
    BY <1>1 DEF KeptBy
  <2> QED
    BY <1>3, <1>6, <1>8, <2>1 DEF Kept, KeptBy
<1> QED
  BY <1>3, <1>6, <1>9, <1>10, <1>11, <1>12, OthersKeep, Zenon DEF ThreadInv, Ordered, Restores

(* No marker: the call did not come through the bridge, and neither did the    *)
(* frame a replay belongs to.                                                  *)
LEMMA NoneNests ==
  ASSUME ZeroMeansNone, BaseInv, NestInv, NEW t \in Threads, ConsumeNone(t)
  PROVE  NestInv'
<1>1. /\ pc[t] = "trap" /\ Trapped(t) /\ Found(t) = {} /\ Others(t) /\ pc'[t] = "unbridged"
      /\ table' = table /\ cur' = cur /\ frames' = frames /\ outcome' = outcome
  BY Zenon DEF ConsumeNone, Trapped, Goto, BaseInv, Types, Others, tableVars
<1>2. Marks(t) /\ Ordered(t) /\ Calls(t) /\ Kept(t) /\ Restores(t)
  BY Zenon DEF NestInv, ThreadInv
<1>3. \A i \in Slots : ~Matches(t, i)
  BY <1>1, FoundIsAll, Zenon
<1>4. ~Fresh(t) /\ ~Fresh(t)'
  BY <1>1, <1>2, <1>3, Zenon DEF Marks, Fresh
<1>5. cur[t].rip # "marked"
  <2> SUFFICES ASSUME cur[t].rip = "marked" PROVE FALSE
    BY Zenon
  <2>1. cur[t].replay
    BY <1>1, <1>4, Zenon DEF Fresh
  <2>2. /\ frames[t] # << >> /\ Len(frames[t]) \in 1..Len(frames[t])
        /\ cur[t].stack = Top(t).stack /\ cur[t].rip = Top(t).rip
    BY <1>1, <1>2, <2>1, TopIsLowest, Zenon DEF BaseInv, CallsOK, Calls
  <2>3. PICK j \in Slots : KeptBy(t, j, Top(t))
    BY <1>2, <2>2, Zenon DEF Kept, Top
  <2>4. Matches(t, j)
    BY <2>2, <2>3, Zenon DEF Matches, KeptBy
  <2> QED
    BY <1>3, <2>4, Zenon
<1>6. Marks(t)'
  BY <1>1, <1>2, <1>4, QuietMarks, TableSame, Zenon
<1>7. Calls(t)'
  BY <1>1, <1>2, <1>5, Zenon DEF Calls, Above, InBridge, Trapped, Top
<1> QED
  BY <1>1, <1>2, <1>6, <1>7, KeptSame, TableSame, OthersKeep, Zenon DEF ThreadInv, Ordered, Restores

(* The handler sends the call on to Wine; its marker, if any, goes with it. *)
LEMMA LeaveNests ==
  ASSUME BaseInv, NestInv, NEW t \in Threads, Bypass(t) \/ ForwardToWine(t)
  PROVE  NestInv'
<1>1. PICK way \in {"bypassed", "completed", "forwarded"} : Done(t, way, 0)
  BY Zenon DEF Bypass, ForwardToWine
<1>2. /\ cur' = cur /\ Trapped(t) /\ ~Fresh(t)
      /\ \/ pc[t] = "bridged" /\ Release(t, slot[t], "run")
         \/ pc[t] = "unbridged" /\ Goto(t, "run") /\ UNCHANGED <<table, slot, cont>>
  BY Zenon DEF Bypass, ForwardToWine, Trapped, Fresh
<1>3. ThreadInv(t) /\ Marks(t) /\ Ordered(t) /\ Calls(t) /\ Kept(t)
  BY Zenon DEF NestInv, ThreadInv
<1>4. /\ Others(t) /\ Restores(t)'
      /\ frames'[t] = IF cur[t].replay THEN Pop(t) ELSE frames[t]
  <2>1. outcome'[t] = [way |-> way, id |-> cur[t].id, restored |-> 0]
    BY <1>1, Zenon DEF Done, BaseInv, Types
  <2>2. Restores(t)'
    BY <2>1 DEF Restores
  <2> QED
    BY <1>1, <1>2, <2>2, Zenon DEF Done, Release, Goto, BaseInv, Types, Others
<1>5. CASE pc[t] = "bridged" /\ Release(t, slot[t], "run")
  <2>1. /\ slot[t] \in Slots /\ Mine(t, slot[t]) /\ table[slot[t]].stack = cur[t].stack
    BY <1>5, Zenon DEF BaseInv, Types, SlotsOK, Matches
  <2>2. ~cur[t].replay /\ Above(t) /\ cur[t].stack \in Nat
    BY <1>2, <1>3, <1>5 DEF Calls, Stacks
  <2>3. table[slot[t]].stack <= cur[t].stack
    BY <2>1, <2>2
  <2> QED
    BY <1>2, <1>4, <1>5, <2>1, <2>2, <2>3, ReleaseNests, Zenon
<1>6. CASE pc[t] = "unbridged" /\ Goto(t, "run") /\ UNCHANGED <<table, slot, cont>>
  <2>1. pc'[t] = "run" /\ table' = table /\ ~Fresh(t)'
    BY <1>6, Zenon DEF Goto, BaseInv, Types, Fresh
  <2>2. Marks(t)'
    BY <1>2, <1>3, <2>1, QuietMarks, TableSame, Zenon
  <2>3. Calls(t)'
    BY <2>1, Zenon DEF Calls, InBridge, Trapped
  <2>4. Ordered(t)' /\ Kept(t)'
    <3>1. CASE cur[t].replay
      <4>1. frames[t] # << >> /\ frames'[t] = Pop(t)
        BY <1>2, <1>4, <3>1, Zenon DEF BaseInv, CallsOK
      <4>2. /\ Ordered(t)'
            /\ \A k \in 1..Len(frames'[t]) : k \in 1..Len(frames[t]) /\ frames'[t][k] = frames[t][k]
        BY <1>3, <4>1, PopKeeps, Zenon
      <4> QED
        BY <1>3, <2>1, <4>2 DEF Kept, KeptBy, Mine, Visible
    <3>2. CASE ~cur[t].replay
      BY <1>3, <1>4, <2>1, <3>2, KeptSame, TableSame, Zenon DEF Ordered
    <3> QED
      BY <3>1, <3>2, Zenon
  <2> QED
    BY <1>4, <2>1, <2>2, <2>3, <2>4, TableSame, OthersKeep, Zenon DEF ThreadInv
<1> QED
  BY <1>2, <1>5, <1>6, Zenon

(* The call becomes the innermost frame; if it is marked, its marker is in its *)
(* second phase with the context of this very call.                            *)
LEMMA EnterNests ==
  ASSUME BaseInv, NestInv, NEW t \in Threads, RouteToReflex(t)
  PROVE  NestInv'
<1>1. /\ pc[t] \in {"bridged", "unbridged"} /\ ~cur[t].magic /\ Trapped(t) /\ ~Fresh(t)
      /\ Others(t) /\ pc'[t] = "run" /\ ~Fresh(t)' /\ table' = table
      /\ frames'[t] = Append(frames[t], cur[t])
  BY Zenon DEF RouteToReflex, Trapped, Fresh, Goto, BaseInv, Types, Others, tableVars
<1>2. Marks(t) /\ Ordered(t) /\ Calls(t) /\ Kept(t)
  BY Zenon DEF NestInv, ThreadInv
<1>3. ~cur[t].replay /\ Above(t) /\ cur[t].stack \in Stacks
  BY <1>1, <1>2, Zenon DEF Calls
<1>4. /\ Len(frames[t]) \in Nat /\ Len(frames'[t]) = Len(frames[t]) + 1
      /\ frames'[t][Len(frames[t]) + 1] = cur[t]
      /\ \A k \in 1..Len(frames[t]) : frames'[t][k] = frames[t][k]
  <2>1. frames[t] \in Seq(CallType) /\ cur[t] \in CallType
    BY Zenon DEF BaseInv, Types
  <2> QED
    BY <1>1, <2>1
<1>5. \A k \in 1..Len(frames'[t]) : k \in 1..Len(frames[t]) \/ k = Len(frames[t]) + 1
  BY <1>4
<1>6. Ordered(t)'
  <2>1. \A k \in 1..Len(frames'[t]) : frames'[t][k].stack \in Stacks
    BY <1>2, <1>3, <1>4, <1>5, Zenon DEF Ordered
  <2>2. ASSUME NEW j \in 1..Len(frames'[t]), NEW k \in 1..Len(frames'[t]), j < k
        PROVE  frames'[t][k].stack < frames'[t][j].stack
    <3>1. j \in 1..Len(frames[t])
      BY <1>4, <2>2
    <3>2. CASE k \in 1..Len(frames[t])
      BY <1>2, <1>4, <2>2, <3>1, <3>2, SMTT(30) DEF Ordered
    <3>3. CASE k = Len(frames[t]) + 1
      <4>1. frames[t][j].stack > cur[t].stack /\ frames[t][j].stack \in Stacks
        BY <1>2, <1>3, <3>1, Zenon DEF Above, Ordered
      <4> QED
        BY <1>3, <1>4, <3>1, <3>3, <4>1, SMTT(30) DEF Stacks
    <3> QED
      BY <1>5, <3>2, <3>3, Zenon
  <2> QED
    BY <2>1, <2>2, Zenon DEF Ordered
<1>7. Marks(t)'
  BY <1>1, <1>2, QuietMarks, TableSame, Zenon
<1>8. Calls(t)'
  BY <1>1, Zenon DEF Calls, InBridge, Trapped
<1>9. Kept(t)'
  <2>1. \A k \in 1..Len(frames[t]) :
          frames[t][k].rip = "marked" => \E i \in Slots : KeptBy(t, i, frames[t][k])
    BY <1>2, Zenon DEF Kept
  <2>2. cur[t].rip = "marked" => \E i \in Slots : KeptBy(t, i, cur[t])
    <3> SUFFICES ASSUME cur[t].rip = "marked" PROVE KeptBy(t, slot[t], cur[t]) /\ slot[t] \in Slots
      BY Zenon
    <3>1. pc[t] = "bridged"
      BY <1>1, <1>2, Zenon DEF Calls
    <3> QED
      BY <1>2, <3>1, Zenon DEF Marks, KeptBy, BaseInv, SlotsOK, Types, Matches
  <2> QED
    BY <1>1, <1>4, <1>5, <2>1, <2>2, SMTT(30) DEF Kept, KeptBy, Mine, Visible
<1>10. Restores(t)'
  <2>1. outcome'[t] = [way |-> "routed", id |-> cur[t].id, restored |-> 0]
    BY Zenon DEF RouteToReflex, BaseInv, Types
  <2> QED
    BY <2>1 DEF Restores
<1> QED
  BY <1>1, <1>6, <1>7, <1>8, <1>9, <1>10, TableSame, OthersKeep, Zenon DEF ThreadInv

-----------------------------------------------------------------------------
(* No marker and no frame. *)
LEMMA InitNests == Init => NestInv
<1> SUFFICES ASSUME Init, NEW t \in Threads PROVE ThreadInv(t)
  BY Zenon DEF NestInv
<1>1. \A i \in Slots : ~Visible(i)
  BY Bounds, Zenon DEF Init, Visible, Empty
<1>2. pc[t] = "run" /\ frames[t] = << >> /\ outcome[t] = NoResult
  BY Zenon DEF Init
<1>3. Marks(t)
  BY <1>1, <1>2, Zenon DEF Marks, Mine, Fresh
<1>4. Ordered(t) /\ Kept(t)
  BY <1>2 DEF Ordered, Kept
<1>5. Calls(t) /\ Restores(t)
  BY <1>2 DEF Calls, InBridge, Trapped, Restores, NoResult
<1> QED
  BY <1>3, <1>4, <1>5, Zenon DEF ThreadInv

(* Every step. *)
LEMMA NextNests ==
  ASSUME ~DirectAtStub, ZeroMeansNone, BaseInv, NestInv, [Next]_vars
  PROVE  NestInv'
<1>1. CASE UNCHANGED vars
  <2>1. /\ pc' = pc /\ cur' = cur /\ frames' = frames /\ slot' = slot /\ cont' = cont
        /\ outcome' = outcome /\ table' = table
    BY <1>1, Zenon DEF vars, tableVars
  <2> QED
    BY <2>1 DEF NestInv, ThreadInv, Marks, Ordered, Calls, Kept, KeptBy, Restores, Above, Fresh,
                Mine, Visible, Matches, InBridge, Trapped, Top
<1> QED
  BY <1>1, NewCallNests, ReflexNests, ClearNests, RetireNests, ReserveNests, PublishNests,
     ReplayNests, RouteNests, NoneNests, LeaveNests, EnterNests, SMTT(30) DEF Next, Step

=============================================================================
