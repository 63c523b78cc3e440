--------------------------- MODULE DispatcherProofs ---------------------------
(***************************************************************************)
(* What is proved of the dispatcher bridge.                                  *)
(*   - The syscalls that pass it (SyscallRouter), for every finite set of    *)
(*     threads, table capacity, stack depth and number of syscalls: the      *)
(*     count never lags behind the visible markers, and, when marked stubs   *)
(*     are reached through the bridge only, an outer syscall keeps its       *)
(*     marker while Reflex works on it and a replay restores its own         *)
(*     context.                                                              *)
(*   - Its selector and what the selector discovers (DispatchTables), for    *)
(*     every number of threads, imports and stub slots: bridge stacks are    *)
(*     not shared, and only hooked stubs are replayed.                       *)
(***************************************************************************)
EXTENDS SyscallRouterProofs, DispatchTables, FiniteSetTheorems, WellFoundedInduction


-----------------------------------------------------------------------------
(* The count.  Counted are the visible markers, and the threads between the    *)
(* count and the publication, or between the release and the end of the count. *)

Shown == {i \in Slots : Visible(i)}
CountedLabels == {"publish", "clear", "uncount"}
Counted == {t \in Threads : pc[t] \in CountedLabels}
CountOK == active = Cardinality(Shown) + Cardinality(Counted)

(* A set gains or loses one element. *)
LEMMA CardMoves ==
  ASSUME NEW S, IsFiniteSet(S), NEW x
  PROVE  /\ Cardinality(S) \in Nat
         /\ x \notin S => Cardinality(S \cup {x}) = Cardinality(S) + 1
         /\ x \in S => Cardinality(S \ {x}) = Cardinality(S) - 1
<1>1. Cardinality(S) \in Nat
  BY FS_CardinalityType, Zenon
<1>2. x \notin S => Cardinality(S \cup {x}) = Cardinality(S) + 1
  BY FS_AddElement, Zenon
<1>3. x \in S => Cardinality(S \ {x}) = Cardinality(S) - 1
  BY FS_RemoveElement, Zenon
<1> QED
  BY <1>1, <1>2, <1>3, Zenon

(* Both sets are finite. *)
LEMMA CountsAreFinite ==
  /\ IsFiniteSet(Shown) /\ IsFiniteSet(Counted)
  /\ Cardinality(Shown) \in Nat /\ Cardinality(Shown) <= Capacity
  /\ Cardinality(Counted) \in Nat /\ Cardinality(Counted) <= Cardinality(Threads)
  /\ Cardinality(Threads) \in Nat
<1>1. IsFiniteSet(Threads) /\ IsFiniteSet(Slots) /\ Cardinality(Slots) = Capacity
  <2>0. IsFiniteSet(Threads)
    BY RouterAssumption, Zenon DEF RouterAssumption
  <2>1. Capacity \in Int /\ 1 \in Int /\ ~(1 > Capacity) /\ Capacity - 1 + 1 = Capacity
    BY RouterAssumption DEF RouterAssumption
  <2>2. /\ IsFiniteSet(1..Capacity)
        /\ Cardinality(1..Capacity) = IF 1 > Capacity THEN 0 ELSE Capacity - 1 + 1
    BY <2>1, FS_Interval, Zenon
  <2> QED
    BY <2>0, <2>1, <2>2, Zenon DEF Slots
<1>2. Shown \subseteq Slots /\ Counted \subseteq Threads
  BY Zenon DEF Shown, Counted
<1>3. IsFiniteSet(Shown) /\ IsFiniteSet(Counted)
  BY <1>1, <1>2, FS_Subset, Zenon
<1>4. Cardinality(Shown) <= Capacity /\ Cardinality(Counted) <= Cardinality(Threads)
  BY <1>1, <1>2, FS_Subset, Zenon
<1>5. Cardinality(Shown) \in Nat /\ Cardinality(Counted) \in Nat /\ Cardinality(Threads) \in Nat
  BY <1>1, <1>3, FS_CardinalityType, Zenon
<1> QED
  BY <1>3, <1>4, <1>5, Zenon

(* Who is counted after a step of t: the others as before. *)
LEMMA CountedMoves ==
  ASSUME NEW t \in Threads, Others(t)
  PROVE  /\ (pc'[t] \in CountedLabels <=> pc[t] \in CountedLabels) =>
              Cardinality(Counted') = Cardinality(Counted)
         /\ pc'[t] \in CountedLabels /\ pc[t] \notin CountedLabels =>
              Cardinality(Counted') = Cardinality(Counted) + 1
         /\ pc'[t] \notin CountedLabels /\ pc[t] \in CountedLabels =>
              Cardinality(Counted') = Cardinality(Counted) - 1
<1>1. \A u \in Threads \ {t} : u \in Counted' <=> u \in Counted
  BY Zenon DEF Counted, Others
<1>2. (t \in Counted' <=> pc'[t] \in CountedLabels) /\ (t \in Counted <=> pc[t] \in CountedLabels)
  BY Zenon DEF Counted
<1>3. Counted' \subseteq Threads /\ Counted \subseteq Threads
  BY Zenon DEF Counted
<1>4. CASE pc'[t] \in CountedLabels <=> pc[t] \in CountedLabels
  <2>1. Counted' = Counted
    BY <1>1, <1>2, <1>3, <1>4
  <2> QED
    BY <1>4, <2>1, Zenon
<1>5. CASE pc'[t] \in CountedLabels /\ pc[t] \notin CountedLabels
  <2>1. Counted' = Counted \cup {t} /\ t \notin Counted
    BY <1>1, <1>2, <1>3, <1>5, Zenon
  <2> QED
    BY <1>5, <2>1, CountsAreFinite, CardMoves, Zenon
<1>6. CASE pc'[t] \notin CountedLabels /\ pc[t] \in CountedLabels
  <2>1. Counted' = Counted \ {t} /\ t \in Counted
    BY <1>1, <1>2, <1>3, <1>6, Zenon
  <2> QED
    BY <1>6, <2>1, CountsAreFinite, CardMoves, Zenon
<1> QED
  BY <1>4, <1>5, <1>6, Zenon

(* What is shown after a step that touches slot i alone. *)
LEMMA ShownMoves ==
  ASSUME NEW i \in Slots, \A j \in Slots \ {i} : table'[j] = table[j]
  PROVE  /\ (Visible(i)' <=> Visible(i)) => Cardinality(Shown') = Cardinality(Shown)
         /\ Visible(i)' /\ ~Visible(i) => Cardinality(Shown') = Cardinality(Shown) + 1
         /\ ~Visible(i)' /\ Visible(i) => Cardinality(Shown') = Cardinality(Shown) - 1
<1>1. \A j \in Slots \ {i} : j \in Shown' <=> j \in Shown
  BY Zenon DEF Shown, Visible
<1>2. (i \in Shown' <=> Visible(i)') /\ (i \in Shown <=> Visible(i))
  BY Zenon DEF Shown
<1>3. Shown' \subseteq Slots /\ Shown \subseteq Slots
  BY Zenon DEF Shown
<1>4. CASE Visible(i)' <=> Visible(i)
  <2>1. Shown' = Shown
    BY <1>1, <1>2, <1>3, <1>4
  <2> QED
    BY <1>4, <2>1, Zenon
<1>5. CASE Visible(i)' /\ ~Visible(i)
  <2>1. Shown' = Shown \cup {i} /\ i \notin Shown
    BY <1>1, <1>2, <1>3, <1>5, Zenon
  <2> QED
    BY <1>5, <2>1, CountsAreFinite, CardMoves, Zenon
<1>6. CASE ~Visible(i)' /\ Visible(i)
  <2>1. Shown' = Shown \ {i} /\ i \in Shown
    BY <1>1, <1>2, <1>3, <1>6, Zenon
  <2> QED
    BY <1>6, <2>1, CountsAreFinite, CardMoves, Zenon
<1> QED
  BY <1>4, <1>5, <1>6, Zenon

(* A step that neither counts nor uncounts, and shows and hides nothing. *)
LEMMA QuietCount ==
  ASSUME CountOK, NEW t \in Threads, Others(t), active' = active,
         pc'[t] \in CountedLabels <=> pc[t] \in CountedLabels,
         \A i \in Slots : Visible(i)' <=> Visible(i)
  PROVE  CountOK'
<1>1. Shown' = Shown
  BY Zenon DEF Shown
<1>2. Cardinality(Counted') = Cardinality(Counted)
  BY CountedMoves, Zenon
<1> QED
  BY <1>1, <1>2, Zenon DEF CountOK

(* release_marker begins: a marker disappears, its thread still counts. *)
LEMMA ReleaseCount ==
  ASSUME BaseInv, CountOK, NEW t \in Threads, NEW i \in Slots, NEW next,
         Visible(i), pc[t] \notin CountedLabels, Release(t, i, next), Others(t), active' = active
  PROVE  CountOK'
<1>1. /\ pc'[t] = "clear" /\ \A j \in Slots \ {i} : table'[j] = table[j]
      /\ table'[i] = [table[i] EXCEPT !.stack = Reserved]
  BY Zenon DEF Release, Goto, BaseInv, Types
<1>2. ~Visible(i)'
  <2>1. table[i] \in Entry
    BY Zenon DEF BaseInv, Types
  <2>2. table'[i].stack = Reserved
    BY <1>1, <2>1, Zenon DEF Entry
  <2> QED
    BY <2>2, Bounds, Zenon DEF Visible
<1>3. Cardinality(Shown') = Cardinality(Shown) - 1
  BY <1>1, <1>2, ShownMoves, Zenon
<1>4. Cardinality(Counted') = Cardinality(Counted) + 1
  <2>1. pc'[t] \in CountedLabels
    BY <1>1, Zenon DEF CountedLabels
  <2> QED
    BY <2>1, CountedMoves, Zenon
<1> QED
  BY <1>3, <1>4, CountsAreFinite DEF CountOK

(* The steps of the marker table itself. *)
LEMMA TableCount ==
  ASSUME BaseInv, CountOK, NEW t \in Threads,
         ClearSlot(t) \/ Uncount(t) \/ CountMarker(t) \/ PublishMarker(t)
  PROVE  CountOK'
<1>1. Others(t)
  BY Zenon DEF ClearSlot, Uncount, CountMarker, PublishMarker, Goto, BaseInv, Types, Others
<1>2. CASE ClearSlot(t)
  <2>1. /\ pc[t] = "clear" /\ pc'[t] = "uncount" /\ active' = active
        /\ \A j \in Slots \ {slot[t]} : table'[j] = table[j]
        /\ table'[slot[t]] = Empty /\ slot'[t] = slot[t] /\ slot[t] \in Slots
        /\ table[slot[t]].stack = Reserved
    BY <1>2, Zenon DEF ClearSlot, Goto, BaseInv, Types, SlotsOK, HoldsSlot
  <2>2. table'[slot[t]].stack \notin Stacks /\ table[slot[t]].stack \notin Stacks
    BY <2>1, Bounds DEF Empty
  <2>3. \A i \in Slots : Visible(i)' <=> Visible(i)
    BY <2>1, <2>2, Zenon DEF Visible
  <2> QED
    BY <1>1, <2>1, <2>3, QuietCount, Zenon DEF CountedLabels
<1>3. CASE Uncount(t)
  <2>1. /\ pc[t] \in CountedLabels /\ pc'[t] \notin CountedLabels
        /\ active' = active - 1 /\ table' = table
    BY <1>3, Zenon DEF Uncount, Goto, BaseInv, Types, SlotsOK, CountedLabels
  <2>2. Shown' = Shown
    BY <2>1, Zenon DEF Shown, Visible
  <2>3. Cardinality(Counted') = Cardinality(Counted) - 1
    BY <1>1, <2>1, CountedMoves, Zenon
  <2> QED
    BY <2>1, <2>2, <2>3, CountsAreFinite DEF CountOK
<1>4. CASE CountMarker(t)
  <2>1. /\ pc[t] \notin CountedLabels /\ pc'[t] \in CountedLabels
        /\ active' = active + 1 /\ table' = table
    BY <1>4, Zenon DEF CountMarker, Goto, BaseInv, Types, CountedLabels
  <2>2. Shown' = Shown
    BY <2>1, Zenon DEF Shown, Visible
  <2>3. Cardinality(Counted') = Cardinality(Counted) + 1
    BY <1>1, <2>1, CountedMoves, Zenon
  <2> QED
    BY <2>1, <2>2, <2>3, CountsAreFinite DEF CountOK
<1>5. CASE PublishMarker(t)
  <2>0. PICK i \in Slots : i = slot[t]
    BY Zenon DEF BaseInv, Types
  <2>1. /\ pc[t] \in CountedLabels /\ pc'[t] \notin CountedLabels /\ active' = active
        /\ \A j \in Slots \ {i} : table'[j] = table[j]
        /\ table'[i].stack = cur[t].stack /\ table[i].stack = Reserved /\ cur[t].stack \in Stacks
    BY <1>5, <2>0, Zenon DEF PublishMarker, Goto, BaseInv, Types, SlotsOK, CallsOK, HoldsSlot, InBridge,
                      CountedLabels
  <2>2. Visible(i)' /\ ~Visible(i)
    BY <2>1, Bounds, Zenon DEF Visible
  <2>3. Cardinality(Shown') = Cardinality(Shown) + 1
    BY <2>1, <2>2, ShownMoves, Zenon
  <2>4. Cardinality(Counted') = Cardinality(Counted) - 1
    BY <1>1, <2>1, CountedMoves, Zenon
  <2> QED
    BY <2>1, <2>3, <2>4, CountsAreFinite DEF CountOK
<1> QED
  BY <1>2, <1>3, <1>4, <1>5, Zenon

-----------------------------------------------------------------------------
(* A trapped call leaves, with its marker if it has one. *)
LEMMA LeaveCount ==
  ASSUME BaseInv, CountOK, NEW t \in Threads, ConsumeReplay(t) \/ Bypass(t) \/ ForwardToWine(t)
  PROVE  CountOK'
<1>1. /\ Others(t) /\ active' = active /\ pc[t] \in {"trap", "bridged", "unbridged"}
  BY DEF ConsumeReplay, Bypass, ForwardToWine, Done, Release, Goto, BaseInv, Types, Others
<1>2. \/ \E i \in Slots : Visible(i) /\ Release(t, i, "run")
      \/ Goto(t, "run") /\ table' = table
  <2>1. CASE ConsumeReplay(t)
    BY <2>1, Zenon DEF ConsumeReplay, Found, Matches, Mine
  <2>2. CASE pc[t] = "bridged" /\ Release(t, slot[t], "run")
    <3>1. slot[t] \in Slots /\ Visible(slot[t])
      BY <2>2, Zenon DEF BaseInv, Types, SlotsOK, Matches, Mine
    <3> QED
      BY <2>2, <3>1, Zenon
  <2> QED
    BY <2>1, <2>2, Zenon DEF Bypass, ForwardToWine
<1>3. CASE \E i \in Slots : Visible(i) /\ Release(t, i, "run")
  BY <1>1, <1>3, ReleaseCount, Zenon DEF CountedLabels
<1>4. CASE Goto(t, "run") /\ table' = table
  <2>1. pc'[t] = "run"
    BY <1>4, Zenon DEF Goto, BaseInv, Types
  <2> QED
    BY <1>1, <1>4, <2>1, QuietCount, Zenon DEF CountedLabels, Visible
<1> QED
  BY <1>2, <1>3, <1>4, Zenon

(* dispatcher_target and the handler up to the decision. *)
LEMMA BridgeCount ==
  ASSUME BaseInv, CountOK, NEW t \in Threads,
         RetireMarkers(t) \/ ReserveSlot(t) \/ ConsumeRoute(t) \/ ConsumeNone(t) \/ RouteToReflex(t)
  PROVE  CountOK'
<1>1. /\ Others(t) /\ active' = active
      /\ pc[t] \in {"retire", "reserve", "trap", "bridged", "unbridged"}
  BY ZenonT(30) DEF RetireMarkers, ReserveSlot, ConsumeRoute, ConsumeNone, RouteToReflex, Done, Release, Goto,
         BaseInv, Types, Others, tableVars
<1>2. CASE \E i \in Slots : ToRetire(t, i) /\ Release(t, i, "retire")
  BY <1>1, <1>2, ReleaseCount, Zenon DEF CountedLabels, ToRetire, Mine
<1>3. CASE /\ pc'[t] \in {"reserve", "run", "count", "bridged", "unbridged"}
           /\ \A i \in Slots : Visible(i)' <=> Visible(i)
  BY <1>1, <1>3, QuietCount, Zenon DEF CountedLabels
<1>4. CASE RetireMarkers(t)
  <2>1. \/ \E i \in Slots : ToRetire(t, i) /\ Release(t, i, "retire")
        \/ pc'[t] \in {"reserve", "run"} /\ table' = table
    BY <1>4, Zenon DEF RetireMarkers, Goto, BaseInv, Types, tableVars
  <2> QED
    BY <1>2, <1>3, <2>1, Zenon DEF Visible
<1>5. CASE ReserveSlot(t)
  <2>1. CASE table' = table /\ pc'[t] = "run"
    BY <1>3, <2>1, Zenon DEF Visible
  <2>2. CASE \E i \in Slots : /\ table[i].stack = 0
                              /\ table' = [table EXCEPT ![i].stack = Reserved]
                              /\ Goto(t, "count")
    <3>1. PICK i \in Slots : /\ table[i].stack = 0
                             /\ table' = [table EXCEPT ![i].stack = Reserved]
                             /\ Goto(t, "count")
      BY <2>2, Zenon
    <3>2. /\ pc'[t] = "count" /\ \A j \in Slots \ {i} : table'[j] = table[j]
          /\ table'[i] = [table[i] EXCEPT !.stack = Reserved] /\ table[i] \in Entry
      BY <3>1, Zenon DEF Goto, BaseInv, Types
    <3>3. table'[i].stack = Reserved
      BY <3>2, Zenon DEF Entry
    <3>4. ~Visible(i) /\ ~Visible(i)'
      BY <3>1, <3>3, Bounds, Zenon DEF Visible
    <3>5. \A j \in Slots : Visible(j)' <=> Visible(j)
      BY <3>2, <3>4, Zenon DEF Visible
    <3> QED
      BY <1>3, <3>2, <3>5, Zenon
  <2>3. \/ table' = table /\ pc'[t] = "run"
        \/ \E i \in Slots : /\ table[i].stack = 0
                            /\ table' = [table EXCEPT ![i].stack = Reserved]
                            /\ Goto(t, "count")
    BY <1>5, Zenon DEF ReserveSlot, Goto, BaseInv, Types
  <2> QED
    BY <2>1, <2>2, <2>3, Zenon
<1>6. CASE ConsumeRoute(t)
  <2>1. PICK i \in Slots : table' = [table EXCEPT ![i].phase = 1, ![i].saved = cur[t].id]
    BY <1>6, Zenon DEF ConsumeRoute, Found
  <2>2. /\ pc'[t] = "bridged" /\ table[i] \in Entry
        /\ \A j \in Slots \ {i} : table'[j] = table[j]
        /\ table'[i] = [table[i] EXCEPT !.phase = 1, !.saved = cur[t].id]
    BY <1>6, <2>1, Zenon DEF ConsumeRoute, Goto, BaseInv, Types
  <2>3. table'[i].stack = table[i].stack
    BY <2>2, Zenon DEF Entry
  <2> QED
    BY <1>3, <2>2, <2>3, Zenon DEF Visible
<1>7. CASE ConsumeNone(t) \/ RouteToReflex(t)
  <2>1. pc'[t] \in {"run", "unbridged"} /\ table' = table
    BY <1>7, Zenon DEF ConsumeNone, RouteToReflex, Goto, BaseInv, Types, tableVars
  <2> QED
    BY <1>3, <2>1, Zenon DEF Visible
<1> QED
  BY <1>4, <1>5, <1>6, <1>7, Zenon

(* Program and Reflex code do not touch the table. *)
LEMMA ProgramCount ==
  ASSUME BaseInv, CountOK, NEW t \in Threads,
         CallDispatcher(t) \/ CallDirectly(t) \/ ReflexReplays(t) \/ ReflexAnswers(t)
  PROVE  CountOK'
<1>1. /\ pc[t] = "run" /\ active' = active /\ table' = table /\ pc'[t] \in {"run", "retire", "trap"}
  BY Zenon DEF CallDispatcher, CallDirectly, NewCall, ReflexReplays, ReflexAnswers, Goto, BaseInv, Types,
         tableVars
<1>2. Others(t)
  BY DEF CallDispatcher, CallDirectly, NewCall, ReflexReplays, ReflexAnswers, Goto, BaseInv, Types,
         Others
<1> QED
  BY <1>1, <1>2, QuietCount, Zenon DEF CountedLabels, Visible

(* An empty table counts nothing. *)
LEMMA InitCount == Init => CountOK
<1> SUFFICES ASSUME Init PROVE CountOK
  BY Zenon
<1>1. \A i \in Slots : ~Visible(i)
  BY Bounds, Zenon DEF Init, Visible, Empty
<1>2. Shown = {} /\ Counted = {}
  BY <1>1, Zenon DEF Init, Shown, Counted, CountedLabels
<1>3. Cardinality({}) = 0
  BY FS_EmptySet, Zenon
<1> QED
  BY <1>2, <1>3 DEF CountOK, Init

(* Every step. *)
LEMMA NextCount == BaseInv /\ CountOK /\ [Next]_vars => CountOK'
<1> SUFFICES ASSUME BaseInv, CountOK, [Next]_vars PROVE CountOK'
  BY Zenon
<1>1. CASE UNCHANGED vars
  BY <1>1, Zenon DEF vars, tableVars, CountOK, Shown, Counted, Visible
<1> QED
  BY <1>1, LeaveCount, BridgeCount, ProgramCount, TableCount, Zenon DEF Next, Step

(* The fast path may trust a count of zero. *)
LEMMA CountIsRight ==
  ASSUME CountOK
  PROVE  /\ active \in 0..(Capacity + Cardinality(Threads))
         /\ CountCoversVisible
         /\ ZeroMeansNone
<1>1. active \in 0..(Capacity + Cardinality(Threads)) /\ Cardinality(Shown) <= active
  BY CountsAreFinite, Bounds DEF CountOK
<1>2. ASSUME active = 0 PROVE \A i \in Slots : ~Visible(i)
  <2>1. Cardinality(Shown) = 0
    BY <1>1, <1>2, CountsAreFinite
  <2>2. Shown = {}
    BY <2>1, CountsAreFinite, FS_EmptySet, Zenon
  <2> QED
    BY <2>2, Zenon DEF Shown
<1> QED
  BY <1>1, <1>2, Zenon DEF CountCoversVisible, Shown, ZeroMeansNone

-----------------------------------------------------------------------------
(* "Count the reserved slot before publishing": whatever the threads do, also  *)
(* with syscalls at a marked stub that did not pass the bridge, the count      *)
(* covers the visible markers, so the fast path never skips one.               *)
THEOREM CountIsSound == Spec => [](TypeOK /\ CountCoversVisible)
<1>1. BaseInv /\ CountOK => TypeOK /\ CountCoversVisible
  BY CountIsRight, Zenon DEF BaseInv, Types, TypeOK, Entry, Outcome, Labels
<1> QED
  BY InitBase, NextBase, InitCount, NextCount, <1>1, PTL DEF Spec

(* "A marker never leaks into a later syscall at a reused stack depth": when   *)
(* marked stubs are entered through the dispatcher only, an outer syscall has  *)
(* its marker for as long as Reflex works on it, and every replay restores the *)
(* context of the syscall that was routed.                                     *)
LEMMA NestedSyscallsAreSound ==
  ~DirectAtStub => (Spec => [](MarkersAreSound /\ ReplayRestoresOwnContext))
<1> SUFFICES ASSUME ~DirectAtStub PROVE Spec => [](MarkersAreSound /\ ReplayRestoresOwnContext)
  BY Zenon
<1> DEFINE RouterInv == BaseInv /\ CountOK /\ NestInv
<1>1. Init => RouterInv
  BY InitBase, InitCount, InitNests, Zenon
<1>2. RouterInv /\ [Next]_vars => RouterInv'
  BY NextBase, NextCount, NextNests, CountIsRight, Zenon
<1>3. RouterInv => OuterMarkerSurvives /\ ReplayRestoresOwnContext
  BY Zenon DEF NestInv, ThreadInv, Kept, KeptBy, Restores, OuterMarkerSurvives, ReplayRestoresOwnContext
<1>4. Spec => [](TypeOK /\ CountCoversVisible)
  BY CountIsSound, Zenon
<1>5. TypeOK /\ CountCoversVisible /\ OuterMarkerSurvives => MarkersAreSound
  BY Zenon DEF MarkersAreSound
<1> QED
  BY <1>1, <1>2, <1>3, <1>4, <1>5, PTL DEF Spec

(* SIGSYS finds the marker of the syscall it interrupted and no other: the     *)
(* count covers the visible markers, and the marker of an outer syscall is     *)
(* still the one it published after everything nested in it.                   *)
THEOREM MarkersStaySound == ~DirectAtStub => (Spec => []MarkersAreSound)
  BY NestedSyscallsAreSound, PTL

(* A syscall that is replayed after Reflex's handler returned gets back the    *)
(* context that the bridge saved for that very syscall.                        *)
THEOREM ReplaysRestoreTheirOwn == ~DirectAtStub => (Spec => []ReplayRestoresOwnContext)
  BY NestedSyscallsAreSound, PTL

-----------------------------------------------------------------------------
(* The selector, its stacks and the table of stubs. *)

DispatchLabels == {"idle", "gone", "stack", "resolve"} \cup InSelector
Indices == 0..(StubSlots - 1)
Filled == {i \in Indices : stubs[i] # 0}
CallLocals == [stub : Nat, inside : BOOLEAN, import : Nat, repaired : BOOLEAN]

DispatchTypes ==
  /\ stacks \in [{slot_of[t] : t \in Callers} -> BOOLEAN]
  /\ reflex_image \in BOOLEAN /\ scan_lock \in BOOLEAN /\ hooked \subseteq 1..Imports
  /\ stubs \in [Indices -> Nat] /\ stub_count \in Nat
  /\ dpc \in [Callers -> DispatchLabels] /\ call \in [Callers -> CallLocals]

(* A stack in use is marked, and has one user. *)
StacksAreOwn ==
  /\ \A t \in Callers : dpc[t] \in InSelector => stacks[slot_of[t]]
  /\ \A t, u \in Callers : dpc[t] \in InSelector /\ dpc[u] \in InSelector /\ slot_of[t] = slot_of[u] => t = u

(* One thread scans, under the lock; it knows Reflex's image, and the count    *)
(* lags by the one stub it has not counted yet.                                *)
ScanIsOwn ==
  /\ \A t \in Callers : dpc[t] \in {"import", "count"} => scan_lock
  /\ \A t, u \in Callers : dpc[t] \in {"import", "count"} /\ dpc[u] \in {"import", "count"} => t = u
  /\ \A t \in Callers : dpc[t] \in {"scan", "import", "count"} => reflex_image
  /\ stub_count # 0 => reflex_image

StubsAreCounted ==
  /\ Cardinality(Filled) <= StubCapacity /\ stub_count <= Cardinality(Filled)
  /\ ~scan_lock => stub_count = Cardinality(Filled)
  /\ \A t \in Callers : dpc[t] = "import" => stub_count = Cardinality(Filled)
  /\ \A t \in Callers : dpc[t] = "count" => stub_count + 1 = Cardinality(Filled)

(* A stub in the table, and one that is replayed, is a trampoline of Reflex.   *)
IsHook(stub) == \E j \in hooked : Hooks[j] = stub
StubsAreHooks ==
  /\ \A i \in Filled : IsHook(stubs[i])
  /\ \A t \in Callers : dpc[t] = "replay" => reflex_image /\ ~call[t].inside /\ IsHook(call[t].stub)

DispatchInv ==
  /\ DispatchTypes /\ StacksAreOwn /\ ScanIsOwn /\ StubsAreCounted /\ StubsAreHooks

-----------------------------------------------------------------------------
(* A remainder is a slot number. *)
LEMMA ModInside ==
  ASSUME NEW a \in Nat, NEW c \in Nat \ {0}
  PROVE  a % c \in 0..(c - 1)
  BY SMT

(* Division with remainder. *)
LEMMA DivMod ==
  ASSUME NEW a \in Nat, NEW c \in Nat \ {0}
  PROVE  a = c * (a \div c) + (a % c) /\ a \div c \in Nat
  BY SMT

(* Quotient and remainder are unique. *)
LEMMA DivModUnique ==
  ASSUME NEW c \in Nat \ {0}, NEW q \in Nat, NEW p \in Nat,
         NEW r \in 0..(c - 1), NEW s \in 0..(c - 1), c * q + r = c * p + s
  PROVE  q = p /\ r = s
<1>1. CASE q < p
  <2>1. c * (q + 1) <= c * p
    BY <1>1, SMT
  <2>2. c * (q + 1) = c * q + c
    BY SMT
  <2> QED
    BY <2>1, <2>2, SMT
<1>2. CASE p < q
  <2>1. c * (p + 1) <= c * q
    BY <1>2, SMT
  <2>2. c * (p + 1) = c * p + c
    BY SMT
  <2> QED
    BY <2>1, <2>2, SMT
<1>3. CASE p = q
  BY <1>3, SMT
<1> QED
  BY <1>1, <1>2, <1>3, SMT

(* The remainder of a multiple of c plus r is r. *)
LEMMA ModOf ==
  ASSUME NEW c \in Nat \ {0}, NEW q \in Nat, NEW r \in 0..(c - 1)
  PROVE  (c * q + r) % c = r
<1> DEFINE a == c * q + r
           d == a \div c
           m == a % c
<1>1. a \in Nat
  BY SMT
<1>2. a = c * d + m /\ d \in Nat /\ m \in 0..(c - 1)
  BY <1>1, DivMod, ModInside, Zenon
<1> HIDE DEF d, m
<1>3. c * q + r = c * d + m
  BY <1>2, Zenon
<1>4. r = m
  BY <1>2, <1>3, DivModUnique
<1> QED
  BY <1>4, Zenon DEF m

(* Probing from h reaches every slot. *)
LEMMA ProbingCovers ==
  ASSUME NEW h \in Nat, NEW c \in Nat \ {0}, NEW i \in 0..(c - 1)
  PROVE  \E k \in 0..(c - 1) : (h + k) % c = i
<1> DEFINE q == h \div c
           r == h % c
<1>1. h = c * q + r /\ q \in Nat /\ r \in 0..(c - 1)
  BY DivMod, ModInside, Zenon
<1> HIDE DEF q, r
<1>2. CASE r <= i
  <2>1. h + (i - r) = c * q + i /\ i - r \in 0..(c - 1)
    BY <1>1, <1>2, SMT
  <2>2. (c * q + i) % c = i
    BY <1>1, ModOf, Zenon
  <2> QED
    BY <2>1, <2>2, Zenon
<1>3. CASE i < r
  <2>1. c * (q + 1) = c * q + c
    BY <1>1, SMT
  <2>2. h + (i - r + c) = c * (q + 1) + i /\ i - r + c \in 0..(c - 1)
    BY <1>1, <1>3, <2>1, SMT
  <2>3. (c * (q + 1) + i) % c = i
    <3>1. q + 1 \in Nat
      BY <1>1, SMT
    <3> QED
      BY <3>1, ModOf, Zenon
  <2> QED
    BY <2>2, <2>3, Zenon
<1> QED
  BY <1>1, <1>2, <1>3, SMT

(* Two numbers are in order. *)
LEMMA LeastOrder ==
  ASSUME NEW m \in Nat, NEW n \in Nat, ~(n < m)
  PROVE  m <= n
<1> QED
  BY SMT

(* The smallest element of a set of numbers. *)
LEMMA SmallestOf ==
  ASSUME NEW S \in SUBSET Nat, S # {}
  PROVE  \E n \in S : \A m \in S : n <= m
<1> DEFINE R == OpToRel(<, Nat)
<1>1. \E x \in S : \A y \in S : ~(<<y, x>> \in R)
  BY NatLessThanWellFounded, WFMin, Zenon
<1>2. \A x, y \in Nat : y < x => <<y, x>> \in R
  BY Zenon DEF OpToRel
<1>3. PICK x \in S : \A y \in S : ~(y < x)
  BY <1>1, <1>2, Zenon
<1>4. \A y \in S : x <= y
  <2> HIDE DEF R
  <2> SUFFICES ASSUME NEW y \in S PROVE x <= y
    BY Zenon
  <2>1. x \in Nat /\ y \in Nat /\ ~(y < x)
    BY <1>3, Zenon
  <2> QED
    BY <2>1, LeastOrder, Zenon
<1> QED
  BY <1>3, <1>4, Zenon

(* The table of stubs has StubSlots slots, and fewer are filled. *)
LEMMA FilledIsFinite ==
  /\ IsFiniteSet(Indices) /\ Cardinality(Indices) = StubSlots
  /\ IsFiniteSet(Filled) /\ Filled \subseteq Indices /\ Cardinality(Filled) \in Nat
<1>1. StubSlots \in Nat /\ 0 \in Int /\ StubSlots - 1 \in Int
  BY DispatchAssumption, SMT DEF DispatchAssumption
<1>2. IsFiniteSet(Indices) /\ Cardinality(Indices) = StubSlots
  <2>1. IsFiniteSet(Indices)
    BY <1>1, FS_Interval, Zenon DEF Indices
  <2>2. Cardinality(Indices) = IF 0 > StubSlots - 1 THEN 0 ELSE StubSlots - 1 - 0 + 1
    BY <1>1, FS_Interval, Zenon DEF Indices
  <2>3. CASE 0 > StubSlots - 1
    <3>1. Cardinality(Indices) = 0
      BY <2>2, <2>3, Zenon
    <3> QED
      BY <1>1, <2>1, <2>3, <3>1, SMT
  <2>4. CASE ~(0 > StubSlots - 1)
    <3>1. Cardinality(Indices) = StubSlots - 1 - 0 + 1
      BY <2>2, <2>4, Zenon
    <3> QED
      BY <1>1, <2>1, <2>4, <3>1, SMT
  <2> QED
    BY <2>3, <2>4, Zenon
<1>3. Filled \subseteq Indices
  BY Zenon DEF Filled
<1>4. IsFiniteSet(Filled)
  BY <1>2, <1>3, FS_Subset, Zenon
<1>5. Cardinality(Filled) \in Nat
  BY <1>4, FS_CardinalityType, Zenon
<1> QED
  BY <1>2, <1>3, <1>4, <1>5, Zenon

(* Probing a table that is not full ends at a slot that is free or holds the   *)
(* address.                                                                    *)
LEMMA FirstFits ==
  ASSUME DispatchTypes, Cardinality(Filled) <= StubCapacity, NEW stub \in Nat
  PROVE  FirstFit(stub) \in Indices /\ stubs[FirstFit(stub)] \in {0, stub}
<1> DEFINE P == Probe(stub)
           S == {n \in Indices : stubs[P[n]] \in {0, stub}}
<1>1. StubSlots \in Nat \ {0} /\ StubCapacity \in Nat /\ StubCapacity < StubSlots
  BY DispatchAssumption, SMT DEF DispatchAssumption
<1>2. PICK i \in Indices : stubs[i] = 0
  <2> SUFFICES ASSUME \A i \in Indices : stubs[i] # 0 PROVE FALSE
    BY Zenon
  <2>1. Filled = Indices
    BY Zenon DEF Filled
  <2>2. Cardinality(Filled) = StubSlots
    BY <2>1, FilledIsFinite, Zenon
  <2> QED
    BY <1>1, <2>2, SMT
<1>3. PICK k \in Indices : (stub + k) % StubSlots = i
  BY <1>1, ProbingCovers, Zenon DEF Indices
<1>4. \A n \in Indices : P[n] = (stub + n) % StubSlots /\ P[n] \in Indices
  <2> SUFFICES ASSUME NEW n \in Indices PROVE P[n] = (stub + n) % StubSlots /\ P[n] \in Indices
    BY Zenon
  <2>1. P[n] = (stub + n) % StubSlots
    BY Zenon DEF Probe, Indices
  <2>2. stub + n \in Nat
    BY <1>1, SMT DEF Indices
  <2> QED
    BY <1>1, <2>1, <2>2, ModInside, Zenon DEF Indices
<1>5. k \in S
  BY <1>2, <1>3, <1>4, Zenon
<1>6. Indices \subseteq Nat
  BY <1>1, SMT DEF Indices
<1>7. PICK n \in S : \A m \in S : n <= m
  <2>1. S \in SUBSET Nat /\ S # {}
    BY <1>5, <1>6, Zenon
  <2> HIDE DEF S
  <2> QED
    BY <2>1, SmallestOf, Zenon
<1>8. \A m \in 0..(n - 1) : m \in Indices /\ ~(n <= m)
  <2>1. n \in Indices
    BY <1>7, Zenon
  <2> QED
    BY <1>1, <2>1, SMT DEF Indices
<1>9. \A m \in 0..(n - 1) : stubs[P[m]] \notin {0, stub}
  BY <1>7, <1>8, Zenon
<1> DEFINE Fit(m) == stubs[P[m]] \in {0, stub} /\ \A l \in 0..(m - 1) : stubs[P[l]] \notin {0, stub}
           best == CHOOSE m \in Indices : Fit(m)
<1>10. n \in Indices /\ Fit(n)
  BY <1>7, <1>9, Zenon
<1>11. FirstFit(stub) = P[best]
  BY Zenon DEF FirstFit, Indices
<1>12. best \in Indices /\ Fit(best)
  <2> HIDE DEF Fit
  <2> QED
    BY <1>10, Zenon
<1> HIDE DEF best, P
<1> QED
  BY <1>4, <1>11, <1>12, Zenon

-----------------------------------------------------------------------------
(* Thread t goes to a label, and what the invariant is about stays. *)
SharedStays ==
  UNCHANGED <<stacks, reflex_image, hooked, stubs, stub_count, scan_lock, slot_of>>

(* A step that neither takes a stack or the lock nor decides on a replay.      *)
LEMMA DispatchMoves ==
  ASSUME DispatchInv, NEW t \in Callers, NEW label \in DispatchLabels \ {"import", "count", "replay"},
         NEW c \in CallLocals, DGo(t, label), DSet(t, c), SharedStays,
         dpc[t] \notin {"import", "count"},
         label \in InSelector => dpc[t] \in InSelector,
         label = "scan" => reflex_image
  PROVE  DispatchInv'
<1>1. DispatchTypes /\ dpc \in [Callers -> DispatchLabels] /\ call \in [Callers -> CallLocals]
  BY Zenon DEF DispatchInv, DispatchTypes
<1>2. /\ dpc'[t] = label /\ call'[t] = c
      /\ \A u \in Callers \ {t} : dpc'[u] = dpc[u] /\ call'[u] = call[u]
  BY <1>1, Zenon DEF DGo, DSet
<1>3. DispatchTypes'
  BY <1>1, Zenon DEF DispatchTypes, DGo, DSet, SharedStays
<1>4. \A u \in Callers : dpc'[u] \in InSelector => dpc[u] \in InSelector
  BY <1>2, Zenon
<1>5. StacksAreOwn'
  BY <1>4, Zenon DEF DispatchInv, StacksAreOwn, SharedStays
<1>6. \A u \in Callers : dpc'[u] \in {"import", "count"} => dpc[u] = dpc'[u]
  BY <1>2, Zenon
<1>7. \A u \in Callers : dpc'[u] \in {"scan", "import", "count"} => reflex_image
  BY <1>2, Zenon DEF DispatchInv, ScanIsOwn
<1>8. ScanIsOwn'
  BY <1>6, <1>7, Zenon DEF DispatchInv, ScanIsOwn, SharedStays
<1>9. Filled' = Filled
  BY Zenon DEF Filled, SharedStays
<1>10. StubsAreCounted'
  BY <1>6, <1>9, Zenon DEF DispatchInv, StubsAreCounted, SharedStays
<1>11. \A u \in Callers : dpc'[u] = "replay" => dpc[u] = "replay" /\ call'[u] = call[u]
  BY <1>2, Zenon
<1>12. StubsAreHooks'
  BY <1>9, <1>11, Zenon DEF DispatchInv, StubsAreHooks, IsHook, SharedStays
<1> QED
  BY <1>3, <1>5, <1>8, <1>10, <1>12, Zenon DEF DispatchInv

(* The calls on the SIGSYS path, the gates and the repairs. *)
LEMMA QuietSelectorKeeps ==
  ASSUME DispatchInv, NEW t \in Callers,
         \/ BridgeCall(t) \/ WindowCall(t) \/ Resolve(t) \/ ScanGate(t) \/ (ScanLock(t) /\ scan_lock)
         \/ RepairGate(t) \/ RepairDispatcher(t) \/ RepairHandle(t) \/ RepairDone(t)
  PROVE  DispatchInv'
<1>1. call \in [Callers -> CallLocals] /\ call[t] \in CallLocals /\ call = [call EXCEPT ![t] = call[t]]
  BY Zenon DEF DispatchInv, DispatchTypes
<1>2. \A b \in BOOLEAN : [call[t] EXCEPT !.repaired = b] \in CallLocals
  BY <1>1, Zenon DEF CallLocals
<1>3. call' = call => DSet(t, call[t])
  BY <1>1, Zenon DEF DSet
<1>4. "stack" \notin InSelector /\ "idle" \notin InSelector /\ "resolve" \notin InSelector
  BY Zenon DEF InSelector
<1>5. CASE BridgeCall(t)
  BY <1>1, <1>3, <1>4, <1>5, DispatchMoves, Zenon DEF BridgeCall, SharedStays, DispatchLabels, tables
<1>6. CASE WindowCall(t)
  BY <1>1, <1>3, <1>4, <1>6, DispatchMoves, Zenon DEF WindowCall, SharedStays, DispatchLabels, tables
<1>7. CASE Resolve(t)
  BY <1>1, <1>3, <1>4, <1>7, DispatchMoves, Zenon DEF Resolve, SharedStays, DispatchLabels, tables
<1>8. CASE ScanGate(t)
  BY <1>1, <1>3, <1>8, DispatchMoves, Zenon DEF ScanGate, SharedStays, DispatchLabels, InSelector
<1>9. CASE ScanLock(t) /\ scan_lock
  BY <1>1, <1>3, <1>9, DispatchMoves, Zenon DEF ScanLock, SharedStays, DispatchLabels, InSelector
<1>10. CASE RepairGate(t)
  BY <1>1, <1>3, <1>10, DispatchMoves, Zenon DEF RepairGate, SharedStays, DispatchLabels, InSelector, tables
<1>11. ASSUME NEW here \in {"dispatcher", "handle"}, NEW export, NEW next \in {"handle", "repaired"},
              RepairExport(t, here, export, next)
       PROVE  DispatchInv'
  <2>1. \E c \in CallLocals : DSet(t, c)
    BY <1>1, <1>2, <1>3, <1>11, Zenon DEF RepairExport
  <2>2. next \in DispatchLabels \ {"import", "count", "replay"} /\ here \in InSelector
    BY Zenon DEF DispatchLabels, InSelector
  <2>3. DGo(t, next) /\ SharedStays /\ dpc[t] = here
    BY <1>11, Zenon DEF RepairExport, SharedStays, tables
  <2> QED
    BY <2>1, <2>2, <2>3, DispatchMoves, Zenon
<1>12. CASE RepairDone(t)
  BY <1>1, <1>2, <1>12, DispatchMoves, Zenon DEF RepairDone, SharedStays, DispatchLabels, InSelector, tables
<1> QED
  BY <1>5, <1>6, <1>7, <1>8, <1>9, <1>10, <1>11, <1>12, Zenon DEF RepairDispatcher, RepairHandle
-----------------------------------------------------------------------------
(* The bridge: a stack is taken when free, and released by its user. *)
LEMMA BridgeKeeps ==
  ASSUME DispatchInv, NEW t \in Callers, TakeStack(t) \/ LeaveBridge(t)
  PROVE  DispatchInv'
<1>1. DispatchTypes /\ dpc \in [Callers -> DispatchLabels] /\ call \in [Callers -> CallLocals]
  BY Zenon DEF DispatchInv, DispatchTypes
<1> DEFINE free == LeaveBridge(t)
<1>2. \A u \in Callers \ {t} : dpc'[u] = dpc[u] /\ call'[u] = call[u]
  BY <1>1, Zenon DEF TakeStack, LeaveBridge, DGo, DSet
<1>3. dpc'[t] \in {"gate", "idle"}
  BY <1>1, Zenon DEF TakeStack, LeaveBridge, DGo
<1>4. NoDispatch \in CallLocals
  BY SMT DEF NoDispatch, CallLocals
<1>5. UNCHANGED <<reflex_image, hooked, stubs, stub_count, scan_lock, slot_of>>
  BY Zenon DEF TakeStack, LeaveBridge, tables
<1>6. dpc' \in [Callers -> DispatchLabels] /\ call' \in [Callers -> CallLocals]
  BY <1>1, <1>4, Zenon DEF TakeStack, LeaveBridge, DGo, DSet, DispatchLabels, InSelector
<1>7. stacks' \in [{slot_of[u] : u \in Callers} -> BOOLEAN]
  BY <1>1, Zenon DEF TakeStack, LeaveBridge, DispatchTypes
<1>8. DispatchTypes'
  BY <1>1, <1>5, <1>6, <1>7, Zenon DEF DispatchTypes
<1>9. StacksAreOwn'
  <2>1. CASE TakeStack(t)
    <3>1. \A u \in Callers : dpc[u] \in InSelector => slot_of[u] # slot_of[t] /\ u # t
      BY <2>1, Zenon DEF TakeStack, DispatchInv, StacksAreOwn
    <3>2. \A u \in Callers : dpc'[u] \in InSelector => u = t \/ dpc[u] \in InSelector
      BY <1>2, Zenon
    <3>3. stacks' = [stacks EXCEPT ![slot_of[t]] = TRUE]
      BY <2>1, Zenon DEF TakeStack
    <3>4. \A u \in Callers : dpc'[u] \in InSelector => stacks'[slot_of[u]]
      BY <1>1, <3>1, <3>2, <3>3, Zenon DEF DispatchTypes, DispatchInv, StacksAreOwn
    <3> QED
      BY <1>5, <3>1, <3>2, <3>4, Zenon DEF DispatchInv, StacksAreOwn
  <2>2. CASE LeaveBridge(t)
    <3>1. dpc[t] \in InSelector /\ dpc'[t] = "idle" /\ "idle" \notin InSelector
      BY <1>1, <2>2, Zenon DEF LeaveBridge, DGo, InSelector
    <3>2. \A u \in Callers : dpc'[u] \in InSelector => dpc[u] \in InSelector /\ slot_of[u] # slot_of[t]
      <4> SUFFICES ASSUME NEW u \in Callers, dpc'[u] \in InSelector
                   PROVE  dpc[u] \in InSelector /\ slot_of[u] # slot_of[t]
        BY Zenon
      <4>1. u # t
        BY <3>1, Zenon
      <4> QED
        BY <1>2, <3>1, <4>1, Zenon DEF DispatchInv, StacksAreOwn
    <3>3. stacks' = [stacks EXCEPT ![slot_of[t]] = FALSE]
      BY <2>2, Zenon DEF LeaveBridge
    <3>4. \A u \in Callers : dpc'[u] \in InSelector => stacks'[slot_of[u]]
      BY <1>1, <3>2, <3>3, Zenon DEF DispatchTypes, DispatchInv, StacksAreOwn
    <3> QED
      BY <1>5, <3>2, <3>4, Zenon DEF DispatchInv, StacksAreOwn
  <2> QED
    BY <2>1, <2>2, Zenon
<1>10. \A u \in Callers : dpc'[u] \in {"scan", "import", "count", "replay"} => dpc[u] = dpc'[u] /\ call'[u] = call[u]
  BY <1>2, <1>3, Zenon
<1>11. ScanIsOwn'
  BY <1>5, <1>10, Zenon DEF DispatchInv, ScanIsOwn
<1>12. Filled' = Filled
  BY <1>5, Zenon DEF Filled
<1>13. StubsAreCounted'
  BY <1>5, <1>10, <1>12, Zenon DEF DispatchInv, StubsAreCounted
<1>14. StubsAreHooks'
  BY <1>5, <1>10, <1>12, ZenonT(30) DEF DispatchInv, StubsAreHooks, IsHook
<1> QED
  BY <1>8, <1>9, <1>11, <1>13, <1>14, Zenon DEF DispatchInv

(* The scan: what the holder of the lock does to the count and the table. *)
LEMMA ScanMoves ==
  ASSUME DispatchInv, NEW t \in Callers, NEW label \in {"import", "count", "repair"}, NEW c \in CallLocals,
         dpc[t] \in {"scan", "import", "count"}, dpc' = [dpc EXCEPT ![t] = label], DSet(t, c),
         UNCHANGED <<stacks, reflex_image, hooked, slot_of>>,
         stubs' \in [Indices -> Nat], stub_count' \in Nat, scan_lock' \in BOOLEAN,
         \A u \in Callers \ {t} : dpc[u] \notin {"import", "count"},
         label # "repair" => scan_lock',
         Cardinality(Filled') <= StubCapacity,
         label = "count" => scan_lock' /\ stub_count' + 1 = Cardinality(Filled'),
         label # "count" => stub_count' = Cardinality(Filled'),
         \A i \in Filled' : IsHook(stubs'[i])
  PROVE  DispatchInv'
<1>1. DispatchTypes /\ dpc \in [Callers -> DispatchLabels] /\ call \in [Callers -> CallLocals] /\ reflex_image
  BY Zenon DEF DispatchInv, DispatchTypes, ScanIsOwn
<1>2. /\ dpc'[t] = label /\ call'[t] = c
      /\ \A u \in Callers \ {t} : dpc'[u] = dpc[u] /\ call'[u] = call[u]
  BY <1>1, Zenon DEF DSet
<1>3. label \in DispatchLabels
  BY Zenon DEF DispatchLabels, InSelector
<1>4. DispatchTypes'
  BY <1>1, <1>3, Zenon DEF DispatchTypes, DSet
<1>5. \A u \in Callers : dpc'[u] \in InSelector => dpc[u] \in InSelector
  BY <1>2, Zenon DEF InSelector
<1>6. StacksAreOwn'
  BY <1>5, Zenon DEF DispatchInv, StacksAreOwn
<1>7. \A u \in Callers : dpc'[u] \in {"import", "count"} => u = t
  BY <1>2, Zenon
<1>8. ScanIsOwn'
  BY <1>1, <1>2, <1>7, Zenon DEF ScanIsOwn
<1>9. Cardinality(Filled') \in Nat
  <2>1. Filled' \subseteq Indices
    BY Zenon DEF Filled, Indices
  <2> QED
    BY <2>1, FilledIsFinite, FS_Subset, FS_CardinalityType, Zenon
<1>10. stub_count' <= Cardinality(Filled')
  BY <1>9, SMT
<1>11. StubsAreCounted'
  <2>1. /\ \A u \in Callers : dpc'[u] = "import" => stub_count' = Cardinality(Filled')
        /\ \A u \in Callers : dpc'[u] = "count" => stub_count' + 1 = Cardinality(Filled')
        /\ ~scan_lock' => stub_count' = Cardinality(Filled')
    BY <1>2, <1>7, Zenon
  <2> QED
    BY <1>10, <2>1, Zenon DEF StubsAreCounted
<1>12. \A u \in Callers : dpc'[u] = "replay" => dpc[u] = "replay" /\ call'[u] = call[u]
  BY <1>2, Zenon
<1>13. StubsAreHooks'
  <2>1. \A u \in Callers : dpc'[u] = "replay" => reflex_image' /\ ~call'[u].inside /\ IsHook(call'[u].stub)
    BY <1>1, <1>12, Zenon DEF DispatchInv, StubsAreHooks
  <2> QED
    BY <2>1, Zenon DEF StubsAreHooks, IsHook
<1> QED
  BY <1>4, <1>6, <1>8, <1>11, <1>13, Zenon DEF DispatchInv

(* remember_stub, its count, and the scan around them. *)
LEMMA ScanKeeps ==
  ASSUME DispatchInv, NEW t \in Callers,
         ScanLock(t) \/ ScanImport(t) \/ ScanCount(t) \/ ScanUnlock(t)
  PROVE  DispatchInv'
<1>1. /\ DispatchTypes /\ dpc \in [Callers -> DispatchLabels] /\ call \in [Callers -> CallLocals]
      /\ stubs \in [Indices -> Nat] /\ stub_count \in Nat /\ scan_lock \in BOOLEAN
      /\ Cardinality(Filled) <= StubCapacity /\ \A i \in Filled : IsHook(stubs[i])
  BY Zenon DEF DispatchInv, DispatchTypes, StubsAreCounted, StubsAreHooks
<1>2. call[t].import \in Nat /\ \A n \in Nat : [call[t] EXCEPT !.import = n] \in CallLocals
  BY <1>1, Zenon DEF CallLocals
<1>3. call[t].import + 1 \in Nat /\ 1 \in Nat /\ 0 \in Nat
  BY <1>2, SMT
<1>4. dpc[t] \in {"import", "count"} \/ ~scan_lock => \A u \in Callers \ {t} : dpc[u] \notin {"import", "count"}
  BY Zenon DEF DispatchInv, ScanIsOwn
<1>5. stubs' = stubs => Filled' = Filled
  BY Zenon DEF Filled
<1>6. hooked' = hooked /\ stubs' = stubs => \A i \in Filled' : IsHook(stubs'[i])
  BY <1>1, <1>5, Zenon
<1>7. CASE ScanLock(t)
  <2>1. CASE scan_lock
    BY <1>7, <2>1, QuietSelectorKeeps, Zenon
  <2>2. CASE ~scan_lock
    <3>1. stub_count = Cardinality(Filled)
      BY <2>2, Zenon DEF DispatchInv, StubsAreCounted
    <3> QED
      BY <1>1, <1>2, <1>3, <1>4, <1>5, <1>6, <1>7, <2>2, <3>1, ScanMoves, Zenon DEF ScanLock, DGo
  <2> QED
    BY <2>1, <2>2, Zenon
<1>8. CASE ScanImport(t)
  <2> DEFINE i == call[t].import
             place == FirstFit(Hooks[i])
  <2>1. dpc[t] = "import" /\ i <= Imports /\ scan_lock /\ stub_count = Cardinality(Filled)
    BY <1>8, Zenon DEF ScanImport, DispatchInv, ScanIsOwn, StubsAreCounted
  <2>2. CASE i \in hooked /\ stub_count < StubCapacity /\ stubs[place] = 0
    <3>1. Hooks[i] \in Nat /\ Hooks[i] # 0
      <4>1. i \in 1..Imports
        BY <1>1, <2>2, Zenon DEF DispatchTypes
      <4> QED
        BY <4>1, DispatchAssumption, Zenon DEF DispatchAssumption
    <3>2. place \in Indices
      BY <1>1, <3>1, FirstFits, Zenon
    <3>3. stubs' = [stubs EXCEPT ![place] = Hooks[i]] /\ DGo(t, "count") /\ UNCHANGED <<call, hooked, stub_count, scan_lock, stacks, reflex_image, slot_of>>
      <4>1. StubCapacity \in Nat
        BY DispatchAssumption, Zenon DEF DispatchAssumption
      <4>2. ~(stub_count >= StubCapacity)
        BY <1>1, <2>2, <4>1, SMT
      <4> QED
        BY <1>8, <2>2, <4>2, Zenon DEF ScanImport
    <3> HIDE DEF place, i
    <3>4. Filled' = Filled \cup {place} /\ place \notin Filled
      <4>1. place \notin Filled
        BY <2>2, Zenon DEF Filled
      <4>2. \A k \in Indices : stubs'[k] = IF k = place THEN Hooks[i] ELSE stubs[k]
        BY <1>1, <3>3, Zenon
      <4>3. \A k : k \in Filled' <=> k \in Indices /\ stubs'[k] # 0
        BY Zenon DEF Filled, Indices
      <4>4. \A k : k \in Filled <=> k \in Indices /\ stubs[k] # 0
        BY Zenon DEF Filled
      <4>5. \A k : k \in Filled' <=> k \in Filled \cup {place}
        BY <3>1, <3>2, <4>2, <4>3, <4>4, Zenon
      <4> QED
        BY <4>1, <4>5, Zenon
    <3>5. Cardinality(Filled') = Cardinality(Filled) + 1
      BY <3>4, FilledIsFinite, FS_AddElement, Zenon
    <3>6. Cardinality(Filled') <= StubCapacity /\ stub_count + 1 = Cardinality(Filled')
      <4>1. StubCapacity \in Nat
        BY DispatchAssumption, Zenon DEF DispatchAssumption
      <4> QED
        BY <1>1, <2>1, <2>2, <3>5, <4>1, SMT
    <3>7. \A k \in Filled' : IsHook(stubs'[k])
      BY <1>1, <2>2, <3>2, <3>3, <3>4, Zenon DEF IsHook, Filled
    <3>8. stubs' \in [Indices -> Nat]
      BY <1>1, <3>1, <3>3, Zenon
    <3>9. DSet(t, call[t]) /\ call[t] \in CallLocals
      BY <1>1, <3>3, Zenon DEF DSet
    <3> QED
      BY <1>1, <1>4, <2>1, <3>3, <3>6, <3>7, <3>8, <3>9, ScanMoves, Zenon DEF DGo
  <2>3. CASE ~(i \in hooked /\ stub_count < StubCapacity /\ stubs[place] = 0)
    <3>1. DSet(t, [call[t] EXCEPT !.import = @ + 1]) /\ UNCHANGED <<stubs, dpc, stacks, reflex_image, hooked, stub_count, scan_lock, slot_of>>
      BY <1>8, <2>3, Zenon DEF ScanImport
    <3>2. dpc' = [dpc EXCEPT ![t] = "import"]
      BY <1>1, <2>1, <3>1, Zenon
    <3> QED
      BY <1>1, <1>2, <1>3, <1>4, <1>5, <1>6, <2>1, <3>1, <3>2, ScanMoves, Zenon
  <2> QED
    BY <2>2, <2>3, Zenon
<1>9. CASE ScanCount(t)
  <2>1. dpc[t] = "count" /\ scan_lock /\ stub_count + 1 = Cardinality(Filled)
    BY <1>9, Zenon DEF ScanCount, DispatchInv, ScanIsOwn, StubsAreCounted
  <2>2. stub_count + 1 \in Nat
    BY <1>1, SMT
  <2> QED
    BY <1>1, <1>2, <1>3, <1>4, <1>5, <1>6, <1>9, <2>1, <2>2, ScanMoves, Zenon DEF ScanCount, DGo
<1>10. CASE ScanUnlock(t)
  <2>1. dpc[t] = "import" /\ stub_count = Cardinality(Filled)
    BY <1>10, Zenon DEF ScanUnlock, DispatchInv, StubsAreCounted
  <2> QED
    BY <1>1, <1>2, <1>3, <1>4, <1>5, <1>6, <1>10, <2>1, ScanMoves, Zenon DEF ScanUnlock, DGo
<1> QED
  BY <1>7, <1>8, <1>9, <1>10, Zenon

(* matches_iat_stub and should_replay_raw: what is replayed is in the table. *)
LEMMA MatchKeeps ==
  ASSUME DispatchInv, NEW t \in Callers, Match(t)
  PROVE  DispatchInv'
<1>1. /\ DispatchTypes /\ dpc \in [Callers -> DispatchLabels] /\ call \in [Callers -> CallLocals]
      /\ Cardinality(Filled) <= StubCapacity /\ dpc[t] = "match"
  BY Zenon DEF DispatchInv, DispatchTypes, StubsAreCounted, Match
<1>2. PICK stub \in {Hooks[i] : i \in 1..Imports} \cup {0}, inside \in BOOLEAN, raw \in BOOLEAN :
        /\ DSet(t, [call[t] EXCEPT !.stub = stub, !.inside = inside])
        /\ DGo(t, IF stub_count # 0 /\ matches_iat_stub(stub) /\ ~(reflex_image /\ inside) /\ raw
                  THEN "replay" ELSE "original")
  BY Zenon DEF Match
<1> DEFINE c == [call[t] EXCEPT !.stub = stub, !.inside = inside]
<1>3. stub \in Nat
  BY <1>2, DispatchAssumption, SMT DEF DispatchAssumption
<1>4. c \in CallLocals /\ c.stub = stub /\ c.inside = inside
  BY <1>1, <1>3, Zenon DEF CallLocals
<1>5. SharedStays
  BY Zenon DEF Match, SharedStays, tables
<1>6. CASE stub_count # 0 /\ matches_iat_stub(stub) /\ ~(reflex_image /\ inside) /\ raw
  <2> HIDE DEF c
  <2>1. dpc' = [dpc EXCEPT ![t] = "replay"] /\ call' = [call EXCEPT ![t] = c]
    BY <1>2, <1>6, Zenon DEF DGo, DSet, c
  <2>2. reflex_image /\ ~inside /\ stub # 0 /\ stubs[FirstFit(stub)] = stub
    BY <1>6, Zenon DEF DispatchInv, ScanIsOwn, matches_iat_stub
  <2>3. IsHook(stub)
    BY <1>1, <1>3, <2>2, FirstFits, Zenon DEF DispatchInv, StubsAreHooks, Filled
  <2>4. /\ dpc'[t] = "replay" /\ call'[t] = c
        /\ \A u \in Callers \ {t} : dpc'[u] = dpc[u] /\ call'[u] = call[u]
    BY <1>1, <2>1, Zenon
  <2>5. DispatchTypes'
    BY <1>1, <1>4, <1>5, <2>1, Zenon DEF DispatchTypes, SharedStays, DispatchLabels, InSelector
  <2>6. \A u \in Callers : dpc'[u] \in InSelector => dpc[u] \in InSelector
    BY <1>1, <2>4, Zenon DEF InSelector
  <2>7. StacksAreOwn'
    BY <1>5, <2>6, Zenon DEF DispatchInv, StacksAreOwn, SharedStays
  <2>8. \A u \in Callers : dpc'[u] \in {"scan", "import", "count"} => dpc[u] = dpc'[u]
    BY <2>4, Zenon
  <2>9. ScanIsOwn'
    BY <1>5, <2>8, Zenon DEF DispatchInv, ScanIsOwn, SharedStays
  <2>10. Filled' = Filled
    BY <1>5, Zenon DEF Filled, SharedStays
  <2>11. StubsAreCounted'
    BY <1>5, <2>8, <2>10, Zenon DEF DispatchInv, StubsAreCounted, SharedStays
  <2>12. \A u \in Callers : dpc'[u] = "replay" => reflex_image /\ ~call'[u].inside /\ IsHook(call'[u].stub)
    BY <1>4, <2>2, <2>3, <2>4, Zenon DEF DispatchInv, StubsAreHooks
  <2>13. StubsAreHooks'
    BY <1>5, <2>10, <2>12, Zenon DEF DispatchInv, StubsAreHooks, IsHook, SharedStays
  <2> QED
    BY <2>5, <2>7, <2>9, <2>11, <2>13, Zenon DEF DispatchInv
<1>7. CASE ~(stub_count # 0 /\ matches_iat_stub(stub) /\ ~(reflex_image /\ inside) /\ raw)
  <2>1. DGo(t, "original") /\ DSet(t, c)
    BY <1>2, <1>7, Zenon
  <2>2. "original" \in DispatchLabels \ {"import", "count", "replay"} /\ dpc[t] \in InSelector
    BY <1>1, Zenon DEF DispatchLabels, InSelector
  <2> HIDE DEF c
  <2> QED
    BY <1>1, <1>4, <1>5, <2>1, <2>2, DispatchMoves, Zenon
<1> QED
  BY <1>6, <1>7, Zenon

(* A fork leaves one thread, outside the bridge; Reflex and Wine set things up. *)
LEMMA SetupKeeps ==
  ASSUME DispatchInv,
         \/ \E t \in Callers : DispatchFork(t)
         \/ \E i \in 1..Imports : ReflexHooksImport(i)
         \/ \E e \in Exports : ReflexHooksExport(e)
         \/ RegisterReflexImage \/ LoadWin32u \/ UNCHANGED dispatchVars
  PROVE  DispatchInv'
<1>1. UNCHANGED <<stacks, stubs, stub_count, scan_lock, slot_of>>
  BY Zenon DEF DispatchFork, ReflexHooksImport, ReflexHooksExport, RegisterReflexImage, LoadWin32u, dispatchVars, tables
<1>2. hooked \subseteq hooked' /\ hooked' \subseteq 1..Imports /\ reflex_image' \in BOOLEAN /\ (reflex_image => reflex_image')
  BY Zenon DEF DispatchFork, ReflexHooksImport, ReflexHooksExport, RegisterReflexImage, LoadWin32u, dispatchVars, tables,
               DispatchInv, DispatchTypes
<1>3. NoDispatch \in CallLocals /\ {"idle", "gone"} \subseteq DispatchLabels /\ "idle" \notin InSelector /\ "gone" \notin InSelector
  BY SMT DEF NoDispatch, CallLocals, DispatchLabels, InSelector
<1>4. dpc' \in [Callers -> DispatchLabels] /\ call' \in [Callers -> CallLocals]
  BY <1>3, Zenon DEF DispatchFork, ReflexHooksImport, ReflexHooksExport, RegisterReflexImage, LoadWin32u, dispatchVars,
               DispatchInv, DispatchTypes
<1>5. \A u \in Callers : dpc'[u] \in {"idle", "gone"} \/ (dpc'[u] = dpc[u] /\ call'[u] = call[u])
  BY Zenon DEF DispatchFork, ReflexHooksImport, ReflexHooksExport, RegisterReflexImage, LoadWin32u, dispatchVars
<1>6. DispatchTypes'
  BY <1>1, <1>2, <1>4, Zenon DEF DispatchInv, DispatchTypes
<1>7. StacksAreOwn'
  BY <1>1, <1>3, <1>5, Zenon DEF DispatchInv, StacksAreOwn
<1>8. \A u \in Callers : dpc'[u] \in {"scan", "import", "count", "replay"} => dpc'[u] = dpc[u] /\ call'[u] = call[u]
  BY <1>5, Zenon
<1>9. ScanIsOwn'
  BY <1>1, <1>2, <1>8, Zenon DEF DispatchInv, ScanIsOwn
<1>10. Filled' = Filled
  BY <1>1, Zenon DEF Filled
<1>11. StubsAreCounted'
  BY <1>1, <1>8, <1>10, Zenon DEF DispatchInv, StubsAreCounted
<1>13. StubsAreHooks'
  <2>1. \A u \in Callers : dpc'[u] = "replay" => reflex_image /\ ~call'[u].inside /\ IsHook(call'[u].stub)
    BY <1>8, Zenon DEF DispatchInv, StubsAreHooks
  <2>2. \A u \in Callers : dpc'[u] = "replay" => reflex_image' /\ ~call'[u].inside /\ \E j \in hooked' : Hooks[j] = call'[u].stub
    BY <1>2, <2>1, Zenon DEF IsHook
  <2>3. \A i \in Filled : \E j \in hooked' : Hooks[j] = stubs[i]
    BY <1>2, Zenon DEF DispatchInv, StubsAreHooks, IsHook
  <2> QED
    BY <1>1, <1>10, <2>2, <2>3, Zenon DEF StubsAreHooks, IsHook
<1> QED
  BY <1>6, <1>7, <1>9, <1>11, <1>13, Zenon DEF DispatchInv

-----------------------------------------------------------------------------
(* Nothing is taken, scanned or counted at the start. *)
LEMMA DispatchStarts == DispatchInit => DispatchInv
<1> SUFFICES ASSUME DispatchInit PROVE DispatchInv
  BY Zenon
<1>1. NoDispatch \in CallLocals /\ "idle" \in DispatchLabels /\ "idle" \notin InSelector
  BY SMT DEF NoDispatch, CallLocals, DispatchLabels, InSelector
<1>2. DispatchTypes
  <2>1. 0 \in Nat /\ {} \subseteq 1..Imports
    BY SMT
  <2>2. stubs \in [Indices -> Nat]
    BY <2>1, Zenon DEF DispatchInit, Indices
  <2>3. dpc \in [Callers -> DispatchLabels] /\ call \in [Callers -> CallLocals]
    BY <1>1, Zenon DEF DispatchInit
  <2> QED
    BY <2>1, <2>2, <2>3, Zenon DEF DispatchInit, DispatchTypes
<1>3. StacksAreOwn /\ ScanIsOwn
  BY <1>1, Zenon DEF DispatchInit, StacksAreOwn, ScanIsOwn
<1>4. Filled = {}
  BY Zenon DEF DispatchInit, Filled, Indices
<1>5. Cardinality(Filled) = 0
  BY <1>4, FS_EmptySet, Zenon
<1>6. StubCapacity \in Nat
  BY DispatchAssumption, Zenon DEF DispatchAssumption
<1>7. StubsAreCounted
  <2>1. stub_count = 0 /\ \A t \in Callers : dpc[t] = "idle"
    BY Zenon DEF DispatchInit
  <2>2. 0 <= StubCapacity /\ 0 <= 0
    BY <1>6, SMT
  <2> QED
    BY <1>5, <2>1, <2>2, Zenon DEF StubsAreCounted
<1>8. StubsAreHooks
  BY <1>4, Zenon DEF DispatchInit, StubsAreHooks
<1> QED
  BY <1>2, <1>3, <1>7, <1>8, Zenon DEF DispatchInv

(* Every step keeps the invariant. *)
LEMMA DispatchKeeps == DispatchInv /\ [DispatchNext]_dispatchVars => DispatchInv'
<1> SUFFICES ASSUME DispatchInv, [DispatchNext]_dispatchVars PROVE DispatchInv'
  BY Zenon
<1>1. ASSUME NEW t \in Callers, BridgeCall(t) \/ WindowCall(t) \/ SelectorStep(t) PROVE DispatchInv'
  <2>1. TakeStack(t) \/ LeaveBridge(t) => DispatchInv'
    BY BridgeKeeps, Zenon
  <2>2. ScanLock(t) \/ ScanImport(t) \/ ScanCount(t) \/ ScanUnlock(t) => DispatchInv'
    BY ScanKeeps, Zenon
  <2>3. Match(t) => DispatchInv'
    BY MatchKeeps, Zenon
  <2>4. (BridgeCall(t) \/ WindowCall(t) \/ Resolve(t) \/ ScanGate(t)
         \/ RepairGate(t) \/ RepairDispatcher(t) \/ RepairHandle(t) \/ RepairDone(t)) => DispatchInv'
    <3> SUFFICES ASSUME \/ BridgeCall(t) \/ WindowCall(t) \/ Resolve(t) \/ ScanGate(t)
                        \/ RepairGate(t) \/ RepairDispatcher(t) \/ RepairHandle(t) \/ RepairDone(t)
                 PROVE  DispatchInv'
      BY Zenon
    <3> QED
      BY QuietSelectorKeeps, Zenon
  <2> QED
    BY <1>1, <2>1, <2>2, <2>3, <2>4, Zenon DEF SelectorStep
<1> QED
  BY <1>1, SetupKeeps, Zenon DEF DispatchNext

(* dispatcher_bridge and its selector, for any number of threads, bridge slots, *)
(* imports and stub slots, with scans racing matches and with forks: no two    *)
(* threads share a bridge stack, only a stub Reflex hooked is replayed, and    *)
(* the count never runs ahead of the table.                                    *)
THEOREM SelectorStaysSound == DispatchSpec => []SelectorIsSound
<1>1. DispatchInv => SelectorIsSound
  <2> SUFFICES ASSUME DispatchInv PROVE SelectorIsSound
    BY Zenon
  <2>1. DOMAIN stubs = Indices
    BY Zenon DEF DispatchInv, DispatchTypes
  <2>2. stub_count <= Cardinality({i \in DOMAIN stubs : stubs[i] # 0})
    BY <2>1, Zenon DEF DispatchInv, StubsAreCounted, Filled
  <2> QED
    BY <2>2, Zenon DEF DispatchInv, SelectorIsSound, StacksAreOwn, StubsAreHooks, IsHook
<1> QED
  BY <1>1, DispatchStarts, DispatchKeeps, PTL DEF DispatchSpec
=============================================================================
