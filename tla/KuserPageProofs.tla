--------------------------- MODULE KuserPageProofs ---------------------------
(***************************************************************************)
(* patch() and the runtime around it, for every set of threads and every     *)
(* bound: patch() alone has one applier and a Ready state that tells what    *)
(* the page holds; the page guard excludes and makes its waits unnecessary,  *)
(* the bridge keeps Wine's dispatcher, and the guarded runtime implements    *)
(* PatchState.                                                               *)
(***************************************************************************)
EXTENDS MCKuserPage, TLAPS

PatchLabels == {"load", "exchange", "applying", "writing", "complete", "returned"}
GuardLabels == {"acquire", "recover", "enter", "drop", "force", "force_restore", "install",
                "swap", "swap_slot", "seal", "other"}
Labels == {"idle", "gone"} \cup PatchLabels \cup GuardLabels

(* The types, with the labels of the runtime around patch(). *)
SharedOK ==
  /\ state \in States
  /\ page \in Recipes \cup {"None", "Partial"}
  /\ patches \in 0..MaxPatches
  /\ dispatched \in BOOLEAN
  /\ unsealed \in BOOLEAN

LocalsOK ==
  /\ pc \in [Threads -> Labels]
  /\ recipe \in [Threads -> Recipes]
  /\ seen \in [Threads -> States]
  /\ completion \in [Threads -> States]
  /\ waits \in [Threads -> 0..PatchWaitLimit]
  /\ applied \in [Threads -> BOOLEAN]
  /\ result \in [Threads -> {"none", "Ok", "Conflict", "ApplyFailed"}]

(* What a failed apply() falls back to is a state at rest. *)
RestsAt(s) == s.phase \in {"Ready", "Failed"}

(* A thread in the loop falls back to its own failure, or to the foreign state *)
(* it saw: that state is still what is behind, or has become Ready since.      *)
Behind(t, s) ==
  \/ completion[t] = Failed(recipe[t])
  \/ completion[t].recipe # recipe[t] /\ (completion[t] = s \/ s.phase = "Ready")

LoopOK ==
  /\ \A t \in Threads : RestsAt(completion[t])
  /\ \A t \in Threads : pc[t] \in {"load", "exchange"} =>
       /\ (\A w \in Threads : ~Working(w)) => Behind(t, state)
       /\ \A w \in Threads : Working(w) => Behind(t, completion[w])
  /\ \A t \in Threads : pc[t] = "exchange" =>
       /\ seen[t].phase # "Applying" /\ seen[t] # Ready(recipe[t])
       /\ seen[t] # Unapplied /\ seen[t].recipe # recipe[t] =>
            completion[t] = seen[t] /\ recipe[t] # "Resume"

(* The page under the one thread that works on it. *)
PageOK ==
  /\ \A t \in Threads : pc[t] = "complete" /\ applied[t] => page = recipe[t]
  /\ \A t \in Threads :
       /\ pc[t] = "applying" \/ (pc[t] = "complete" /\ ~applied[t])
       /\ completion[t].phase = "Ready"
       => page = completion[t].recipe \/ unsealed

(* Success is remembered in the state, also while it is being replaced. *)
DispatchOK ==
  /\ dispatched => state # Unapplied /\ state.recipe # "Resume" /\ page # "Resume"
  /\ state.phase = "Ready" /\ state.recipe # "Resume" => dispatched
  /\ \A t \in Threads : Working(t) =>
       /\ dispatched => completion[t].recipe # "Resume"
       /\ completion[t].phase = "Ready" /\ completion[t].recipe # "Resume" => dispatched

PatchInv ==
  /\ SharedOK /\ LocalsOK /\ OneApplier /\ LoopOK
  /\ ReadyMeansPage /\ PageOK /\ DispatchOK

-----------------------------------------------------------------------------
(* The states of patch(): which is which, and that there are no others.       *)
LEMMA StateKinds ==
  ASSUME NEW r \in Recipes
  PROVE  /\ Failed(r) \in States /\ Failed(r).phase = "Failed" /\ Failed(r).recipe = r
         /\ Ready(r) \in States /\ Ready(r).phase = "Ready" /\ Ready(r).recipe = r
         /\ Applying(r) \in States /\ Applying(r).phase = "Applying" /\ Applying(r).recipe = r
  BY Zenon DEF Failed, Ready, Applying, States

(* The state before any patch. *)
LEMMA UnappliedKind == Unapplied \in States /\ Unapplied.phase = "Unapplied"
  BY Zenon DEF Unapplied, States

(* A state is known by its phase and its recipe. *)
LEMMA StateShapes ==
  ASSUME NEW s \in States
  PROVE  /\ s.phase \in {"Unapplied", "Applying", "Ready", "Failed"}
         /\ s.phase = "Unapplied" => s = Unapplied
         /\ s.phase = "Ready" => s = Ready(s.recipe) /\ s.recipe \in Recipes
         /\ s.phase = "Failed" => s = Failed(s.recipe) /\ s.recipe \in Recipes
         /\ s.phase = "Applying" => s = Applying(s.recipe) /\ s.recipe \in Recipes
  BY DEF Failed, Ready, Applying, Unapplied, States

-----------------------------------------------------------------------------
(* The part of the invariant that is not about types. *)
PatchCore == OneApplier /\ LoopOK /\ ReadyMeansPage /\ PageOK /\ DispatchOK

(* A thread whose locals in patch() a step leaves alone. *)
Untouched(u) ==
  /\ pc'[u] = pc[u] /\ recipe'[u] = recipe[u] /\ seen'[u] = seen[u]
  /\ completion'[u] = completion[u] /\ applied'[u] = applied[u]

(* A thread that was not working and is outside the loop after the step. *)
LEMMA QuietCore ==
  ASSUME PatchInv, NEW t \in Threads,
         \A u \in Threads \ {t} : Untouched(u),
         state' = state, page' = page, dispatched' = dispatched, unsealed' = unsealed,
         ~Working(t), pc'[t] \notin {"load", "exchange", "applying", "writing", "complete"},
         RestsAt(completion'[t])
  PROVE  PatchCore'
<1> USE DEF PatchInv
<1>1. \A u \in Threads : Working(u)' => Working(u) /\ u # t
  BY Zenon DEF Working, Untouched
<1>2. OneApplier'
  BY <1>1 DEF OneApplier, Untouched, Working
<1>3. LoopOK'
  BY <1>1 DEF LoopOK, Untouched, Working, Behind, RestsAt
<1>4. ReadyMeansPage'
  BY Zenon DEF ReadyMeansPage
<1>5. PageOK'
  BY ZenonT(30) DEF PageOK, Untouched
<1>6. DispatchOK'
  BY <1>1, Zenon DEF DispatchOK, Untouched
<1> QED
  BY <1>2, <1>3, <1>4, <1>5, <1>6, Zenon DEF PatchCore

(* patch() is entered with the failure of its own recipe to fall back to. *)
LEMMA StartKeeps ==
  ASSUME PatchInv, NEW t \in Threads, ~Working(t), NEW r \in Recipes, StartPatch(t, r, "load")
  PROVE  PatchInv'
<1> USE DEF PatchInv
<1>1. SharedOK'
  BY PatchAssumption DEF PatchAssumption, SharedOK, StartPatch, histories
<1>9. LocalsOK'
  BY StateKinds, Zenon DEF LocalsOK, StartPatch, Labels, PatchLabels
<1>2. /\ \A u \in Threads \ {t} : Untouched(u)
      /\ pc'[t] = "load" /\ recipe'[t] = r /\ completion'[t] = Failed(r)
      /\ state' = state /\ page' = page /\ dispatched' = dispatched /\ unsealed' = unsealed
  BY Zenon DEF StartPatch, histories, Untouched, LocalsOK
<1>3. \A u \in Threads : Working(u)' <=> Working(u) /\ u # t
  BY <1>2, Zenon DEF Working, Untouched
<1>4. OneApplier'
  BY <1>2, <1>3, Zenon DEF OneApplier, Untouched
<1>5. LoopOK'
  <2>1. \A s : Behind(t, s)'
    BY <1>2, Zenon DEF Behind
  <2>2. \A u \in Threads \ {t} : \A s : Behind(u, s)' <=> Behind(u, s)
    BY <1>2, Zenon DEF Behind, Untouched
  <2> QED
    BY <1>2, <1>3, <2>1, <2>2, StateKinds DEF LoopOK, Untouched, RestsAt
<1>6. ReadyMeansPage'
  BY <1>2, Zenon DEF ReadyMeansPage
<1>7. PageOK'
  BY <1>2, ZenonT(30) DEF PageOK, Untouched
<1>8. DispatchOK'
  BY <1>2, <1>3 DEF DispatchOK, Untouched
<1> QED
  BY <1>1, <1>4, <1>5, <1>6, <1>7, <1>8, <1>9, Zenon

(* A call that is over leaves locals at rest. *)
LEMMA ForgetTypes ==
  ASSUME LocalsOK, NEW ts \in SUBSET Threads, Forget(ts),
         pc' \in [Threads -> Labels],
         result' \in [Threads -> {"none", "Ok", "Conflict", "ApplyFailed"}]
  PROVE  /\ LocalsOK'
         /\ \A u \in Threads \ ts : /\ recipe'[u] = recipe[u] /\ seen'[u] = seen[u]
                                    /\ completion'[u] = completion[u] /\ applied'[u] = applied[u]
         /\ \A u \in ts : RestsAt(completion'[u])
<1>0. PatchWaitLimit \in Nat
  BY PatchAssumption, Zenon DEF PatchAssumption
<1>1. "Resume" \in Recipes
  BY Zenon DEF Recipes
<1>2. recipe' \in [Threads -> Recipes] /\ seen' \in [Threads -> States]
  BY <1>1, UnappliedKind, Zenon DEF Forget, LocalsOK
<1>3. completion' \in [Threads -> States] /\ \A u \in ts : RestsAt(completion'[u])
  BY <1>1, StateKinds DEF Forget, LocalsOK, RestsAt
<1>4. waits' \in [Threads -> 0..PatchWaitLimit]
  BY <1>0 DEF Forget, LocalsOK
<1>5. applied' \in [Threads -> BOOLEAN]
  BY Zenon DEF Forget, LocalsOK
<1>6. \A u \in Threads \ ts : /\ recipe'[u] = recipe[u] /\ seen'[u] = seen[u]
                             /\ completion'[u] = completion[u] /\ applied'[u] = applied[u]
  BY Zenon DEF Forget, LocalsOK
<1> QED
  BY <1>2, <1>3, <1>4, <1>5, <1>6, Zenon DEF LocalsOK

(* patch() returns an answer. *)
LEMMA LeaveLocals ==
  ASSUME LocalsOK, NEW t \in Threads, NEW a \in {"Ok", "Conflict", "ApplyFailed"}, Leave(t, a)
  PROVE  /\ LocalsOK'
         /\ \A u \in Threads \ {t} : Untouched(u)
         /\ pc'[t] = "returned" /\ RestsAt(completion'[t])
<1>1. /\ pc' \in [Threads -> Labels]
      /\ result' \in [Threads -> {"none", "Ok", "Conflict", "ApplyFailed"}]
      /\ pc'[t] = "returned" /\ \A u \in Threads \ {t} : pc'[u] = pc[u]
  BY Zenon DEF Leave, LocalsOK, Labels, PatchLabels
<1> QED
  BY <1>1, ForgetTypes DEF Leave, Untouched

(* The load at the top of the loop: return, wait, or go on to the exchange. *)
LEMMA LoadKeeps ==
  ASSUME PatchInv, NEW t \in Threads, Load(t)
  PROVE  PatchInv'
<1> USE DEF PatchInv
<1>0. ~Working(t) /\ recipe[t] \in Recipes /\ state \in States
  BY Zenon DEF Load, Working, LocalsOK, SharedOK
<1>1. CASE LoadTransition(t)
  <2>1. SharedOK' /\ LocalsOK'
    BY <1>1, Zenon DEF Load, LoadTransition, SharedOK, LocalsOK, Labels, PatchLabels
  <2>2. /\ \A u \in Threads \ {t} : Untouched(u)
        /\ pc'[t] = "exchange" /\ recipe'[t] = recipe[t] /\ seen'[t] = state
        /\ completion'[t] = IF Foreign(recipe[t]) THEN state ELSE completion[t]
        /\ state' = state /\ page' = page /\ dispatched' = dispatched /\ unsealed' = unsealed
    BY <1>1, Zenon DEF Load, LoadTransition, Untouched, LocalsOK
  <2>3. /\ state.phase # "Applying" /\ state # Ready(recipe[t])
        /\ Foreign(recipe[t]) => RestsAt(state) /\ recipe[t] # "Resume"
    BY <1>0, <1>1, StateKinds, StateShapes DEF LoadTransition, MustWait, Foreign, MayTransition, RestsAt, Unapplied
  <2>4. \A u \in Threads : ~Working(u)
    BY <2>3, StateKinds DEF OneApplier, LocalsOK
  <2>5. \A u \in Threads : ~Working(u)'
    BY <2>2, <2>4, Zenon DEF Working, Untouched
  <2>6. LoopOK'
    <3>1. Behind(t, state)'
      BY <2>2, <2>4, Zenon DEF Behind, Foreign, LoopOK, Load
    <3>2. \A u \in Threads \ {t} : Behind(u, state)' <=> Behind(u, state)
      BY <2>2, Zenon DEF Behind, Untouched
    <3> QED
      BY <2>2, <2>3, <2>4, <2>5, <3>1, <3>2 DEF LoopOK, Untouched, RestsAt, Foreign
  <2>7. OneApplier' /\ ReadyMeansPage' /\ PageOK' /\ DispatchOK'
    BY <2>2, <2>4, <2>5, Zenon DEF OneApplier, ReadyMeansPage, PageOK, DispatchOK, Untouched, Working
  <2> QED
    BY <2>1, <2>6, <2>7, Zenon
<1>2. CASE LoadWait(t) /\ UNCHANGED pc
  <2>1. SharedOK' /\ LocalsOK'
    BY <1>2, PatchAssumption DEF PatchAssumption, Load, LoadWait, SharedOK, LocalsOK, Leave
  <2>2. /\ \A u \in Threads : Untouched(u)
        /\ state' = state /\ page' = page /\ dispatched' = dispatched /\ unsealed' = unsealed
    BY <1>2, Zenon DEF Load, LoadWait, Untouched, Leave, LocalsOK
  <2> QED
    BY <2>1, <2>2 DEF OneApplier, LoopOK, Behind, ReadyMeansPage, PageOK, DispatchOK, Untouched, Working
<1>3. ASSUME NEW a \in {"Ok", "Conflict"}, Leave(t, a), a = "Ok" => state = Ready(recipe[t])
      PROVE  PatchInv'
  <2>1. dispatched' = dispatched
    BY <1>0, <1>3, StateKinds DEF Leave, DispatchOK, SharedOK
  <2>2. state' = state /\ page' = page /\ patches' = patches /\ unsealed' = unsealed
    BY Zenon DEF Load
  <2>3. LocalsOK' /\ PatchCore'
    BY <1>0, <1>3, <2>1, <2>2, LeaveLocals, QuietCore, Zenon
  <2> QED
    BY <2>1, <2>2, <2>3, Zenon DEF PatchCore, SharedOK
<1> QED
  BY <1>1, <1>2, <1>3, Zenon DEF Load, LoadReady, LoadWait, LoadConflict

(* The exchange wins only over the state that was loaded, which is then what   *)
(* a failure falls back to, or a failure of the same recipe.                   *)
LEMMA ExchangeKeeps ==
  ASSUME PatchInv, NEW t \in Threads, Exchange(t)
  PROVE  PatchInv'
<1> USE DEF PatchInv
<1>0. /\ recipe[t] \in Recipes /\ state \in States /\ completion[t] \in States
      /\ pc[t] = "exchange" /\ ~Working(t)
  BY Zenon DEF Exchange, Working, LocalsOK, SharedOK
<1>1. SharedOK' /\ LocalsOK'
  BY <1>0, StateKinds DEF Exchange, SharedOK, LocalsOK, histories, Labels, PatchLabels
<1>2. /\ \A u \in Threads \ {t} : Untouched(u)
      /\ recipe'[t] = recipe[t] /\ completion'[t] = completion[t] /\ applied'[t] = applied[t]
      /\ page' = page /\ dispatched' = dispatched /\ unsealed' = unsealed
  BY Zenon DEF Exchange, Untouched, LocalsOK, histories
<1>3. \A u \in Threads : \A s : Behind(u, s)' <=> Behind(u, s)
  BY <1>2, Zenon DEF Behind, Untouched
<1>4. CASE state # seen[t]
  <2>1. pc'[t] = "load" /\ state' = state
    BY <1>4, Zenon DEF Exchange, LocalsOK
  <2>2. \A u \in Threads : Working(u)' <=> Working(u)
    BY <1>0, <1>2, <2>1, Zenon DEF Working, Untouched
  <2>3. OneApplier' /\ DispatchOK'
    BY <1>2, <2>1, <2>2, SMTT(30) DEF OneApplier, DispatchOK, Untouched
  <2>4. LoopOK'
    BY <1>0, <1>2, <1>3, <2>1, <2>2 DEF LoopOK, Untouched
  <2>5. ReadyMeansPage' /\ PageOK'
    BY <1>2, <2>1, ZenonT(30) DEF ReadyMeansPage, PageOK, Untouched
  <2> QED
    BY <1>1, <2>3, <2>4, <2>5, Zenon
<1>5. CASE state = seen[t]
  <2>1. pc'[t] = "applying" /\ state' = Applying(recipe[t])
    BY <1>5, Zenon DEF Exchange, LocalsOK
  <2>2. state.phase # "Applying" /\ state # Ready(recipe[t])
    BY <1>0, <1>5, Zenon DEF LoopOK
  <2>3. \A u \in Threads : ~Working(u)
    BY <2>2, StateKinds DEF OneApplier, LocalsOK
  <2>4. \A u \in Threads : Working(u)' <=> u = t
    BY <1>2, <2>1, <2>3, Zenon DEF Working, Untouched
  <2>5. state = Unapplied \/ completion[t] = state
    <3>1. CASE state # Unapplied /\ state.recipe # recipe[t]
      BY <1>0, <1>5, <3>1, Zenon DEF LoopOK
    <3>2. CASE state.recipe = recipe[t] /\ state # Unapplied
      <4>1. state = Failed(recipe[t])
        BY <1>0, <2>2, <3>2, StateShapes, Zenon
      <4> QED
        BY <1>0, <2>3, <4>1, StateKinds, Zenon DEF LoopOK, Behind
    <3> QED
      BY <3>1, <3>2, Zenon
  <2>6. state = Unapplied => completion[t] = Failed(recipe[t])
    BY <1>0, <2>3, UnappliedKind, ZenonT(30) DEF LoopOK, Behind, RestsAt
  <2>7. OneApplier'
    BY <1>2, <2>1, <2>4, Zenon DEF OneApplier
  <2>8. LoopOK'
    <3>1. ASSUME NEW u \in Threads, pc'[u] \in {"load", "exchange"} PROVE Behind(u, completion[t])'
      <4>1. u # t /\ Behind(u, state)
        BY <1>2, <2>1, <2>3, <3>1, Zenon DEF LoopOK, Untouched
      <4>2. CASE completion[t] = state
        BY <1>2, <1>3, <4>1, <4>2, Zenon DEF Behind, Untouched
      <4>3. CASE state = Unapplied
        BY <1>2, <4>1, <4>3, UnappliedKind, Zenon DEF Behind, LoopOK, RestsAt, Untouched
      <4> QED
        BY <2>5, <4>2, <4>3, Zenon
    <3> QED
      BY <1>2, <2>1, <2>4, <3>1 DEF LoopOK, Untouched, RestsAt
  <2>9. ReadyMeansPage'
    BY <1>0, <2>1, StateKinds, Zenon DEF ReadyMeansPage
  <2>10. PageOK'
    <3>1. completion[t].phase = "Ready" => page = completion[t].recipe \/ unsealed
      BY <1>0, <2>5, <2>6, StateKinds, Zenon DEF ReadyMeansPage
    <3> QED
      BY <1>2, <2>1, <2>3, <3>1 DEF PageOK, Untouched, Working
  <2>11. DispatchOK'
    <3>1. dispatched => recipe[t] # "Resume" /\ completion[t].recipe # "Resume"
      BY <1>0, <1>5, <2>5, <2>6, StateKinds, Zenon DEF DispatchOK, LoopOK
    <3>2. completion[t].phase = "Ready" /\ completion[t].recipe # "Resume" => dispatched
      BY <1>0, <2>5, <2>6, StateKinds, Zenon DEF DispatchOK
    <3>3. state' # Unapplied /\ state'.recipe = recipe[t] /\ state'.phase = "Applying"
      BY <1>0, <2>1, StateKinds, UnappliedKind, Zenon
    <3> QED
      BY <1>2, <2>4, <3>1, <3>2, <3>3, Zenon DEF DispatchOK
  <2> QED
    BY <1>1, <2>7, <2>8, <2>9, <2>10, <2>11, Zenon
<1> QED
  BY <1>4, <1>5, Zenon

(* apply() fails at once, or begins to write. *)
LEMMA ApplyBeginKeeps ==
  ASSUME PatchInv, NEW t \in Threads, ApplyBegin(t)
  PROVE  PatchInv'
<1> USE DEF PatchInv
<1>0. /\ recipe[t] \in Recipes /\ pc[t] = "applying" /\ Working(t)
      /\ state = Applying(recipe[t])
      /\ \A u \in Threads \ {t} : ~Working(u)
  BY Zenon DEF ApplyBegin, Working, LocalsOK, OneApplier
<1>1. SharedOK' /\ LocalsOK'
  BY ZenonT(30) DEF ApplyBegin, SharedOK, LocalsOK, histories, Labels, PatchLabels
<1>2. /\ \A u \in Threads \ {t} : Untouched(u)
      /\ recipe'[t] = recipe[t] /\ completion'[t] = completion[t]
      /\ state' = state /\ dispatched' = dispatched /\ unsealed' = unsealed
      /\ \/ pc'[t] = "complete" /\ ~applied'[t] /\ page' = page
         \/ pc'[t] = "writing" /\ page' = "Partial"
  BY Zenon DEF ApplyBegin, Untouched, LocalsOK, histories
<1>3. \A u \in Threads : Working(u)' <=> u = t
  BY <1>0, <1>2, Zenon DEF Working, Untouched
<1>4. \A u \in Threads : \A s : Behind(u, s)' <=> Behind(u, s)
  BY <1>2, ZenonT(30) DEF Behind, Untouched
<1>5. OneApplier'
  BY <1>0, <1>2, <1>3, Zenon DEF OneApplier
<1>6. LoopOK'
  BY <1>0, <1>2, <1>3, <1>4, SMTT(30) DEF LoopOK, Untouched, RestsAt
<1>7. ReadyMeansPage'
  BY <1>0, <1>2, StateKinds, Zenon DEF ReadyMeansPage
<1>8. PageOK'
  BY <1>0, <1>2, <1>3 DEF PageOK, Untouched, Working
<1>9. DispatchOK'
  BY <1>0, <1>2, <1>3, Zenon DEF DispatchOK, Recipes
<1> QED
  BY <1>1, <1>5, <1>6, <1>7, <1>8, <1>9, Zenon

(* The recipe is in the page, whether or not apply() succeeds. *)
LEMMA ApplyEndKeeps ==
  ASSUME PatchInv, NEW t \in Threads, ApplyEnd(t)
  PROVE  PatchInv'
<1> USE DEF PatchInv
<1>0. /\ recipe[t] \in Recipes /\ pc[t] = "writing" /\ Working(t)
      /\ state = Applying(recipe[t])
      /\ \A u \in Threads \ {t} : ~Working(u)
  BY Zenon DEF ApplyEnd, Working, LocalsOK, OneApplier
<1>1. SharedOK' /\ LocalsOK'
  BY <1>0, Zenon DEF ApplyEnd, SharedOK, LocalsOK, Labels, PatchLabels
<1>2. /\ \A u \in Threads \ {t} : Untouched(u)
      /\ recipe'[t] = recipe[t] /\ completion'[t] = completion[t]
      /\ state' = state /\ dispatched' = dispatched
      /\ pc'[t] = "complete" /\ page' = recipe[t]
      /\ applied'[t] \/ unsealed'
  BY ZenonT(30) DEF ApplyEnd, Untouched, LocalsOK
<1>3. \A u \in Threads : Working(u)' <=> u = t
  BY <1>0, <1>2, Zenon DEF Working, Untouched
<1>4. \A u \in Threads : \A s : Behind(u, s)' <=> Behind(u, s)
  BY <1>2, Zenon DEF Behind, Untouched
<1>5. OneApplier'
  BY <1>0, <1>2, <1>3, Zenon DEF OneApplier
<1>6. LoopOK'
  BY <1>0, <1>2, <1>3, <1>4 DEF LoopOK, Untouched, RestsAt
<1>7. ReadyMeansPage'
  BY <1>0, <1>2, StateKinds, Zenon DEF ReadyMeansPage
<1>8. PageOK'
  BY <1>0, <1>2, <1>3, Zenon DEF PageOK, Untouched, Working
<1>9. DispatchOK'
  BY <1>0, <1>2, <1>3, StateKinds DEF DispatchOK
<1> QED
  BY <1>1, <1>5, <1>6, <1>7, <1>8, <1>9, Zenon

(* Completion::drop publishes success, or falls back. *)
LEMMA CompleteKeeps ==
  ASSUME PatchInv, NEW t \in Threads, Complete(t)
  PROVE  PatchInv'
<1> USE DEF PatchInv
<1>0. /\ recipe[t] \in Recipes /\ completion[t] \in States /\ pc[t] = "complete" /\ Working(t)
      /\ state = Applying(recipe[t])
      /\ \A u \in Threads \ {t} : ~Working(u)
  BY Zenon DEF Complete, Working, LocalsOK, OneApplier
<1>1. /\ LocalsOK'
      /\ \A u \in Threads \ {t} : Untouched(u)
      /\ pc'[t] = "returned" /\ RestsAt(completion'[t])
  BY LeaveLocals, Zenon DEF Complete
<1>2. page' = page /\ unsealed' = unsealed /\ patches' = patches
  BY Zenon DEF Complete
<1>3. \A u \in Threads : ~Working(u)'
  BY <1>0, <1>1, Zenon DEF Working, Untouched
<1>4. \A u \in Threads \ {t} : \A s : Behind(u, s)' <=> Behind(u, s)
  BY <1>1, Zenon DEF Behind, Untouched
<1>5. OneApplier'
  BY <1>3, Zenon DEF OneApplier
<1>6. CASE applied[t]
  <2>1. /\ state' = Ready(recipe[t]) /\ page = recipe[t]
        /\ dispatched' <=> dispatched \/ recipe[t] # "Resume"
    BY <1>0, <1>6, Zenon DEF Complete, Leave, PageOK
  <2>2. SharedOK'
    BY <1>0, <1>2, <2>1, StateKinds DEF SharedOK, Complete, Leave
  <2>3. \A u \in Threads \ {t} : pc[u] \in {"load", "exchange"} => Behind(u, state')
    BY <1>0, <2>1, StateKinds, Zenon DEF LoopOK, Behind
  <2>4. LoopOK'
    <3>1. \A u \in Threads : RestsAt(completion'[u])
      BY <1>1, Zenon DEF LoopOK, Untouched, RestsAt
    <3>2. \A u \in Threads : pc'[u] \in {"load", "exchange"} => u # t /\ Behind(u, state)'
      BY <1>1, <1>4, <2>3, Zenon DEF Untouched
    <3>3. ASSUME NEW u \in Threads, pc'[u] = "exchange"
          PROVE  /\ seen'[u].phase # "Applying" /\ seen'[u] # Ready(recipe'[u])
                 /\ seen'[u] # Unapplied /\ seen'[u].recipe # recipe'[u] =>
                      completion'[u] = seen'[u] /\ recipe'[u] # "Resume"
      BY <1>1, <3>3 DEF LoopOK, Untouched
    <3> QED
      BY <1>3, <3>1, <3>2, <3>3, Zenon DEF LoopOK, RestsAt
  <2>5. ReadyMeansPage' /\ PageOK'
    BY <1>0, <1>1, <1>2, <1>3, <2>1, StateKinds, ZenonT(30) DEF ReadyMeansPage, PageOK, Working
  <2>6. DispatchOK'
    BY <1>0, <1>2, <1>3, <2>1, StateKinds, UnappliedKind, Zenon DEF DispatchOK
  <2> QED
    BY <1>1, <1>5, <2>2, <2>4, <2>5, <2>6, Zenon
<1>7. CASE ~applied[t]
  <2>1. state' = completion[t] /\ dispatched' = dispatched
    BY <1>7, Zenon DEF Complete, Leave, SharedOK
  <2>2. SharedOK'
    BY <1>0, <1>2, <2>1, Zenon DEF SharedOK
  <2>3. LoopOK'
    BY <1>0, <1>1, <1>3, <1>4, <2>1 DEF LoopOK, Untouched, RestsAt
  <2>4. ReadyMeansPage' /\ PageOK'
    BY <1>0, <1>1, <1>2, <1>3, <1>7, <2>1, Zenon DEF ReadyMeansPage, PageOK, Working
  <2>5. completion[t] # Unapplied
    BY UnappliedKind, Zenon DEF LoopOK, RestsAt
  <2>6. DispatchOK'
    BY <1>0, <1>2, <1>3, <2>1, <2>5, Zenon DEF DispatchOK
  <2> QED
    BY <1>1, <1>5, <2>2, <2>3, <2>4, <2>6, Zenon
<1> QED
  BY <1>6, <1>7, Zenon

(* Steps of a thread that is outside patch() before and after. *)
LEMMA OutsideKeeps ==
  ASSUME PatchInv, NEW t \in Threads, NEW label \in Labels,
         pc[t] \notin PatchLabels \ {"returned"}, label \notin PatchLabels,
         pc' = [pc EXCEPT ![t] = label],
         result' = result \/ result' = [result EXCEPT ![t] = "none"],
         UNCHANGED <<state, page, recipe, seen, completion, waits, applied, patches, histories>>
  PROVE  PatchInv'
<1> USE DEF PatchInv
<1>1. SharedOK' /\ LocalsOK'
  BY Zenon DEF SharedOK, LocalsOK, histories
<1>2. \A u \in Threads \ {t} : Untouched(u)
  BY Zenon DEF Untouched, LocalsOK
<1>3. ~Working(t) /\ pc'[t] = label
  BY Zenon DEF Working, PatchLabels, LocalsOK
<1>4. RestsAt(completion'[t])
  BY Zenon DEF LoopOK
<1>5. PatchCore'
  BY <1>2, <1>3, <1>4, QuietCore, Zenon DEF histories, PatchLabels
<1> QED
  BY <1>1, <1>5, Zenon DEF PatchCore

(* recover_after_fork, when no live thread is applying: nobody in the loop     *)
(* holds the cut-off state as the one to fall back to.                         *)
LEMMA RecoverKeeps ==
  ASSUME PatchInv, NEW t \in Threads, NEW label \in Labels,
         \A u \in Threads : ~Working(u),
         pc[t] \notin PatchLabels, label \notin PatchLabels,
         pc' = [pc EXCEPT ![t] = label],
         state' = Recovered(state),
         UNCHANGED <<page, recipe, seen, completion, waits, applied, result, patches, histories>>
  PROVE  PatchInv'
<1> USE DEF PatchInv
<1>1. CASE state.phase # "Applying"
  <2>1. state' = state
    BY <1>1, Zenon DEF Recovered
  <2> QED
    BY <2>1, OutsideKeeps, ZenonT(30)
<1>2. CASE state.phase = "Applying"
  <2>1. PICK r \in Recipes : state = Applying(r)
    BY <1>2, StateShapes, Zenon DEF SharedOK
  <2>2. state' = Failed(r)
    BY <1>2, <2>1, StateKinds, Zenon DEF Recovered
  <2>3. SharedOK' /\ LocalsOK'
    BY <2>2, StateKinds DEF SharedOK, LocalsOK, histories
  <2>4. /\ \A u \in Threads \ {t} : Untouched(u)
        /\ pc'[t] = label /\ completion' = completion
        /\ page' = page /\ dispatched' = dispatched /\ unsealed' = unsealed
    BY Zenon DEF Untouched, LocalsOK, histories
  <2>5. \A u \in Threads : ~Working(u)'
    BY <2>4, Zenon DEF Working, Untouched, PatchLabels
  <2>6. LoopOK'
    <3>1. ASSUME NEW u \in Threads, pc'[u] \in {"load", "exchange"} PROVE Behind(u, state)'
      <4>1. u # t /\ Behind(u, state)
        BY <2>4, <3>1, SMTT(30) DEF LoopOK, Untouched, PatchLabels
      <4>2. completion[u] = Failed(recipe[u])
        BY <1>2, <4>1, StateKinds, SMTT(30) DEF Behind, LoopOK, RestsAt
      <4> QED
        BY <2>4, <4>1, <4>2, Zenon DEF Behind, Untouched
    <3> QED
      BY <2>4, <2>5, <3>1 DEF LoopOK, Untouched, RestsAt, PatchLabels
  <2>7. OneApplier' /\ ReadyMeansPage'
    BY <2>2, <2>5, StateKinds, Zenon DEF OneApplier, ReadyMeansPage
  <2>8. PageOK'
    BY <2>4, <2>5, SMTT(30) DEF PageOK, Working
  <2>9. DispatchOK'
    BY <2>1, <2>2, <2>4, <2>5, StateKinds, UnappliedKind DEF DispatchOK
  <2> QED
    BY <2>3, <2>6, <2>7, <2>8, <2>9, Zenon
<1> QED
  BY <1>1, <1>2, Zenon

(* After a fork the child has the state and one idle thread; the parent's      *)
(* write to the page it shares ends with the recipe the state names.           *)
LEMMA ForkKeeps ==
  ASSUME PatchInv, NEW t \in Threads, Fork(t)
  PROVE  PatchInv'
<1> USE DEF PatchInv
<1>1. /\ state' = state /\ patches' = patches
      /\ dispatched' = dispatched /\ unsealed' = unsealed
      /\ page' = ForkedPage
  BY Zenon DEF Fork, histories
<1>2. /\ pc' \in [Threads -> Labels]
      /\ result' \in [Threads -> {"none", "Ok", "Conflict", "ApplyFailed"}]
      /\ \A u \in Threads : pc'[u] \in {"idle", "gone"}
  BY Zenon DEF Fork, Labels
<1>3. LocalsOK' /\ \A u \in Threads : RestsAt(completion'[u])
  BY <1>2, ForgetTypes, Zenon DEF Fork
<1>4. \A u \in Threads : ~Working(u)'
  BY <1>2, Zenon DEF Working
<1>5. \/ page' = page
      \/ \E u \in Threads : Working(u) /\ page' = recipe[u]
  BY <1>1, Zenon DEF ForkedPage, Working
<1>6. SharedOK'
  BY <1>1, <1>5, Zenon DEF SharedOK, LocalsOK
<1>7. OneApplier' /\ LoopOK'
  BY <1>2, <1>3, <1>4, Zenon DEF OneApplier, LoopOK, RestsAt
<1>8. ReadyMeansPage'
  <2>1. ASSUME NEW u \in Threads, Working(u) PROVE state.phase = "Applying"
    BY <2>1, StateKinds DEF OneApplier, LocalsOK
  <2> QED
    BY <1>1, <1>5, <2>1, Zenon DEF ReadyMeansPage
<1>9. PageOK'
  BY <1>2, ZenonT(30) DEF PageOK
<1>10. DispatchOK'
  <2>1. ASSUME NEW u \in Threads, Working(u) PROVE state.recipe = recipe[u]
    BY <2>1, StateKinds DEF OneApplier, LocalsOK
  <2> QED
    BY <1>1, <1>4, <1>5, <2>1, Zenon DEF DispatchOK
<1> QED
  BY <1>3, <1>6, <1>7, <1>8, <1>9, <1>10, Zenon

(* Nothing has happened yet. *)
LEMMA InitKeeps == Init => PatchInv
<1> SUFFICES ASSUME Init PROVE PatchInv
  BY Zenon
<1>0. PatchWaitLimit \in Nat /\ MaxPatches \in Nat
  BY PatchAssumption, Zenon DEF PatchAssumption
<1>1. "Resume" \in Recipes
  BY Zenon DEF Recipes
<1>2. SharedOK
  <2>1. state \in States /\ page \in Recipes \cup {"None", "Partial"}
    BY UnappliedKind, Zenon DEF Init
  <2>2. patches \in 0..MaxPatches
    <3>1. patches = 0
      BY Zenon DEF Init
    <3> QED
      BY ONLY <1>0, <3>1
  <2>3. dispatched \in BOOLEAN /\ unsealed \in BOOLEAN
    BY Zenon DEF Init
  <2> QED
    BY <2>1, <2>2, <2>3, Zenon DEF SharedOK
<1>3. LocalsOK
  BY <1>0, <1>1, StateKinds, UnappliedKind DEF Init, LocalsOK, Labels
<1>4. \A t \in Threads : pc[t] = "idle" /\ completion[t] = Failed("Resume")
  BY Zenon DEF Init
<1>5. OneApplier /\ LoopOK /\ PageOK
  BY <1>1, <1>4, StateKinds DEF OneApplier, LoopOK, PageOK, Working, RestsAt
<1>6. ReadyMeansPage /\ DispatchOK
  BY <1>4, UnappliedKind, Zenon DEF Init, ReadyMeansPage, DispatchOK, Working
<1> QED
  BY <1>2, <1>3, <1>5, <1>6, Zenon DEF PatchInv

(* Every step of patch() callers without the guard keeps the invariant. *)
LEMMA NextKeeps == PatchInv /\ [Next]_vars => PatchInv'
<1> SUFFICES ASSUME PatchInv, [Next]_vars PROVE PatchInv'
  BY Zenon
<1>1. CASE UNCHANGED vars
  BY <1>1, ZenonT(30) DEF vars, threadVars, histories, PatchInv, SharedOK, LocalsOK, OneApplier, LoopOK,
              ReadyMeansPage, PageOK, DispatchOK, Working, Behind
<1>2. ASSUME NEW t \in Threads, Begin(t) PROVE PatchInv'
  BY <1>2, StartKeeps, Zenon DEF Begin, Working
<1>3. ASSUME NEW t \in Threads, Return(t) PROVE PatchInv'
  BY <1>3, OutsideKeeps, Zenon DEF Return, PatchLabels, Labels
<1>4. ASSUME NEW t \in Threads, Recover(t) PROVE PatchInv'
  <2>1. pc' = [pc EXCEPT ![t] = "idle"] /\ "idle" \in Labels \ PatchLabels
    BY <1>4, Zenon DEF Recover, threadVars, PatchInv, LocalsOK, Labels, PatchLabels
  <2> QED
    BY <1>4, <2>1, RecoverKeeps, Zenon DEF Recover, threadVars, PatchLabels
<1> QED
  BY <1>1, <1>2, <1>3, <1>4, LoadKeeps, ExchangeKeeps, ApplyBeginKeeps, ApplyEndKeeps,
     CompleteKeeps, ForkKeeps, Zenon DEF Next, Step

(* patch() without the guard, for any number of threads, waits and forks: one  *)
(* applier at a time, a Ready state that tells what the page holds, and no     *)
(* Resume recipe once a Dispatch or Selector patch succeeded.                  *)
THEOREM PatchStateIsSound == Spec => [](OneApplier /\ ReadyMeansPage /\ ResumeNeverReturns)
<1>1. PatchInv => OneApplier /\ ReadyMeansPage /\ ResumeNeverReturns
  BY Zenon DEF PatchInv, DispatchOK, ResumeNeverReturns
<1> QED
  BY InitKeeps, NextKeeps, <1>1, PTL DEF Spec

(* Callers of patch() without the guard never see a label of the runtime. *)
PlainPc == \A t \in Threads : pc[t] \in {"idle", "gone"} \cup PatchLabels

(* ... whatever they do. *)
LEMMA PlainKeeps ==
  ASSUME PatchInv, PlainPc, [Next]_vars
  PROVE  PlainPc'
<1>0. pc \in [Threads -> Labels]
  BY Zenon DEF PatchInv, LocalsOK
<1>1. CASE UNCHANGED vars
  BY <1>1, Zenon DEF vars, threadVars, PlainPc
<1>2. ASSUME NEW t \in Threads, NEW l \in {"idle"} \cup PatchLabels, pc' = [pc EXCEPT ![t] = l]
      PROVE  PlainPc'
  BY <1>0, <1>2, Zenon DEF PlainPc
<1>3. ASSUME NEW t \in Threads, Fork(t) PROVE PlainPc'
  BY <1>3, Zenon DEF Fork, PlainPc
<1>4. ASSUME NEW t \in Threads, Recover(t) PROVE PlainPc'
  BY <1>4, Zenon DEF Recover, threadVars, PlainPc
<1>5. ASSUME NEW t \in Threads, Load(t) PROVE PlainPc'
  <2>1. CASE UNCHANGED pc
    BY <2>1, Zenon DEF PlainPc
  <2>2. CASE \E l \in {"returned", "exchange"} : pc' = [pc EXCEPT ![t] = l]
    BY <1>2, <2>2, Zenon DEF PatchLabels
  <2> QED
    BY <1>5, <2>1, <2>2, Zenon DEF Load, LoadReady, LoadWait, LoadConflict, LoadTransition, Leave
<1>6. ASSUME NEW t \in Threads, Begin(t) \/ Return(t) PROVE PlainPc'
  <2>1. \E l \in {"load", "idle"} : pc' = [pc EXCEPT ![t] = l]
    BY <1>6, Zenon DEF Begin, StartPatch, Return
  <2> QED
    BY <1>2, <2>1, Zenon DEF PatchLabels
<1>7. ASSUME NEW t \in Threads, Exchange(t) \/ ApplyBegin(t) \/ ApplyEnd(t) \/ Complete(t)
      PROVE  PlainPc'
  <2>1. \E l \in {"applying", "load", "complete", "writing", "returned"} : pc' = [pc EXCEPT ![t] = l]
    BY <1>7, Zenon DEF Exchange, ApplyBegin, ApplyEnd, Complete, Leave
  <2> QED
    BY <1>2, <2>1, Zenon DEF PatchLabels
<1> QED
  BY <1>1, <1>3, <1>4, <1>5, <1>6, <1>7, Zenon DEF Next, Step


(* The guard: whose it is, and what a fork leaves of it. *)
OwnerOK ==
  /\ GuardExcludes
  /\ owner = "child" => pid = "child"
  /\ pid = "child" => \E t \in Threads : pc[t] = "gone"
  /\ \A t \in Threads : pc[t] = "recover" => pid = "child"

(* An Applying state has an applier, or a fork cut it off and the stale owner  *)
(* is still there to tell.                                                     *)
CutOffIsMarked ==
  state.phase = "Applying" =>
    \/ \E t \in Threads : Working(t)
    \/ \E t \in Threads : pc[t] = "recover"
    \/ pid = "child" /\ owner = "parent"

(* The answer of patch() lives until the guard is dropped. *)
ResultOK == \A t \in Threads : pc[t] # "returned" => result[t] = "none"

SlotOK ==
  /\ BridgeForwardsToWine
  /\ \A t \in Threads : pc[t] = "swap_slot" => original = "wine"

GuardInv == KuserTypeOK /\ OwnerOK /\ CutOffIsMarked /\ ResultOK /\ SlotOK

KuserInv == PatchInv /\ GuardInv

-----------------------------------------------------------------------------
(* The runtime around patch().                                                *)

(* The holder moves on and keeps the guard. *)
LEMMA HolderKeeps ==
  ASSUME OwnerOK, NEW t \in Threads, Holding(t),
         \A u \in Threads \ {t} : pc'[u] = pc[u],
         pc'[t] \notin {"idle", "gone", "acquire", "recover"},
         owner' = owner, pid' = pid
  PROVE  OwnerOK'
<1>1. \A u \in Threads : Holding(u)' <=> Holding(u)
  BY Zenon DEF Holding
<1>2. GuardExcludes'
  BY <1>1, Zenon DEF OwnerOK, GuardExcludes
<1>3. pid' = "child" => \E u \in Threads : pc'[u] = "gone"
  BY Zenon DEF OwnerOK, Holding
<1> QED
  BY <1>2, <1>3, Zenon DEF OwnerOK

(* While the guard is held by a thread that neither applies nor recovers, the  *)
(* state is at rest: what is Applying would have another holder.               *)
LEMMA HeldAtRest ==
  ASSUME OwnerOK, CutOffIsMarked, KuserTypeOK, NEW t \in Threads, Holding(t),
         ~Working(t), pc[t] # "recover"
  PROVE  state.phase # "Applying"
<1>1. \A u \in Threads : Working(u) \/ pc[u] = "recover" => Holding(u)
  BY Zenon DEF Working, Holding
<1>2. \A u \in Threads : Holding(u) => u = t
  BY Zenon DEF OwnerOK, GuardExcludes
<1>3. owner = pid
  BY Zenon DEF OwnerOK, GuardExcludes
<1> QED
  BY <1>1, <1>2, <1>3, Zenon DEF CutOffIsMarked

(* A step under the guard that only moves the thread on. *)
LEMMA GotoKeeps ==
  ASSUME KuserInv, NEW t \in Threads, NEW label \in GuardLabels \ {"acquire", "recover"},
         Holding(t), pc[t] \notin PatchLabels, pc[t] # "recover",
         Goto(t, label), UNCHANGED guardVars
  PROVE  PatchInv' /\ OwnerOK' /\ CutOffIsMarked' /\ ResultOK'
<1> USE DEF KuserInv, GuardInv
<1>1. /\ \A u \in Threads \ {t} : pc'[u] = pc[u] /\ result'[u] = result[u]
      /\ pc'[t] = label /\ result'[t] = result[t] /\ state' = state
      /\ owner' = owner /\ pid' = pid
  BY Zenon DEF Goto, guardVars, PatchInv, LocalsOK
<1>2. label \in Labels \ PatchLabels
  BY Zenon DEF Labels, GuardLabels, PatchLabels
<1>3. PatchInv'
  BY <1>2, OutsideKeeps, Zenon DEF Goto
<1>4. OwnerOK'
  BY <1>1, <1>2, HolderKeeps, Zenon DEF GuardLabels
<1>5. ~Working(t)
  BY Zenon DEF Working, PatchLabels
<1>6. CutOffIsMarked'
  BY <1>1, <1>5, HeldAtRest, Zenon DEF CutOffIsMarked
<1>7. ResultOK'
  BY <1>1, Zenon DEF ResultOK, PatchLabels
<1> QED
  BY <1>3, <1>4, <1>6, <1>7, Zenon

(* A thread that goes on, with the slot and Wine's dispatcher left alone. *)
LEMMA SlotKeeps ==
  ASSUME SlotOK, NEW t \in Threads,
         \A u \in Threads \ {t} : pc'[u] = pc[u], pc'[t] # "swap_slot",
         UNCHANGED slotVars
  PROVE  SlotOK'
  BY Zenon DEF SlotOK, BridgeForwardsToWine, slotVars

(* force_direct_syscall and install under the guard, and the other holders.   *)
LEMMA GuardedWork ==
  ASSUME KuserInv, NEW t \in Threads,
         \/ ForceDirect(t) \/ ForceRestore(t)
         \/ InstallUnlock(t) \/ SaveOriginal(t) \/ SwapSlot(t) \/ SealSlot(t) \/ OtherHolder(t)
  PROVE  KuserInv'
<1> USE DEF KuserInv, GuardInv
<1>0. pc \in [Threads -> Labels]
  BY Zenon DEF PatchInv, LocalsOK
<1>1. CASE ForceDirect(t)
  <2>1. PICK label \in {"drop", "force_restore"} : Goto(t, label)
    BY <1>1, Zenon DEF ForceDirect
  <2>2. pc[t] = "force" /\ UNCHANGED guardVars /\ UNCHANGED slotVars /\ UNCHANGED jobVars
    BY <1>1, Zenon DEF ForceDirect
  <2>3. PatchInv' /\ OwnerOK' /\ CutOffIsMarked' /\ ResultOK'
    BY <2>1, <2>2, GotoKeeps, Zenon DEF GuardLabels, PatchLabels, Holding
  <2>4. SlotOK'
    BY <1>0, <2>1, <2>2, SlotKeeps, Zenon DEF Goto
  <2>5. KuserTypeOK'
    BY <1>1, ZenonT(30) DEF ForceDirect, KuserTypeOK, guardVars, slotVars, jobVars
  <2> QED
    BY <2>3, <2>4, <2>5, Zenon
<1>2. CASE ForceRestore(t)
  <2>2. pc[t] = "force_restore" /\ Goto(t, "drop") /\ UNCHANGED guardVars /\ UNCHANGED slotVars
    BY <1>2, Zenon DEF ForceRestore
  <2>3. PatchInv' /\ OwnerOK' /\ CutOffIsMarked' /\ ResultOK'
    BY <2>2, GotoKeeps, Zenon DEF GuardLabels, PatchLabels, Holding
  <2>4. SlotOK'
    BY <1>0, <2>2, SlotKeeps, Zenon DEF Goto
  <2>5. KuserTypeOK'
    BY <1>2, ZenonT(30) DEF ForceRestore, KuserTypeOK, guardVars, slotVars, jobVars
  <2> QED
    BY <2>3, <2>4, <2>5, Zenon
<1>3. CASE InstallUnlock(t)
  <2>1. PICK label \in {"drop", "swap"} : Goto(t, label)
    BY <1>3, Zenon DEF InstallUnlock
  <2>2. pc[t] = "install" /\ UNCHANGED guardVars /\ UNCHANGED <<slot, original, installed>>
    BY <1>3, Zenon DEF InstallUnlock
  <2>3. PatchInv' /\ OwnerOK' /\ CutOffIsMarked' /\ ResultOK'
    BY <2>1, <2>2, GotoKeeps, Zenon DEF GuardLabels, PatchLabels, Holding
  <2>4. SlotOK'
    BY <1>0, <2>1, <2>2, Zenon DEF Goto, SlotOK, BridgeForwardsToWine
  <2>5. KuserTypeOK'
    BY <1>3, ZenonT(30) DEF InstallUnlock, KuserTypeOK, guardVars, hackVars, jobVars
  <2> QED
    BY <2>3, <2>4, <2>5, Zenon
<1>4. CASE SaveOriginal(t)
  <2>1. PICK label \in {"swap_slot", "seal"} : Goto(t, label)
    BY <1>4, Zenon DEF SaveOriginal
  <2>2. pc[t] = "swap" /\ UNCHANGED guardVars /\ UNCHANGED <<slot, installed>>
    BY <1>4, Zenon DEF SaveOriginal
  <2>3. PatchInv' /\ OwnerOK' /\ CutOffIsMarked' /\ ResultOK'
    BY <2>1, <2>2, GotoKeeps, Zenon DEF GuardLabels, PatchLabels, Holding
  <2>4. SlotOK'
    BY <1>0, <1>4, <2>2 DEF SaveOriginal, Goto, SlotOK, BridgeForwardsToWine, KuserTypeOK
  <2>5. KuserTypeOK'
    BY <1>4 DEF SaveOriginal, KuserTypeOK, guardVars, hackVars, jobVars
  <2> QED
    BY <2>3, <2>4, <2>5, Zenon
<1>5. CASE SwapSlot(t)
  <2>2. pc[t] = "swap_slot" /\ Goto(t, "seal") /\ UNCHANGED guardVars
        /\ slot' = "bridge" /\ UNCHANGED <<original, installed>>
    BY <1>5, Zenon DEF SwapSlot
  <2>3. PatchInv' /\ OwnerOK' /\ CutOffIsMarked' /\ ResultOK'
    BY <2>2, GotoKeeps, Zenon DEF GuardLabels, PatchLabels, Holding
  <2>4. SlotOK'
    BY <1>0, <2>2, Zenon DEF Goto, SlotOK, BridgeForwardsToWine
  <2>5. KuserTypeOK'
    BY <1>5, Zenon DEF SwapSlot, KuserTypeOK, guardVars, hackVars, jobVars
  <2> QED
    BY <2>3, <2>4, <2>5, Zenon
<1>6. CASE SealSlot(t)
  <2>2. pc[t] = "seal" /\ Goto(t, "drop") /\ UNCHANGED guardVars /\ UNCHANGED <<slot, original>>
    BY <1>6, Zenon DEF SealSlot
  <2>3. PatchInv' /\ OwnerOK' /\ CutOffIsMarked' /\ ResultOK'
    BY <2>2, GotoKeeps, Zenon DEF GuardLabels, PatchLabels, Holding
  <2>4. SlotOK'
    BY <1>0, <1>6, <2>2, Zenon DEF SealSlot, Goto, SlotOK, BridgeForwardsToWine
  <2>5. KuserTypeOK'
    BY <1>6 DEF SealSlot, KuserTypeOK, guardVars, hackVars, jobVars
  <2> QED
    BY <2>3, <2>4, <2>5, Zenon
<1>7. CASE OtherHolder(t)
  <2>2. pc[t] = "other" /\ Goto(t, "drop") /\ UNCHANGED guardVars /\ UNCHANGED slotVars
    BY <1>7, Zenon DEF OtherHolder, pageVars
  <2>3. PatchInv' /\ OwnerOK' /\ CutOffIsMarked' /\ ResultOK'
    BY <2>2, GotoKeeps, Zenon DEF GuardLabels, PatchLabels, Holding
  <2>4. SlotOK'
    BY <1>0, <2>2, SlotKeeps, Zenon DEF Goto
  <2>5. KuserTypeOK'
    BY <1>7 DEF OtherHolder, KuserTypeOK, guardVars, pageVars, hackVars, slotVars, jobVars
  <2> QED
    BY <2>3, <2>4, <2>5, Zenon
<1> QED
  BY <1>1, <1>2, <1>3, <1>4, <1>5, <1>6, <1>7, Zenon

(* PageGuard::acquire: busy, free, or stale. *)
LEMMA AcquireKeeps ==
  ASSUME KuserInv, NEW t \in Threads, BeginJob(t) \/ Acquire(t)
  PROVE  KuserInv'
<1> USE DEF KuserInv, GuardInv
<1>0. pc \in [Threads -> Labels]
  BY Zenon DEF PatchInv, LocalsOK
<1>1. PICK label \in {"idle", "acquire", "enter", "recover"} : Goto(t, label)
  BY Zenon DEF BeginJob, Acquire
<1>2. pc[t] \in {"idle", "acquire"} /\ ~Holding(t)
  BY Zenon DEF BeginJob, Acquire, Holding
<1>3. /\ \A u \in Threads \ {t} : pc'[u] = pc[u]
      /\ pc'[t] = label /\ result' = result /\ state' = state
  BY <1>0, <1>1, Zenon DEF Goto
<1>4. PatchInv'
  BY <1>1, <1>2, OutsideKeeps, Zenon DEF Goto, Labels, PatchLabels, GuardLabels
<1>5. ResultOK'
  BY <1>2, <1>3, Zenon DEF ResultOK
<1>6. SlotOK'
  BY <1>3, SlotKeeps, Zenon DEF BeginJob, Acquire, pageVars
<1>7. \A u \in Threads : Working(u)' <=> Working(u)
  BY <1>2, <1>3, Zenon DEF Working
<1>8. ASSUME owner' = owner, label \in {"idle", "acquire"} PROVE OwnerOK' /\ CutOffIsMarked'
  <2>1. pid' = pid
    BY Zenon DEF BeginJob, Acquire, guardVars
  <2>2. \A u \in Threads : Holding(u)' <=> Holding(u)
    BY <1>2, <1>3, <1>8, Zenon DEF Holding
  <2>3. GuardExcludes'
    BY <1>8, <2>1, <2>2, Zenon DEF OwnerOK, GuardExcludes
  <2>4. OwnerOK'
    BY <1>2, <1>3, <1>8, <2>1, <2>3, Zenon DEF OwnerOK
  <2>5. CutOffIsMarked'
    BY <1>2, <1>3, <1>7, <1>8, <2>1, Zenon DEF CutOffIsMarked
  <2> QED
    BY <2>4, <2>5, Zenon
<1>9. ASSUME owner # pid, owner' = pid, pid' = pid,
             label = IF owner = "none" THEN "enter" ELSE "recover"
      PROVE  OwnerOK' /\ CutOffIsMarked'
  <2>1. \A u \in Threads : ~Holding(u)
    BY <1>9, Zenon DEF OwnerOK, GuardExcludes
  <2>2. \A u \in Threads : Holding(u)' <=> u = t
    BY <1>3, <1>9, <2>1, Zenon DEF Holding
  <2>3. GuardExcludes'
    BY <1>9, <2>2, Zenon DEF GuardExcludes
  <2>4. label = "recover" => pid = "child" /\ owner = "parent"
    BY <1>9, Zenon DEF OwnerOK, KuserTypeOK
  <2>5. OwnerOK'
    BY <1>2, <1>3, <1>9, <2>1, <2>3, <2>4, Zenon DEF OwnerOK, Holding
  <2>6. CutOffIsMarked'
    BY <1>3, <1>9, <2>1, Zenon DEF CutOffIsMarked, Holding, Working
  <2> QED
    BY <2>5, <2>6, Zenon
<1>10. OwnerOK' /\ CutOffIsMarked'
  <2>1. CASE BeginJob(t)
    <3>1. PICK l \in {"idle", "acquire"} : Goto(t, l)
      BY <2>1, Zenon DEF BeginJob
    <3>2. l = label
      BY <1>0, <1>1, <3>1, Zenon DEF Goto
    <3> QED
      BY <1>8, <2>1, <3>2, Zenon DEF BeginJob, guardVars
  <2>2. CASE Acquire(t) /\ owner = pid
    <3>1. owner' = owner /\ Goto(t, "idle")
      BY <2>2, Zenon DEF Acquire
    <3>2. label = "idle"
      BY <1>0, <1>1, <3>1, Zenon DEF Goto
    <3> QED
      BY <1>8, <3>1, <3>2, Zenon
  <2>3. CASE Acquire(t) /\ owner # pid
    <3>1. /\ owner' = pid /\ pid' = pid
          /\ Goto(t, IF owner = "none" THEN "enter" ELSE "recover")
      BY <2>3, Zenon DEF Acquire
    <3>2. label = IF owner = "none" THEN "enter" ELSE "recover"
      BY <1>0, <1>1, <3>1, Zenon DEF Goto
    <3> QED
      BY <1>9, <2>3, <3>1, <3>2, Zenon
  <2> QED
    BY <2>1, <2>2, <2>3, Zenon
<1>11. KuserTypeOK'
  <2>1. CASE BeginJob(t)
    <3>1. jobs' \in 0..MaxJobs
      BY <2>1, KuserAssumption, PatchAssumption DEF KuserAssumption, PatchAssumption, BeginJob, KuserTypeOK
    <3>2. job' \in [Threads -> {"none", "patch", "force", "install", "other"}]
      BY <2>1, Zenon DEF BeginJob, KuserTypeOK
    <3>3. UNCHANGED <<guardVars, pageVars>>
      BY <2>1, Zenon DEF BeginJob
    <3> QED
      BY <3>1, <3>2, <3>3 DEF KuserTypeOK, guardVars, pageVars, hackVars, slotVars
  <2>2. CASE Acquire(t)
    <3>1. job' \in [Threads -> {"none", "patch", "force", "install", "other"}]
      BY <2>2, Zenon DEF Acquire, KuserTypeOK
    <3>2. UNCHANGED <<pid, jobs, pageVars>> /\ owner' \in {owner, pid}
      BY <2>2, Zenon DEF Acquire
    <3> QED
      BY <3>1, <3>2 DEF KuserTypeOK, pageVars, hackVars, slotVars
  <2> QED
    BY <2>1, <2>2, Zenon
<1> QED
  BY <1>4, <1>5, <1>6, <1>10, <1>11, Zenon

(* recover_after_fork runs only in a child, while nobody applies. *)
LEMMA RecoverPatchKeeps ==
  ASSUME KuserInv, NEW t \in Threads, RecoverPatch(t)
  PROVE  KuserInv' /\ (\A u \in Threads : ~Working(u)) /\ pid = "child"
<1> USE DEF KuserInv, GuardInv
<1>0. pc \in [Threads -> Labels] /\ state \in States
  BY Zenon DEF PatchInv, LocalsOK, SharedOK
<1>1. /\ pc[t] = "recover" /\ Holding(t) /\ pid = "child"
      /\ \A u \in Threads \ {t} : pc'[u] = pc[u]
      /\ pc'[t] = "enter" /\ result' = result /\ state' = Recovered(state)
      /\ owner' = owner /\ pid' = pid
  BY <1>0, Zenon DEF RecoverPatch, Holding, OwnerOK, guardVars
<1>2. \A u \in Threads : ~Working(u)
  BY <1>1, Zenon DEF OwnerOK, GuardExcludes, Holding, Working
<1>3. PatchInv'
  BY <1>1, <1>2, RecoverKeeps, ZenonT(30) DEF RecoverPatch, Labels, PatchLabels, GuardLabels
<1>4. OwnerOK'
  BY <1>1, HolderKeeps, Zenon
<1>5. CutOffIsMarked'
  BY <1>0, <1>1, StateShapes, StateKinds, Zenon DEF CutOffIsMarked, Recovered
<1>6. ResultOK'
  BY <1>1, Zenon DEF ResultOK
<1>7. SlotOK'
  BY <1>1, SlotKeeps, Zenon DEF RecoverPatch, pageVars
<1>8. KuserTypeOK'
  BY DEF RecoverPatch, KuserTypeOK, guardVars, jobVars, pageVars, hackVars, slotVars
<1> QED
  BY <1>1, <1>2, <1>3, <1>4, <1>5, <1>6, <1>7, <1>8, Zenon

(* Under the guard the job begins. *)
LEMMA EnterKeeps ==
  ASSUME KuserInv, NEW t \in Threads, Enter(t)
  PROVE  KuserInv'
<1> USE DEF KuserInv, GuardInv
<1>0. pc \in [Threads -> Labels]
  BY Zenon DEF PatchInv, LocalsOK
<1>1. pc[t] = "enter" /\ Holding(t) /\ UNCHANGED <<guardVars, jobVars, pageVars>>
  BY Zenon DEF Enter, Holding
<1>2. KuserTypeOK'
  BY <1>1 DEF KuserTypeOK, guardVars, jobVars, pageVars, hackVars, slotVars
<1>3. CASE \E r \in Recipes : StartPatch(t, r, "load")
  <2>1. PatchInv'
    BY <1>1, <1>3, StartKeeps, Zenon DEF Working
  <2>2. /\ \A u \in Threads \ {t} : pc'[u] = pc[u]
        /\ pc'[t] = "load" /\ result' = result /\ state' = state
        /\ owner' = owner /\ pid' = pid
    BY <1>0, <1>1, <1>3, Zenon DEF StartPatch, guardVars
  <2>3. OwnerOK'
    BY <1>1, <2>2, HolderKeeps, Zenon
  <2>4. CutOffIsMarked'
    BY <1>1, <2>2, HeldAtRest, SMTT(30) DEF CutOffIsMarked, Working
  <2>5. ResultOK' /\ SlotOK'
    BY <1>1, <2>2, SlotKeeps, Zenon DEF ResultOK, pageVars
  <2> QED
    BY <1>2, <2>1, <2>3, <2>4, <2>5, Zenon
<1>4. CASE \E l \in {"force", "install", "other"} : Goto(t, l)
  <2>1. PICK l \in {"force", "install", "other"} : Goto(t, l)
    BY <1>4, Zenon
  <2>2. PatchInv' /\ OwnerOK' /\ CutOffIsMarked' /\ ResultOK'
    BY <1>1, <2>1, GotoKeeps, Zenon DEF GuardLabels, PatchLabels
  <2>3. SlotOK'
    BY <1>0, <1>1, <2>1, SlotKeeps, Zenon DEF Goto, pageVars
  <2> QED
    BY <1>2, <2>2, <2>3, Zenon
<1> QED
  BY <1>3, <1>4, Zenon DEF Enter

(* The guard is dropped with the state at rest; a successful recipe goes on to *)
(* the bridge.                                                                 *)
LEMMA DropKeeps ==
  ASSUME KuserInv, NEW t \in Threads, DropGuard(t)
  PROVE  KuserInv'
<1> USE DEF KuserInv, GuardInv
<1>0. pc \in [Threads -> Labels] /\ result \in [Threads -> {"none", "Ok", "Conflict", "ApplyFailed"}]
  BY Zenon DEF PatchInv, LocalsOK
<1>1. PICK label \in {"acquire", "idle"} : pc' = [pc EXCEPT ![t] = label]
  BY Zenon DEF DropGuard
<1>2. /\ pc[t] \in {"returned", "drop"} /\ Holding(t)
      /\ \A u \in Threads \ {t} : pc'[u] = pc[u] /\ result'[u] = result[u]
      /\ pc'[t] = label /\ result'[t] = "none" /\ state' = state
      /\ owner' = "none" /\ pid' = pid
  BY <1>0, <1>1, Zenon DEF DropGuard, Holding
<1>3. PatchInv'
  BY <1>1, <1>2, OutsideKeeps, ZenonT(30) DEF DropGuard, Labels, PatchLabels, GuardLabels
<1>4. OwnerOK'
  <2>1. \A u \in Threads : ~Holding(u)'
    BY <1>2, Zenon DEF OwnerOK, GuardExcludes, Holding
  <2>2. GuardExcludes'
    BY <1>2, <2>1, Zenon DEF GuardExcludes, KuserTypeOK
  <2> QED
    BY <1>2, <2>2, Zenon DEF OwnerOK
<1>5. CutOffIsMarked'
  BY <1>2, HeldAtRest, Zenon DEF CutOffIsMarked, Working
<1>6. ResultOK' /\ SlotOK'
  BY <1>2, SlotKeeps DEF ResultOK, DropGuard, pageVars
<1>7. KuserTypeOK'
  BY DEF DropGuard, KuserTypeOK, pageVars, hackVars, slotVars
<1> QED
  BY <1>3, <1>4, <1>5, <1>6, <1>7, Zenon

(* patch() under the guard: it finds the state at rest, and leaves it so. *)
LEMMA PatchLoopKeeps ==
  ASSUME KuserInv, NEW t \in Threads, PatchLoop(t) \/ ApplyRecipe(t) \/ ApplyRestore(t)
  PROVE  KuserInv'
<1> USE DEF KuserInv, GuardInv
<1>0. /\ pc \in [Threads -> Labels] /\ recipe[t] \in Recipes
      /\ result \in [Threads -> {"none", "Ok", "Conflict", "ApplyFailed"}]
  BY Zenon DEF PatchInv, LocalsOK
<1>1. \/ Load(t) \/ Exchange(t) \/ ApplyBegin(t) \/ ApplyEnd(t) \/ Complete(t)
  BY Zenon DEF PatchLoop, ApplyRecipe, ApplyRestore
<1>2. PatchInv'
  BY <1>1, LoadKeeps, ExchangeKeeps, ApplyBeginKeeps, ApplyEndKeeps, CompleteKeeps, Zenon
<1>3. UNCHANGED guardVars /\ UNCHANGED jobVars /\ UNCHANGED slotVars
  BY Zenon DEF PatchLoop, ApplyRecipe, ApplyRestore, pageVars
<1>4. pc[t] \in {"load", "exchange", "applying", "writing", "complete"} /\ Holding(t)
  BY <1>1, Zenon DEF Load, Exchange, ApplyBegin, ApplyEnd, Complete, Holding
<1>5. /\ \A u \in Threads \ {t} : pc'[u] = pc[u] /\ result'[u] = result[u]
      /\ pc'[t] \in PatchLabels
      /\ pc'[t] # "returned" => result'[t] = result[t]
  <2>1. CASE Load(t)
    <3>1. CASE \E a \in {"Ok", "Conflict"} : Leave(t, a)
      BY <1>0, <3>1, SMTT(30) DEF Leave, PatchLabels
    <3>2. CASE UNCHANGED <<pc, result>>
      BY <1>4, <3>2, Zenon DEF PatchLabels
    <3>3. CASE LoadTransition(t)
      BY <1>0, <3>3, SMTT(30) DEF LoadTransition, PatchLabels
    <3> QED
      BY <2>1, <3>1, <3>2, <3>3, ZenonT(30) DEF Load, LoadReady, LoadWait, LoadConflict
  <2>2. CASE Exchange(t) \/ ApplyBegin(t) \/ ApplyEnd(t)
    BY <1>0, <2>2, Zenon DEF Exchange, ApplyBegin, ApplyEnd, PatchLabels
  <2>3. CASE Complete(t)
    <3>1. PICK a \in {"Ok", "ApplyFailed"} : Leave(t, a)
      BY <2>3, Zenon DEF Complete
    <3> QED
      BY <1>0, <3>1, SMTT(30) DEF Leave, PatchLabels
  <2> QED
    BY <1>1, <2>1, <2>2, <2>3, ZenonT(30)
<1>6. OwnerOK'
  BY <1>3, <1>4, <1>5, HolderKeeps, Zenon DEF guardVars, PatchLabels
<1>7. CutOffIsMarked'
  <2>1. CASE Load(t)
    BY <1>4, <2>1, HeldAtRest, SMTT(30) DEF Load, Working, CutOffIsMarked
  <2>2. CASE Exchange(t) /\ state # seen[t]
    BY <1>4, <2>2, HeldAtRest, SMTT(30) DEF Exchange, Working, CutOffIsMarked
  <2>3. CASE Exchange(t) /\ state = seen[t]
    BY <1>0, <2>3, Zenon DEF Exchange, Working, CutOffIsMarked
  <2>4. CASE ApplyBegin(t) \/ ApplyEnd(t)
    BY <1>0, <2>4, Zenon DEF ApplyBegin, ApplyEnd, Working, CutOffIsMarked
  <2>5. CASE Complete(t)
    BY <1>0, <2>5, StateKinds, ZenonT(30) DEF Complete, CutOffIsMarked, PatchInv, LoopOK, RestsAt
  <2> QED
    BY <1>1, <2>1, <2>2, <2>3, <2>4, <2>5, SMTT(30)
<1>8. ResultOK'
  BY <1>4, <1>5, ZenonT(30) DEF ResultOK
<1>9. SlotOK'
  BY <1>3, <1>5, SlotKeeps, Zenon DEF PatchLabels
<1>10. KuserTypeOK'
  <2>1. writable' \in BOOLEAN /\ system_call' \in BOOLEAN /\ hack_applied' \in BOOLEAN
    BY Zenon DEF PatchLoop, ApplyRecipe, ApplyRestore, KuserTypeOK, pageVars, hackVars
  <2> QED
    BY <1>3, <2>1, Zenon DEF KuserTypeOK, guardVars, jobVars, slotVars
<1> QED
  BY <1>2, <1>6, <1>7, <1>8, <1>9, <1>10, Zenon

(* A fork leaves the owner behind exactly when it cut a holder off. *)
LEMMA KuserForkKeeps ==
  ASSUME KuserInv, NEW t \in Threads, KuserFork(t)
  PROVE  KuserInv'
<1> USE DEF KuserInv, GuardInv
<1>1. PatchInv'
  BY ForkKeeps, Zenon DEF KuserFork
<1>2. /\ \A u \in Threads : pc'[u] = IF u = t THEN "idle" ELSE "gone"
      /\ \A u \in Threads : result'[u] = "none"
      /\ \E u \in Threads : u # t
      /\ state' = state
  BY Zenon DEF KuserFork, Fork
<1>3. pid = "parent" /\ pid' = "child" /\ owner' = owner /\ UNCHANGED slotVars
  BY Zenon DEF KuserFork, pageVars
<1>4. owner \in {"none", "parent"}
  BY <1>3, Zenon DEF OwnerOK, KuserTypeOK
<1>5. \A u \in Threads : ~Holding(u)'
  BY <1>2, Zenon DEF Holding
<1>6. GuardExcludes'
  BY <1>3, <1>4, <1>5, Zenon DEF GuardExcludes
<1>7. OwnerOK'
  BY <1>2, <1>3, <1>4, <1>6, Zenon DEF OwnerOK
<1>8. CutOffIsMarked'
  <2>1. \A u \in Threads : Working(u) => Holding(u)
    BY Zenon DEF Working, Holding
  <2>2. (\E u \in Threads : Working(u)) => owner = pid
    BY <2>1, Zenon DEF OwnerOK, GuardExcludes
  <2>3. \A u \in Threads : pc[u] # "recover"
    BY <1>3, Zenon DEF OwnerOK
  <2> QED
    BY <1>2, <1>3, <2>2, <2>3, Zenon DEF CutOffIsMarked
<1>9. ResultOK' /\ SlotOK'
  BY <1>2, <1>3, Zenon DEF ResultOK, SlotOK, BridgeForwardsToWine, slotVars
<1>10. KuserTypeOK'
  BY DEF KuserFork, KuserTypeOK, pageVars, hackVars, slotVars
<1> QED
  BY <1>1, <1>7, <1>8, <1>9, <1>10, Zenon

(* Wine fills its slot; nothing else moves. *)
LEMMA WineFillsKeeps ==
  ASSUME KuserInv, WineFillsSlot
  PROVE  KuserInv'
<1> USE DEF KuserInv, GuardInv
<1>1. PatchInv'
  BY NextKeeps, Zenon DEF WineFillsSlot, patchVars
<1>2. UNCHANGED <<pc, state, result, owner, pid>>
  BY Zenon DEF WineFillsSlot, patchVars, vars, threadVars, guardVars
<1>3. OwnerOK'
  BY <1>2, Zenon DEF OwnerOK, GuardExcludes, Holding
<1>4. CutOffIsMarked' /\ ResultOK'
  BY <1>2, Zenon DEF CutOffIsMarked, ResultOK, Working
<1>5. SlotOK'
  BY <1>2, Zenon DEF WineFillsSlot, SlotOK, BridgeForwardsToWine
<1>6. KuserTypeOK'
  BY DEF WineFillsSlot, KuserTypeOK, guardVars, jobVars, hackVars
<1> QED
  BY <1>1, <1>3, <1>4, <1>5, <1>6, Zenon

(* Nothing is installed, held or forked yet. *)
LEMMA KuserInitKeeps == KuserInit => KuserInv
<1> SUFFICES ASSUME KuserInit PROVE KuserInv
  BY Zenon
<1>1. PatchInv
  BY InitKeeps, Zenon DEF KuserInit
<1>2. \A t \in Threads : pc[t] = "idle" /\ result[t] = "none"
  BY Zenon DEF KuserInit, Init
<1>3. state.phase = "Unapplied"
  BY UnappliedKind, Zenon DEF KuserInit, Init
<1>4. OwnerOK
  BY <1>2, Zenon DEF KuserInit, OwnerOK, GuardExcludes, Holding
<1>5. CutOffIsMarked /\ ResultOK
  BY <1>2, <1>3, Zenon DEF CutOffIsMarked, ResultOK
<1>6. SlotOK
  BY <1>2, Zenon DEF KuserInit, SlotOK, BridgeForwardsToWine
<1>7. jobs \in 0..MaxJobs
  <2>1. MaxJobs \in Nat /\ jobs = 0
    BY KuserAssumption, PatchAssumption DEF KuserAssumption, PatchAssumption, KuserInit
  <2> QED
    BY ONLY <2>1
<1>8. KuserTypeOK
  BY <1>7, Zenon DEF KuserInit, KuserTypeOK
<1> QED
  BY <1>1, <1>4, <1>5, <1>6, <1>8, Zenon DEF KuserInv, GuardInv

(* Every step of the guarded runtime keeps the invariant. *)
LEMMA KuserNextKeeps == KuserInv /\ [KuserNext]_allVars => KuserInv'
<1> SUFFICES ASSUME KuserInv, [KuserNext]_allVars PROVE KuserInv'
  BY Zenon
<1>1. CASE UNCHANGED allVars
  <2>1. PatchInv'
    BY <1>1, NextKeeps, Zenon DEF allVars, patchVars, KuserInv
  <2>2. KuserTypeOK' /\ OwnerOK'
    BY <1>1, ZenonT(30) DEF KuserInv, GuardInv, allVars, patchVars, vars, threadVars, guardVars, jobVars,
       pageVars, hackVars, slotVars, KuserTypeOK, OwnerOK, GuardExcludes, Holding
  <2>3. CutOffIsMarked' /\ ResultOK' /\ SlotOK'
    BY <1>1, Zenon DEF KuserInv, GuardInv, allVars, patchVars, vars, threadVars, guardVars,
       pageVars, slotVars, CutOffIsMarked, Working, ResultOK, SlotOK, BridgeForwardsToWine
  <2> QED
    BY <2>1, <2>2, <2>3, Zenon DEF KuserInv, GuardInv
<1> QED
  BY <1>1, AcquireKeeps, RecoverPatchKeeps, EnterKeeps, DropKeeps, PatchLoopKeeps, GuardedWork,
     KuserForkKeeps, WineFillsKeeps, Zenon DEF KuserNext, KuserStep

(* The page, for any threads and any interleaving of patches, hack stores,     *)
(* installations, other holders and a fork: the guard has one live holder and  *)
(* patch() never has to wait under it; Ready tells what the page holds, Resume *)
(* does not return, and the bridge is in the slot only over Wine's dispatcher. *)
THEOREM GuardedPageIsSound ==
  KuserSpec => []( /\ GuardExcludes /\ GuardedPatchNeverWaits /\ BridgeForwardsToWine
                   /\ ReadyMeansPage /\ ResumeNeverReturns)
<1>1. KuserInv => GuardedPatchNeverWaits
  <2> SUFFICES ASSUME KuserInv, NEW t \in Threads, pc[t] = "load" PROVE state.phase # "Applying"
    BY Zenon DEF GuardedPatchNeverWaits
  <2>1. Holding(t) /\ ~Working(t)
    BY Zenon DEF Holding, Working
  <2> QED
    BY <2>1, HeldAtRest, Zenon DEF KuserInv, GuardInv
<1>2. KuserInv => GuardExcludes /\ BridgeForwardsToWine
  BY Zenon DEF KuserInv, GuardInv, OwnerOK, SlotOK
<1>3. KuserInv => ReadyMeansPage /\ ResumeNeverReturns
  BY Zenon DEF KuserInv, PatchInv, DispatchOK, ResumeNeverReturns
<1> QED
  BY KuserInitKeeps, KuserNextKeeps, <1>1, <1>2, <1>3, PTL DEF KuserSpec

-----------------------------------------------------------------------------
(* The guarded runtime implements PatchState.                                  *)

AbstractLabel(l) == IF l \in PatchLabels \cup {"gone"} THEN l ELSE "idle"

(* A thread that moves on moves on in the abstract state as well. *)
LEMMA AbstractMoves ==
  ASSUME pc \in [Threads -> Labels], NEW t \in Threads, NEW l \in Labels,
         pc' = [pc EXCEPT ![t] = l]
  PROVE  /\ AbstractPc[t] = AbstractLabel(pc[t])
         /\ AbstractPc' = [AbstractPc EXCEPT ![t] = AbstractLabel(l)]
  BY Zenon DEF AbstractPc, AbstractLabel, PatchLabels

(* A thread that stays outside patch() does not move. *)
LEMMA AbstractStays ==
  ASSUME pc \in [Threads -> Labels], NEW t \in Threads, NEW l \in Labels,
         pc' = [pc EXCEPT ![t] = l],
         pc[t] \notin PatchLabels \cup {"gone"}, l \notin PatchLabels \cup {"gone"}
  PROVE  AbstractPc' = AbstractPc
  BY Zenon DEF AbstractPc, PatchLabels

(* The operators of PatchState that do not mention pc are their own instances. *)
LEMMA SameOperators ==
  /\ \A r : Abstract!Failed(r) = Failed(r) /\ Abstract!Ready(r) = Ready(r) /\ Abstract!Applying(r) = Applying(r)
  /\ Abstract!Unapplied = Unapplied /\ Abstract!Recipes = Recipes
  /\ \A r : Abstract!MustWait(r) = MustWait(r)
  /\ \A r : Abstract!Foreign(r) = Foreign(r)
  /\ \A r : Abstract!MayTransition(r) = MayTransition(r)
  /\ \A ts : Abstract!Forget(ts) = Forget(ts)
  /\ \A s : Abstract!Recovered(s) = Recovered(s)
  BY Zenon DEF Abstract!Failed, Failed, Abstract!Ready, Ready, Abstract!Applying, Applying,
     Abstract!Unapplied, Unapplied, Abstract!Recipes, Recipes, Abstract!MustWait, MustWait,
     Abstract!Foreign, Foreign, Abstract!MayTransition, MayTransition, Abstract!Forget, Forget,
     Abstract!Recovered, Recovered

(* The steps of patch() itself. *)
LEMMA PatchSteps ==
  ASSUME KuserInv, NEW t \in Threads, PatchLoop(t) \/ ApplyRecipe(t) \/ ApplyRestore(t)
  PROVE  Abstract!Step(t)
<1>0. pc \in [Threads -> Labels]
  BY Zenon DEF KuserInv, PatchInv, LocalsOK
<1>1. ASSUME Load(t) PROVE Abstract!Load(t)
  <2>0. AbstractPc[t] = "load"
    BY <1>0, <1>1, Zenon DEF Load, AbstractPc
  <2>1. ASSUME NEW a, Leave(t, a) PROVE Abstract!Leave(t, a)
    <3>1. AbstractPc' = [AbstractPc EXCEPT ![t] = "returned"]
      BY <1>0, <2>1, AbstractMoves, ZenonT(30) DEF Leave, AbstractLabel, PatchLabels, Labels
    <3> QED
      BY <2>1, <3>1, SameOperators, Zenon DEF Leave, Abstract!Leave
  <2>2. CASE LoadReady(t)
    BY <1>1, <2>0, <2>1, <2>2, SameOperators, Zenon DEF Load, LoadReady, Abstract!Load, Abstract!LoadReady
  <2>3. CASE MustWait(recipe[t]) /\ waits[t] = PatchWaitLimit /\ Leave(t, "Conflict")
    BY <1>1, <2>0, <2>1, <2>3, SameOperators, ZenonT(30) DEF Load, Abstract!Load, Abstract!LoadWait
  <2>4. CASE /\ MustWait(recipe[t]) /\ waits[t] < PatchWaitLimit
             /\ waits' = [waits EXCEPT ![t] = @ + 1]
             /\ UNCHANGED <<pc, recipe, seen, completion, applied, result, dispatched>>
    <3>1. AbstractPc' = AbstractPc
      BY <2>4, ZenonT(30) DEF AbstractPc
    <3> QED
      BY <1>1, <2>0, <2>4, <3>1, SameOperators, ZenonT(30) DEF Load, Abstract!Load, Abstract!LoadWait
  <2>5. CASE LoadConflict(t)
    BY <1>1, <2>0, <2>1, <2>5, SameOperators, ZenonT(30) DEF Load, LoadConflict, Abstract!Load, Abstract!LoadConflict
  <2>6. CASE LoadTransition(t)
    <3>1. AbstractPc' = [AbstractPc EXCEPT ![t] = "exchange"]
      BY <1>0, <2>6, AbstractMoves, Zenon DEF LoadTransition, AbstractLabel, PatchLabels, Labels
    <3> QED
      BY <1>1, <2>0, <2>6, <3>1, SameOperators, Zenon DEF Load, LoadTransition, Abstract!Load, Abstract!LoadTransition
  <2> QED
    BY <1>1, <2>2, <2>3, <2>4, <2>5, <2>6, Zenon DEF Load, LoadWait
<1>2. ASSUME Exchange(t) PROVE Abstract!Exchange(t)
  <2>1. \A l \in Labels : pc' = [pc EXCEPT ![t] = l] =>
           AbstractPc[t] = AbstractLabel(pc[t]) /\ AbstractPc' = [AbstractPc EXCEPT ![t] = AbstractLabel(l)]
    BY <1>0, AbstractMoves, ZenonT(30)
  <2>2. AbstractPc[t] = "exchange"
    BY <1>0, <1>2, Zenon DEF Exchange, AbstractPc
  <2> QED
    BY <1>2, <2>1, <2>2, SameOperators, Zenon
       DEF Exchange, Abstract!Exchange, Abstract!histories, histories, AbstractLabel, PatchLabels, Labels
<1>3. ASSUME ApplyBegin(t) PROVE Abstract!ApplyBegin(t)
  <2>1. \A l \in Labels : pc' = [pc EXCEPT ![t] = l] =>
           AbstractPc[t] = AbstractLabel(pc[t]) /\ AbstractPc' = [AbstractPc EXCEPT ![t] = AbstractLabel(l)]
    BY <1>0, AbstractMoves, Zenon
  <2>2. AbstractPc[t] = "applying"
    BY <1>0, <1>3, Zenon DEF ApplyBegin, AbstractPc
  <2> QED
    BY <1>3, <2>1, <2>2, Zenon
       DEF ApplyBegin, Abstract!ApplyBegin, Abstract!histories, histories, AbstractLabel, PatchLabels, Labels
<1>4. ASSUME ApplyEnd(t) PROVE Abstract!ApplyEnd(t)
  <2>1. /\ AbstractPc[t] = "writing"
        /\ AbstractPc' = [AbstractPc EXCEPT ![t] = "complete"]
    BY <1>0, <1>4, AbstractMoves, ZenonT(30) DEF ApplyEnd, AbstractLabel, PatchLabels, Labels
  <2> QED
    BY <1>4, <2>1, Zenon DEF ApplyEnd, Abstract!ApplyEnd
<1>5. ASSUME Complete(t) PROVE Abstract!Complete(t)
  <2>1. /\ AbstractPc[t] = "complete"
        /\ AbstractPc' = [AbstractPc EXCEPT ![t] = "returned"]
    BY <1>0, <1>5, AbstractMoves, Zenon DEF Complete, Leave, AbstractLabel, PatchLabels, Labels
  <2> QED
    BY <1>5, <2>1, SameOperators, Zenon DEF Complete, Leave, Abstract!Complete, Abstract!Leave
<1> QED
  BY <1>1, <1>2, <1>3, <1>4, <1>5, Zenon DEF PatchLoop, ApplyRecipe, ApplyRestore, Abstract!Step

(* A fork of the runtime is a fork of PatchState: the writer is the same one. *)
LEMMA ForkStep ==
  ASSUME KuserInv, NEW t \in Threads, KuserFork(t)
  PROVE  Abstract!Fork(t)
<1>0. pc \in [Threads -> Labels]
  BY Zenon DEF KuserInv, PatchInv, LocalsOK
<1>1. \A u \in Threads : AbstractPc[u] = "writing" <=> pc[u] = "writing"
  BY Zenon DEF AbstractPc
<1>2. Abstract!ForkedPage = ForkedPage
  <2>1. CASE \E u \in Threads : pc[u] = "writing"
    <3>1. PICK u \in Threads : pc[u] = "writing"
      BY <2>1, Zenon
    <3>2. \A v \in Threads : pc[v] = "writing" => v = u
      BY <3>1, Zenon DEF KuserInv, PatchInv, OneApplier, Working
    <3>3. (CHOOSE v \in Threads : pc[v] = "writing") = u
      BY <3>1, <3>2, Zenon
    <3>4. (CHOOSE v \in Threads : AbstractPc[v] = "writing") = u
      BY <1>1, <3>1, <3>2, Zenon
    <3> QED
      BY <1>1, <3>1, <3>3, <3>4, ZenonT(30) DEF ForkedPage, Abstract!ForkedPage
  <2>2. CASE ~ \E u \in Threads : pc[u] = "writing"
    BY <1>1, <2>2, Zenon DEF ForkedPage, Abstract!ForkedPage
  <2> QED
    BY <2>1, <2>2, Zenon
<1>3. AbstractPc[t] = "idle" /\ \E u \in Threads \ {t} : AbstractPc[u] # "gone"
  BY Zenon DEF AbstractPc, KuserFork, Fork
<1>4. AbstractPc' = [u \in Threads |-> IF u = t THEN "idle" ELSE "gone"]
  <2>1. pc' = [u \in Threads |-> IF u = t THEN "idle" ELSE "gone"]
    BY Zenon DEF KuserFork, Fork
  <2> QED
    BY <2>1, Zenon DEF AbstractPc
<1> QED
  BY <1>2, <1>3, <1>4, SameOperators, ZenonT(30) DEF KuserFork, Fork, Abstract!Fork, Abstract!histories, histories

(* Steps outside patch() are no steps of PatchState, apart from the entry, the *)
(* return and the recovery.                                                    *)
LEMMA OuterSteps ==
  ASSUME KuserInv, NEW t \in Threads,
         BeginJob(t) \/ (KuserStep(t) /\ ~PatchLoop(t) /\ ~ApplyRecipe(t) /\ ~ApplyRestore(t))
  PROVE  Abstract!Begin(t) \/ Abstract!Return(t) \/ Abstract!Recover(t) \/ UNCHANGED Abstract!vars
<1> USE DEF KuserInv
<1>0. pc \in [Threads -> Labels] /\ result \in [Threads -> {"none", "Ok", "Conflict", "ApplyFailed"}]
  BY Zenon DEF PatchInv, LocalsOK
<1>1. ASSUME NEW l \in {"idle"} \cup GuardLabels, Goto(t, l), pc[t] \in {"idle"} \cup GuardLabels
      PROVE  UNCHANGED Abstract!vars
  <2>1. AbstractPc' = AbstractPc
    BY <1>0, <1>1, AbstractStays, ZenonT(30) DEF Goto, Labels, GuardLabels, PatchLabels
  <2> QED
    BY <1>1, <2>1, Zenon DEF Goto, Abstract!vars, Abstract!threadVars, Abstract!histories, histories
<1>2. CASE BeginJob(t) \/ Acquire(t)
  <2>1. PICK l \in {"idle", "acquire", "enter", "recover"} : Goto(t, l)
    BY <1>2, SMTT(30) DEF BeginJob, Acquire
  <2> QED
    BY <1>1, <1>2, <2>1, SMTT(30) DEF BeginJob, Acquire, GuardLabels
<1>3. CASE ForceDirect(t) \/ ForceRestore(t) \/ InstallUnlock(t) \/ OtherHolder(t)
  <2>1. PICK l \in {"drop", "force_restore", "swap"} : Goto(t, l)
    BY <1>3, SMTT(30) DEF ForceDirect, ForceRestore, InstallUnlock, OtherHolder
  <2> QED
    BY <1>1, <1>3, <2>1, Zenon DEF ForceDirect, ForceRestore, InstallUnlock, OtherHolder, GuardLabels
<1>4. CASE SaveOriginal(t) \/ SwapSlot(t) \/ SealSlot(t)
  <2>1. PICK l \in {"drop", "swap_slot", "seal"} : Goto(t, l)
    BY <1>4, SMTT(30) DEF SaveOriginal, SwapSlot, SealSlot
  <2> QED
    BY <1>1, <1>4, <2>1, Zenon DEF SaveOriginal, SwapSlot, SealSlot, GuardLabels
<1>5. CASE Enter(t)
  <2>1. CASE \E l \in {"force", "install", "other"} : Goto(t, l)
    BY <1>1, <1>5, <2>1, Zenon DEF Enter, GuardLabels
  <2>2. CASE \E r \in Recipes : StartPatch(t, r, "load")
    <3>1. PICK r \in Recipes : StartPatch(t, r, "load")
      BY <2>2, Zenon
    <3>2. AbstractPc[t] = "idle" /\ AbstractPc' = [AbstractPc EXCEPT ![t] = "load"]
      BY <1>0, <1>5, <3>1, AbstractMoves, Zenon DEF Enter, StartPatch, AbstractLabel, PatchLabels, Labels
    <3>3. Abstract!StartPatch(t, r, "load")
      BY <3>1, <3>2, SameOperators, ZenonT(30) DEF StartPatch, Abstract!StartPatch, Abstract!histories, histories
    <3> QED
      BY <3>1, <3>2, <3>3, SameOperators, Zenon DEF Abstract!Begin
  <2> QED
    BY <1>5, <2>1, <2>2, SMTT(30) DEF Enter
<1>6. CASE DropGuard(t)
  <2>1. PICK l \in {"idle", "acquire"} : pc' = [pc EXCEPT ![t] = l]
    BY <1>6, Zenon DEF DropGuard
  <2>2. CASE pc[t] = "returned"
    <3>1. AbstractPc[t] = "returned" /\ AbstractPc' = [AbstractPc EXCEPT ![t] = "idle"]
      BY <1>0, <2>1, <2>2, AbstractMoves, ZenonT(30) DEF AbstractLabel, PatchLabels, Labels, GuardLabels
    <3> QED
      BY <1>6, <3>1, Zenon DEF DropGuard, Abstract!Return, Abstract!histories, histories
  <2>3. CASE pc[t] = "drop"
    <3>1. AbstractPc' = AbstractPc
      BY <1>0, <2>1, <2>3, AbstractStays, ZenonT(30) DEF PatchLabels, Labels, GuardLabels
    <3>2. result[t] = "none"
      BY <2>3, ZenonT(30) DEF GuardInv, ResultOK
    <3>3. result' = result
      BY <1>0, <1>6, <3>2, Zenon DEF DropGuard
    <3> QED
      BY <1>6, <3>1, <3>3, Zenon DEF DropGuard, Abstract!vars, Abstract!threadVars, Abstract!histories, histories
  <2> QED
    BY <1>6, <2>2, <2>3, Zenon DEF DropGuard
<1>7. CASE RecoverPatch(t)
  <2>1. AbstractPc[t] = "idle" /\ AbstractPc' = AbstractPc
    BY <1>0, <1>7, AbstractStays, AbstractMoves, Zenon
       DEF RecoverPatch, AbstractLabel, PatchLabels, Labels, GuardLabels
  <2>2. CASE state.phase # "Applying"
    <3>1. state' = state
      BY <1>7, <2>2, SMTT(30) DEF RecoverPatch, Recovered
    <3> QED
      BY <1>7, <2>1, <3>1, Zenon DEF RecoverPatch, Abstract!vars, Abstract!threadVars, Abstract!histories, histories
  <2>3. CASE state.phase = "Applying"
    <3>1. (\A u \in Threads : ~Working(u)) /\ pid = "child"
      BY <1>7, RecoverPatchKeeps, Zenon
    <3>2. \A u \in Threads : ~Abstract!Working(u)
      BY <3>1, Zenon DEF Working, Abstract!Working, AbstractPc
    <3>3. \E u \in Threads : AbstractPc[u] = "gone"
      BY <3>1, Zenon DEF GuardInv, OwnerOK, AbstractPc
    <3> QED
      BY <1>7, <2>1, <2>3, <3>2, <3>3, SameOperators, Zenon
         DEF RecoverPatch, Abstract!Recover, Abstract!threadVars, Abstract!histories, histories
  <2> QED
    BY <2>2, <2>3, Zenon
<1> QED
  BY <1>2, <1>3, <1>4, <1>5, <1>6, <1>7, Zenon DEF KuserStep

(* The guarded runtime, seen through its threads inside patch(), is PatchState: *)
(* the guard, the recovery by the next owner of a stale guard and the fork add *)
(* no behaviour that patch() on its own does not have.                         *)
THEOREM GuardedPageImplementsPatchState == KuserSpec => ImplementsPatchState
<1>1. KuserInit => Abstract!Init
  <2> SUFFICES ASSUME KuserInit PROVE Abstract!Init
    BY Zenon
  <2>1. AbstractPc = [t \in Threads |-> "idle"]
    BY Zenon DEF KuserInit, Init, AbstractPc
  <2> QED
    BY <2>1, SameOperators, Zenon DEF KuserInit, Init, Abstract!Init
<1>2. KuserInv /\ [KuserNext]_allVars => [Abstract!Next]_(Abstract!vars)
  <2> SUFFICES ASSUME KuserInv, [KuserNext]_allVars PROVE [Abstract!Next]_(Abstract!vars)
    BY Zenon
  <2>1. CASE UNCHANGED patchVars
    BY <2>1, Zenon DEF patchVars, vars, threadVars, histories, AbstractPc, Abstract!vars, Abstract!threadVars, Abstract!histories
  <2>2. ASSUME NEW t \in Threads, BeginJob(t) \/ KuserStep(t) PROVE [Abstract!Next]_(Abstract!vars)
    <3>1. CASE PatchLoop(t) \/ ApplyRecipe(t) \/ ApplyRestore(t)
      <4>1. Abstract!Step(t)
        BY <3>1, PatchSteps, Zenon
      <4> QED
        BY <4>1, Zenon DEF Abstract!Next
    <3>2. CASE ~PatchLoop(t) /\ ~ApplyRecipe(t) /\ ~ApplyRestore(t)
      <4>1. Abstract!Begin(t) \/ Abstract!Return(t) \/ Abstract!Recover(t) \/ UNCHANGED Abstract!vars
        BY <2>2, <3>2, OuterSteps, Zenon
      <4> QED
        BY <4>1, Zenon DEF Abstract!Next, Abstract!Step
    <3> QED
      BY <3>1, <3>2, Zenon
  <2>3. ASSUME NEW t \in Threads, KuserFork(t) PROVE [Abstract!Next]_(Abstract!vars)
    BY <2>3, ForkStep, Zenon DEF Abstract!Next
  <2> QED
    BY <2>1, <2>2, <2>3, Zenon DEF KuserNext, WineFillsSlot, allVars
<1> QED
  BY KuserInitKeeps, KuserNextKeeps, <1>1, <1>2, PTL DEF KuserSpec, ImplementsPatchState, Abstract!Spec

-----------------------------------------------------------------------------
(* Both kinds of caller at once, as they are model-checked.                    *)

MCInv ==
  /\ guarded \in BOOLEAN
  /\ PatchInv
  /\ guarded => GuardInv
  /\ ~guarded => PlainPc

(* One thread writes the page: with the guard because it excludes, without it  *)
(* because the exchange of patch() admits one.                                 *)
THEOREM OneWriter == MCFairSpec => []PageHasOneWriter
<1>1. MCInit => MCInv
  <2> SUFFICES ASSUME MCInit PROVE MCInv
    BY Zenon
  <2>1. KuserInv
    BY KuserInitKeeps, Zenon DEF MCInit
  <2>2. PlainPc
    BY Zenon DEF MCInit, KuserInit, Init, PlainPc
  <2>3. guarded \in BOOLEAN
    BY Zenon DEF MCInit
  <2> QED
    BY <2>1, <2>2, <2>3, Zenon DEF MCInv, KuserInv
<1>2. MCInv /\ [MCNext]_mcVars => MCInv'
  <2> SUFFICES ASSUME MCInv, [MCNext]_mcVars PROVE MCInv'
    BY Zenon
  <2>0. guarded' = guarded
    BY Zenon DEF MCNext, mcVars
  <2>1. CASE guarded
    <3>1. [KuserNext]_allVars
      BY <2>1, Zenon DEF MCNext, mcVars
    <3>2. KuserInv'
      BY <2>1, <3>1, KuserNextKeeps, Zenon DEF MCInv, KuserInv
    <3> QED
      BY <2>0, <2>1, <3>2, Zenon DEF MCInv, KuserInv
  <2>2. CASE ~guarded
    <3>1. [Next]_vars
      BY <2>2, Zenon DEF MCNext, mcVars, allVars, patchVars
    <3>2. PatchInv' /\ PlainPc'
      BY <2>2, <3>1, NextKeeps, PlainKeeps, Zenon DEF MCInv
    <3> QED
      BY <2>0, <2>2, <3>2, Zenon DEF MCInv
  <2> QED
    BY <2>1, <2>2, Zenon
<1>3. MCInv => PageHasOneWriter
  <2> SUFFICES ASSUME MCInv PROVE PageHasOneWriter
    BY Zenon
  <2>1. OneApplier
    BY Zenon DEF MCInv, PatchInv
  <2>2. ASSUME guarded PROVE KuserTypeOK /\ GuardExcludes /\ GuardedPatchNeverWaits
    <3>1. KuserTypeOK /\ OwnerOK /\ CutOffIsMarked
      BY <2>2, Zenon DEF MCInv, GuardInv
    <3>2. GuardedPatchNeverWaits
      BY <3>1, HeldAtRest, Zenon DEF GuardedPatchNeverWaits, Holding, Working
    <3> QED
      BY <3>1, <3>2, Zenon DEF OwnerOK
  <2>3. ASSUME ~guarded PROVE TypeOK
    <3>1. pc \in [Threads -> {"idle", "gone", "load", "exchange", "applying", "writing",
                              "complete", "returned"}]
      BY <2>3, Zenon DEF MCInv, PatchInv, LocalsOK, PlainPc, PatchLabels
    <3> QED
      BY <3>1, Zenon DEF MCInv, PatchInv, LocalsOK, SharedOK, TypeOK
  <2> QED
    BY <2>1, <2>2, <2>3, Zenon DEF PageHasOneWriter
<1> QED
  BY <1>1, <1>2, <1>3, PTL DEF MCFairSpec

(* A late resume registration does not undo a promotion: patch() of Resume     *)
(* starts from no other recipe, so once a Dispatch or Selector patch succeeded *)
(* it does not return, whether the callers of patch() take the page guard or   *)
(* not.                                                                        *)
THEOREM ResumeIsFinal ==
  (Spec => []ResumeNeverReturns) /\ (KuserSpec => []ResumeNeverReturns)
<1>1. PatchInv => ResumeNeverReturns
  BY Zenon DEF PatchInv, DispatchOK, ResumeNeverReturns
<1>2. KuserInv => PatchInv
  BY Zenon DEF KuserInv
<1>3. Spec => []ResumeNeverReturns
  BY InitKeeps, NextKeeps, <1>1, PTL DEF Spec
<1>4. KuserSpec => []ResumeNeverReturns
  BY KuserInitKeeps, KuserNextKeeps, <1>1, <1>2, PTL DEF KuserSpec
<1> QED
  BY <1>3, <1>4, Zenon
=============================================================================
