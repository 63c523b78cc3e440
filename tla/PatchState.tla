----------------------------- MODULE PatchState -----------------------------
(***************************************************************************)
(* PatchState of protocol/kuser.rs: one atomic that remembers which KUSER   *)
(* recipe was applied, is being applied or failed, and patch(), which any    *)
(* number of threads may call.  The closure patch() runs between its         *)
(* winning compare_exchange and the completion guard is abstracted to what   *)
(* it does to the page: nothing, or a write that takes time.  Module         *)
(* KuserPage gives the runtime's closure and shows that it fits.             *)
(***************************************************************************)
EXTENDS Naturals, FiniteSets

CONSTANTS
  Threads,
  PatchWaitLimit,   \* PATCH_WAIT_LIMIT
  MaxPatches,       \* bound: calls of patch in a behaviour
  MayFork           \* whether the process may fork

ASSUME PatchAssumption ==
  /\ PatchWaitLimit \in Nat
  /\ MaxPatches \in Nat
  /\ MayFork \in BOOLEAN

Recipes == {"Resume", "Dispatch", "Selector"}
Unapplied == [phase |-> "Unapplied", recipe |-> "None"]
Applying(r) == [phase |-> "Applying", recipe |-> r]
Ready(r) == [phase |-> "Ready", recipe |-> r]
Failed(r) == [phase |-> "Failed", recipe |-> r]
States == {Unapplied} \cup [phase : {"Applying", "Ready", "Failed"}, recipe : Recipes]

VARIABLES
  state,        \* PatchState.0
  page,         \* the recipe the shared page holds, "None" or "Partial"
  pc,           \* where each thread is in patch()
  recipe,       \* patch's argument
  seen,         \* the state loaded at the top of the loop
  completion,   \* completion_state
  waits,
  applied,      \* what apply() returned
  result,       \* what patch() returned
  patches,      \* calls of patch begun (bounded by MaxPatches)
  dispatched,   \* history: some Dispatch or Selector patch returned Ok
  unsealed      \* history: some apply() wrote the page and still failed

threadVars == <<pc, recipe, seen, completion, waits, applied, result>>
histories == <<dispatched, unsealed>>
vars == <<state, page, threadVars, patches, histories>>

Init ==
  /\ state = Unapplied
  /\ page = "None"
  /\ pc = [t \in Threads |-> "idle"]
  /\ recipe = [t \in Threads |-> "Resume"]
  /\ seen = [t \in Threads |-> Unapplied]
  /\ completion = [t \in Threads |-> Failed("Resume")]
  /\ waits = [t \in Threads |-> 0]
  /\ applied = [t \in Threads |-> FALSE]
  /\ result = [t \in Threads |-> "none"]
  /\ patches = 0
  /\ dispatched = FALSE
  /\ unsealed = FALSE

(* The locals of threads that are outside patch() have their initial values. *)
Forget(ts) ==
  /\ recipe' = [t \in Threads |-> IF t \in ts THEN "Resume" ELSE recipe[t]]
  /\ seen' = [t \in Threads |-> IF t \in ts THEN Unapplied ELSE seen[t]]
  /\ completion' = [t \in Threads |-> IF t \in ts THEN Failed("Resume") ELSE completion[t]]
  /\ waits' = [t \in Threads |-> IF t \in ts THEN 0 ELSE waits[t]]
  /\ applied' = [t \in Threads |-> IF t \in ts THEN FALSE ELSE applied[t]]

(* patch(recipe): completion_state starts as the recipe's failed state. *)
StartPatch(t, r, first) ==
  /\ patches < MaxPatches
  /\ patches' = patches + 1
  /\ pc' = [pc EXCEPT ![t] = first]
  /\ recipe' = [recipe EXCEPT ![t] = r]
  /\ completion' = [completion EXCEPT ![t] = Failed(r)]
  /\ UNCHANGED <<state, page, seen, waits, applied, result, histories>>

Begin(t) ==
  /\ pc[t] = "idle"
  /\ \E r \in Recipes : StartPatch(t, r, "load")

(* Leave patch() with an answer; the caller goes on from "returned".  The      *)
(* locals are gone with the call.                                              *)
Leave(t, answer) ==
  /\ pc' = [pc EXCEPT ![t] = "returned"]
  /\ result' = [result EXCEPT ![t] = answer]
  /\ dispatched' = (dispatched \/ (answer = "Ok" /\ recipe[t] # "Resume"))
  /\ Forget({t})

(* The four ways the loop classifies the state it loaded. *)
MustWait(r) ==
  \/ state \in {Applying("Dispatch"), Applying("Selector")}
  \/ state = Applying(r)
Foreign(r) == state # Unapplied /\ state.recipe # r

(* Mutant: Resume may replace another recipe as well. *)
MayAlwaysTransition(r) == state.phase \in {"Ready", "Failed"}

MayTransition(r) == r # "Resume" /\ state.phase \in {"Ready", "Failed"}

LoadReady(t) ==
  /\ state = Ready(recipe[t])
  /\ Leave(t, "Ok")

LoadWait(t) ==
  /\ MustWait(recipe[t])
  /\ \/ /\ waits[t] = PatchWaitLimit
        /\ Leave(t, "Conflict")
     \/ /\ waits[t] < PatchWaitLimit
        /\ waits' = [waits EXCEPT ![t] = @ + 1]
        /\ UNCHANGED <<pc, recipe, seen, completion, applied, result, dispatched>>

LoadConflict(t) ==
  /\ ~MustWait(recipe[t])
  /\ Foreign(recipe[t])
  /\ ~MayTransition(recipe[t])
  /\ Leave(t, "Conflict")

(* A foreign state that may be replaced is also what a failure falls back to. *)
LoadTransition(t) ==
  /\ ~MustWait(recipe[t])
  /\ state # Ready(recipe[t])
  /\ Foreign(recipe[t]) => MayTransition(recipe[t])
  /\ pc' = [pc EXCEPT ![t] = "exchange"]
  /\ seen' = [seen EXCEPT ![t] = state]
  /\ completion' = [completion EXCEPT ![t] = IF Foreign(recipe[t]) THEN state ELSE @]
  /\ UNCHANGED <<recipe, waits, applied, result, dispatched>>

Load(t) ==
  /\ pc[t] = "load"
  /\ LoadReady(t) \/ LoadWait(t) \/ LoadConflict(t) \/ LoadTransition(t)
  /\ UNCHANGED <<state, page, patches, unsealed>>

Exchange(t) ==
  /\ pc[t] = "exchange"
  /\ \/ /\ state = seen[t]
        /\ state' = Applying(recipe[t])
        /\ pc' = [pc EXCEPT ![t] = "applying"]
     \/ /\ state # seen[t]
        /\ pc' = [pc EXCEPT ![t] = "load"]
        /\ UNCHANGED state
  /\ UNCHANGED <<page, recipe, seen, completion, waits, applied, result, patches, histories>>

(* apply() fails before it writes, or starts to write. *)
ApplyBegin(t) ==
  /\ pc[t] = "applying"
  /\ \/ /\ pc' = [pc EXCEPT ![t] = "complete"]
        /\ applied' = [applied EXCEPT ![t] = FALSE]
        /\ UNCHANGED page
     \/ /\ pc' = [pc EXCEPT ![t] = "writing"]
        /\ page' = "Partial"
        /\ UNCHANGED applied
  /\ UNCHANGED <<state, recipe, seen, completion, waits, result, patches, histories>>

(* The recipe is in the page; apply() still fails when the page cannot be     *)
(* made read-only again.                                                     *)
ApplyEnd(t) ==
  /\ pc[t] = "writing"
  /\ page' = recipe[t]
  /\ pc' = [pc EXCEPT ![t] = "complete"]
  /\ \E ok \in BOOLEAN :
       /\ applied' = [applied EXCEPT ![t] = ok]
       /\ unsealed' = (unsealed \/ ~ok)
  /\ UNCHANGED <<state, recipe, seen, completion, waits, result, patches, dispatched>>

(* Mutant: the completion is Ready whatever apply() answered. *)
CompleteAlwaysReady(t) ==
  /\ pc[t] = "complete"
  /\ state' = Ready(recipe[t])
  /\ Leave(t, IF applied[t] THEN "Ok" ELSE "ApplyFailed")
  /\ UNCHANGED <<page, patches, unsealed>>

(* Completion::drop. *)
Complete(t) ==
  /\ pc[t] = "complete"
  /\ state' = IF applied[t] THEN Ready(recipe[t]) ELSE completion[t]
  /\ Leave(t, IF applied[t] THEN "Ok" ELSE "ApplyFailed")
  /\ UNCHANGED <<page, patches, unsealed>>

Return(t) ==
  /\ pc[t] = "returned"
  /\ pc' = [pc EXCEPT ![t] = "idle"]
  /\ result' = [result EXCEPT ![t] = "none"]
  /\ UNCHANGED <<state, page, recipe, seen, completion, waits, applied, patches, histories>>

Working(t) == pc[t] \in {"applying", "writing", "complete"}

(* recover_after_fork, for use when the thread that was applying is gone. *)
Recovered(s) == IF s.phase = "Applying" THEN Failed(s.recipe) ELSE s

Recover(t) ==
  /\ pc[t] = "idle"
  /\ \E u \in Threads : pc[u] = "gone"
  /\ \A u \in Threads : ~Working(u)
  /\ state.phase = "Applying"
  /\ state' = Recovered(state)
  /\ UNCHANGED <<page, threadVars, patches, histories>>

(* A fork, seen from the child: only the calling thread exists.  A write the  *)
(* parent was doing to the shared page is finished by the parent.            *)
ForkedPage ==
  IF \E u \in Threads : pc[u] = "writing"
  THEN recipe[CHOOSE u \in Threads : pc[u] = "writing"] ELSE page

Fork(t) ==
  /\ MayFork
  /\ pc[t] = "idle"
  /\ \E u \in Threads \ {t} : pc[u] # "gone"
  /\ pc' = [u \in Threads |-> IF u = t THEN "idle" ELSE "gone"]
  /\ page' = ForkedPage
  /\ Forget(Threads) /\ result' = [u \in Threads |-> "none"]
  /\ UNCHANGED <<state, patches, histories>>

Step(t) ==
  Load(t) \/ Exchange(t) \/ ApplyBegin(t) \/ ApplyEnd(t) \/ Complete(t) \/ Return(t)

Next == \E t \in Threads : Begin(t) \/ Step(t) \/ Recover(t) \/ Fork(t)

Spec == Init /\ [][Next]_vars

(* A thread inside patch() keeps running: its waits are sched_yield calls. *)
FairSpec == Spec /\ \A t \in Threads : WF_vars(Step(t))

-----------------------------------------------------------------------------
(* Properties *)

(* The type of every variable. *)
TypeOK ==
  /\ state \in States
  /\ page \in Recipes \cup {"None", "Partial"}
  /\ pc \in [Threads -> {"idle", "gone", "load", "exchange", "applying", "writing",
                         "complete", "returned"}]
  /\ recipe \in [Threads -> Recipes]
  /\ seen \in [Threads -> States]
  /\ completion \in [Threads -> States]
  /\ waits \in [Threads -> 0..PatchWaitLimit]
  /\ applied \in [Threads -> BOOLEAN]
  /\ result \in [Threads -> {"none", "Ok", "Conflict", "ApplyFailed"}]
  /\ patches \in 0..MaxPatches
  /\ dispatched \in BOOLEAN
  /\ unsealed \in BOOLEAN

(* The winning exchange makes its thread the only writer of the page until    *)
(* the completion guard is dropped, and the state names the recipe it writes.*)
OneApplier ==
  /\ \A t, u \in Threads : Working(t) /\ Working(u) => t = u
  /\ \A t \in Threads : Working(t) => state = Applying(recipe[t])

(* The state "tracks which recipe (if any) has been applied to the live       *)
(* shared page": Ready(r) means the page holds recipe r, through failed      *)
(* attempts that fall back to the state before them.  The one exception is   *)
(* an apply() that wrote the page and failed to make it read-only again: it  *)
(* too falls back to the earlier state.                                      *)
ReadyMeansPage == state.phase = "Ready" => page = state.recipe \/ unsealed

(* Once a Dispatch or Selector patch succeeded no later Resume request, and   *)
(* no failed attempt, brings the Resume recipe back to the page.             *)
ResumeNeverReturns == dispatched => page # "Resume"

(* Every patch() call returns, also in a forked child whose applying thread   *)
(* does not exist and whose state nobody recovered.                          *)
EveryPatchReturns ==
  \A t \in Threads : pc[t] \notin {"idle", "gone"} ~> pc[t] \in {"idle", "gone"}
=============================================================================
