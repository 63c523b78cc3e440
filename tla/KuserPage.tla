----------------------------- MODULE KuserPage ------------------------------
(***************************************************************************)
(* The runtime around PatchState: the PageGuard try-lock of page_guard.rs,   *)
(* the live KUSER page of runtime/src/kuser.rs (recipe, SystemCall flag,     *)
(* protection), the dispatcher slot of syscall/kuser_dispatch.rs::install,   *)
(* and a fork in the middle of any of it.                                    *)
(*                                                                         *)
(* A job is one entry into this code: a recipe patch, the LINUWUX_SYSCALL_HACK*)
(* store, a bridge installation, or another holder of the guard (the fake    *)
(* clock and the int 2e patcher).                                            *)
(***************************************************************************)
EXTENDS PatchState

CONSTANTS
  MaxJobs,        \* bound: jobs begun in a behaviour
  HackEnabled     \* syscall_hack_enabled()

ASSUME KuserAssumption ==
  /\ MaxJobs \in 0..MaxPatches   \* a job calls patch once at most
  /\ HackEnabled \in BOOLEAN

VARIABLES
  owner,          \* OWNER: "none", or the pid that holds the guard
  pid,            \* getpid(): "parent", then "child" after a fork
  job,            \* what each thread is doing
  jobs,           \* jobs begun (bounded by MaxJobs)
  writable,       \* the KUSER page is writable in this process
  system_call,    \* KUSER_SHARED_DATA.SystemCall is nonzero
  hack_applied,   \* SYSCALL_HACK_APPLIED
  slot,           \* Wine's dispatcher slot: "empty", "wine" or "bridge"
  slot_writable,  \* the slot's page is writable
  original,       \* ORIGINAL_DISPATCHER
  installed       \* BRIDGE_INSTALLED

hackVars == <<system_call, hack_applied>>
slotVars == <<slot, slot_writable, original, installed>>
jobVars == <<job, jobs>>
guardVars == <<owner, pid>>
patchVars == vars
pageVars == <<writable, hackVars, slotVars>>
allVars == <<patchVars, guardVars, jobVars, pageVars>>

KuserInit ==
  /\ Init
  /\ owner = "none"
  /\ pid = "parent"
  /\ job = [t \in Threads |-> "none"]
  /\ jobs = 0
  /\ writable = FALSE
  /\ system_call = TRUE
  /\ hack_applied = FALSE
  /\ slot \in {"empty", "wine"}
  /\ slot_writable = FALSE
  /\ original = "none"
  /\ installed = FALSE

(* Steps that only move the program counter of t. *)
Goto(t, label) ==
  /\ pc' = [pc EXCEPT ![t] = label]
  /\ UNCHANGED <<state, page, recipe, seen, completion, waits, applied, result,
                 patches, histories>>

(* force_direct_syscall and install first look without the guard. *)
BeginJob(t) ==
  /\ pc[t] = "idle"
  /\ jobs < MaxJobs
  /\ jobs' = jobs + 1
  /\ \E j \in {"patch", "force", "install", "other"} :
       LET needed == (j = "force" => HackEnabled /\ ~hack_applied) /\ (j = "install" => ~installed) IN
       \/ needed /\ job' = [job EXCEPT ![t] = j] /\ Goto(t, "acquire")
       \/ ~needed /\ UNCHANGED job /\ Goto(t, "idle")
  /\ UNCHANGED <<guardVars, pageVars>>

-----------------------------------------------------------------------------
(* PageGuard::acquire and its drop.  A stale owner is a pid of another        *)
(* process, left by the fork: it is replaced and the patch state recovered.  *)
(* The load of OWNER and the exchange are one step: an exchange that fails    *)
(* answers busy, and it fails only when another thread took the guard first. *)

(* Mutant: the guard is taken without looking at its owner. *)
AcquireUnchecked(t) ==
  /\ pc[t] = "acquire"
  /\ owner' = pid
  /\ Goto(t, "enter")
  /\ UNCHANGED <<pid, jobVars, pageVars>>

(* Mutant: the try-lock waits for the owner, also for one that is gone. *)
AcquireBlocks(t) ==
  /\ pc[t] = "acquire"
  /\ owner = "none"
  /\ owner' = pid
  /\ Goto(t, "enter")
  /\ UNCHANGED <<pid, jobVars, pageVars>>

Acquire(t) ==
  /\ pc[t] = "acquire"
  /\ \/ /\ owner = pid      \* busy
        /\ Goto(t, "idle") /\ job' = [job EXCEPT ![t] = "none"]
        /\ UNCHANGED owner
     \/ /\ owner # pid
        /\ owner' = pid
        /\ Goto(t, IF owner = "none" THEN "enter" ELSE "recover") /\ UNCHANGED job
  /\ UNCHANGED <<pid, jobs, pageVars>>

(* Mutant: recovery forgets whatever recipe was applied. *)
RecoverPatchResets(t) ==
  /\ pc[t] = "recover"
  /\ state' = Unapplied
  /\ pc' = [pc EXCEPT ![t] = "enter"]
  /\ UNCHANGED <<page, recipe, seen, completion, waits, applied, result, patches,
                 histories, guardVars, jobVars, pageVars>>

RecoverPatch(t) ==
  /\ pc[t] = "recover"
  /\ state' = Recovered(state)
  /\ pc' = [pc EXCEPT ![t] = "enter"]
  /\ UNCHANGED <<page, recipe, seen, completion, waits, applied, result, patches,
                 histories, guardVars, jobVars, pageVars>>

Enter(t) ==
  /\ pc[t] = "enter"
  /\ \/ job[t] = "patch" /\ \E r \in Recipes : StartPatch(t, r, "load")
     \/ job[t] \in {"force", "install", "other"} /\ Goto(t, job[t])
  /\ UNCHANGED <<guardVars, jobVars, pageVars>>

(* What the caller does next: after a successful recipe the bridge, else return. *)
DropGuard(t) ==
  /\ pc[t] \in {"returned", "drop"}
  /\ owner' = "none"
  /\ LET bridge == pc[t] = "returned" /\ result[t] = "Ok" /\ ~installed IN
     /\ pc' = [pc EXCEPT ![t] = IF bridge THEN "acquire" ELSE "idle"]
     /\ job' = [job EXCEPT ![t] = IF bridge THEN "install" ELSE "none"]
  /\ result' = [result EXCEPT ![t] = "none"]
  /\ UNCHANGED <<state, page, recipe, seen, completion, waits, applied, patches, histories,
                 pid, jobs, pageVars>>

-----------------------------------------------------------------------------
(* PATCH_STATE.patch with the closure apply_recipe_to_shared_page. *)

PatchLoop(t) ==
  /\ Load(t) \/ Exchange(t) \/ Complete(t)
  /\ UNCHANGED <<guardVars, jobVars, pageVars>>

(* Unsupported geometry, no verified mapping or mprotect fails; or the page   *)
(* is writable and the recipe's stores begin.                                *)
ApplyRecipe(t) ==
  /\ ApplyBegin(t)
  /\ writable' = (writable \/ pc'[t] = "writing")
  /\ UNCHANGED <<guardVars, jobVars, hackVars, slotVars>>

ApplyRestore(t) ==
  /\ ApplyEnd(t)
  /\ writable' = ~applied'[t]
  /\ system_call' = (system_call /\ ~HackEnabled)
  /\ hack_applied' = (hack_applied \/ (HackEnabled /\ applied'[t]))
  /\ UNCHANGED <<guardVars, jobVars, slotVars>>

-----------------------------------------------------------------------------
(* force_direct_syscall, under the guard. *)

ForceDirect(t) ==
  /\ pc[t] = "force"
  /\ \/ /\ Goto(t, "drop")      \* applied meanwhile, or mprotect fails
        /\ UNCHANGED <<writable, system_call>>
     \/ /\ ~hack_applied
        /\ Goto(t, "force_restore")
        /\ writable' = TRUE
        /\ system_call' = FALSE
  /\ UNCHANGED <<guardVars, jobVars, hack_applied, slotVars>>

ForceRestore(t) ==
  /\ pc[t] = "force_restore"
  /\ Goto(t, "drop")
  /\ \/ writable' = FALSE /\ hack_applied' = TRUE
     \/ UNCHANGED <<writable, hack_applied>>      \* mprotect fails
  /\ UNCHANGED <<guardVars, jobVars, system_call, slotVars>>

-----------------------------------------------------------------------------
(* install, under the guard: remember Wine's dispatcher, then swap the slot. *)

InstallUnlock(t) ==
  /\ pc[t] = "install"
  /\ \/ /\ Goto(t, "drop")      \* installed meanwhile, or mprotect fails
        /\ UNCHANGED slot_writable
     \/ /\ ~installed
        /\ Goto(t, "swap")
        /\ slot_writable' = TRUE
  /\ UNCHANGED <<guardVars, jobVars, writable, hackVars, slot, original, installed>>

(* Mutant: the slot is not compared with the bridge. *)
SaveOriginalBridge(t) ==
  /\ pc[t] = "swap"
  /\ \/ /\ slot # "empty"
        /\ original' = slot
        /\ Goto(t, "swap_slot")
     \/ /\ slot = "empty"
        /\ Goto(t, "seal")
        /\ UNCHANGED original
  /\ UNCHANGED <<guardVars, jobVars, writable, hackVars, slot, slot_writable, installed>>

SaveOriginal(t) ==
  /\ pc[t] = "swap"
  /\ \/ /\ slot \notin {"empty", "bridge"}
        /\ original' = slot
        /\ Goto(t, "swap_slot")
     \/ /\ slot \in {"empty", "bridge"}
        /\ Goto(t, "seal")
        /\ UNCHANGED original
  /\ UNCHANGED <<guardVars, jobVars, writable, hackVars, slot, slot_writable, installed>>

SwapSlot(t) ==
  /\ pc[t] = "swap_slot"
  /\ slot' = "bridge"
  /\ Goto(t, "seal")
  /\ UNCHANGED <<guardVars, jobVars, writable, hackVars, slot_writable, original, installed>>

(* installed || already_installed, and the protection restored. *)
SealSlot(t) ==
  /\ pc[t] = "seal"
  /\ Goto(t, "drop")
  /\ \E restored \in BOOLEAN :
       /\ slot_writable' = ~restored
       /\ installed' = (installed \/ (slot = "bridge" /\ original # "none" /\ restored))
  /\ UNCHANGED <<guardVars, jobVars, writable, hackVars, slot, original>>

OtherHolder(t) ==
  /\ pc[t] = "other"
  /\ Goto(t, "drop")
  /\ UNCHANGED <<guardVars, jobVars, pageVars>>

-----------------------------------------------------------------------------
(* The surroundings: Wine fills its slot once; a fork keeps the child's copy  *)
(* of every variable of this process and removes the other threads.          *)

WineFillsSlot ==
  /\ slot = "empty"
  /\ slot' = "wine"
  /\ UNCHANGED <<patchVars, guardVars, jobVars, writable, hackVars, slot_writable,
                 original, installed>>

KuserFork(t) ==
  /\ pid = "parent"
  /\ Fork(t)
  /\ pid' = "child"
  /\ job' = [u \in Threads |-> "none"]
  /\ UNCHANGED <<owner, jobs, pageVars>>

KuserStep(t) ==
  \/ Acquire(t) \/ RecoverPatch(t) \/ Enter(t) \/ DropGuard(t)
  \/ PatchLoop(t) \/ ApplyRecipe(t) \/ ApplyRestore(t)
  \/ ForceDirect(t) \/ ForceRestore(t)
  \/ InstallUnlock(t) \/ SaveOriginal(t) \/ SwapSlot(t) \/ SealSlot(t) \/ OtherHolder(t)

KuserNext ==
  \/ \E t \in Threads : BeginJob(t) \/ KuserStep(t) \/ KuserFork(t)
  \/ WineFillsSlot

KuserSpec == KuserInit /\ [][KuserNext]_allVars
KuserFairSpec == KuserSpec /\ \A t \in Threads : WF_allVars(KuserStep(t))

-----------------------------------------------------------------------------
(* Properties *)

Holding(t) == pc[t] \notin {"idle", "gone", "acquire"}

(* The type of the variables this module adds. *)
KuserTypeOK ==
  /\ owner \in {"none", "parent", "child"}
  /\ pid \in {"parent", "child"}
  /\ job \in [Threads -> {"none", "patch", "force", "install", "other"}]
  /\ jobs \in 0..MaxJobs
  /\ writable \in BOOLEAN
  /\ system_call \in BOOLEAN
  /\ hack_applied \in BOOLEAN
  /\ slot \in {"empty", "wine", "bridge"}
  /\ slot_writable \in BOOLEAN
  /\ original \in {"none", "wine", "bridge"}
  /\ installed \in BOOLEAN

(* The guard excludes: one live thread at most holds it, and OWNER is this    *)
(* process's pid exactly while one does.                                     *)
GuardExcludes ==
  /\ \A t, u \in Threads : Holding(t) /\ Holding(u) => t = u
  /\ (owner = pid) = (\E t \in Threads : Holding(t))

(* Under the guard patch() never finds the state Applying: neither another    *)
(* thread's patch nor one a fork cut off, so its waits are never needed.     *)
GuardedPatchNeverWaits ==
  \A t \in Threads : pc[t] = "load" => state.phase # "Applying"

(* Wherever installation stops or starts again, the slot holds the bridge     *)
(* only when Wine's own dispatcher is remembered, and the bridge is never    *)
(* remembered as the dispatcher it forwards to.                              *)
BridgeForwardsToWine ==
  /\ slot = "bridge" => original = "wine"
  /\ original # "bridge"
  /\ installed => slot = "bridge"

(* Every job ends, and with it the guard is free for the next one. *)
EveryJobEnds ==
  \A t \in Threads : pc[t] \notin {"idle", "gone"} ~> pc[t] \in {"idle", "gone"}

(* Refinement: the guarded runtime is an implementation of PatchState in      *)
(* which a thread outside patch() is idle.                                   *)
AbstractPc ==
  [t \in Threads |->
     IF pc[t] \in {"load", "exchange", "applying", "writing", "complete", "returned", "gone"}
     THEN pc[t] ELSE "idle"]
Abstract == INSTANCE PatchState WITH pc <- AbstractPc

(* Every behaviour of the guarded page is a behaviour of PatchState: in       *)
(* particular recover_after_fork runs only when no live thread is applying.  *)
ImplementsPatchState == Abstract!Spec
=============================================================================
