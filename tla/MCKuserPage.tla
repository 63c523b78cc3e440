---------------------------- MODULE MCKuserPage -----------------------------
(***************************************************************************)
(* A small instance of KuserPage, and one of PatchState on its own: callers  *)
(* of patch() without the guard, as in the tests of protocol/kuser.rs, reach *)
(* the waits that the guard makes unnecessary.                                *)
(***************************************************************************)
EXTENDS KuserPage

CONSTANTS t1, t2

VARIABLE guarded   \* whether this behaviour is the runtime's

kuserVars == <<guardVars, jobVars, pageVars>>
mcVars == <<guarded, allVars>>

MCInit == KuserInit /\ guarded \in BOOLEAN /\ (~guarded => slot = "empty")

GuardedStep(t) == guarded /\ KuserStep(t) /\ UNCHANGED guarded
PlainStep(t) == ~guarded /\ Step(t) /\ UNCHANGED <<guarded, kuserVars>>

MCNext ==
  \/ guarded /\ KuserNext /\ UNCHANGED guarded
  \/ ~guarded /\ Next /\ UNCHANGED <<guarded, kuserVars>>

MCFairSpec ==
  /\ MCInit /\ [][MCNext]_mcVars
  /\ \A t \in Threads : WF_mcVars(GuardedStep(t)) /\ WF_mcVars(PlainStep(t))

(* The page has one writer: under the guard, one live thread at most holds it  *)
(* and OWNER is this process's pid exactly while one does, so that patch()     *)
(* never waits; without it, the exchange of patch() still admits one thread,   *)
(* and the state names the recipe that it writes.                              *)
PageHasOneWriter ==
  /\ OneApplier
  /\ guarded => KuserTypeOK /\ GuardExcludes /\ GuardedPatchNeverWaits
  /\ ~guarded => TypeOK
=============================================================================
