---------------------------- MODULE ReflexState ----------------------------
(***************************************************************************)
(* The Reflex registration and routing state machine of                    *)
(* protocol/reflex/state.rs: one process-wide State made of atomics, used   *)
(* without a lock by every thread that traps on a control CPUID leaf        *)
(* (handle_cpuid) or on a syscall (route_syscall).                          *)
(*                                                                         *)
(* An action is one access to the shared atomics together with the local    *)
(* computation around it.  A load followed by a compare_exchange of the     *)
(* value just loaded is one step: when the exchange fails the code loads    *)
(* again, which is a stuttering step here.  (The weak exchange never fails  *)
(* spuriously on x86-64, the only target of this runtime.)                  *)
(***************************************************************************)
EXTENDS Naturals

CONSTANTS
  Threads,              \* threads of the process
  Handlers,             \* nonzero addresses REGISTER_RESUME_HANDLER carries
  AttributesHandlers,   \* nonzero addresses REGISTER_ATTRIBUTES_HANDLER carries
  Pids,                 \* nonzero process ids REGISTER_TARGET_PID carries
  Ids,                  \* 32-bit service numbers other than u32::MAX
  Selectors,            \* SINGLE_DISPATCH_SELECTORS
  NoId,                 \* u32::MAX, the initial value of both service ids
  Bypass,               \* DISPATCH_BYPASS_SYSCALL
  Null,                 \* a zero target or pid
  Calls,                \* Calls[t]: the calls thread t may make
  TransitionWaitLimit,  \* TRANSITION_WAIT_LIMIT
  MaxCalls,             \* bound: calls begun in a behaviour
  MayFork               \* whether the process may fork

(* The client's control leaves, and the three entry points of State. *)
ControlCalls ==
  [leaf : {"REGISTER_RESUME_HANDLER"}, arg : Handlers]
    \cup [leaf : {"REGISTER_ATTRIBUTES_HANDLER"}, arg : AttributesHandlers]
    \cup [leaf : {"REGISTER_SYSTEM_SYSCALL_ID",
                  "REGISTER_ATTRIBUTES_SYSCALL_ID"}, arg : Ids]
    \cup [leaf : {"REGISTER_TARGET_PID"}, arg : Pids]
    \cup [leaf : {"ARM_TARGET_CR3", "CLIENT_SESSION_MARKER", "SET_TIME", "OTHER"},
          arg : {Null}]

Numbers == Ids \cup Selectors \cup {NoId, Bypass}

RouteCalls ==
  [leaf : {"route_syscall"}, arg : Numbers, r10_zero : BOOLEAN, rcx_user : BOOLEAN]

QueryCalls ==
  [leaf : {"has_registered_target_process", "resume_identity_unarmed"}, arg : {Null}]

AllCalls == ControlCalls \cup RouteCalls \cup QueryCalls

ASSUME ConstantsAssumption ==
  /\ Null \notin Handlers \cup AttributesHandlers \cup Pids
  /\ NoId \notin Ids \cup Selectors
  /\ Bypass \notin Ids \cup Selectors \cup {NoId}
  /\ Calls \in [Threads -> SUBSET AllCalls]
  /\ TransitionWaitLimit \in Nat \ {0}
  /\ MaxCalls \in Nat
  /\ MayFork \in BOOLEAN

(* number as u32: the bypass number 0x7fff_ffff_ffff truncates to u32::MAX. *)
Low32(number) == IF number = Bypass THEN NoId ELSE number

VARIABLES
  routing,            \* State::routing
  identity,           \* State::identity
  target_pid,         \* State::target_pid
  convention,         \* State::syscall_convention
  resume_target,      \* State::resume_target
  system_target,      \* DispatchRegistrations
  system_id,
  attributes_target,
  attributes_id,
  legacy,             \* the active CPU presentation is Legacy
  pc,                 \* where each thread is in its call
  call,               \* the call each thread is making
  loaded,             \* a target loaded from the state and not yet used
  waits,              \* iterations of wait_for_transition so far
  outcome,            \* what each thread's last call returned
  calls,              \* calls begun (bounded by MaxCalls)
  registered,         \* history: some REGISTER_RESUME_HANDLER was Consumed
  armed               \* history: registered when each thread's call began

registers == <<target_pid, resume_target, system_target, system_id,
               attributes_target, attributes_id>>
shared == <<routing, identity, convention, legacy, registers>>
history == <<registered, armed>>
local == <<pc, call, loaded, waits, outcome>>
vars == <<shared, local, calls, history>>

RoutingStates == {"Unregistered", "ResumeTarget", "DualDispatch",
                  "RegisteringResumeTarget", "RegisteringDualDispatch",
                  "PromotingDualDispatch"}
Transitional == {"RegisteringResumeTarget", "RegisteringDualDispatch",
                 "PromotingDualDispatch"}
Conventions == {"ResumeReplay", "SelectorDispatch", "DualDispatch"}

(* RoutingState::stable: what the public accessors report. *)
Stable(state) == IF state \in {"ResumeTarget", "DualDispatch"}
                 THEN state ELSE "Unregistered"

NoOutcome == [result |-> "none", via |-> "none", target |-> Null]
Answer(result) == [NoOutcome EXCEPT !.result = result]

Init ==
  /\ routing = "Unregistered"
  /\ identity = "Unobserved"
  /\ target_pid = Null
  /\ convention = "ResumeReplay"
  /\ resume_target = Null
  /\ system_target = Null
  /\ system_id = NoId
  /\ attributes_target = Null
  /\ attributes_id = NoId
  /\ legacy \in BOOLEAN      \* LINUWUX_LEGACY_PROFILE forces TRUE
  /\ pc = [t \in Threads |-> "idle"]
  /\ call \in [Threads -> {[leaf |-> "OTHER", arg |-> Null]}]
  /\ loaded = [t \in Threads |-> Null]
  /\ waits = [t \in Threads |-> 0]
  /\ outcome = [t \in Threads |-> NoOutcome]
  /\ calls = 0
  /\ registered = FALSE
  /\ armed = [t \in Threads |-> FALSE]

-----------------------------------------------------------------------------
(* Control flow of one thread: begin a call, move on inside it, return. *)

FirstStep(leaf) ==
  CASE leaf = "ARM_TARGET_CR3" -> "arm"
    [] leaf = "REGISTER_RESUME_HANDLER" -> "identity"
    [] leaf = "REGISTER_TARGET_PID" -> "pid"
    [] leaf \in {"REGISTER_SYSTEM_SYSCALL_ID", "REGISTER_ATTRIBUTES_HANDLER",
                 "REGISTER_ATTRIBUTES_SYSCALL_ID"} -> "activate"
    [] leaf = "route_syscall" -> "route"
    [] leaf = "has_registered_target_process" -> "has_pid"
    [] leaf = "resume_identity_unarmed" -> "unarmed"
    [] OTHER -> "trivial"

Begin(t) ==
  /\ pc[t] = "idle"
  /\ calls < MaxCalls
  /\ calls' = calls + 1
  /\ \E c \in Calls[t] :
       /\ call' = [call EXCEPT ![t] = c]
       /\ pc' = [pc EXCEPT ![t] = FirstStep(c.leaf)]
  /\ outcome' = [outcome EXCEPT ![t] = NoOutcome]
  /\ loaded' = [loaded EXCEPT ![t] = Null]
  /\ waits' = [waits EXCEPT ![t] = 0]
  /\ armed' = [armed EXCEPT ![t] = registered]
  /\ UNCHANGED <<shared, registered>>

Move(t, from, to) ==
  /\ pc[t] = from
  /\ pc' = [pc EXCEPT ![t] = to]
  /\ UNCHANGED <<call, outcome, calls, history>>

Return(t, from, answer) ==
  /\ pc[t] = from
  /\ pc' = [pc EXCEPT ![t] = "idle"]
  /\ outcome' = [outcome EXCEPT ![t] = answer]
  /\ registered' = (\/ registered
                    \/ /\ answer.result = "Consumed"
                       /\ call[t].leaf = "REGISTER_RESUME_HANDLER")
  /\ UNCHANGED <<call, loaded, waits, calls, armed>>

(* CLIENT_SESSION_MARKER and unknown leaves are Native; SET_TIME hands its   *)
(* argument to the fake clock (module Faketime) and is Consumed.             *)
TrivialLeaf(t) ==
  /\ Return(t, "trivial",
            Answer(IF call[t].leaf = "SET_TIME" THEN "Consumed" ELSE "Native"))
  /\ UNCHANGED shared

(* ARM_TARGET_CR3: store the identity, then look at the routing. *)
ArmTargetCr3(t) ==
  /\ Move(t, "arm", "arm_routing")
  /\ identity' = "Process"
  /\ UNCHANGED <<routing, convention, legacy, registers, loaded, waits>>

ArmTargetCr3Routing(t) ==
  /\ Return(t, "arm_routing",
            Answer(IF Stable(routing) = "ResumeTarget" THEN "Native" ELSE "Consumed"))
  /\ UNCHANGED shared

-----------------------------------------------------------------------------
(* wait_for_transition, then back to the loop that called it. *)

(* Mutant: the wait has no limit. *)
WaitForTransitionForever(t, here, loop) ==
  /\ routing \notin Transitional
  /\ Move(t, here, loop)
  /\ UNCHANGED <<shared, loaded, waits>>

WaitForTransition(t, here, loop) ==
  \/ /\ routing \notin Transitional
     /\ Move(t, here, loop)
     /\ waits' = [waits EXCEPT ![t] = 0]
     /\ UNCHANGED <<shared, loaded>>
  \/ /\ routing \in Transitional
     /\ waits[t] + 1 < TransitionWaitLimit
     /\ Move(t, here, here)
     /\ waits' = [waits EXCEPT ![t] = @ + 1]
     /\ UNCHANGED <<shared, loaded>>
  \/ /\ routing \in Transitional
     /\ waits[t] + 1 = TransitionWaitLimit
     /\ Return(t, here, Answer("Native"))
     /\ UNCHANGED shared

-----------------------------------------------------------------------------
(* activate_dual_dispatch: become the owner of the transition, or find it    *)
(* done, or wait for its owner.                                              *)

ActivateLoop(t) ==
  /\ \/ /\ routing = "DualDispatch"
        /\ Move(t, "activate", "store")
        /\ UNCHANGED routing
     \/ /\ routing = "Unregistered"
        /\ Move(t, "activate", "act_target")
        /\ routing' = "RegisteringDualDispatch"
     \/ /\ routing = "ResumeTarget"
        /\ Move(t, "activate", "act_target")
        /\ routing' = "PromotingDualDispatch"
     \/ /\ routing \in Transitional
        /\ Move(t, "activate", "act_wait")
        /\ UNCHANGED routing
  /\ UNCHANGED <<identity, convention, legacy, registers, loaded, waits>>

ActivateWait(t) == WaitForTransition(t, "act_wait", "activate")

ActivateLoadTarget(t) ==
  /\ Move(t, "act_target", "act_system")
  /\ loaded' = [loaded EXCEPT ![t] = resume_target]
  /\ UNCHANGED <<shared, waits>>

(* Mutant: promotion does not carry the resume handler over. *)
ActivateSystemTargetForgotten(t) ==
  /\ Move(t, "act_system", "act_convention")
  /\ UNCHANGED <<shared, loaded, waits>>

(* The load and the store of system_target are one step: only the owner of   *)
(* the transition writes it before DualDispatch is published.                *)
ActivateSystemTarget(t) ==
  /\ Move(t, "act_system", "act_convention")
  /\ system_target' = IF system_target = Null THEN loaded[t] ELSE system_target
  /\ UNCHANGED <<routing, identity, convention, legacy, target_pid, resume_target,
                 system_id, attributes_target, attributes_id, loaded, waits>>

(* Mutant: dual dispatch is published without its convention. *)
ActivateConventionForgotten(t) ==
  /\ Move(t, "act_convention", "act_publish")
  /\ UNCHANGED <<shared, loaded, waits>>

ActivateConvention(t) ==
  /\ Move(t, "act_convention", "act_publish")
  /\ convention' = "DualDispatch"
  /\ UNCHANGED <<routing, identity, legacy, registers, loaded, waits>>

ActivatePublish(t) ==
  /\ Move(t, "act_publish", "act_legacy")
  /\ routing' = "DualDispatch"
  /\ UNCHANGED <<identity, convention, legacy, registers, loaded, waits>>

ActivateLegacy(t) ==
  /\ Move(t, "act_legacy", "store")
  /\ legacy' = TRUE
  /\ UNCHANGED <<routing, identity, convention, registers, loaded, waits>>

(* Mutant: the attributes handler lands in the system handler's register. *)
StoreRegistrationSwapped(t) ==
  /\ Return(t, "store", Answer("Consumed"))
  /\ \/ /\ call[t].leaf = "REGISTER_ATTRIBUTES_HANDLER"
        /\ system_target' = call[t].arg
        /\ UNCHANGED <<system_id, attributes_id>>
     \/ /\ call[t].leaf = "REGISTER_SYSTEM_SYSCALL_ID"
        /\ system_id' = call[t].arg
        /\ UNCHANGED <<system_target, attributes_id>>
  /\ UNCHANGED <<routing, identity, convention, legacy, target_pid, resume_target,
                 attributes_target>>

(* The store that ends each of the three dual-dispatch leaves. *)
StoreRegistration(t) ==
  /\ Return(t, "store", Answer("Consumed"))
  /\ \/ /\ call[t].leaf = "REGISTER_SYSTEM_SYSCALL_ID"
        /\ system_id' = call[t].arg
        /\ UNCHANGED <<attributes_target, attributes_id>>
     \/ /\ call[t].leaf = "REGISTER_ATTRIBUTES_HANDLER"
        /\ attributes_target' = call[t].arg
        /\ UNCHANGED <<system_id, attributes_id>>
     \/ /\ call[t].leaf = "REGISTER_ATTRIBUTES_SYSCALL_ID"
        /\ attributes_id' = call[t].arg
        /\ UNCHANGED <<system_id, attributes_target>>
  /\ UNCHANGED <<routing, identity, convention, legacy, target_pid, resume_target,
                 system_target>>

-----------------------------------------------------------------------------
(* REGISTER_RESUME_HANDLER: infer the identity, then register_resume_target. *)

InferIdentity(t) ==
  /\ Move(t, "identity", "register")
  /\ identity' = IF identity = "Unobserved" THEN "DebugRegisterThread" ELSE identity
  /\ UNCHANGED <<routing, convention, legacy, registers, loaded, waits>>

(* Mutant: the transition is stored, not exchanged, so a second thread also  *)
(* believes it owns it.                                                      *)
RegisterLoopStores(t) ==
  /\ routing \in {"Unregistered", "RegisteringResumeTarget"}
  /\ Move(t, "register", "reg_target")
  /\ routing' = "RegisteringResumeTarget"
  /\ UNCHANGED <<identity, convention, legacy, registers, loaded, waits>>

RegisterLoop(t) ==
  /\ \/ /\ routing = "DualDispatch"
        /\ Move(t, "register", "reg_dual")
        /\ UNCHANGED routing
     \/ /\ routing = "ResumeTarget"
        /\ Move(t, "register", "reg_patch")
        /\ UNCHANGED routing
     \/ /\ routing = "Unregistered"
        /\ Move(t, "register", "reg_target")
        /\ routing' = "RegisteringResumeTarget"
     \/ /\ routing \in Transitional
        /\ Move(t, "register", "reg_wait")
        /\ UNCHANGED routing
  /\ UNCHANGED <<identity, convention, legacy, registers, loaded, waits>>

RegisterWait(t) == WaitForTransition(t, "reg_wait", "register")

RegisterInDualDispatch(t) ==
  /\ Return(t, "reg_dual", Answer("Consumed"))
  /\ system_target' = call[t].arg
  /\ UNCHANGED <<routing, identity, convention, legacy, target_pid, resume_target,
                 system_id, attributes_target, attributes_id>>

(* host.patch_kuser either succeeds or fails: which one, and what it does to *)
(* the page, is the subject of module KuserPage.                             *)
RegisterPatch(t) ==
  /\ \/ Move(t, "reg_patch", "reg_store") /\ UNCHANGED <<loaded, waits>>
     \/ Return(t, "reg_patch", Answer("Native"))
  /\ UNCHANGED shared

(* Mutant: a second registration publishes ResumeTarget once more. *)
RegisterReplacePublishes(t) ==
  /\ Return(t, "reg_store", Answer("Consumed"))
  /\ resume_target' = call[t].arg
  /\ routing' = "ResumeTarget"
  /\ UNCHANGED <<identity, convention, legacy, target_pid, system_target,
                 system_id, attributes_target, attributes_id>>

RegisterReplace(t) ==
  /\ Return(t, "reg_store", Answer("Consumed"))
  /\ resume_target' = call[t].arg
  /\ UNCHANGED <<routing, identity, convention, legacy, target_pid, system_target,
                 system_id, attributes_target, attributes_id>>

RegisterTarget(t) ==
  /\ Move(t, "reg_target", "reg_legacy")
  /\ resume_target' = call[t].arg
  /\ UNCHANGED <<routing, identity, convention, legacy, target_pid, system_target,
                 system_id, attributes_target, attributes_id, loaded, waits>>

RegisterLegacy(t) ==
  /\ Move(t, "reg_legacy", IF legacy THEN "reg_convention" ELSE "reg_publish")
  /\ UNCHANGED <<shared, loaded, waits>>

RegisterConvention(t) ==
  /\ Move(t, "reg_convention", "reg_publish")
  /\ convention' = "SelectorDispatch"
  /\ UNCHANGED <<routing, identity, legacy, registers, loaded, waits>>

RegisterPublish(t) ==
  /\ Return(t, "reg_publish", Answer("Consumed"))
  /\ routing' = "ResumeTarget"
  /\ UNCHANGED <<identity, convention, legacy, registers>>

-----------------------------------------------------------------------------
(* REGISTER_TARGET_PID: the pid is stored before the page is patched. *)

PidRouting(t) ==
  /\ \/ /\ Stable(routing) = "Unregistered"
        /\ Return(t, "pid", Answer("Native"))
     \/ /\ Stable(routing) # "Unregistered"
        /\ Move(t, "pid", "pid_store")
        /\ UNCHANGED <<loaded, waits>>
  /\ UNCHANGED shared

PidStore(t) ==
  /\ Move(t, "pid_store", "pid_patch")
  /\ target_pid' = call[t].arg
  /\ UNCHANGED <<routing, identity, convention, legacy, resume_target, system_target,
                 system_id, attributes_target, attributes_id, loaded, waits>>

PidPatch(t) ==
  /\ \E result \in {"Consumed", "Native"} : Return(t, "pid_patch", Answer(result))
  /\ UNCHANGED shared

-----------------------------------------------------------------------------
(* route_syscall: each load is a step, so registrations can interleave. *)

Declined(via) == [NoOutcome EXCEPT !.result = "None", !.via = via]
Routed(via, target) ==
  [result |-> IF target = Null THEN "None" ELSE "Some", via |-> via, target |-> target]

(* Mutant: every transitional state counts as unregistered. *)
RouteRoutingStable(t) ==
  /\ \/ /\ Stable(routing) = "Unregistered"
        /\ Return(t, "route", Declined("routing"))
     \/ /\ Stable(routing) # "Unregistered"
        /\ Move(t, "route", "route_convention")
        /\ UNCHANGED <<loaded, waits>>
  /\ UNCHANGED shared

RouteRouting(t) ==
  /\ \/ /\ routing \in {"Unregistered", "RegisteringDualDispatch"}
        /\ Return(t, "route", Declined("routing"))
     \/ /\ routing \notin {"Unregistered", "RegisteringDualDispatch"}
        /\ Move(t, "route", "route_convention")
        /\ UNCHANGED <<loaded, waits>>
  /\ UNCHANGED shared

RouteConvention(t) ==
  /\ pc[t] = "route_convention"
  /\ \/ /\ convention = "ResumeReplay"
        /\ Move(t, "route_convention", "route_resume")
     \/ /\ convention = "SelectorDispatch"
        /\ call[t].arg \in Selectors /\ call[t].rcx_user
        /\ Move(t, "route_convention", "route_selector")
     \/ /\ convention = "SelectorDispatch"
        /\ ~(call[t].arg \in Selectors /\ call[t].rcx_user)
        /\ Return(t, "route_convention", Declined("Selector"))
     \/ /\ convention = "DualDispatch"
        /\ call[t].arg # Bypass
        /\ Move(t, "route_convention", "route_system_id")
     \/ /\ convention = "DualDispatch"
        /\ call[t].arg = Bypass
        /\ Return(t, "route_convention", Declined("Bypass"))
  /\ UNCHANGED <<shared, loaded, waits>>

RouteResume(t) ==
  /\ \/ Return(t, "route_resume", Routed("Resume", resume_target))
     \/ Return(t, "route_selector", Routed("Selector", resume_target))
  /\ UNCHANGED shared

RouteSystemId(t) ==
  /\ pc[t] = "route_system_id"
  /\ IF Low32(call[t].arg) = system_id
     THEN IF call[t].r10_zero /\ call[t].rcx_user
          THEN Move(t, "route_system_id", "route_system_target")
          ELSE Return(t, "route_system_id", Declined("System"))
     ELSE Move(t, "route_system_id", "route_attributes_id")
  /\ UNCHANGED <<shared, loaded, waits>>

RouteSystemTarget(t) ==
  /\ Return(t, "route_system_target", Routed("System", system_target))
  /\ UNCHANGED shared

RouteAttributesId(t) ==
  /\ pc[t] = "route_attributes_id"
  /\ IF Low32(call[t].arg) = attributes_id /\ call[t].rcx_user
     THEN Move(t, "route_attributes_id", "route_attributes_target")
     ELSE Return(t, "route_attributes_id", Declined("Attributes"))
  /\ UNCHANGED <<shared, loaded, waits>>

RouteAttributesTarget(t) ==
  /\ Return(t, "route_attributes_target", Routed("Attributes", attributes_target))
  /\ UNCHANGED shared

-----------------------------------------------------------------------------
(* The two accessors that read two atomics. *)

HasTargetPid(t) ==
  /\ \/ target_pid = Null /\ Return(t, "has_pid", Answer("False"))
     \/ /\ target_pid # Null
        /\ Move(t, "has_pid", "has_routing")
        /\ UNCHANGED <<loaded, waits>>
  /\ UNCHANGED shared

HasTargetRouting(t) ==
  /\ Return(t, "has_routing",
            Answer(IF Stable(routing) # "Unregistered" THEN "True" ELSE "False"))
  /\ UNCHANGED shared

UnarmedRouting(t) ==
  /\ \/ Stable(routing) = "DualDispatch" /\ Return(t, "unarmed", Answer("False"))
     \/ /\ Stable(routing) # "DualDispatch"
        /\ Move(t, "unarmed", "unarmed_target")
        /\ UNCHANGED <<loaded, waits>>
  /\ UNCHANGED shared

(* Mutant: a transition makes the identity look unarmed. *)
UnarmedInTransition(t) ==
  /\ Return(t, "unarmed_target",
            Answer(IF Stable(routing) = "Unregistered" THEN "True" ELSE "False"))
  /\ UNCHANGED shared

UnarmedTarget(t) ==
  /\ Return(t, "unarmed_target",
            Answer(IF resume_target = Null THEN "True" ELSE "False"))
  /\ UNCHANGED shared

-----------------------------------------------------------------------------
(* The surroundings: a reflex64.dll caller selects the legacy presentation,  *)
(* and a fork leaves a child in which only the forking thread exists.        *)

SelectCallerPresentation ==
  /\ ~legacy
  /\ legacy' = TRUE
  /\ UNCHANGED <<routing, identity, convention, registers, local, calls, history>>

Fork(t) ==
  /\ MayFork
  /\ pc[t] = "idle"
  /\ \E u \in Threads \ {t} : pc[u] # "gone"
  /\ pc' = [u \in Threads |-> IF u = t THEN "idle" ELSE "gone"]
  /\ UNCHANGED <<shared, call, loaded, waits, outcome, calls, history>>

(* The steps of a call that has begun. *)
Step(t) ==
  \/ TrivialLeaf(t) \/ ArmTargetCr3(t) \/ ArmTargetCr3Routing(t)
  \/ ActivateLoop(t) \/ ActivateWait(t) \/ ActivateLoadTarget(t)
  \/ ActivateSystemTarget(t) \/ ActivateConvention(t) \/ ActivatePublish(t)
  \/ ActivateLegacy(t) \/ StoreRegistration(t)
  \/ InferIdentity(t) \/ RegisterLoop(t) \/ RegisterWait(t)
  \/ RegisterInDualDispatch(t) \/ RegisterPatch(t) \/ RegisterReplace(t)
  \/ RegisterTarget(t) \/ RegisterLegacy(t) \/ RegisterConvention(t)
  \/ RegisterPublish(t) \/ PidRouting(t) \/ PidStore(t) \/ PidPatch(t)
  \/ RouteRouting(t) \/ RouteConvention(t) \/ RouteResume(t) \/ RouteSystemId(t)
  \/ RouteSystemTarget(t) \/ RouteAttributesId(t) \/ RouteAttributesTarget(t)
  \/ HasTargetPid(t) \/ HasTargetRouting(t) \/ UnarmedRouting(t) \/ UnarmedTarget(t)

Next ==
  \/ \E t \in Threads : Begin(t) \/ Step(t) \/ Fork(t)
  \/ SelectCallerPresentation

Spec == Init /\ [][Next]_vars

(* The kernel keeps scheduling every thread that is inside a call. *)
FairSpec == Spec /\ \A t \in Threads : WF_vars(Step(t))

-----------------------------------------------------------------------------
(* Properties *)

PcValues ==
  {"idle", "gone", "trivial", "arm", "arm_routing", "activate", "act_wait",
   "act_target", "act_system", "act_convention", "act_publish", "act_legacy", "store",
   "identity", "register", "reg_wait", "reg_dual", "reg_patch", "reg_store",
   "reg_target", "reg_legacy", "reg_convention", "reg_publish", "pid", "pid_store",
   "pid_patch", "route", "route_convention", "route_resume", "route_selector",
   "route_system_id", "route_system_target", "route_attributes_id",
   "route_attributes_target", "has_pid", "has_routing", "unarmed", "unarmed_target"}

Results == {"none", "Native", "Consumed", "None", "Some", "True", "False"}
Vias == {"none", "routing", "Resume", "Selector", "Bypass", "System", "Attributes"}
Targets == Handlers \cup AttributesHandlers \cup {Null}

(* Every variable keeps its type: system and resume targets are always       *)
(* handlers the client supplied for that role.                               *)
TypeOK ==
  /\ routing \in RoutingStates
  /\ identity \in {"Unobserved", "Process", "DebugRegisterThread"}
  /\ target_pid \in Pids \cup {Null}
  /\ convention \in Conventions
  /\ resume_target \in Handlers \cup {Null}
  /\ system_target \in Handlers \cup {Null}
  /\ system_id \in Ids \cup {NoId}
  /\ attributes_target \in AttributesHandlers \cup {Null}
  /\ attributes_id \in Ids \cup {NoId}
  /\ legacy \in BOOLEAN
  /\ pc \in [Threads -> PcValues]
  /\ call \in [Threads -> AllCalls]
  /\ loaded \in [Threads -> Handlers \cup {Null}]
  /\ waits \in [Threads -> 0..TransitionWaitLimit]
  /\ outcome \in [Threads -> [result : Results, via : Vias, target : Targets]]
  /\ calls \in 0..MaxCalls
  /\ registered \in BOOLEAN
  /\ armed \in [Threads -> BOOLEAN]

Registering(t) == pc[t] \in {"reg_target", "reg_legacy", "reg_convention", "reg_publish"}
Activating(t) == pc[t] \in {"act_target", "act_system", "act_convention", "act_publish"}
Owner(t) == Registering(t) \/ Activating(t)

(* The compare_exchange of routing elects one owner: no two threads are       *)
(* between a winning exchange and the store that publishes the result, and   *)
(* routing shows the owner's transition for all that time.                   *)
TransitionHasOneOwner ==
  /\ \A t, u \in Threads : Owner(t) /\ Owner(u) => t = u
  /\ \A t \in Threads : Registering(t) => routing = "RegisteringResumeTarget"
  /\ \A t \in Threads :
       Activating(t) => routing \in {"RegisteringDualDispatch", "PromotingDualDispatch"}

(* Two atomics, one protocol: once DualDispatch is published every reader     *)
(* finds the DualDispatch convention, and no registration in another thread  *)
(* ever takes the convention back.                                           *)
ConventionMatchesRouting ==
  /\ routing = "DualDispatch" => convention = "DualDispatch"
  /\ convention = "DualDispatch" =>
       routing \in {"RegisteringDualDispatch", "PromotingDualDispatch", "DualDispatch"}

(* Once some REGISTER_RESUME_HANDLER was Consumed, the protocol in force has  *)
(* a handler: resume_target until DualDispatch is published, system_target   *)
(* from then on, whatever the order of registration and promotion.           *)
ConsumedHandlerIsLive ==
  registered =>
    IF routing = "DualDispatch" THEN system_target # Null ELSE resume_target # Null

(* A syscall that starts after a resume handler was Consumed is never         *)
(* declined for want of a registration, and is never sent to a null handler: *)
(* not even while another thread promotes the process to dual dispatch.      *)
RegisteredSyscallsAreRouted ==
  \A t \in Threads :
    pc[t] = "idle" /\ call[t].leaf = "route_syscall" /\ armed[t] =>
      /\ outcome[t].via # "routing"
      /\ outcome[t].via = "Resume" => outcome[t].target # Null
      /\ outcome[t].via = "System" /\ call[t].r10_zero /\ call[t].rcx_user =>
           outcome[t].target # Null

(* resume_identity_unarmed reads routing and then resume_target; no           *)
(* interleaving makes a process whose handler was Consumed look unarmed.     *)
ArmedIdentityStaysArmed ==
  \A t \in Threads :
    pc[t] = "idle" /\ call[t].leaf = "resume_identity_unarmed" /\ armed[t] =>
      outcome[t].result # "True"

Rank == [Unregistered |-> 0, RegisteringResumeTarget |-> 1, ResumeTarget |-> 2,
         RegisteringDualDispatch |-> 3, PromotingDualDispatch |-> 3, DualDispatch |-> 4]

(* Registration only advances: routing never returns to an earlier stage and  *)
(* DualDispatch is final, so a stale compare_exchange cannot undo it.        *)
RoutingOnlyAdvances == [][Rank[routing] <= Rank[routing']]_routing

(* A call always returns: the bounded waits give up even in a forked child    *)
(* whose transition owner does not exist any more.                           *)
EveryCallReturns ==
  \A t \in Threads : pc[t] \notin {"idle", "gone"} ~> pc[t] \in {"idle", "gone"}
=============================================================================
