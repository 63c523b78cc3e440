------------------------- MODULE ReflexStateProofs -------------------------
(***************************************************************************)
(* Theorems about the Reflex registration state machine, for every set of   *)
(* threads, handlers and services and every bound: types, the single owner  *)
(* of a transition, the agreement of routing and convention, the handler in *)
(* force, and what a concurrent reader (route_syscall, and                   *)
(* resume_identity_unarmed) may see of them.                                 *)
(***************************************************************************)
EXTENDS ReflexState, TLAPS

-----------------------------------------------------------------------------
(* Types.  The shared atomics and the local state are treated apart: an      *)
(* action changes the local state by Begin, Move, Return or Fork only.       *)

ResumePcs == {"identity", "register", "reg_wait", "reg_dual", "reg_patch", "reg_store",
              "reg_target", "reg_legacy", "reg_convention", "reg_publish"}
PidPcs == {"pid", "pid_store", "pid_patch"}
ControlPcs == ResumePcs \cup PidPcs \cup
  {"trivial", "arm", "arm_routing", "activate", "act_wait", "act_target", "act_system",
   "act_convention", "act_publish", "act_legacy", "store"}

Outcomes == [result : Results, via : Vias, target : Targets]

SharedOK ==
  /\ routing \in RoutingStates
  /\ identity \in {"Unobserved", "Process", "DebugRegisterThread"}
  /\ target_pid \in Pids \cup {Null}
  /\ convention \in Conventions
  /\ resume_target \in Handlers \cup {Null}
  /\ system_target \in Handlers \cup {Null}
  /\ system_id \in Ids \cup {NoId}
  /\ attributes_target \in AttributesHandlers \cup {Null}
  /\ attributes_id \in Ids \cup {NoId}
  /\ legacy \in BOOLEAN

WaitsOK ==
  /\ loaded \in [Threads -> Handlers \cup {Null}]
  /\ waits \in [Threads -> 0..TransitionWaitLimit]

(* A thread is where its call can be. *)
CallAgrees ==
  \A t \in Threads :
    /\ pc[t] \in ControlPcs =>
         /\ call[t] \in ControlCalls
         /\ pc[t] \in ResumePcs <=> call[t].leaf = "REGISTER_RESUME_HANDLER"
    /\ pc[t] \in PidPcs => call[t].leaf = "REGISTER_TARGET_PID"
    /\ pc[t] = "has_routing" => call[t].leaf = "has_registered_target_process"
    /\ pc[t] = "has_pid" => call[t].leaf = "has_registered_target_process"

LocalOK ==
  /\ pc \in [Threads -> PcValues]
  /\ call \in [Threads -> AllCalls]
  /\ outcome \in [Threads -> Outcomes]
  /\ calls \in 0..MaxCalls
  /\ registered \in BOOLEAN
  /\ armed \in [Threads -> BOOLEAN]
  /\ CallAgrees

TypeInv == SharedOK /\ WaitsOK /\ LocalOK

(* What a control call carries: the argument each leaf is stored from. *)
LEMMA CallArguments ==
  ASSUME NEW c \in AllCalls
  PROVE  /\ c.leaf = "REGISTER_RESUME_HANDLER" => c.arg \in Handlers
         /\ c.leaf = "REGISTER_ATTRIBUTES_HANDLER" => c.arg \in AttributesHandlers
         /\ c.leaf \in {"REGISTER_SYSTEM_SYSCALL_ID", "REGISTER_ATTRIBUTES_SYSCALL_ID"}
              => c.arg \in Ids
         /\ c.leaf = "REGISTER_TARGET_PID" => c.arg \in Pids
  BY Zenon DEF AllCalls, ControlCalls, RouteCalls, QueryCalls

(* A call starts at a step of its own leaf. *)
LEMMA FirstSteps ==
  ASSUME NEW c \in AllCalls
  PROVE  /\ FirstStep(c.leaf) \in PcValues
         /\ FirstStep(c.leaf) \in ControlPcs =>
              /\ c \in ControlCalls
              /\ FirstStep(c.leaf) \in ResumePcs <=> c.leaf = "REGISTER_RESUME_HANDLER"
         /\ FirstStep(c.leaf) \in PidPcs => c.leaf = "REGISTER_TARGET_PID"
         /\ FirstStep(c.leaf) = "has_pid" => c.leaf = "has_registered_target_process"
         /\ FirstStep(c.leaf) \in {"trivial", "arm", "identity", "pid", "activate",
                                   "route", "has_pid", "unarmed"}
  BY DEF AllCalls, ControlCalls, RouteCalls, QueryCalls, FirstStep, PcValues,
         ControlPcs, ResumePcs, PidPcs

(* The steps of one call, as MoveKeepsLocal needs them. *)
SameCall(from, to) ==
  /\ to \in PcValues
  /\ to \in ControlPcs => from \in ControlPcs /\ (to \in ResumePcs <=> from \in ResumePcs)
  /\ to \in PidPcs => from \in PidPcs
  /\ to = "has_routing" => from = "has_pid"
  /\ to # "has_pid"

(* Moving on inside a call keeps the local state well typed. *)
LEMMA MoveKeepsLocal ==
  ASSUME LocalOK, NEW t \in Threads, NEW from, NEW to,
         SameCall(from, to), Move(t, from, to)
  PROVE  LocalOK'
  BY Zenon DEF LocalOK, CallAgrees, SameCall, Move, history

(* So does returning an answer that is Consumed only for a control call. *)
LEMMA ReturnKeepsLocal ==
  ASSUME LocalOK, NEW t \in Threads, NEW from, NEW answer \in Outcomes,
         answer.result = "Consumed" => from \in ControlPcs,
         Return(t, from, answer)
  PROVE  LocalOK' /\ loaded' = loaded /\ waits' = waits
<1>1. "idle" \in PcValues /\ "idle" \notin ControlPcs /\ "idle" \notin ResumePcs
        /\ "idle" \notin PidPcs
  BY Zenon DEF PcValues, ControlPcs, ResumePcs, PidPcs
<1>2. registered' \in BOOLEAN
  BY Zenon DEF Return
<1>3. QED
  BY <1>1, <1>2, Zenon DEF LocalOK, CallAgrees, Return

(* The answers the handlers give are outcomes. *)
LEMMA Answers ==
  /\ \A r \in Results : Answer(r) \in Outcomes /\ Answer(r).result = r
       /\ Answer(r).via = "none"
  /\ \A v \in Vias : Declined(v) \in Outcomes /\ Declined(v).result = "None"
       /\ Declined(v).via = v
  /\ \A v \in Vias, h \in Targets :
       /\ Routed(v, h) \in Outcomes
       /\ Routed(v, h).result \in {"None", "Some"}
       /\ Routed(v, h).via = v
       /\ Routed(v, h).target = h
<1>1. ASSUME NEW r \in Results
      PROVE  Answer(r) \in Outcomes /\ Answer(r).result = r /\ Answer(r).via = "none"
  BY Zenon DEF Answer, NoOutcome, Outcomes, Vias, Targets
<1>2. ASSUME NEW v \in Vias
      PROVE  Declined(v) \in Outcomes /\ Declined(v).result = "None" /\ Declined(v).via = v
  BY Zenon DEF Declined, NoOutcome, Outcomes, Results, Targets
<1>3. ASSUME NEW v \in Vias, NEW h \in Targets
      PROVE  /\ Routed(v, h) \in Outcomes
             /\ Routed(v, h).result \in {"None", "Some"}
             /\ Routed(v, h).via = v
             /\ Routed(v, h).target = h
  BY Zenon DEF Routed, Outcomes, Results
<1>4. QED
  BY <1>1, <1>2, <1>3, Zenon

(* The call a thread is making carries what its step stores. *)
LEMMA CurrentArgument ==
  ASSUME LocalOK, NEW t \in Threads
  PROVE  /\ pc[t] \in ResumePcs => call[t].arg \in Handlers
         /\ pc[t] \in PidPcs => call[t].arg \in Pids
         /\ call[t].leaf = "REGISTER_ATTRIBUTES_HANDLER" =>
              call[t].arg \in AttributesHandlers
         /\ call[t].leaf \in {"REGISTER_SYSTEM_SYSCALL_ID",
                              "REGISTER_ATTRIBUTES_SYSCALL_ID"} => call[t].arg \in Ids
  BY CallArguments, Zenon DEF LocalOK, CallAgrees, ControlPcs

(* The step a thread takes is the one its program counter names. *)
LEMMA MoveFrom == ASSUME NEW t, NEW from, NEW to, Move(t, from, to) PROVE pc[t] = from
  BY Zenon DEF Move

(* Likewise for a Return. *)
LEMMA ReturnFrom ==
  ASSUME NEW t, NEW from, NEW answer, Return(t, from, answer) PROVE pc[t] = from
  BY Zenon DEF Return

(* Waiting for another thread's transition keeps the types. *)
LEMMA WaitKeepsTypes ==
  ASSUME TypeInv, NEW t \in Threads, NEW here \in ControlPcs, NEW loop,
         SameCall(here, loop), SameCall(here, here),
         WaitForTransition(t, here, loop)
  PROVE  TypeInv'
<1> USE DEF TypeInv
<1>1. CASE routing \notin Transitional
  BY <1>1, MoveKeepsLocal, ConstantsAssumption
  DEF WaitForTransition, SharedOK, WaitsOK, shared, registers
<1>2. CASE Move(t, here, here) /\ waits[t] + 1 < TransitionWaitLimit
           /\ waits' = [waits EXCEPT ![t] = @ + 1] /\ UNCHANGED <<shared, loaded>>
  BY <1>2, MoveKeepsLocal, ConstantsAssumption DEF SharedOK, WaitsOK, shared, registers
<1>3. CASE Return(t, here, Answer("Native")) /\ UNCHANGED shared
  BY <1>3, ReturnKeepsLocal, Answers, ZenonT(30) DEF SharedOK, WaitsOK, shared, registers, Results
<1>4. QED
  BY <1>1, <1>2, <1>3, Zenon DEF WaitForTransition

(* Every Move of a call stays in that call. *)
LEMMA Hops ==
  /\ SameCall("act_convention", "act_publish")
  /\ SameCall("act_legacy", "store")
  /\ SameCall("act_publish", "act_legacy")
  /\ SameCall("act_system", "act_convention")
  /\ SameCall("act_target", "act_system")
  /\ SameCall("act_wait", "act_wait") /\ SameCall("act_wait", "activate")
  /\ SameCall("activate", "act_target") /\ SameCall("activate", "act_wait") /\ SameCall("activate", "store")
  /\ SameCall("arm", "arm_routing")
  /\ SameCall("has_pid", "has_routing")
  /\ SameCall("identity", "register")
  /\ SameCall("pid", "pid_store")
  /\ SameCall("pid_store", "pid_patch")
  /\ SameCall("reg_convention", "reg_publish")
  /\ SameCall("reg_legacy", "reg_convention") /\ SameCall("reg_legacy", "reg_publish")
  /\ SameCall("reg_patch", "reg_store")
  /\ SameCall("reg_target", "reg_legacy")
  /\ SameCall("reg_wait", "reg_wait") /\ SameCall("reg_wait", "register")
  /\ SameCall("register", "reg_dual") /\ SameCall("register", "reg_patch") /\ SameCall("register", "reg_target") /\ SameCall("register", "reg_wait")
  /\ SameCall("route", "route_convention")
  /\ SameCall("route_attributes_id", "route_attributes_target")
  /\ SameCall("route_convention", "route_resume") /\ SameCall("route_convention", "route_selector") /\ SameCall("route_convention", "route_system_id")
  /\ SameCall("route_system_id", "route_attributes_id") /\ SameCall("route_system_id", "route_system_target")
  /\ SameCall("unarmed", "unarmed_target")
  BY ZenonT(30) DEF SameCall, PcValues, ControlPcs, ResumePcs, PidPcs

(* Where the stores and the waits of a call are. *)
LEMMA Places ==
  /\ "act_wait" \in ControlPcs /\ "reg_wait" \in ControlPcs
  /\ "reg_dual" \in ResumePcs /\ "reg_store" \in ResumePcs /\ "reg_target" \in ResumePcs
  /\ "pid_store" \in PidPcs
  BY Zenon DEF ControlPcs, ResumePcs, PidPcs

(* The answers of a control leaf, of a routing decision and of a query. *)
LEMMA ControlReturns ==
  ASSUME LocalOK, NEW t \in Threads, NEW r \in Results,
         NEW from \in {"trivial", "arm_routing", "store", "act_wait", "reg_wait", "reg_dual",
                       "reg_patch", "reg_store", "reg_publish", "pid", "pid_patch"},
         Return(t, from, Answer(r))
  PROVE  LocalOK' /\ loaded' = loaded /\ waits' = waits
<1>1. from \in ControlPcs
  BY Zenon DEF ControlPcs, ResumePcs, PidPcs
<1>2. Answer(r) \in Outcomes
  BY Answers, Zenon
<1> QED
  BY <1>1, <1>2, ReturnKeepsLocal, Zenon

(* The same for an answer that is not Consumed. *)
LEMMA OtherReturns ==
  ASSUME LocalOK, NEW t \in Threads, NEW from, NEW answer,
         Return(t, from, answer),
         \/ \E r \in Results \ {"Consumed"} : answer = Answer(r)
         \/ \E v \in Vias : answer = Declined(v)
         \/ \E v \in Vias, h \in Targets : answer = Routed(v, h)
  PROVE  LocalOK' /\ loaded' = loaded /\ waits' = waits
<1>1. answer \in Outcomes /\ answer.result # "Consumed"
  <2>1. ASSUME NEW r \in Results \ {"Consumed"}, answer = Answer(r)
        PROVE  answer \in Outcomes /\ answer.result # "Consumed"
    BY <2>1, Answers, Zenon
  <2>2. ASSUME NEW v \in Vias, answer = Declined(v)
        PROVE  answer \in Outcomes /\ answer.result # "Consumed"
    BY <2>2, Answers, Zenon
  <2>3. ASSUME NEW v \in Vias, NEW h \in Targets, answer = Routed(v, h)
        PROVE  answer \in Outcomes /\ answer.result # "Consumed"
    BY <2>3, Answers, Zenon
  <2> QED
    BY <2>1, <2>2, <2>3, Zenon
<1> QED
  BY <1>1, ReturnKeepsLocal, Zenon

(* Every step keeps the types: the targets are handlers registered for them. *)
LEMMA TypeStep ==
  ASSUME TypeInv, [Next]_vars
  PROVE  TypeInv'
<1> USE MoveKeepsLocal, ControlReturns, OtherReturns, Hops
    DEF TypeInv, SharedOK, WaitsOK, shared, registers, Results, Vias, Targets
<1>1. ASSUME NEW t \in Threads, TrivialLeaf(t) PROVE TypeInv'
  BY <1>1, Zenon DEF TrivialLeaf
<1>2. ASSUME NEW t \in Threads, ArmTargetCr3(t) PROVE TypeInv'
  BY <1>2, Zenon DEF ArmTargetCr3
<1>3. ASSUME NEW t \in Threads, ArmTargetCr3Routing(t) PROVE TypeInv'
  BY <1>3, Zenon DEF ArmTargetCr3Routing
<1>4. ASSUME NEW t \in Threads, ActivateLoop(t) PROVE TypeInv'
  <2>1. SameCall("activate", "store") /\ SameCall("activate", "act_target")
        /\ SameCall("activate", "act_wait")
    BY Zenon
  <2>2. LocalOK'
    BY <1>4, <2>1, ZenonT(30) DEF ActivateLoop
  <2>3. routing' \in RoutingStates
    BY <1>4, ZenonT(30) DEF ActivateLoop, RoutingStates
  <2>4. QED
    BY <1>4, <2>2, <2>3, Zenon DEF ActivateLoop
<1>5. ASSUME NEW t \in Threads, ActivateWait(t) PROVE TypeInv'
  BY <1>5, WaitKeepsTypes, Places, Zenon DEF ActivateWait
<1>6. ASSUME NEW t \in Threads, ActivateLoadTarget(t) PROVE TypeInv'
  BY <1>6, Zenon DEF ActivateLoadTarget
<1>7. ASSUME NEW t \in Threads, ActivateSystemTarget(t) PROVE TypeInv'
  BY <1>7, Zenon DEF ActivateSystemTarget
<1>8. ASSUME NEW t \in Threads, ActivateConvention(t) PROVE TypeInv'
  BY <1>8, Zenon DEF ActivateConvention, Conventions
<1>9. ASSUME NEW t \in Threads, ActivatePublish(t) PROVE TypeInv'
  BY <1>9, Zenon DEF ActivatePublish, RoutingStates
<1>10. ASSUME NEW t \in Threads, ActivateLegacy(t) PROVE TypeInv'
  BY <1>10, Zenon DEF ActivateLegacy
<1>11. ASSUME NEW t \in Threads, StoreRegistration(t) PROVE TypeInv'
  BY <1>11, CurrentArgument, Places, ReturnFrom, Zenon DEF StoreRegistration
<1>12. ASSUME NEW t \in Threads, InferIdentity(t) PROVE TypeInv'
  BY <1>12, Zenon DEF InferIdentity
<1>13. ASSUME NEW t \in Threads, RegisterLoop(t) PROVE TypeInv'
  BY <1>13 DEF RegisterLoop, RoutingStates
<1>14. ASSUME NEW t \in Threads, RegisterWait(t) PROVE TypeInv'
  BY <1>14, WaitKeepsTypes, Places, ZenonT(30) DEF RegisterWait
<1>15. ASSUME NEW t \in Threads, RegisterInDualDispatch(t) PROVE TypeInv'
  BY <1>15, CurrentArgument, Places, ReturnFrom, Zenon DEF RegisterInDualDispatch
<1>16. ASSUME NEW t \in Threads, RegisterPatch(t) PROVE TypeInv'
  BY <1>16 DEF RegisterPatch
<1>17. ASSUME NEW t \in Threads, RegisterReplace(t) PROVE TypeInv'
  BY <1>17, CurrentArgument, Places, ReturnFrom, Zenon DEF RegisterReplace
<1>18. ASSUME NEW t \in Threads, RegisterTarget(t) PROVE TypeInv'
  BY <1>18, CurrentArgument, Places, MoveFrom, Zenon DEF RegisterTarget
<1>19. ASSUME NEW t \in Threads, RegisterLegacy(t) PROVE TypeInv'
  BY <1>19, Zenon DEF RegisterLegacy
<1>20. ASSUME NEW t \in Threads, RegisterConvention(t) PROVE TypeInv'
  BY <1>20, Zenon DEF RegisterConvention, Conventions
<1>21. ASSUME NEW t \in Threads, RegisterPublish(t) PROVE TypeInv'
  BY <1>21, Zenon DEF RegisterPublish, RoutingStates
<1>22. ASSUME NEW t \in Threads, PidRouting(t) PROVE TypeInv'
  BY <1>22 DEF PidRouting
<1>23. ASSUME NEW t \in Threads, PidStore(t) PROVE TypeInv'
  BY <1>23, CurrentArgument, Places, MoveFrom, Zenon DEF PidStore
<1>24. ASSUME NEW t \in Threads, PidPatch(t) PROVE TypeInv'
  BY <1>24 DEF PidPatch
<1>25. ASSUME NEW t \in Threads, RouteRouting(t) PROVE TypeInv'
  BY <1>25 DEF RouteRouting
<1>26. ASSUME NEW t \in Threads, RouteConvention(t) PROVE TypeInv'
  <2>1. CASE convention = "ResumeReplay"
    BY <1>26, <2>1, Zenon DEF RouteConvention
  <2>2. CASE convention = "SelectorDispatch"
    BY <1>26, <2>2 DEF RouteConvention
  <2>3. CASE convention = "DualDispatch"
    BY <1>26, <2>3 DEF RouteConvention
  <2>4. QED
    BY <2>1, <2>2, <2>3, Zenon DEF Conventions
<1>27. ASSUME NEW t \in Threads, RouteResume(t) PROVE TypeInv'
  BY <1>27 DEF RouteResume
<1>28. ASSUME NEW t \in Threads, RouteSystemId(t) PROVE TypeInv'
  BY <1>28 DEF RouteSystemId
<1>29. ASSUME NEW t \in Threads, RouteSystemTarget(t) PROVE TypeInv'
  BY <1>29, Zenon DEF RouteSystemTarget
<1>30. ASSUME NEW t \in Threads, RouteAttributesId(t) PROVE TypeInv'
  BY <1>30, SMTT(30) DEF RouteAttributesId
<1>31. ASSUME NEW t \in Threads, RouteAttributesTarget(t) PROVE TypeInv'
  BY <1>31, Zenon DEF RouteAttributesTarget
<1>32. ASSUME NEW t \in Threads, HasTargetPid(t) PROVE TypeInv'
  BY <1>32 DEF HasTargetPid
<1>33. ASSUME NEW t \in Threads, HasTargetRouting(t) PROVE TypeInv'
  BY <1>33 DEF HasTargetRouting
<1>34. ASSUME NEW t \in Threads, UnarmedRouting(t) PROVE TypeInv'
  BY <1>34, SMTT(30) DEF UnarmedRouting
<1>35. ASSUME NEW t \in Threads, UnarmedTarget(t) PROVE TypeInv'
  BY <1>35, Zenon DEF UnarmedTarget
<1> HIDE MoveKeepsLocal, ControlReturns, OtherReturns, Hops DEF Results, Vias, Targets
<1>36. ASSUME NEW t \in Threads, Begin(t) PROVE TypeInv'
  <2>1. PICK c \in Calls[t] : /\ call' = [call EXCEPT ![t] = c]
                            /\ pc' = [pc EXCEPT ![t] = FirstStep(c.leaf)]
    BY <1>36, Zenon DEF Begin
  <2>2. c \in AllCalls
    BY ConstantsAssumption, Zenon
  <2>3. NoOutcome \in Outcomes
    BY Zenon DEF NoOutcome, Outcomes, Results, Vias, Targets
  <2>4. CallAgrees'
    BY <2>1, <2>2, FirstSteps, Zenon DEF LocalOK, CallAgrees
  <2>5. LocalOK'
    BY <1>36, <2>1, <2>2, <2>3, <2>4, FirstSteps, ConstantsAssumption DEF Begin, LocalOK
  <2>6. QED
    BY <1>36, <2>5, ConstantsAssumption DEF Begin
<1>37. ASSUME NEW t \in Threads, Fork(t) PROVE TypeInv'
  BY <1>37 DEF Fork, LocalOK, CallAgrees, history, PcValues, ControlPcs,
               ResumePcs, PidPcs
<1>38. CASE SelectCallerPresentation
  BY <1>38, ZenonT(30) DEF SelectCallerPresentation, LocalOK, CallAgrees, local, history
<1>39. CASE UNCHANGED vars
  BY <1>39, ZenonT(30) DEF vars, LocalOK, CallAgrees, local, history
<1>40. QED
  BY <1>1, <1>2, <1>3, <1>4, <1>5, <1>6, <1>7, <1>8, <1>9, <1>10, <1>11, <1>12,
     <1>13, <1>14, <1>15, <1>16, <1>17, <1>18, <1>19, <1>20, <1>21, <1>22, <1>23,
     <1>24, <1>25, <1>26, <1>27, <1>28, <1>29, <1>30, <1>31, <1>32, <1>33, <1>34,
     <1>35, <1>36, <1>37, <1>38, <1>39, ZenonT(30)
  DEF Next, Step


-----------------------------------------------------------------------------
(* The inductive invariant. *)

(* The owner that is about to publish DualDispatch has set its convention. *)
ConventionInv ==
  /\ ConventionMatchesRouting
  /\ \A t \in Threads : pc[t] = "act_publish" => convention = "DualDispatch"

(* Where the handler in force is, at every point of both transitions. *)
HandlerInv ==
  /\ routing \in {"ResumeTarget", "PromotingDualDispatch"} => resume_target # Null
  /\ routing = "DualDispatch" /\ registered => system_target # Null
  /\ registered =>
       routing \in {"ResumeTarget", "PromotingDualDispatch", "DualDispatch"}
  /\ routing = "PromotingDualDispatch" /\ convention = "DualDispatch" =>
       system_target # Null
  /\ \A t \in Threads :
       /\ pc[t] \in {"reg_legacy", "reg_convention", "reg_publish"} => resume_target # Null
       /\ pc[t] = "reg_dual" => routing = "DualDispatch"
       /\ pc[t] \in {"reg_patch", "reg_store"} =>
            /\ routing \in {"ResumeTarget", "PromotingDualDispatch", "DualDispatch"}
            /\ routing = "DualDispatch" => system_target # Null
       /\ pc[t] = "act_system" /\ routing = "PromotingDualDispatch" => loaded[t] # Null
       /\ pc[t] \in {"act_convention", "act_publish"}
            /\ routing = "PromotingDualDispatch" => system_target # Null

(* What a reader that was armed when it began has already seen stays true    *)
(* until it answers.                                                         *)
ReaderInv ==
  /\ \A t \in Threads : armed[t] => registered
  /\ \A t \in Threads :
       armed[t] =>
         /\ pc[t] \in {"route_resume", "route_selector", "unarmed_target"} =>
              resume_target # Null
         /\ pc[t] \in {"route_system_id", "route_system_target"} => system_target # Null
  /\ RegisteredSyscallsAreRouted
  /\ ArmedIdentityStaysArmed

IInv == TypeInv /\ TransitionHasOneOwner /\ ConventionInv /\ HandlerInv /\ ReaderInv

-----------------------------------------------------------------------------
(* Frames: what the steps that neither own nor read a transition leave alone. *)

Critical == {"act_target", "act_system", "act_convention", "act_publish",
             "reg_target", "reg_legacy", "reg_convention", "reg_publish",
             "reg_dual", "reg_patch", "reg_store"}

ReaderPcs == {"route_resume", "route_selector", "unarmed_target", "route_system_id",
              "route_system_target"}

(* The registration state and the other threads are as before. *)
Frame(t) ==
  /\ routing' = routing
  /\ convention' = convention
  /\ resume_target' = resume_target
  /\ system_target' = system_target
  /\ registered' = registered
  /\ \A u \in Threads \ {t} : pc'[u] = pc[u] /\ loaded'[u] = loaded[u]
  /\ pc'[t] \notin Critical

OthersReadOn(t) ==
  /\ armed' = armed
  /\ \A u \in Threads \ {t} :
       pc'[u] = pc[u] /\ outcome'[u] = outcome[u] /\ call'[u] = call[u]

QuietStep(t) ==
  \/ TrivialLeaf(t) \/ ArmTargetCr3(t) \/ ArmTargetCr3Routing(t) \/ ActivateWait(t)
  \/ ActivateLegacy(t) \/ StoreRegistration(t) \/ InferIdentity(t) \/ RegisterWait(t)
  \/ PidRouting(t) \/ PidStore(t) \/ PidPatch(t) \/ HasTargetPid(t) \/ HasTargetRouting(t)

ReaderStep(t) ==
  \/ RouteRouting(t) \/ RouteConvention(t) \/ RouteResume(t) \/ RouteSystemId(t)
  \/ RouteSystemTarget(t) \/ RouteAttributesId(t) \/ RouteAttributesTarget(t)
  \/ UnarmedRouting(t) \/ UnarmedTarget(t)

OwnerStep(t) ==
  \/ ActivateLoop(t) \/ ActivateLoadTarget(t) \/ ActivateSystemTarget(t)
  \/ ActivateConvention(t) \/ ActivatePublish(t) \/ RegisterLoop(t)
  \/ RegisterInDualDispatch(t) \/ RegisterPatch(t) \/ RegisterReplace(t)
  \/ RegisterTarget(t) \/ RegisterLegacy(t) \/ RegisterConvention(t)
  \/ RegisterPublish(t)

(* A Move changes one program counter. *)
LEMMA MoveFrame ==
  ASSUME TypeInv, NEW t \in Threads, NEW from, NEW to, Move(t, from, to)
  PROVE  /\ pc[t] = from
         /\ pc'[t] = to
         /\ registered' = registered
         /\ call' = call
         /\ outcome' = outcome
         /\ OthersReadOn(t)
  BY Zenon DEF Move, TypeInv, LocalOK, OthersReadOn, history

(* A Return changes one program counter, one outcome and, when it is a       *)
(* Consumed resume registration, the history.                                *)
LEMMA ReturnFrame ==
  ASSUME TypeInv, NEW t \in Threads, NEW from, NEW answer, Return(t, from, answer)
  PROVE  /\ pc[t] = from
         /\ pc'[t] = "idle"
         /\ outcome'[t] = answer
         /\ call' = call
         /\ loaded' = loaded
         /\ OthersReadOn(t)
         /\ registered => registered'
         /\ answer.result # "Consumed" \/ pc[t] \in ControlPcs \ ResumePcs =>
              registered' = registered
<1>1. answer.result # "Consumed" \/ pc[t] \in ControlPcs \ ResumePcs =>
        registered' = registered
  BY ZenonT(30) DEF Return, TypeInv, LocalOK, CallAgrees
<1>2. registered => registered'
  BY Zenon DEF Return
<1>3. QED
  BY <1>1, <1>2, Zenon DEF Return, TypeInv, LocalOK, OthersReadOn

(* A step that takes no part in a transition leaves the registration state   *)
(* alone, and what it returns is not a routing decision.                     *)
LEMMA QuietFrame ==
  ASSUME TypeInv, NEW t \in Threads, QuietStep(t)
  PROVE  /\ Frame(t)
         /\ OthersReadOn(t)
         /\ pc'[t] \notin ReaderPcs
         /\ pc'[t] = "idle" =>
              /\ outcome'[t].via = "none"
              /\ call'[t].leaf = "resume_identity_unarmed" => outcome'[t].result # "True"
<1> USE MoveFrame, ReturnFrame, Answers
    DEF Frame, OthersReadOn, Critical, ReaderPcs, ControlPcs, ResumePcs, PidPcs,
        Results, shared, registers
<1>1. CASE TrivialLeaf(t)
  BY <1>1 DEF TrivialLeaf
<1>2. CASE ArmTargetCr3(t)
  BY <1>2 DEF ArmTargetCr3
<1>3. CASE ArmTargetCr3Routing(t)
  BY <1>3 DEF ArmTargetCr3Routing
<1>4. CASE ActivateWait(t)
  BY <1>4 DEF ActivateWait, WaitForTransition
<1>5. CASE ActivateLegacy(t)
  BY <1>5 DEF ActivateLegacy
<1>6. CASE StoreRegistration(t)
  BY <1>6 DEF StoreRegistration
<1>7. CASE InferIdentity(t)
  BY <1>7 DEF InferIdentity
<1>8. CASE RegisterWait(t)
  BY <1>8 DEF RegisterWait, WaitForTransition
<1>9. CASE PidRouting(t)
  BY <1>9 DEF PidRouting
<1>10. CASE PidStore(t)
  BY <1>10 DEF PidStore
<1>11. CASE PidPatch(t)
  BY <1>11 DEF PidPatch
<1>12. CASE HasTargetPid(t)
  BY <1>12 DEF HasTargetPid
<1>13. CASE HasTargetRouting(t)
  BY <1>13 DEF HasTargetRouting, TypeInv, LocalOK, CallAgrees
<1>14. QED
  BY <1>1, <1>2, <1>3, <1>4, <1>5, <1>6, <1>7, <1>8, <1>9, <1>10, <1>11, <1>12,
     <1>13, Zenon DEF QuietStep

(* A load that moves on leaves the registration state alone. *)
LEMMA LoadMoves ==
  ASSUME TypeInv, NEW t \in Threads, NEW from, NEW to, Move(t, from, to), to \notin Critical,
         UNCHANGED <<shared, loaded>>
  PROVE  Frame(t) /\ OthersReadOn(t)
<1>1. pc'[t] = to /\ registered' = registered /\ OthersReadOn(t)
  BY MoveFrame, Zenon
<1> QED
  BY <1>1, Zenon DEF Frame, OthersReadOn, shared, registers

(* So does a load that answers anything but Consumed. *)
LEMMA LoadReturns ==
  ASSUME TypeInv, NEW t \in Threads, NEW from, NEW answer, Return(t, from, answer),
         answer.result # "Consumed", UNCHANGED shared
  PROVE  Frame(t) /\ OthersReadOn(t)
<1>1. pc'[t] = "idle" /\ registered' = registered /\ loaded' = loaded /\ OthersReadOn(t)
  BY ReturnFrame, Zenon
<1>2. "idle" \notin Critical
  BY Zenon DEF Critical
<1> QED
  BY <1>1, <1>2, Zenon DEF Frame, OthersReadOn, shared, registers

(* The routing answers are never Consumed. *)
LEMMA RoutingAnswers ==
  /\ \A v \in Vias : Declined(v).result # "Consumed"
  /\ \A v \in Vias, h \in Targets : Routed(v, h).result # "Consumed"
  /\ \A r \in Results \ {"Consumed"} : Answer(r).result # "Consumed"
  BY Answers, Zenon

(* route_syscall and resume_identity_unarmed only load: the registration     *)
(* state stays as it is.                                                     *)
LEMMA ReaderFrame ==
  ASSUME TypeInv, NEW t \in Threads, ReaderStep(t)
  PROVE  Frame(t) /\ OthersReadOn(t)
<1> USE LoadMoves, LoadReturns, RoutingAnswers DEF Critical, Results, Vias, Targets
<1>1. CASE RouteRouting(t)
  BY <1>1, Zenon DEF RouteRouting
<1>2. CASE RouteConvention(t)
  BY <1>2, Zenon DEF RouteConvention
<1>3. CASE RouteResume(t)
  BY <1>3, Zenon DEF RouteResume, TypeInv, SharedOK
<1>4. CASE RouteSystemId(t)
  BY <1>4, Zenon DEF RouteSystemId
<1>5. CASE RouteSystemTarget(t)
  BY <1>5, Zenon DEF RouteSystemTarget, TypeInv, SharedOK
<1>6. CASE RouteAttributesId(t)
  BY <1>6, Zenon DEF RouteAttributesId
<1>7. CASE RouteAttributesTarget(t)
  BY <1>7, Zenon DEF RouteAttributesTarget, TypeInv, SharedOK
<1>8. CASE UnarmedRouting(t)
  BY <1>8, Zenon DEF UnarmedRouting
<1>9. CASE UnarmedTarget(t)
  BY <1>9, Zenon DEF UnarmedTarget
<1>10. QED
  BY <1>1, <1>2, <1>3, <1>4, <1>5, <1>6, <1>7, <1>8, <1>9, ZenonT(30) DEF ReaderStep

(* Beginning a call, and forking, leave the registration state alone too. *)
LEMMA BeginFrame ==
  ASSUME TypeInv, NEW t \in Threads, Begin(t)
  PROVE  /\ Frame(t)
         /\ pc'[t] \notin ReaderPcs \cup {"idle"}
         /\ armed' = [armed EXCEPT ![t] = registered]
         /\ \A u \in Threads \ {t} : outcome'[u] = outcome[u] /\ call'[u] = call[u]
<1>1. PICK c \in Calls[t] : /\ call' = [call EXCEPT ![t] = c]
                          /\ pc' = [pc EXCEPT ![t] = FirstStep(c.leaf)]
  BY Zenon DEF Begin
<1>2. FirstStep(c.leaf) \in {"trivial", "arm", "identity", "pid", "activate", "route",
                             "has_pid", "unarmed"}
  BY FirstSteps, ConstantsAssumption, Zenon
<1>3. QED
  BY <1>1, <1>2, Zenon DEF Begin, TypeInv, LocalOK, WaitsOK, Frame, Critical, ReaderPcs,
                    shared, registers

(* Every step of a call is of one of the three kinds. *)
LEMMA StepCases ==
  ASSUME NEW t \in Threads, Step(t) PROVE QuietStep(t) \/ ReaderStep(t) \/ OwnerStep(t)
  BY Zenon DEF Step, QuietStep, ReaderStep, OwnerStep

-----------------------------------------------------------------------------
(* One owner. *)

(* The exchange in the two loops admits one owner, and only the owner's own  *)
(* store ends its transition.                                                *)
LEMMA OwnerInvStep ==
  ASSUME TypeInv, TransitionHasOneOwner, [Next]_vars
  PROVE  TransitionHasOneOwner'
<1> USE DEF TransitionHasOneOwner, Owner, Registering, Activating
<1>1. ASSUME NEW t \in Threads, Frame(t) PROVE TransitionHasOneOwner'
  BY <1>1, ZenonT(30) DEF Frame, Critical
<1>2. ASSUME NEW t \in Threads, OwnerStep(t) PROVE TransitionHasOneOwner'
  <2> USE MoveFrame, ReturnFrame DEF OthersReadOn, shared, registers
  <2>1. CASE ActivateLoop(t)
    BY <2>1 DEF ActivateLoop, Transitional
  <2>2. CASE ActivateLoadTarget(t)
    BY <2>2 DEF ActivateLoadTarget
  <2>3. CASE ActivateSystemTarget(t)
    BY <2>3 DEF ActivateSystemTarget
  <2>4. CASE ActivateConvention(t)
    BY <2>4 DEF ActivateConvention
  <2>5. CASE ActivatePublish(t)
    BY <2>5 DEF ActivatePublish
  <2>6. CASE RegisterLoop(t)
    BY <2>6 DEF RegisterLoop, Transitional
  <2>7. CASE RegisterInDualDispatch(t)
    BY <2>7 DEF RegisterInDualDispatch
  <2>8. CASE RegisterPatch(t)
    BY <2>8 DEF RegisterPatch
  <2>9. CASE RegisterReplace(t)
    BY <2>9 DEF RegisterReplace
  <2>10. CASE RegisterTarget(t)
    BY <2>10 DEF RegisterTarget
  <2>11. CASE RegisterLegacy(t)
    BY <2>11 DEF RegisterLegacy
  <2>12. CASE RegisterConvention(t)
    BY <2>12 DEF RegisterConvention
  <2>13. CASE RegisterPublish(t)
    BY <2>13 DEF RegisterPublish
  <2>14. QED
    BY <1>2, <2>1, <2>2, <2>3, <2>4, <2>5, <2>6, <2>7, <2>8, <2>9, <2>10, <2>11,
       <2>12, <2>13, ZenonT(30) DEF OwnerStep
<1>3. ASSUME NEW t \in Threads, Fork(t) PROVE TransitionHasOneOwner'
  BY <1>3, Zenon DEF Fork, TypeInv, LocalOK, shared, registers, history
<1>4. CASE SelectCallerPresentation \/ UNCHANGED vars
  BY <1>4, Zenon DEF SelectCallerPresentation, vars, shared, registers, local, history
<1>5. QED
  BY <1>1, <1>2, <1>3, <1>4, StepCases, QuietFrame, ReaderFrame, BeginFrame, Zenon DEF Next


-----------------------------------------------------------------------------
(* The convention follows the routing. *)

(* Only owners store to syscall_convention, each before the store that       *)
(* publishes its routing.                                                    *)
LEMMA ConventionInvStep ==
  ASSUME TypeInv, TransitionHasOneOwner, ConventionInv, [Next]_vars
  PROVE  ConventionInv'
<1> USE DEF ConventionInv, ConventionMatchesRouting
<1>1. ASSUME NEW t \in Threads, Frame(t) PROVE ConventionInv'
  BY <1>1, Zenon DEF Frame, Critical
<1>2. ASSUME NEW t \in Threads, OwnerStep(t) PROVE ConventionInv'
  <2> USE MoveFrame, ReturnFrame
      DEF OthersReadOn, shared, registers, TransitionHasOneOwner, Owner, Registering,
          Activating
  <2>1. CASE ActivateLoop(t)
    BY <2>1 DEF ActivateLoop, Transitional
  <2>2. CASE ActivateLoadTarget(t)
    BY <2>2 DEF ActivateLoadTarget
  <2>3. CASE ActivateSystemTarget(t)
    BY <2>3 DEF ActivateSystemTarget
  <2>4. CASE ActivateConvention(t)
    BY <2>4, Zenon DEF ActivateConvention
  <2>5. CASE ActivatePublish(t)
    BY <2>5 DEF ActivatePublish
  <2>6. CASE RegisterLoop(t)
    BY <2>6 DEF RegisterLoop, Transitional
  <2>7. CASE RegisterInDualDispatch(t)
    BY <2>7 DEF RegisterInDualDispatch
  <2>8. CASE RegisterPatch(t)
    BY <2>8 DEF RegisterPatch
  <2>9. CASE RegisterReplace(t)
    BY <2>9 DEF RegisterReplace
  <2>10. CASE RegisterTarget(t)
    BY <2>10 DEF RegisterTarget
  <2>11. CASE RegisterLegacy(t)
    BY <2>11 DEF RegisterLegacy
  <2>12. CASE RegisterConvention(t)
    BY <2>12 DEF RegisterConvention
  <2>13. CASE RegisterPublish(t)
    BY <2>13 DEF RegisterPublish
  <2>14. QED
    BY <1>2, <2>1, <2>2, <2>3, <2>4, <2>5, <2>6, <2>7, <2>8, <2>9, <2>10, <2>11,
       <2>12, <2>13, ZenonT(30) DEF OwnerStep
<1>3. ASSUME NEW t \in Threads, Fork(t) PROVE ConventionInv'
  BY <1>3, Zenon DEF Fork, TypeInv, LocalOK, shared, registers, history
<1>4. CASE SelectCallerPresentation \/ UNCHANGED vars
  BY <1>4, Zenon DEF SelectCallerPresentation, vars, shared, registers, local, history
<1>5. QED
  BY <1>1, <1>2, <1>3, <1>4, StepCases, QuietFrame, ReaderFrame, BeginFrame, Zenon DEF Next

-----------------------------------------------------------------------------
(* The handler in force. *)

(* Every step keeps a handler in force once one was Consumed. *)
LEMMA HandlerInvStep ==
  ASSUME TypeInv, TransitionHasOneOwner, ConventionInv, HandlerInv, [Next]_vars
  PROVE  HandlerInv'
<1> USE DEF HandlerInv
<1>1. ASSUME NEW t \in Threads, Frame(t) PROVE HandlerInv'
  BY <1>1, ZenonT(30) DEF Frame, Critical
<1>2. ASSUME NEW t \in Threads, OwnerStep(t) PROVE HandlerInv'
  <2> USE MoveFrame, ReturnFrame DEF OthersReadOn, shared, registers
  <2> USE DEF TransitionHasOneOwner, Owner, Registering, Activating
  <2>0. pc[t] \in ResumePcs => call[t].arg # Null
    BY CurrentArgument, ConstantsAssumption DEF TypeInv
  <2>1. CASE ActivateLoop(t)
    BY <2>1 DEF ActivateLoop, Transitional, ConventionInv, ConventionMatchesRouting
  <2>2. CASE ActivateLoadTarget(t)
    BY <2>2 DEF ActivateLoadTarget, TypeInv, WaitsOK
  <2>3. CASE ActivateSystemTarget(t)
    BY <2>3 DEF ActivateSystemTarget, TypeInv, WaitsOK
  <2>4. CASE ActivateConvention(t)
    BY <2>4 DEF ActivateConvention, ConventionInv, ConventionMatchesRouting
  <2>5. CASE ActivatePublish(t)
    BY <2>5 DEF ActivatePublish, ConventionInv, ConventionMatchesRouting
  <2>6. CASE RegisterLoop(t)
    BY <2>6 DEF RegisterLoop, Transitional
  <2>7. CASE RegisterInDualDispatch(t)
    BY <2>0, <2>7 DEF RegisterInDualDispatch, ResumePcs
  <2>8. CASE RegisterPatch(t)
    BY <2>8 DEF RegisterPatch
  <2>9. CASE RegisterReplace(t)
    BY <2>0, <2>9 DEF RegisterReplace, ResumePcs
  <2>10. CASE RegisterTarget(t)
    BY <2>0, <2>10 DEF RegisterTarget, ResumePcs
  <2>11. CASE RegisterLegacy(t)
    BY <2>11 DEF RegisterLegacy
  <2>12. CASE RegisterConvention(t)
    BY <2>12 DEF RegisterConvention, ConventionInv, ConventionMatchesRouting
  <2>13. CASE RegisterPublish(t)
    BY <2>13 DEF RegisterPublish, ConventionInv, ConventionMatchesRouting
  <2>14. QED
    BY <1>2, <2>1, <2>2, <2>3, <2>4, <2>5, <2>6, <2>7, <2>8, <2>9, <2>10, <2>11,
       <2>12, <2>13, ZenonT(30) DEF OwnerStep
<1>3. ASSUME NEW t \in Threads, Fork(t) PROVE HandlerInv'
  BY <1>3, Zenon DEF Fork, TypeInv, LocalOK, shared, registers, history
<1>4. CASE SelectCallerPresentation \/ UNCHANGED vars
  BY <1>4 DEF SelectCallerPresentation, vars, shared, registers, local, history
<1>5. QED
  BY <1>1, <1>2, <1>3, <1>4, StepCases, QuietFrame, ReaderFrame, BeginFrame, Zenon DEF Next


-----------------------------------------------------------------------------
(* Readers.  Targets are never taken back, so a reader may load them late.   *)

(* An owner's step takes no target and no history back from the readers. *)
LEMMA OwnerFrame ==
  ASSUME TypeInv, NEW t \in Threads, OwnerStep(t)
  PROVE  /\ OthersReadOn(t)
         /\ pc'[t] \notin ReaderPcs
         /\ pc'[t] = "idle" =>
              outcome'[t].via = "none" /\ outcome'[t].result # "True"
         /\ resume_target # Null => resume_target' # Null
         /\ system_target # Null => system_target' # Null
         /\ registered => registered'
<1> USE MoveFrame, ReturnFrame, Answers
    DEF ReaderPcs, Results, ControlPcs, ResumePcs, shared, registers
<1>a. pc[t] \in ResumePcs => call[t].arg # Null
  BY CurrentArgument, ConstantsAssumption DEF TypeInv
<1>1. CASE ActivateLoop(t)
  BY <1>a, <1>1 DEF ActivateLoop
<1>2. CASE ActivateLoadTarget(t)
  BY <1>a, <1>2 DEF ActivateLoadTarget
<1>3. CASE ActivateSystemTarget(t)
  BY <1>a, <1>3 DEF ActivateSystemTarget
<1>4. CASE ActivateConvention(t)
  BY <1>a, <1>4 DEF ActivateConvention
<1>5. CASE ActivatePublish(t)
  BY <1>a, <1>5 DEF ActivatePublish
<1>6. CASE RegisterLoop(t)
  BY <1>a, <1>6 DEF RegisterLoop
<1>7. CASE RegisterInDualDispatch(t)
  BY <1>a, <1>7 DEF RegisterInDualDispatch
<1>8. CASE RegisterPatch(t)
  BY <1>a, <1>8 DEF RegisterPatch
<1>9. CASE RegisterReplace(t)
  BY <1>a, <1>9 DEF RegisterReplace
<1>10. CASE RegisterTarget(t)
  BY <1>a, <1>10 DEF RegisterTarget
<1>11. CASE RegisterLegacy(t)
  BY <1>a, <1>11 DEF RegisterLegacy
<1>12. CASE RegisterConvention(t)
  BY <1>a, <1>12 DEF RegisterConvention
<1>13. CASE RegisterPublish(t)
  BY <1>a, <1>13 DEF RegisterPublish
<1>14. QED
  BY <1>1, <1>2, <1>3, <1>4, <1>5, <1>6, <1>7, <1>8, <1>9, <1>10, <1>11, <1>12,
     <1>13, ZenonT(30) DEF OwnerStep

(* A reader's own step: it keeps what it has seen and answers accordingly. *)
LEMMA ReaderStepKeeps ==
  ASSUME TypeInv, ConventionInv, HandlerInv, ReaderInv,
         NEW t \in Threads, ReaderStep(t)
  PROVE  /\ armed[t] /\ pc'[t] \in {"route_resume", "route_selector", "unarmed_target"} =>
              resume_target # Null
         /\ armed[t] /\ pc'[t] \in {"route_system_id", "route_system_target"} =>
              system_target # Null
         /\ armed[t] /\ pc'[t] = "idle" =>
              /\ call'[t].leaf = "route_syscall" =>
                   /\ outcome'[t].via # "routing"
                   /\ outcome'[t].via = "Resume" => outcome'[t].target # Null
                   /\ outcome'[t].via = "System" /\ call'[t].r10_zero
                        /\ call'[t].rcx_user => outcome'[t].target # Null
              /\ call'[t].leaf = "resume_identity_unarmed" => outcome'[t].result # "True"
<1>a. \A from, to : Move(t, from, to) => pc[t] = from /\ pc'[t] = to
  BY MoveFrame, Zenon
<1>b. \A from, answer : Return(t, from, answer) =>
         pc[t] = from /\ pc'[t] = "idle" /\ outcome'[t] = answer /\ call' = call
  BY ReturnFrame, Zenon
<1>c. /\ armed[t] =>
           /\ registered
           /\ pc[t] \in {"route_resume", "route_selector", "unarmed_target"} =>
                resume_target # Null
           /\ pc[t] \in {"route_system_id", "route_system_target"} => system_target # Null
      /\ routing \in {"ResumeTarget", "PromotingDualDispatch"} => resume_target # Null
      /\ routing = "DualDispatch" /\ registered => system_target # Null
      /\ registered =>
           routing \in {"ResumeTarget", "PromotingDualDispatch", "DualDispatch"}
      /\ routing = "PromotingDualDispatch" /\ convention = "DualDispatch" =>
           system_target # Null
  BY Zenon DEF ReaderInv, HandlerInv
<1>d. /\ resume_target \in Targets /\ system_target \in Targets
      /\ attributes_target \in Targets /\ convention \in Conventions
  BY Zenon DEF TypeInv, SharedOK, Targets
<1>e. /\ Declined("routing").via = "routing" /\ Declined("Selector").via = "Selector"
      /\ Declined("Bypass").via = "Bypass" /\ Declined("System").via = "System"
      /\ Declined("Attributes").via = "Attributes"
      /\ \A h : Routed("Resume", h).via = "Resume" /\ Routed("Resume", h).target = h
      /\ \A h : Routed("System", h).via = "System" /\ Routed("System", h).target = h
      /\ \A h : Routed("Selector", h).via = "Selector"
      /\ \A h : Routed("Attributes", h).via = "Attributes"
  BY Zenon DEF Declined, Routed, NoOutcome
<1>f. /\ \A r : Answer(r).result = r /\ Answer(r).via = "none"
      /\ \A v \in {"routing", "Selector", "Bypass", "System", "Attributes"} :
           Declined(v).result # "True"
      /\ \A v, h : Routed(v, h).result # "True"
  BY Zenon DEF Declined, Routed, Answer, NoOutcome
<1> USE <1>a, <1>b, <1>c, <1>d, <1>e, <1>f
<1>1. CASE RouteRouting(t)
  BY <1>1 DEF RouteRouting
<1>2. CASE RouteConvention(t)
  BY <1>2 DEF RouteConvention, Conventions, ConventionInv, ConventionMatchesRouting
<1>3. CASE RouteResume(t)
  BY <1>3 DEF RouteResume
<1>4. CASE RouteSystemId(t)
  BY <1>4 DEF RouteSystemId
<1>5. CASE RouteSystemTarget(t)
  BY <1>5 DEF RouteSystemTarget
<1>6. CASE RouteAttributesId(t)
  BY <1>6 DEF RouteAttributesId
<1>7. CASE RouteAttributesTarget(t)
  BY <1>7 DEF RouteAttributesTarget
<1>8. CASE UnarmedRouting(t)
  BY <1>8, SMTT(30) DEF UnarmedRouting, Stable
<1>9. CASE UnarmedTarget(t)
  BY <1>9 DEF UnarmedTarget
<1>10. QED
  BY <1>1, <1>2, <1>3, <1>4, <1>5, <1>6, <1>7, <1>8, <1>9, ZenonT(30) DEF ReaderStep

(* What one thread that was armed when it began may rely on. *)
Seen(t) ==
  armed[t] =>
    /\ registered
    /\ pc[t] \in {"route_resume", "route_selector", "unarmed_target"} => resume_target # Null
    /\ pc[t] \in {"route_system_id", "route_system_target"} => system_target # Null
    /\ pc[t] = "idle" =>
         /\ call[t].leaf = "route_syscall" =>
              /\ outcome[t].via # "routing"
              /\ outcome[t].via = "Resume" => outcome[t].target # Null
              /\ outcome[t].via = "System" /\ call[t].r10_zero /\ call[t].rcx_user =>
                   outcome[t].target # Null
         /\ call[t].leaf = "resume_identity_unarmed" => outcome[t].result # "True"

(* ReaderInv says it of every thread, before a step and after it. *)
LEMMA EveryThreadSees ==
  /\ ReaderInv <=> \A t \in Threads : Seen(t)
  /\ ReaderInv' <=> \A t \in Threads : Seen(t)'
<1>1. ReaderInv <=> \A t \in Threads : Seen(t)
  BY ZenonT(30) DEF Seen, ReaderInv, RegisteredSyscallsAreRouted, ArmedIdentityStaysArmed
<1>2. ReaderInv' <=> \A t \in Threads : Seen(t)'
  BY ZenonT(30) DEF Seen, ReaderInv, RegisteredSyscallsAreRouted, ArmedIdentityStaysArmed
<1> QED
  BY <1>1, <1>2, Zenon

(* A thread keeps what it has seen while others move, as long as nothing is    *)
(* taken back.                                                                 *)
LEMMA OthersSee ==
  ASSUME ReaderInv, NEW t \in Threads, OthersReadOn(t), NEW u \in Threads \ {t},
         registered => registered',
         resume_target # Null => resume_target' # Null,
         system_target # Null => system_target' # Null
  PROVE  Seen(u)'
<1>1. Seen(u)
  BY EveryThreadSees, Zenon
<1>2. pc'[u] = pc[u] /\ outcome'[u] = outcome[u] /\ call'[u] = call[u] /\ armed'[u] = armed[u]
  BY Zenon DEF OthersReadOn
<1> QED
  BY <1>1, <1>2, Zenon DEF Seen

(* No step of any thread invalidates what an armed reader has seen. *)
LEMMA ReaderInvStep ==
  ASSUME TypeInv, ConventionInv, HandlerInv, ReaderInv, [Next]_vars
  PROVE  ReaderInv'
<1>0. \A t \in Threads : Seen(t)
  BY EveryThreadSees, Zenon
<1> SUFFICES \A t \in Threads : Seen(t)'
  BY EveryThreadSees, Zenon
<1>1. ASSUME NEW t \in Threads, QuietStep(t) PROVE \A u \in Threads : Seen(u)'
  <2>1. /\ Frame(t) /\ OthersReadOn(t) /\ pc'[t] \notin ReaderPcs
        /\ pc'[t] = "idle" =>
             /\ outcome'[t].via = "none"
             /\ call'[t].leaf = "resume_identity_unarmed" => outcome'[t].result # "True"
    BY <1>1, QuietFrame, Zenon
  <2>2. Seen(t)'
    BY <1>0, <2>1, Zenon DEF Seen, Frame, OthersReadOn, ReaderPcs
  <2>3. QED
    BY <2>1, <2>2, OthersSee, Zenon DEF Frame
<1>2. ASSUME NEW t \in Threads, ReaderStep(t) PROVE \A u \in Threads : Seen(u)'
  <2>1. Frame(t) /\ OthersReadOn(t)
    BY <1>2, ReaderFrame, Zenon
  <2>2. /\ armed'[t] = armed[t] /\ registered' = registered
        /\ resume_target' = resume_target /\ system_target' = system_target
    BY <2>1, Zenon DEF Frame, OthersReadOn
  <2>3. Seen(t)'
    BY <1>0, <1>2, <2>2, ReaderStepKeeps, Zenon DEF Seen
  <2>4. QED
    BY <2>1, <2>2, <2>3, OthersSee, Zenon
<1>3. ASSUME NEW t \in Threads, OwnerStep(t) PROVE \A u \in Threads : Seen(u)'
  <2>1. /\ OthersReadOn(t) /\ pc'[t] \notin ReaderPcs /\ armed'[t] = armed[t]
        /\ (pc'[t] = "idle" => outcome'[t].via = "none" /\ outcome'[t].result # "True")
        /\ (resume_target # Null => resume_target' # Null)
        /\ (system_target # Null => system_target' # Null)
        /\ (registered => registered')
    BY <1>3, OwnerFrame, Zenon DEF OthersReadOn
  <2>2. Seen(t)'
    BY <1>0, <2>1, Zenon DEF Seen, ReaderPcs
  <2>3. QED
    BY <2>1, <2>2, OthersSee, Zenon
<1>4. ASSUME NEW t \in Threads, Begin(t) PROVE \A u \in Threads : Seen(u)'
  <2>1. /\ Frame(t) /\ pc'[t] \notin ReaderPcs \cup {"idle"}
        /\ armed' = [armed EXCEPT ![t] = registered]
        /\ \A u \in Threads \ {t} : outcome'[u] = outcome[u] /\ call'[u] = call[u]
    BY <1>4, BeginFrame, Zenon
  <2>2. armed'[t] = registered /\ \A u \in Threads \ {t} : armed'[u] = armed[u]
    BY <2>1, Zenon DEF TypeInv, LocalOK
  <2>3. Seen(t)'
    BY <2>1, <2>2, Zenon DEF Seen, Frame, ReaderPcs
  <2>4. ASSUME NEW u \in Threads \ {t} PROVE Seen(u)'
    <3>1. /\ pc'[u] = pc[u] /\ armed'[u] = armed[u] /\ outcome'[u] = outcome[u]
          /\ call'[u] = call[u] /\ registered' = registered
          /\ resume_target' = resume_target /\ system_target' = system_target
      BY <2>1, <2>2, Zenon DEF Frame
    <3>2. QED
      BY <1>0, <3>1, Zenon DEF Seen
  <2>5. QED
    BY <2>3, <2>4, Zenon
<1>5. ASSUME NEW t \in Threads, Fork(t) PROVE \A u \in Threads : Seen(u)'
  BY <1>0, <1>5, ZenonT(30) DEF Seen, Fork, TypeInv, LocalOK, shared, registers, history
<1>6. CASE SelectCallerPresentation \/ UNCHANGED vars
  <2>1. /\ pc' = pc /\ call' = call /\ outcome' = outcome /\ armed' = armed
        /\ registered' = registered /\ resume_target' = resume_target
        /\ system_target' = system_target
    BY <1>6, Zenon DEF SelectCallerPresentation, vars, shared, registers, local, history
  <2>2. QED
    BY <1>0, <2>1, Zenon DEF Seen
<1>7. QED
  BY <1>1, <1>2, <1>3, <1>4, <1>5, <1>6, StepCases, Zenon DEF Next

-----------------------------------------------------------------------------
(* The theorems. *)

(* State::new satisfies the invariant. *)
LEMMA InitIInv == Init => IInv
<1> SUFFICES ASSUME Init PROVE IInv
  BY Zenon
<1> USE DEF Init
<1>1. TypeInv
  <2>1. SharedOK /\ WaitsOK
    BY ConstantsAssumption DEF SharedOK, WaitsOK, RoutingStates, Conventions
  <2>2. registered \in BOOLEAN
    BY ZenonT(30)
  <2>3. LocalOK
    BY <2>2, ConstantsAssumption
    DEF LocalOK, CallAgrees, PcValues, ControlPcs, ResumePcs, PidPcs, AllCalls,
        ControlCalls, NoOutcome, Outcomes, Results, Vias, Targets
  <2>4. QED
    BY <2>1, <2>3, Zenon DEF TypeInv
<1>2. TransitionHasOneOwner /\ ConventionInv /\ HandlerInv
  BY Zenon DEF TransitionHasOneOwner, Owner, Registering, Activating, ConventionInv,
         ConventionMatchesRouting, HandlerInv
<1>3. ReaderInv
  BY Zenon DEF ReaderInv, RegisteredSyscallsAreRouted, ArmedIdentityStaysArmed
<1>4. QED
  BY <1>1, <1>2, <1>3, Zenon DEF IInv

(* Every step of the program keeps the invariant. *)
LEMMA IInvStep == IInv /\ [Next]_vars => IInv'
  BY TypeStep, OwnerInvStep, ConventionInvStep, HandlerInvStep, ReaderInvStep, Zenon DEF IInv

(* The inductive invariant holds of every behaviour of the registration state*)
(* machine.                                                                  *)
THEOREM Invariance == Spec => []IInv
  BY InitIInv, IInvStep, PTL DEF Spec

(* handle_cpuid and route_syscall keep every atomic within its type: the     *)
(* target registers only ever hold handlers supplied for that role.          *)
THEOREM TypeCorrect == Spec => []TypeOK
<1>1. IInv => TypeOK
  BY Zenon DEF IInv, TypeInv, SharedOK, WaitsOK, LocalOK, Outcomes, TypeOK
<1>2. QED
  BY <1>1, Invariance, PTL

(* The compare_exchange on routing elects one owner per transition, however   *)
(* many threads register, promote and fork.                                  *)
THEOREM OneOwner == Spec => []TransitionHasOneOwner
  BY Invariance, PTL DEF IInv

(* Whoever reads DualDispatch from routing reads DualDispatch from            *)
(* syscall_convention, and no late store of register_resume_target undoes it. *)
THEOREM ConventionAgrees == Spec => []ConventionMatchesRouting
<1>1. IInv => ConventionMatchesRouting
  BY Zenon DEF IInv, ConventionInv
<1>2. QED
  BY <1>1, Invariance, PTL

(* A Consumed resume handler is in force from then on: in resume_target, and  *)
(* after the promotion to dual dispatch in system_target.                    *)
THEOREM HandlerStaysLive == Spec => []ConsumedHandlerIsLive
<1>1. IInv => ConsumedHandlerIsLive
  BY Zenon DEF IInv, HandlerInv, ConsumedHandlerIsLive
<1>2. QED
  BY <1>1, Invariance, PTL

(* A syscall begun after a Consumed registration is routed by a published     *)
(* protocol and never to a null handler, whatever interleaves with its loads. *)
THEOREM SyscallsAreRouted == Spec => []RegisteredSyscallsAreRouted
<1>1. IInv => RegisteredSyscallsAreRouted
  BY Zenon DEF IInv, ReaderInv
<1>2. QED
  BY <1>1, Invariance, PTL

(* resume_identity_unarmed never answers true to a caller that began after a  *)
(* Consumed registration.                                                    *)
THEOREM IdentityStaysArmed == Spec => []ArmedIdentityStaysArmed
<1>1. IInv => ArmedIdentityStaysArmed
  BY Zenon DEF IInv, ReaderInv
<1>2. QED
  BY <1>1, Invariance, PTL

(* No store to routing goes back to an earlier stage of the registration.     *)
THEOREM RoutingAdvances == Spec => RoutingOnlyAdvances
<1>1. ASSUME IInv, [Next]_vars PROVE [Rank[routing] <= Rank[routing']]_routing
  <2> USE DEF Rank
  <2>1. ASSUME NEW t \in Threads, OwnerStep(t)
        PROVE  [Rank[routing] <= Rank[routing']]_routing
    <3>a. /\ \A from, to : Move(t, from, to) => pc[t] = from
          /\ \A from, answer : Return(t, from, answer) => pc[t] = from
      BY MoveFrom, ReturnFrom, Zenon
    <3>b. /\ pc[t] = "reg_publish" => routing = "RegisteringResumeTarget"
          /\ pc[t] = "act_publish" =>
               routing \in {"RegisteringDualDispatch", "PromotingDualDispatch"}
      BY <1>1, Zenon DEF IInv, TransitionHasOneOwner, Registering, Activating
    <3> USE <3>a, <3>b
    <3>1. CASE ActivateLoop(t)
      BY <3>1 DEF ActivateLoop
    <3>2. CASE ActivatePublish(t)
      BY <3>2 DEF ActivatePublish
    <3>3. CASE RegisterLoop(t)
      BY <3>3 DEF RegisterLoop
    <3>4. CASE RegisterPublish(t)
      BY <3>4 DEF RegisterPublish
    <3>5. CASE UNCHANGED routing
      BY <3>5, Zenon
    <3>6. QED
      BY <2>1, <3>1, <3>2, <3>3, <3>4, <3>5, Zenon
      DEF OwnerStep, ActivateLoadTarget, ActivateSystemTarget, ActivateConvention,
          RegisterInDualDispatch, RegisterPatch, RegisterReplace, RegisterTarget,
          RegisterLegacy, RegisterConvention, shared
  <2>2. ASSUME NEW t \in Threads, QuietStep(t) \/ ReaderStep(t) \/ Begin(t) \/ Fork(t)
        PROVE  UNCHANGED routing
    BY <2>2, <1>1, QuietFrame, ReaderFrame, BeginFrame, Zenon DEF IInv, Frame, Fork, shared
  <2>3. CASE SelectCallerPresentation \/ UNCHANGED vars
    BY <2>3, Zenon DEF SelectCallerPresentation, vars, shared
  <2>4. QED
    BY <1>1, <2>1, <2>2, <2>3, StepCases, Zenon DEF Next
<1>2. QED
  BY <1>1, Invariance, PTL DEF Spec, RoutingOnlyAdvances
=============================================================================
