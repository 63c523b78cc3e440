--------------------------- MODULE DispatchTables ---------------------------
(***************************************************************************)
(* dispatcher_bridge and dispatcher_target of syscall/kuser_dispatch.rs: the  *)
(* stacks the selector runs on, the scan of the import table for Reflex's     *)
(* trampolines, the open-addressed table of stubs and the routing rule, with  *)
(* the repair of Wine's data exports (unixlib_repair.rs) that every call      *)
(* attempts and the search for the window-list service (win32u_zero_list.rs)  *)
(* of the SIGSYS path.  Calls never stop coming; Reflex writes its hooks      *)
(* meanwhile.  The markers of a call are SyscallRouter's.                      *)
(***************************************************************************)
EXTENDS Integers, FiniteSets, Sequences

CONSTANTS
  Callers,        \* threads that call the dispatcher
  StackSlots,     \* functions [Callers -> slots]: which TEB ids share a bridge stack
  Imports,        \* length of the main image's import table
  Hooks,          \* [1..Imports -> stub addresses]: where a hooked import leads
  StubSlots, StubCapacity,   \* IAT_STUB_SLOTS, IAT_CAPACITY
  RetryInterval,  \* IAT_SCAN_MAX_RETRY_INTERVAL, a power of two
  RepairInterval, RepairMax,   \* WINE_UNIXLIB_REPAIR_*
  ResolveLimit,   \* RESOLVE_ATTEMPT_LIMIT
  Scenes,         \* sets of what happens around the calls, one per behaviour
  MaxDispatchForks

ASSUME DispatchAssumption ==
  /\ Hooks \in [1..Imports -> Nat \ {0}]
  /\ Imports \in Nat /\ StubSlots \in Nat /\ StubCapacity \in Nat /\ StubSlots > StubCapacity
  /\ RetryInterval \in {2, 4, 8, 16} /\ RepairInterval > 0
  /\ \A scene \in Scenes : scene \subseteq {"imports", "exports", "win32u"}

Exports == {"__wine_unix_call_dispatcher", "__wine_unixlib_handle"}

VARIABLES
  stacks,          \* the lock word of every bridge stack
  reflex_image,    \* REFLEX_IMAGE_START # 0
  hooked,          \* external: imports that Reflex has replaced
  stubs, stub_count, scan_lock, scan_attempts,   \* IAT_STUBS, IAT_STUB_COUNT, ...
  exports,         \* external: Wine's data exports in Reflex's clone of ntdll
  repair_done, repair_attempts,
  win32u,          \* external: win32u.dll is in the loader list
  service, resolve_attempts,   \* WINDOW_LIST_SERVICE # 0, RESOLVE_ATTEMPTS
  dpc, call,       \* what each caller executes, and its locals
  slot_of, scene, dispatch_forks

tables == <<stubs, stub_count, scan_lock, scan_attempts>>
repairs == <<exports, repair_done, repair_attempts>>
windows == <<win32u, service, resolve_attempts>>
dispatchVars == <<stacks, reflex_image, hooked, tables, repairs, windows, dpc, call, slot_of, scene, dispatch_forks>>

NoDispatch == [stub |-> 0, inside |-> FALSE, import |-> 0, repaired |-> FALSE]

DispatchInit ==
  /\ slot_of \in StackSlots /\ stacks = [s \in {slot_of[t] : t \in Callers} |-> FALSE]
  /\ reflex_image = FALSE /\ hooked = {}
  /\ stubs = [i \in 0..(StubSlots - 1) |-> 0]
  /\ stub_count = 0 /\ scan_lock = FALSE /\ scan_attempts = 0
  /\ exports = [e \in Exports |-> "absent"] /\ repair_done = FALSE /\ repair_attempts = 0
  /\ win32u = FALSE /\ service = FALSE /\ resolve_attempts = 0
  /\ dpc = [t \in Callers |-> "idle"] /\ call = [t \in Callers |-> NoDispatch]
  /\ scene \in Scenes /\ dispatch_forks = 0

DGo(t, label) == dpc' = [dpc EXCEPT ![t] = label]
DSet(t, c) == call' = [call EXCEPT ![t] = c]

-----------------------------------------------------------------------------
(* dispatcher_bridge: take the thread's stack, run the selector, release it.  *)

BridgeCall(t) ==
  /\ dpc[t] = "idle"
  /\ DGo(t, "stack")
  /\ UNCHANGED <<stacks, reflex_image, hooked, tables, repairs, windows, call, slot_of, scene, dispatch_forks>>

(* Mutant: the bit is tested and set in two steps. *)
TakeStackUnlocked(t) ==
  /\ dpc[t] = "stack"
  /\ stacks' = [stacks EXCEPT ![slot_of[t]] = TRUE]
  /\ DGo(t, "gate")
  /\ UNCHANGED <<reflex_image, hooked, tables, repairs, windows, call, slot_of, scene, dispatch_forks>>

TakeStack(t) ==   \* lock bts, spinning
  /\ dpc[t] = "stack" /\ ~stacks[slot_of[t]]
  /\ stacks' = [stacks EXCEPT ![slot_of[t]] = TRUE]
  /\ DGo(t, "gate")
  /\ UNCHANGED <<reflex_image, hooked, tables, repairs, windows, call, slot_of, scene, dispatch_forks>>

(* Mutant: the stack is not given back. *)
LeaveBridgeHeld(t) ==
  /\ dpc[t] \in {"original", "replay"}
  /\ DGo(t, "idle") /\ DSet(t, NoDispatch)
  /\ UNCHANGED <<stacks, reflex_image, hooked, tables, repairs, windows, slot_of, scene, dispatch_forks>>

LeaveBridge(t) ==
  /\ dpc[t] \in {"original", "replay"}
  /\ stacks' = [stacks EXCEPT ![slot_of[t]] = FALSE]
  /\ DGo(t, "idle") /\ DSet(t, NoDispatch)
  /\ UNCHANGED <<reflex_image, hooked, tables, repairs, windows, slot_of, scene, dispatch_forks>>

-----------------------------------------------------------------------------
(* maybe_scan_main_image_iat *)

(* The counter is followed up to twice the interval and modulo the interval    *)
(* from there, which decides the same retries.                                 *)
NextAttempt == IF scan_attempts = 2 * RetryInterval THEN RetryInterval + 1 ELSE scan_attempts + 1

should_retry_iat_scan(attempt) == attempt \in {0, 1, 2, 4, 8, 16} \/ attempt % RetryInterval = 0

ScanGate(t) ==
  /\ dpc[t] = "gate"
  /\ \/ /\ stub_count # 0 \/ ~reflex_image
        /\ DGo(t, "repair") /\ UNCHANGED scan_attempts
     \/ /\ stub_count = 0 /\ reflex_image
        /\ scan_attempts' = NextAttempt
        /\ DGo(t, IF should_retry_iat_scan(scan_attempts) THEN "scan" ELSE "repair")
  /\ UNCHANGED <<stacks, reflex_image, hooked, stubs, stub_count, scan_lock, repairs, windows, call, slot_of, scene, dispatch_forks>>

ScanLock(t) ==
  /\ dpc[t] = "scan"
  /\ \/ scan_lock /\ DGo(t, "repair") /\ UNCHANGED <<scan_lock, call>>
     \/ ~scan_lock /\ scan_lock' = TRUE /\ DGo(t, "import") /\ DSet(t, [call[t] EXCEPT !.import = 1])
  /\ UNCHANGED <<stacks, reflex_image, hooked, stubs, stub_count, scan_attempts, repairs, windows, slot_of, scene, dispatch_forks>>

(* stub_probe: the slots of an address, in probing order; and the first that is *)
(* empty or holds it.                                                           *)
Probe(stub) == [n \in 0..(StubSlots - 1) |-> (stub + n) % StubSlots]
FirstFit(stub) == Probe(stub)[CHOOSE n \in 0..(StubSlots - 1) :
  /\ stubs[Probe(stub)[n]] \in {0, stub}
  /\ \A m \in 0..(n - 1) : stubs[Probe(stub)[m]] \notin {0, stub}]

(* One import: remember_stub if a trampoline is there.  Inserts are under the   *)
(* lock, so probing is one step; the count follows in a step of its own.        *)
ScanImport(t) ==
  LET i == call[t].import
      slot == FirstFit(Hooks[i])
  IN
  /\ dpc[t] = "import" /\ i <= Imports
  /\ \/ /\ i \in hooked /\ stub_count < StubCapacity /\ stubs[slot] = 0
        /\ stubs' = [stubs EXCEPT ![slot] = Hooks[i]]
        /\ DGo(t, "count") /\ UNCHANGED call
     \/ /\ i \notin hooked \/ stub_count >= StubCapacity \/ stubs[slot] # 0
        /\ DSet(t, [call[t] EXCEPT !.import = @ + 1])
        /\ UNCHANGED <<stubs, dpc>>
  /\ UNCHANGED <<stacks, reflex_image, hooked, stub_count, scan_lock, scan_attempts, repairs, windows, slot_of, scene, dispatch_forks>>

ScanCount(t) ==
  /\ dpc[t] = "count"
  /\ stub_count' = stub_count + 1
  /\ DGo(t, "import") /\ DSet(t, [call[t] EXCEPT !.import = @ + 1])
  /\ UNCHANGED <<stacks, reflex_image, hooked, stubs, scan_lock, scan_attempts, repairs, windows, slot_of, scene, dispatch_forks>>

ScanUnlock(t) ==
  /\ dpc[t] = "import" /\ call[t].import > Imports
  /\ scan_lock' = FALSE
  /\ DGo(t, "repair") /\ DSet(t, [call[t] EXCEPT !.import = 0])
  /\ UNCHANGED <<stacks, reflex_image, hooked, stubs, stub_count, scan_attempts, repairs, windows, slot_of, scene, dispatch_forks>>

-----------------------------------------------------------------------------
(* maybe_repair_wine_unixlib_exports *)

RepairGate(t) ==
  /\ dpc[t] = "repair"
  /\ \/ repair_done /\ DGo(t, "match") /\ UNCHANGED repair_attempts
     \/ /\ ~repair_done
        /\ repair_attempts' = IF repair_attempts < RepairMax THEN repair_attempts + 1 ELSE RepairMax
        /\ DGo(t, IF repair_attempts < RepairMax /\ repair_attempts % RepairInterval = 0
                  THEN "dispatcher" ELSE "match")
  /\ UNCHANGED <<stacks, reflex_image, hooked, tables, exports, repair_done, windows, call, slot_of, scene, dispatch_forks>>

(* repair_named_export: a trampoline gets the value at its destination. *)
RepairExport(t, here, export, next) ==
  /\ dpc[t] = here
  /\ IF exports[export] = "code"
     THEN /\ exports' = [exports EXCEPT ![export] = "data"]
          /\ DSet(t, [call[t] EXCEPT !.repaired = TRUE])
     ELSE UNCHANGED <<exports, call>>
  /\ DGo(t, next)
  /\ UNCHANGED <<stacks, reflex_image, hooked, tables, repair_done, repair_attempts, windows, slot_of, scene, dispatch_forks>>

RepairDispatcher(t) == RepairExport(t, "dispatcher", "__wine_unix_call_dispatcher", "handle")
RepairHandle(t) == RepairExport(t, "handle", "__wine_unixlib_handle", "repaired")

RepairDone(t) ==
  /\ dpc[t] = "repaired"
  /\ repair_done' = (repair_done \/ call[t].repaired)
  /\ DGo(t, "match") /\ DSet(t, [call[t] EXCEPT !.repaired = FALSE])
  /\ UNCHANGED <<stacks, reflex_image, hooked, tables, exports, repair_attempts, windows, slot_of, scene, dispatch_forks>>

-----------------------------------------------------------------------------
(* matches_iat_stub and should_replay_raw.  The return address is that of a    *)
(* stub or of something else (0), the caller inside Reflex's image or not, and *)
(* find_syscall finds a raw syscall instruction or not.                        *)

matches_iat_stub(stub) ==
  stub # 0 /\ stubs[FirstFit(stub)] = stub

Match(t) ==
  /\ dpc[t] = "match"
  /\ \E stub \in {Hooks[i] : i \in 1..Imports} \cup {0}, inside, raw \in BOOLEAN :
       /\ DSet(t, [call[t] EXCEPT !.stub = stub, !.inside = inside])
       /\ DGo(t, IF stub_count # 0 /\ matches_iat_stub(stub) /\ ~(reflex_image /\ inside) /\ raw
                 THEN "replay" ELSE "original")
  /\ UNCHANGED <<stacks, reflex_image, hooked, tables, repairs, windows, slot_of, scene, dispatch_forks>>

-----------------------------------------------------------------------------
(* window_list_service, called for a win32u service on the SIGSYS path. *)

WindowCall(t) ==
  /\ "win32u" \in scene /\ dpc[t] = "idle" /\ ~service
  /\ resolve_attempts' = IF resolve_attempts < ResolveLimit THEN resolve_attempts + 1 ELSE ResolveLimit
  /\ DGo(t, IF resolve_attempts < ResolveLimit THEN "resolve" ELSE "idle")
  /\ UNCHANGED <<stacks, reflex_image, hooked, tables, repairs, win32u, service, call, slot_of, scene, dispatch_forks>>

Resolve(t) ==
  /\ dpc[t] = "resolve"
  /\ service' = (service \/ win32u)
  /\ DGo(t, "idle")
  /\ UNCHANGED <<stacks, reflex_image, hooked, tables, repairs, win32u, resolve_attempts, call, slot_of, scene, dispatch_forks>>

-----------------------------------------------------------------------------
(* What happens around the calls. *)

RegisterReflexImage ==   \* register_reflex_image: the handler's image was found
  /\ "imports" \in scene /\ ~reflex_image /\ reflex_image' = TRUE
  /\ UNCHANGED <<stacks, hooked, tables, repairs, windows, dpc, call, slot_of, scene, dispatch_forks>>

ReflexHooksImport(i) ==
  /\ "imports" \in scene /\ i \notin hooked /\ hooked' = hooked \cup {i}
  /\ UNCHANGED <<stacks, reflex_image, tables, repairs, windows, dpc, call, slot_of, scene, dispatch_forks>>

ReflexHooksExport(e) ==
  /\ "exports" \in scene /\ exports[e] = "absent" /\ exports' = [exports EXCEPT ![e] = "code"]
  /\ UNCHANGED <<stacks, reflex_image, hooked, tables, repair_done, repair_attempts, windows, dpc, call, slot_of, scene, dispatch_forks>>

LoadWin32u ==
  /\ "win32u" \in scene /\ ~win32u /\ win32u' = TRUE
  /\ UNCHANGED <<stacks, reflex_image, hooked, tables, repairs, service, resolve_attempts, dpc, call, slot_of, scene, dispatch_forks>>

DispatchFork(t) ==
  /\ dpc[t] = "idle" /\ dispatch_forks < MaxDispatchForks
  /\ dispatch_forks' = dispatch_forks + 1
  /\ dpc' = [u \in Callers |-> IF u = t THEN "idle" ELSE "gone"]
  /\ call' = [u \in Callers |-> NoDispatch]
  /\ UNCHANGED <<stacks, reflex_image, hooked, tables, repairs, windows, slot_of, scene>>

SelectorStep(t) ==
  \/ TakeStack(t) \/ LeaveBridge(t) \/ ScanGate(t) \/ ScanLock(t) \/ ScanImport(t) \/ ScanCount(t)
  \/ ScanUnlock(t) \/ RepairGate(t) \/ RepairDispatcher(t) \/ RepairHandle(t) \/ RepairDone(t)
  \/ Match(t) \/ Resolve(t)

DispatchNext ==
  \/ \E t \in Callers : BridgeCall(t) \/ WindowCall(t) \/ SelectorStep(t) \/ DispatchFork(t)
  \/ \E i \in 1..Imports : ReflexHooksImport(i)
  \/ \E e \in Exports : ReflexHooksExport(e)
  \/ RegisterReflexImage \/ LoadWin32u

(* Threads run on, and the game keeps making calls of both kinds. *)
DispatchFairness ==
  \A t \in Callers :
    /\ WF_dispatchVars(SelectorStep(t))
    /\ SF_dispatchVars(BridgeCall(t)) /\ SF_dispatchVars(WindowCall(t))

DispatchSpec == DispatchInit /\ [][DispatchNext]_dispatchVars /\ DispatchFairness

-----------------------------------------------------------------------------
(* Properties *)

InSelector == {"gate", "scan", "import", "count", "repair", "dispatcher", "handle", "repaired",
               "match", "original", "replay"}

(* Two threads never run the selector on one bridge stack, and a call is only  *)
(* replayed as a raw syscall if Reflex hooked its stub and it does not come    *)
(* from Reflex's own image, whatever scans are filling the table meanwhile.    *)
SelectorIsSound ==
  /\ \A t, u \in Callers : t # u /\ slot_of[t] = slot_of[u] => ~(dpc[t] \in InSelector /\ dpc[u] \in InSelector)
  /\ \A t \in Callers : dpc[t] = "replay" => /\ \E i \in hooked : Hooks[i] = call[t].stub
                                            /\ ~(reflex_image /\ call[t].inside)
  /\ stub_count <= Cardinality({i \in DOMAIN stubs : stubs[i] # 0})

(* A fork left a lock held by no thread of the child. *)
ScanOrphaned == scan_lock /\ \A t \in Callers : dpc[t] \notin {"import", "count"}
StackOrphaned(t) == stacks[slot_of[t]] /\ \A u \in Callers : slot_of[u] = slot_of[t] => dpc[u] \notin InSelector
DispatchOrphaned == dispatch_forks > 0 /\ (ScanOrphaned \/ \E t \in Callers : StackOrphaned(t))

Repairing == \E t \in Callers : dpc[t] \in {"dispatcher", "handle", "repaired"}

(* Every call that got its stack leaves the bridge, and what Reflex and Wine set up late is still *)
(* discovered as long as attempts are left: the first hooked import, both data *)
(* exports if they were hooked before a repair began, and the window-list      *)
(* service.  A child is excused if the fork left a lock held, and may find the *)
(* last attempt at the service used up.                                       *)
DiscoveryCompletes ==
  /\ \A t \in Callers : dpc[t] \in InSelector ~> (dpc[t] \in {"idle", "gone"} \/ DispatchOrphaned)
  /\ (reflex_image /\ hooked # {}) ~> (stub_count # 0 \/ DispatchOrphaned)
  /\ (/\ \A e \in Exports : exports[e] = "code"
      /\ ~repair_done /\ ~Repairing
      /\ \E n \in repair_attempts..(RepairMax - 1) : n % RepairInterval = 0)
     ~> ((\A e \in Exports : exports[e] = "data") \/ DispatchOrphaned)
  /\ (win32u /\ resolve_attempts < ResolveLimit) ~> (service \/ dispatch_forks > 0)
=============================================================================
