------------------------------- MODULE Int2e --------------------------------
(***************************************************************************)
(* skip_int2e_fault of syscall/int2e.rs: what the SIGSEGV handler does with a *)
(* faulting `int 2e`.  A site inside a Windows syscall thunk resumes at the   *)
(* thunk's own `syscall`; any other site gets a private trampoline from an    *)
(* open-addressed table; if none can be had the opcode is patched in place,   *)
(* and as a last resort execution goes on behind it.                          *)
(***************************************************************************)
EXTENDS Integers, FiniteSets

CONSTANTS
  Faulters,     \* threads
  Sites,        \* addresses of `int 2e` instructions, each on a page of its own
  Direct,       \* the sites directly behind `syscall; ret`
  Straddling,   \* the sites whose two bytes lie on two pages
  HomeOf,       \* [Sites -> Nat]: (site >> 1), reduced modulo the capacity
  Capacities,   \* values of TRAMPOLINE_CAPACITY, one per behaviour
  Pages,        \* what mmap can return
  NoSite, NoPage,
  MaxFaults

ASSUME Int2eAssumption ==
  /\ IsFiniteSet(Sites) /\ Direct \subseteq Sites /\ Straddling \subseteq Sites
  /\ HomeOf \in [Sites -> Nat] /\ Capacities \subseteq Nat \ {0}
  /\ NoSite \notin Sites /\ NoPage \notin Pages

VARIABLES
  capacity, may_fail,     \* chosen once: the table's size, and if mappings can fail
  code,                   \* the opcode at every site
  rewritten,              \* a site whose code the program itself changed
  open,                   \* sites whose page is writable
  sites, targets,         \* TRAMPOLINE_SITES, TRAMPOLINE_TARGETS
  thunks,                 \* external: the site a mapped trampoline page resumes behind
  page_guard,             \* the PageGuard: "free", a thread, or "kuser"
  ipc, fault,             \* what each thread executes, and its locals
  faults, int2e_forked

int2eVars == <<capacity, may_fail, code, rewritten, open, sites, targets, thunks, page_guard, ipc, fault, faults, int2e_forked>>
tableVars == <<sites, targets, thunks>>
codeVars == <<code, rewritten, open, page_guard>>
setting == <<capacity, may_fail, faults, int2e_forked>>

NoFault == [site |-> NoSite, offset |-> 0, page |-> NoPage]

Int2eInit ==
  /\ capacity \in Capacities /\ may_fail \in BOOLEAN
  /\ code = [s \in Sites |-> "int 2e"] /\ rewritten = NoSite /\ open = {}
  /\ sites = [i \in 0..(capacity - 1) |-> NoSite]
  /\ targets = [i \in 0..(capacity - 1) |-> NoPage]
  /\ thunks = [p \in Pages |-> NoSite]
  /\ page_guard = "free"
  /\ ipc = [t \in Faulters |-> "run"] /\ fault = [t \in Faulters |-> NoFault]
  /\ faults = 0 /\ int2e_forked = FALSE

IGo(t, label) == ipc' = [ipc EXCEPT ![t] = label]
ISet(t, f) == fault' = [fault EXCEPT ![t] = f]
Slot(t) == (HomeOf[fault[t].site] + fault[t].offset) % capacity

(* The CPU raises #GP at an `int 2e`. *)
RaiseFault(t, s) ==
  /\ ipc[t] = "run" /\ faults < MaxFaults /\ code[s] = "int 2e"
  /\ faults' = faults + 1
  /\ ISet(t, [NoFault EXCEPT !.site = s]) /\ IGo(t, "read")
  /\ UNCHANGED <<tableVars, codeVars, capacity, may_fail, int2e_forked>>

(* The instruction is read again: another thread may have patched it, and then *)
(* the fault is not handled here and goes to Wine.                             *)
ReadInstruction(t) ==
  LET s == fault[t].site IN
  /\ ipc[t] = "read"
  /\ IGo(t, IF code[s] # "int 2e" THEN "to wine" ELSE IF s \in Direct THEN "rewound" ELSE "probe")
  /\ UNCHANGED <<tableVars, codeVars, fault, setting>>

-----------------------------------------------------------------------------
(* private_syscall_trampoline *)

ProbeSite(t) ==
  LET stored == sites[Slot(t)] IN
  /\ ipc[t] = "probe" /\ fault[t].offset < capacity
  /\ \/ stored = fault[t].site /\ IGo(t, "target") /\ UNCHANGED fault
     \/ stored \in Sites \ {fault[t].site} /\ ISet(t, [fault[t] EXCEPT !.offset = @ + 1]) /\ UNCHANGED ipc
     \/ stored = NoSite /\ IGo(t, "claim") /\ UNCHANGED fault
  /\ UNCHANGED <<tableVars, codeVars, setting>>

TableFull(t) ==
  /\ ipc[t] = "probe" /\ fault[t].offset = capacity
  /\ IGo(t, "patch") /\ ISet(t, [fault[t] EXCEPT !.offset = 0])
  /\ UNCHANGED <<tableVars, codeVars, setting>>

(* Mutant: a lost claim moves on to the next slot. *)
ClaimSiteOnce(t) ==
  /\ ipc[t] = "claim"
  /\ \/ sites[Slot(t)] = NoSite
        /\ sites' = [sites EXCEPT ![Slot(t)] = fault[t].site]
        /\ IGo(t, "target") /\ UNCHANGED fault
     \/ sites[Slot(t)] # NoSite
        /\ IGo(t, "probe") /\ ISet(t, [fault[t] EXCEPT !.offset = @ + 1]) /\ UNCHANGED sites
  /\ UNCHANGED <<targets, thunks, codeVars, setting>>

ClaimSite(t) ==   \* a lost compare_exchange looks at the same slot again
  /\ ipc[t] = "claim"
  /\ \/ sites[Slot(t)] = NoSite
        /\ sites' = [sites EXCEPT ![Slot(t)] = fault[t].site]
        /\ IGo(t, "target")
     \/ sites[Slot(t)] # NoSite /\ IGo(t, "probe") /\ UNCHANGED sites
  /\ UNCHANGED <<targets, thunks, codeVars, fault, setting>>

(* build_or_reuse_private_trampoline *)
LoadTarget(t) ==
  /\ ipc[t] = "target"
  /\ \/ targets[Slot(t)] # NoPage
        /\ IGo(t, "trampoline") /\ ISet(t, [fault[t] EXCEPT !.page = targets[Slot(t)]])
     \/ targets[Slot(t)] = NoPage /\ IGo(t, "build") /\ UNCHANGED fault
  /\ UNCHANGED <<tableVars, codeVars, setting>>

(* build_private_trampoline: the mapping check, mmap or mprotect may fail, and *)
(* then nothing stays mapped.                                                 *)
BuildTrampoline(t) ==
  /\ ipc[t] = "build"
  /\ \/ \E p \in Pages :
          /\ thunks[p] = NoSite
          /\ thunks' = [thunks EXCEPT ![p] = fault[t].site]
          /\ ISet(t, [fault[t] EXCEPT !.page = p]) /\ IGo(t, "publish")
     \/ may_fail /\ IGo(t, "patch") /\ ISet(t, [fault[t] EXCEPT !.offset = 0]) /\ UNCHANGED thunks
  /\ UNCHANGED <<sites, targets, codeVars, setting>>

PublishTarget(t) ==   \* the loser of the race unmaps its own page
  /\ ipc[t] = "publish"
  /\ \/ /\ targets[Slot(t)] = NoPage
        /\ targets' = [targets EXCEPT ![Slot(t)] = fault[t].page] /\ UNCHANGED <<thunks, fault>>
     \/ /\ targets[Slot(t)] # NoPage
        /\ thunks' = [thunks EXCEPT ![fault[t].page] = NoSite]
        /\ ISet(t, [fault[t] EXCEPT !.page = targets[Slot(t)]]) /\ UNCHANGED targets
  /\ IGo(t, "trampoline")
  /\ UNCHANGED <<sites, codeVars, setting>>

-----------------------------------------------------------------------------
(* patch_to_syscall *)

(* The opcode, its page and the page's mapping. *)
PatchRead(t) ==
  LET s == fault[t].site IN
  /\ ipc[t] = "patch"
  /\ \/ code[s] = "int 2e" /\ s \notin Straddling /\ IGo(t, "guard")
     \/ (code[s] # "int 2e" \/ s \in Straddling \/ may_fail) /\ IGo(t, "skipped")
  /\ UNCHANGED <<tableVars, codeVars, fault, setting>>

PatchOpen(t) ==   \* the guard, then mprotect
  /\ ipc[t] = "guard"
  /\ \/ /\ page_guard = "free" /\ page_guard' = t
        /\ open' = open \cup {fault[t].site} /\ IGo(t, "swap")
     \/ (page_guard # "free" \/ may_fail) /\ IGo(t, "skipped") /\ UNCHANGED <<page_guard, open>>
  /\ UNCHANGED <<code, rewritten, tableVars, fault, setting>>

(* Mutant: the opcode is stored whatever is there. *)
PatchStore(t) ==
  /\ ipc[t] = "swap"
  /\ code' = [code EXCEPT ![fault[t].site] = "syscall"] /\ IGo(t, "swapped")
  /\ UNCHANGED <<rewritten, open, page_guard, tableVars, fault, setting>>

PatchExchange(t) ==   \* lock cmpxchg
  LET s == fault[t].site IN
  /\ ipc[t] = "swap"
  /\ \/ code[s] = "int 2e" /\ code' = [code EXCEPT ![s] = "syscall"] /\ IGo(t, "swapped")
     \/ code[s] # "int 2e" /\ IGo(t, "not swapped") /\ UNCHANGED code
  /\ UNCHANGED <<rewritten, open, page_guard, tableVars, fault, setting>>

PatchClose(t) ==   \* restore the protection, read back, release the guard
  LET s == fault[t].site IN
  /\ ipc[t] \in {"swapped", "not swapped"} /\ page_guard' = "free"
  /\ \/ open' = open \ {s} /\ IGo(t, IF ipc[t] = "swapped" /\ code[s] = "syscall" THEN "patched" ELSE "skipped")
     \/ may_fail /\ UNCHANGED open /\ IGo(t, "skipped")
  /\ UNCHANGED <<code, rewritten, tableVars, fault, setting>>

-----------------------------------------------------------------------------
Handled == {"rewound", "trampoline", "patched", "skipped", "to wine"}

LeaveHandler(t) ==
  /\ ipc[t] \in Handled
  /\ IGo(t, "run") /\ ISet(t, NoFault)
  /\ UNCHANGED <<tableVars, codeVars, setting>>

(* Protected code changes itself: another thread of the program writes a site   *)
(* whose fault is being handled.                                                *)
RewriteSite(s) ==
  /\ rewritten = NoSite /\ rewritten' = s
  /\ code[s] = "int 2e" /\ \E t \in Faulters : fault[t].site = s
  /\ code' = [code EXCEPT ![s] = "other"]
  /\ UNCHANGED <<open, page_guard, tableVars, ipc, fault, setting>>

(* The guard's other users (kuser.rs, kuser_dispatch.rs). *)
KuserGuard ==
  /\ page_guard \in {"free", "kuser"}
  /\ page_guard' = IF page_guard = "free" THEN "kuser" ELSE "free"
  /\ UNCHANGED <<code, rewritten, open, tableVars, ipc, fault, setting>>

(* A child has one thread, and takes over a guard that its parent's pid owns. *)
Int2eFork(t) ==
  /\ ipc[t] = "run" /\ ~int2e_forked /\ int2e_forked' = TRUE
  /\ ipc' = [u \in Faulters |-> IF u = t THEN "run" ELSE "gone"]
  /\ fault' = [u \in Faulters |-> NoFault]
  /\ page_guard' = "free"
  /\ UNCHANGED <<code, rewritten, open, tableVars, capacity, may_fail, faults>>

Int2eStep(t) ==
  \/ ReadInstruction(t) \/ ProbeSite(t) \/ TableFull(t) \/ ClaimSite(t) \/ LoadTarget(t)
  \/ BuildTrampoline(t) \/ PublishTarget(t) \/ PatchRead(t) \/ PatchOpen(t) \/ PatchExchange(t) \/ PatchClose(t)
  \/ LeaveHandler(t)

Int2eNext ==
  \/ \E t \in Faulters : Int2eStep(t) \/ Int2eFork(t) \/ \E s \in Sites : RaiseFault(t, s)
  \/ \E s \in Sites : RewriteSite(s)
  \/ KuserGuard

Int2eSpec == Int2eInit /\ [][Int2eNext]_int2eVars

-----------------------------------------------------------------------------
(* Properties *)

Building(p) == \E t \in Faulters : ipc[t] = "publish" /\ fault[t].page = p
Published(p) == \E i \in DOMAIN targets : targets[i] = p

(* A thread that leaves for a trampoline finds it mapped and resuming behind   *)
(* its own site, however many threads built one at once; a site has one slot;  *)
(* and every mapped page is published or about to be (only a fork loses one).  *)
TrampolinesAreOwn ==
  /\ \A t \in Faulters : ipc[t] = "trampoline" => thunks[fault[t].page] = fault[t].site
  /\ \A i, j \in DOMAIN sites : sites[i] = sites[j] /\ sites[i] # NoSite => i = j
  /\ \A p \in Pages : thunks[p] # NoSite /\ ~int2e_forked => Published(p) \/ Building(p)

(* The runtime leaves the code alone and skips no syscall as long as the table *)
(* has room and mappings succeed: the last resorts are only that.  In any case *)
(* it patches only an `int 2e` outside a Windows thunk, and never over a change *)
(* that the program made meanwhile.                                             *)
CodeIsLeftAlone ==
  /\ ~may_fail /\ Cardinality(Sites \ Direct) <= capacity =>
       /\ \A s \in Sites : code[s] # "syscall"
       /\ \A t \in Faulters : fault[t].site # rewritten => ipc[t] \notin {"skipped", "to wine"}
  /\ \A s \in Direct \cup Straddling : code[s] # "syscall"
  /\ \A s \in Sites : s = rewritten => code[s] = "other"
  /\ \A t \in Faulters : ipc[t] = "patched" => code[fault[t].site] = "syscall"
=============================================================================
