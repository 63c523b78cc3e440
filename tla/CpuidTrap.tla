----------------------------- MODULE CpuidTrap -----------------------------
(***************************************************************************)
(* The CPUID trap of runtime/src/cpuid.rs and the CPU identity of             *)
(* protocol/cpuid.rs.  Threads run cpuid_sigsegv_handler: they classify the   *)
(* caller through a seqlocked cache of mapping ranges, choose the             *)
(* presentation and the artifact profile, and answer from a table or from     *)
(* the hardware through a second cache.  Meanwhile files are mapped, time     *)
(* passes, the identity is configured, and the process may fork.  Faults that *)
(* are no CPUID are forwarded as they came, and the hypervisor bit of leaf 1  *)
(* is resume_identity_unarmed of ReflexState; neither is repeated here.       *)
(***************************************************************************)
EXTENDS Integers, Sequences, FiniteSets

CONSTANTS
  Threads,
  Workloads,       \* what a program does: its traps, the leaves it asks cpuid_get_fixed_reply for,
                   \* the cores it runs on, the host the constructor detected,
                   \* the hosts it is told of later, config::legacy_profile_forced(),
                   \* and bounds; a behaviour follows one of them
  Mappings,        \* lines of /proc/self/maps that callers execute from
  CallerCap,       \* CALLER_CACHE_CAP
  NativeCap,       \* NATIVE_CACHE_CAP
  RescanInterval   \* ARTIFACT_RESCAN_INTERVAL_MS

Vendors == {"Unknown", "Intel", "Amd"}
Kinds == {"Ordinary", "Reflex64", "Artifact"}
Leaves == {"one", "brand", "hypervisor", "arm", "plain", "topology"}
WineRip == 0   \* an address that is_wine_system_rip recognises
Bounds == [traps : Nat, configs : Nat, mappings : Nat, ticks : Nat, forks : Nat, failures : Nat]

ASSUME CpuidAssumption ==
  /\ \A w \in Workloads : /\ w.traps \subseteq [leaf : Leaves, rip : Nat]
                          /\ w.calls \subseteq Leaves
                          /\ w.hosts \cup {w.detected} \subseteq [vendor : Vendors, avx : BOOLEAN]
                          /\ w.bounds \in Bounds /\ w.forced \in BOOLEAN /\ w.cores \subseteq Nat
  /\ \A m \in Mappings : /\ m.start \in Nat \ {WineRip} /\ m.end \in Nat
                         /\ m.path \in Kinds /\ m.image \in Kinds
  /\ \A m, n \in Mappings : m = n \/ m.end <= n.start \/ n.end <= m.start   \* they do not overlap
  /\ CallerCap \in Nat \ {0} /\ NativeCap \in Nat /\ RescanInterval \in Nat \ {0}

VARIABLES
  raw_identity,     \* ACTIVE_IDENTITY
  selected,         \* REFLEX64_PRESENTATION_SELECTED
  artifact,         \* ARTIFACT_PROFILE_SELECTED
  established,      \* PROTOCOL_ESTABLISHED
  entries,          \* CALLER_CACHE: sequence, start, end and kind of every slot
  entries_lock, entries_next,
  native,           \* NATIVE_CACHE: its cells
  native_len, native_lock,
  scan_generation, scan_ms,   \* ARTIFACT_SCAN_GENERATION, ARTIFACT_SCAN_MILLISECONDS
  generation,       \* FILE_MAPPINGS
  clock,
  image,            \* artifact.dll: is it mapped, since when, was the mapping counted
  workload,
  pc, loc,          \* what each thread runs, and its locals
  left              \* how many traps, configurations, mappings, ... may still come

caches == <<entries, entries_lock, entries_next, native, native_len, native_lock>>
scans == <<scan_generation, scan_ms>>
flags == <<raw_identity, selected, artifact, established>>
world == <<generation, clock, image, workload>>
vars == <<flags, caches, scans, world, pc, loc, left>>

-----------------------------------------------------------------------------
(* protocol/cpuid.rs: the identity and its packed word. *)

VendorBits == [Unknown |-> 0, Intel |-> 1, Amd |-> 2]

encode(i) ==
  VendorBits[i.vendor] + (IF i.avx THEN 4 ELSE 0) + (IF i.presentation = "Legacy" THEN 8 ELSE 0)

decode(raw) ==
  [ vendor |-> IF raw % 4 = 1 THEN "Intel" ELSE IF raw % 4 = 2 THEN "Amd" ELSE "Unknown",
    avx |-> (raw \div 4) % 2 = 1,
    presentation |-> IF (raw \div 8) % 2 = 0 THEN "Denuvo" ELSE "Legacy" ]

denuvo(host) == [vendor |-> host.vendor, avx |-> host.avx, presentation |-> "Denuvo"]
Identities == [vendor : Vendors, avx : BOOLEAN, presentation : {"Denuvo", "Legacy"}]
Current == decode(raw_identity)

(* The row of the tables that CpuIdentity::fixed_reply answers from. *)
leaf1(i) ==
  CASE i.vendor = "Unknown" -> IF i.presentation = "Denuvo" THEN "zeros" ELSE "unknown legacy"
    [] i.vendor = "Intel" -> IF i.avx \/ i.presentation = "Legacy" THEN "intel avx" ELSE "intel"
    [] i.vendor = "Amd" -> IF i.presentation = "Legacy" THEN "amd legacy"
                           ELSE IF i.avx THEN "amd avx" ELSE "amd"

fixed_reply(i, leaf) ==
  CASE leaf = "one" -> leaf1(i)
    [] leaf = "brand" -> IF i.presentation = "Denuvo" THEN "modern brand"
                         ELSE IF i.vendor = "Intel" THEN "intel brand" ELSE "amd brand"
    [] leaf = "hypervisor" -> IF i.vendor = "Unknown" THEN "zeros" ELSE i.vendor
    [] OTHER -> "none"

is_identity_leaf(leaf) == leaf \in {"one", "brand", "hypervisor"}
HasArtifactReply(vendor, leaf) == vendor # "Unknown" /\ leaf \in {"one", "brand"}
leaf_varies_per_core(leaf) == leaf = "topology"

(* cpuid_kuser_recipe *)
cpuid_kuser_recipe(i) ==
  IF i.presentation = "Denuvo" THEN "Resume"
  ELSE IF i.vendor = "Intel" THEN "Dispatch" ELSE "Selector"

-----------------------------------------------------------------------------
NoRegisters == [leaf |-> "none", core |-> 0]
NoLocal == [ leaf |-> "none", rip |-> 0, kind |-> "Ordinary", cell |-> 0, seq |-> 0, start |-> 0,
             end |-> 0, raw |-> 0, next |-> 0, vendor |-> "Unknown", generation |-> 0, now |-> 0,
             due |-> FALSE, regs |-> NoRegisters, core |-> 0, reply |-> "none" ]
Cells == 0..(CallerCap - 1)
Never == -1

Init ==
  /\ selected = FALSE /\ artifact = FALSE /\ established = FALSE
  /\ entries = [c \in Cells |-> [seq |-> 0, start |-> 0, end |-> 0, kind |-> "Ordinary"]]
  /\ entries_lock = FALSE /\ entries_next = 0
  /\ native = [n \in 1..NativeCap |-> [key |-> "none", regs |-> NoRegisters]]
  /\ native_len = 0 /\ native_lock = FALSE
  /\ scan_generation = Never      \* u64::MAX
  /\ scan_ms = 0 /\ generation = 0 /\ clock = 0
  /\ image = [since |-> Never, counted |-> FALSE]
  /\ workload \in Workloads
  /\ raw_identity = encode(denuvo(workload.detected))   \* detect_cpu_vendor has run
  /\ pc = [t \in Threads |-> "idle"]
  /\ loc = [t \in Threads |-> NoLocal]
  /\ left = workload.bounds

Count(what) == left[what] > 0 /\ left' = [left EXCEPT ![what] = @ - 1]
Failed == left.failures < workload.bounds.failures   \* a system call has failed
Goto(t, label) == pc' = [pc EXCEPT ![t] = label]
Set(t, l) == loc' = [loc EXCEPT ![t] = l]
Local(t, here, next, l) ==   \* a step that only reads what is shared
  /\ pc[t] = here /\ Goto(t, next) /\ Set(t, l)
  /\ UNCHANGED <<flags, caches, scans, world, left>>
Answered(t, reply) == Goto(t, "answered") /\ Set(t, [loc[t] EXCEPT !.reply = reply])

-----------------------------------------------------------------------------
(* ActiveCpuIdentity: configure_host and select_legacy_presentation. *)

StartConfigure(t, host) ==   \* detect_cpu_vendor, cpuid_configure_profile
  /\ pc[t] = "idle" /\ Count("configs")
  /\ Goto(t, "cfg_load")
  /\ Set(t, [NoLocal EXCEPT !.next = encode(denuvo(host))])
  /\ UNCHANGED <<flags, caches, scans, world>>

ConfigureLoad(t) == Local(t, "cfg_load", "cfg_cas", [loc[t] EXCEPT !.raw = raw_identity])
SelectLoad(t) == Local(t, "sel_load", "sel_cas", [loc[t] EXCEPT !.raw = raw_identity])

Configured(t) ==
  encode([decode(loc[t].next) EXCEPT !.presentation = decode(loc[t].raw).presentation])

AfterConfigure(t) ==
  IF workload.forced THEN Goto(t, "sel_load") /\ UNCHANGED loc ELSE Goto(t, "idle") /\ Set(t, NoLocal)

(* Mutant: the word is stored instead of exchanged. *)
ConfigureCasStores(t) ==
  /\ pc[t] = "cfg_cas"
  /\ raw_identity' = Configured(t) /\ AfterConfigure(t)
  /\ UNCHANGED <<selected, artifact, established, caches, scans, world, left>>

ConfigureCas(t) ==
  /\ pc[t] = "cfg_cas"
  /\ \/ raw_identity = loc[t].raw /\ raw_identity' = Configured(t) /\ AfterConfigure(t)
     \/ raw_identity # loc[t].raw /\ Goto(t, "cfg_load") /\ UNCHANGED <<raw_identity, loc>>
  /\ UNCHANGED <<selected, artifact, established, caches, scans, world, left>>

StartLegacy(t) ==   \* cpuid_activate_legacy_profile
  /\ pc[t] = "idle" /\ Count("configs")
  /\ Goto(t, "sel_load")
  /\ UNCHANGED <<flags, caches, scans, world, loc>>

SelectCas(t) ==
  /\ pc[t] = "sel_cas"
  /\ \/ /\ raw_identity = loc[t].raw
        /\ raw_identity' = encode([decode(loc[t].raw) EXCEPT !.presentation = "Legacy"])
        /\ \/ loc[t].leaf # "none" /\ Goto(t, "sel_store") /\ UNCHANGED loc
           \/ loc[t].leaf = "none" /\ Goto(t, "idle") /\ Set(t, NoLocal)
     \/ raw_identity # loc[t].raw /\ Goto(t, "sel_load") /\ UNCHANGED <<raw_identity, loc>>
  /\ UNCHANGED <<selected, artifact, established, caches, scans, world, left>>

-----------------------------------------------------------------------------
(* cpuid_sigsegv_handler, up to the choice of who answers. *)

(* An artifact leaf asked now has to be answered with the artifact profile:   *)
(* the mapping of artifact.dll was counted, or is older than the interval.    *)
ArtifactDue ==
  image.counted \/ (image.since # Never /\ clock - image.since >= RescanInterval)

Trap(t, trap, core) ==
  /\ pc[t] = "idle" /\ Count("traps")
  /\ established' = (established \/ trap.leaf = "arm")
  /\ Set(t, [NoLocal EXCEPT !.leaf = trap.leaf, !.rip = trap.rip, !.core = core, !.due = ArtifactDue])
  /\ Goto(t, IF trap.rip = WineRip THEN "native"
             ELSE IF is_identity_leaf(trap.leaf) THEN "lookup" ELSE "answer")
  /\ UNCHANGED <<raw_identity, selected, artifact, caches, scans, world>>

(* cpuid_get_fixed_reply: the tables alone, and no caller to classify.         *)
GetFixedReply(t, leaf) ==
  /\ pc[t] = "idle" /\ Count("traps")
  /\ Set(t, [NoLocal EXCEPT !.leaf = leaf, !.due = ArtifactDue])
  /\ Goto(t, IF is_identity_leaf(leaf) THEN "vendor" ELSE "answered")
  /\ UNCHANGED <<flags, caches, scans, world>>

(* CallerCache::lookup, one load at a time. *)
Cell(t) == entries[loc[t].cell]

NextCell(t) ==
  IF loc[t].cell + 1 < CallerCap
  THEN Goto(t, "lookup") /\ Set(t, [loc[t] EXCEPT !.cell = @ + 1])
  ELSE Goto(t, "classify") /\ Set(t, [loc[t] EXCEPT !.cell = 0, !.seq = 0, !.start = 0, !.end = 0])

LookupSequence(t) ==
  /\ pc[t] = "lookup"
  /\ \/ Cell(t).seq % 2 = 1 /\ NextCell(t)
     \/ Cell(t).seq % 2 = 0 /\ Goto(t, "start") /\ Set(t, [loc[t] EXCEPT !.seq = Cell(t).seq])
  /\ UNCHANGED <<flags, caches, scans, world, left>>

LookupStart(t) == Local(t, "start", "end", [loc[t] EXCEPT !.start = Cell(t).start])
LookupEnd(t) == Local(t, "end", "kind", [loc[t] EXCEPT !.end = Cell(t).end])
LookupKind(t) == Local(t, "kind", "check", [loc[t] EXCEPT !.kind = Cell(t).kind])

(* Mutant: the sequence is not read again. *)
LookupCheckOnce(t) ==
  /\ pc[t] = "check"
  /\ IF loc[t].rip \in loc[t].start..(loc[t].end - 1)
     THEN Goto(t, "present") /\ UNCHANGED loc ELSE NextCell(t)
  /\ UNCHANGED <<flags, caches, scans, world, left>>

LookupCheck(t) ==
  /\ pc[t] = "check"
  /\ IF Cell(t).seq = loc[t].seq /\ loc[t].rip \in loc[t].start..(loc[t].end - 1)
     THEN Goto(t, "present") /\ UNCHANGED loc ELSE NextCell(t)
  /\ UNCHANGED <<flags, caches, scans, world, left>>

(* classify_caller after a miss: the line of the mapping and its path_kind;   *)
(* no line, or a maps file that cannot be opened, is an ordinary caller.      *)
MappingsAt(rip) == {m \in Mappings : rip \in m.start..(m.end - 1)}

Classify(t) ==
  /\ pc[t] = "classify"
  /\ \/ /\ MappingsAt(loc[t].rip) = {}
        /\ Goto(t, "vendor") /\ Set(t, [loc[t] EXCEPT !.kind = "Ordinary"])
        /\ UNCHANGED left
     \/ /\ Count("failures")
        /\ Goto(t, "vendor") /\ Set(t, [loc[t] EXCEPT !.kind = "Ordinary"])
     \/ \E m \in MappingsAt(loc[t].rip) :
        /\ Set(t, [loc[t] EXCEPT !.kind = m.path, !.start = m.start, !.end = m.end])
        /\ Goto(t, IF m.path = "Ordinary" THEN "search" ELSE "insert")
        /\ UNCHANGED left
  /\ UNCHANGED <<flags, caches, scans, world>>

(* pe_image_named, which is not worth its price once a handler registered.    *)
Search(t) ==
  \E m \in MappingsAt(loc[t].rip) :
    Local(t, "search", "insert", [loc[t] EXCEPT !.kind = IF established THEN "Ordinary" ELSE m.image])

-----------------------------------------------------------------------------
(* CallerCache::insert, one store at a time; a busy cache is skipped. *)

InsertLock(t) ==
  /\ pc[t] = "insert"
  /\ \/ /\ entries_lock
        /\ Goto(t, "present") /\ UNCHANGED <<entries_lock, entries_next, loc>>
     \/ /\ ~entries_lock
        /\ entries_lock' = TRUE
        /\ entries_next' = (entries_next % CallerCap) + 1
        /\ Set(t, [loc[t] EXCEPT !.cell = entries_next % CallerCap])
        /\ Goto(t, "ins_odd")
  /\ UNCHANGED <<flags, entries, native, native_len, native_lock, scans, world, left>>

StoreCell(t, here, next, e) ==
  /\ pc[t] = here
  /\ Goto(t, next)
  /\ entries' = [entries EXCEPT ![loc[t].cell] = e]
  /\ UNCHANGED <<flags, entries_lock, entries_next, native, native_len, native_lock, scans, world, loc, left>>

InsertOdd(t) == StoreCell(t, "ins_odd", "ins_start", [Cell(t) EXCEPT !.seq = @ + 1])
InsertStart(t) == StoreCell(t, "ins_start", "ins_end", [Cell(t) EXCEPT !.start = loc[t].start])
InsertEnd(t) == StoreCell(t, "ins_end", "ins_kind", [Cell(t) EXCEPT !.end = loc[t].end])
InsertKind(t) == StoreCell(t, "ins_kind", "ins_even", [Cell(t) EXCEPT !.kind = loc[t].kind])
InsertEven(t) == StoreCell(t, "ins_even", "ins_unlock", [Cell(t) EXCEPT !.seq = @ + 1])

InsertUnlock(t) ==
  /\ pc[t] = "ins_unlock"
  /\ entries_lock' = FALSE
  /\ Goto(t, "present") /\ Set(t, [loc[t] EXCEPT !.cell = 0])
  /\ UNCHANGED <<flags, entries, entries_next, native, native_len, native_lock, scans, world, left>>

-----------------------------------------------------------------------------
(* select_caller_presentation: both loads only ever advance, so one step.     *)

Present(t) ==
  Local(t, "present", IF loc[t].kind = "Reflex64" /\ ~selected /\ Current.presentation # "Legacy"
                      THEN "sel_load" ELSE "vendor",
        [loc[t] EXCEPT !.seq = 0, !.start = 0, !.end = 0, !.cell = 0])

SelectStore(t) ==
  /\ pc[t] = "sel_store"
  /\ selected' = TRUE
  /\ Goto(t, "vendor") /\ Set(t, [loc[t] EXCEPT !.raw = 0])
  /\ UNCHANGED <<raw_identity, artifact, established, caches, scans, world, left>>

-----------------------------------------------------------------------------
(* fixed_reply: whether the artifact profile applies. *)

LoadVendor(t) ==
  Local(t, "vendor", IF ~HasArtifactReply(Current.vendor, loc[t].leaf) THEN "answer"
                     ELSE IF loc[t].kind = "Artifact" \/ artifact THEN "choose" ELSE "generation",
        [loc[t] EXCEPT !.vendor = Current.vendor, !.kind = "Ordinary", !.rip = 0])

(* The call is over, and with it the locals that it read. *)
ScanEnds(t) == Goto(t, "answer") /\ Set(t, [loc[t] EXCEPT !.generation = 0, !.now = 0])

(* artifact_module_newly_mapped: the generation is read before the scan.      *)
LoadGeneration(t) ==
  Local(t, "generation", "fresh_generation", [loc[t] EXCEPT !.generation = generation, !.now = clock])

FreshGeneration(t) ==
  Local(t, "fresh_generation", IF loc[t].generation = scan_generation THEN "fresh_ms" ELSE "scan", loc[t])

FreshMilliseconds(t) ==
  /\ pc[t] = "fresh_ms"
  /\ IF loc[t].now - scan_ms < RescanInterval THEN ScanEnds(t) ELSE Goto(t, "scan") /\ UNCHANGED loc
  /\ UNCHANGED <<flags, caches, scans, world, left>>

(* artifact_module_mapped; false also when the maps file cannot be opened.    *)
Scan(t) ==
  /\ pc[t] = "scan"
  /\ \/ /\ Goto(t, IF image.since # Never THEN "choose" ELSE "store_ms")
        /\ UNCHANGED left
     \/ /\ Count("failures")
        /\ Goto(t, "store_ms")
  /\ UNCHANGED <<flags, caches, scans, world, loc>>

StoreMilliseconds(t) ==
  /\ pc[t] = "store_ms"
  /\ scan_ms' = loc[t].now
  /\ Goto(t, "store_generation")
  /\ UNCHANGED <<flags, caches, scan_generation, world, loc, left>>

(* Mutant: the generation stored with a negative scan is read after it.       *)
StoreGenerationLate(t) ==
  /\ pc[t] = "store_generation"
  /\ scan_generation' = generation
  /\ ScanEnds(t)
  /\ UNCHANGED <<flags, caches, scan_ms, world, left>>

StoreGeneration(t) ==
  /\ pc[t] = "store_generation"
  /\ scan_generation' = loc[t].generation
  /\ ScanEnds(t)
  /\ UNCHANGED <<flags, caches, scan_ms, world, left>>

ChooseProfile(t) ==
  /\ pc[t] = "choose"
  /\ artifact' = TRUE
  /\ ScanEnds(t)
  /\ UNCHANGED <<raw_identity, selected, established, caches, scans, world, left>>

(* The rest of fixed_reply and of the handler.  Leaf 1 of the artifact profile *)
(* takes the APIC id of the hardware; a leaf that no table has goes to         *)
(* reflex_handle_cpuid, which consumes it or leaves it to the hardware.        *)
Answer(t) ==
  LET profile == artifact /\ loc[t].vendor # "Unknown"
      leaf == loc[t].leaf
      fixed == fixed_reply(Current, leaf)
  IN
  /\ pc[t] = "answer"
  /\ \/ /\ profile /\ HasArtifactReply(loc[t].vendor, leaf)
        /\ IF leaf = "one" THEN Goto(t, "native") /\ Set(t, [loc[t] EXCEPT !.reply = "artifact"])
                           ELSE Answered(t, "artifact")
     \/ /\ ~(profile /\ HasArtifactReply(loc[t].vendor, leaf))
        /\ fixed # "none" /\ Answered(t, fixed)
     \/ /\ ~is_identity_leaf(leaf)
        /\ Answered(t, "consumed") \/ (Goto(t, "native") /\ UNCHANGED loc)
  /\ UNCHANGED <<flags, caches, scans, world, left>>

-----------------------------------------------------------------------------
(* native_reply.  Cells below native_len never change, so the search of        *)
(* NativeCache::lookup is one step with its load of the length.                *)

Native(t, regs) ==
  /\ Goto(t, "answered")
  /\ Set(t, [loc[t] EXCEPT !.regs = regs, !.reply = IF @ = "none" THEN "native" ELSE @])

(* Subleaf 0 of a leaf is what the key stands for: one key per leaf.          *)
NativeHits(leaf) == {n \in 1..native_len : native[n].key = leaf}
Cacheable(t) == ~leaf_varies_per_core(loc[t].leaf)

NativeLookup(t) ==
  LET hits == NativeHits(loc[t].leaf) IN
  /\ pc[t] = "native"
  /\ \/ Cacheable(t) /\ \E n \in hits : (\A m \in hits : n <= m) /\ Native(t, native[n].regs)
     \/ (~Cacheable(t) \/ hits = {}) /\ Goto(t, "cpuid") /\ UNCHANGED loc
  /\ UNCHANGED <<flags, caches, scans, world, left>>

(* Faulting off, CPUID, faulting on again, all of this thread alone: zeros if  *)
(* it cannot be switched off, and the end of the process if not on again.      *)
NativeCpuid(t) ==
  /\ pc[t] = "cpuid"
  /\ \/ /\ LET regs == [leaf |-> loc[t].leaf, core |-> loc[t].core] IN
           IF Cacheable(t)
           THEN Goto(t, "nat_lock") /\ Set(t, [loc[t] EXCEPT !.regs = regs])
           ELSE Native(t, regs)
        /\ UNCHANGED left
     \/ /\ Count("failures")
        /\ \/ Native(t, NoRegisters)
           \/ pc' = [u \in Threads |-> "gone"] /\ loc' = [u \in Threads |-> NoLocal]
  /\ UNCHANGED <<flags, caches, scans, world>>

NativeLock(t) ==
  /\ pc[t] = "nat_lock" /\ ~native_lock
  /\ native_lock' = TRUE
  /\ Goto(t, IF native_len < NativeCap THEN "nat_key" ELSE "nat_unlock")
  /\ UNCHANGED <<flags, entries, entries_lock, entries_next, native, native_len, scans, world, loc, left>>

NativeKey(t) ==
  /\ pc[t] = "nat_key"
  /\ native' = [native EXCEPT ![native_len + 1].key = loc[t].leaf]
  /\ Goto(t, "nat_regs")
  /\ UNCHANGED <<flags, entries, entries_lock, entries_next, native_len, native_lock, scans, world, loc, left>>

NativeRegisters(t) ==
  /\ pc[t] = "nat_regs"
  /\ native' = [native EXCEPT ![native_len + 1].regs = loc[t].regs]
  /\ Goto(t, "nat_len")
  /\ UNCHANGED <<flags, entries, entries_lock, entries_next, native_len, native_lock, scans, world, loc, left>>

NativeLength(t) ==
  /\ pc[t] = "nat_len"
  /\ native_len' = native_len + 1
  /\ Goto(t, "nat_unlock")
  /\ UNCHANGED <<flags, entries, entries_lock, entries_next, native, native_lock, scans, world, loc, left>>

(* Mutant: the lock is only released when there was room. *)
NativeUnlockForgotten(t) ==
  /\ pc[t] = "nat_unlock"
  /\ native_lock' = (native_len = NativeCap)
  /\ Native(t, loc[t].regs)
  /\ UNCHANGED <<flags, entries, entries_lock, entries_next, native, native_len, scans, world, left>>

NativeUnlock(t) ==
  /\ pc[t] = "nat_unlock"
  /\ native_lock' = FALSE
  /\ Native(t, loc[t].regs)
  /\ UNCHANGED <<flags, entries, entries_lock, entries_next, native, native_len, scans, world, left>>

Return(t) == Local(t, "answered", "idle", NoLocal)

-----------------------------------------------------------------------------
(* The world: files are mapped, time passes, the process forks. *)

(* The mmap interposer maps first and counts the mapping afterwards.          *)
MapFile(t) ==
  /\ pc[t] = "idle" /\ Count("mappings")
  /\ \/ image.since = Never /\ image' = [image EXCEPT !.since = clock]
           /\ Set(t, [NoLocal EXCEPT !.kind = "Artifact"])
     \/ UNCHANGED <<image, loc>>
  /\ Goto(t, "note")
  /\ UNCHANGED <<flags, caches, scans, generation, clock, workload>>

NoteFileMapping(t) ==
  /\ pc[t] = "note"
  /\ generation' = generation + 1
  /\ image' = [image EXCEPT !.counted = @ \/ loc[t].kind = "Artifact"]
  /\ Goto(t, "idle") /\ Set(t, NoLocal)
  /\ UNCHANGED <<flags, caches, scans, clock, workload, left>>

(* The dynamic loader maps without the interposer. *)
LoaderMaps ==
  /\ image.since = Never /\ Count("mappings")
  /\ image' = [image EXCEPT !.since = clock]
  /\ UNCHANGED <<flags, caches, scans, generation, clock, workload, pc, loc>>

Tick ==
  /\ Count("ticks") /\ clock' = clock + 1
  /\ UNCHANGED <<flags, caches, scans, generation, image, workload, pc, loc>>

(* The child: only the forking thread runs on, the locks are as they were.    *)
Fork(t) ==
  /\ pc[t] = "idle" /\ Count("forks")
  /\ pc' = [u \in Threads |-> IF u = t THEN "idle" ELSE "gone"]
  /\ loc' = [u \in Threads |-> NoLocal]
  /\ UNCHANGED <<flags, caches, scans, world>>

HandlerStep(t) ==
  \/ ConfigureLoad(t) \/ ConfigureCas(t) \/ SelectLoad(t) \/ SelectCas(t) \/ SelectStore(t)
  \/ LookupSequence(t) \/ LookupStart(t) \/ LookupEnd(t) \/ LookupKind(t) \/ LookupCheck(t)
  \/ Classify(t) \/ Search(t) \/ InsertLock(t) \/ InsertOdd(t) \/ InsertStart(t) \/ InsertEnd(t)
  \/ InsertKind(t) \/ InsertEven(t) \/ InsertUnlock(t) \/ Present(t) \/ LoadVendor(t)
  \/ LoadGeneration(t) \/ FreshGeneration(t) \/ FreshMilliseconds(t) \/ Scan(t)
  \/ StoreMilliseconds(t) \/ StoreGeneration(t) \/ ChooseProfile(t) \/ Answer(t)
  \/ NativeLookup(t) \/ NativeCpuid(t) \/ NativeLock(t) \/ NativeKey(t) \/ NativeRegisters(t)
  \/ NativeLength(t) \/ NativeUnlock(t) \/ NoteFileMapping(t) \/ Return(t)

Next ==
  \/ \E t \in Threads :
       \/ HandlerStep(t) \/ StartLegacy(t) \/ MapFile(t) \/ Fork(t)
       \/ \E host \in workload.hosts : StartConfigure(t, host)
       \/ \E leaf \in workload.calls : GetFixedReply(t, leaf)
       \/ \E trap \in workload.traps, core \in workload.cores : Trap(t, trap, core)
  \/ LoaderMaps \/ Tick

(* A thread that is scheduled keeps executing its handler.                    *)
Spec == Init /\ [][Next]_vars /\ \A t \in Threads : WF_vars(HandlerStep(t))

-----------------------------------------------------------------------------
(* Properties *)

(* The kinds that classify_caller can give a caller at this address. *)
KindsAt(rip) ==
  {m.path : m \in MappingsAt(rip)} \cup {m.image : m \in {n \in MappingsAt(rip) : n.path = "Ordinary"}}
    \cup (IF MappingsAt(rip) = {} \/ Failed THEN {"Ordinary"} ELSE {})

(* What the two lock-free caches answer, in shape and in content.  A caller    *)
(* is only ever given a kind of the mapping it executes from, although entries *)
(* are replaced under the readers of CallerCache::lookup; and registers that   *)
(* NativeCache returns are those of the leaf asked, never a cell that an       *)
(* insert has half written (all zeros only if faulting could not be lifted),   *)
(* and of the core that asks where leaf_varies_per_core says so.               *)
CachedAnswersAreTrue ==
  /\ raw_identity \in {encode(i) : i \in Identities}
  /\ native_len \in 0..NativeCap /\ entries_next \in 0..CallerCap
  /\ \A t \in Threads :
       /\ pc[t] \in {"present", "sel_load", "sel_cas", "sel_store", "vendor"} /\ loc[t].leaf # "none" =>
            loc[t].kind \in KindsAt(loc[t].rip)
       /\ pc[t] = "answered" /\ loc[t].reply = "native" =>
            \/ loc[t].regs = NoRegisters /\ Failed
            \/ /\ loc[t].regs.leaf = loc[t].leaf
               /\ leaf_varies_per_core(loc[t].leaf) => loc[t].regs.core = loc[t].core

(* A presentation once Legacy stays Legacy while other threads configure the   *)
(* host vendor, so the KUSER recipe derived from it never returns to Resume;   *)
(* nothing selects Legacy a second time once REFLEX64_PRESENTATION_SELECTED.   *)
LegacyIsNeverLost ==
  [][cpuid_kuser_recipe(Current) # "Resume" => cpuid_kuser_recipe(Current') # "Resume"]_vars

(* Once artifact.dll was mapped through the interposer, or a second ago by     *)
(* anyone, an artifact leaf asked of a known vendor is answered with the       *)
(* artifact profile: no negative scan, of this thread or of another, outlives  *)
(* the mapping.                                                                *)
ArtifactIsSeen ==
  \A t \in Threads :
    /\ pc[t] = "answered" /\ loc[t].due /\ ~Failed
    /\ HasArtifactReply(loc[t].vendor, loc[t].leaf)
    => loc[t].reply = "artifact"

(* A fork left the lock of the native cache held by no thread of the child.   *)
LockOrphaned ==
  /\ native_lock /\ left.forks < workload.bounds.forks
  /\ \A t \in Threads : pc[t] \notin {"nat_key", "nat_regs", "nat_len", "nat_unlock"}

(* Every trap and every configuration ends, also with both caches full and     *)
(* contended and in a forked child, unless the fork took away the thread that  *)
(* held the lock of NativeCache: nothing releases that one.                    *)
EveryTrapReturns ==
  \A t \in Threads : pc[t] # "idle" ~> (pc[t] \in {"idle", "gone"} \/ LockOrphaned)
=============================================================================
