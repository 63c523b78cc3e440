--------------------------- MODULE ProcessProofs ----------------------------
(***************************************************************************)
(* Three parts of the process that share no state.  The binary search of     *)
(* export_service: right for every table.  The trampolines of int2e.rs, for  *)
(* every table size, every set of sites and any number of threads: one slot  *)
(* per site, and every thread resumes behind its own site.  The trace ring   *)
(* of diagnostics.rs, for every capacity and any number of handlers: a dump  *)
(* only shows events that were written whole.                                *)
(***************************************************************************)
EXTENDS Int2e, PeExport, TraceRing, FiniteSetTheorems, TLAPS

-----------------------------------------------------------------------------
(* The binary search of export_service. *)

(* What the loop knows: everything below low is smaller than the name, and     *)
(* everything from high on is larger.                                          *)
SearchInv ==
  /\ name_count \in Nat /\ low \in Nat /\ high \in Nat
  /\ names \in [0..(name_count - 1) -> Int] /\ wanted \in Int
  /\ \A i, j \in 0..(name_count - 1) : i < j => names[i] < names[j]
  /\ xpc \in {"walk", "headers"} => low = 0
  /\ xpc \in {"search", "missing"} =>
       /\ low <= high /\ high <= name_count
       /\ \A i \in 0..(low - 1) : names[i] < wanted
       /\ \A i \in high..(name_count - 1) : names[i] > wanted
  /\ xpc = "missing" => low = high
  /\ xpc = "found" => \E i \in 0..(name_count - 1) : names[i] = wanted /\ service = loads[i]
  /\ xpc # "found" => service = NoService

(* The middle of a range that is not empty lies inside it. *)
LEMMA MidInside ==
  ASSUME NEW l \in Nat, NEW h \in Nat, l < h
  PROVE  /\ l + (h - l) \div 2 \in Nat
         /\ l <= l + (h - l) \div 2
         /\ l + (h - l) \div 2 < h
  BY SMT

(* The table is sorted when the walk of the image begins; nothing is searched. *)
LEMMA SearchInit == ExportInit => SearchInv
<1> SUFFICES ASSUME ExportInit PROVE SearchInv
  BY Zenon
<1>1. name_count \in Nat /\ wanted \in Int /\ low = 0 /\ high = 0
  BY PeExportAssumption, SMT DEF PeExportAssumption, ExportInit
<1>2. names \in [0..(name_count - 1) -> Int]
  BY PeExportAssumption, Zenon DEF PeExportAssumption, ExportInit
<1>3. \A i, j \in 0..(name_count - 1) : i < j => names[i] < names[j]
  BY Zenon DEF ExportInit, Sorted
<1>4. xpc = "walk" /\ service = NoService
  BY Zenon DEF ExportInit
<1> QED
  BY <1>1, <1>2, <1>3, <1>4, SMT DEF SearchInv

(* Every probe keeps the wanted name between the bounds, in a sorted table.    *)
LEMMA SearchStepInv == SearchInv /\ [ExportNext]_exportVars => SearchInv'
<1> SUFFICES ASSUME SearchInv, [ExportNext]_exportVars PROVE SearchInv'
  BY Zenon
<1> USE DEF SearchInv
<1>1. CASE WalkModules
  BY <1>1, SMT DEF WalkModules, exportImage
<1>2. CASE ReadHeaders
  BY <1>2, SMT DEF ReadHeaders, exportImage
<1>3. CASE SearchStep
  <2>1. /\ Mid \in Nat /\ low <= Mid /\ Mid < high /\ Mid \in 0..(name_count - 1)
    BY <1>3, MidInside, SMT DEF SearchStep, Mid
  <2>2. CASE names[Mid] < wanted /\ low' = Mid + 1 /\ UNCHANGED <<high, xpc, service>>
    <3>1. \A i \in 0..Mid : names[i] < wanted
      BY <2>1, <2>2, <1>3, SMT DEF SearchStep
    <3> QED
      BY <1>3, <2>1, <2>2, <3>1, SMT DEF SearchStep, exportImage
  <2>3. CASE names[Mid] > wanted /\ high' = Mid /\ UNCHANGED <<low, xpc, service>>
    <3>1. \A i \in Mid..(name_count - 1) : names[i] > wanted
      BY <2>1, <2>3, <1>3, SMT DEF SearchStep
    <3> QED
      BY <1>3, <2>1, <2>3, <3>1, SMT DEF SearchStep, exportImage
  <2>4. CASE names[Mid] = wanted /\ service' = loads[Mid] /\ xpc' = "found" /\ UNCHANGED <<low, high>>
    BY <1>3, <2>1, <2>4, SMT DEF SearchStep, exportImage
  <2> QED
    BY <1>3, <2>2, <2>3, <2>4, Zenon DEF SearchStep
<1>4. CASE SearchEnds
  BY <1>4, SMT DEF SearchEnds, exportImage
<1>5. CASE ReadFails
  BY <1>5, SMT DEF ReadFails, exportImage
<1>6. CASE UNCHANGED exportVars
  BY <1>6, SMT DEF exportVars
<1> QED
  BY <1>1, <1>2, <1>3, <1>4, <1>5, <1>6, Zenon DEF ExportNext

(* With nothing left between the bounds, the name is not in the table.         *)
LEMMA SearchInvImplies == SearchInv => SearchIsRight
<1> SUFFICES ASSUME SearchInv PROVE SearchIsRight
  BY Zenon
<1>1. xpc = "search" /\ low < high => Mid \in 0..(name_count - 1)
  BY MidInside, SMT DEF SearchInv, Mid
<1>2. xpc = "missing" => \A i \in 0..(name_count - 1) : names[i] # wanted
  BY SMT DEF SearchInv
<1> QED
  BY <1>1, <1>2, Zenon DEF SearchInv, SearchIsRight

(* For every sorted export table and every name, export_service's binary       *)
(* search stays inside the table, answers with that export's service, and      *)
(* misses no export.                                                           *)
THEOREM BinarySearchIsRight == ExportSpec => []SearchIsRight
  BY SearchInit, SearchStepInv, SearchInvImplies, PTL DEF ExportSpec

-----------------------------------------------------------------------------
(* Arithmetic of the probing order. *)

(* A remainder is a slot number. *)
LEMMA ModInside ==
  ASSUME NEW a \in Nat, NEW c \in Nat \ {0}
  PROVE  a % c \in 0..(c - 1)
  BY SMT

(* Division with remainder. *)
LEMMA DivMod ==
  ASSUME NEW a \in Nat, NEW c \in Nat \ {0}
  PROVE  a = c * (a \div c) + (a % c) /\ a \div c \in Nat
  BY SMT

(* Quotient and remainder are unique. *)
LEMMA DivModUnique ==
  ASSUME NEW c \in Nat \ {0}, NEW q \in Nat, NEW p \in Nat,
         NEW r \in 0..(c - 1), NEW s \in 0..(c - 1), c * q + r = c * p + s
  PROVE  q = p /\ r = s
<1>1. CASE q < p
  <2>1. c * (q + 1) <= c * p
    BY <1>1, SMT
  <2>2. c * (q + 1) = c * q + c
    BY SMT
  <2> QED
    BY <2>1, <2>2, SMT
<1>2. CASE p < q
  <2>1. c * (p + 1) <= c * q
    BY <1>2, SMT
  <2>2. c * (p + 1) = c * p + c
    BY SMT
  <2> QED
    BY <2>1, <2>2, SMT
<1>3. CASE p = q
  BY <1>3, SMT
<1> QED
  BY <1>1, <1>2, <1>3, SMT

(* The remainder of a multiple of c plus r is r. *)
LEMMA ModOf ==
  ASSUME NEW c \in Nat \ {0}, NEW q \in Nat, NEW r \in 0..(c - 1)
  PROVE  (c * q + r) % c = r
<1> DEFINE a == c * q + r
           d == a \div c
           m == a % c
<1>1. a \in Nat
  BY SMT
<1>2. a = c * d + m /\ d \in Nat /\ m \in 0..(c - 1)
  BY <1>1, DivMod, ModInside, Zenon
<1> HIDE DEF d, m
<1>3. c * q + r = c * d + m
  BY <1>2, Zenon
<1>4. r = m
  BY <1>2, <1>3, DivModUnique
<1> QED
  BY <1>4, Zenon DEF m

(* Probing from h reaches every slot. *)
LEMMA ProbingCovers ==
  ASSUME NEW h \in Nat, NEW c \in Nat \ {0}, NEW i \in 0..(c - 1)
  PROVE  \E k \in 0..(c - 1) : (h + k) % c = i
<1> DEFINE q == h \div c
           r == h % c
<1>1. h = c * q + r /\ q \in Nat /\ r \in 0..(c - 1)
  BY DivMod, ModInside, Zenon
<1> HIDE DEF q, r
<1>2. CASE r <= i
  <2>1. h + (i - r) = c * q + i /\ i - r \in 0..(c - 1)
    BY <1>1, <1>2, SMT
  <2>2. (c * q + i) % c = i
    BY <1>1, ModOf, Zenon
  <2> QED
    BY <2>1, <2>2, Zenon
<1>3. CASE i < r
  <2>1. c * (q + 1) = c * q + c
    BY <1>1, SMT
  <2>2. h + (i - r + c) = c * (q + 1) + i /\ i - r + c \in 0..(c - 1)
    BY <1>1, <1>3, <2>1, SMT
  <2>3. (c * (q + 1) + i) % c = i
    <3>1. q + 1 \in Nat
      BY <1>1, SMT
    <3> QED
      BY <3>1, ModOf, Zenon
  <2> QED
    BY <2>2, <2>3, Zenon
<1> QED
  BY <1>1, <1>2, <1>3, SMT

(* And reaches no slot twice. *)
LEMMA ProbingIsInjective ==
  ASSUME NEW h \in Nat, NEW c \in Nat \ {0}, NEW k \in 0..(c - 1), NEW l \in 0..(c - 1),
         (h + k) % c = (h + l) % c
  PROVE  k = l
<1> DEFINE p == (h + k) \div c
           q == (h + l) \div c
           r == (h + k) % c
<1>1. h + k = c * p + r /\ p \in Nat /\ r \in 0..(c - 1)
  BY DivMod, ModInside, h + k \in Nat, Zenon
<1>2. h + l = c * q + r /\ q \in Nat
  BY DivMod, h + l \in Nat, Zenon
<1> HIDE DEF p, q, r
<1>3. CASE p < q
  <2>1. c * (p + 1) <= c * q
    BY <1>1, <1>2, <1>3, SMT
  <2>2. c * (p + 1) = c * p + c
    BY <1>1, SMT
  <2> QED
    BY <1>1, <1>2, <2>1, <2>2, SMT
<1>4. CASE q < p
  <2>1. c * (q + 1) <= c * p
    BY <1>1, <1>2, <1>4, SMT
  <2>2. c * (q + 1) = c * q + c
    BY <1>2, SMT
  <2> QED
    BY <1>1, <1>2, <2>1, <2>2, SMT
<1>5. CASE p = q
  BY <1>1, <1>2, <1>5, SMT
<1> QED
  BY <1>1, <1>2, <1>3, <1>4, <1>5, SMT
-----------------------------------------------------------------------------
(* The inductive invariant. *)

(* The slot that the k-th probe for site s looks at, in a table of c slots. *)
At(s, k, c) == (HomeOf[s] + k) % c

Probing == {"read", "probe", "claim", "target", "build", "publish"}
Claimed == {"target", "build", "publish"}

Labels ==
  Probing \cup Handled \cup {"run", "gone", "patch", "guard", "swap", "swapped", "not swapped"}
FaultRecord == [site : Sites \cup {NoSite}, offset : Nat, page : Pages \cup {NoPage}]

Int2eTypeOK ==
  /\ capacity \in Nat \ {0}
  /\ sites \in [0..(capacity - 1) -> Sites \cup {NoSite}]
  /\ targets \in [0..(capacity - 1) -> Pages \cup {NoPage}]
  /\ thunks \in [Pages -> Sites \cup {NoSite}]
  /\ ipc \in [Faulters -> Labels] /\ fault \in [Faulters -> FaultRecord]
  /\ \A t \in Faulters : ipc[t] \in Probing =>
       /\ fault[t].site \in Sites /\ fault[t].offset <= capacity
       /\ ipc[t] \notin {"read", "probe"} => fault[t].offset < capacity

(* The slots that a site's probes pass before its own are taken by others, and *)
(* so are those that a thread's probes have passed.                            *)
TakenBefore(s, n) == \A m \in 0..(n - 1) : sites[At(s, m, capacity)] \in Sites \ {s}

ProbedAreTaken ==
  /\ \A i, k \in 0..(capacity - 1) :
       sites[i] \in Sites /\ At(sites[i], k, capacity) = i => TakenBefore(sites[i], k)
  /\ \A t \in Faulters : ipc[t] \in Probing => TakenBefore(fault[t].site, fault[t].offset)
  /\ \A t \in Faulters : ipc[t] \in Claimed => sites[Slot(t)] = fault[t].site

(* A published page resumes behind the site of its slot and stays mapped; a    *)
(* page that is about to be published belongs to its thread alone.             *)
PagesAreOwn ==
  /\ \A i \in 0..(capacity - 1) : targets[i] # NoPage =>
       sites[i] \in Sites /\ thunks[targets[i]] = sites[i]
  /\ \A t \in Faulters : ipc[t] = "publish" =>
       /\ fault[t].page \in Pages /\ thunks[fault[t].page] = fault[t].site
       /\ \A i \in 0..(capacity - 1) : targets[i] # fault[t].page
       /\ \A u \in Faulters \ {t} : ipc[u] = "publish" => fault[u].page # fault[t].page
  /\ \A t \in Faulters : ipc[t] = "trampoline" =>
       /\ fault[t].page \in Pages /\ thunks[fault[t].page] = fault[t].site
       /\ \E i \in 0..(capacity - 1) : targets[i] = fault[t].page

(* No page is lost before a fork. *)
Whole == ~int2e_forked
PagesAreKnown == \A p \in Pages : thunks[p] # NoSite /\ Whole => Published(p) \/ Building(p)

Int2eInv == Int2eTypeOK /\ ProbedAreTaken /\ PagesAreOwn /\ PagesAreKnown
-----------------------------------------------------------------------------
(* A probe looks at a slot of the table. *)
LEMMA AtInside ==
  ASSUME NEW s \in Sites, NEW k \in Nat, NEW c \in Nat \ {0}
  PROVE  At(s, k, c) \in 0..(c - 1)
  BY Int2eAssumption, ModInside, HomeOf[s] + k \in Nat, Zenon DEF At, Int2eAssumption

(* The probes for a site reach every slot. *)
LEMMA AtCovers ==
  ASSUME NEW s \in Sites, NEW c \in Nat \ {0}, NEW i \in 0..(c - 1)
  PROVE  \E k \in 0..(c - 1) : At(s, k, c) = i
<1>1. HomeOf[s] \in Nat
  BY Int2eAssumption, Zenon DEF Int2eAssumption
<1> QED
  BY <1>1, ProbingCovers, Zenon DEF At

(* The probes for a site look at no slot twice. *)
LEMMA AtInjective ==
  ASSUME NEW s \in Sites, NEW c \in Nat \ {0}, NEW k \in 0..(c - 1), NEW l \in 0..(c - 1),
         At(s, k, c) = At(s, l, c)
  PROVE  k = l
<1>1. HomeOf[s] \in Nat
  BY Int2eAssumption, Zenon DEF Int2eAssumption
<1> QED
  BY <1>1, ProbingIsInjective, Zenon DEF At

(* The empty table satisfies the invariant. *)
LEMMA InitInv == Int2eInit => Int2eInv
<1> SUFFICES ASSUME Int2eInit PROVE Int2eInv
  BY Zenon
<1>1. capacity \in Nat \ {0} /\ NoSite \notin Sites /\ NoPage \notin Pages
  BY Int2eAssumption, Zenon DEF Int2eInit, Int2eAssumption
<1>2. /\ sites = [i \in 0..(capacity - 1) |-> NoSite]
      /\ targets = [i \in 0..(capacity - 1) |-> NoPage]
      /\ thunks = [p \in Pages |-> NoSite]
      /\ ipc = [t \in Faulters |-> "run"] /\ fault = [t \in Faulters |-> NoFault]
  BY Zenon DEF Int2eInit
<1>3. Int2eTypeOK
  BY <1>1, <1>2, Zenon DEF Int2eTypeOK, NoFault, Probing, Handled, Labels, FaultRecord
<1>4. ProbedAreTaken
  BY <1>1, <1>2, Zenon DEF ProbedAreTaken, Probing, Claimed
<1>5. PagesAreOwn
  BY <1>1, <1>2, Zenon DEF PagesAreOwn
<1>6. PagesAreKnown
  BY <1>2, Zenon DEF PagesAreKnown
<1> QED
  BY <1>3, <1>4, <1>5, <1>6, Zenon DEF Int2eInv

(* TRAMPOLINE_CAPACITY is a constant of the program. *)
LEMMA CapacityStays == [Int2eNext]_int2eVars => capacity' = capacity
  BY ZenonT(30) DEF Int2eNext, Int2eStep, RaiseFault, ReadInstruction, ProbeSite, TableFull, ClaimSite,
         LoadTarget, BuildTrampoline, PublishTarget, PatchRead, PatchOpen, PatchExchange,
         PatchClose, LeaveHandler, RewriteSite, KuserGuard, Int2eFork, int2eVars, setting

(* A thread's locals, and updates of them. *)
LEMMA FieldTypes ==
  ASSUME NEW f \in FaultRecord
  PROVE  f.site \in Sites \cup {NoSite} /\ f.offset \in Nat /\ f.page \in Pages \cup {NoPage}
  BY Zenon DEF FaultRecord

(* The same for the locals of a given thread. *)
LEMMA Locals ==
  ASSUME Int2eTypeOK, NEW t \in Faulters
  PROVE  /\ fault[t] \in FaultRecord /\ fault[t].offset \in Nat /\ fault[t].offset + 1 \in Nat
         /\ capacity \in Nat \ {0} /\ 0 <= capacity
         /\ fault[t].offset < capacity => fault[t].offset + 1 <= capacity
<1>1. fault[t] \in FaultRecord
  BY Zenon DEF Int2eTypeOK
<1>2. fault[t].offset \in Nat
  BY <1>1, FieldTypes, Zenon
<1>3. capacity \in Nat \ {0}
  BY Zenon DEF Int2eTypeOK
<1> QED
  BY <1>1, <1>2, <1>3

(* Entering the handler sets the site. *)
LEMMA SetSite ==
  ASSUME NEW s \in Sites
  PROVE  /\ [NoFault EXCEPT !.site = s] \in FaultRecord
         /\ [NoFault EXCEPT !.site = s].site = s /\ [NoFault EXCEPT !.site = s].offset = 0
  BY Zenon DEF FaultRecord, NoFault

(* The next probe changes the offset only. *)
LEMMA SetOffset ==
  ASSUME NEW f \in FaultRecord, NEW n \in Nat
  PROVE  /\ [f EXCEPT !.offset = n] \in FaultRecord
         /\ [f EXCEPT !.offset = n].site = f.site /\ [f EXCEPT !.offset = n].offset = n
  BY Zenon DEF FaultRecord

(* Building or finding a trampoline changes the page only. *)
LEMMA SetPage ==
  ASSUME NEW f \in FaultRecord, NEW p \in Pages \cup {NoPage}
  PROVE  /\ [f EXCEPT !.page = p] \in FaultRecord /\ [f EXCEPT !.page = p].page = p
         /\ [f EXCEPT !.page = p].site = f.site /\ [f EXCEPT !.page = p].offset = f.offset
  BY Zenon DEF FaultRecord

(* What a thread's step does to the types, given its new label and locals. *)
LEMMA TypeOfMove ==
  ASSUME Int2eTypeOK, capacity' = capacity,
         NEW t \in Faulters, NEW l \in Labels, NEW f \in FaultRecord,
         ipc' = [ipc EXCEPT ![t] = l], fault' = [fault EXCEPT ![t] = f],
         l \in Probing => f.site \in Sites /\ f.offset <= capacity,
         l \in Probing \ {"read", "probe"} => f.offset < capacity,
         sites' \in [0..(capacity - 1) -> Sites \cup {NoSite}],
         targets' \in [0..(capacity - 1) -> Pages \cup {NoPage}],
         thunks' \in [Pages -> Sites \cup {NoSite}]
  PROVE  Int2eTypeOK'
<1>1. ipc' \in [Faulters -> Labels] /\ fault' \in [Faulters -> FaultRecord]
  BY Zenon DEF Int2eTypeOK
<1>2. ASSUME NEW u \in Faulters, ipc'[u] \in Probing
      PROVE  /\ fault'[u].site \in Sites /\ fault'[u].offset <= capacity
             /\ ipc'[u] \notin {"read", "probe"} => fault'[u].offset < capacity
  <2>1. CASE u = t
    BY <1>2, <2>1, Zenon DEF Int2eTypeOK
  <2>2. CASE u # t
    BY <1>2, <2>2, Zenon DEF Int2eTypeOK
  <2> QED
    BY <2>1, <2>2, Zenon
<1> QED
  BY <1>1, <1>2, Zenon DEF Int2eTypeOK

(* The slot of a thread's current probe is a slot of the table. *)
LEMMA SlotInside ==
  ASSUME Int2eTypeOK, NEW t \in Faulters, ipc[t] \in Probing
  PROVE  Slot(t) \in 0..(capacity - 1) /\ Slot(t) = At(fault[t].site, fault[t].offset, capacity)
<1>1. fault[t].site \in Sites /\ fault[t].offset \in Nat /\ capacity \in Nat \ {0}
  BY Zenon DEF Int2eTypeOK, FaultRecord
<1> QED
  BY <1>1, AtInside, Zenon DEF Slot, At

(* Types, and how far a thread has probed. *)
LEMMA TypeStep == Int2eTypeOK /\ [Int2eNext]_int2eVars => Int2eTypeOK'
<1> SUFFICES ASSUME Int2eTypeOK, [Int2eNext]_int2eVars PROVE Int2eTypeOK'
  BY Zenon
<1> USE DEF Int2eTypeOK, Probing, Handled, Labels, IGo, ISet, tableVars
<1>0. capacity' = capacity
  BY CapacityStays, ZenonT(30)
<1>1. ASSUME NEW t \in Faulters, NEW s \in Sites, RaiseFault(t, s) PROVE Int2eTypeOK'
  <2> DEFINE f == [NoFault EXCEPT !.site = s]
  <2>1. f \in FaultRecord /\ f.site = s /\ f.offset = 0 /\ f.offset <= capacity
    BY SetSite, Locals, Zenon
  <2>2. /\ ipc' = [ipc EXCEPT ![t] = "read"] /\ fault' = [fault EXCEPT ![t] = f]
        /\ UNCHANGED <<sites, targets, thunks>>
    BY <1>1, Zenon DEF RaiseFault
  <2> HIDE DEF f
  <2> QED
    BY <1>0, <2>1, <2>2, TypeOfMove, Zenon
<1>2. ASSUME NEW t \in Faulters, ReadInstruction(t) PROVE Int2eTypeOK'
  BY <1>0, <1>2, Zenon DEF ReadInstruction
<1>3. ASSUME NEW t \in Faulters, ProbeSite(t) PROVE Int2eTypeOK'
  <2>1. CASE UNCHANGED fault
    BY <1>0, <1>3, <2>1, ZenonT(30) DEF ProbeSite
  <2>2. CASE ISet(t, [fault[t] EXCEPT !.offset = @ + 1]) /\ UNCHANGED ipc
    <3> DEFINE f == [fault[t] EXCEPT !.offset = fault[t].offset + 1]
    <3>0. fault[t] \in FaultRecord /\ fault[t].offset \in Nat /\ fault[t].offset + 1 \in Nat
      BY Locals, Zenon
    <3>1. /\ f \in FaultRecord /\ f.site = fault[t].site /\ f.offset = fault[t].offset + 1
      BY <3>0, SetOffset, Zenon
    <3>2. ipc' = [ipc EXCEPT ![t] = "probe"] /\ fault' = [fault EXCEPT ![t] = f]
      BY <1>3, <2>2, Zenon DEF ProbeSite
    <3>3. f.site \in Sites /\ f.offset <= capacity
      BY <1>3, <3>1, Locals, ZenonT(30) DEF ProbeSite
    <3> HIDE DEF f
    <3> QED
      BY <1>0, <1>3, <3>1, <3>2, <3>3, TypeOfMove, Zenon DEF ProbeSite
  <2> QED
    BY <1>3, <2>1, <2>2, Zenon DEF ProbeSite
<1>4. ASSUME NEW t \in Faulters, TableFull(t) PROVE Int2eTypeOK'
  <2>1. [fault[t] EXCEPT !.offset = 0] \in FaultRecord
    BY ZenonT(30) DEF FaultRecord
  <2> QED
    BY <1>0, <1>4, <2>1, TypeOfMove, Zenon DEF TableFull
<1>5. ASSUME NEW t \in Faulters, ClaimSite(t) PROVE Int2eTypeOK'
  BY <1>0, <1>5, ZenonT(30) DEF ClaimSite
<1>6. ASSUME NEW t \in Faulters, LoadTarget(t) PROVE Int2eTypeOK'
  <2>1. CASE UNCHANGED fault
    BY <1>0, <1>6, <2>1, ZenonT(30) DEF LoadTarget
  <2>2. CASE ISet(t, [fault[t] EXCEPT !.page = targets[Slot(t)]]) /\ IGo(t, "trampoline")
    <3>1. [fault[t] EXCEPT !.page = targets[Slot(t)]] \in FaultRecord
      BY <1>6, SlotInside, SetPage, Zenon DEF LoadTarget
    <3> QED
      BY <1>0, <1>6, <2>2, <3>1, TypeOfMove, Zenon DEF LoadTarget
  <2> QED
    BY <1>6, <2>1, <2>2, Zenon DEF LoadTarget
<1>7. ASSUME NEW t \in Faulters, BuildTrampoline(t) PROVE Int2eTypeOK'
  <2>1. /\ ipc[t] = "build" /\ UNCHANGED <<sites, targets>>
        /\ \/ \E p \in Pages :
                /\ thunks' = [thunks EXCEPT ![p] = fault[t].site]
                /\ ISet(t, [fault[t] EXCEPT !.page = p]) /\ IGo(t, "publish")
           \/ IGo(t, "patch") /\ ISet(t, [fault[t] EXCEPT !.offset = 0]) /\ UNCHANGED thunks
    BY <1>7, ZenonT(30) DEF BuildTrampoline
  <2>2. CASE \E p \in Pages :
                /\ thunks' = [thunks EXCEPT ![p] = fault[t].site]
                /\ ISet(t, [fault[t] EXCEPT !.page = p]) /\ IGo(t, "publish")
    <3>1. PICK p \in Pages :
                /\ thunks' = [thunks EXCEPT ![p] = fault[t].site]
                /\ ISet(t, [fault[t] EXCEPT !.page = p]) /\ IGo(t, "publish")
      BY <2>2, Zenon
    <3> DEFINE f == [fault[t] EXCEPT !.page = p]
    <3>2. /\ f \in FaultRecord /\ f.site = fault[t].site /\ f.offset = fault[t].offset
      BY ZenonT(30) DEF FaultRecord
    <3>3. ipc' = [ipc EXCEPT ![t] = "publish"] /\ fault' = [fault EXCEPT ![t] = f]
      BY <3>1, Zenon
    <3>4. f.site \in Sites /\ f.offset < capacity /\ f.offset <= capacity
      BY <2>1, <3>2, Zenon
    <3>5. thunks' \in [Pages -> Sites \cup {NoSite}]
      BY <3>1, <3>2, <3>4, Zenon
    <3> HIDE DEF f
    <3> QED
      BY <1>0, <2>1, <3>2, <3>3, <3>4, <3>5, TypeOfMove, Zenon
  <2>3. CASE IGo(t, "patch") /\ ISet(t, [fault[t] EXCEPT !.offset = 0]) /\ UNCHANGED thunks
    <3>1. [fault[t] EXCEPT !.offset = 0] \in FaultRecord
      BY Zenon DEF FaultRecord
    <3> QED
      BY <1>0, <2>1, <2>3, <3>1, TypeOfMove, Zenon
  <2> QED
    BY <2>1, <2>2, <2>3, Zenon
<1>8. ASSUME NEW t \in Faulters, PublishTarget(t) PROVE Int2eTypeOK'
  <2>1. Slot(t) \in 0..(capacity - 1) /\ fault[t].page \in Pages \cup {NoPage}
    BY <1>8, SlotInside, Zenon DEF PublishTarget, FaultRecord
  <2>2. CASE UNCHANGED fault
    BY <1>0, <1>8, <2>1, <2>2, ZenonT(30) DEF PublishTarget
  <2>3. CASE ISet(t, [fault[t] EXCEPT !.page = targets[Slot(t)]]) /\ UNCHANGED targets
    <3>1. [fault[t] EXCEPT !.page = targets[Slot(t)]] \in FaultRecord
      BY <2>1, ZenonT(30) DEF FaultRecord
    <3>2. thunks' \in [Pages -> Sites \cup {NoSite}]
      BY <1>8, Zenon DEF PublishTarget
    <3> QED
      BY <1>0, <1>8, <2>3, <3>1, <3>2, TypeOfMove, Zenon DEF PublishTarget
  <2> QED
    BY <1>8, <2>2, <2>3, Zenon DEF PublishTarget
<1>9. ASSUME NEW t \in Faulters, PatchRead(t) \/ PatchOpen(t) \/ PatchClose(t) PROVE Int2eTypeOK'
  BY <1>0, <1>9, ZenonT(30) DEF PatchRead, PatchOpen, PatchClose
<1>10. ASSUME NEW t \in Faulters, PatchExchange(t) PROVE Int2eTypeOK'
  BY <1>0, <1>10, ZenonT(30) DEF PatchExchange
<1>11. ASSUME NEW t \in Faulters, LeaveHandler(t) PROVE Int2eTypeOK'
  BY <1>0, <1>11, Zenon DEF LeaveHandler, NoFault, FaultRecord
<1>12. ASSUME NEW t \in Faulters, Int2eFork(t) PROVE Int2eTypeOK'
  BY <1>0, <1>12, Zenon DEF Int2eFork, NoFault, FaultRecord
<1>13. CASE KuserGuard \/ (\E s \in Sites : RewriteSite(s)) \/ UNCHANGED int2eVars
  BY <1>0, <1>13, Zenon DEF KuserGuard, RewriteSite, int2eVars
<1> QED
  BY <1>1, <1>2, <1>3, <1>4, <1>5, <1>6, <1>7, <1>8, <1>9, <1>10, <1>11, <1>12, <1>13, Zenon
  DEF Int2eNext, Int2eStep
-----------------------------------------------------------------------------
(* Slots never change once they hold a site. *)
LEMMA TakenStays ==
  ASSUME Int2eTypeOK, capacity' = capacity,
         \A i \in 0..(capacity - 1) : sites[i] \in Sites => sites'[i] = sites[i],
         NEW s \in Sites, NEW n \in Nat, TakenBefore(s, n)
  PROVE  TakenBefore(s, n)'
<1> SUFFICES ASSUME NEW m \in 0..(n - 1) PROVE sites'[At(s, m, capacity)] \in Sites \ {s}
  BY Zenon DEF TakenBefore, At
<1>1. capacity \in Nat \ {0}
  BY Zenon DEF Int2eTypeOK
<1>2. m \in Nat
  OBVIOUS
<1>3. At(s, m, capacity) \in 0..(capacity - 1)
  BY ONLY <1>1, <1>2, AtInside, s \in Sites, Zenon
<1> QED
  BY <1>3, Zenon DEF TakenBefore

(* A step of one thread that leaves the table's sites alone. *)
LEMMA ProbedOfMove ==
  ASSUME Int2eTypeOK, ProbedAreTaken, capacity' = capacity, sites' = sites, NEW t \in Faulters,
         \A u \in Faulters \ {t} : ipc'[u] = ipc[u] /\ fault'[u] = fault[u],
         ipc'[t] \in Probing => TakenBefore(fault'[t].site, fault'[t].offset),
         ipc'[t] \in Claimed => sites[At(fault'[t].site, fault'[t].offset, capacity)] = fault'[t].site
  PROVE  ProbedAreTaken'
<1>1. ASSUME NEW u \in Faulters, ipc'[u] \in Probing PROVE TakenBefore(fault'[u].site, fault'[u].offset)
  BY <1>1, Zenon DEF ProbedAreTaken
<1>2. ASSUME NEW u \in Faulters, ipc'[u] \in Claimed
      PROVE  sites[At(fault'[u].site, fault'[u].offset, capacity)] = fault'[u].site
  BY <1>2, Zenon DEF ProbedAreTaken, Slot, At
<1> QED
  BY <1>1, <1>2, Zenon DEF ProbedAreTaken, TakenBefore, Slot, At

(* No step disturbs the probing order of the table. *)
LEMMA ProbedStep ==
  Int2eTypeOK /\ ProbedAreTaken /\ [Int2eNext]_int2eVars => ProbedAreTaken'
<1> SUFFICES ASSUME Int2eTypeOK, ProbedAreTaken, [Int2eNext]_int2eVars PROVE ProbedAreTaken'
  BY Zenon
<1>0. capacity' = capacity /\ \A t \in Faulters : fault[t] \in FaultRecord
  BY CapacityStays, Locals, Zenon
<1>1. ASSUME NEW t \in Faulters, NEW s \in Sites, RaiseFault(t, s) PROVE ProbedAreTaken'
  <2>1. /\ sites' = sites /\ ipc'[t] = "read" /\ fault'[t] = [NoFault EXCEPT !.site = s]
        /\ \A u \in Faulters \ {t} : ipc'[u] = ipc[u] /\ fault'[u] = fault[u]
    BY <1>1, Zenon DEF RaiseFault, IGo, ISet, tableVars, Int2eTypeOK
  <2>2. TakenBefore(fault'[t].site, fault'[t].offset)
    BY <2>1, SetSite DEF TakenBefore
  <2> QED
    BY <1>0, <2>1, <2>2, ProbedOfMove, Zenon DEF Claimed
<1>2. ASSUME NEW t \in Faulters, ReadInstruction(t) PROVE ProbedAreTaken'
  <2>1. /\ sites' = sites /\ fault' = fault /\ ipc[t] = "read" /\ ipc'[t] \notin Claimed
        /\ \A u \in Faulters \ {t} : ipc'[u] = ipc[u]
    BY <1>2, Zenon DEF ReadInstruction, IGo, tableVars, Int2eTypeOK, Claimed
  <2>2. TakenBefore(fault'[t].site, fault'[t].offset)
    BY <2>1, Zenon DEF ProbedAreTaken, Probing
  <2> QED
    BY <1>0, <2>1, <2>2, ProbedOfMove, Zenon
<1>3. ASSUME NEW t \in Faulters, ProbeSite(t) PROVE ProbedAreTaken'
  <2>1. /\ sites' = sites /\ ipc[t] = "probe"
        /\ \A u \in Faulters \ {t} : ipc'[u] = ipc[u] /\ fault'[u] = fault[u]
    BY <1>3, Zenon DEF ProbeSite, IGo, ISet, tableVars, Int2eTypeOK
  <2>2. TakenBefore(fault[t].site, fault[t].offset)
    BY <2>1, Zenon DEF ProbedAreTaken, Probing
  <2>3. CASE sites[Slot(t)] \notin Sites \ {fault[t].site}
    <3>1. /\ fault' = fault
          /\ \/ ipc'[t] = "claim"
             \/ ipc'[t] = "target" /\ sites[Slot(t)] = fault[t].site
      BY <1>3, <2>3, Zenon DEF ProbeSite, IGo, ISet, Int2eTypeOK
    <3>2. ipc'[t] \in Claimed => sites[At(fault'[t].site, fault'[t].offset, capacity)] = fault'[t].site
      BY <3>1, Zenon DEF Claimed, Slot, At
    <3> QED
      BY <1>0, <2>1, <2>2, <3>1, <3>2, ProbedOfMove, Zenon
  <2>4. CASE sites[Slot(t)] \in Sites \ {fault[t].site}
    <3>0. fault'[t] = [fault[t] EXCEPT !.offset = fault[t].offset + 1] /\ ipc' = ipc
      BY <1>3, <2>4, Int2eAssumption, Zenon DEF ProbeSite, ISet, Int2eTypeOK, Int2eAssumption
    <3>1. fault'[t].site = fault[t].site /\ fault'[t].offset = fault[t].offset + 1
      BY <3>0, SetOffset, Locals
    <3>2. sites[At(fault[t].site, fault[t].offset, capacity)] \in Sites \ {fault[t].site}
      BY <2>4, Zenon DEF Slot, At
    <3>3. fault[t].offset \in Nat
      BY Locals, Zenon
    <3>4. TakenBefore(fault[t].site, fault[t].offset + 1)
      BY <2>2, <3>2, <3>3 DEF TakenBefore
    <3> QED
      BY <1>0, <2>1, <3>0, <3>1, <3>4, ProbedOfMove, Zenon DEF Claimed
  <2> QED
    BY <2>3, <2>4, Zenon
<1>4. ASSUME NEW t \in Faulters, ClaimSite(t) PROVE ProbedAreTaken'
  <2>0. /\ fault' = fault /\ ipc[t] = "claim" /\ \A u \in Faulters \ {t} : ipc'[u] = ipc[u]
        /\ \/ sites[Slot(t)] = NoSite /\ ipc'[t] = "target"
              /\ sites' = [sites EXCEPT ![Slot(t)] = fault[t].site]
           \/ sites' = sites /\ ipc'[t] = "probe"
    BY <1>4, Zenon DEF ClaimSite, IGo, Int2eTypeOK
  <2>1. TakenBefore(fault[t].site, fault[t].offset)
    BY <2>0, Zenon DEF ProbedAreTaken, Probing
  <2>2. CASE sites' = sites /\ ipc'[t] = "probe"
    BY <1>0, <2>0, <2>1, <2>2, ProbedOfMove, Zenon DEF Claimed
  <2>3. CASE /\ sites[Slot(t)] = NoSite /\ ipc'[t] = "target"
             /\ sites' = [sites EXCEPT ![Slot(t)] = fault[t].site]
    <3> DEFINE own == fault[t].site
               slot == Slot(t)
    <3>1. /\ slot \in 0..(capacity - 1) /\ slot = At(own, fault[t].offset, capacity)
          /\ own \in Sites /\ fault[t].offset \in 0..(capacity - 1) /\ NoSite \notin Sites
          /\ capacity \in Nat \ {0}
      <4>1. ipc[t] \in Probing /\ ipc[t] \notin {"read", "probe"}
        BY <2>0, Zenon DEF Probing
      <4>2. fault[t].offset \in Nat /\ capacity \in Nat \ {0}
        BY Locals, Zenon
      <4>3. own \in Sites /\ fault[t].offset < capacity
        BY <4>1, Zenon DEF Int2eTypeOK
      <4>4. fault[t].offset \in 0..(capacity - 1)
        BY <4>2, <4>3
      <4> QED
        BY <4>1, <4>2, <4>3, <4>4, SlotInside, Int2eAssumption, Zenon DEF Int2eAssumption
    <3>2. /\ sites'[slot] = own
          /\ \A i \in 0..(capacity - 1) : i # slot => sites'[i] = sites[i]
          /\ \A i \in 0..(capacity - 1) : sites[i] \in Sites => sites'[i] = sites[i]
      BY <2>3, <3>1, Zenon DEF Int2eTypeOK
    <3> HIDE DEF own, slot
    <3>3. ASSUME NEW i \in 0..(capacity - 1), NEW k \in 0..(capacity - 1),
                 NEW s \in Sites, sites'[i] = s, At(s, k, capacity) = i
          PROVE  TakenBefore(s, k)'
      <4>1. CASE i = slot
        <5>1. k = fault[t].offset
          BY <3>1, <3>2, <3>3, <4>1, AtInjective
        <5>2. TakenBefore(own, k)
          BY <2>1, <5>1, Zenon DEF own
        <5> QED
          BY <1>0, <3>1, <3>2, <3>3, <4>1, <5>2, TakenStays
      <4>2. CASE i # slot
        <5>1. TakenBefore(s, k)
          BY <3>2, <3>3, <4>2, Zenon DEF ProbedAreTaken
        <5> QED
          BY <1>0, <3>2, <3>3, <5>1, TakenStays
      <4> QED
        BY <4>1, <4>2, Zenon
    <3>4. ASSUME NEW u \in Faulters, ipc'[u] \in Probing
          PROVE  TakenBefore(fault[u].site, fault[u].offset)'
      <4>1. ipc[u] \in Probing
        BY <2>0, <3>4, Zenon DEF Probing
      <4>2. /\ TakenBefore(fault[u].site, fault[u].offset)
            /\ fault[u].site \in Sites /\ fault[u].offset \in Nat
        BY <4>1, Locals, Zenon DEF ProbedAreTaken, Int2eTypeOK
      <4> QED
        BY <1>0, <2>0, <3>2, <4>2, TakenStays, Zenon
    <3>5. ASSUME NEW u \in Faulters, ipc'[u] \in Claimed PROVE sites'[Slot(u)] = fault[u].site
      <4>1. CASE u = t
        BY <3>2, <4>1, Zenon DEF own, slot
      <4>2. CASE u # t
        <5>1. ipc[u] \in Claimed /\ ipc[u] \in Probing
          BY <2>0, <3>5, <4>2, Zenon DEF Claimed, Probing
        <5>2. /\ sites[Slot(u)] = fault[u].site /\ fault[u].site \in Sites
              /\ Slot(u) \in 0..(capacity - 1)
          BY <5>1, SlotInside, Zenon DEF ProbedAreTaken, Int2eTypeOK
        <5> QED
          BY <3>2, <5>2, Zenon
      <4> QED
        BY <4>1, <4>2, Zenon
    <3> QED
      BY <1>0, <2>0, <3>3, <3>4, <3>5, ZenonT(30) DEF ProbedAreTaken, Slot, At
  <2> QED
    BY <2>0, <2>2, <2>3, Zenon
<1>5. ASSUME NEW t \in Faulters, BuildTrampoline(t) PROVE ProbedAreTaken'
  <2>1. /\ sites' = sites /\ ipc[t] = "build"
        /\ \A u \in Faulters \ {t} : ipc'[u] = ipc[u] /\ fault'[u] = fault[u]
        /\ \/ \E p \in Pages : fault'[t] = [fault[t] EXCEPT !.page = p]
           \/ ipc'[t] = "patch"
    BY <1>5, Zenon DEF BuildTrampoline, IGo, ISet, Int2eTypeOK
  <2>2. ASSUME NEW p \in Pages, fault'[t] = [fault[t] EXCEPT !.page = p]
        PROVE  fault'[t].site = fault[t].site /\ fault'[t].offset = fault[t].offset
    BY <1>0, <2>2, SetPage
  <2>3. /\ TakenBefore(fault[t].site, fault[t].offset)
        /\ sites[At(fault[t].site, fault[t].offset, capacity)] = fault[t].site
    BY <2>1, Zenon DEF ProbedAreTaken, Probing, Claimed, Slot, At
  <2> QED
    BY <1>0, <2>1, <2>2, <2>3, ProbedOfMove, Zenon DEF Probing, Claimed
<1>6. ASSUME NEW t \in Faulters, LoadTarget(t) PROVE ProbedAreTaken'
  <2>1. /\ sites' = sites /\ ipc[t] = "target"
        /\ \A u \in Faulters \ {t} : ipc'[u] = ipc[u] /\ fault'[u] = fault[u]
        /\ fault' = fault \/ ipc'[t] = "trampoline"
    BY <1>6, Zenon DEF LoadTarget, IGo, ISet, tableVars, Int2eTypeOK
  <2>2. /\ TakenBefore(fault[t].site, fault[t].offset)
        /\ sites[At(fault[t].site, fault[t].offset, capacity)] = fault[t].site
    BY <2>1, Zenon DEF ProbedAreTaken, Probing, Claimed, Slot, At
  <2> QED
    BY <1>0, <2>1, <2>2, ProbedOfMove, Zenon DEF Probing, Claimed
<1>7. ASSUME NEW t \in Faulters,
             \/ TableFull(t) \/ PublishTarget(t) \/ PatchRead(t) \/ PatchOpen(t)
             \/ PatchExchange(t) \/ PatchClose(t) \/ LeaveHandler(t)
      PROVE  ProbedAreTaken'
  <2>1. /\ sites' = sites /\ ipc'[t] \notin Probing
        /\ \A u \in Faulters \ {t} : ipc'[u] = ipc[u] /\ fault'[u] = fault[u]
    BY <1>7, ZenonT(30) DEF TableFull, PublishTarget, PatchRead, PatchOpen, PatchExchange, PatchClose,
                LeaveHandler, IGo, ISet, tableVars, Int2eTypeOK, Probing
  <2> QED
    BY <1>0, <2>1, ProbedOfMove, Zenon DEF Probing, Claimed
<1>8. ASSUME NEW t \in Faulters, Int2eFork(t) PROVE ProbedAreTaken'
  <2>1. sites' = sites /\ \A u \in Faulters : ipc'[u] \notin Probing /\ ipc'[u] \notin Claimed
    BY <1>8, Zenon DEF Int2eFork, tableVars, Probing, Claimed
  <2> QED
    BY <1>0, <2>1, Zenon DEF ProbedAreTaken, TakenBefore, At
<1>9. CASE KuserGuard \/ (\E s \in Sites : RewriteSite(s)) \/ UNCHANGED int2eVars
  <2>1. sites' = sites /\ ipc' = ipc /\ fault' = fault
    BY <1>9, Zenon DEF KuserGuard, RewriteSite, int2eVars, tableVars
  <2> QED
    BY <1>0, <2>1, Zenon DEF ProbedAreTaken, TakenBefore, Slot, At
<1> QED
  BY <1>1, <1>2, <1>3, <1>4, <1>5, <1>6, <1>7, <1>8, <1>9, Zenon DEF Int2eNext, Int2eStep
-----------------------------------------------------------------------------
(* A fork is never undone. *)
LEMMA WholeStays ==
  /\ [Int2eNext]_int2eVars /\ Whole' => Whole
  /\ \A t \in Faulters : Int2eFork(t) => ~Whole'
  BY ZenonT(30) DEF Int2eNext, Int2eStep, RaiseFault, ReadInstruction, ProbeSite, TableFull, ClaimSite,
      LoadTarget, BuildTrampoline, PublishTarget, PatchRead, PatchOpen, PatchExchange,
      PatchClose, LeaveHandler, RewriteSite, KuserGuard, Int2eFork, int2eVars, setting, Whole

(* Steps that map, publish and unmap nothing, and in which nobody begins or *)
(* ends to publish a page or to leave for one.                              *)
LEMMA PagesOfOther ==
  ASSUME Int2eTypeOK, PagesAreOwn, capacity' = capacity, targets' = targets, thunks' = thunks,
         \A i \in 0..(capacity - 1) : sites[i] \in Sites => sites'[i] = sites[i],
         \A u \in Faulters : ipc'[u] \in {"publish", "trampoline"} =>
           ipc'[u] = ipc[u] /\ fault'[u] = fault[u]
  PROVE  PagesAreOwn'
<1>1. ASSUME NEW i \in 0..(capacity - 1), targets[i] # NoPage
      PROVE  sites'[i] \in Sites /\ thunks[targets[i]] = sites'[i]
  BY <1>1, Zenon DEF PagesAreOwn
<1>2. ASSUME NEW t \in Faulters, ipc'[t] = "publish"
      PROVE  /\ fault'[t].page \in Pages /\ thunks[fault'[t].page] = fault'[t].site
             /\ \A i \in 0..(capacity - 1) : targets[i] # fault'[t].page
             /\ \A u \in Faulters \ {t} : ipc'[u] = "publish" => fault'[u].page # fault'[t].page
  BY <1>2 DEF PagesAreOwn
<1>3. ASSUME NEW t \in Faulters, ipc'[t] = "trampoline"
      PROVE  /\ fault'[t].page \in Pages /\ thunks[fault'[t].page] = fault'[t].site
             /\ \E i \in 0..(capacity - 1) : targets[i] = fault'[t].page
  BY <1>3 DEF PagesAreOwn
<1> QED
  BY <1>1, <1>2, <1>3 DEF PagesAreOwn

(* Such steps lose no page either. *)
LEMMA KnownOfOther ==
  ASSUME PagesAreKnown, [Int2eNext]_int2eVars, targets' = targets, thunks' = thunks,
         \A u \in Faulters : ipc[u] = "publish" => ipc'[u] = ipc[u] /\ fault'[u] = fault[u]
  PROVE  PagesAreKnown'
  BY WholeStays DEF PagesAreKnown, Published, Building

(* No step takes a page from the thread or the slot that owns it. *)
LEMMA PagesStep ==
  Int2eInv /\ [Int2eNext]_int2eVars => PagesAreOwn' /\ PagesAreKnown'
<1> SUFFICES ASSUME Int2eInv, [Int2eNext]_int2eVars PROVE PagesAreOwn' /\ PagesAreKnown'
  BY Zenon
<1>0. /\ capacity' = capacity /\ NoSite \notin Sites /\ NoPage \notin Pages
      /\ Int2eTypeOK /\ ProbedAreTaken /\ PagesAreOwn /\ PagesAreKnown
      /\ \A t \in Faulters : fault[t] \in FaultRecord
  BY CapacityStays, Locals, Int2eAssumption, Zenon DEF Int2eInv, Int2eAssumption
<1>1. ASSUME NEW t \in Faulters,
             \/ \E s \in Sites : RaiseFault(t, s)
             \/ ReadInstruction(t) \/ ProbeSite(t) \/ TableFull(t) \/ ClaimSite(t)
             \/ PatchRead(t) \/ PatchOpen(t) \/ PatchExchange(t) \/ PatchClose(t)
             \/ LeaveHandler(t)
      PROVE  PagesAreOwn' /\ PagesAreKnown'
  <2>1. /\ targets' = targets /\ thunks' = thunks /\ ipc[t] # "publish"
        /\ ipc'[t] \notin {"publish", "trampoline"}
        /\ \A u \in Faulters \ {t} : ipc'[u] = ipc[u] /\ fault'[u] = fault[u]
    BY <1>0, <1>1, ZenonT(30)
    DEF RaiseFault, ReadInstruction, ProbeSite, TableFull, ClaimSite, PatchRead, PatchOpen,
        PatchExchange, PatchClose, LeaveHandler, IGo, ISet, tableVars, Int2eTypeOK, Handled
  <2>2. ASSUME NEW i \in 0..(capacity - 1), sites[i] \in Sites PROVE sites'[i] = sites[i]
    BY <1>0, <1>1, <2>2, Zenon
    DEF RaiseFault, ReadInstruction, ProbeSite, TableFull, ClaimSite, PatchRead, PatchOpen,
        PatchExchange, PatchClose, LeaveHandler, tableVars, Int2eTypeOK
  <2> QED
    BY <1>0, <2>1, <2>2, PagesOfOther, KnownOfOther, Zenon
<1>2. ASSUME NEW t \in Faulters, LoadTarget(t) PROVE PagesAreOwn' /\ PagesAreKnown'
  <2>1. /\ sites' = sites /\ targets' = targets /\ thunks' = thunks /\ ipc[t] = "target"
        /\ \A u \in Faulters \ {t} : ipc'[u] = ipc[u] /\ fault'[u] = fault[u]
    BY <1>0, <1>2, Zenon DEF LoadTarget, IGo, ISet, tableVars, Int2eTypeOK
  <2>2. PagesAreKnown'
    BY <1>0, <2>1, KnownOfOther, Zenon
  <2>3. CASE IGo(t, "build") /\ UNCHANGED fault
    <3>1. ipc'[t] = "build"
      BY <1>0, <2>3, Zenon DEF IGo, Int2eTypeOK
    <3> QED
      BY <1>0, <2>1, <2>2, <3>1, PagesOfOther, Zenon
  <2>4. CASE /\ targets[Slot(t)] # NoPage /\ IGo(t, "trampoline")
             /\ ISet(t, [fault[t] EXCEPT !.page = targets[Slot(t)]])
    <3>1. Slot(t) \in 0..(capacity - 1) /\ sites[Slot(t)] = fault[t].site
      BY <1>0, <2>1, SlotInside, Zenon DEF Probing, Claimed, ProbedAreTaken
    <3>2. targets[Slot(t)] \in Pages /\ thunks[targets[Slot(t)]] = fault[t].site
      BY <1>0, <2>4, <3>1 DEF Int2eTypeOK, PagesAreOwn
    <3>3. ipc'[t] = "trampoline" /\ fault'[t] = [fault[t] EXCEPT !.page = targets[Slot(t)]]
      BY <1>0, <2>4, Zenon DEF IGo, ISet, Int2eTypeOK
    <3>4. fault'[t].page = targets[Slot(t)] /\ fault'[t].site = fault[t].site
      BY <1>0, <3>2, <3>3, SetPage
    <3>5. /\ fault'[t].page \in Pages /\ thunks[fault'[t].page] = fault'[t].site
          /\ \E i \in 0..(capacity - 1) : targets[i] = fault'[t].page
      BY <3>1, <3>2, <3>4, Zenon
    <3>6. ASSUME NEW u \in Faulters, ipc'[u] = "publish"
          PROVE  u # t /\ ipc[u] = "publish" /\ fault'[u] = fault[u]
      BY <2>1, <3>3, <3>6, Zenon
    <3>7. ASSUME NEW u \in Faulters, ipc'[u] = "trampoline"
          PROVE  /\ fault'[u].page \in Pages /\ thunks[fault'[u].page] = fault'[u].site
                 /\ \E i \in 0..(capacity - 1) : targets[i] = fault'[u].page
      BY <1>0, <2>1, <3>5, <3>7 DEF PagesAreOwn
    <3> QED
      BY <1>0, <2>1, <2>2, <3>6, <3>7 DEF PagesAreOwn
  <2> QED
    BY <1>2, <2>3, <2>4, Zenon DEF LoadTarget
<1>3. ASSUME NEW t \in Faulters, BuildTrampoline(t) PROVE PagesAreOwn' /\ PagesAreKnown'
  <2>1. /\ sites' = sites /\ targets' = targets /\ ipc[t] = "build"
        /\ \A u \in Faulters \ {t} : ipc'[u] = ipc[u] /\ fault'[u] = fault[u]
        /\ \/ /\ ipc'[t] = "publish"
              /\ \E p \in Pages : /\ thunks[p] = NoSite /\ fault'[t] = [fault[t] EXCEPT !.page = p]
                                 /\ thunks' = [thunks EXCEPT ![p] = fault[t].site]
           \/ ipc'[t] = "patch" /\ thunks' = thunks
    BY <1>0, <1>3, Zenon DEF BuildTrampoline, IGo, ISet, Int2eTypeOK
  <2>2. CASE ipc'[t] = "patch" /\ thunks' = thunks
    BY <1>0, <2>1, <2>2, PagesOfOther, KnownOfOther, Zenon
  <2>3. CASE /\ ipc'[t] = "publish"
             /\ \E p \in Pages : /\ thunks[p] = NoSite /\ fault'[t] = [fault[t] EXCEPT !.page = p]
                                /\ thunks' = [thunks EXCEPT ![p] = fault[t].site]
    <3>1. PICK p \in Pages : /\ thunks[p] = NoSite /\ fault'[t] = [fault[t] EXCEPT !.page = p]
                             /\ thunks' = [thunks EXCEPT ![p] = fault[t].site]
      BY <2>3, ZenonT(30)
    <3>2. fault'[t].page = p /\ fault'[t].site = fault[t].site /\ fault[t].site \in Sites
      BY <1>0, <2>1, <3>1, SetPage DEF Int2eTypeOK, Probing
    <3>3. thunks'[p] = fault[t].site /\ \A q \in Pages \ {p} : thunks'[q] = thunks[q]
      BY <1>0, <3>1, Zenon DEF Int2eTypeOK
    <3>4. ASSUME NEW i \in 0..(capacity - 1), targets[i] # NoPage
          PROVE  /\ targets[i] \in Pages \ {p} /\ sites[i] \in Sites
                 /\ thunks'[targets[i]] = sites[i]
      <4>1. targets[i] \in Pages /\ sites[i] \in Sites /\ thunks[targets[i]] = sites[i]
        BY <1>0, <3>4 DEF Int2eTypeOK, PagesAreOwn
      <4> QED
        BY <1>0, <3>1, <3>3, <4>1, Zenon
    <3>5. ASSUME NEW u \in Faulters \ {t}, ipc[u] = "publish"
          PROVE  /\ fault[u].page \in Pages \ {p} /\ thunks'[fault[u].page] = fault[u].site
      <4>1. /\ fault[u].page \in Pages /\ fault[u].site \in Sites
            /\ thunks[fault[u].page] = fault[u].site
        BY <1>0, <3>5, Zenon DEF Int2eTypeOK, PagesAreOwn, Probing
      <4> QED
        BY <1>0, <3>1, <3>3, <4>1, Zenon
    <3>6. ASSUME NEW u \in Faulters \ {t}, ipc[u] = "trampoline"
          PROVE  /\ fault[u].page \in Pages \ {p} /\ thunks'[fault[u].page] = fault[u].site
                 /\ \E i \in 0..(capacity - 1) : targets[i] = fault[u].page
      <4>1. /\ fault[u].page \in Pages /\ thunks[fault[u].page] = fault[u].site
            /\ \E i \in 0..(capacity - 1) : targets[i] = fault[u].page
        BY <1>0, <3>6, Zenon DEF PagesAreOwn
      <4> QED
        BY <1>0, <3>3, <3>4, <4>1, Zenon
    <3>7. \A i \in 0..(capacity - 1) : targets[i] # p
      BY <1>0, <3>4, Zenon
    <3>8. PagesAreOwn'
      <4>1. ASSUME NEW u \in Faulters, ipc'[u] = "publish"
            PROVE  /\ fault'[u].page \in Pages /\ thunks'[fault'[u].page] = fault'[u].site
                   /\ \A i \in 0..(capacity - 1) : targets[i] # fault'[u].page
        <5>1. CASE u = t
          BY <3>2, <3>3, <3>7, <5>1, Zenon
        <5>2. CASE u # t
          <6>1. ipc[u] = "publish" /\ fault'[u] = fault[u]
            BY <2>1, <4>1, <5>2, Zenon
          <6>2. \A i \in 0..(capacity - 1) : targets[i] # fault[u].page
            BY <1>0, <6>1, Zenon DEF PagesAreOwn
          <6> QED
            BY <3>5, <5>2, <6>1, <6>2, Zenon
        <5> QED
          BY <5>1, <5>2, Zenon
      <4>2. ASSUME NEW u \in Faulters, NEW v \in Faulters \ {u}, ipc'[u] = "publish", ipc'[v] = "publish"
            PROVE  fault'[v].page # fault'[u].page
        <5>1. CASE u = t
          BY <2>1, <3>2, <3>5, <4>2, <5>1
        <5>2. CASE v = t
          BY <2>1, <3>2, <3>5, <4>2, <5>2
        <5>3. CASE u # t /\ v # t
          BY <1>0, <2>1, <4>2, <5>3 DEF PagesAreOwn
        <5> QED
          BY <5>1, <5>2, <5>3, Zenon
      <4>3. ASSUME NEW u \in Faulters, ipc'[u] = "trampoline"
            PROVE  /\ fault'[u].page \in Pages /\ thunks'[fault'[u].page] = fault'[u].site
                   /\ \E i \in 0..(capacity - 1) : targets[i] = fault'[u].page
        BY <2>1, <2>3, <3>6, <4>3
      <4> QED
        BY <1>0, <2>1, <3>4, <4>1, <4>2, <4>3 DEF PagesAreOwn
    <3>9. ASSUME NEW q \in Pages, thunks'[q] # NoSite, Whole' PROVE Published(q)' \/ Building(q)'
      <4>1. CASE q = p
        BY <2>3, <3>2, <4>1, ZenonT(30) DEF Building
      <4>2. CASE q # p
        <5>1. Published(q) \/ Building(q)
          BY <1>0, <3>3, <3>9, <4>2, WholeStays, Zenon DEF PagesAreKnown
        <5> QED
          BY <2>1, <5>1, Zenon DEF Published, Building
      <4> QED
        BY <4>1, <4>2, Zenon
    <3> QED
      BY <3>8, <3>9, Zenon DEF PagesAreKnown
  <2> QED
    BY <2>1, <2>2, <2>3, Zenon
<1>4. ASSUME NEW t \in Faulters, PublishTarget(t) PROVE PagesAreOwn' /\ PagesAreKnown'
  <2> DEFINE slot == Slot(t)
             page == fault[t].page
  <2>1. /\ sites' = sites /\ ipc[t] = "publish" /\ ipc'[t] = "trampoline"
        /\ \A u \in Faulters \ {t} : ipc'[u] = ipc[u] /\ fault'[u] = fault[u]
        /\ \/ /\ targets[slot] = NoPage /\ thunks' = thunks /\ fault' = fault
              /\ targets' = [targets EXCEPT ![slot] = page]
           \/ /\ targets[slot] # NoPage /\ targets' = targets
              /\ thunks' = [thunks EXCEPT ![page] = NoSite]
              /\ fault'[t] = [fault[t] EXCEPT !.page = targets[slot]]
    BY <1>0, <1>4, Zenon DEF PublishTarget, IGo, ISet, Int2eTypeOK
  <2>2. /\ slot \in 0..(capacity - 1) /\ sites[slot] = fault[t].site /\ fault[t].site \in Sites
    BY <1>0, <2>1, SlotInside, Zenon DEF Probing, Claimed, ProbedAreTaken, Int2eTypeOK
  <2>3. /\ page \in Pages /\ thunks[page] = fault[t].site
        /\ \A i \in 0..(capacity - 1) : targets[i] # page
        /\ \A u \in Faulters \ {t} : ipc[u] = "publish" => fault[u].page # page
        /\ \A u \in Faulters : ipc[u] = "trampoline" => fault[u].page # page
    BY <1>0, <2>1 DEF PagesAreOwn
  <2>4. targets \in [0..(capacity - 1) -> Pages \cup {NoPage}] /\ thunks \in [Pages -> Sites \cup {NoSite}]
    BY <1>0, Zenon DEF Int2eTypeOK
  <2> HIDE DEF slot, page
  <2>5. CASE /\ targets[slot] = NoPage /\ thunks' = thunks /\ fault' = fault
             /\ targets' = [targets EXCEPT ![slot] = page]
    <3>1. targets'[slot] = page /\ \A i \in 0..(capacity - 1) : i # slot => targets'[i] = targets[i]
      BY <2>2, <2>4, <2>5, Zenon
    <3>2. ASSUME NEW i \in 0..(capacity - 1), targets'[i] # NoPage
          PROVE  sites[i] \in Sites /\ thunks[targets'[i]] = sites[i]
      BY <1>0, <2>2, <2>3, <3>1, <3>2 DEF PagesAreOwn
    <3>3. ASSUME NEW u \in Faulters \ {t}, ipc[u] = "publish"
          PROVE  \A i \in 0..(capacity - 1) : targets'[i] # fault[u].page
      BY <1>0, <2>3, <3>1, <3>3 DEF PagesAreOwn
    <3>4. ASSUME NEW u \in Faulters, ipc[u] = "trampoline"
          PROVE  \E i \in 0..(capacity - 1) : targets'[i] = fault[u].page
      BY <1>0, <2>5, <3>1, <3>4 DEF PagesAreOwn
    <3>5. PagesAreOwn'
      BY <1>0, <2>1, <2>2, <2>3, <2>5, <3>1, <3>2, <3>3, <3>4 DEF PagesAreOwn, page
    <3>6. ASSUME NEW q \in Pages, thunks[q] # NoSite, Whole' PROVE Published(q)' \/ Building(q)'
      <4>1. DOMAIN targets = 0..(capacity - 1) /\ DOMAIN targets' = 0..(capacity - 1)
        BY <2>4, <2>5, Zenon
      <4>2. CASE q = page
        BY <2>2, <3>1, <4>1, <4>2, Zenon DEF Published
      <4>3. CASE q # page
        <5>1. Published(q) \/ Building(q)
          BY <1>0, <3>6, WholeStays, Zenon DEF PagesAreKnown
        <5>2. CASE Published(q)
          BY <1>0, <2>5, <3>1, <4>1, <5>2, Zenon DEF Published
        <5>3. CASE Building(q)
          BY <2>1, <4>3, <5>3, Zenon DEF Building, page
        <5> QED
          BY <5>1, <5>2, <5>3, Zenon
      <4> QED
        BY <4>2, <4>3, Zenon
    <3> QED
      BY <2>5, <3>5, <3>6, Zenon DEF PagesAreKnown
  <2>6. CASE /\ targets[slot] # NoPage /\ targets' = targets
             /\ thunks' = [thunks EXCEPT ![page] = NoSite]
             /\ fault'[t] = [fault[t] EXCEPT !.page = targets[slot]]
    <3>1. thunks'[page] = NoSite /\ \A q \in Pages : q # page => thunks'[q] = thunks[q]
      BY <2>3, <2>4, <2>6, Zenon
    <3>2. ASSUME NEW i \in 0..(capacity - 1), targets[i] # NoPage
          PROVE  targets[i] \in Pages /\ sites[i] \in Sites /\ thunks'[targets[i]] = sites[i]
      <4>1. targets[i] \in Pages /\ sites[i] \in Sites /\ thunks[targets[i]] = sites[i]
        BY <1>0, <2>4, <3>2 DEF PagesAreOwn
      <4> QED
        BY <2>3, <3>1, <4>1, Zenon
    <3>3. fault'[t].page = targets[slot] /\ fault'[t].site = fault[t].site
      BY <1>0, <2>2, <2>4, <2>6, SetPage
    <3>4. /\ fault'[t].page \in Pages /\ thunks'[fault'[t].page] = fault'[t].site
          /\ \E i \in 0..(capacity - 1) : targets[i] = fault'[t].page
      BY <2>2, <2>6, <3>2, <3>3, Zenon
    <3>5. ASSUME NEW u \in Faulters \ {t}, ipc[u] \in {"publish", "trampoline"}
          PROVE  fault[u].page \in Pages /\ thunks'[fault[u].page] = fault[u].site
      <4>1. fault[u].page \in Pages /\ thunks[fault[u].page] = fault[u].site
        BY <1>0, <3>5, Zenon DEF PagesAreOwn
      <4> QED
        BY <2>3, <3>1, <3>5, <4>1, Zenon
    <3>6. PagesAreOwn'
      <4>1. ASSUME NEW u \in Faulters, ipc'[u] = "publish"
            PROVE  /\ u # t /\ ipc[u] = "publish" /\ fault'[u] = fault[u]
                   /\ fault[u].page \in Pages /\ thunks'[fault[u].page] = fault[u].site
        BY <2>1, <3>5, <4>1, Zenon
      <4>2. ASSUME NEW u \in Faulters, ipc'[u] = "trampoline"
            PROVE  /\ fault'[u].page \in Pages /\ thunks'[fault'[u].page] = fault'[u].site
                   /\ \E i \in 0..(capacity - 1) : targets[i] = fault'[u].page
        <5>1. CASE u = t
          BY <3>4, <5>1, Zenon
        <5>2. CASE u # t
          BY <1>0, <2>1, <3>5, <4>2, <5>2 DEF PagesAreOwn
        <5> QED
          BY <5>1, <5>2, Zenon
      <4> QED
        BY <1>0, <2>1, <2>6, <3>2, <4>1, <4>2 DEF PagesAreOwn
    <3>7. ASSUME NEW q \in Pages, thunks'[q] # NoSite, Whole' PROVE Published(q)' \/ Building(q)'
      <4>1. q # page /\ thunks[q] # NoSite
        BY <3>1, <3>7, Zenon
      <4>2. Published(q) \/ Building(q)
        BY <1>0, <3>7, <4>1, WholeStays, Zenon DEF PagesAreKnown
      <4> QED
        BY <2>1, <2>6, <4>1, <4>2, Zenon DEF Published, Building, page
    <3> QED
      BY <3>6, <3>7, Zenon DEF PagesAreKnown
  <2> QED
    BY <2>1, <2>5, <2>6, Zenon
<1>5. ASSUME NEW t \in Faulters, Int2eFork(t) PROVE PagesAreOwn' /\ PagesAreKnown'
  <2>1. /\ sites' = sites /\ targets' = targets /\ thunks' = thunks
        /\ \A u \in Faulters : ipc'[u] \in {"run", "gone"}
    BY <1>5, Zenon DEF Int2eFork, tableVars
  <2> QED
    BY <1>0, <1>5, <2>1, PagesOfOther, WholeStays, Zenon DEF PagesAreKnown
<1>6. CASE KuserGuard \/ (\E s \in Sites : RewriteSite(s)) \/ UNCHANGED int2eVars
  <2>1. UNCHANGED <<sites, targets, thunks, ipc, fault>>
    BY <1>6, Zenon DEF KuserGuard, RewriteSite, int2eVars, tableVars
  <2> QED
    BY <1>0, <2>1, PagesOfOther, KnownOfOther, Zenon
<1> QED
  BY <1>1, <1>2, <1>3, <1>4, <1>5, <1>6, Zenon DEF Int2eNext, Int2eStep
-----------------------------------------------------------------------------
(* A site that the table holds is in the first slot that its probes find it in. *)
LEMMA OneSlotPerSite ==
  ASSUME Int2eInv, NEW i \in 0..(capacity - 1), NEW j \in 0..(capacity - 1),
         sites[i] = sites[j], sites[i] # NoSite
  PROVE  i = j
<1> DEFINE s == sites[i]
<1>1. s \in Sites /\ capacity \in Nat \ {0}
  BY Zenon DEF Int2eInv, Int2eTypeOK
<1>2. PICK k \in 0..(capacity - 1) : At(s, k, capacity) = i
  BY <1>1, AtCovers, Zenon
<1>3. PICK l \in 0..(capacity - 1) : At(s, l, capacity) = j
  BY <1>1, AtCovers, Zenon
<1>4. TakenBefore(s, k) /\ TakenBefore(s, l)
  BY <1>1, <1>2, <1>3, Zenon DEF Int2eInv, ProbedAreTaken
<1>5. ~(k < l) /\ ~(l < k)
  BY <1>1, <1>2, <1>3, <1>4 DEF TakenBefore
<1>6. k = l
  BY <1>1, <1>5
<1> QED
  BY <1>2, <1>3, <1>6, Zenon

(* However many threads fault at once, and at whatever sites: a thread that     *)
(* skip_int2e_fault sends to a trampoline finds one that is mapped and resumes  *)
(* behind its own site, the table holds a site once, and no page is lost.       *)
THEOREM TrampolinesStayOwn == Int2eSpec => []TrampolinesAreOwn
<1>1. Int2eInv /\ [Int2eNext]_int2eVars => Int2eInv'
  BY TypeStep, ProbedStep, PagesStep, Zenon DEF Int2eInv
<1>2. Int2eInv => TrampolinesAreOwn
  <2> SUFFICES ASSUME Int2eInv PROVE TrampolinesAreOwn
    BY Zenon
  <2>1. \A t \in Faulters : ipc[t] = "trampoline" => thunks[fault[t].page] = fault[t].site
    BY Zenon DEF Int2eInv, PagesAreOwn
  <2>2. \A i, j \in DOMAIN sites : sites[i] = sites[j] /\ sites[i] # NoSite => i = j
    BY OneSlotPerSite, Zenon DEF Int2eInv, Int2eTypeOK
  <2>3. \A p \in Pages : thunks[p] # NoSite /\ ~int2e_forked => Published(p) \/ Building(p)
    BY Zenon DEF Int2eInv, PagesAreKnown, Whole
  <2> QED
    BY <2>1, <2>2, <2>3, Zenon DEF TrampolinesAreOwn
<1> QED
  BY InitInv, <1>1, <1>2, PTL DEF Int2eSpec

-----------------------------------------------------------------------------
(* The last resorts of skip_int2e_fault. *)

(* A thread that no trampoline could be had for. *)
LastResorts == {"patch", "guard", "swap", "swapped", "not swapped", "patched", "skipped"}

(* The table has room for every site that needs a slot, and mappings succeed. *)
Room == ~may_fail /\ Cardinality(Sites \ Direct) <= capacity

(* What holds of a thread at label l that handles a fault at site s. *)
HandlesOK(l, s) ==
  /\ l \notin {"run", "gone"} => s \in Sites
  /\ l \in (Probing \ {"read"}) \cup LastResorts => s \notin Direct
  /\ l \in {"guard", "swap"} => s \notin Straddling
  /\ l = "patched" => code[s] = "syscall"
  /\ l = "to wine" => code[s] # "int 2e"
  /\ Room => l \notin LastResorts

(* The table holds no site of a Windows thunk; the program's change is the only *)
(* one besides the patches, which spare thunks and straddling opcodes.          *)
CodeOK ==
  /\ code \in [Sites -> {"int 2e", "syscall", "other"}]
  /\ rewritten \in Sites \cup {NoSite}
  /\ \A s \in Sites : code[s] = "other" <=> s = rewritten
  /\ \A s \in Direct \cup Straddling : code[s] # "syscall"
  /\ Room => \A s \in Sites : code[s] # "syscall"

CodeInv ==
  /\ CodeOK
  /\ \A i \in 0..(capacity - 1) : sites[i] \notin Direct
  /\ \A t \in Faulters : HandlesOK(ipc[t], fault[t].site)

(* Before the first fault. *)
LEMMA CodeInvInit == Int2eInit => CodeInv
<1> SUFFICES ASSUME Int2eInit PROVE CodeInv
  BY Zenon
<1>1. NoSite \notin Sites /\ Direct \subseteq Sites /\ Straddling \subseteq Sites
  BY Int2eAssumption, Zenon DEF Int2eAssumption
<1>2. /\ code = [s \in Sites |-> "int 2e"] /\ rewritten = NoSite
      /\ sites = [i \in 0..(capacity - 1) |-> NoSite]
      /\ ipc = [t \in Faulters |-> "run"] /\ fault = [t \in Faulters |-> NoFault]
  BY Zenon DEF Int2eInit
<1>3. CodeOK
  <2>1. \A s \in Sites : code[s] = "int 2e"
    BY <1>2, Zenon
  <2>2. code \in [Sites -> {"int 2e", "syscall", "other"}]
    BY <1>2, Zenon
  <2> QED
    BY <1>1, <1>2, <2>1, <2>2, Zenon DEF CodeOK
<1>4. \A t \in Faulters : ipc[t] = "run"
  BY <1>2, Zenon
<1>5. \A s : HandlesOK("run", s)
  BY Zenon DEF HandlesOK, Probing, LastResorts
<1> QED
  BY <1>1, <1>2, <1>3, <1>4, <1>5, Zenon DEF CodeInv

(* An injection does not lead into a smaller set. *)
LEMMA InjectionFits ==
  ASSUME NEW S, IsFiniteSet(S), NEW T, IsFiniteSet(T), NEW f \in [S -> T], \A x, y \in S : f[x] = f[y] => x = y
  PROVE  ~(Cardinality(T) < Cardinality(S))
<1> SUFFICES ASSUME Cardinality(T) < Cardinality(S) PROVE FALSE
  BY Zenon
<1>1. \E x, y \in S : x # y /\ f[x] = f[y]
  BY FS_PigeonHole, SMT
<1> QED
  BY <1>1, Zenon

(* A full table has no room: every slot holds another site that needs one, and  *)
(* none twice.                                                                   *)
LEMMA FullTableHasNoRoom ==
  ASSUME Int2eInv, CodeInv, NEW t \in Faulters, ipc[t] = "probe", fault[t].offset = capacity
  PROVE  ~Room
<1> DEFINE s == fault[t].site
           Needy == Sites \ Direct
           Others == Needy \ {s}
           Indices == 0..(capacity - 1)
<1>1. s \in Sites /\ capacity \in Nat \ {0} /\ TakenBefore(s, capacity)
  BY Zenon DEF Int2eInv, Int2eTypeOK, ProbedAreTaken, Probing
<1>2. s \notin Direct
  <2>1. "probe" \in Probing \ {"read"}
    BY Zenon DEF Probing
  <2> QED
    BY <2>1, Zenon DEF CodeInv, HandlesOK
<1>3. ASSUME NEW i \in Indices PROVE sites[i] \in Others
  <2>1. PICK k \in Indices : At(s, k, capacity) = i
    <3> HIDE DEF s
    <3> QED
      BY <1>1, AtCovers, Zenon
  <2>2. sites[i] \in Sites \ {s}
    BY <1>1, <2>1, Zenon DEF TakenBefore
  <2>3. sites[i] \notin Direct
    BY Zenon DEF CodeInv
  <2> QED
    BY <2>2, <2>3, Zenon
<1>4. IsFiniteSet(Needy) /\ IsFiniteSet(Others) /\ Cardinality(Others) = Cardinality(Needy) - 1 /\ Cardinality(Needy) \in Nat
  <2>1. IsFiniteSet(Sites)
    BY Int2eAssumption, Zenon DEF Int2eAssumption
  <2>2. IsFiniteSet(Needy)
    BY <2>1, FS_Subset, Needy \subseteq Sites, Zenon
  <2>3. s \in Needy
    BY <1>1, <1>2, Zenon
  <2> QED
    BY <2>2, <2>3, FS_RemoveElement, FS_CardinalityType, Zenon
<1>5. IsFiniteSet(Indices) /\ Cardinality(Indices) = capacity
  <2>1. 0 \in Int /\ capacity - 1 \in Int /\ ~(0 > capacity - 1) /\ (capacity - 1) - 0 + 1 = capacity
    BY <1>1, SMT
  <2> QED
    BY <2>1, FS_Interval, Zenon
<1> DEFINE f == [i \in Indices |-> sites[i]]
<1>6. f \in [Indices -> Others]
  BY <1>3, Zenon
<1>7. \A i, j \in Indices : f[i] = f[j] => i = j
  <2> SUFFICES ASSUME NEW i \in Indices, NEW j \in Indices, f[i] = f[j] PROVE i = j
    BY Zenon
  <2>1. sites[i] = sites[j] /\ sites[i] # NoSite
    <3>1. sites[i] \in Sites /\ NoSite \notin Sites
      BY <1>3, Int2eAssumption, Zenon DEF Int2eAssumption
    <3> QED
      BY <3>1, Zenon
  <2> QED
    BY <2>1, OneSlotPerSite, Zenon
<1>8. ~(Cardinality(Others) < Cardinality(Indices))
  <2> HIDE DEF f, Others, Indices, Needy
  <2> QED
    BY <1>4, <1>5, <1>6, <1>7, InjectionFits, Zenon
<1> DEFINE n == Cardinality(Needy)
<1>9. n \in Nat /\ ~(n - 1 < capacity)
  BY <1>4, <1>5, <1>8, Zenon
<1> HIDE DEF n
<1>10. ~(n <= capacity)
  BY <1>1, <1>9, SMT
<1> QED
  BY <1>10, Zenon DEF Room, n

(* What a thread's step does, if it leaves the code alone, given what holds of  *)
(* the thread afterwards.                                                        *)
LEMMA CodeOfMove ==
  ASSUME CodeInv, NEW t \in Faulters,
         \A u \in Faulters \ {t} : ipc'[u] = ipc[u] /\ fault'[u].site = fault[u].site,
         code' = code, rewritten' = rewritten, capacity' = capacity, may_fail' = may_fail,
         HandlesOK(ipc'[t], fault'[t].site), \A i \in 0..(capacity - 1) : sites'[i] \notin Direct
  PROVE  CodeInv'
<1>1. Room' <=> Room
  BY Zenon DEF Room
<1>2. CodeOK'
  BY <1>1, Zenon DEF CodeInv, CodeOK
<1>3. ASSUME NEW u \in Faulters PROVE HandlesOK(ipc[u], fault[u].site)'
  <2>1. HandlesOK(ipc'[u], fault'[u].site)
    <3>1. CASE u = t
      BY <3>1, Zenon
    <3>2. CASE u # t
      BY <3>2, Zenon DEF CodeInv
    <3> QED
      BY <3>1, <3>2, Zenon
  <2> QED
    BY <1>1, <2>1, Zenon DEF HandlesOK
<1> QED
  BY <1>2, <1>3, Zenon DEF CodeInv

(* A step of a thread changes its own label and locals only. *)
LEMMA OthersStay ==
  ASSUME Int2eTypeOK, NEW t \in Faulters, NEW l, IGo(t, l), fault' = fault \/ (\E f : ISet(t, f))
  PROVE  /\ ipc'[t] = l
         /\ \A u \in Faulters \ {t} : ipc'[u] = ipc[u] /\ fault'[u].site = fault[u].site
<1>1. ipc \in [Faulters -> Labels] /\ fault \in [Faulters -> FaultRecord]
  BY Zenon DEF Int2eTypeOK
<1>2. ipc'[t] = l /\ \A u \in Faulters \ {t} : ipc'[u] = ipc[u]
  BY <1>1, Zenon DEF IGo
<1>3. \A u \in Faulters \ {t} : fault'[u] = fault[u]
  BY <1>1, Zenon DEF ISet
<1> QED
  BY <1>2, <1>3, Zenon

(* A thread that goes on with its site. *)
LEMMA SiteStays ==
  ASSUME Int2eTypeOK, NEW t \in Faulters,
         \/ fault' = fault
         \/ \E n \in Nat : ISet(t, [fault[t] EXCEPT !.offset = n])
         \/ \E p \in Pages \cup {NoPage} : ISet(t, [fault[t] EXCEPT !.page = p])
  PROVE  fault'[t].site = fault[t].site
<1>1. fault \in [Faulters -> FaultRecord] /\ fault[t] \in FaultRecord
  BY Zenon DEF Int2eTypeOK
<1>2. ASSUME NEW n \in Nat, ISet(t, [fault[t] EXCEPT !.offset = n]) PROVE fault'[t].site = fault[t].site
  <2> DEFINE g == [fault[t] EXCEPT !.offset = n]
  <2>1. g.site = fault[t].site
    BY <1>1, SetOffset, Zenon
  <2> HIDE DEF g
  <2>2. fault' = [fault EXCEPT ![t] = g]
    BY <1>2, Zenon DEF ISet, g
  <2>3. fault'[t] = g
    BY <1>1, <2>2, Zenon
  <2> QED
    BY <2>1, <2>3, Zenon
<1>3. ASSUME NEW p \in Pages \cup {NoPage}, ISet(t, [fault[t] EXCEPT !.page = p]) PROVE fault'[t].site = fault[t].site
  <2> DEFINE g == [fault[t] EXCEPT !.page = p]
  <2>1. g.site = fault[t].site
    BY <1>1, SetPage, Zenon
  <2> HIDE DEF g
  <2>2. fault' = [fault EXCEPT ![t] = g]
    BY <1>3, Zenon DEF ISet, g
  <2>3. fault'[t] = g
    BY <1>1, <2>2, Zenon
  <2> QED
    BY <2>1, <2>3, Zenon
<1>4. CASE fault' = fault
  BY <1>4, Zenon
<1> QED
  BY <1>2, <1>3, <1>4, Zenon

(* A thread's step through the table: it goes on with its site to a label that   *)
(* fits, and the table still holds no site of a thunk.                            *)
LEMMA CodeOfStep ==
  ASSUME Int2eTypeOK, CodeInv, NEW t \in Faulters, NEW l, IGo(t, l),
         \/ fault' = fault
         \/ \E n \in Nat : ISet(t, [fault[t] EXCEPT !.offset = n])
         \/ \E p \in Pages \cup {NoPage} : ISet(t, [fault[t] EXCEPT !.page = p]),
         code' = code, rewritten' = rewritten, capacity' = capacity, may_fail' = may_fail,
         HandlesOK(l, fault[t].site), \A i \in 0..(capacity - 1) : sites'[i] \notin Direct
  PROVE  CodeInv'
<1>1. fault'[t].site = fault[t].site
  BY SiteStays, Zenon
<1>2. /\ ipc'[t] = l
      /\ \A u \in Faulters \ {t} : ipc'[u] = ipc[u] /\ fault'[u].site = fault[u].site
  BY OthersStay, Zenon
<1>3. HandlesOK(ipc'[t], fault'[t].site)
  BY <1>1, <1>2, Zenon
<1> QED
  BY <1>2, <1>3, CodeOfMove, Zenon

(* private_syscall_trampoline and build_or_reuse_private_trampoline touch no      *)
(* code, and give up only when the table is full or a mapping failed.             *)
LEMMA TrampolineKeepsCode ==
  ASSUME Int2eInv, CodeInv, NEW t \in Faulters,
         \/ ReadInstruction(t) \/ ProbeSite(t) \/ TableFull(t) \/ ClaimSite(t) \/ LoadTarget(t)
         \/ BuildTrampoline(t) \/ PublishTarget(t)
  PROVE  CodeInv'
<1> DEFINE s == fault[t].site
<1>1. Int2eTypeOK /\ HandlesOK(ipc[t], s) /\ \A i \in 0..(capacity - 1) : sites[i] \notin Direct
  BY Zenon DEF Int2eInv, CodeInv
<1>2. code' = code /\ rewritten' = rewritten /\ capacity' = capacity /\ may_fail' = may_fail
  BY Zenon DEF ReadInstruction, ProbeSite, TableFull, ClaimSite, LoadTarget, BuildTrampoline, PublishTarget, codeVars, setting
<1>3. fault[t] \in FaultRecord /\ fault[t].offset + 1 \in Nat /\ 0 \in Nat /\ fault[t].page \in Pages \cup {NoPage}
  BY <1>1, Locals, FieldTypes, Zenon
<1>4. ASSUME ipc[t] \in Probing \ {"read"} PROVE s \in Sites \ Direct
  BY <1>1, <1>4, Zenon DEF HandlesOK, Probing
<1>5. ASSUME s \in Sites \ Direct
      PROVE  /\ HandlesOK("probe", s) /\ HandlesOK("claim", s) /\ HandlesOK("target", s) /\ HandlesOK("build", s)
             /\ HandlesOK("publish", s) /\ HandlesOK("trampoline", s)
             /\ ~Room => HandlesOK("patch", s)
  BY <1>5, Zenon DEF HandlesOK, LastResorts
<1> HIDE DEF s
<1>6. CASE ReadInstruction(t)
  <2>1. ipc[t] = "read" /\ fault' = fault /\ sites' = sites
    BY <1>6, Zenon DEF ReadInstruction, tableVars
  <2>2. s \in Sites
    BY <1>1, <2>1, Zenon DEF HandlesOK
  <2>3. CASE code[s] # "int 2e"
    <3>1. IGo(t, "to wine")
      BY <1>6, <2>3, Zenon DEF ReadInstruction, s
    <3>2. HandlesOK("to wine", s)
      BY <2>2, <2>3, Zenon DEF HandlesOK, Probing, LastResorts
    <3> QED
      BY <1>1, <1>2, <2>1, <3>1, <3>2, CodeOfStep, Zenon DEF s
  <2>4. CASE code[s] = "int 2e" /\ s \in Direct
    <3>1. IGo(t, "rewound")
      BY <1>6, <2>4, Zenon DEF ReadInstruction, s
    <3>2. HandlesOK("rewound", s)
      BY <2>2, Zenon DEF HandlesOK, Probing, LastResorts
    <3> QED
      BY <1>1, <1>2, <2>1, <3>1, <3>2, CodeOfStep, Zenon DEF s
  <2>5. CASE code[s] = "int 2e" /\ s \notin Direct
    <3>1. IGo(t, "probe")
      BY <1>6, <2>5, Zenon DEF ReadInstruction, s
    <3>2. HandlesOK("probe", s)
      BY <1>5, <2>2, <2>5, Zenon
    <3> QED
      BY <1>1, <1>2, <2>1, <3>1, <3>2, CodeOfStep, Zenon DEF s
  <2> QED
    BY <2>3, <2>4, <2>5, Zenon
<1>7. CASE ProbeSite(t)
  <2>1. ipc[t] = "probe" /\ sites' = sites
    BY <1>7, Zenon DEF ProbeSite, tableVars
  <2>2. s \in Sites \ Direct
    BY <1>4, <2>1, Zenon DEF Probing
  <2>3. CASE IGo(t, "target") /\ fault' = fault
    BY <1>1, <1>2, <1>5, <2>1, <2>2, <2>3, CodeOfStep, Zenon DEF s
  <2>4. CASE IGo(t, "claim") /\ fault' = fault
    BY <1>1, <1>2, <1>5, <2>1, <2>2, <2>4, CodeOfStep, Zenon DEF s
  <2>5. CASE ISet(t, [fault[t] EXCEPT !.offset = @ + 1]) /\ ipc' = ipc
    <3>1. ISet(t, [fault[t] EXCEPT !.offset = fault[t].offset + 1])
      BY <2>5, Zenon
    <3>2. IGo(t, "probe")
      BY <1>1, <2>1, <2>5, Zenon DEF Int2eTypeOK, IGo
    <3> QED
      BY <1>1, <1>2, <1>3, <1>5, <2>1, <2>2, <3>1, <3>2, CodeOfStep, Zenon DEF s
  <2> QED
    BY <1>7, <2>3, <2>4, <2>5, Zenon DEF ProbeSite
<1>8. CASE TableFull(t)
  <2>1. ipc[t] = "probe" /\ sites' = sites /\ fault[t].offset = capacity /\ IGo(t, "patch") /\ ISet(t, [fault[t] EXCEPT !.offset = 0])
    BY <1>8, Zenon DEF TableFull, tableVars
  <2>2. s \in Sites \ Direct
    BY <1>4, <2>1, Zenon DEF Probing
  <2>3. ~Room
    BY <2>1, FullTableHasNoRoom, Zenon
  <2> QED
    BY <1>1, <1>2, <1>3, <1>5, <2>1, <2>2, <2>3, CodeOfStep, Zenon DEF s
<1>9. CASE ClaimSite(t)
  <2>1. ipc[t] = "claim" /\ fault' = fault
    BY <1>9, Zenon DEF ClaimSite
  <2>2. s \in Sites \ Direct
    BY <1>4, <2>1, Zenon DEF Probing
  <2>3. CASE sites' = [sites EXCEPT ![Slot(t)] = fault[t].site] /\ IGo(t, "target")
    <3>1. sites \in [0..(capacity - 1) -> Sites \cup {NoSite}] /\ sites' = [sites EXCEPT ![Slot(t)] = s]
      BY <1>1, <2>3, Zenon DEF Int2eTypeOK, s
    <3>2. \A i \in 0..(capacity - 1) : sites'[i] = sites[i] \/ sites'[i] = s
      BY <3>1, Zenon
    <3>3. \A i \in 0..(capacity - 1) : sites'[i] \notin Direct
      BY <1>1, <2>2, <3>2, Zenon
    <3> QED
      BY <1>1, <1>2, <1>5, <2>1, <2>2, <2>3, <3>3, CodeOfStep, Zenon DEF s
  <2>4. CASE sites' = sites /\ IGo(t, "probe")
    BY <1>1, <1>2, <1>5, <2>1, <2>2, <2>4, CodeOfStep, Zenon DEF s
  <2> QED
    BY <1>9, <2>3, <2>4, Zenon DEF ClaimSite
<1>10. CASE LoadTarget(t)
  <2>1. ipc[t] = "target" /\ sites' = sites
    BY <1>10, Zenon DEF LoadTarget, tableVars
  <2>2. s \in Sites \ Direct
    BY <1>4, <2>1, Zenon DEF Probing
  <2>3. targets[Slot(t)] \in Pages \cup {NoPage}
    <3>1. Slot(t) \in 0..(capacity - 1)
      BY <1>1, <2>1, SlotInside, Zenon DEF Probing
    <3> QED
      BY <1>1, <3>1, Zenon DEF Int2eTypeOK
  <2>4. CASE IGo(t, "trampoline") /\ ISet(t, [fault[t] EXCEPT !.page = targets[Slot(t)]])
    BY <1>1, <1>2, <1>5, <2>1, <2>2, <2>3, <2>4, CodeOfStep, Zenon DEF s
  <2>5. CASE IGo(t, "build") /\ fault' = fault
    BY <1>1, <1>2, <1>5, <2>1, <2>2, <2>5, CodeOfStep, Zenon DEF s
  <2> QED
    BY <1>10, <2>4, <2>5, Zenon DEF LoadTarget
<1>11. CASE BuildTrampoline(t)
  <2>1. ipc[t] = "build" /\ sites' = sites
    BY <1>11, Zenon DEF BuildTrampoline
  <2>2. s \in Sites \ Direct
    BY <1>4, <2>1, Zenon DEF Probing
  <2>3. ASSUME NEW p \in Pages, ISet(t, [fault[t] EXCEPT !.page = p]), IGo(t, "publish") PROVE CodeInv'
    BY <1>1, <1>2, <1>5, <2>1, <2>2, <2>3, CodeOfStep, Zenon DEF s
  <2>4. CASE may_fail /\ IGo(t, "patch") /\ ISet(t, [fault[t] EXCEPT !.offset = 0])
    <3>1. ~Room
      BY <2>4, Zenon DEF Room
    <3> QED
      BY <1>1, <1>2, <1>3, <1>5, <2>1, <2>2, <2>4, <3>1, CodeOfStep, Zenon DEF s
  <2> QED
    BY <1>11, <2>3, <2>4, Zenon DEF BuildTrampoline
<1>12. CASE PublishTarget(t)
  <2>1. ipc[t] = "publish" /\ sites' = sites /\ IGo(t, "trampoline")
    BY <1>12, Zenon DEF PublishTarget
  <2>2. s \in Sites \ Direct
    BY <1>4, <2>1, Zenon DEF Probing
  <2>3. targets[Slot(t)] \in Pages \cup {NoPage}
    <3>1. Slot(t) \in 0..(capacity - 1)
      BY <1>1, <2>1, SlotInside, Zenon DEF Probing
    <3> QED
      BY <1>1, <3>1, Zenon DEF Int2eTypeOK
  <2>4. CASE ISet(t, [fault[t] EXCEPT !.page = targets[Slot(t)]])
    BY <1>1, <1>2, <1>5, <2>1, <2>2, <2>3, <2>4, CodeOfStep, Zenon DEF s
  <2>5. CASE fault' = fault
    BY <1>1, <1>2, <1>5, <2>1, <2>2, <2>5, CodeOfStep, Zenon DEF s
  <2> QED
    BY <1>12, <2>4, <2>5, Zenon DEF PublishTarget
<1> QED
  BY <1>6, <1>7, <1>8, <1>9, <1>10, <1>11, <1>12, Zenon

(* patch_to_syscall without its exchange: only a thread that is at the last      *)
(* resort anyway is here, with a site outside thunks.                             *)
LEMMA PatchKeepsCode ==
  ASSUME Int2eInv, CodeInv, NEW t \in Faulters, PatchRead(t) \/ PatchOpen(t) \/ PatchClose(t)
  PROVE  CodeInv'
<1> DEFINE s == fault[t].site
<1>1. Int2eTypeOK /\ HandlesOK(ipc[t], s) /\ \A i \in 0..(capacity - 1) : sites[i] \notin Direct
  BY Zenon DEF Int2eInv, CodeInv
<1>2. /\ code' = code /\ rewritten' = rewritten /\ capacity' = capacity /\ may_fail' = may_fail
      /\ fault' = fault /\ sites' = sites /\ ipc[t] \in LastResorts
  BY Zenon DEF PatchRead, PatchOpen, PatchClose, codeVars, setting, tableVars, LastResorts
<1>3. s \in Sites \ Direct /\ ~Room
  BY <1>1, <1>2, Zenon DEF HandlesOK, LastResorts
<1>4. HandlesOK("skipped", s) /\ (s \notin Straddling => HandlesOK("guard", s) /\ HandlesOK("swap", s))
      /\ (code[s] = "syscall" => HandlesOK("patched", s))
  BY <1>3, Zenon DEF HandlesOK, LastResorts
<1>5. CASE IGo(t, "skipped")
  BY <1>1, <1>2, <1>4, <1>5, CodeOfStep, Zenon
<1>6. CASE PatchRead(t)
  <2>1. IGo(t, "skipped") \/ (s \notin Straddling /\ IGo(t, "guard"))
    BY <1>6, Zenon DEF PatchRead
  <2>2. CASE s \notin Straddling /\ IGo(t, "guard")
    BY <1>1, <1>2, <1>4, <2>2, CodeOfStep, Zenon
  <2> QED
    BY <1>5, <2>1, <2>2, Zenon
<1>7. CASE PatchOpen(t)
  <2>1. ipc[t] = "guard" /\ (IGo(t, "skipped") \/ IGo(t, "swap"))
    BY <1>7, Zenon DEF PatchOpen
  <2>2. s \notin Straddling
    BY <1>1, <2>1, Zenon DEF HandlesOK
  <2>3. CASE IGo(t, "swap")
    BY <1>1, <1>2, <1>4, <2>2, <2>3, CodeOfStep, Zenon
  <2> QED
    BY <1>5, <2>1, <2>3, Zenon
<1>8. CASE PatchClose(t)
  <2>1. IGo(t, "skipped") \/ (code[s] = "syscall" /\ IGo(t, "patched"))
    BY <1>8, Zenon DEF PatchClose
  <2>2. CASE code[s] = "syscall" /\ IGo(t, "patched")
    BY <1>1, <1>2, <1>4, <2>2, CodeOfStep, Zenon
  <2> QED
    BY <1>5, <2>1, <2>2, Zenon
<1> QED
  BY <1>6, <1>7, <1>8, Zenon

(* Changing an opcode from `int 2e` takes nothing from the threads that handle   *)
(* faults there.                                                                  *)
LEMMA HandlesStays ==
  ASSUME CodeOK, NEW s \in Sites, NEW new \in {"syscall", "other"}, code[s] = "int 2e",
         code' = [code EXCEPT ![s] = new], capacity' = capacity, may_fail' = may_fail,
         NEW u \in Faulters, HandlesOK(ipc'[u], fault'[u].site)
  PROVE  HandlesOK(ipc[u], fault[u].site)'
<1> DEFINE l == ipc'[u]
           r == fault'[u].site
<1>1. Room' <=> Room
  BY Zenon DEF Room
<1>2. code'[s] = new /\ \A q \in Sites : q # s => code'[q] = code[q]
  BY Zenon DEF CodeOK
<1>3. HandlesOK(l, r)
  BY Zenon
<1> HIDE DEF l, r
<1>4. HandlesOK(ipc[u], fault[u].site)' <=>
        /\ l \notin {"run", "gone"} => r \in Sites
        /\ l \in (Probing \ {"read"}) \cup LastResorts => r \notin Direct
        /\ l \in {"guard", "swap"} => r \notin Straddling
        /\ l = "patched" => code'[r] = "syscall"
        /\ l = "to wine" => code'[r] # "int 2e"
        /\ Room' => l \notin LastResorts
  BY Zenon DEF HandlesOK, l, r
<1>5. l = "patched" => code'[r] = "syscall"
  <2>1. CASE l = "patched"
    <3>1. r \in Sites /\ code[r] = "syscall"
      BY <1>3, <2>1, Zenon DEF HandlesOK
    <3> QED
      BY <1>2, <3>1, Zenon
  <2> QED
    BY <2>1, Zenon
<1>6. l = "to wine" => code'[r] # "int 2e"
  <2>1. CASE l = "to wine"
    <3>1. r \in Sites /\ code[r] # "int 2e"
      BY <1>3, <2>1, Zenon DEF HandlesOK
    <3> QED
      BY <1>2, <3>1, Zenon
  <2> QED
    BY <2>1, Zenon
<1> QED
  BY <1>1, <1>3, <1>4, <1>5, <1>6, Zenon DEF HandlesOK

(* The exchange replaces an `int 2e` outside thunks that lies on one page, and    *)
(* nothing else.                                                                  *)
LEMMA ExchangeKeepsCode ==
  ASSUME Int2eInv, CodeInv, NEW t \in Faulters, PatchExchange(t)
  PROVE  CodeInv'
<1> DEFINE s == fault[t].site
<1>1. Int2eTypeOK /\ CodeOK /\ HandlesOK(ipc[t], s) /\ \A i \in 0..(capacity - 1) : sites[i] \notin Direct
  BY Zenon DEF Int2eInv, CodeInv
<1>2. /\ rewritten' = rewritten /\ capacity' = capacity /\ may_fail' = may_fail
      /\ fault' = fault /\ sites' = sites /\ ipc[t] = "swap"
  BY Zenon DEF PatchExchange, setting, tableVars
<1>3. s \in Sites \ Direct /\ s \notin Straddling /\ ~Room
  BY <1>1, <1>2, Zenon DEF HandlesOK, LastResorts
<1>4. HandlesOK("not swapped", s) /\ HandlesOK("swapped", s)
  BY <1>3, Zenon DEF HandlesOK, LastResorts
<1>5. CASE IGo(t, "not swapped") /\ code' = code
  BY <1>1, <1>2, <1>4, <1>5, CodeOfStep, Zenon
<1>6. CASE code[s] = "int 2e" /\ code' = [code EXCEPT ![s] = "syscall"] /\ IGo(t, "swapped")
  <2>1. /\ ipc'[t] = "swapped"
        /\ \A u \in Faulters \ {t} : ipc'[u] = ipc[u] /\ fault'[u].site = fault[u].site
    BY <1>1, <1>2, <1>6, OthersStay, Zenon
  <2>2. code \in [Sites -> {"int 2e", "syscall", "other"}]
    BY <1>1, Zenon DEF CodeOK
  <2> HIDE DEF s
  <2>3. /\ code' \in [Sites -> {"int 2e", "syscall", "other"}] /\ code'[s] = "syscall"
        /\ \A q \in Sites : q # s => code'[q] = code[q]
    BY <1>3, <1>6, <2>2, Zenon
  <2>4. Room' <=> Room
    BY <1>2, Zenon DEF Room
  <2>5. s # rewritten
    BY <1>1, <1>3, <1>6, Zenon DEF CodeOK
  <2>6. \A q \in Sites : code'[q] = "other" <=> q = rewritten'
    <3> SUFFICES ASSUME NEW q \in Sites PROVE code'[q] = "other" <=> q = rewritten
      BY <1>2, Zenon
    <3>1. CASE q = s
      BY <2>3, <2>5, <3>1, Zenon
    <3>2. CASE q # s
      BY <1>1, <2>3, <3>2, Zenon DEF CodeOK
    <3> QED
      BY <3>1, <3>2, Zenon
  <2>7. \A q \in Direct \cup Straddling : code'[q] # "syscall"
    <3>1. Direct \subseteq Sites /\ Straddling \subseteq Sites
      BY Int2eAssumption, Zenon DEF Int2eAssumption
    <3> QED
      BY <1>1, <1>3, <2>3, <3>1, Zenon DEF CodeOK
  <2>8. CodeOK'
    BY <1>1, <1>2, <1>3, <2>3, <2>4, <2>6, <2>7, Zenon DEF CodeOK
  <2>9. ASSUME NEW u \in Faulters PROVE HandlesOK(ipc[u], fault[u].site)'
    <3>1. HandlesOK(ipc'[u], fault'[u].site)
      <4>1. CASE u = t
        BY <1>2, <1>4, <2>1, <4>1, Zenon DEF s
      <4>2. CASE u # t
        BY <2>1, <4>2, Zenon DEF CodeInv
      <4> QED
        BY <4>1, <4>2, Zenon
    <3>2. CodeOK /\ s \in Sites /\ "syscall" \in {"syscall", "other"}
      BY <1>1, <1>3, Zenon
    <3> QED
      BY <1>2, <1>6, <3>1, <3>2, HandlesStays, Zenon
  <2> QED
    BY <1>1, <1>2, <2>8, <2>9, Zenon DEF CodeInv
<1> QED
  BY <1>5, <1>6, Zenon DEF PatchExchange

(* A fault begins and ends. *)
LEMMA FaultKeepsCode ==
  ASSUME Int2eInv, CodeInv, NEW t \in Faulters, LeaveHandler(t) \/ \E s \in Sites : RaiseFault(t, s)
  PROVE  CodeInv'
<1>1. Int2eTypeOK /\ \A i \in 0..(capacity - 1) : sites[i] \notin Direct
  BY Zenon DEF Int2eInv, CodeInv
<1>2. /\ code' = code /\ rewritten' = rewritten /\ capacity' = capacity /\ may_fail' = may_fail /\ sites' = sites
  BY Zenon DEF LeaveHandler, RaiseFault, codeVars, setting, tableVars
<1>3. fault \in [Faulters -> FaultRecord]
  BY <1>1, Zenon DEF Int2eTypeOK
<1>4. CASE LeaveHandler(t)
  <2>1. IGo(t, "run") /\ ISet(t, NoFault)
    BY <1>4, Zenon DEF LeaveHandler
  <2>2. ipc'[t] = "run" /\ \A u \in Faulters \ {t} : ipc'[u] = ipc[u] /\ fault'[u].site = fault[u].site
    BY <1>1, <2>1, OthersStay, Zenon
  <2>3. HandlesOK(ipc'[t], fault'[t].site)
    BY <2>2, Zenon DEF HandlesOK, Probing, LastResorts
  <2> QED
    BY <1>1, <1>2, <2>2, <2>3, CodeOfMove, Zenon
<1>5. ASSUME NEW s \in Sites, RaiseFault(t, s) PROVE CodeInv'
  <2> DEFINE g == [NoFault EXCEPT !.site = s]
  <2>1. IGo(t, "read") /\ ISet(t, g)
    BY <1>5, Zenon DEF RaiseFault
  <2>2. g.site = s
    BY SetSite, Zenon
  <2> HIDE DEF g
  <2>3. ipc'[t] = "read" /\ \A u \in Faulters \ {t} : ipc'[u] = ipc[u] /\ fault'[u].site = fault[u].site
    BY <1>1, <2>1, OthersStay, Zenon
  <2>4. fault'[t] = g
    BY <1>3, <2>1, Zenon DEF ISet
  <2>5. HandlesOK("read", s)
    BY Zenon DEF HandlesOK, Probing, LastResorts
  <2>6. HandlesOK(ipc'[t], fault'[t].site)
    BY <2>2, <2>3, <2>4, <2>5, Zenon
  <2> QED
    BY <1>1, <1>2, <2>3, <2>6, CodeOfMove, Zenon
<1> QED
  BY <1>4, <1>5, Zenon

(* The program changes its own code. *)
LEMMA RewriteKeepsCode ==
  ASSUME CodeInv, NEW s \in Sites, RewriteSite(s)
  PROVE  CodeInv'
<1>1. /\ rewritten = NoSite /\ rewritten' = s /\ code[s] = "int 2e" /\ code' = [code EXCEPT ![s] = "other"]
      /\ ipc' = ipc /\ fault' = fault /\ capacity' = capacity /\ may_fail' = may_fail /\ sites' = sites
  BY Zenon DEF RewriteSite, tableVars, setting
<1>2. CodeOK /\ NoSite \notin Sites /\ Direct \subseteq Sites /\ Straddling \subseteq Sites
  BY Int2eAssumption, Zenon DEF CodeInv, Int2eAssumption
<1>3. /\ code' \in [Sites -> {"int 2e", "syscall", "other"}] /\ code'[s] = "other"
      /\ \A q \in Sites : q # s => code'[q] = code[q]
  BY <1>1, <1>2, Zenon DEF CodeOK
<1>4. Room' <=> Room
  BY <1>1, Zenon DEF Room
<1>5. \A q \in Sites : code[q] # "other"
  BY <1>1, <1>2, Zenon DEF CodeOK
<1>6. \A q \in Sites : code'[q] = "other" <=> q = rewritten'
  BY <1>1, <1>3, <1>5, Zenon
<1>7. \A q \in Sites : code'[q] = "syscall" => code[q] = "syscall"
  BY <1>3, Zenon
<1>8. CodeOK'
  BY <1>1, <1>2, <1>3, <1>4, <1>6, <1>7, Zenon DEF CodeOK
<1>9. ASSUME NEW u \in Faulters PROVE HandlesOK(ipc[u], fault[u].site)'
  <2>1. HandlesOK(ipc'[u], fault'[u].site) /\ "other" \in {"syscall", "other"}
    BY <1>1, Zenon DEF CodeInv
  <2> QED
    BY <1>1, <1>2, <2>1, HandlesStays, Zenon
<1> QED
  BY <1>1, <1>8, <1>9, Zenon DEF CodeInv

(* Steps that change neither code, nor table, nor any fault but by ending it. *)
LEMMA CodeStays ==
  ASSUME CodeInv, code' = code, rewritten' = rewritten, capacity' = capacity, may_fail' = may_fail,
         sites' = sites,
         \A u \in Faulters : \/ ipc'[u] \in {"run", "gone"}
                             \/ ipc'[u] = ipc[u] /\ fault'[u] = fault[u]
  PROVE  CodeInv'
<1>1. Room' <=> Room
  BY Zenon DEF Room
<1>2. CodeOK'
  BY <1>1, Zenon DEF CodeInv, CodeOK
<1>3. ASSUME NEW u \in Faulters PROVE HandlesOK(ipc[u], fault[u].site)'
  <2>1. CASE ipc'[u] \in {"run", "gone"}
    BY <2>1, Zenon DEF HandlesOK, Probing, LastResorts
  <2>2. CASE ipc'[u] = ipc[u] /\ fault'[u] = fault[u]
    <3>1. HandlesOK(ipc'[u], fault'[u].site)
      BY <2>2, Zenon DEF CodeInv
    <3> QED
      BY <1>1, <3>1, Zenon DEF HandlesOK
  <2> QED
    BY <2>1, <2>2, Zenon
<1> QED
  BY <1>2, <1>3, Zenon DEF CodeInv

(* Every step keeps what the last resorts promise. *)
LEMMA CodeStep == Int2eInv /\ CodeInv /\ [Int2eNext]_int2eVars => CodeInv'
<1> SUFFICES ASSUME Int2eInv, CodeInv, [Int2eNext]_int2eVars PROVE CodeInv'
  BY Zenon
<1>1. ASSUME NEW t \in Faulters, Int2eStep(t) PROVE CodeInv'
  BY <1>1, TrampolineKeepsCode, PatchKeepsCode, ExchangeKeepsCode, FaultKeepsCode, Zenon DEF Int2eStep
<1>2. ASSUME NEW t \in Faulters, Int2eFork(t) PROVE CodeInv'
  <2>1. \A u \in Faulters : ipc'[u] \in {"run", "gone"}
    BY <1>2, Zenon DEF Int2eFork
  <2>2. code' = code /\ rewritten' = rewritten /\ capacity' = capacity /\ may_fail' = may_fail /\ sites' = sites
    BY <1>2, Zenon DEF Int2eFork, tableVars
  <2> QED
    BY <2>1, <2>2, CodeStays, Zenon
<1>3. ASSUME NEW t \in Faulters, NEW s \in Sites, RaiseFault(t, s) PROVE CodeInv'
  BY <1>3, FaultKeepsCode, Zenon
<1>4. CASE KuserGuard
  <2>1. /\ code' = code /\ rewritten' = rewritten /\ capacity' = capacity /\ may_fail' = may_fail
        /\ sites' = sites /\ ipc' = ipc /\ fault' = fault
    BY <1>4, Zenon DEF KuserGuard, tableVars, setting
  <2> QED
    BY <2>1, CodeStays, Zenon
<1>5. CASE UNCHANGED int2eVars
  <2>1. /\ code' = code /\ rewritten' = rewritten /\ capacity' = capacity /\ may_fail' = may_fail
        /\ sites' = sites /\ ipc' = ipc /\ fault' = fault
    BY <1>5, Zenon DEF int2eVars
  <2> QED
    BY <2>1, CodeStays, Zenon
<1> QED
  BY <1>1, <1>2, <1>3, <1>4, <1>5, RewriteKeepsCode, Zenon DEF Int2eNext

(* The runtime never touches a Windows thunk or an opcode that straddles pages,  *)
(* never overwrites a change of the program's own, and while the table has room  *)
(* and mappings succeed it changes no code and skips no syscall.                  *)
THEOREM CodeStaysAlone == Int2eSpec => []CodeIsLeftAlone
<1>1. Int2eInv /\ CodeInv /\ [Int2eNext]_int2eVars => Int2eInv' /\ CodeInv'
  BY TypeStep, ProbedStep, PagesStep, CodeStep, Zenon DEF Int2eInv
<1>2. CodeInv => CodeIsLeftAlone
  <2> SUFFICES ASSUME CodeInv PROVE CodeIsLeftAlone
    BY Zenon
  <2>1. CodeOK /\ (\A s \in Direct \cup Straddling : code[s] # "syscall") /\ (\A s \in Sites : s = rewritten => code[s] = "other")
    BY Zenon DEF CodeInv, CodeOK
  <2>2. ASSUME ~may_fail /\ Cardinality(Sites \ Direct) <= capacity,
               NEW t \in Faulters, fault[t].site # rewritten
        PROVE  ipc[t] \notin {"skipped", "to wine"}
    <3>1. Room /\ HandlesOK(ipc[t], fault[t].site)
      BY <2>2, Zenon DEF Room, CodeInv
    <3>2. ipc[t] # "skipped"
      BY <3>1, Zenon DEF HandlesOK, LastResorts
    <3>3. CASE ipc[t] = "to wine"
      <4>1. fault[t].site \in Sites /\ code[fault[t].site] # "int 2e"
        BY <3>1, <3>3, Zenon DEF HandlesOK
      <4>2. code[fault[t].site] # "syscall" /\ code[fault[t].site] # "other"
        BY <2>1, <2>2, <3>1, <4>1, Zenon DEF CodeOK
      <4>3. code[fault[t].site] \in {"int 2e", "syscall", "other"}
        BY <2>1, <4>1, Zenon DEF CodeOK
      <4> QED
        BY <4>1, <4>2, <4>3, Zenon
    <3> QED
      BY <3>2, <3>3, Zenon
  <2>3. ASSUME ~may_fail /\ Cardinality(Sites \ Direct) <= capacity PROVE \A s \in Sites : code[s] # "syscall"
    BY <2>1, <2>3, Zenon DEF Room, CodeOK
  <2>4. ~may_fail /\ Cardinality(Sites \ Direct) <= capacity =>
          /\ \A s \in Sites : code[s] # "syscall"
          /\ \A t \in Faulters : fault[t].site # rewritten => ipc[t] \notin {"skipped", "to wine"}
    BY <2>2, <2>3, Zenon
  <2>5. \A t \in Faulters : ipc[t] = "patched" => code[fault[t].site] = "syscall"
    BY Zenon DEF CodeInv, HandlesOK
  <2> QED
    BY <2>1, <2>4, <2>5, Zenon DEF CodeIsLeftAlone
<1> QED
  BY InitInv, CodeInvInit, <1>1, <1>2, PTL DEF Int2eSpec

-----------------------------------------------------------------------------
(* The trace ring of diagnostics.rs. *)

TraceLabels == {"idle", "gone", "sequence", "own", "first", "second", "publish",
                "visit", "read 1", "read 2", "recheck", "log"}
Fields == [1..2 -> Int]
Places == 0..(HistoryCapacity - 1)
TraceTypes ==
  /\ next_ticket \in Nat
  /\ slots \in [Places -> [sequence : Nat, writing : BOOLEAN, fields : Fields]]
  /\ tpc \in [Tracers -> TraceLabels]
  /\ tl \in [Tracers -> [ticket : Nat, current : Nat, fields : Fields, stop : Nat]]

(* Both fields are of event k. *)
AreOf(fields, k) == fields[1] = k /\ fields[2] = k

(* A slot nobody writes holds one whole event. *)
SlotWhole(i) ==
  slots[i].sequence # 0 /\ ~slots[i].writing => AreOf(slots[i].fields, slots[i].sequence - 1)

(* What a writer has written so far. *)
WritesOwn(t) ==
  /\ tpc[t] = "own" => tl[t].current <= tl[t].ticket + 1
  /\ tpc[t] \in {"first", "second", "publish"} =>
       slots[SlotOf(t)].writing /\ slots[SlotOf(t)].sequence = tl[t].ticket + 1
  /\ tpc[t] \in {"second", "publish"} => slots[SlotOf(t)].fields[1] = tl[t].ticket
  /\ tpc[t] = "publish" => slots[SlotOf(t)].fields[2] = tl[t].ticket

(* What a reader may rely on as long as the slot has its sequence: sequences   *)
(* only grow, so a slot that was lost never comes back.                        *)
ReadsWhole(t) ==
  /\ tpc[t] \in {"read 1", "read 2", "recheck"} =>
       /\ slots[SlotOf(t)].sequence >= tl[t].ticket + 1
       /\ slots[SlotOf(t)].sequence = tl[t].ticket + 1 =>
            /\ AreOf(slots[SlotOf(t)].fields, tl[t].ticket)
            /\ tpc[t] # "read 1" => tl[t].fields[1] = tl[t].ticket
            /\ tpc[t] = "recheck" => tl[t].fields[2] = tl[t].ticket
  /\ tpc[t] = "log" => AreOf(tl[t].fields, tl[t].ticket)

OneTracer ==
  \A t, u \in Tracers :
    /\ tpc[t] \in {"first", "second", "publish"}
    /\ tpc[u] \in {"first", "second", "publish"}
    /\ SlotOf(t) = SlotOf(u)
    => t = u

TraceInv ==
  /\ TraceTypes /\ OneTracer
  /\ \A i \in Places : SlotWhole(i)
  /\ \A t \in Tracers : WritesOwn(t) /\ ReadsWhole(t)

(* Pairs of fields. *)
LEMMA FieldPairs ==
  /\ 1 \in 1..2 \ {2} /\ 2 \in 1..2 \ {1}
  /\ NoTrace.fields \in Fields
  BY SMT DEF NoTrace, Fields

(* Both fields of one event. *)
LEMMA FieldsOf ==
  ASSUME NEW f \in Fields, NEW k \in Int, AreOf(f, k)
  PROVE  f = <<k, k>>
  BY SMT DEF Fields, AreOf

(* One field is stored or loaded. *)
Stored(f, i, k) == [f EXCEPT ![i] = k]

(* ... and the other one stays. *)
LEMMA FieldStored ==
  ASSUME NEW f \in Fields, NEW i \in 1..2, NEW k \in Int
  PROVE  /\ Stored(f, i, k) \in Fields /\ Stored(f, i, k)[i] = k
         /\ \A j \in 1..2 \ {i} : Stored(f, i, k)[j] = f[j]
  BY SMT DEF Fields, Stored

(* A store of sequence | WRITING_BIT, or of sequence without it. *)
LEMMA SequenceStored ==
  ASSUME TraceTypes, NEW s \in Places, NEW n \in Nat, NEW w \in BOOLEAN
  PROVE  [slots EXCEPT ![s].sequence = n, ![s].writing = w]
           = [slots EXCEPT ![s] = [slots[s] EXCEPT !.sequence = n, !.writing = w]]
  BY Zenon DEF TraceTypes

(* Every ticket has a slot. *)
LEMMA PlaceOf ==
  ASSUME TraceTypes, NEW t \in Tracers
  PROVE  /\ SlotOf(t) \in Places
         /\ tl[t] \in [ticket : Nat, current : Nat, fields : Fields, stop : Nat]
         /\ slots[SlotOf(t)] \in [sequence : Nat, writing : BOOLEAN, fields : Fields]
<1>1. tl[t] \in [ticket : Nat, current : Nat, fields : Fields, stop : Nat]
  BY Zenon DEF TraceTypes
<1>2. tl[t].ticket \in Nat
  BY <1>1, Zenon
<1>3. SlotOf(t) \in Places
  BY <1>2, ModInside, TraceAssumption, ZenonT(30) DEF SlotOf, Places, TraceAssumption
<1> QED
  BY <1>1, <1>3, Zenon DEF TraceTypes


(* A step of t that leaves the slots alone and does not make it a writer.      *)
LEMMA LocalKeeps ==
  ASSUME TraceInv, NEW t \in Tracers, NEW label \in TraceLabels \ {"first", "second", "publish"},
         NEW l \in [ticket : Nat, current : Nat, fields : Fields, stop : Nat],
         TGo(t, label, l), slots' = slots, next_ticket' \in Nat,
         WritesOwn(t)', ReadsWhole(t)'
  PROVE  TraceInv'
<1>0. TraceTypes /\ tpc \in [Tracers -> TraceLabels]
  BY Zenon DEF TraceInv, TraceTypes
<1>1. TraceTypes'
  BY <1>0, SMT DEF TraceTypes, TGo
<1>2. /\ tpc'[t] = label /\ tl'[t] = l
      /\ \A u \in Tracers \ {t} : tpc'[u] = tpc[u] /\ tl'[u] = tl[u] /\ SlotOf(u)' = SlotOf(u)
  BY <1>0, Zenon DEF TGo, TraceTypes, SlotOf
<1>3. \A u \in Tracers : WritesOwn(u)' /\ ReadsWhole(u)'
  <2> SUFFICES ASSUME NEW u \in Tracers \ {t} PROVE WritesOwn(u)' /\ ReadsWhole(u)'
    BY Zenon
  <2>1. WritesOwn(u) /\ ReadsWhole(u)
    BY Zenon DEF TraceInv
  <2>2. tpc'[u] = tpc[u] /\ tl'[u] = tl[u] /\ SlotOf(u)' = SlotOf(u)
    BY <1>2, Zenon
  <2>3. WritesOwn(u)'
    BY <2>1, <2>2, Zenon DEF WritesOwn
  <2>4. ReadsWhole(u)'
    BY <2>1, <2>2, Zenon DEF ReadsWhole
  <2> QED
    BY <2>3, <2>4, Zenon
<1>4. OneTracer'
  <2> SUFFICES ASSUME NEW u \in Tracers, NEW v \in Tracers, tpc'[u] \in {"first", "second", "publish"},
                      tpc'[v] \in {"first", "second", "publish"}, SlotOf(u)' = SlotOf(v)'
               PROVE  u = v
    BY Zenon DEF OneTracer
  <2>1. u # t /\ v # t
    BY <1>2, Zenon
  <2>2. tpc[u] = tpc'[u] /\ tpc[v] = tpc'[v] /\ SlotOf(u)' = SlotOf(u) /\ SlotOf(v)' = SlotOf(v)
    BY <1>2, <2>1, Zenon
  <2> QED
    BY <2>2, Zenon DEF TraceInv, OneTracer
<1>5. \A i \in Places : SlotWhole(i)'
  BY Zenon DEF TraceInv, SlotWhole
<1> QED
  BY <1>1, <1>3, <1>4, <1>5, Zenon DEF TraceInv

(* A store of t to its slot that no other thread writes.  The sequence does    *)
(* not go back, and a store that keeps it keeps a whole event whole.           *)
LEMMA StoreKeeps ==
  ASSUME TraceInv, NEW t \in Tracers, NEW label \in TraceLabels,
         NEW l \in [ticket : Nat, current : Nat, fields : Fields, stop : Nat],
         NEW e \in [sequence : Nat, writing : BOOLEAN, fields : Fields],
         TGo(t, label, l), label # "idle" => l.ticket = tl[t].ticket, next_ticket' = next_ticket,
         slots' = [slots EXCEPT ![SlotOf(t)] = e],
         \A u \in Tracers \ {t} : tpc[u] \in {"first", "second", "publish"} => SlotOf(u) # SlotOf(t),
         e.sequence >= slots[SlotOf(t)].sequence,
         \A k \in Nat : e.sequence = slots[SlotOf(t)].sequence /\ AreOf(slots[SlotOf(t)].fields, k)
                        /\ e.sequence = k + 1 => AreOf(e.fields, k),
         e.sequence # 0 /\ ~e.writing => AreOf(e.fields, e.sequence - 1),
         WritesOwn(t)', ReadsWhole(t)'
  PROVE  TraceInv'
<1>0. TraceTypes /\ tpc \in [Tracers -> TraceLabels] /\ SlotOf(t) \in Places
  BY PlaceOf, Zenon DEF TraceInv, TraceTypes
<1>1. TraceTypes'
  BY <1>0, SMT DEF TraceTypes, TGo
<1>2. /\ tpc'[t] = label /\ tl'[t] = l
      /\ \A u \in Tracers \ {t} : tpc'[u] = tpc[u] /\ tl'[u] = tl[u] /\ SlotOf(u)' = SlotOf(u)
      /\ label # "idle" => SlotOf(t)' = SlotOf(t)
  BY <1>0, Zenon DEF TGo, TraceTypes, SlotOf
<1>3. slots'[SlotOf(t)] = e /\ \A i \in Places \ {SlotOf(t)} : slots'[i] = slots[i]
  BY <1>0, Zenon DEF TraceTypes
<1>4. \A u \in Tracers : WritesOwn(u)' /\ ReadsWhole(u)'
  <2> SUFFICES ASSUME NEW u \in Tracers \ {t} PROVE WritesOwn(u)' /\ ReadsWhole(u)'
    BY Zenon
  <2>0. /\ SlotOf(u) \in Places
        /\ tl[u] \in [ticket : Nat, current : Nat, fields : Fields, stop : Nat]
    BY <1>0, PlaceOf, Zenon
  <2>1. WritesOwn(u) /\ ReadsWhole(u)
    BY Zenon DEF TraceInv
  <2>2. tpc'[u] = tpc[u] /\ tl'[u] = tl[u] /\ SlotOf(u)' = SlotOf(u)
    BY <1>2, Zenon
  <2>3. CASE SlotOf(u) # SlotOf(t)
    <3>1. slots'[SlotOf(u)] = slots[SlotOf(u)]
      BY <1>3, <2>0, <2>3, Zenon
    <3>2. WritesOwn(u)'
      BY <2>1, <2>2, <3>1, Zenon DEF WritesOwn
    <3>3. ReadsWhole(u)'
      BY <2>1, <2>2, <3>1, Zenon DEF ReadsWhole
    <3> QED
      BY <3>2, <3>3, Zenon
  <2>4. CASE SlotOf(u) = SlotOf(t)
    <3>1. tpc[u] \notin {"first", "second", "publish"}
      BY <2>4, Zenon
    <3>2. WritesOwn(u)'
      BY <2>1, <2>2, <3>1, Zenon DEF WritesOwn
    <3>3. tpc[u] = "log" => AreOf(tl[u].fields, tl[u].ticket)
      BY <2>1, Zenon DEF ReadsWhole
    <3>4. ASSUME tpc[u] \in {"read 1", "read 2", "recheck"}
          PROVE  /\ e.sequence >= tl[u].ticket + 1
                 /\ e.sequence = tl[u].ticket + 1 =>
                      /\ AreOf(e.fields, tl[u].ticket)
                      /\ tpc[u] # "read 1" => tl[u].fields[1] = tl[u].ticket
                      /\ tpc[u] = "recheck" => tl[u].fields[2] = tl[u].ticket
      <4>1. slots[SlotOf(t)].sequence >= tl[u].ticket + 1
        BY <2>1, <2>4, <3>4, Zenon DEF ReadsWhole
      <4>2. tl[u].ticket \in Nat /\ e.sequence \in Nat /\ slots[SlotOf(t)].sequence \in Nat
        BY <1>0, <2>0, PlaceOf, Zenon
      <4>3. e.sequence >= tl[u].ticket + 1
        BY <4>1, <4>2, SMT
      <4>4. ASSUME e.sequence = tl[u].ticket + 1 PROVE slots[SlotOf(t)].sequence = tl[u].ticket + 1
        BY <4>1, <4>2, <4>4, SMT
      <4> QED
        BY <2>1, <2>4, <3>4, <4>2, <4>3, <4>4, Zenon DEF ReadsWhole
    <3>5. slots'[SlotOf(u)'] = e
      BY <1>3, <2>2, <2>4, Zenon
    <3>6. ReadsWhole(u)'
      BY <2>2, <3>3, <3>4, <3>5, Zenon DEF ReadsWhole
    <3> QED
      BY <3>2, <3>6, Zenon
  <2> QED
    BY <2>3, <2>4, Zenon
<1>5. OneTracer'
  <2> SUFFICES ASSUME NEW u \in Tracers, NEW v \in Tracers, tpc'[u] \in {"first", "second", "publish"},
                      tpc'[v] \in {"first", "second", "publish"}, SlotOf(u)' = SlotOf(v)'
               PROVE  u = v
    BY Zenon DEF OneTracer
  <2>0. \A w \in Tracers : tpc'[w] # "idle" => SlotOf(w)' = SlotOf(w)
    BY <1>2, Zenon
  <2>1. SlotOf(u) = SlotOf(v)
    BY <2>0, Zenon
  <2>2. ASSUME NEW w \in Tracers \ {t} PROVE tpc[w] = tpc'[w]
    BY <1>2, Zenon
  <2>3. CASE u = t \/ v = t
    BY <2>1, <2>2, <2>3, Zenon
  <2>4. CASE u # t /\ v # t
    BY <2>1, <2>2, <2>4, Zenon DEF TraceInv, OneTracer
  <2> QED
    BY <2>3, <2>4, Zenon
<1>6. \A i \in Places : SlotWhole(i)'
  <2> SUFFICES ASSUME NEW i \in Places PROVE SlotWhole(i)'
    BY Zenon
  <2>1. CASE i = SlotOf(t)
    BY <1>3, <2>1, Zenon DEF SlotWhole
  <2>2. CASE i # SlotOf(t)
    BY <1>3, <2>2, Zenon DEF SlotWhole, TraceInv
  <2> QED
    BY <2>1, <2>2, Zenon
<1> QED
  BY <1>1, <1>4, <1>5, <1>6, Zenon DEF TraceInv

(* The same, to a point where t relies on nothing. *)
LEMMA QuietKeeps ==
  ASSUME TraceInv, NEW t \in Tracers, NEW label \in {"idle", "sequence", "visit"},
         NEW l \in [ticket : Nat, current : Nat, fields : Fields, stop : Nat],
         TGo(t, label, l), slots' = slots, next_ticket' \in Nat
  PROVE  TraceInv'
<1>1. tpc'[t] = label
  BY Zenon DEF TGo, TraceInv, TraceTypes
<1>2. WritesOwn(t)' /\ ReadsWhole(t)'
  BY <1>1, Zenon DEF WritesOwn, ReadsWhole
<1>3. label \in TraceLabels \ {"first", "second", "publish"}
  BY Zenon DEF TraceLabels
<1> QED
  BY <1>2, <1>3, LocalKeeps, Zenon

(* Locals keep their types. *)
LEMMA TraceLocals ==
  ASSUME NEW l \in [ticket : Nat, current : Nat, fields : Fields, stop : Nat], NEW k \in Nat
  PROVE  LET L == [ticket : Nat, current : Nat, fields : Fields, stop : Nat] IN
         /\ NoTrace \in L
         /\ [NoTrace EXCEPT !.ticket = k] \in L
         /\ [l EXCEPT !.current = k] \in L
         /\ [l EXCEPT !.ticket = @ + 1, !.fields = NoTrace.fields] \in L
         /\ \A i \in 1..2, v \in Int : [l EXCEPT !.fields[i] = v] \in L
<1>1. NoTrace.fields \in Fields
  BY FieldPairs, Zenon
<1>2. \A i \in 1..2, v \in Int : [l.fields EXCEPT ![i] = v] \in Fields
  BY FieldStored, Zenon DEF Stored
<1>3. \A i \in 1..2, v \in Int :
        [l EXCEPT !.fields[i] = v] \in [ticket : Nat, current : Nat, fields : Fields, stop : Nat]
  BY <1>2, Zenon
<1>4. <<-1, -1>> \in Fields
  BY <1>1, Zenon DEF NoTrace
<1>5. 0 \in Nat /\ l.ticket + 1 \in Nat
  BY SMT
<1> QED
  BY <1>1, <1>3, <1>4, <1>5, Zenon DEF NoTrace

(* record keeps it: taking a ticket, giving up, and the two looks at the slot. *)
LEMMA RecordKeeps ==
  ASSUME TraceInv, NEW t \in Tracers, TakeTicket(t) \/ LoadSequence(t)
  PROVE  TraceInv'
<1>0. /\ TraceTypes /\ next_ticket \in Nat
      /\ tl[t] \in [ticket : Nat, current : Nat, fields : Fields, stop : Nat]
      /\ slots[SlotOf(t)] \in [sequence : Nat, writing : BOOLEAN, fields : Fields]
  BY PlaceOf, Zenon DEF TraceInv, TraceTypes
<1>1. CASE TakeTicket(t)
  <2>1. next_ticket' \in Nat
    BY <1>0, <1>1, SMT DEF TakeTicket
  <2> QED
    BY <1>0, <1>1, <2>1, TraceLocals, QuietKeeps, Zenon DEF TakeTicket
<1>2. CASE LoadSequence(t)
  <2> DEFINE held == slots[SlotOf(t)]
  <2>1. CASE held.writing \/ held.sequence > tl[t].ticket + 1
    BY <1>0, <1>2, <2>1, TraceLocals, QuietKeeps, Zenon DEF LoadSequence
  <2>2. CASE ~(held.writing \/ held.sequence > tl[t].ticket + 1)
    <3> DEFINE l == [tl[t] EXCEPT !.current = held.sequence]
    <3>1. TGo(t, "own", l) /\ slots' = slots /\ next_ticket' = next_ticket
      BY <1>2, <2>2, Zenon DEF LoadSequence
    <3>2. l \in [ticket : Nat, current : Nat, fields : Fields, stop : Nat]
      BY <1>0, TraceLocals, Zenon
    <3>3. l.current <= l.ticket + 1
      BY <1>0, <2>2, SMT
    <3>4. tpc'[t] = "own" /\ tl'[t] = l
      BY <1>0, <3>1, Zenon DEF TGo, TraceTypes
    <3>5. WritesOwn(t)' /\ ReadsWhole(t)'
      BY <3>3, <3>4, Zenon DEF WritesOwn, ReadsWhole
    <3>6. "own" \in TraceLabels \ {"first", "second", "publish"}
      BY Zenon DEF TraceLabels
    <3> QED
      BY <1>0, <3>1, <3>2, <3>5, <3>6, LocalKeeps, Zenon
  <2> QED
    BY <2>1, <2>2, Zenon
<1> QED
  BY <1>1, <1>2, Zenon

(* The exchange that takes a slot. *)
LEMMA OwnKeeps ==
  ASSUME TraceInv, NEW t \in Tracers, OwnSlot(t)
  PROVE  TraceInv'
<1> DEFINE held == slots[SlotOf(t)]
           l == [tl[t] EXCEPT !.current = 0]
           e == [held EXCEPT !.sequence = tl[t].ticket + 1, !.writing = TRUE]
<1>0. /\ TraceTypes /\ next_ticket \in Nat
      /\ tl[t] \in [ticket : Nat, current : Nat, fields : Fields, stop : Nat]
      /\ held \in [sequence : Nat, writing : BOOLEAN, fields : Fields]
      /\ l \in [ticket : Nat, current : Nat, fields : Fields, stop : Nat]
      /\ next_ticket' = next_ticket /\ tpc[t] = "own" /\ SlotOf(t) \in Places
  BY PlaceOf, TraceLocals, Zenon DEF TraceInv, TraceTypes, OwnSlot
<1>1. CASE ~(held.sequence = tl[t].current /\ ~held.writing)
  BY <1>0, <1>1, QuietKeeps, Zenon DEF OwnSlot
<1>2. CASE held.sequence = tl[t].current /\ ~held.writing
  <2>1. TGo(t, "first", l) /\ slots' = [slots EXCEPT ![SlotOf(t)] = e]
    <3>1. tl[t].ticket + 1 \in Nat
      BY <1>0, SMT
    <3>2. TRUE \in BOOLEAN
      BY Zenon
    <3>3. /\ TGo(t, "first", l)
          /\ slots' = [slots EXCEPT ![SlotOf(t)].sequence = tl[t].ticket + 1, ![SlotOf(t)].writing = TRUE]
      BY <1>2, Zenon DEF OwnSlot
    <3> QED
      BY <1>0, <3>1, <3>2, <3>3, SequenceStored, Zenon
  <2>2. /\ e \in [sequence : Nat, writing : BOOLEAN, fields : Fields]
        /\ e.sequence = tl[t].ticket + 1 /\ e.writing /\ e.fields = held.fields
        /\ l.ticket = tl[t].ticket
    <3>1. tl[t].ticket + 1 \in Nat
      BY <1>0, SMT
    <3> QED
      BY <1>0, <3>1, Zenon
  <2>3. tl[t].current <= tl[t].ticket + 1
    BY <1>0, Zenon DEF TraceInv, WritesOwn
  <2>4. e.sequence >= held.sequence
    BY <1>0, <1>2, <2>2, <2>3, SMT
  <2>5. \A u \in Tracers \ {t} : tpc[u] \in {"first", "second", "publish"} => SlotOf(u) # SlotOf(t)
    BY <1>2, Zenon DEF TraceInv, WritesOwn
  <2>6. tpc'[t] = "first" /\ tl'[t] = l /\ SlotOf(t)' = SlotOf(t) /\ slots'[SlotOf(t)] = e
    BY <1>0, <2>1, <2>2, Zenon DEF TGo, TraceTypes, SlotOf
  <2>7. WritesOwn(t)' /\ ReadsWhole(t)'
    BY <2>2, <2>6, Zenon DEF WritesOwn, ReadsWhole
  <2>8. "first" \in TraceLabels
    BY Zenon DEF TraceLabels
  <2> HIDE DEF e, l
  <2> QED
    BY <1>0, <2>1, <2>2, <2>4, <2>5, <2>7, <2>8, StoreKeeps, Zenon
<1> QED
  BY <1>1, <1>2, Zenon

(* The stores of the fields. *)
LEMMA StoreFieldKeeps ==
  ASSUME TraceInv, NEW t \in Tracers,
         StoreField(t, "first", 1, "second") \/ StoreField(t, "second", 2, "publish")
  PROVE  TraceInv'
<1>0. /\ TraceTypes /\ next_ticket \in Nat
      /\ tl[t] \in [ticket : Nat, current : Nat, fields : Fields, stop : Nat]
      /\ slots[SlotOf(t)] \in [sequence : Nat, writing : BOOLEAN, fields : Fields]
      /\ next_ticket' = next_ticket /\ SlotOf(t) \in Places
  BY PlaceOf, Zenon DEF TraceInv, TraceTypes, StoreField
<1>1. PICK i \in 1..2, label \in {"second", "publish"} :
        /\ TGo(t, label, tl[t])
        /\ slots' = [slots EXCEPT ![SlotOf(t)].fields[i] = tl[t].ticket]
        /\ (i = 1 /\ label = "second" /\ tpc[t] = "first")
             \/ (i = 2 /\ label = "publish" /\ tpc[t] = "second")
  <2>1. 1 \in 1..2 /\ 2 \in 1..2
    BY FieldPairs, Zenon
  <2> QED
    BY <2>1, Zenon DEF StoreField
<1> DEFINE held == slots[SlotOf(t)]
           f == Stored(held.fields, i, tl[t].ticket)
           e == [held EXCEPT !.fields = f]
<1>2. slots' = [slots EXCEPT ![SlotOf(t)] = e]
  BY <1>0, <1>1, Zenon DEF TraceTypes, Stored
<1>3. /\ f \in Fields /\ f[i] = tl[t].ticket
      /\ \A j \in 1..2 \ {i} : f[j] = held.fields[j]
  <2>1. held.fields \in Fields /\ tl[t].ticket \in Int
    BY <1>0, SMT
  <2> QED
    BY <2>1, FieldStored, ZenonT(30)
<1>4. /\ held.writing /\ held.sequence = tl[t].ticket + 1
      /\ tpc[t] = "second" => held.fields[1] = tl[t].ticket
  BY <1>1, Zenon DEF TraceInv, WritesOwn
<1>5. /\ e \in [sequence : Nat, writing : BOOLEAN, fields : Fields]
      /\ e.sequence = held.sequence /\ e.writing /\ e.fields = f
  BY <1>0, <1>3, <1>4, Zenon
<1>6. \A u \in Tracers \ {t} : tpc[u] \in {"first", "second", "publish"} => SlotOf(u) # SlotOf(t)
  BY <1>1, Zenon DEF TraceInv, OneTracer
<1>7. tpc'[t] = label /\ tl'[t] = tl[t] /\ SlotOf(t)' = SlotOf(t) /\ slots'[SlotOf(t)] = e
  BY <1>0, <1>1, <1>2, Zenon DEF TGo, TraceTypes, SlotOf
<1>8. e.fields[1] = tl[t].ticket /\ (label = "publish" => e.fields[2] = tl[t].ticket)
  BY <1>1, <1>3, <1>4, <1>5, SMT
<1>9. WritesOwn(t)' /\ ReadsWhole(t)'
  <2>1. /\ slots'[SlotOf(t)'].writing /\ slots'[SlotOf(t)'].sequence = tl'[t].ticket + 1
        /\ slots'[SlotOf(t)'].fields[1] = tl'[t].ticket
        /\ tpc'[t] = "publish" => slots'[SlotOf(t)'].fields[2] = tl'[t].ticket
    BY <1>4, <1>5, <1>7, <1>8, ZenonT(30)
  <2>2. tpc'[t] \in {"second", "publish"}
    BY <1>7, Zenon
  <2>3. WritesOwn(t)'
    BY <2>1, <2>2, Zenon DEF WritesOwn
  <2>4. ReadsWhole(t)'
    BY <2>2, Zenon DEF ReadsWhole
  <2> QED
    BY <2>3, <2>4, Zenon
<1>10. ASSUME NEW k \in Nat, AreOf(held.fields, k), e.sequence = k + 1 PROVE AreOf(e.fields, k)
  BY <1>0, <1>1, <1>3, <1>4, <1>5, <1>10, SMT DEF AreOf
<1>11. e.sequence >= held.sequence /\ label \in TraceLabels
  <2>1. held.sequence >= held.sequence
    BY <1>0, SMT
  <2> QED
    BY <1>5, <2>1, Zenon DEF TraceLabels
<1> HIDE DEF e
<1> QED
  BY <1>0, <1>1, <1>2, <1>5, <1>6, <1>9, <1>10, <1>11, StoreKeeps, Zenon

(* The event becomes visible. *)
LEMMA PublishKeeps ==
  ASSUME TraceInv, NEW t \in Tracers, PublishEvent(t)
  PROVE  TraceInv'
<1> DEFINE held == slots[SlotOf(t)]
           e == [held EXCEPT !.sequence = tl[t].ticket + 1, !.writing = FALSE]
           k == tl[t].ticket
<1>0. /\ TraceTypes /\ next_ticket \in Nat
      /\ tl[t] \in [ticket : Nat, current : Nat, fields : Fields, stop : Nat]
      /\ held \in [sequence : Nat, writing : BOOLEAN, fields : Fields]
      /\ next_ticket' = next_ticket /\ tpc[t] = "publish" /\ SlotOf(t) \in Places
  BY PlaceOf, Zenon DEF TraceInv, TraceTypes, PublishEvent
<1>1. held.sequence = k + 1 /\ AreOf(held.fields, k)
  BY <1>0, Zenon DEF TraceInv, WritesOwn, AreOf
<1>2. slots' = [slots EXCEPT ![SlotOf(t)] = e]
  <2>1. slots' = [slots EXCEPT ![SlotOf(t)].sequence = tl[t].ticket + 1, ![SlotOf(t)].writing = FALSE]
    BY Zenon DEF PublishEvent
  <2>2. tl[t].ticket + 1 \in Nat
    BY <1>0, SMT
  <2>3. FALSE \in BOOLEAN
    BY Zenon
  <2> QED
    BY <1>0, <2>1, <2>2, <2>3, SequenceStored, Zenon
<1>3. /\ e \in [sequence : Nat, writing : BOOLEAN, fields : Fields]
      /\ e.sequence = held.sequence /\ ~e.writing /\ e.fields = held.fields
      /\ e.sequence >= held.sequence /\ e.sequence - 1 = k
  <2>1. k \in Nat /\ k + 1 \in Nat /\ k + 1 - 1 = k /\ k + 1 >= k + 1
    BY <1>0, SMT
  <2>2. /\ e \in [sequence : Nat, writing : BOOLEAN, fields : Fields]
        /\ e.sequence = k + 1 /\ ~e.writing /\ e.fields = held.fields
    BY <1>0, <2>1, Zenon
  <2>3. e.sequence - 1 = k
    BY <2>1, <2>2, SMT
  <2> QED
    BY <1>1, <2>1, <2>2, <2>3, Zenon
<1>4. \A u \in Tracers \ {t} : tpc[u] \in {"first", "second", "publish"} => SlotOf(u) # SlotOf(t)
  BY <1>0, Zenon DEF TraceInv, OneTracer
<1>5. TGo(t, "idle", NoTrace) /\ tpc'[t] = "idle"
  BY <1>0, Zenon DEF PublishEvent, TGo, TraceTypes
<1>6. WritesOwn(t)' /\ ReadsWhole(t)'
  BY <1>5, Zenon DEF WritesOwn, ReadsWhole
<1>7. "idle" \in TraceLabels /\ NoTrace \in [ticket : Nat, current : Nat, fields : Fields, stop : Nat]
  BY <1>0, TraceLocals, Zenon DEF TraceLabels
<1> HIDE DEF e
<1> QED
  BY <1>0, <1>1, <1>2, <1>3, <1>4, <1>5, <1>6, <1>7, StoreKeeps, ZenonT(30)

(* The steps of a dump that go on to the next event, or end it. *)
LEMMA VisitKeeps ==
  ASSUME TraceInv, NEW t \in Tracers, NullFault(t) \/ VisitSlot(t) \/ LogEvent(t) \/ EndDump(t)
  PROVE  TraceInv'
<1>0. /\ TraceTypes /\ next_ticket \in Nat
      /\ tl[t] \in [ticket : Nat, current : Nat, fields : Fields, stop : Nat]
      /\ slots[SlotOf(t)] \in [sequence : Nat, writing : BOOLEAN, fields : Fields]
      /\ SlotOf(t) \in Places
  BY PlaceOf, Zenon DEF TraceInv, TraceTypes
<1>1. CASE NullFault(t)
  <2> DEFINE first == IF next_ticket > HistoryCapacity THEN next_ticket - HistoryCapacity ELSE 0
  <2>1. first \in Nat
    BY <1>0, TraceAssumption, SMT DEF TraceAssumption
  <2> HIDE DEF first
  <2>2. [NoTrace EXCEPT !.ticket = first, !.stop = next_ticket]
          \in [ticket : Nat, current : Nat, fields : Fields, stop : Nat]
    BY <1>0, <2>1, TraceLocals, Zenon
  <2> QED
    BY <1>0, <1>1, <2>2, QuietKeeps, Zenon DEF NullFault, first
<1>2. CASE LogEvent(t) \/ EndDump(t)
  BY <1>0, <1>2, TraceLocals, QuietKeeps, Zenon DEF LogEvent, EndDump, NextTicket
<1>3. CASE VisitSlot(t) /\ ~IsExpected(t)
  BY <1>0, <1>3, TraceLocals, QuietKeeps, Zenon DEF VisitSlot, NextTicket
<1>4. CASE VisitSlot(t) /\ IsExpected(t)
  <2>1. TGo(t, "read 1", tl[t]) /\ slots' = slots /\ next_ticket' = next_ticket
    BY <1>4, Zenon DEF VisitSlot
  <2>2. tpc'[t] = "read 1" /\ tl'[t] = tl[t] /\ SlotOf(t)' = SlotOf(t)
    BY <1>0, <2>1, Zenon DEF TGo, TraceTypes, SlotOf
  <2>3. slots[SlotOf(t)].sequence = tl[t].ticket + 1 /\ ~slots[SlotOf(t)].writing
    BY <1>4, Zenon DEF IsExpected
  <2>4. /\ tl[t].ticket + 1 # 0 /\ tl[t].ticket + 1 - 1 = tl[t].ticket
        /\ tl[t].ticket + 1 >= tl[t].ticket + 1
    BY <1>0, SMT
  <2>5. AreOf(slots[SlotOf(t)].fields, tl[t].ticket)
    <3>1. SlotWhole(SlotOf(t))
      BY <1>0, Zenon DEF TraceInv
    <3>2. AreOf(slots[SlotOf(t)].fields, slots[SlotOf(t)].sequence - 1)
      BY <2>3, <2>4, <3>1, Zenon DEF SlotWhole
    <3>3. slots[SlotOf(t)].sequence - 1 = tl[t].ticket
      BY <1>0, <2>3, SMT
    <3> QED
      BY <3>2, <3>3, Zenon
  <2>6. WritesOwn(t)' /\ ReadsWhole(t)'
    BY <2>1, <2>2, <2>3, <2>4, <2>5, Zenon DEF WritesOwn, ReadsWhole
  <2>7. "read 1" \in TraceLabels \ {"first", "second", "publish"}
    BY Zenon DEF TraceLabels
  <2> QED
    BY <1>0, <2>1, <2>6, <2>7, LocalKeeps, Zenon
<1> QED
  BY <1>1, <1>2, <1>3, <1>4, Zenon

(* The reads of the fields, and the second look at the sequence. *)
LEMMA ReadKeeps ==
  ASSUME TraceInv, NEW t \in Tracers,
         \/ ReadField(t, "read 1", 1, "read 2") \/ ReadField(t, "read 2", 2, "recheck")
         \/ Recheck(t)
  PROVE  TraceInv'
<1>0. /\ TraceTypes /\ next_ticket \in Nat
      /\ tl[t] \in [ticket : Nat, current : Nat, fields : Fields, stop : Nat]
      /\ slots[SlotOf(t)] \in [sequence : Nat, writing : BOOLEAN, fields : Fields]
      /\ SlotOf(t) \in Places
  BY PlaceOf, Zenon DEF TraceInv, TraceTypes
<1>1. ReadsWhole(t)
  BY Zenon DEF TraceInv
<1>2. CASE Recheck(t) /\ ~IsExpected(t)
  BY <1>0, <1>2, TraceLocals, QuietKeeps, Zenon DEF Recheck, NextTicket
<1>3. CASE Recheck(t) /\ IsExpected(t)
  <2>1. TGo(t, "log", tl[t]) /\ slots' = slots /\ next_ticket' = next_ticket /\ tpc[t] = "recheck"
    BY <1>3, Zenon DEF Recheck
  <2>2. tpc'[t] = "log" /\ tl'[t] = tl[t]
    BY <1>0, <2>1, Zenon DEF TGo, TraceTypes
  <2>3. AreOf(tl[t].fields, tl[t].ticket)
    BY <1>1, <1>3, <2>1, Zenon DEF ReadsWhole, IsExpected, AreOf
  <2>4. WritesOwn(t)' /\ ReadsWhole(t)'
    BY <2>2, <2>3, Zenon DEF WritesOwn, ReadsWhole
  <2>5. "log" \in TraceLabels \ {"first", "second", "publish"}
    BY Zenon DEF TraceLabels
  <2> QED
    BY <1>0, <2>1, <2>4, <2>5, LocalKeeps, Zenon
<1>4. ASSUME NEW i \in 1..2, NEW here, NEW label, ReadField(t, here, i, label),
             (i = 1 /\ here = "read 1" /\ label = "read 2")
               \/ (i = 2 /\ here = "read 2" /\ label = "recheck")
      PROVE  TraceInv'
  <2> DEFINE held == slots[SlotOf(t)]
             f == Stored(tl[t].fields, i, held.fields[i])
             l == [tl[t] EXCEPT !.fields = f]
  <2>1. TGo(t, label, l) /\ slots' = slots /\ next_ticket' = next_ticket /\ tpc[t] = here
    BY <1>4, Zenon DEF ReadField, Stored
  <2>2. held.fields[i] \in Int /\ tl[t].fields \in Fields
    <3>1. held.fields \in Fields /\ tl[t].fields \in Fields
      BY <1>0, Zenon
    <3> QED
      BY <3>1, Zenon DEF Fields
  <2>3. /\ f \in Fields /\ f[i] = held.fields[i]
        /\ \A j \in 1..2 \ {i} : f[j] = tl[t].fields[j]
    BY <2>2, FieldStored, ZenonT(30)
  <2>4. /\ l \in [ticket : Nat, current : Nat, fields : Fields, stop : Nat]
        /\ l.ticket = tl[t].ticket /\ l.fields = f
    BY <1>0, <2>3, Zenon
  <2> HIDE DEF f, l
  <2>5. tpc'[t] = label /\ tl'[t] = l /\ SlotOf(t)' = SlotOf(t)
    BY <1>0, <2>1, <2>4, Zenon DEF TGo, TraceTypes, SlotOf
  <2>6. /\ held.sequence >= tl[t].ticket + 1
        /\ held.sequence = tl[t].ticket + 1 =>
             /\ AreOf(held.fields, tl[t].ticket)
             /\ here # "read 1" => tl[t].fields[1] = tl[t].ticket
    BY <1>1, <1>4, <2>1, Zenon DEF ReadsWhole
  <2>7. ASSUME held.sequence = tl[t].ticket + 1
        PROVE  f[1] = tl[t].ticket /\ (label = "recheck" => f[2] = tl[t].ticket)
    <3>1. CASE i = 1 /\ label = "read 2"
      BY <2>3, <2>6, <2>7, <3>1, Zenon DEF AreOf
    <3>2. CASE i = 2 /\ label = "recheck" /\ here = "read 2"
      BY <2>3, <2>6, <2>7, <3>2, FieldPairs, Zenon DEF AreOf
    <3> QED
      BY <1>4, <3>1, <3>2, Zenon
  <2>8. WritesOwn(t)' /\ ReadsWhole(t)'
    <3>1. label \in {"read 2", "recheck"}
      BY <1>4, Zenon
    <3> QED
      BY <2>1, <2>4, <2>5, <2>6, <2>7, <3>1, Zenon DEF WritesOwn, ReadsWhole
  <2>9. label \in TraceLabels \ {"first", "second", "publish"}
    BY <1>4, Zenon DEF TraceLabels
  <2> QED
    BY <1>0, <2>1, <2>4, <2>8, <2>9, LocalKeeps, Zenon
<1>5. 1 \in 1..2 /\ 2 \in 1..2
  BY FieldPairs, Zenon
<1> QED
  BY <1>2, <1>3, <1>4, <1>5, Zenon

(* Whatever the handlers, the dumps and a fork do, a slot holds one event, and *)
(* a reader that lost its slot learns it from the sequence.                    *)
LEMMA TraceNextKeeps == TraceInv /\ [TraceNext]_traceVars => TraceInv'
<1> SUFFICES ASSUME TraceInv, [TraceNext]_traceVars PROVE TraceInv'
  BY Zenon
<1>1. CASE UNCHANGED traceVars
  BY <1>1, Zenon DEF traceVars, TraceInv, TraceTypes, OneTracer, SlotWhole, WritesOwn, ReadsWhole, SlotOf
<1>2. ASSUME NEW t \in Tracers, TraceFork(t) PROVE TraceInv'
  <2>1. /\ slots' = slots /\ next_ticket' = next_ticket
        /\ \A u \in Tracers : tpc'[u] \in {"idle", "gone"}
    BY <1>2, Zenon DEF TraceFork
  <2>2. TraceTypes /\ \A i \in Places : SlotWhole(i)
    BY Zenon DEF TraceInv
  <2>3. NoTrace \in [ticket : Nat, current : Nat, fields : Fields, stop : Nat]
    BY <1>2, <2>2, PlaceOf, TraceLocals, Zenon DEF TraceTypes
  <2>4. TraceTypes'
    BY <1>2, <2>1, <2>2, <2>3, Zenon DEF TraceTypes, TraceFork, TraceLabels
  <2>5. OneTracer' /\ \A u \in Tracers : WritesOwn(u)' /\ ReadsWhole(u)'
    BY <2>1, Zenon DEF OneTracer, WritesOwn, ReadsWhole
  <2>6. \A i \in Places : SlotWhole(i)'
    BY <2>1, <2>2, Zenon DEF SlotWhole
  <2> QED
    BY <2>4, <2>5, <2>6, Zenon DEF TraceInv
<1> QED
  BY <1>1, <1>2, RecordKeeps, OwnKeeps, StoreFieldKeeps, PublishKeeps, VisitKeeps, ReadKeeps, Zenon
     DEF TraceNext, TraceStep

(* A contended slot drops "this sample instead of publishing a mixed record":  *)
(* for any number of handlers, slots and events, and with forks, visit_recent  *)
(* only logs an event that one record call wrote and that has the ticket it    *)
(* asked for, and a slot has one writer.                                       *)
THEOREM DumpsAreWhole == TraceSpec => []DumpedEventsAreWhole
<1>1. TraceInit => TraceInv
  <2> SUFFICES ASSUME TraceInit PROVE TraceInv
    BY Zenon
  <2>1. NoTrace.fields \in Fields /\ 0 \in Nat
    BY FieldPairs, SMT
  <2>2. NoTrace \in [ticket : Nat, current : Nat, fields : Fields, stop : Nat] /\ <<-1, -1>> \in Fields
    BY <2>1, Zenon DEF NoTrace
  <2>3. TraceTypes
    BY <2>1, <2>2, Zenon DEF TraceInit, TraceTypes, TraceLabels, Places
  <2>4. OneTracer /\ \A t \in Tracers : WritesOwn(t) /\ ReadsWhole(t)
    BY Zenon DEF TraceInit, OneTracer, WritesOwn, ReadsWhole
  <2>5. \A i \in Places : SlotWhole(i)
    BY Zenon DEF TraceInit, SlotWhole, Places
  <2> QED
    BY <2>3, <2>4, <2>5, Zenon DEF TraceInv
<1>2. TraceInv => DumpedEventsAreWhole
  <2> SUFFICES ASSUME TraceInv PROVE DumpedEventsAreWhole
    BY Zenon
  <2>1. ASSUME NEW t \in Tracers, tpc[t] = "log" PROVE tl[t].fields = <<tl[t].ticket, tl[t].ticket>>
    <3>1. tl[t] \in [ticket : Nat, current : Nat, fields : Fields, stop : Nat]
      BY Zenon DEF TraceInv, TraceTypes
    <3>2. tl[t].fields \in Fields /\ tl[t].ticket \in Int
      BY <3>1, SMT
    <3>3. AreOf(tl[t].fields, tl[t].ticket)
      BY <2>1, Zenon DEF TraceInv, ReadsWhole
    <3> QED
      BY <3>2, <3>3, FieldsOf, Zenon
  <2> QED
    BY <2>1, Zenon DEF DumpedEventsAreWhole, TraceInv, OneTracer
<1> QED
  BY <1>1, <1>2, TraceNextKeeps, PTL DEF TraceSpec
=============================================================================
