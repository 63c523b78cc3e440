-------------------------- MODULE CpuidTrapProofs ---------------------------
(***************************************************************************)
(* The properties of the CPUID trap, for any number of threads, mappings and  *)
(* cells.  The invariant has three parts that do not need each other: an      *)
(* entry of CallerCache is whole whenever its sequence is even, and a reader  *)
(* holds what it read as long as the sequence is the one it began with; the   *)
(* cells of NativeCache below its length are of one leaf each; and until a    *)
(* system call fails, whatever artifact_module_newly_mapped has on record, or *)
(* is about to put there, is older than the mapping of artifact.dll.          *)
(***************************************************************************)
EXTENDS CpuidTrap, TLAPS

-----------------------------------------------------------------------------
(* Types *)

InsertLabels == {"ins_odd", "ins_start", "ins_end", "ins_kind", "ins_even", "ins_unlock"}
RecordLabels == {"nat_key", "nat_regs", "nat_len", "nat_unlock"}
Labels ==
  {"idle", "gone", "cfg_load", "cfg_cas", "sel_load", "sel_cas", "sel_store",
   "lookup", "start", "end", "kind", "check", "classify", "search", "insert", "present", "vendor",
   "generation", "fresh_generation", "fresh_ms", "scan", "store_ms", "store_generation", "choose",
   "answer", "native", "cpuid", "nat_lock", "answered", "note"} \cup InsertLabels \cup RecordLabels

Words == {encode(i) : i \in Identities}
Asked == Leaves \cup {"none"}
Registers == [leaf : Asked, core : Nat]
Rows == {"zeros", "unknown legacy", "intel avx", "intel", "amd legacy", "amd avx", "amd",
         "modern brand", "intel brand", "amd brand", "Intel", "Amd"}
Replies == {"none", "native", "artifact", "consumed"} \cup Rows
Locals == [ leaf : Asked, rip : Nat, kind : Kinds, cell : Cells, seq : Nat, start : Nat, end : Nat,
            raw : Words, next : Words, vendor : Vendors, generation : Nat, now : Nat, due : BOOLEAN,
            regs : Registers, core : Nat, reply : Replies ]
Entry == [seq : Nat, start : Nat, end : Nat, kind : Kinds]

(* A thread that runs nothing has no locals, and one that only configures has  *)
(* no leaf.                                                                    *)
Rests(t) ==
  /\ pc[t] = "idle" => loc[t] = NoLocal
  /\ pc[t] \in {"cfg_load", "cfg_cas"} => loc[t].leaf = "none"

SharedTypes ==
  /\ raw_identity \in Words
  /\ entries \in [Cells -> Entry] /\ entries_next \in 0..CallerCap
  /\ native \in [1..NativeCap -> [key : Asked, regs : Registers]] /\ native_len \in 0..NativeCap
  /\ scan_generation \in Int /\ scan_ms \in Nat /\ generation \in Nat /\ clock \in Nat
  /\ image \in [since : Nat \cup {Never}, counted : BOOLEAN]
  /\ workload \in Workloads /\ left \in Bounds /\ left.failures <= workload.bounds.failures
ThreadTypes ==
  /\ pc \in [Threads -> Labels] /\ loc \in [Threads -> Locals]
  /\ \A t \in Threads : Rests(t)
TrapTypes == SharedTypes /\ ThreadTypes

-----------------------------------------------------------------------------
(* The cache of callers *)

(* The kind is one that classify_caller gives a caller in m. *)
IsKindOf(m, kind) == kind = m.path \/ (m.path = "Ordinary" /\ kind = m.image)
IsRangeOf(m, e) == e.start = m.start /\ e.end = m.end

(* An entry that can be read matches nobody, or one mapping. *)
IsWhole(e) == (e.start = 0 /\ e.end = 0) \/ \E m \in Mappings : IsRangeOf(m, e) /\ IsKindOf(m, e.kind)

(* One thread inserts; the entry it writes is odd while it is not whole. *)
InsertsOwn ==
  /\ \A t \in Threads : pc[t] \in InsertLabels => entries_lock
  /\ \A t, u \in Threads : pc[t] \in InsertLabels /\ pc[u] \in InsertLabels => t = u
EntriesAreWhole ==
  /\ \A c \in Cells : entries[c].seq % 2 = 0 => IsWhole(entries[c])
  /\ ~entries_lock => \A c \in Cells : entries[c].seq % 2 = 0

Inserts(t) ==
  /\ pc[t] = "search" => \E m \in MappingsAt(loc[t].rip) : IsRangeOf(m, loc[t]) /\ m.path = "Ordinary"
  /\ pc[t] \in InsertLabels \cup {"insert"} =>
       \E m \in MappingsAt(loc[t].rip) : IsRangeOf(m, loc[t]) /\ IsKindOf(m, loc[t].kind)
  /\ pc[t] \in {"ins_odd", "ins_unlock"} => \A c \in Cells : entries[c].seq % 2 = 0
  /\ pc[t] \in {"ins_start", "ins_end", "ins_kind", "ins_even"} =>
       /\ Cell(t).seq % 2 = 1 /\ \A c \in Cells \ {loc[t].cell} : entries[c].seq % 2 = 0
  /\ pc[t] \in {"ins_end", "ins_kind", "ins_even"} => Cell(t).start = loc[t].start
  /\ pc[t] \in {"ins_kind", "ins_even"} => Cell(t).end = loc[t].end
  /\ pc[t] = "ins_even" => Cell(t).kind = loc[t].kind

(* What a reader may rely on while the entry has the sequence it began with. *)
Looks(t) ==
  pc[t] \in {"start", "end", "kind", "check"} =>
    /\ loc[t].seq % 2 = 0 /\ loc[t].seq <= Cell(t).seq
    /\ Cell(t).seq = loc[t].seq =>
         /\ pc[t] # "start" => loc[t].start = Cell(t).start
         /\ pc[t] \in {"kind", "check"} => loc[t].end = Cell(t).end
         /\ pc[t] = "check" => loc[t].kind = Cell(t).kind

(* A kind for a caller at this address, if no system call failed. *)
Suits(rip, kind) ==
  (\E m \in MappingsAt(rip) : IsKindOf(m, kind)) \/ (kind = "Ordinary" /\ MappingsAt(rip) = {})
Classified == {"present", "sel_load", "sel_cas", "sel_store", "vendor"}
IsClassified(t) ==
  pc[t] \in Classified /\ loc[t].leaf # "none" =>
    Suits(loc[t].rip, loc[t].kind) \/ (loc[t].kind = "Ordinary" /\ Failed)

CallerInv ==
  /\ InsertsOwn /\ EntriesAreWhole
  /\ \A t \in Threads : Inserts(t) /\ Looks(t) /\ IsClassified(t)

-----------------------------------------------------------------------------
(* The cache of native replies *)

(* One thread records; the cells below the length are of one leaf. *)
RecordsOwn ==
  /\ \A t \in Threads : pc[t] \in RecordLabels => native_lock
  /\ \A t, u \in Threads : pc[t] \in RecordLabels /\ pc[u] \in RecordLabels => t = u
CellsAreWhole == \A n \in 1..native_len : native[n].regs.leaf = native[n].key

Records(t) ==
  /\ pc[t] \in RecordLabels \cup {"nat_lock"} => loc[t].regs.leaf = loc[t].leaf /\ ~leaf_varies_per_core(loc[t].leaf)
  /\ pc[t] \in {"nat_key", "nat_regs", "nat_len"} => native_len < NativeCap
  /\ pc[t] \in {"nat_regs", "nat_len"} => native[native_len + 1].key = loc[t].leaf
  /\ pc[t] = "nat_len" => native[native_len + 1].regs = loc[t].regs

IsAnswered(t) ==
  pc[t] = "answered" /\ loc[t].reply = "native" =>
    \/ loc[t].regs = NoRegisters /\ Failed
    \/ /\ loc[t].regs.leaf = loc[t].leaf
       /\ leaf_varies_per_core(loc[t].leaf) => loc[t].regs.core = loc[t].core

NativeInv ==
  /\ RecordsOwn /\ CellsAreWhole
  /\ \A t \in Threads : Records(t) /\ IsAnswered(t)

-----------------------------------------------------------------------------
(* The artifact profile, as long as no system call failed *)

Mapped == image.since # Never
Negative(t) == pc[t] \in {"store_ms", "store_generation"}
Told == {"native", "cpuid", "nat_lock", "answered"} \cup RecordLabels   \* after fixed_reply

(* What was scanned, or is about to be recorded as scanned, is in the past; a  *)
(* negative scan is older than the mapping.                                    *)
ScansAreOld ==
  /\ scan_generation <= generation /\ scan_ms <= clock
  /\ \A t \in Threads : loc[t].generation <= generation /\ loc[t].now <= clock
  /\ image.counted => Mapped
  /\ Mapped => /\ image.since <= clock /\ scan_ms <= image.since
               /\ \A t \in Threads : Negative(t) => loc[t].now <= image.since
  /\ image.counted => /\ scan_generation < generation
                      /\ \A t \in Threads : Negative(t) => loc[t].generation < generation

(* A reader that is due will not take a negative scan for an answer: for it    *)
(* has a later generation, or because the interval is over.                    *)
Newer(t) ==
  /\ scan_generation < loc[t].generation
  /\ \A u \in Threads : Negative(u) => loc[u].generation < loc[t].generation
Later(t) == loc[t].now - image.since >= RescanInterval

Artifacts(t) ==
  /\ pc[t] = "note" /\ loc[t].kind = "Artifact" => Mapped
  /\ loc[t].due =>
       /\ ArtifactDue /\ Mapped /\ ~Negative(t)
       /\ pc[t] = "fresh_generation" => Newer(t) \/ Later(t)
       /\ pc[t] = "fresh_ms" => Later(t)
       /\ HasArtifactReply(loc[t].vendor, loc[t].leaf) =>
            /\ pc[t] = "answer" => artifact
            /\ pc[t] \in Told => loc[t].reply = "artifact"

ProfileIsDue == ScansAreOld /\ \A t \in Threads : Artifacts(t)
ArtifactInv == ~Failed => ProfileIsDue

TrapInv == TrapTypes /\ CallerInv /\ NativeInv /\ ArtifactInv

-----------------------------------------------------------------------------
(* The identity and its word *)

(* Taking the three fields of an identity apart. *)
LEMMA WordDigits ==
  ASSUME NEW b \in {0, 1, 2}, NEW x \in {0, 4}, NEW y \in {0, 8}
  PROVE  /\ b + x + y \in Nat
         /\ (b + x + y) % 4 = b
         /\ ((b + x + y) \div 4) % 2 = 1 <=> x = 4
         /\ ((b + x + y) \div 8) % 2 = 0 <=> y = 0
  BY SMT

(* decode gives back what encode packed. *)
LEMMA DecodeEncode ==
  ASSUME NEW i \in Identities
  PROVE  decode(encode(i)) = i
<1> DEFINE b == VendorBits[i.vendor]
           x == IF i.avx THEN 4 ELSE 0
           y == IF i.presentation = "Legacy" THEN 8 ELSE 0
           raw == b + x + y
<1>1. i.vendor \in Vendors /\ i.avx \in BOOLEAN /\ i.presentation \in {"Denuvo", "Legacy"}
  BY Zenon DEF Identities
<1>2. /\ b \in {0, 1, 2} /\ (b = 1 <=> i.vendor = "Intel") /\ (b = 2 <=> i.vendor = "Amd")
  <2>1. VendorBits["Unknown"] = 0 /\ VendorBits["Intel"] = 1 /\ VendorBits["Amd"] = 2
    BY Zenon DEF VendorBits
  <2>2. 0 # 1 /\ 0 # 2 /\ 1 # 2
    BY SMT
  <2> QED
    BY <1>1, <2>1, <2>2, Zenon DEF Vendors
<1>3. x \in {0, 4} /\ y \in {0, 8} /\ (x = 4 <=> i.avx) /\ (y = 0 <=> i.presentation = "Denuvo")
  <2>1. 0 # 4 /\ 0 # 8
    BY SMT
  <2> QED
    BY <1>1, <2>1, Zenon
<1> HIDE DEF b, x, y
<1>4. raw % 4 = b /\ ((raw \div 4) % 2 = 1 <=> x = 4) /\ ((raw \div 8) % 2 = 0 <=> y = 0)
  BY <1>2, <1>3, WordDigits, ZenonT(30)
<1>5. encode(i) = raw
  BY Zenon DEF encode, b, x, y
<1> HIDE DEF raw
<1>6. /\ decode(raw).vendor = i.vendor /\ decode(raw).avx = i.avx /\ decode(raw).presentation = i.presentation
  <2>1. decode(raw).vendor = IF b = 1 THEN "Intel" ELSE IF b = 2 THEN "Amd" ELSE "Unknown"
    BY <1>4, Zenon DEF decode
  <2>2. decode(raw).avx = ((raw \div 4) % 2 = 1)
    BY Zenon DEF decode
  <2>3. decode(raw).presentation = IF (raw \div 8) % 2 = 0 THEN "Denuvo" ELSE "Legacy"
    BY Zenon DEF decode
  <2>4. decode(raw).vendor = i.vendor
    <3>1. CASE i.vendor = "Intel"
      BY <1>2, <2>1, <3>1, Zenon
    <3>2. CASE i.vendor = "Amd"
      <4>1. b # 1 /\ b = 2
        BY <1>2, <3>2, Zenon
      <4> QED
        BY <2>1, <3>2, <4>1, Zenon
    <3>3. CASE i.vendor = "Unknown"
      <4>1. b # 1 /\ b # 2
        BY <1>2, <3>3, Zenon
      <4> QED
        BY <2>1, <3>3, <4>1, Zenon
    <3> QED
      BY <1>1, <3>1, <3>2, <3>3, Zenon DEF Vendors
  <2>5. decode(raw).presentation = i.presentation
    BY <1>1, <1>3, <1>4, <2>3, Zenon
  <2>6. decode(raw).avx = i.avx
    BY <1>1, <1>3, <1>4, <2>2, Zenon
  <2> QED
    BY <2>4, <2>5, <2>6, Zenon
<1>7. decode(raw) = [vendor |-> decode(raw).vendor, avx |-> decode(raw).avx, presentation |-> decode(raw).presentation]
  BY Zenon DEF decode
<1>8. i = [vendor |-> i.vendor, avx |-> i.avx, presentation |-> i.presentation]
  BY Zenon DEF Identities
<1> QED
  BY <1>5, <1>6, <1>7, <1>8, Zenon

(* A word holds an identity; changing its presentation gives a word again. *)
LEMMA WordsHold ==
  ASSUME NEW raw \in Words
  PROVE  /\ decode(raw) \in Identities
         /\ \A p \in {"Denuvo", "Legacy"} :
              LET i == [decode(raw) EXCEPT !.presentation = p] IN
              encode(i) \in Words /\ decode(encode(i)) = i /\ i.presentation = p
<1>1. PICK i \in Identities : raw = encode(i)
  BY Zenon DEF Words
<1>2. decode(raw) = i
  BY <1>1, DecodeEncode, Zenon
<1>3. ASSUME NEW p \in {"Denuvo", "Legacy"}
      PROVE  [i EXCEPT !.presentation = p] \in Identities /\ [i EXCEPT !.presentation = p].presentation = p
  BY Zenon DEF Identities
<1> QED
  BY <1>2, <1>3, DecodeEncode, Zenon DEF Words

(* A host that configure_host is told of. *)
LEMMA HostsHold ==
  ASSUME NEW host \in [vendor : Vendors, avx : BOOLEAN]
  PROVE  encode(denuvo(host)) \in Words
  BY Zenon DEF denuvo, Words, Identities

(* What the tables answer. *)
LEMMA TablesAnswer ==
  ASSUME NEW i \in Identities, NEW leaf
  PROVE  fixed_reply(i, leaf) \in Rows \cup {"none"}
<1>1. i.vendor \in Vendors
  BY Zenon DEF Identities
<1>2. leaf1(i) \in Rows
  <2>1. CASE i.vendor = "Unknown"
    BY <2>1, Zenon DEF leaf1, Rows
  <2>2. CASE i.vendor = "Intel"
    BY <2>2, Zenon DEF leaf1, Rows
  <2>3. CASE i.vendor = "Amd"
    BY <2>3, Zenon DEF leaf1, Rows
  <2> QED
    BY <1>1, <2>1, <2>2, <2>3, Zenon DEF Vendors
<1>3. CASE leaf = "one"
  BY <1>2, <1>3, Zenon DEF fixed_reply
<1>4. CASE leaf = "brand"
  BY <1>4, Zenon DEF fixed_reply, Rows
<1>5. CASE leaf = "hypervisor"
  BY <1>1, <1>5, Zenon DEF fixed_reply, Rows, Vendors
<1>6. CASE leaf \notin {"one", "brand", "hypervisor"}
  BY <1>6, Zenon DEF fixed_reply
<1> QED
  BY <1>3, <1>4, <1>5, <1>6, Zenon

(* The empty locals. *)
LEMMA EmptyLocals == 0 \in Words /\ 0 \in Cells /\ NoRegisters \in Registers /\ NoLocal \in Locals
<1>1. 0 \in Words
  <2> DEFINE i == [vendor |-> "Unknown", avx |-> FALSE, presentation |-> "Denuvo"]
  <2>1. i \in Identities
    BY Zenon DEF Identities, Vendors
  <2>2. VendorBits["Unknown"] = 0 /\ 0 + 0 + 0 = 0
    BY SMT DEF VendorBits
  <2>3. encode(i) = VendorBits["Unknown"] + 0 + 0
    BY Zenon DEF encode
  <2> QED
    BY <2>1, <2>2, <2>3, Zenon DEF Words
<1>2. 0 \in Cells /\ 0 \in Nat
  BY CpuidAssumption, SMT DEF CpuidAssumption, Cells
<1>3. NoRegisters \in Registers
  BY <1>2, Zenon DEF NoRegisters, Registers, Asked
<1>4. "none" \in Asked /\ "Ordinary" \in Kinds /\ "Unknown" \in Vendors /\ "none" \in Replies
  <2>1. "none" \in Asked
    BY Zenon DEF Asked
  <2>2. "Ordinary" \in Kinds /\ "Unknown" \in Vendors
    BY Zenon DEF Kinds, Vendors
  <2>3. "none" \in Replies
    BY Zenon DEF Replies
  <2> QED
    BY <2>1, <2>2, <2>3, Zenon
<1> QED
  BY <1>1, <1>2, <1>3, <1>4, Zenon DEF NoLocal, Locals

-----------------------------------------------------------------------------
(* Every step keeps the types *)

(* The ways in which the code updates its locals. *)
LEMMA LocalsKept ==
  ASSUME NEW l \in Locals
  PROVE  /\ \A w \in Words : [l EXCEPT !.raw = w] \in Locals /\ [l EXCEPT !.next = w] \in Locals
         /\ \A n \in Nat : /\ [l EXCEPT !.seq = n] \in Locals
                           /\ [l EXCEPT !.start = n] \in Locals
                           /\ [l EXCEPT !.end = n] \in Locals
         /\ \A k \in Kinds : [l EXCEPT !.kind = k] \in Locals
         /\ \A c \in Cells : [l EXCEPT !.cell = c] \in Locals
         /\ \A r \in Replies : [l EXCEPT !.reply = r] \in Locals
         /\ \A r \in Registers : [l EXCEPT !.regs = r] \in Locals
         /\ \A r \in Registers, s \in Replies : [l EXCEPT !.regs = r, !.reply = s] \in Locals
         /\ \A g, n \in Nat : [l EXCEPT !.generation = g, !.now = n] \in Locals
         /\ \A k \in Kinds, s, e \in Nat : [l EXCEPT !.kind = k, !.start = s, !.end = e] \in Locals
         /\ \A v \in Vendors : [l EXCEPT !.vendor = v, !.kind = "Ordinary", !.rip = 0] \in Locals
         /\ [l EXCEPT !.cell = 0, !.seq = 0, !.start = 0, !.end = 0] \in Locals
         /\ [l EXCEPT !.seq = 0, !.start = 0, !.end = 0, !.cell = 0] \in Locals
         /\ \A a \in Asked, b \in BOOLEAN : [l EXCEPT !.leaf = a, !.due = b] \in Locals
         /\ \A a \in Asked, p, c \in Nat, b \in BOOLEAN :
              [l EXCEPT !.leaf = a, !.rip = p, !.core = c, !.due = b] \in Locals
<1>1. 0 \in Nat /\ 0 \in Cells /\ "Ordinary" \in Kinds
  BY EmptyLocals, SMT DEF Kinds
<1>2. \A w \in Words : [l EXCEPT !.raw = w] \in Locals /\ [l EXCEPT !.next = w] \in Locals
  BY Zenon DEF Locals
<1>3. \A n \in Nat : [l EXCEPT !.seq = n] \in Locals /\ [l EXCEPT !.start = n] \in Locals /\ [l EXCEPT !.end = n] \in Locals
  BY Zenon DEF Locals
<1>4. \A k \in Kinds : [l EXCEPT !.kind = k] \in Locals
  BY Zenon DEF Locals
<1>5. \A c \in Cells : [l EXCEPT !.cell = c] \in Locals
  BY Zenon DEF Locals
<1>6. \A r \in Replies : [l EXCEPT !.reply = r] \in Locals
  BY Zenon DEF Locals
<1>7. \A r \in Registers : [l EXCEPT !.regs = r] \in Locals
  BY Zenon DEF Locals
<1>8. \A r \in Registers, s \in Replies : [l EXCEPT !.regs = r, !.reply = s] \in Locals
  BY Zenon DEF Locals
<1>9. \A g, n \in Nat : [l EXCEPT !.generation = g, !.now = n] \in Locals
  BY Zenon DEF Locals
<1>10. \A k \in Kinds, s, e \in Nat : [l EXCEPT !.kind = k, !.start = s, !.end = e] \in Locals
  BY Zenon DEF Locals
<1>11. \A v \in Vendors : [l EXCEPT !.vendor = v, !.kind = "Ordinary", !.rip = 0] \in Locals
  BY <1>1, Zenon DEF Locals
<1>12. [l EXCEPT !.cell = 0, !.seq = 0, !.start = 0, !.end = 0] \in Locals
  BY <1>1, Zenon DEF Locals
<1>13. [l EXCEPT !.seq = 0, !.start = 0, !.end = 0, !.cell = 0] \in Locals
  BY <1>1, Zenon DEF Locals
<1>14. \A a \in Asked, b \in BOOLEAN : [l EXCEPT !.leaf = a, !.due = b] \in Locals
  BY Zenon DEF Locals
<1>15. \A a \in Asked, p, c \in Nat, b \in BOOLEAN : [l EXCEPT !.leaf = a, !.rip = p, !.core = c, !.due = b] \in Locals
  BY ZenonT(30) DEF Locals
<1> QED
  BY <1>2, <1>3, <1>4, <1>5, <1>6, <1>7, <1>8, <1>9, <1>10, <1>11, <1>12, <1>13, <1>14, <1>15, Zenon

(* Thread t goes on; the others stay where they are. *)
Moves(t) ==
  \E label \in Labels, l \in Locals :
    /\ Goto(t, label) /\ Set(t, l)
    /\ label = "idle" => l = NoLocal
    /\ label \in {"cfg_load", "cfg_cas"} => l.leaf = "none"

(* ... and that is what changes for the threads. *)
Frame(t) ==
  /\ pc'[t] \in Labels /\ loc'[t] \in Locals
  /\ \A u \in Threads \ {t} : pc'[u] = pc[u] /\ loc'[u] = loc[u]

(* A step of one thread keeps the types of all. *)
LEMMA MovesKeep ==
  ASSUME ThreadTypes, NEW t \in Threads, Moves(t)
  PROVE  ThreadTypes' /\ Frame(t)
<1>1. PICK label \in Labels, l \in Locals :
        /\ Goto(t, label) /\ Set(t, l)
        /\ label = "idle" => l = NoLocal
        /\ label \in {"cfg_load", "cfg_cas"} => l.leaf = "none"
  BY Zenon DEF Moves
<1>2. pc \in [Threads -> Labels] /\ loc \in [Threads -> Locals]
  BY Zenon DEF ThreadTypes
<1>3. pc'[t] = label /\ loc'[t] = l /\ \A u \in Threads \ {t} : pc'[u] = pc[u] /\ loc'[u] = loc[u]
  BY <1>1, <1>2, Zenon DEF Goto, Set
<1>4. pc' \in [Threads -> Labels] /\ loc' \in [Threads -> Locals]
  BY <1>1, <1>2, Zenon DEF Goto, Set
<1>5. \A u \in Threads : Rests(u)'
  <2>1. Rests(t)'
    BY <1>1, <1>3, Zenon DEF Rests
  <2>2. \A u \in Threads \ {t} : Rests(u)'
    BY <1>3, Zenon DEF ThreadTypes, Rests
  <2> QED
    BY <2>1, <2>2, Zenon
<1> QED
  BY <1>3, <1>4, <1>5, Zenon DEF ThreadTypes, Frame

(* Counting down one of the bounds. *)
LEMMA CountKeeps ==
  ASSUME left \in Bounds,
         NEW what \in {"traps", "configs", "mappings", "ticks", "forks", "failures"}, Count(what)
  PROVE  /\ left' \in Bounds /\ left'.failures <= left.failures
         /\ what # "failures" => left'.failures = left.failures
         /\ what = "failures" => left'.failures < left.failures
<1>1. left[what] \in Nat
  BY Zenon DEF Bounds
<1>2. left[what] > 0 /\ left' = [left EXCEPT ![what] = left[what] - 1]
  BY Zenon DEF Count
<1>3. left[what] - 1 \in Nat /\ left[what] - 1 < left[what]
  BY <1>1, <1>2, SMT
<1> DEFINE n == left[what] - 1
<1> HIDE DEF n
<1>4. left' = [left EXCEPT ![what] = n] /\ n \in Nat
  BY <1>2, <1>3, Zenon DEF n
<1>5. left' \in Bounds
  BY <1>4, Zenon DEF Bounds
<1>6. CASE what = "failures"
  <2>1. left'.failures = n /\ n < left.failures
    BY <1>3, <1>4, <1>6, Zenon DEF Bounds, n
  <2>2. left.failures \in Nat
    BY Zenon DEF Bounds
  <2>3. n <= left.failures
    BY <1>4, <2>1, <2>2, SMT
  <2> QED
    BY <1>5, <1>6, <2>1, <2>3, Zenon
<1>7. CASE what # "failures"
  <2>1. left'.failures = left.failures /\ left.failures \in Nat
    BY <1>4, <1>7, Zenon DEF Bounds
  <2>2. left.failures <= left.failures
    BY <2>1, SMT
  <2> QED
    BY <1>5, <1>7, <2>1, <2>2, Zenon
<1> QED
  BY <1>6, <1>7, Zenon

(* What a thread and the caches hold has its types. *)
LEMMA LocalTypes ==
  ASSUME TrapTypes, NEW t \in Threads
  PROVE  /\ loc[t] \in Locals /\ pc[t] \in Labels /\ loc = [loc EXCEPT ![t] = loc[t]] /\ Cell(t) \in Entry
         /\ loc[t].leaf \in Asked /\ loc[t].rip \in Nat /\ loc[t].kind \in Kinds /\ loc[t].cell \in Cells
         /\ loc[t].seq \in Nat /\ loc[t].start \in Nat /\ loc[t].end \in Nat
         /\ loc[t].raw \in Words /\ loc[t].next \in Words /\ loc[t].vendor \in Vendors
         /\ loc[t].generation \in Nat /\ loc[t].now \in Nat /\ loc[t].due \in BOOLEAN
         /\ loc[t].regs \in Registers /\ loc[t].core \in Nat /\ loc[t].reply \in Replies
         /\ Cell(t).seq \in Nat /\ Cell(t).start \in Nat /\ Cell(t).end \in Nat /\ Cell(t).kind \in Kinds
<1>1. loc[t] \in Locals /\ pc[t] \in Labels /\ loc = [loc EXCEPT ![t] = loc[t]]
  BY Zenon DEF TrapTypes, ThreadTypes
<1>2. /\ loc[t].leaf \in Asked /\ loc[t].rip \in Nat /\ loc[t].kind \in Kinds /\ loc[t].cell \in Cells
      /\ loc[t].seq \in Nat /\ loc[t].start \in Nat /\ loc[t].end \in Nat
      /\ loc[t].raw \in Words /\ loc[t].next \in Words /\ loc[t].vendor \in Vendors
      /\ loc[t].generation \in Nat /\ loc[t].now \in Nat /\ loc[t].due \in BOOLEAN
      /\ loc[t].regs \in Registers /\ loc[t].core \in Nat /\ loc[t].reply \in Replies
  BY <1>1, Zenon DEF Locals
<1>3. Cell(t) \in Entry
  BY <1>2, Zenon DEF TrapTypes, SharedTypes, Cell
<1>4. Cell(t).seq \in Nat /\ Cell(t).start \in Nat /\ Cell(t).end \in Nat /\ Cell(t).kind \in Kinds
  BY <1>3, Zenon DEF Entry
<1> QED
  BY <1>1, <1>2, <1>3, <1>4, Zenon

(* A named step of t. *)
LEMMA GoesTo ==
  ASSUME NEW t \in Threads, NEW label \in Labels \ {"idle", "cfg_load", "cfg_cas"}, NEW l \in Locals,
         Goto(t, label), Set(t, l)
  PROVE  Moves(t)
  BY Zenon DEF Moves

(* The end of a call. *)
LEMMA GoesIdle ==
  ASSUME NEW t \in Threads, Goto(t, "idle"), Set(t, NoLocal)
  PROVE  Moves(t)
<1>1. "idle" \in Labels
  BY Zenon DEF Labels
<1> QED
  BY <1>1, EmptyLocals, Zenon DEF Moves

(* The first steps of a call. *)
LEMMA StartsMove ==
  ASSUME TrapTypes, NEW t \in Threads,
         \/ StartLegacy(t) \/ MapFile(t)
         \/ \E host \in workload.hosts : StartConfigure(t, host)
         \/ \E leaf \in workload.calls : GetFixedReply(t, leaf)
         \/ \E trap \in workload.traps, core \in workload.cores : Trap(t, trap, core)
  PROVE  Moves(t)
<1>1. workload \in Workloads /\ loc[t] \in Locals /\ loc = [loc EXCEPT ![t] = loc[t]]
  BY LocalTypes, Zenon DEF TrapTypes, SharedTypes
<1>2. /\ workload.traps \subseteq [leaf : Leaves, rip : Nat] /\ workload.calls \subseteq Leaves
      /\ workload.hosts \subseteq [vendor : Vendors, avx : BOOLEAN] /\ workload.cores \subseteq Nat
  BY <1>1, CpuidAssumption, Zenon DEF CpuidAssumption
<1>3. /\ "sel_load" \in Labels \ {"idle", "cfg_load", "cfg_cas"} /\ "note" \in Labels \ {"idle", "cfg_load", "cfg_cas"}
      /\ {"native", "lookup", "answer", "vendor", "answered"} \subseteq Labels \ {"idle", "cfg_load", "cfg_cas"}
      /\ "cfg_load" \in Labels /\ "cfg_load" # "idle" /\ "Artifact" \in Kinds
  BY ZenonT(30) DEF Labels, Kinds
<1>4. NoLocal \in Locals
  BY EmptyLocals, Zenon
<1>5. CASE StartLegacy(t)
  BY <1>1, <1>3, <1>5, GoesTo, Zenon DEF StartLegacy, Set
<1>6. CASE MapFile(t)
  <2>1. [NoLocal EXCEPT !.kind = "Artifact"] \in Locals
    BY <1>3, <1>4, LocalsKept, Zenon
  <2> QED
    BY <1>1, <1>3, <1>6, <2>1, GoesTo, Zenon DEF MapFile, Set
<1>7. ASSUME NEW host \in workload.hosts, StartConfigure(t, host) PROVE Moves(t)
  <2>1. encode(denuvo(host)) \in Words
    BY <1>2, HostsHold, Zenon
  <2> DEFINE w == encode(denuvo(host))
  <2> HIDE DEF w
  <2>2. [NoLocal EXCEPT !.next = w] \in Locals
    BY <1>4, <2>1, LocalsKept, Zenon DEF w
  <2>3. [NoLocal EXCEPT !.next = w].leaf = "none"
    BY Zenon DEF NoLocal
  <2>4. Goto(t, "cfg_load") /\ Set(t, [NoLocal EXCEPT !.next = w])
    BY <1>7, Zenon DEF StartConfigure, w
  <2> QED
    BY <1>3, <2>2, <2>3, <2>4, Zenon DEF Moves
<1>8. ArtifactDue \in BOOLEAN
  BY Zenon DEF ArtifactDue, TrapTypes, SharedTypes
<1>9. ASSUME NEW leaf \in workload.calls, GetFixedReply(t, leaf) PROVE Moves(t)
  <2>1. leaf \in Asked
    BY <1>2, Zenon DEF Asked
  <2>2. [NoLocal EXCEPT !.leaf = leaf, !.due = ArtifactDue] \in Locals
    BY <1>4, <1>8, <2>1, LocalsKept, Zenon
  <2> QED
    BY <1>3, <1>9, <2>2, GoesTo, Zenon DEF GetFixedReply
<1>10. ASSUME NEW trap \in workload.traps, NEW core \in workload.cores, Trap(t, trap, core) PROVE Moves(t)
  <2>1. trap.leaf \in Asked /\ trap.rip \in Nat /\ core \in Nat
    BY <1>2, Zenon DEF Asked
  <2>2. [NoLocal EXCEPT !.leaf = trap.leaf, !.rip = trap.rip, !.core = core, !.due = ArtifactDue] \in Locals
    BY <1>4, <1>8, <2>1, LocalsKept, Zenon
  <2> QED
    BY <1>3, <1>10, <2>2, GoesTo, Zenon DEF Trap
<1> QED
  BY <1>5, <1>6, <1>7, <1>9, <1>10, Zenon

(* Configuring and selecting. *)
LEMMA IdentityMoves ==
  ASSUME TrapTypes, NEW t \in Threads,
         ConfigureLoad(t) \/ ConfigureCas(t) \/ SelectLoad(t) \/ SelectCas(t) \/ SelectStore(t) \/ Return(t) \/ NoteFileMapping(t)
  PROVE  Moves(t)
<1>1. loc[t] \in Locals /\ loc = [loc EXCEPT ![t] = loc[t]] /\ raw_identity \in Words /\ 0 \in Words
  BY LocalTypes, EmptyLocals, Zenon DEF TrapTypes, SharedTypes
<1>2. /\ {"sel_load", "sel_cas", "sel_store", "vendor"} \subseteq Labels \ {"idle", "cfg_load", "cfg_cas"}
      /\ {"cfg_load", "cfg_cas"} \subseteq Labels /\ "cfg_load" # "idle" /\ "cfg_cas" # "idle"
  BY Zenon DEF Labels
<1>3. \A w \in Words : [loc[t] EXCEPT !.raw = w] \in Locals /\ [loc[t] EXCEPT !.raw = w].leaf = loc[t].leaf
  <2>1. \A w \in Words : [loc[t] EXCEPT !.raw = w].leaf = loc[t].leaf
    BY <1>1, Zenon DEF Locals
  <2> QED
    BY <1>1, <2>1, LocalsKept, Zenon
<1>4. pc[t] \in {"cfg_load", "cfg_cas"} => loc[t].leaf = "none"
  BY Zenon DEF TrapTypes, ThreadTypes, Rests
<1>5. CASE ConfigureLoad(t)
  BY <1>1, <1>2, <1>3, <1>4, <1>5, Zenon DEF ConfigureLoad, Local, Moves
<1>6. CASE ConfigureCas(t)
  <2>1. CASE Goto(t, "cfg_load") /\ UNCHANGED loc
    BY <1>1, <1>2, <1>4, <1>6, <2>1, Zenon DEF ConfigureCas, Moves, Set
  <2>2. CASE AfterConfigure(t)
    BY <1>1, <1>2, <2>2, GoesTo, GoesIdle, Zenon DEF AfterConfigure, Set
  <2> QED
    BY <1>6, <2>1, <2>2, Zenon DEF ConfigureCas
<1>7. CASE SelectLoad(t)
  BY <1>1, <1>2, <1>3, <1>7, GoesTo, Zenon DEF SelectLoad, Local
<1>8. CASE SelectCas(t)
  <2>1. CASE (Goto(t, "sel_store") \/ Goto(t, "sel_load")) /\ UNCHANGED loc
    BY <1>1, <1>2, <2>1, GoesTo, Zenon DEF Set
  <2>2. CASE Goto(t, "idle") /\ Set(t, NoLocal)
    BY <2>2, GoesIdle, Zenon
  <2> QED
    BY <1>8, <2>1, <2>2, Zenon DEF SelectCas
<1>9. CASE SelectStore(t)
  BY <1>1, <1>2, <1>3, <1>9, GoesTo, Zenon DEF SelectStore
<1>10. CASE Return(t) \/ NoteFileMapping(t)
  BY <1>10, GoesIdle, Zenon DEF Return, NoteFileMapping, Local
<1> QED
  BY <1>5, <1>6, <1>7, <1>8, <1>9, <1>10, Zenon

(* Looking the caller up. *)
LEMMA LookupMoves ==
  ASSUME TrapTypes, NEW t \in Threads,
         \/ LookupSequence(t) \/ LookupStart(t) \/ LookupEnd(t) \/ LookupKind(t) \/ LookupCheck(t)
         \/ Classify(t) \/ Search(t) \/ Present(t)
  PROVE  Moves(t)
<1>1. /\ loc[t] \in Locals /\ loc = [loc EXCEPT ![t] = loc[t]] /\ loc[t].cell \in Cells
      /\ Cell(t).seq \in Nat /\ Cell(t).start \in Nat /\ Cell(t).end \in Nat /\ Cell(t).kind \in Kinds
  BY LocalTypes, Zenon
<1>2. {"lookup", "start", "end", "kind", "check", "classify", "search", "insert", "present", "vendor", "sel_load"}
        \subseteq Labels \ {"idle", "cfg_load", "cfg_cas"}
  BY ZenonT(30) DEF Labels
<1>3. NextCell(t) => Moves(t)
  <2>1. CASE loc[t].cell + 1 < CallerCap
    <3>1. loc[t].cell + 1 \in Cells
      BY <1>1, <2>1, CpuidAssumption, SMT DEF Cells, CpuidAssumption
    <3>2. [loc[t] EXCEPT !.cell = loc[t].cell + 1] \in Locals
      BY <1>1, <3>1, LocalsKept, Zenon
    <3> QED
      BY <1>2, <2>1, <3>2, GoesTo, Zenon DEF NextCell
  <2>2. CASE ~(loc[t].cell + 1 < CallerCap)
    BY <1>1, <1>2, <2>2, LocalsKept, GoesTo, Zenon DEF NextCell
  <2> QED
    BY <2>1, <2>2, Zenon
<1>4. CASE LookupSequence(t)
  <2>1. [loc[t] EXCEPT !.seq = Cell(t).seq] \in Locals
    BY <1>1, LocalsKept, Zenon
  <2> QED
    BY <1>2, <1>3, <1>4, <2>1, GoesTo, Zenon DEF LookupSequence
<1>5. CASE LookupStart(t)
  <2>1. [loc[t] EXCEPT !.start = Cell(t).start] \in Locals
    BY <1>1, LocalsKept, Zenon
  <2> QED
    BY <1>2, <1>5, <2>1, GoesTo, Zenon DEF LookupStart, Local
<1>6. CASE LookupEnd(t)
  <2>1. [loc[t] EXCEPT !.end = Cell(t).end] \in Locals
    BY <1>1, LocalsKept, Zenon
  <2> QED
    BY <1>2, <1>6, <2>1, GoesTo, Zenon DEF LookupEnd, Local
<1>7. CASE LookupKind(t)
  <2>1. [loc[t] EXCEPT !.kind = Cell(t).kind] \in Locals
    BY <1>1, LocalsKept, Zenon
  <2> QED
    BY <1>2, <1>7, <2>1, GoesTo, Zenon DEF LookupKind, Local
<1>8. CASE LookupCheck(t)
  BY <1>1, <1>2, <1>3, <1>8, GoesTo, Zenon DEF LookupCheck, Set
<1>9. \A m \in Mappings : m.path \in Kinds /\ m.image \in Kinds /\ m.start \in Nat /\ m.end \in Nat
  BY CpuidAssumption, Zenon DEF CpuidAssumption
<1>10. "Ordinary" \in Kinds
  BY Zenon DEF Kinds
<1>11. CASE Classify(t)
  <2>1. [loc[t] EXCEPT !.kind = "Ordinary"] \in Locals
    BY <1>1, <1>10, LocalsKept, Zenon
  <2>2. \A m \in MappingsAt(loc[t].rip) : [loc[t] EXCEPT !.kind = m.path, !.start = m.start, !.end = m.end] \in Locals
    BY <1>1, <1>9, LocalsKept, Zenon DEF MappingsAt
  <2> QED
    BY <1>2, <1>11, <2>1, <2>2, GoesTo, Zenon DEF Classify
<1>12. CASE Search(t)
  <2>1. \A m \in MappingsAt(loc[t].rip) :
          [loc[t] EXCEPT !.kind = IF established THEN "Ordinary" ELSE m.image] \in Locals
    <3>1. \A m \in MappingsAt(loc[t].rip) : (IF established THEN "Ordinary" ELSE m.image) \in Kinds
      BY <1>9, <1>10, Zenon DEF MappingsAt
    <3> QED
      BY <1>1, <3>1, LocalsKept, Zenon
  <2> QED
    BY <1>2, <1>12, <2>1, GoesTo, Zenon DEF Search, Local
<1>13. CASE Present(t)
  BY <1>1, <1>2, <1>13, LocalsKept, GoesTo, Zenon DEF Present, Local
<1> QED
  BY <1>4, <1>5, <1>6, <1>7, <1>8, <1>11, <1>12, <1>13, Zenon

(* Inserting the caller. *)
LEMMA InsertMoves ==
  ASSUME TrapTypes, NEW t \in Threads,
         \/ InsertLock(t) \/ InsertOdd(t) \/ InsertStart(t) \/ InsertEnd(t) \/ InsertKind(t)
         \/ InsertEven(t) \/ InsertUnlock(t)
  PROVE  Moves(t)
<1>1. loc[t] \in Locals /\ loc = [loc EXCEPT ![t] = loc[t]] /\ 0 \in Cells
  BY LocalTypes, EmptyLocals, Zenon
<1>2. InsertLabels \subseteq Labels \ {"idle", "cfg_load", "cfg_cas"} /\ "present" \in Labels \ {"idle", "cfg_load", "cfg_cas"}
  BY ZenonT(30) DEF Labels, InsertLabels
<1>3. entries_next % CallerCap \in Cells
  BY CpuidAssumption, SMT DEF CpuidAssumption, TrapTypes, SharedTypes, Cells
<1>4. CASE InsertLock(t)
  <2>1. [loc[t] EXCEPT !.cell = entries_next % CallerCap] \in Locals
    BY <1>1, <1>3, LocalsKept, Zenon
  <2> QED
    BY <1>1, <1>2, <1>4, <2>1, GoesTo, Zenon DEF InsertLock, Set, InsertLabels
<1>5. CASE InsertUnlock(t)
  BY <1>1, <1>2, <1>5, LocalsKept, GoesTo, Zenon DEF InsertUnlock
<1>6. CASE \E next \in InsertLabels : Goto(t, next) /\ UNCHANGED loc
  BY <1>1, <1>2, <1>6, GoesTo, Zenon DEF Set
<1> QED
  BY <1>4, <1>5, <1>6, Zenon DEF InsertOdd, InsertStart, InsertEnd, InsertKind, InsertEven, StoreCell, InsertLabels

(* Choosing the profile and the answer. *)
LEMMA AnswerMoves ==
  ASSUME TrapTypes, NEW t \in Threads,
         \/ LoadVendor(t) \/ LoadGeneration(t) \/ FreshGeneration(t) \/ FreshMilliseconds(t) \/ Scan(t)
         \/ StoreMilliseconds(t) \/ StoreGeneration(t) \/ ChooseProfile(t) \/ Answer(t)
  PROVE  Moves(t)
<1>1. /\ loc[t] \in Locals /\ loc = [loc EXCEPT ![t] = loc[t]] /\ loc[t].leaf \in Asked
      /\ generation \in Nat /\ clock \in Nat /\ 0 \in Nat /\ raw_identity \in Words
  <2>1. 0 \in Nat
    BY SMT
  <2> QED
    BY <2>1, LocalTypes, Zenon DEF TrapTypes, SharedTypes
<1>2. {"generation", "fresh_generation", "fresh_ms", "scan", "store_ms", "store_generation", "choose",
       "answer", "native", "answered"} \subseteq Labels \ {"idle", "cfg_load", "cfg_cas"}
  BY ZenonT(30) DEF Labels
<1>3. ScanEnds(t) => Moves(t)
  BY <1>1, <1>2, LocalsKept, GoesTo, Zenon DEF ScanEnds
<1>4. Current \in Identities
  BY <1>1, WordsHold, Zenon DEF Current
<1>5. CASE LoadVendor(t)
  <2>1. Current.vendor \in Vendors
    BY <1>4, Zenon DEF Identities
  <2>2. [loc[t] EXCEPT !.vendor = Current.vendor, !.kind = "Ordinary", !.rip = 0] \in Locals
    BY <1>1, <2>1, LocalsKept, Zenon
  <2> QED
    BY <1>2, <1>5, <2>2, GoesTo, Zenon DEF LoadVendor, Local
<1>6. CASE LoadGeneration(t)
  <2>1. [loc[t] EXCEPT !.generation = generation, !.now = clock] \in Locals
    BY <1>1, LocalsKept, Zenon
  <2> QED
    BY <1>2, <1>6, <2>1, GoesTo, Zenon DEF LoadGeneration, Local
<1>7. CASE FreshGeneration(t)
  BY <1>1, <1>2, <1>7, GoesTo, Zenon DEF FreshGeneration, Local
<1>8. CASE FreshMilliseconds(t)
  BY <1>1, <1>2, <1>3, <1>8, GoesTo, Zenon DEF FreshMilliseconds, Set
<1>9. CASE Scan(t)
  BY <1>1, <1>2, <1>9, GoesTo, Zenon DEF Scan, Set
<1>10. CASE StoreMilliseconds(t)
  BY <1>1, <1>2, <1>10, GoesTo, Zenon DEF StoreMilliseconds, Set
<1>11. CASE StoreGeneration(t) \/ ChooseProfile(t)
  BY <1>3, <1>11, Zenon DEF StoreGeneration, ChooseProfile
<1>12. CASE Answer(t)
  <2>1. {"artifact", "consumed", fixed_reply(Current, loc[t].leaf)} \subseteq Replies
    <3>1. "artifact" \in Replies /\ "consumed" \in Replies
      BY Zenon DEF Replies
    <3>2. fixed_reply(Current, loc[t].leaf) \in Replies
      BY <1>4, TablesAnswer, Zenon DEF Replies
    <3> QED
      BY <3>1, <3>2, Zenon
  <2>2. \A r \in Replies : [loc[t] EXCEPT !.reply = r] \in Locals
    BY <1>1, LocalsKept, Zenon
  <2>3. \A r \in Replies : Answered(t, r) => Moves(t)
    BY <1>2, <2>2, GoesTo, Zenon DEF Answered
  <2>4. Goto(t, "native") /\ Set(t, [loc[t] EXCEPT !.reply = "artifact"]) => Moves(t)
    BY <1>2, <2>1, <2>2, GoesTo, Zenon
  <2>5. Goto(t, "native") /\ UNCHANGED loc => Moves(t)
    BY <1>1, <1>2, GoesTo, Zenon DEF Set
  <2> QED
    BY <1>12, <2>1, <2>3, <2>4, <2>5, Zenon DEF Answer
<1> QED
  BY <1>5, <1>6, <1>7, <1>8, <1>9, <1>10, <1>11, <1>12, Zenon

(* The threads after the process has ended, or in a child. *)
Ends == /\ \A u \in Threads : pc'[u] \in {"idle", "gone"} /\ loc'[u] = NoLocal
        /\ pc' \in [Threads -> Labels] /\ loc' \in [Threads -> Locals]

(* The hardware's reply. *)
LEMMA NativeMoves ==
  ASSUME TrapTypes, NEW t \in Threads,
         \/ NativeLookup(t) \/ NativeCpuid(t) \/ NativeLock(t) \/ NativeKey(t) \/ NativeRegisters(t)
         \/ NativeLength(t) \/ NativeUnlock(t)
  PROVE  Moves(t) \/ (NativeCpuid(t) /\ Ends)
<1>1. /\ loc[t] \in Locals /\ loc = [loc EXCEPT ![t] = loc[t]] /\ loc[t].leaf \in Asked /\ loc[t].core \in Nat
      /\ loc[t].regs \in Registers /\ loc[t].reply \in Replies /\ NoRegisters \in Registers
      /\ native \in [1..NativeCap -> [key : Asked, regs : Registers]] /\ native_len \in 0..NativeCap
  BY LocalTypes, EmptyLocals, Zenon DEF TrapTypes, SharedTypes
<1>2. /\ RecordLabels \subseteq Labels \ {"idle", "cfg_load", "cfg_cas"} /\ {"idle", "gone"} \subseteq Labels
      /\ {"answered", "cpuid", "nat_lock"} \subseteq Labels \ {"idle", "cfg_load", "cfg_cas"}
  BY ZenonT(30) DEF Labels, RecordLabels
<1>3. \A r \in Registers : Native(t, r) => Moves(t)
  <2> SUFFICES ASSUME NEW r \in Registers, Native(t, r) PROVE Moves(t)
    BY Zenon
  <2> DEFINE s == IF loc[t].reply = "none" THEN "native" ELSE loc[t].reply
  <2>1. s \in Replies
    BY <1>1, Zenon DEF Replies
  <2>2. Goto(t, "answered") /\ Set(t, [loc[t] EXCEPT !.regs = r, !.reply = s])
    BY Zenon DEF Native
  <2> HIDE DEF s
  <2>3. [loc[t] EXCEPT !.regs = r, !.reply = s] \in Locals
    BY <1>1, <2>1, LocalsKept, Zenon
  <2> QED
    BY <1>2, <2>2, <2>3, GoesTo, Zenon
<1>4. CASE NativeLookup(t)
  <2>1. \A n \in NativeHits(loc[t].leaf) : native[n].regs \in Registers
    <3>1. 1..native_len \subseteq 1..NativeCap
      BY <1>1, CpuidAssumption, SMT DEF CpuidAssumption
    <3> QED
      BY <1>1, <3>1, Zenon DEF NativeHits
  <2>2. CASE Goto(t, "cpuid") /\ UNCHANGED loc
    BY <1>1, <1>2, <2>2, GoesTo, Zenon DEF Set
  <2> QED
    BY <1>3, <1>4, <2>1, <2>2, Zenon DEF NativeLookup
<1>5. CASE NativeCpuid(t)
  <2> DEFINE regs == [leaf |-> loc[t].leaf, core |-> loc[t].core]
  <2>1. regs \in Registers
    BY <1>1, Zenon DEF Registers
  <2>2. [loc[t] EXCEPT !.regs = regs] \in Locals
    <3> HIDE DEF regs
    <3> QED
      BY <1>1, <2>1, LocalsKept, Zenon
  <2>3. CASE Goto(t, "nat_lock") /\ Set(t, [loc[t] EXCEPT !.regs = regs])
    BY <1>2, <2>2, <2>3, GoesTo, Zenon
  <2>4. CASE pc' = [u \in Threads |-> "gone"] /\ loc' = [u \in Threads |-> NoLocal]
    BY <1>2, <1>5, <2>4, EmptyLocals, Zenon DEF Ends
  <2> QED
    BY <1>1, <1>3, <1>5, <2>1, <2>3, <2>4, Zenon DEF NativeCpuid
<1>6. CASE NativeUnlock(t)
  BY <1>1, <1>3, <1>6, Zenon DEF NativeUnlock
<1>7. CASE \E next \in RecordLabels : Goto(t, next) /\ UNCHANGED loc
  BY <1>1, <1>2, <1>7, GoesTo, Zenon DEF Set
<1> QED
  BY <1>4, <1>5, <1>6, <1>7, Zenon DEF NativeLock, NativeKey, NativeRegisters, NativeLength, RecordLabels

(* A step of one thread. *)
ThreadStep(t) ==
  \/ HandlerStep(t) \/ StartLegacy(t) \/ MapFile(t)
  \/ \E host \in workload.hosts : StartConfigure(t, host)
  \/ \E leaf \in workload.calls : GetFixedReply(t, leaf)
  \/ \E trap \in workload.traps, core \in workload.cores : Trap(t, trap, core)

(* A thread goes on, the process ends or is a child, or its world changes. *)
LEMMA StepCases ==
  ASSUME TrapTypes, [Next]_vars
  PROVE  \/ \E t \in Threads : ThreadStep(t) /\ Moves(t) /\ Frame(t)
         \/ Ends /\ UNCHANGED <<flags, caches, scans, world>>
         \/ LoaderMaps \/ Tick \/ UNCHANGED vars
<1>1. \A t \in Threads : Moves(t) => Frame(t)
  BY MovesKeep, Zenon DEF TrapTypes
<1>2. ASSUME NEW t \in Threads, HandlerStep(t)
      PROVE  Moves(t) \/ (Ends /\ UNCHANGED <<flags, caches, scans, world>>)
  <2>1. \/ ConfigureLoad(t) \/ ConfigureCas(t) \/ SelectLoad(t) \/ SelectCas(t) \/ SelectStore(t) \/ Return(t) \/ NoteFileMapping(t)
        \/ LookupSequence(t) \/ LookupStart(t) \/ LookupEnd(t) \/ LookupKind(t) \/ LookupCheck(t)
        \/ Classify(t) \/ Search(t) \/ Present(t)
        \/ InsertLock(t) \/ InsertOdd(t) \/ InsertStart(t) \/ InsertEnd(t) \/ InsertKind(t)
        \/ InsertEven(t) \/ InsertUnlock(t)
        \/ LoadVendor(t) \/ LoadGeneration(t) \/ FreshGeneration(t) \/ FreshMilliseconds(t) \/ Scan(t)
        \/ StoreMilliseconds(t) \/ StoreGeneration(t) \/ ChooseProfile(t) \/ Answer(t)
        \/ NativeLookup(t) \/ NativeCpuid(t) \/ NativeLock(t) \/ NativeKey(t) \/ NativeRegisters(t)
        \/ NativeLength(t) \/ NativeUnlock(t)
    BY <1>2, Zenon DEF HandlerStep
  <2>2. NativeCpuid(t) => UNCHANGED <<flags, caches, scans, world>>
    BY Zenon DEF NativeCpuid
  <2> QED
    BY <2>1, <2>2, IdentityMoves, LookupMoves, InsertMoves, AnswerMoves, NativeMoves, Zenon
<1>3. ASSUME NEW t \in Threads, Fork(t) PROVE Ends /\ UNCHANGED <<flags, caches, scans, world>>
  <2>1. {"idle", "gone"} \subseteq Labels
    BY Zenon DEF Labels
  <2> QED
    BY <1>3, <2>1, EmptyLocals, Zenon DEF Fork, Ends
<1>4. ASSUME NEW t \in Threads, ThreadStep(t), ~HandlerStep(t) PROVE Moves(t)
  BY <1>4, StartsMove, Zenon DEF ThreadStep
<1> QED
  BY <1>1, <1>2, <1>3, <1>4, Zenon DEF Next, ThreadStep

-----------------------------------------------------------------------------
(* What the steps leave alone *)

SharedStays == UNCHANGED <<flags, caches, scans, world, left>>

(* Steps that only read what is shared. *)
QuietStep(t) ==
  \/ ConfigureLoad(t) \/ SelectLoad(t) \/ LookupSequence(t) \/ LookupStart(t) \/ LookupEnd(t) \/ LookupKind(t)
  \/ LookupCheck(t) \/ Search(t) \/ Present(t) \/ LoadVendor(t) \/ LoadGeneration(t) \/ FreshGeneration(t)
  \/ FreshMilliseconds(t) \/ Answer(t) \/ NativeLookup(t) \/ Return(t)

(* ... leave it alone. *)
LEMMA QuietStays ==
  ASSUME NEW t \in Threads, QuietStep(t)
  PROVE  SharedStays
<1>1. CASE ConfigureLoad(t) \/ SelectLoad(t) \/ LookupStart(t) \/ LookupEnd(t) \/ LookupKind(t) \/ Search(t)
           \/ Present(t) \/ LoadVendor(t) \/ LoadGeneration(t) \/ FreshGeneration(t) \/ Return(t)
  BY <1>1, Zenon DEF ConfigureLoad, SelectLoad, LookupStart, LookupEnd, LookupKind, Search, Present,
                     LoadVendor, LoadGeneration, FreshGeneration, Return, Local, SharedStays
<1>2. CASE LookupSequence(t) \/ LookupCheck(t) \/ FreshMilliseconds(t) \/ Answer(t) \/ NativeLookup(t)
  BY <1>2, Zenon DEF LookupSequence, LookupCheck, FreshMilliseconds, Answer, NativeLookup, SharedStays
<1> QED
  BY <1>1, <1>2, Zenon DEF QuietStep

(* Steps that begin a call, or may meet a system call that fails. *)
CountingStep(t) ==
  \/ StartLegacy(t) \/ (\E host \in workload.hosts : StartConfigure(t, host))
  \/ (\E leaf \in workload.calls : GetFixedReply(t, leaf))
  \/ (\E trap \in workload.traps, core \in workload.cores : Trap(t, trap, core))
  \/ Classify(t) \/ Scan(t) \/ NativeCpuid(t) \/ Fork(t)

(* ... leave all but the bounds and PROTOCOL_ESTABLISHED alone. *)
LEMMA CountingStays ==
  ASSUME NEW t \in Threads, CountingStep(t)
  PROVE  /\ UNCHANGED <<raw_identity, selected, artifact, caches, scans, world>>
         /\ \/ UNCHANGED left
            \/ \E what \in {"traps", "configs", "mappings", "ticks", "forks", "failures"} : Count(what)
<1>1. CASE StartLegacy(t) \/ \E host \in workload.hosts : StartConfigure(t, host)
  BY <1>1, Zenon DEF StartLegacy, StartConfigure, flags
<1>2. CASE \E leaf \in workload.calls : GetFixedReply(t, leaf)
  BY <1>2, Zenon DEF GetFixedReply, flags
<1>3. CASE \E trap \in workload.traps, core \in workload.cores : Trap(t, trap, core)
  BY <1>3, Zenon DEF Trap
<1>4. CASE Classify(t) \/ Scan(t)
  BY <1>4, Zenon DEF Classify, Scan, flags
<1>5. CASE NativeCpuid(t) \/ Fork(t)
  BY <1>5, Zenon DEF NativeCpuid, Fork, flags
<1> QED
  BY <1>1, <1>2, <1>3, <1>4, <1>5, Zenon DEF CountingStep

(* Steps that write the identity or a flag. *)
FlagStep(t) == ConfigureCas(t) \/ SelectCas(t) \/ SelectStore(t) \/ ChooseProfile(t)

LEMMA FlagsStay ==
  ASSUME NEW t \in Threads, FlagStep(t)
  PROVE  /\ UNCHANGED <<established, caches, scans, world, left>>
         /\ ~(ConfigureCas(t) \/ SelectCas(t)) => UNCHANGED raw_identity
         /\ ~ChooseProfile(t) => UNCHANGED artifact
  BY Zenon DEF FlagStep, ConfigureCas, SelectCas, SelectStore, ChooseProfile

(* Steps of the cache of callers. *)
EntryStep(t) ==
  \/ InsertLock(t) \/ InsertOdd(t) \/ InsertStart(t) \/ InsertEnd(t) \/ InsertKind(t) \/ InsertEven(t) \/ InsertUnlock(t)

LEMMA EntriesStay ==
  ASSUME NEW t \in Threads, EntryStep(t)
  PROVE  UNCHANGED <<flags, native, native_len, native_lock, scans, world, left>>
  BY Zenon DEF EntryStep, InsertLock, InsertUnlock, InsertOdd, InsertStart, InsertEnd, InsertKind, InsertEven, StoreCell

(* Steps of the cache of native replies. *)
RecordStep(t) ==
  NativeLock(t) \/ NativeKey(t) \/ NativeRegisters(t) \/ NativeLength(t) \/ NativeUnlock(t)

LEMMA RecordsStay ==
  ASSUME NEW t \in Threads, RecordStep(t)
  PROVE  UNCHANGED <<flags, entries, entries_lock, entries_next, scans, world, left>>
  BY Zenon DEF RecordStep, NativeLock, NativeKey, NativeRegisters, NativeLength, NativeUnlock

(* Steps that record a scan, and steps of the world. *)
ScanStep(t) == StoreMilliseconds(t) \/ StoreGeneration(t)
WorldStep == (\E t \in Threads : MapFile(t) \/ NoteFileMapping(t)) \/ LoaderMaps \/ Tick

LEMMA ScansStay ==
  ASSUME NEW t \in Threads, ScanStep(t)
  PROVE  UNCHANGED <<flags, caches, world, left>>
  BY Zenon DEF ScanStep, StoreMilliseconds, StoreGeneration

LEMMA WorldStays ==
  ASSUME WorldStep
  PROVE  /\ UNCHANGED <<flags, caches, scans, workload>>
         /\ \/ UNCHANGED left
            \/ \E what \in {"traps", "configs", "mappings", "ticks", "forks", "failures"} :
                 what # "failures" /\ Count(what)
  BY Zenon DEF WorldStep, MapFile, NoteFileMapping, LoaderMaps, Tick

(* The kinds of steps. *)
LEMMA StepKinds ==
  ASSUME [Next]_vars
  PROVE  \/ \E t \in Threads : \/ QuietStep(t) \/ CountingStep(t) \/ FlagStep(t) \/ EntryStep(t)
                               \/ RecordStep(t) \/ ScanStep(t)
         \/ WorldStep
         \/ UNCHANGED vars
<1>1. ASSUME NEW t \in Threads, HandlerStep(t)
      PROVE  \/ QuietStep(t) \/ CountingStep(t) \/ FlagStep(t) \/ EntryStep(t) \/ RecordStep(t) \/ ScanStep(t) \/ WorldStep
  BY <1>1, Zenon DEF HandlerStep, QuietStep, CountingStep, FlagStep, EntryStep, RecordStep, ScanStep, WorldStep
<1>2. ASSUME NEW t \in Threads,
             \/ StartLegacy(t) \/ MapFile(t) \/ Fork(t)
             \/ \E host \in workload.hosts : StartConfigure(t, host)
             \/ \E leaf \in workload.calls : GetFixedReply(t, leaf)
             \/ \E trap \in workload.traps, core \in workload.cores : Trap(t, trap, core)
      PROVE  CountingStep(t) \/ WorldStep
  BY <1>2, Zenon DEF CountingStep, WorldStep
<1> QED
  BY <1>1, <1>2, Zenon DEF Next, WorldStep

(* The bounds are used up, and a failure stays known. *)
LEMMA FailuresStay ==
  ASSUME TrapTypes, [Next]_vars
  PROVE  /\ workload' = workload /\ left' \in Bounds /\ left'.failures <= left.failures
         /\ left'.failures <= workload'.bounds.failures
         /\ Failed => Failed'
<1>1. /\ workload \in Workloads /\ left \in Bounds /\ left.failures <= workload.bounds.failures
      /\ left.failures \in Nat
  BY Zenon DEF TrapTypes, SharedTypes, Bounds
<1>2. workload.bounds.failures \in Nat
  <2>1. workload.bounds \in Bounds
    BY <1>1, CpuidAssumption, Zenon DEF CpuidAssumption
  <2> QED
    BY <2>1, Zenon DEF Bounds
<1>3. /\ workload' = workload
      /\ \/ UNCHANGED left
         \/ \E what \in {"traps", "configs", "mappings", "ticks", "forks", "failures"} : Count(what)
  <2>1. ASSUME NEW t \in Threads, QuietStep(t) PROVE UNCHANGED <<workload, left>>
    BY <2>1, QuietStays, Zenon DEF SharedStays, world
  <2>2. ASSUME NEW t \in Threads, CountingStep(t)
        PROVE  /\ workload' = workload
               /\ \/ UNCHANGED left
                  \/ \E what \in {"traps", "configs", "mappings", "ticks", "forks", "failures"} : Count(what)
    BY <2>2, CountingStays, Zenon DEF world
  <2>3. ASSUME NEW t \in Threads, FlagStep(t) \/ EntryStep(t) \/ RecordStep(t) \/ ScanStep(t)
        PROVE  UNCHANGED <<workload, left>>
    BY <2>3, FlagsStay, EntriesStay, RecordsStay, ScansStay, Zenon DEF world
  <2>4. UNCHANGED vars => UNCHANGED <<workload, left>>
    BY Zenon DEF vars, world
  <2> QED
    BY <2>1, <2>2, <2>3, <2>4, StepKinds, WorldStays, Zenon
<1>4. left' \in Bounds /\ left'.failures <= left.failures
  <2>1. left.failures <= left.failures
    BY <1>1, SMT
  <2> QED
    BY <1>1, <1>3, <2>1, CountKeeps, Zenon
<1>5. left'.failures \in Nat
  BY <1>4, Zenon DEF Bounds
<1>6. left'.failures <= workload.bounds.failures
  BY <1>1, <1>2, <1>4, <1>5, SMT
<1>7. left.failures < workload.bounds.failures => left'.failures < workload.bounds.failures
  BY <1>1, <1>2, <1>4, <1>5, SMT
<1> QED
  BY <1>3, <1>4, <1>6, <1>7, Zenon DEF Failed

(* ... and so does one that just happened. *)
LEMMA FailureShows ==
  ASSUME TrapTypes, Count("failures"), workload' = workload
  PROVE  Failed'
<1>1. /\ workload \in Workloads /\ left \in Bounds /\ left.failures <= workload.bounds.failures
      /\ left.failures \in Nat
  BY Zenon DEF TrapTypes, SharedTypes, Bounds
<1>2. workload.bounds.failures \in Nat
  <2>1. workload.bounds \in Bounds
    BY <1>1, CpuidAssumption, Zenon DEF CpuidAssumption
  <2> QED
    BY <2>1, Zenon DEF Bounds
<1>3. left'.failures < left.failures /\ left' \in Bounds
  BY <1>1, CountKeeps, Zenon
<1>4. left'.failures \in Nat
  BY <1>3, Zenon DEF Bounds
<1>5. left'.failures < workload.bounds.failures
  BY <1>1, <1>2, <1>3, <1>4, SMT
<1> QED
  BY <1>5, Zenon DEF Failed

(* Every step keeps the types; that there is room for a cell comes from Records. *)
LEMMA TypesKept ==
  ASSUME TrapTypes, NativeInv, [Next]_vars
  PROVE  TrapTypes'
<1> DEFINE Rest == /\ workload' \in Workloads /\ left' \in Bounds /\ left'.failures <= workload'.bounds.failures
<1>1. Rest
  BY FailuresStay, Zenon DEF TrapTypes, SharedTypes
<1>2. ThreadTypes'
  <2>1. ASSUME NEW t \in Threads, Moves(t) PROVE ThreadTypes'
    BY <2>1, MovesKeep, Zenon DEF TrapTypes
  <2>2. ASSUME Ends PROVE ThreadTypes'
    <3>1. NoLocal.leaf = "none"
      BY Zenon DEF NoLocal
    <3> QED
      BY <2>2, <3>1, Zenon DEF Ends, ThreadTypes, Rests
  <2>3. ASSUME UNCHANGED <<pc, loc>> PROVE ThreadTypes'
    BY <2>3, Zenon DEF TrapTypes, ThreadTypes, Rests
  <2> QED
    BY <2>1, <2>2, <2>3, StepCases, Zenon DEF LoaderMaps, Tick, vars
<1>3. raw_identity' \in Words \/ \E t \in Threads : ConfigureCas(t) \/ SelectCas(t)
  <2>1. ASSUME NEW t \in Threads, \/ QuietStep(t) \/ CountingStep(t) \/ EntryStep(t) \/ RecordStep(t) \/ ScanStep(t)
        PROVE  UNCHANGED raw_identity
    BY <2>1, QuietStays, CountingStays, EntriesStay, RecordsStay, ScansStay, Zenon DEF SharedStays, flags
  <2>2. ASSUME WorldStep \/ UNCHANGED vars PROVE UNCHANGED raw_identity
    BY <2>2, WorldStays, Zenon DEF vars, flags
  <2>3. ASSUME NEW t \in Threads, FlagStep(t)
        PROVE  UNCHANGED raw_identity \/ ConfigureCas(t) \/ SelectCas(t)
    BY <2>3, FlagsStay, Zenon
  <2> QED
    BY <2>1, <2>2, <2>3, StepKinds, Zenon DEF TrapTypes, SharedTypes
<1>4. raw_identity' \in Words
  <2>1. ASSUME NEW t \in Threads, ConfigureCas(t) \/ SelectCas(t) PROVE raw_identity' \in Words
    <3>1. loc[t].raw \in Words /\ loc[t].next \in Words /\ raw_identity \in Words
      BY LocalTypes, Zenon DEF TrapTypes, SharedTypes
    <3>2. decode(loc[t].raw).presentation \in {"Denuvo", "Legacy"}
      BY <3>1, WordsHold, Zenon DEF Identities
    <3>3. Configured(t) \in Words
      BY <3>1, <3>2, WordsHold, Zenon DEF Configured
    <3>4. encode([decode(loc[t].raw) EXCEPT !.presentation = "Legacy"]) \in Words
      BY <3>1, WordsHold, Zenon
    <3> QED
      BY <2>1, <3>1, <3>3, <3>4, Zenon DEF ConfigureCas, SelectCas
  <2> QED
    BY <1>3, <2>1, Zenon
<1> DEFINE Callers == entries \in [Cells -> Entry] /\ entries_next \in 0..CallerCap
           Natives == /\ native \in [1..NativeCap -> [key : Asked, regs : Registers]] /\ native_len \in 0..NativeCap
           Scanned == scan_generation \in Int /\ scan_ms \in Nat
           Outside == /\ generation \in Nat /\ clock \in Nat
                      /\ image \in [since : Nat \cup {Never}, counted : BOOLEAN]
<1>5. Callers /\ Natives /\ Scanned /\ Outside
  BY Zenon DEF TrapTypes, SharedTypes
<1>6. SUFFICES Callers' /\ Natives' /\ Scanned' /\ Outside'
  BY <1>1, <1>2, <1>4, Zenon DEF TrapTypes, SharedTypes
<1>7. UNCHANGED <<entries, entries_next>> => Callers'
  BY <1>5, Zenon
<1>8. UNCHANGED <<native, native_len>> => Natives'
  BY <1>5, Zenon
<1>9. UNCHANGED scans => Scanned'
  BY <1>5, Zenon DEF scans
<1>10. UNCHANGED <<generation, clock, image>> => Outside'
  BY <1>5, Zenon
<1>11. UNCHANGED caches => Callers' /\ Natives'
  BY <1>7, <1>8, Zenon DEF caches
<1>12. UNCHANGED world => Outside'
  BY <1>10, Zenon DEF world
<1> HIDE DEF Callers, Natives, Scanned, Outside
<1>13. ASSUME NEW t \in Threads, QuietStep(t) \/ CountingStep(t) \/ FlagStep(t)
       PROVE  Callers' /\ Natives' /\ Scanned' /\ Outside'
  <2>1. UNCHANGED <<caches, scans, world>>
    BY <1>13, QuietStays, CountingStays, FlagsStay, Zenon DEF SharedStays
  <2> QED
    BY <1>9, <1>11, <1>12, <2>1, Zenon
<1>14. ASSUME UNCHANGED vars PROVE Callers' /\ Natives' /\ Scanned' /\ Outside'
  BY <1>9, <1>11, <1>12, <1>14, Zenon DEF vars
<1>15. ASSUME NEW t \in Threads, EntryStep(t) PROVE Callers' /\ Natives' /\ Scanned' /\ Outside'
  <2>1. UNCHANGED <<native, native_len, scans, world>>
    BY <1>15, EntriesStay, Zenon
  <2>2. /\ loc[t].cell \in Cells /\ Cell(t) \in Entry /\ Cell(t).seq + 1 \in Nat
        /\ loc[t].start \in Nat /\ loc[t].end \in Nat /\ loc[t].kind \in Kinds
    <3>1. Cell(t).seq \in Nat
      BY LocalTypes, Zenon
    <3>2. Cell(t).seq + 1 \in Nat
      BY <3>1, SMT
    <3> QED
      BY <3>2, LocalTypes, Zenon
  <2>3. \A e \in Entry : /\ \A n \in Nat : /\ [e EXCEPT !.seq = n] \in Entry /\ [e EXCEPT !.start = n] \in Entry
                                           /\ [e EXCEPT !.end = n] \in Entry
                         /\ \A k \in Kinds : [e EXCEPT !.kind = k] \in Entry
    BY Zenon DEF Entry
  <2>4. ASSUME NEW e \in Entry, entries' = [entries EXCEPT ![loc[t].cell] = e], UNCHANGED entries_next
        PROVE  Callers'
    BY <1>5, <2>2, <2>4, Zenon DEF Callers
  <2>5. CASE InsertLock(t)
    <3>1. (entries_next % CallerCap) + 1 \in 0..CallerCap
      BY <1>5, CpuidAssumption, SMT DEF Callers, CpuidAssumption
    <3> QED
      BY <1>5, <1>8, <1>9, <1>12, <2>1, <2>5, <3>1, Zenon DEF InsertLock, Callers
  <2>6. CASE InsertUnlock(t)
    BY <1>7, <1>8, <1>9, <1>12, <2>1, <2>6, Zenon DEF InsertUnlock
  <2>7. CASE InsertOdd(t) \/ InsertEven(t)
    <3>1. [Cell(t) EXCEPT !.seq = Cell(t).seq + 1] \in Entry
      BY <2>2, <2>3, Zenon
    <3> QED
      BY <1>8, <1>9, <1>12, <2>1, <2>4, <2>7, <3>1, Zenon DEF InsertOdd, InsertEven, StoreCell
  <2>8. CASE InsertStart(t)
    <3>1. [Cell(t) EXCEPT !.start = loc[t].start] \in Entry
      BY <2>2, <2>3, Zenon
    <3> QED
      BY <1>8, <1>9, <1>12, <2>1, <2>4, <2>8, <3>1, Zenon DEF InsertStart, StoreCell
  <2>9. CASE InsertEnd(t)
    <3>1. [Cell(t) EXCEPT !.end = loc[t].end] \in Entry
      BY <2>2, <2>3, Zenon
    <3> QED
      BY <1>8, <1>9, <1>12, <2>1, <2>4, <2>9, <3>1, Zenon DEF InsertEnd, StoreCell
  <2>10. CASE InsertKind(t)
    <3>1. [Cell(t) EXCEPT !.kind = loc[t].kind] \in Entry
      BY <2>2, <2>3, Zenon
    <3> QED
      BY <1>8, <1>9, <1>12, <2>1, <2>4, <2>10, <3>1, Zenon DEF InsertKind, StoreCell
  <2> QED
    BY <1>15, <2>5, <2>6, <2>7, <2>8, <2>9, <2>10, Zenon DEF EntryStep
<1>16. ASSUME NEW t \in Threads, RecordStep(t) PROVE Callers' /\ Natives' /\ Scanned' /\ Outside'
  <2>1. UNCHANGED <<entries, entries_next, scans, world>>
    BY <1>16, RecordsStay, Zenon
  <2>2. SUFFICES Natives'
    BY <1>7, <1>9, <1>12, <2>1, Zenon
  <2>3. pc[t] \in {"nat_key", "nat_regs", "nat_len"} => native_len < NativeCap
    BY Zenon DEF NativeInv, Records
  <2>4. native_len < NativeCap => native_len + 1 \in 0..NativeCap /\ native_len + 1 \in 1..NativeCap
    BY <1>5, CpuidAssumption, SMT DEF Natives, CpuidAssumption
  <2>5. loc[t].leaf \in Asked /\ loc[t].regs \in Registers
    BY LocalTypes, Zenon
  <2>6. CASE NativeLock(t) \/ NativeUnlock(t)
    BY <1>8, <2>6, Zenon DEF NativeLock, NativeUnlock
  <2> DEFINE n == native_len + 1
  <2>7. ASSUME n \in 1..NativeCap,
               \/ native' = [native EXCEPT ![n].key = loc[t].leaf]
               \/ native' = [native EXCEPT ![n].regs = loc[t].regs],
               UNCHANGED native_len
        PROVE  Natives'
    <3> HIDE DEF n
    <3>1. native \in [1..NativeCap -> [key : Asked, regs : Registers]] /\ native_len \in 0..NativeCap
      BY <1>5, Zenon DEF Natives
    <3>2. native' \in [1..NativeCap -> [key : Asked, regs : Registers]]
      BY <2>5, <2>7, <3>1, Zenon
    <3> QED
      BY <2>7, <3>1, <3>2, Zenon DEF Natives
  <2>8. CASE NativeKey(t) \/ NativeRegisters(t)
    BY <2>3, <2>4, <2>7, <2>8, Zenon DEF NativeKey, NativeRegisters
  <2>9. CASE NativeLength(t)
    BY <1>5, <2>3, <2>4, <2>9, Zenon DEF NativeLength, Natives
  <2> QED
    BY <1>16, <2>6, <2>8, <2>9, Zenon DEF RecordStep
<1>17. ASSUME NEW t \in Threads, ScanStep(t) PROVE Callers' /\ Natives' /\ Scanned' /\ Outside'
  <2>1. UNCHANGED <<caches, world>>
    BY <1>17, ScansStay, Zenon
  <2>2. loc[t].generation \in Nat /\ loc[t].now \in Nat
    BY LocalTypes, Zenon
  <2>3. loc[t].generation \in Int
    BY <2>2, SMT
  <2>4. Scanned'
    BY <1>5, <1>17, <2>2, <2>3, Zenon DEF ScanStep, StoreMilliseconds, StoreGeneration, Scanned
  <2> QED
    BY <1>11, <1>12, <2>1, <2>4, Zenon
<1>18. ASSUME WorldStep PROVE Callers' /\ Natives' /\ Scanned' /\ Outside'
  <2>1. UNCHANGED <<caches, scans>>
    BY <1>18, WorldStays, Zenon
  <2>2. SUFFICES Outside'
    BY <1>9, <1>11, <2>1, Zenon
  <2>3. generation + 1 \in Nat /\ clock + 1 \in Nat /\ clock \in Nat
    BY <1>5, SMT DEF Outside
  <2>4. [image EXCEPT !.since = clock] \in [since : Nat \cup {Never}, counted : BOOLEAN]
    BY <1>5, Zenon DEF Outside
  <2>5. \A b \in BOOLEAN : [image EXCEPT !.counted = b] \in [since : Nat \cup {Never}, counted : BOOLEAN]
    BY <1>5, Zenon DEF Outside
  <2>6. CASE \E t \in Threads : MapFile(t)
    BY <1>5, <2>4, <2>6, Zenon DEF MapFile, Outside
  <2>7. CASE \E t \in Threads : NoteFileMapping(t)
    <3>1. PICK t \in Threads : NoteFileMapping(t)
      BY <2>7, Zenon
    <3>2. image' = [image EXCEPT !.counted = image.counted \/ loc[t].kind = "Artifact"]
      BY <3>1, Zenon DEF NoteFileMapping
    <3>3. (image.counted \/ loc[t].kind = "Artifact") \in BOOLEAN
      BY Zenon
    <3> QED
      BY <1>5, <2>3, <2>5, <3>1, <3>2, <3>3, Zenon DEF NoteFileMapping, Outside
  <2>8. CASE LoaderMaps \/ Tick
    BY <1>5, <2>3, <2>4, <2>8, Zenon DEF LoaderMaps, Tick, Outside
  <2> QED
    BY <1>18, <2>6, <2>7, <2>8, Zenon DEF WorldStep
<1> QED
  BY <1>13, <1>14, <1>15, <1>16, <1>17, <1>18, StepKinds, Zenon

-----------------------------------------------------------------------------
(* The cache of callers *)

(* A caller has one of the kinds of KindsAt. *)
LEMMA ClassifiedMeans ==
  ASSUME NEW t \in Threads, IsClassified(t), pc[t] \in Classified, loc[t].leaf # "none"
  PROVE  loc[t].kind \in KindsAt(loc[t].rip)
<1> DEFINE rip == loc[t].rip
           kind == loc[t].kind
<1>1. Suits(rip, kind) \/ (kind = "Ordinary" /\ Failed)
  BY Zenon DEF IsClassified
<1> HIDE DEF rip, kind
<1>2. ASSUME NEW m \in MappingsAt(rip), IsKindOf(m, kind) PROVE kind \in KindsAt(rip)
  <2>1. CASE kind = m.path
    BY <1>2, <2>1, Zenon DEF KindsAt
  <2>2. CASE m.path = "Ordinary" /\ kind = m.image
    BY <1>2, <2>2, Zenon DEF KindsAt
  <2> QED
    BY <1>2, <2>1, <2>2, Zenon DEF IsKindOf
<1>3. ASSUME kind = "Ordinary", MappingsAt(rip) = {} \/ Failed PROVE kind \in KindsAt(rip)
  BY <1>3, Zenon DEF KindsAt
<1>4. kind \in KindsAt(rip)
  BY <1>1, <1>2, <1>3, Zenon DEF Suits
<1> QED
  BY <1>4, Zenon DEF rip, kind

(* No mapping begins at address 0. *)
LEMMA NobodyAtZero == MappingsAt(0) = {} /\ Suits(0, "Ordinary")
<1>1. ASSUME NEW m \in Mappings PROVE 0 \notin m.start..(m.end - 1)
  <2>1. m.start \in Nat \ {0} /\ m.end \in Nat
    BY CpuidAssumption, Zenon DEF CpuidAssumption, WineRip
  <2> QED
    BY <2>1, SMT
<1>2. MappingsAt(0) = {}
  BY <1>1, Zenon DEF MappingsAt
<1> QED
  BY <1>2, Zenon DEF Suits

(* An address is in one mapping at most. *)
LEMMA OneMapping ==
  ASSUME NEW rip \in Nat, NEW m \in MappingsAt(rip), NEW n \in MappingsAt(rip)
  PROVE  m = n
<1>1. m \in Mappings /\ n \in Mappings /\ rip \in m.start..(m.end - 1) /\ rip \in n.start..(n.end - 1)
  BY Zenon DEF MappingsAt
<1>2. /\ m.start \in Nat /\ m.end \in Nat /\ n.start \in Nat /\ n.end \in Nat
      /\ m = n \/ m.end <= n.start \/ n.end <= m.start
  BY <1>1, CpuidAssumption, Zenon DEF CpuidAssumption
<1>3. ~(m.end <= n.start) /\ ~(n.end <= m.start)
  BY <1>1, <1>2, SMT
<1> QED
  BY <1>2, <1>3, Zenon

(* Adding one to a sequence. *)
LEMMA Parity ==
  ASSUME NEW n \in Nat
  PROVE  /\ n % 2 = 0 \/ n % 2 = 1
         /\ n % 2 = 0 => (n + 1) % 2 = 1
         /\ n % 2 = 1 => (n + 1) % 2 = 0
  BY SMT

(* A caller that was not touched stays well classified, and a reader may rely   *)
(* on an entry as before if sequences grow where entries change.                *)
LEMMA ReadersKept ==
  ASSUME TrapTypes, TrapTypes', NEW u \in Threads, Inserts(u), Looks(u), IsClassified(u), Failed => Failed',
         pc'[u] = pc[u], loc'[u] = loc[u],
         \A c \in Cells : /\ entries[c].seq <= entries'[c].seq
                          /\ entries'[c].seq = entries[c].seq => entries'[c] = entries[c] \/ entries[c].seq % 2 = 1
  PROVE  Looks(u)' /\ IsClassified(u)'
<1>1. IsClassified(u)'
  BY Zenon DEF IsClassified
<1>2. Looks(u)'
  <2> SUFFICES ASSUME pc[u] \in {"start", "end", "kind", "check"} PROVE Looks(u)'
    BY Zenon DEF Looks
  <2> DEFINE c == loc[u].cell
  <2>1. /\ c \in Cells /\ loc[u].seq \in Nat /\ entries[c].seq \in Nat /\ Cell(u) = entries[c] /\ Cell(u)' = entries'[c]
    BY LocalTypes, Zenon DEF Cell
  <2>2. entries'[c].seq \in Nat
    <3>1. entries'[c] \in Entry
      BY <2>1, Zenon DEF TrapTypes, SharedTypes
    <3> QED
      BY <3>1, Zenon DEF Entry
  <2> HIDE DEF c
  <2>3. /\ loc[u].seq % 2 = 0 /\ loc[u].seq <= entries[c].seq
        /\ entries[c].seq = loc[u].seq =>
             /\ pc[u] # "start" => loc[u].start = entries[c].start
             /\ pc[u] \in {"kind", "check"} => loc[u].end = entries[c].end
             /\ pc[u] = "check" => loc[u].kind = entries[c].kind
    BY <2>1, Zenon DEF Looks
  <2>4. loc[u].seq <= entries'[c].seq
    BY <2>1, <2>2, <2>3, SMT
  <2>5. ASSUME entries'[c].seq = loc[u].seq PROVE entries'[c] = entries[c]
    <3>1. entries[c].seq = entries'[c].seq
      <4>1. entries[c].seq <= entries'[c].seq
        BY <2>1, Zenon
      <4> QED
        BY <2>1, <2>2, <2>3, <2>5, <4>1, SMT
    <3>2. entries[c].seq % 2 # 1
      BY <2>3, <2>5, <3>1, SMT
    <3> QED
      BY <2>1, <3>1, <3>2, Zenon
  <2> QED
    BY <2>1, <2>3, <2>4, <2>5, Zenon DEF Looks
<1> QED
  BY <1>1, <1>2, Zenon

(* A step of t that leaves the cache alone. *)
LEMMA CallersKept ==
  ASSUME TrapTypes, TrapTypes', CallerInv, Failed => Failed', NEW t \in Threads, Frame(t),
         UNCHANGED <<entries, entries_lock>>, pc'[t] \notin InsertLabels,
         Inserts(t)', Looks(t)', IsClassified(t)'
  PROVE  CallerInv'
<1>1. InsertsOwn'
  BY Zenon DEF CallerInv, InsertsOwn, Frame
<1>2. EntriesAreWhole'
  BY Zenon DEF CallerInv, EntriesAreWhole
<1>3. \A c \in Cells : /\ entries[c].seq <= entries'[c].seq
                       /\ entries'[c].seq = entries[c].seq => entries'[c] = entries[c] \/ entries[c].seq % 2 = 1
  <2>1. \A c \in Cells : entries[c].seq \in Nat
    BY Zenon DEF TrapTypes, SharedTypes, Entry
  <2>2. \A n \in Nat : n <= n
    BY SMT
  <2> QED
    BY <2>1, <2>2, Zenon
<1>4. ASSUME NEW u \in Threads \ {t} PROVE Inserts(u)' /\ Looks(u)' /\ IsClassified(u)'
  <2>1. pc'[u] = pc[u] /\ loc'[u] = loc[u] /\ Inserts(u) /\ Looks(u) /\ IsClassified(u)
    BY Zenon DEF CallerInv, Frame
  <2>2. Inserts(u)'
    BY <2>1, Zenon DEF Inserts, Cell
  <2> QED
    BY <1>3, <2>1, <2>2, ReadersKept, Zenon
<1> QED
  BY <1>1, <1>2, <1>4, Zenon DEF CallerInv

(* ... and one after which t has nothing to do with it. *)
Elsewhere == Labels \ (InsertLabels \cup Classified \cup {"search", "insert", "start", "end", "kind", "check"})

LEMMA CallersAway ==
  ASSUME TrapTypes, TrapTypes', CallerInv, Failed => Failed', NEW t \in Threads, Frame(t),
         UNCHANGED <<entries, entries_lock>>, pc'[t] \in Elsewhere
  PROVE  CallerInv'
<1>1. Inserts(t)'
  BY Zenon DEF Elsewhere, Inserts, InsertLabels
<1>2. Looks(t)' /\ IsClassified(t)'
  BY Zenon DEF Elsewhere, Looks, IsClassified
<1>3. pc'[t] \notin InsertLabels
  BY Zenon DEF Elsewhere
<1> QED
  BY <1>1, <1>2, <1>3, CallersKept, Zenon

(* ... and one after which its caller is classified. *)
LEMMA CallersNamed ==
  ASSUME TrapTypes, TrapTypes', CallerInv, Failed => Failed', NEW t \in Threads, Frame(t),
         UNCHANGED <<entries, entries_lock>>, pc'[t] \in Classified,
         loc'[t].leaf = "none" \/ Suits(loc'[t].rip, loc'[t].kind) \/ (loc'[t].kind = "Ordinary" /\ Failed')
  PROVE  CallerInv'
<1>1. Inserts(t)'
  BY Zenon DEF Classified, Inserts, InsertLabels
<1>2. Looks(t)' /\ IsClassified(t)'
  BY Zenon DEF Classified, Looks, IsClassified
<1>3. pc'[t] \notin InsertLabels
  BY Zenon DEF Classified, InsertLabels
<1> QED
  BY <1>1, <1>2, <1>3, CallersKept, Zenon

(* A store of the thread that inserts, into the entry that it has chosen. *)
LEMMA CallersStored ==
  ASSUME TrapTypes, TrapTypes', CallerInv, Failed => Failed', NEW t \in Threads, Frame(t), NEW e \in Entry,
         entries' = [entries EXCEPT ![loc[t].cell] = e], UNCHANGED entries_lock,
         pc[t] \in InsertLabels, pc'[t] \in InsertLabels \ {"ins_odd"}, loc'[t] = loc[t],
         Cell(t).seq <= e.seq, e.seq = Cell(t).seq => Cell(t).seq % 2 = 1,
         e.seq % 2 = 0 => IsWhole(e),
         pc'[t] = "ins_unlock" <=> e.seq % 2 = 0,
         \A c \in Cells \ {loc[t].cell} : entries[c].seq % 2 = 0,
         pc'[t] \in {"ins_end", "ins_kind", "ins_even"} => e.start = loc[t].start,
         pc'[t] \in {"ins_kind", "ins_even"} => e.end = loc[t].end,
         pc'[t] = "ins_even" => e.kind = loc[t].kind
  PROVE  CallerInv'
<1> DEFINE c == loc[t].cell
<1>1. c \in Cells /\ Cell(t) = entries[c] /\ e.seq \in Nat /\ entries \in [Cells -> Entry]
  <2>1. c \in Cells /\ Cell(t) = entries[c]
    BY LocalTypes, Zenon DEF Cell
  <2> QED
    BY <2>1, Zenon DEF Entry, TrapTypes, SharedTypes
<1>2. entries'[c] = e /\ \A d \in Cells \ {c} : entries'[d] = entries[d]
  BY <1>1, Zenon
<1>3. Cell(t)' = e
  BY <1>2, Zenon DEF Cell
<1> HIDE DEF c
<1>4. entries_lock /\ \A u \in Threads \ {t} : pc[u] \notin InsertLabels
  BY Zenon DEF CallerInv, InsertsOwn
<1>5. \A u \in Threads \ {t} : pc'[u] = pc[u] /\ loc'[u] = loc[u]
  BY Zenon DEF Frame
<1>6. InsertsOwn'
  BY <1>4, <1>5, Zenon DEF InsertsOwn
<1>7. EntriesAreWhole'
  BY <1>1, <1>2, <1>4, Zenon DEF CallerInv, EntriesAreWhole, c
<1>8. \A d \in Cells : /\ entries[d].seq <= entries'[d].seq
                       /\ entries'[d].seq = entries[d].seq => entries'[d] = entries[d] \/ entries[d].seq % 2 = 1
  <2>1. \A d \in Cells : entries[d].seq \in Nat
    BY Zenon DEF TrapTypes, SharedTypes, Entry
  <2>2. \A n \in Nat : n <= n
    BY SMT
  <2>3. /\ entries[c].seq <= entries'[c].seq
        /\ entries'[c].seq = entries[c].seq => entries'[c] = entries[c] \/ entries[c].seq % 2 = 1
    BY <1>1, <1>2, Zenon
  <2> QED
    BY <1>2, <2>1, <2>2, <2>3, Zenon
<1>9. ASSUME NEW u \in Threads \ {t} PROVE Inserts(u)' /\ Looks(u)' /\ IsClassified(u)'
  <2>1. pc'[u] = pc[u] /\ loc'[u] = loc[u] /\ Inserts(u) /\ Looks(u) /\ IsClassified(u) /\ pc[u] \notin InsertLabels
    BY <1>4, <1>5, Zenon DEF CallerInv
  <2>2. Inserts(u)'
    BY <2>1, Zenon DEF Inserts, InsertLabels
  <2> QED
    BY <1>8, <2>1, <2>2, ReadersKept, Zenon
<1>10. Looks(t)' /\ IsClassified(t)'
  BY Zenon DEF Looks, IsClassified, InsertLabels, Classified
<1>11. Inserts(t)'
  <2>1. \E m \in MappingsAt(loc'[t].rip) : IsRangeOf(m, loc'[t]) /\ IsKindOf(m, loc'[t].kind)
    BY Zenon DEF CallerInv, Inserts
  <2>2. ASSUME pc'[t] = "ins_unlock" PROVE \A d \in Cells : entries'[d].seq % 2 = 0
    <3>1. e.seq % 2 = 0
      BY <2>2, Zenon
    <3>2. entries'[c].seq % 2 = 0
      BY <1>2, <3>1, Zenon
    <3>3. \A d \in Cells \ {c} : entries'[d].seq % 2 = 0
      BY <1>2, Zenon DEF c
    <3> QED
      BY <3>2, <3>3, Zenon
  <2>3. pc'[t] # "ins_unlock" => /\ e.seq % 2 = 1 /\ \A d \in Cells \ {c} : entries'[d].seq % 2 = 0
    BY <1>1, <1>2, Parity, Zenon DEF c
  <2>4. pc'[t] \notin {"search", "ins_odd"}
    BY Zenon DEF InsertLabels
  <2> QED
    BY <1>3, <2>1, <2>2, <2>3, <2>4, Zenon DEF Inserts, c
<1> QED
  BY <1>6, <1>7, <1>9, <1>10, <1>11, Zenon DEF CallerInv

(* Steps that lead away from the cache. *)
LEMMA CallersWork ==
  ASSUME TrapTypes, TrapTypes', CallerInv, Failed => Failed', NEW t \in Threads, Frame(t),
         \/ \E host \in workload.hosts : StartConfigure(t, host)
         \/ \E trap \in workload.traps, core \in workload.cores : Trap(t, trap, core)
         \/ MapFile(t) \/ NoteFileMapping(t) \/ ConfigureLoad(t) \/ Return(t)
         \/ LoadVendor(t) \/ LoadGeneration(t) \/ FreshGeneration(t) \/ FreshMilliseconds(t) \/ Scan(t)
         \/ ScanStep(t) \/ ChooseProfile(t) \/ Answer(t)
         \/ NativeLookup(t) \/ RecordStep(t)
         \/ (NativeCpuid(t) /\ Moves(t))
  PROVE  CallerInv'
<1>1. pc \in [Threads -> Labels] /\ pc[t] \in Labels
  BY LocalTypes, Zenon DEF TrapTypes, ThreadTypes
<1>2. \A label : Goto(t, label) => pc'[t] = label
  BY <1>1, Zenon DEF Goto
<1>3. {"cfg_load", "cfg_cas", "idle", "native", "lookup", "answer", "note", "answered", "choose", "generation",
       "fresh_generation", "fresh_ms", "scan", "store_ms", "store_generation", "cpuid", "nat_lock",
       "nat_key", "nat_regs", "nat_len", "nat_unlock"} \subseteq Elsewhere
  <2>1. {"cfg_load", "cfg_cas", "idle", "native", "lookup", "answer", "note"} \subseteq Elsewhere
    BY ZenonT(60) DEF Elsewhere, Labels, InsertLabels, Classified
  <2>2. {"answered", "choose", "generation", "fresh_generation", "fresh_ms", "scan"} \subseteq Elsewhere
    BY ZenonT(60) DEF Elsewhere, Labels, InsertLabels, Classified
  <2>3. {"store_ms", "store_generation", "cpuid", "nat_lock"} \subseteq Elsewhere
    BY ZenonT(60) DEF Elsewhere, Labels, InsertLabels, Classified
  <2>4. {"nat_key", "nat_regs", "nat_len", "nat_unlock"} \subseteq Elsewhere
    BY ZenonT(60) DEF Elsewhere, Labels, InsertLabels, Classified, RecordLabels
  <2> QED
    BY <2>1, <2>2, <2>3, <2>4, Zenon
<1>4. SUFFICES UNCHANGED <<entries, entries_lock>> /\ pc'[t] \in Elsewhere
  BY CallersAway, Zenon
<1>5. CASE \E host \in workload.hosts : StartConfigure(t, host)
  BY <1>2, <1>3, <1>5, Zenon DEF StartConfigure, caches
<1>6. CASE \E trap \in workload.traps, core \in workload.cores : Trap(t, trap, core)
  BY <1>2, <1>3, <1>6, Zenon DEF Trap, caches
<1>7. CASE MapFile(t) \/ NoteFileMapping(t) \/ ConfigureLoad(t) \/ Return(t)
  BY <1>2, <1>3, <1>7, Zenon DEF MapFile, NoteFileMapping, ConfigureLoad, Return, Local, caches
<1>8. CASE LoadVendor(t) \/ LoadGeneration(t) \/ FreshGeneration(t)
  BY <1>2, <1>3, <1>8, Zenon DEF LoadVendor, LoadGeneration, FreshGeneration, Local, caches
<1>9. CASE FreshMilliseconds(t) \/ Scan(t) \/ ScanStep(t) \/ ChooseProfile(t)
  BY <1>2, <1>3, <1>9, Zenon DEF FreshMilliseconds, Scan, ScanStep, StoreMilliseconds, StoreGeneration,
                                 ChooseProfile, ScanEnds, caches
<1>10. CASE Answer(t)
  BY <1>2, <1>3, <1>10, Zenon DEF Answer, Answered, caches
<1>11. CASE NativeLookup(t)
  BY <1>2, <1>3, <1>11, Zenon DEF NativeLookup, Native, caches
<1>12. CASE RecordStep(t)
  <2>1. UNCHANGED <<entries, entries_lock>>
    BY <1>12, RecordsStay, Zenon
  <2> QED
    BY <1>2, <1>3, <1>12, <2>1, Zenon DEF RecordStep, NativeLock, NativeKey, NativeRegisters, NativeLength, NativeUnlock, Native
<1>13. CASE NativeCpuid(t) /\ Moves(t)
  <2>1. UNCHANGED <<entries, entries_lock>>
    BY <1>13, Zenon DEF NativeCpuid, caches
  <2>2. "gone" \in Elsewhere
    BY ZenonT(60) DEF Elsewhere, Labels, InsertLabels, Classified
  <2>3. CASE pc' = [u \in Threads |-> "gone"]
    BY <2>1, <2>2, <2>3, Zenon
  <2> QED
    BY <1>2, <1>3, <1>13, <2>1, <2>3, Zenon DEF NativeCpuid, Native
<1> QED
  BY <1>5, <1>6, <1>7, <1>8, <1>9, <1>10, <1>11, <1>12, <1>13, Zenon

(* Steps of a thread whose caller is classified, or that has none. *)
LEMMA CallersSelect ==
  ASSUME TrapTypes, TrapTypes', CallerInv, Failed => Failed', NEW t \in Threads, Frame(t),
         \/ StartLegacy(t) \/ \E leaf \in workload.calls : GetFixedReply(t, leaf)
         \/ ConfigureCas(t) \/ SelectLoad(t) \/ SelectCas(t) \/ SelectStore(t) \/ Present(t)
  PROVE  CallerInv'
<1>1. pc \in [Threads -> Labels] /\ loc \in [Threads -> Locals] /\ loc[t] \in Locals /\ Rests(t) /\ IsClassified(t)
  BY LocalTypes, Zenon DEF TrapTypes, ThreadTypes, CallerInv
<1>2. /\ \A label : Goto(t, label) => pc'[t] = label
      /\ \A l : Set(t, l) => loc'[t] = l
      /\ UNCHANGED loc => loc'[t] = loc[t]
  BY <1>1, Zenon DEF Goto, Set
<1>3. /\ {"cfg_load", "idle", "answered"} \subseteq Elsewhere
      /\ {"present", "sel_load", "sel_cas", "sel_store", "vendor"} \subseteq Classified
  BY ZenonT(60) DEF Elsewhere, Labels, InsertLabels, Classified
<1>4. UNCHANGED <<entries, entries_lock>>
  <2>1. StartLegacy(t) \/ (\E leaf \in workload.calls : GetFixedReply(t, leaf)) => UNCHANGED caches
    BY Zenon DEF StartLegacy, GetFixedReply
  <2>2. ConfigureCas(t) \/ SelectLoad(t) \/ SelectCas(t) \/ SelectStore(t) \/ Present(t) => UNCHANGED caches
    BY Zenon DEF ConfigureCas, SelectLoad, SelectCas, SelectStore, Present, Local
  <2> QED
    BY <2>1, <2>2, Zenon DEF caches
<1>5. ASSUME pc'[t] \in Classified, loc'[t].leaf = "none" PROVE CallerInv'
  BY <1>4, <1>5, CallersNamed, Zenon
<1>6. ASSUME pc'[t] \in Elsewhere PROVE CallerInv'
  BY <1>4, <1>6, CallersAway, Zenon
<1>7. ASSUME pc[t] \in Classified, pc'[t] \in Classified,
             loc'[t].leaf = loc[t].leaf, loc'[t].rip = loc[t].rip, loc'[t].kind = loc[t].kind
      PROVE  CallerInv'
  BY <1>1, <1>4, <1>7, CallersNamed, Zenon DEF IsClassified
<1>8. CASE StartLegacy(t)
  <2>1. loc'[t].leaf = "none"
    <3>1. loc'[t] = NoLocal
      BY <1>1, <1>2, <1>8, Zenon DEF StartLegacy, Rests
    <3>2. NoLocal.leaf = "none"
      BY Zenon DEF NoLocal
    <3> QED
      BY <3>1, <3>2, Zenon
  <2> QED
    BY <1>2, <1>3, <1>5, <1>8, <2>1, Zenon DEF StartLegacy
<1>9. ASSUME NEW leaf \in workload.calls, GetFixedReply(t, leaf) PROVE CallerInv'
  <2>1. loc'[t] = [NoLocal EXCEPT !.leaf = leaf, !.due = ArtifactDue]
    BY <1>2, <1>9, Zenon DEF GetFixedReply
  <2>2. loc'[t].rip = 0 /\ loc'[t].kind = "Ordinary"
    BY <2>1, Zenon DEF NoLocal
  <2>3. pc'[t] = "vendor" \/ pc'[t] = "answered"
    BY <1>2, <1>9, Zenon DEF GetFixedReply
  <2>4. CASE pc'[t] = "vendor"
    BY <1>3, <1>4, <2>2, <2>4, NobodyAtZero, CallersNamed, Zenon
  <2> QED
    BY <1>3, <1>6, <2>3, <2>4, Zenon
<1>10. CASE ConfigureCas(t)
  <2>1. loc[t].leaf = "none"
    BY <1>1, <1>10, Zenon DEF ConfigureCas, Rests
  <2> QED
    BY <1>2, <1>3, <1>5, <1>6, <1>10, <2>1, Zenon DEF ConfigureCas, AfterConfigure
<1>11. \A w : /\ [loc[t] EXCEPT !.raw = w].leaf = loc[t].leaf
              /\ [loc[t] EXCEPT !.raw = w].rip = loc[t].rip
              /\ [loc[t] EXCEPT !.raw = w].kind = loc[t].kind
  BY <1>1, Zenon DEF Locals
<1>12. CASE SelectLoad(t)
  BY <1>2, <1>3, <1>7, <1>11, <1>12, Zenon DEF SelectLoad, Local
<1>13. CASE SelectStore(t)
  BY <1>2, <1>3, <1>7, <1>11, <1>13, Zenon DEF SelectStore
<1>14. CASE SelectCas(t)
  BY <1>2, <1>3, <1>6, <1>7, <1>14, Zenon DEF SelectCas
<1>15. CASE Present(t)
  <2> DEFINE l == [loc[t] EXCEPT !.seq = 0, !.start = 0, !.end = 0, !.cell = 0]
  <2>1. l.leaf = loc[t].leaf /\ l.rip = loc[t].rip /\ l.kind = loc[t].kind
    BY <1>1, Zenon DEF Locals
  <2>2. loc'[t] = l /\ pc[t] = "present" /\ (pc'[t] = "sel_load" \/ pc'[t] = "vendor")
    BY <1>2, <1>15, Zenon DEF Present, Local
  <2> HIDE DEF l
  <2> QED
    BY <1>3, <1>7, <2>1, <2>2, Zenon
<1> QED
  BY <1>8, <1>9, <1>10, <1>12, <1>13, <1>14, <1>15, Zenon

(* Looking the caller up: a hit is an entry that was whole while it was read. *)
LEMMA CallersLookup ==
  ASSUME TrapTypes, TrapTypes', CallerInv, Failed => Failed', NEW t \in Threads, Frame(t),
         LookupSequence(t) \/ LookupStart(t) \/ LookupEnd(t) \/ LookupKind(t) \/ LookupCheck(t)
  PROVE  CallerInv'
<1>1. pc \in [Threads -> Labels] /\ loc \in [Threads -> Locals] /\ loc[t] \in Locals /\ Looks(t) /\ EntriesAreWhole
  BY LocalTypes, Zenon DEF TrapTypes, ThreadTypes, CallerInv
<1>2. /\ \A label : Goto(t, label) => pc'[t] = label
      /\ \A l : Set(t, l) => loc'[t] = l
      /\ UNCHANGED loc => loc'[t] = loc[t]
  BY <1>1, Zenon DEF Goto, Set
<1>3. UNCHANGED entries /\ UNCHANGED entries_lock
  <2>1. QuietStep(t)
    BY Zenon DEF QuietStep
  <2> QED
    BY <2>1, QuietStays, Zenon DEF SharedStays, caches
<1>4. {"lookup", "classify"} \subseteq Elsewhere /\ "present" \in Classified
  BY ZenonT(60) DEF Elsewhere, Labels, InsertLabels, Classified
<1>5. ASSUME NextCell(t) PROVE CallerInv'
  <2>1. pc'[t] \in Elsewhere
    BY <1>2, <1>4, <1>5, Zenon DEF NextCell
  <2> QED
    BY <1>3, <2>1, CallersAway, Zenon
<1>6. /\ loc[t].cell \in Cells /\ Cell(t) = entries[loc[t].cell] /\ Cell(t)' = entries[loc'[t].cell]
      /\ loc[t].seq \in Nat /\ loc[t].start \in Nat /\ loc[t].end \in Nat /\ loc[t].rip \in Nat /\ Cell(t).seq \in Nat
  BY <1>3, LocalTypes, Zenon DEF Cell
<1>7. ASSUME pc'[t] \in {"start", "end", "kind", "check"}, Looks(t)' PROVE CallerInv'
  <2>1. Inserts(t)'
    BY <1>7, Zenon DEF Inserts, InsertLabels
  <2>2. IsClassified(t)' /\ pc'[t] \notin InsertLabels
    BY <1>7, Zenon DEF IsClassified, InsertLabels, Classified
  <2> QED
    BY <1>3, <1>7, <2>1, <2>2, CallersKept, Zenon
<1>8. CASE LookupSequence(t)
  <2>1. CASE Cell(t).seq % 2 = 0 /\ Goto(t, "start") /\ Set(t, [loc[t] EXCEPT !.seq = Cell(t).seq])
    <3> DEFINE n == Cell(t).seq
    <3> HIDE DEF n
    <3>1. pc'[t] = "start" /\ loc'[t] = [loc[t] EXCEPT !.seq = n]
      BY <1>2, <2>1, Zenon DEF n
    <3>2. loc'[t].seq = n /\ loc'[t].cell = loc[t].cell
      BY <1>1, <3>1, Zenon DEF Locals
    <3>3. Cell(t)' = Cell(t) /\ Cell(t)'.seq = n
      BY <1>6, <3>2, Zenon DEF n
    <3>4. n <= n /\ n % 2 = 0
      BY <1>6, <2>1, SMT DEF n
    <3>5. Looks(t)'
      BY <3>1, <3>2, <3>3, <3>4, Zenon DEF Looks
    <3> QED
      BY <1>7, <3>1, <3>5, Zenon
  <2> QED
    BY <1>5, <1>8, <2>1, Zenon DEF LookupSequence
<1>9. CASE LookupStart(t)
  <2> DEFINE n == Cell(t).start
  <2> HIDE DEF n
  <2>1. pc[t] = "start" /\ pc'[t] = "end" /\ loc'[t] = [loc[t] EXCEPT !.start = n]
    BY <1>2, <1>9, Zenon DEF LookupStart, Local, n
  <2>2. loc'[t].start = n /\ loc'[t].cell = loc[t].cell /\ loc'[t].seq = loc[t].seq
    BY <1>1, <2>1, Zenon DEF Locals
  <2>3. Cell(t)' = Cell(t)
    BY <1>6, <2>2, Zenon
  <2>4. Looks(t)'
    BY <1>1, <2>1, <2>2, <2>3, Zenon DEF Looks, n
  <2> QED
    BY <1>7, <2>1, <2>4, Zenon
<1>10. CASE LookupEnd(t)
  <2> DEFINE n == Cell(t).end
  <2> HIDE DEF n
  <2>1. pc[t] = "end" /\ pc'[t] = "kind" /\ loc'[t] = [loc[t] EXCEPT !.end = n]
    BY <1>2, <1>10, Zenon DEF LookupEnd, Local, n
  <2>2. /\ loc'[t].end = n /\ loc'[t].cell = loc[t].cell /\ loc'[t].seq = loc[t].seq /\ loc'[t].start = loc[t].start
    BY <1>1, <2>1, Zenon DEF Locals
  <2>3. Cell(t)' = Cell(t)
    BY <1>6, <2>2, Zenon
  <2>4. Looks(t)'
    BY <1>1, <2>1, <2>2, <2>3, Zenon DEF Looks, n
  <2> QED
    BY <1>7, <2>1, <2>4, Zenon
<1>11. CASE LookupKind(t)
  <2> DEFINE n == Cell(t).kind
  <2> HIDE DEF n
  <2>1. pc[t] = "kind" /\ pc'[t] = "check" /\ loc'[t] = [loc[t] EXCEPT !.kind = n]
    BY <1>2, <1>11, Zenon DEF LookupKind, Local, n
  <2>2. /\ loc'[t].kind = n /\ loc'[t].cell = loc[t].cell /\ loc'[t].seq = loc[t].seq
        /\ loc'[t].start = loc[t].start /\ loc'[t].end = loc[t].end
    BY <1>1, <2>1, Zenon DEF Locals
  <2>3. Cell(t)' = Cell(t)
    BY <1>6, <2>2, Zenon
  <2>4. Looks(t)'
    BY <1>1, <2>1, <2>2, <2>3, Zenon DEF Looks, n
  <2> QED
    BY <1>7, <2>1, <2>4, Zenon
<1>12. CASE LookupCheck(t)
  <2>1. ASSUME Cell(t).seq = loc[t].seq, loc[t].rip \in loc[t].start..(loc[t].end - 1), Goto(t, "present"), UNCHANGED loc
        PROVE  CallerInv'
    <3>1. pc[t] = "check"
      BY <1>12, Zenon DEF LookupCheck
    <3>2. /\ loc[t].seq % 2 = 0
          /\ loc[t].start = Cell(t).start /\ loc[t].end = Cell(t).end /\ loc[t].kind = Cell(t).kind
      BY <1>1, <2>1, <3>1, Zenon DEF Looks
    <3>3. IsWhole(Cell(t))
      BY <1>1, <1>6, <2>1, <3>2, Zenon DEF EntriesAreWhole
    <3>4. ~(loc[t].start = 0 /\ loc[t].end = 0)
      BY <1>6, <2>1, SMT
    <3>5. PICK m \in Mappings : IsRangeOf(m, Cell(t)) /\ IsKindOf(m, Cell(t).kind)
      BY <3>2, <3>3, <3>4, Zenon DEF IsWhole
    <3>6. m \in MappingsAt(loc[t].rip) /\ IsKindOf(m, loc[t].kind)
      BY <2>1, <3>2, <3>5, Zenon DEF MappingsAt, IsRangeOf
    <3>7. Suits(loc'[t].rip, loc'[t].kind) /\ pc'[t] \in Classified
      BY <1>2, <1>4, <2>1, <3>6, Zenon DEF Suits
    <3> QED
      BY <1>3, <3>7, CallersNamed, Zenon
  <2> QED
    BY <1>5, <1>12, <2>1, Zenon DEF LookupCheck
<1> QED
  BY <1>8, <1>9, <1>10, <1>11, <1>12, Zenon

(* Reading the maps: the mapping of the address and its kind. *)
LEMMA CallersClassify ==
  ASSUME TrapTypes, TrapTypes', CallerInv, Failed => Failed', workload' = workload, NEW t \in Threads, Frame(t),
         Classify(t) \/ Search(t)
  PROVE  CallerInv'
<1>1. pc \in [Threads -> Labels] /\ loc \in [Threads -> Locals] /\ loc[t] \in Locals /\ Inserts(t)
  BY LocalTypes, Zenon DEF TrapTypes, ThreadTypes, CallerInv
<1>2. /\ \A label : Goto(t, label) => pc'[t] = label
      /\ \A l : Set(t, l) => loc'[t] = l
  BY <1>1, Zenon DEF Goto, Set
<1>3. UNCHANGED entries /\ UNCHANGED entries_lock
  BY Zenon DEF Classify, Search, Local, caches
<1>4. ASSUME pc'[t] = "insert", \E m \in MappingsAt(loc'[t].rip) : IsRangeOf(m, loc'[t]) /\ IsKindOf(m, loc'[t].kind)
      PROVE  CallerInv'
  <2>1. Inserts(t)'
    BY <1>4, Zenon DEF Inserts, InsertLabels
  <2>2. Looks(t)' /\ IsClassified(t)' /\ pc'[t] \notin InsertLabels
    BY <1>4, Zenon DEF Looks, IsClassified, InsertLabels, Classified
  <2> QED
    BY <1>3, <2>1, <2>2, CallersKept, Zenon
<1>5. ASSUME pc'[t] = "search", \E m \in MappingsAt(loc'[t].rip) : IsRangeOf(m, loc'[t]) /\ m.path = "Ordinary"
      PROVE  CallerInv'
  <2>1. Inserts(t)'
    BY <1>5, Zenon DEF Inserts, InsertLabels
  <2>2. Looks(t)' /\ IsClassified(t)' /\ pc'[t] \notin InsertLabels
    BY <1>5, Zenon DEF Looks, IsClassified, InsertLabels, Classified
  <2> QED
    BY <1>3, <2>1, <2>2, CallersKept, Zenon
<1>6. \A k : /\ [loc[t] EXCEPT !.kind = k].rip = loc[t].rip /\ [loc[t] EXCEPT !.kind = k].kind = k
             /\ [loc[t] EXCEPT !.kind = k].start = loc[t].start /\ [loc[t] EXCEPT !.kind = k].end = loc[t].end
  BY <1>1, Zenon DEF Locals
<1>7. ASSUME Goto(t, "vendor"), Set(t, [loc[t] EXCEPT !.kind = "Ordinary"]), MappingsAt(loc[t].rip) = {} \/ Failed'
      PROVE  CallerInv'
  <2>1. /\ pc'[t] = "vendor" /\ loc'[t].rip = loc[t].rip /\ loc'[t].kind = "Ordinary" /\ "vendor" \in Classified
    <3>1. loc'[t] = [loc[t] EXCEPT !.kind = "Ordinary"] /\ pc'[t] = "vendor"
      BY <1>2, <1>7, Zenon
    <3>2. "vendor" \in Classified
      BY Zenon DEF Classified
    <3> QED
      BY <1>1, <3>1, <3>2, Zenon DEF Locals
  <2>2. Suits(loc'[t].rip, loc'[t].kind) \/ (loc'[t].kind = "Ordinary" /\ Failed')
    BY <1>7, <2>1, Zenon DEF Suits
  <2> QED
    BY <1>3, <2>1, <2>2, CallersNamed, Zenon
<1>8. CASE Classify(t)
  <2>1. Count("failures") => Failed'
    BY FailureShows, Zenon
  <2>2. ASSUME NEW m \in MappingsAt(loc[t].rip),
               Set(t, [loc[t] EXCEPT !.kind = m.path, !.start = m.start, !.end = m.end]),
               Goto(t, IF m.path = "Ordinary" THEN "search" ELSE "insert")
        PROVE  CallerInv'
    <3> DEFINE p == m.path
               a == m.start
               b == m.end
    <3>1. loc'[t] = [loc[t] EXCEPT !.kind = p, !.start = a, !.end = b]
      BY <1>2, <2>2, Zenon
    <3> HIDE DEF p, a, b
    <3>2. loc'[t].rip = loc[t].rip /\ loc'[t].kind = p /\ loc'[t].start = a /\ loc'[t].end = b
      BY <1>1, <3>1, Zenon DEF Locals
    <3>3. m \in MappingsAt(loc'[t].rip) /\ IsRangeOf(m, loc'[t]) /\ IsKindOf(m, loc'[t].kind)
      BY <3>2, Zenon DEF IsRangeOf, IsKindOf, p, a, b
    <3> QED
      BY <1>2, <1>4, <1>5, <2>2, <3>3, Zenon
  <2> QED
    BY <1>7, <1>8, <2>1, <2>2, Zenon DEF Classify
<1>9. CASE Search(t)
  <2>1. PICK m \in MappingsAt(loc[t].rip) :
          Local(t, "search", "insert", [loc[t] EXCEPT !.kind = IF established THEN "Ordinary" ELSE m.image])
    BY <1>9, Zenon DEF Search
  <2>2. PICK n \in MappingsAt(loc[t].rip) : IsRangeOf(n, loc[t]) /\ n.path = "Ordinary"
    BY <1>1, <2>1, Zenon DEF Local, Inserts
  <2>3. m = n
    BY <2>1, <2>2, OneMapping, LocalTypes, Zenon
  <2> DEFINE k == IF established THEN "Ordinary" ELSE m.image
  <2>4. IsKindOf(n, k)
    BY <2>2, <2>3, Zenon DEF IsKindOf
  <2>5. pc'[t] = "insert" /\ loc'[t] = [loc[t] EXCEPT !.kind = k]
    BY <1>2, <2>1, Zenon DEF Local
  <2> HIDE DEF k
  <2>6. loc'[t].rip = loc[t].rip /\ loc'[t].kind = k /\ loc'[t].start = loc[t].start /\ loc'[t].end = loc[t].end
    BY <1>1, <2>5, Zenon DEF Locals
  <2>7. n \in MappingsAt(loc'[t].rip) /\ IsRangeOf(n, loc'[t]) /\ IsKindOf(n, loc'[t].kind)
    BY <2>2, <2>4, <2>6, Zenon DEF IsRangeOf
  <2> QED
    BY <1>4, <2>5, <2>7, Zenon
<1> QED
  BY <1>8, <1>9, Zenon

(* Taking or giving back the lock of the cache. *)
LEMMA CallersLocked ==
  ASSUME TrapTypes, TrapTypes', CallerInv, Failed => Failed', NEW t \in Threads, Frame(t), UNCHANGED entries,
         \A u \in Threads \ {t} : pc[u] \notin InsertLabels,
         pc'[t] \in InsertLabels => entries_lock', EntriesAreWhole', Inserts(t)', Looks(t)', IsClassified(t)'
  PROVE  CallerInv'
<1>1. \A u \in Threads \ {t} : pc'[u] = pc[u] /\ loc'[u] = loc[u]
  BY Zenon DEF Frame
<1>2. InsertsOwn'
  BY <1>1, Zenon DEF InsertsOwn
<1>3. \A c \in Cells : /\ entries[c].seq <= entries'[c].seq
                       /\ entries'[c].seq = entries[c].seq => entries'[c] = entries[c] \/ entries[c].seq % 2 = 1
  <2>1. \A c \in Cells : entries[c].seq \in Nat
    BY Zenon DEF TrapTypes, SharedTypes, Entry
  <2>2. \A n \in Nat : n <= n
    BY SMT
  <2> QED
    BY <2>1, <2>2, Zenon
<1>4. ASSUME NEW u \in Threads \ {t} PROVE Inserts(u)' /\ Looks(u)' /\ IsClassified(u)'
  <2>1. pc'[u] = pc[u] /\ loc'[u] = loc[u] /\ Inserts(u) /\ Looks(u) /\ IsClassified(u) /\ pc[u] \notin InsertLabels
    BY <1>1, Zenon DEF CallerInv
  <2>2. Inserts(u)'
    BY <2>1, Zenon DEF Inserts, InsertLabels
  <2> QED
    BY <1>3, <2>1, <2>2, ReadersKept, Zenon
<1> QED
  BY <1>2, <1>4, Zenon DEF CallerInv

(* Inserting: the entry is odd from the first store to the last. *)
LEMMA CallersInsert ==
  ASSUME TrapTypes, TrapTypes', CallerInv, Failed => Failed', NEW t \in Threads, Frame(t), EntryStep(t)
  PROVE  CallerInv'
<1>1. /\ pc \in [Threads -> Labels] /\ loc \in [Threads -> Locals] /\ loc[t] \in Locals /\ Inserts(t)
      /\ EntriesAreWhole /\ InsertsOwn
  BY LocalTypes, Zenon DEF TrapTypes, ThreadTypes, CallerInv
<1>2. /\ \A label : Goto(t, label) => pc'[t] = label
      /\ \A l : Set(t, l) => loc'[t] = l
      /\ UNCHANGED loc => loc'[t] = loc[t]
  BY <1>1, Zenon DEF Goto, Set
<1>3. /\ loc[t].cell \in Cells /\ Cell(t) \in Entry /\ Cell(t).seq \in Nat
      /\ loc[t].start \in Nat /\ loc[t].end \in Nat /\ loc[t].kind \in Kinds
  BY LocalTypes, Zenon
<1>4. pc[t] \in InsertLabels \cup {"insert"} =>
        \E m \in MappingsAt(loc[t].rip) : IsRangeOf(m, loc[t]) /\ IsKindOf(m, loc[t].kind)
  BY <1>1, Zenon DEF Inserts
<1>5. pc[t] \in InsertLabels => \A u \in Threads \ {t} : pc[u] \notin InsertLabels
  BY <1>1, Zenon DEF InsertsOwn
<1>6. \A c : /\ [loc[t] EXCEPT !.cell = c].rip = loc[t].rip /\ [loc[t] EXCEPT !.cell = c].kind = loc[t].kind
             /\ [loc[t] EXCEPT !.cell = c].start = loc[t].start /\ [loc[t] EXCEPT !.cell = c].end = loc[t].end
  BY <1>1, Zenon DEF Locals
<1>7. "present" \in Classified /\ "present" \notin InsertLabels
  BY Zenon DEF Classified, InsertLabels
<1>8. ASSUME pc[t] = "insert", entries_lock, Goto(t, "present"), UNCHANGED <<entries, entries_lock, loc>>
      PROVE  CallerInv'
  <2>1. Suits(loc'[t].rip, loc'[t].kind) /\ pc'[t] \in Classified
    BY <1>2, <1>4, <1>7, <1>8, Zenon DEF Suits
  <2> QED
    BY <1>8, <2>1, CallersNamed, Zenon
<1>9. ASSUME pc[t] = "insert", ~entries_lock, entries_lock' = TRUE, UNCHANGED entries,
             Set(t, [loc[t] EXCEPT !.cell = entries_next % CallerCap]), Goto(t, "ins_odd")
      PROVE  CallerInv'
  <2> DEFINE c == entries_next % CallerCap
  <2> HIDE DEF c
  <2>1. pc'[t] = "ins_odd" /\ loc'[t] = [loc[t] EXCEPT !.cell = c]
    BY <1>2, <1>9, Zenon DEF c
  <2>2. \E m \in MappingsAt(loc'[t].rip) : IsRangeOf(m, loc'[t]) /\ IsKindOf(m, loc'[t].kind)
    <3>1. /\ loc'[t].rip = loc[t].rip /\ loc'[t].kind = loc[t].kind
          /\ loc'[t].start = loc[t].start /\ loc'[t].end = loc[t].end
      BY <1>1, <2>1, Zenon DEF Locals
    <3> QED
      BY <1>4, <1>9, <3>1, Zenon DEF IsRangeOf
  <2>3. Inserts(t)'
    BY <1>1, <1>9, <2>1, <2>2, Zenon DEF Inserts, EntriesAreWhole
  <2>4. Looks(t)' /\ IsClassified(t)'
    BY <2>1, Zenon DEF Looks, IsClassified, Classified
  <2>5. EntriesAreWhole'
    BY <1>1, <1>9, Zenon DEF EntriesAreWhole
  <2>6. \A u \in Threads \ {t} : pc[u] \notin InsertLabels
    BY <1>1, <1>9, Zenon DEF InsertsOwn
  <2> QED
    BY <1>9, <2>3, <2>4, <2>5, <2>6, CallersLocked, Zenon
<1>10. CASE InsertLock(t)
  BY <1>8, <1>9, <1>10, Zenon DEF InsertLock
<1>11. CASE InsertUnlock(t)
  <2>1. pc[t] = "ins_unlock" /\ pc'[t] = "present" /\ loc'[t] = [loc[t] EXCEPT !.cell = 0] /\ UNCHANGED entries
    BY <1>2, <1>11, Zenon DEF InsertUnlock
  <2>2. loc'[t].rip = loc[t].rip /\ loc'[t].kind = loc[t].kind
    BY <1>6, <2>1, Zenon
  <2>3. pc[t] \in InsertLabels
    BY <2>1, Zenon DEF InsertLabels
  <2>4. Suits(loc'[t].rip, loc'[t].kind)
    BY <1>4, <2>2, <2>3, Zenon DEF Suits
  <2>5. IsClassified(t)'
    BY <2>4, Zenon DEF IsClassified
  <2>6. Looks(t)'
    BY <2>1, Zenon DEF Looks
  <2>7. Inserts(t)'
    BY <2>1, Zenon DEF Inserts, InsertLabels
  <2>8. EntriesAreWhole'
    BY <1>1, <2>1, Zenon DEF EntriesAreWhole, Inserts
  <2> QED
    BY <1>5, <1>7, <2>1, <2>3, <2>5, <2>6, <2>7, <2>8, CallersLocked, Zenon
<1>12. \A e \in Entry : e.seq \in Nat
  BY Zenon DEF Entry
<1> DEFINE s == Cell(t).seq
<1>13. s \in Nat /\ s <= s /\ s <= s + 1 /\ s + 1 # s /\ s + 1 \in Nat
  BY <1>3, SMT
<1>14. {"ins_odd", "ins_start", "ins_end", "ins_kind", "ins_even", "ins_unlock"} = InsertLabels
  BY Zenon DEF InsertLabels
<1>15. CASE InsertOdd(t)
  <2> DEFINE e == [Cell(t) EXCEPT !.seq = Cell(t).seq + 1]
  <2>1. /\ pc[t] = "ins_odd" /\ pc'[t] = "ins_start" /\ loc'[t] = loc[t] /\ UNCHANGED entries_lock
        /\ entries' = [entries EXCEPT ![loc[t].cell] = e]
    BY <1>2, <1>15, Zenon DEF InsertOdd, StoreCell
  <2>2. e \in Entry /\ e.seq = s + 1
    BY <1>3, <1>13, Zenon DEF Entry
  <2>3. \A c \in Cells : entries[c].seq % 2 = 0
    BY <1>1, <2>1, Zenon DEF Inserts
  <2>4. e.seq % 2 = 1 /\ e.seq % 2 # 0
    <3>1. s % 2 = 0
      BY <1>3, <2>3, Zenon DEF Cell
    <3>2. (s + 1) % 2 = 1 /\ (s + 1) % 2 # 0
      BY <1>13, <3>1, SMT
    <3> QED
      BY <2>2, <3>2, Zenon
  <2> HIDE DEF e
  <2>5. s <= e.seq /\ e.seq # s
    BY <1>13, <2>2, Zenon
  <2> HIDE DEF s
  <2> QED
    BY <1>14, <2>1, <2>2, <2>3, <2>4, <2>5, CallersStored, Zenon DEF s
<1>16. ASSUME pc[t] \in {"ins_start", "ins_end", "ins_kind", "ins_even"}
       PROVE  s % 2 = 1 /\ s % 2 # 0 /\ \A c \in Cells \ {loc[t].cell} : entries[c].seq % 2 = 0
  <2>1. s % 2 = 1 /\ \A c \in Cells \ {loc[t].cell} : entries[c].seq % 2 = 0
    BY <1>1, <1>16, Zenon DEF Inserts
  <2>2. s % 2 # 0
    BY <2>1, SMT
  <2> QED
    BY <2>1, <2>2, Zenon
<1>17. CASE InsertStart(t)
  <2> DEFINE n == loc[t].start
             e == [Cell(t) EXCEPT !.start = n]
  <2>1. /\ pc[t] = "ins_start" /\ pc'[t] = "ins_end" /\ loc'[t] = loc[t] /\ UNCHANGED entries_lock
        /\ entries' = [entries EXCEPT ![loc[t].cell] = e]
    BY <1>2, <1>17, Zenon DEF InsertStart, StoreCell
  <2>2. e \in Entry /\ e.seq = s /\ e.start = n
    BY <1>3, Zenon DEF Entry
  <2> HIDE DEF e
  <2>3. s % 2 = 1 /\ s % 2 # 0 /\ \A c \in Cells \ {loc[t].cell} : entries[c].seq % 2 = 0
    BY <1>16, <2>1, Zenon
  <2> HIDE DEF s
  <2> QED
    BY <1>13, <1>14, <2>1, <2>2, <2>3, CallersStored, Zenon DEF s
<1>18. CASE InsertEnd(t)
  <2> DEFINE n == loc[t].end
             e == [Cell(t) EXCEPT !.end = n]
  <2>1. /\ pc[t] = "ins_end" /\ pc'[t] = "ins_kind" /\ loc'[t] = loc[t] /\ UNCHANGED entries_lock
        /\ entries' = [entries EXCEPT ![loc[t].cell] = e]
    BY <1>2, <1>18, Zenon DEF InsertEnd, StoreCell
  <2>2. e \in Entry /\ e.seq = s /\ e.start = Cell(t).start /\ e.end = n
    BY <1>3, Zenon DEF Entry
  <2>3. Cell(t).start = loc[t].start
    BY <1>1, <2>1, Zenon DEF Inserts
  <2> HIDE DEF e
  <2>4. s % 2 = 1 /\ s % 2 # 0 /\ \A c \in Cells \ {loc[t].cell} : entries[c].seq % 2 = 0
    BY <1>16, <2>1, Zenon
  <2> HIDE DEF s
  <2> QED
    BY <1>13, <1>14, <2>1, <2>2, <2>3, <2>4, CallersStored, Zenon DEF s
<1>19. CASE InsertKind(t)
  <2> DEFINE n == loc[t].kind
             e == [Cell(t) EXCEPT !.kind = n]
  <2>1. /\ pc[t] = "ins_kind" /\ pc'[t] = "ins_even" /\ loc'[t] = loc[t] /\ UNCHANGED entries_lock
        /\ entries' = [entries EXCEPT ![loc[t].cell] = e]
    BY <1>2, <1>19, Zenon DEF InsertKind, StoreCell
  <2>2. e \in Entry /\ e.seq = s /\ e.start = Cell(t).start /\ e.end = Cell(t).end /\ e.kind = n
    BY <1>3, Zenon DEF Entry
  <2>3. Cell(t).start = loc[t].start /\ Cell(t).end = loc[t].end
    BY <1>1, <2>1, Zenon DEF Inserts
  <2> HIDE DEF e
  <2>4. s % 2 = 1 /\ s % 2 # 0 /\ \A c \in Cells \ {loc[t].cell} : entries[c].seq % 2 = 0
    BY <1>16, <2>1, Zenon
  <2> HIDE DEF s
  <2> QED
    BY <1>13, <1>14, <2>1, <2>2, <2>3, <2>4, CallersStored, Zenon DEF s
<1>20. CASE InsertEven(t)
  <2> DEFINE e == [Cell(t) EXCEPT !.seq = Cell(t).seq + 1]
  <2>1. /\ pc[t] = "ins_even" /\ pc'[t] = "ins_unlock" /\ loc'[t] = loc[t] /\ UNCHANGED entries_lock
        /\ entries' = [entries EXCEPT ![loc[t].cell] = e]
    BY <1>2, <1>20, Zenon DEF InsertEven, StoreCell
  <2>2. e \in Entry /\ e.seq = s + 1 /\ e.start = Cell(t).start /\ e.end = Cell(t).end /\ e.kind = Cell(t).kind
    BY <1>3, <1>13, Zenon DEF Entry
  <2>3. Cell(t).start = loc[t].start /\ Cell(t).end = loc[t].end /\ Cell(t).kind = loc[t].kind
    BY <1>1, <2>1, Zenon DEF Inserts
  <2> HIDE DEF e
  <2>4. s % 2 = 1 /\ \A c \in Cells \ {loc[t].cell} : entries[c].seq % 2 = 0
    BY <1>16, <2>1, Zenon
  <2>5. e.seq % 2 = 0 /\ s <= e.seq /\ e.seq # s
    BY <1>13, <2>2, <2>4, Parity, Zenon
  <2>6. IsWhole(e)
    <3>1. PICK m \in MappingsAt(loc[t].rip) : IsRangeOf(m, loc[t]) /\ IsKindOf(m, loc[t].kind)
      BY <1>4, <1>14, <2>1, Zenon
    <3>2. m \in Mappings
      BY Zenon DEF MappingsAt
    <3>3. IsRangeOf(m, e) /\ IsKindOf(m, e.kind)
      BY <2>2, <2>3, <3>1, Zenon DEF IsRangeOf
    <3> QED
      BY <3>2, <3>3, Zenon DEF IsWhole
  <2> HIDE DEF s
  <2> QED
    BY <1>14, <2>1, <2>2, <2>4, <2>5, <2>6, CallersStored, Zenon DEF s
<1> QED
  BY <1>10, <1>11, <1>15, <1>17, <1>18, <1>19, <1>20, Zenon DEF EntryStep

(* No thread is in the cache after the process has ended, or in a child. *)
LEMMA CallersEnd ==
  ASSUME CallerInv, Ends, UNCHANGED <<entries, entries_lock>>
  PROVE  CallerInv'
<1>1. \A u \in Threads : pc'[u] \notin InsertLabels
  BY Zenon DEF Ends, InsertLabels
<1>2. InsertsOwn' /\ EntriesAreWhole'
  BY <1>1, Zenon DEF CallerInv, InsertsOwn, EntriesAreWhole
<1>3. \A u \in Threads : Inserts(u)'
  BY Zenon DEF Ends, Inserts, InsertLabels
<1>4. \A u \in Threads : Looks(u)' /\ IsClassified(u)'
  BY Zenon DEF Ends, Looks, IsClassified, Classified
<1> QED
  BY <1>2, <1>3, <1>4, Zenon DEF CallerInv

(* Every step keeps what holds of the cache of callers. *)
LEMMA CallersHold ==
  ASSUME TrapTypes, TrapTypes', CallerInv, [Next]_vars
  PROVE  CallerInv'
<1>1. (Failed => Failed') /\ workload' = workload
  BY FailuresStay, Zenon
<1>2. ASSUME NEW t \in Threads, ThreadStep(t), Moves(t), Frame(t) PROVE CallerInv'
  <2>1. \/ \/ \E host \in workload.hosts : StartConfigure(t, host)
           \/ \E trap \in workload.traps, core \in workload.cores : Trap(t, trap, core)
           \/ MapFile(t) \/ NoteFileMapping(t) \/ ConfigureLoad(t) \/ Return(t)
           \/ LoadVendor(t) \/ LoadGeneration(t) \/ FreshGeneration(t) \/ FreshMilliseconds(t) \/ Scan(t)
           \/ ScanStep(t) \/ ChooseProfile(t) \/ Answer(t)
           \/ NativeLookup(t) \/ RecordStep(t)
           \/ (NativeCpuid(t) /\ Moves(t))
        \/ \/ StartLegacy(t) \/ \E leaf \in workload.calls : GetFixedReply(t, leaf)
           \/ ConfigureCas(t) \/ SelectLoad(t) \/ SelectCas(t) \/ SelectStore(t) \/ Present(t)
        \/ LookupSequence(t) \/ LookupStart(t) \/ LookupEnd(t) \/ LookupKind(t) \/ LookupCheck(t)
        \/ Classify(t) \/ Search(t)
        \/ EntryStep(t)
    BY <1>2, Zenon DEF ThreadStep, HandlerStep, ScanStep, RecordStep, EntryStep
  <2> QED
    BY <1>1, <1>2, <2>1, CallersWork, CallersSelect, CallersLookup, CallersClassify, CallersInsert, Zenon
<1>3. CASE Ends /\ UNCHANGED <<flags, caches, scans, world>>
  BY <1>3, CallersEnd, Zenon DEF caches
<1>4. CASE LoaderMaps \/ Tick \/ UNCHANGED vars
  <2>1. UNCHANGED pc /\ UNCHANGED loc /\ UNCHANGED entries /\ UNCHANGED entries_lock
    BY <1>4, Zenon DEF LoaderMaps, Tick, vars, caches
  <2>2. InsertsOwn' /\ EntriesAreWhole'
    BY <2>1, Zenon DEF CallerInv, InsertsOwn, EntriesAreWhole
  <2>3. \A u \in Threads : Inserts(u)'
    BY <2>1, Zenon DEF CallerInv, Inserts, Cell
  <2>4. \A u \in Threads : Looks(u)' /\ IsClassified(u)'
    BY <1>1, <2>1, Zenon DEF CallerInv, Looks, Cell, IsClassified
  <2> QED
    BY <2>2, <2>3, <2>4, Zenon DEF CallerInv
<1> QED
  BY <1>2, <1>3, <1>4, StepCases, Zenon

-----------------------------------------------------------------------------
(* The cache of native replies *)

(* A step of t that leaves the cache alone. *)
LEMMA NativesKept ==
  ASSUME NativeInv, Failed => Failed', NEW t \in Threads, Frame(t),
         UNCHANGED <<native, native_len, native_lock>>, pc'[t] \notin RecordLabels, Records(t)', IsAnswered(t)'
  PROVE  NativeInv'
<1>1. RecordsOwn' /\ CellsAreWhole'
  BY Zenon DEF NativeInv, RecordsOwn, CellsAreWhole, Frame
<1>2. ASSUME NEW u \in Threads \ {t} PROVE Records(u)' /\ IsAnswered(u)'
  <2>1. pc'[u] = pc[u] /\ loc'[u] = loc[u] /\ Records(u) /\ IsAnswered(u)
    BY Zenon DEF NativeInv, Frame
  <2>2. Records(u)'
    BY <2>1, Zenon DEF Records
  <2>3. IsAnswered(u)'
    BY <2>1, Zenon DEF IsAnswered
  <2> QED
    BY <2>2, <2>3, Zenon
<1> QED
  BY <1>1, <1>2, Zenon DEF NativeInv

(* A step of the thread that records, or that takes or gives back the lock. *)
LEMMA NativesOwned ==
  ASSUME NativeInv, Failed => Failed', NEW t \in Threads, Frame(t),
         \A u \in Threads \ {t} : pc[u] \notin RecordLabels,
         pc'[t] \in RecordLabels => native_lock', CellsAreWhole', Records(t)', IsAnswered(t)'
  PROVE  NativeInv'
<1>1. RecordsOwn'
  BY Zenon DEF RecordsOwn, Frame
<1>2. ASSUME NEW u \in Threads \ {t} PROVE Records(u)' /\ IsAnswered(u)'
  <2>1. pc'[u] = pc[u] /\ loc'[u] = loc[u] /\ Records(u) /\ IsAnswered(u) /\ pc[u] \notin RecordLabels
    BY Zenon DEF NativeInv, Frame
  <2>2. Records(u)'
    BY <2>1, Zenon DEF Records, RecordLabels
  <2>3. IsAnswered(u)'
    BY <2>1, Zenon DEF IsAnswered
  <2> QED
    BY <2>2, <2>3, Zenon
<1> QED
  BY <1>1, <1>2, Zenon DEF NativeInv

(* Steps that lead away from the cache. *)
Unrecorded == Labels \ (RecordLabels \cup {"nat_lock", "answered"})

LEMMA NativesAway ==
  ASSUME NativeInv, Failed => Failed', NEW t \in Threads, Frame(t),
         UNCHANGED <<native, native_len, native_lock>>,
         pc'[t] \in Unrecorded \/ (pc'[t] = "answered" /\ loc'[t].reply # "native")
  PROVE  NativeInv'
<1>1. Records(t)' /\ IsAnswered(t)' /\ pc'[t] \notin RecordLabels
  BY Zenon DEF Records, IsAnswered, Unrecorded, RecordLabels
<1> QED
  BY <1>1, NativesKept, Zenon

(* The labels of the other steps. *)
LEMMA UnrecordedLabels ==
  /\ {"idle", "cfg_load", "cfg_cas", "sel_load", "sel_cas", "sel_store", "vendor", "native", "lookup"} \subseteq Unrecorded
  /\ {"answer", "start", "end", "kind", "check", "classify", "search", "insert", "present", "note"} \subseteq Unrecorded
  /\ {"ins_odd", "ins_start", "ins_end", "ins_kind", "ins_even", "ins_unlock", "cpuid"} \subseteq Unrecorded
  /\ {"generation", "fresh_generation", "fresh_ms", "scan", "store_ms", "store_generation", "choose"} \subseteq Unrecorded
<1>1. {"idle", "cfg_load", "cfg_cas", "sel_load", "sel_cas", "sel_store", "vendor", "native", "lookup"} \subseteq Unrecorded
  BY ZenonT(60) DEF Unrecorded, Labels, RecordLabels
<1>2. {"answer", "start", "end", "kind", "check", "classify", "search", "insert", "present", "note"} \subseteq Unrecorded
  BY ZenonT(60) DEF Unrecorded, Labels, RecordLabels
<1>3. {"ins_odd", "ins_start", "ins_end", "ins_kind", "ins_even", "ins_unlock", "cpuid"} \subseteq Unrecorded
  BY ZenonT(60) DEF Unrecorded, Labels, RecordLabels, InsertLabels
<1>4. {"generation", "fresh_generation", "fresh_ms", "scan", "store_ms", "store_generation", "choose"} \subseteq Unrecorded
  BY ZenonT(60) DEF Unrecorded, Labels, RecordLabels
<1> QED
  BY <1>1, <1>2, <1>3, <1>4, Zenon

(* The steps that have nothing to do with the cache. *)
LEMMA NativesOther ==
  ASSUME TrapTypes, NativeInv, Failed => Failed', NEW t \in Threads, Frame(t),
         ThreadStep(t), ~NativeLookup(t), ~NativeCpuid(t), ~RecordStep(t)
  PROVE  NativeInv'
<1>1. pc \in [Threads -> Labels] /\ loc \in [Threads -> Locals] /\ loc[t] \in Locals
  BY LocalTypes, Zenon DEF TrapTypes, ThreadTypes
<1>2. /\ \A label : Goto(t, label) => pc'[t] = label
      /\ \A l : Set(t, l) => loc'[t] = l
  BY <1>1, Zenon DEF Goto, Set
<1>3. UNCHANGED <<native, native_len, native_lock>>
  <2>1. QuietStep(t) \/ CountingStep(t) \/ FlagStep(t) \/ EntryStep(t) \/ ScanStep(t) \/ MapFile(t) \/ NoteFileMapping(t)
    BY Zenon DEF ThreadStep, HandlerStep, QuietStep, CountingStep, FlagStep, EntryStep, ScanStep, RecordStep
  <2>2. EntryStep(t) => UNCHANGED <<native, native_len, native_lock>>
    BY EntriesStay, Zenon
  <2>3. ~EntryStep(t) => UNCHANGED caches
    BY <2>1, QuietStays, CountingStays, FlagsStay, ScansStay, WorldStays, Zenon DEF SharedStays, WorldStep
  <2> QED
    BY <2>2, <2>3, Zenon DEF caches
<1>4. SUFFICES pc'[t] \in Unrecorded \/ (pc'[t] = "answered" /\ loc'[t].reply # "native")
  BY <1>3, NativesAway, Zenon
<1>5. CASE StartLegacy(t) \/ MapFile(t) \/ \E host \in workload.hosts : StartConfigure(t, host)
  BY <1>2, <1>5, UnrecordedLabels, Zenon DEF StartLegacy, MapFile, StartConfigure
<1>6. CASE \E trap \in workload.traps, core \in workload.cores : Trap(t, trap, core)
  BY <1>2, <1>6, UnrecordedLabels, Zenon DEF Trap
<1>7. ASSUME NEW leaf \in workload.calls, GetFixedReply(t, leaf)
      PROVE  pc'[t] \in Unrecorded \/ (pc'[t] = "answered" /\ loc'[t].reply # "native")
  <2>1. loc'[t] = [NoLocal EXCEPT !.leaf = leaf, !.due = ArtifactDue]
    BY <1>2, <1>7, Zenon DEF GetFixedReply
  <2>2. loc'[t].reply = "none"
    BY <2>1, Zenon DEF NoLocal
  <2> QED
    BY <1>2, <1>7, <2>2, UnrecordedLabels, Zenon DEF GetFixedReply
<1>8. CASE ConfigureLoad(t) \/ ConfigureCas(t) \/ SelectLoad(t) \/ SelectCas(t) \/ SelectStore(t) \/ Return(t) \/ NoteFileMapping(t)
  BY <1>2, <1>8, UnrecordedLabels, Zenon DEF ConfigureLoad, ConfigureCas, AfterConfigure, SelectLoad, SelectCas,
                                             SelectStore, Return, NoteFileMapping, Local
<1>9. CASE LookupSequence(t) \/ LookupStart(t) \/ LookupEnd(t) \/ LookupKind(t) \/ LookupCheck(t)
  BY <1>2, <1>9, UnrecordedLabels, Zenon DEF LookupSequence, LookupStart, LookupEnd, LookupKind, LookupCheck, NextCell, Local
<1>10. CASE Classify(t) \/ Search(t) \/ Present(t)
  BY <1>2, <1>10, UnrecordedLabels, Zenon DEF Classify, Search, Present, Local
<1>11. CASE EntryStep(t)
  BY <1>2, <1>11, UnrecordedLabels, Zenon DEF EntryStep, InsertLock, InsertUnlock, InsertOdd, InsertStart, InsertEnd,
                                              InsertKind, InsertEven, StoreCell
<1>12. CASE LoadVendor(t) \/ LoadGeneration(t) \/ FreshGeneration(t) \/ FreshMilliseconds(t) \/ Scan(t)
  BY <1>2, <1>12, UnrecordedLabels, Zenon DEF LoadVendor, LoadGeneration, FreshGeneration, FreshMilliseconds, Scan, ScanEnds, Local
<1>13. CASE ScanStep(t) \/ ChooseProfile(t)
  BY <1>2, <1>13, UnrecordedLabels, Zenon DEF ScanStep, StoreMilliseconds, StoreGeneration, ChooseProfile, ScanEnds
<1>14. CASE Answer(t)
  <2>1. Current \in Identities
    BY WordsHold, Zenon DEF Current, TrapTypes, SharedTypes
  <2>2. fixed_reply(Current, loc[t].leaf) # "native"
    <3>1. "native" \notin Rows \cup {"none"}
      BY Zenon DEF Rows
    <3> QED
      BY <2>1, <3>1, TablesAnswer, Zenon
  <2>3. \A r : r # "native" /\ Answered(t, r) => pc'[t] = "answered" /\ loc'[t].reply # "native"
    <3>1. \A r : [loc[t] EXCEPT !.reply = r].reply = r
      BY <1>1, Zenon DEF Locals
    <3> QED
      BY <1>2, <3>1, Zenon DEF Answered
  <2> QED
    BY <1>2, <1>14, <2>2, <2>3, UnrecordedLabels, Zenon DEF Answer
<1> QED
  BY <1>5, <1>6, <1>7, <1>8, <1>9, <1>10, <1>11, <1>12, <1>13, <1>14, Zenon
     DEF ThreadStep, HandlerStep, EntryStep, RecordStep, ScanStep

(* Reading the cache, or the hardware. *)
LEMMA NativesRead ==
  ASSUME TrapTypes, NativeInv, Failed => Failed', workload' = workload, NEW t \in Threads, Frame(t), Moves(t),
         NativeLookup(t) \/ NativeCpuid(t)
  PROVE  NativeInv'
<1>1. pc \in [Threads -> Labels] /\ loc \in [Threads -> Locals] /\ loc[t] \in Locals /\ CellsAreWhole
  BY LocalTypes, Zenon DEF TrapTypes, ThreadTypes, NativeInv
<1>2. /\ \A label : Goto(t, label) => pc'[t] = label
      /\ \A l : Set(t, l) => loc'[t] = l
  BY <1>1, Zenon DEF Goto, Set
<1>3. UNCHANGED <<native, native_len, native_lock>>
  BY Zenon DEF NativeLookup, NativeCpuid, caches
<1>4. \A r, s : /\ [loc[t] EXCEPT !.regs = r, !.reply = s].regs = r
                /\ [loc[t] EXCEPT !.regs = r, !.reply = s].leaf = loc[t].leaf
                /\ [loc[t] EXCEPT !.regs = r, !.reply = s].core = loc[t].core
  BY <1>1, Zenon DEF Locals
<1>5. ASSUME NEW r, Native(t, r),
             \/ r = NoRegisters /\ Failed'
             \/ r.leaf = loc[t].leaf /\ (leaf_varies_per_core(loc[t].leaf) => r.core = loc[t].core)
      PROVE  NativeInv'
  <2> DEFINE s == IF loc[t].reply = "none" THEN "native" ELSE loc[t].reply
  <2>1. pc'[t] = "answered" /\ loc'[t] = [loc[t] EXCEPT !.regs = r, !.reply = s]
    BY <1>2, <1>5, Zenon DEF Native
  <2> HIDE DEF s
  <2>2. loc'[t].regs = r /\ loc'[t].leaf = loc[t].leaf /\ loc'[t].core = loc[t].core
    BY <1>1, <2>1, Zenon DEF Locals
  <2>3. IsAnswered(t)'
    BY <1>5, <2>2, Zenon DEF IsAnswered
  <2>4. Records(t)' /\ pc'[t] \notin RecordLabels
    BY <2>1, Zenon DEF Records, RecordLabels
  <2> QED
    BY <1>3, <2>3, <2>4, NativesKept, Zenon
<1>6. ASSUME pc'[t] = "cpuid" PROVE NativeInv'
  BY <1>3, <1>6, NativesAway, UnrecordedLabels, Zenon
<1>7. CASE NativeLookup(t)
  <2>1. ASSUME NEW n \in NativeHits(loc[t].leaf), Cacheable(t), Native(t, native[n].regs) PROVE NativeInv'
    <3>1. native[n].regs.leaf = loc[t].leaf
      BY <1>1, Zenon DEF NativeHits, CellsAreWhole
    <3> QED
      BY <1>5, <2>1, <3>1, Zenon DEF Cacheable
  <2> QED
    BY <1>2, <1>6, <1>7, <2>1, Zenon DEF NativeLookup
<1>8. CASE NativeCpuid(t)
  <2> DEFINE regs == [leaf |-> loc[t].leaf, core |-> loc[t].core]
  <2>1. regs.leaf = loc[t].leaf /\ regs.core = loc[t].core
    BY Zenon
  <2>2. ASSUME Cacheable(t), Goto(t, "nat_lock"), Set(t, [loc[t] EXCEPT !.regs = regs]) PROVE NativeInv'
    <3> HIDE DEF regs
    <3>1. pc'[t] = "nat_lock" /\ loc'[t] = [loc[t] EXCEPT !.regs = regs]
      BY <1>2, <2>2, Zenon
    <3>2. loc'[t].regs = regs /\ loc'[t].leaf = loc[t].leaf
      BY <1>1, <3>1, Zenon DEF Locals
    <3>3. Records(t)' /\ pc'[t] \notin RecordLabels
      BY <2>1, <2>2, <3>1, <3>2, Zenon DEF Records, RecordLabels, Cacheable
    <3>4. IsAnswered(t)'
      BY <3>1, Zenon DEF IsAnswered
    <3> QED
      BY <1>3, <3>3, <3>4, NativesKept, Zenon
  <2>3. ASSUME ~Cacheable(t), Native(t, regs) PROVE NativeInv'
    <3> HIDE DEF regs
    <3> QED
      BY <1>5, <2>1, <2>3, Zenon
  <2>4. ASSUME Count("failures"), Native(t, NoRegisters) PROVE NativeInv'
    BY <1>5, <2>4, FailureShows, Zenon
  <2>5. ASSUME pc' = [u \in Threads |-> "gone"] PROVE NativeInv'
    <3>1. "gone" \in Unrecorded
      BY ZenonT(60) DEF Unrecorded, Labels, RecordLabels
    <3> QED
      BY <1>3, <2>5, <3>1, NativesAway, Zenon
  <2> QED
    BY <1>8, <2>2, <2>3, <2>4, <2>5, Zenon DEF NativeCpuid
<1> QED
  BY <1>7, <1>8, Zenon

(* Recording a reply: it counts once its cell is whole. *)
LEMMA NativesRecord ==
  ASSUME TrapTypes, NativeInv, Failed => Failed', NEW t \in Threads, Frame(t), RecordStep(t)
  PROVE  NativeInv'
<1>1. /\ pc \in [Threads -> Labels] /\ loc \in [Threads -> Locals] /\ loc[t] \in Locals /\ CellsAreWhole /\ RecordsOwn
      /\ Records(t) /\ native \in [1..NativeCap -> [key : Asked, regs : Registers]] /\ native_len \in 0..NativeCap
  BY LocalTypes, Zenon DEF TrapTypes, ThreadTypes, NativeInv, SharedTypes
<1>2. /\ \A label : Goto(t, label) => pc'[t] = label
      /\ \A l : Set(t, l) => loc'[t] = l
      /\ UNCHANGED loc => loc'[t] = loc[t]
  BY <1>1, Zenon DEF Goto, Set
<1> DEFINE n == native_len + 1
<1>3. native_len < NativeCap => n \in 1..NativeCap
  BY <1>1, CpuidAssumption, SMT DEF CpuidAssumption
<1>4. n \notin 1..native_len /\ 1..native_len \subseteq 1..NativeCap /\ 1..(native_len + 1) = (1..native_len) \cup {n}
  BY <1>1, CpuidAssumption, SMT DEF CpuidAssumption
<1>5. {"nat_key", "nat_regs", "nat_len", "nat_unlock"} = RecordLabels
  BY Zenon DEF RecordLabels
<1>6. pc[t] \in RecordLabels => \A u \in Threads \ {t} : pc[u] \notin RecordLabels
  BY <1>1, Zenon DEF RecordsOwn
<1>7. pc[t] \in RecordLabels => native_lock
  BY <1>1, Zenon DEF RecordsOwn
<1>8. CASE NativeLock(t)
  <2>1. /\ pc[t] = "nat_lock" /\ ~native_lock /\ native_lock' = TRUE /\ UNCHANGED native /\ UNCHANGED native_len
        /\ loc'[t] = loc[t]
    BY <1>2, <1>8, Zenon DEF NativeLock
  <2>2. \/ pc'[t] = "nat_key" /\ native_len < NativeCap
        \/ pc'[t] = "nat_unlock"
    BY <1>2, <1>8, Zenon DEF NativeLock
  <2>3. \A u \in Threads \ {t} : pc[u] \notin RecordLabels
    BY <1>1, <2>1, Zenon DEF RecordsOwn
  <2>4. Records(t)'
    BY <1>1, <2>1, <2>2, Zenon DEF Records
  <2>5. IsAnswered(t)'
    BY <2>2, Zenon DEF IsAnswered
  <2>6. CellsAreWhole'
    BY <1>1, <2>1, Zenon DEF CellsAreWhole
  <2> QED
    BY <2>1, <2>3, <2>4, <2>5, <2>6, NativesOwned, Zenon
<1>9. CASE NativeKey(t)
  <2>1. /\ pc[t] = "nat_key" /\ pc'[t] = "nat_regs" /\ UNCHANGED native_lock /\ UNCHANGED native_len
        /\ loc'[t] = loc[t] /\ native' = [native EXCEPT ![n].key = loc[t].leaf]
    BY <1>2, <1>9, Zenon DEF NativeKey
  <2>2. n \in 1..NativeCap /\ native_len < NativeCap
    BY <1>1, <1>3, <2>1, Zenon DEF Records
  <2>3. loc[t].regs.leaf = loc[t].leaf /\ ~leaf_varies_per_core(loc[t].leaf)
    BY <1>1, <1>5, <2>1, Zenon DEF Records
  <2>4. native'[native_len' + 1].key = loc'[t].leaf
    <3> HIDE DEF n
    <3>1. native'[n].key = loc[t].leaf
      BY <1>1, <2>1, <2>2, Zenon
    <3> QED
      BY <2>1, <3>1, Zenon DEF n
  <2>5. Records(t)'
    BY <2>1, <2>2, <2>3, <2>4, Zenon DEF Records
  <2>6. IsAnswered(t)'
    BY <2>1, Zenon DEF IsAnswered
  <2>7. CellsAreWhole'
    <3> HIDE DEF n
    <3>1. \A m \in 1..native_len : native'[m] = native[m]
      BY <1>1, <1>4, <2>1, <2>2, Zenon
    <3> QED
      BY <1>1, <2>1, <3>1, Zenon DEF CellsAreWhole
  <2> QED
    BY <1>5, <1>6, <1>7, <2>1, <2>5, <2>6, <2>7, NativesOwned, Zenon
<1>10. CASE NativeRegisters(t)
  <2>1. /\ pc[t] = "nat_regs" /\ pc'[t] = "nat_len" /\ UNCHANGED native_lock /\ UNCHANGED native_len
        /\ loc'[t] = loc[t] /\ native' = [native EXCEPT ![n].regs = loc[t].regs]
    BY <1>2, <1>10, Zenon DEF NativeRegisters
  <2>2. n \in 1..NativeCap /\ native_len < NativeCap /\ native[n].key = loc[t].leaf
    BY <1>1, <1>3, <2>1, Zenon DEF Records
  <2>3. loc[t].regs.leaf = loc[t].leaf /\ ~leaf_varies_per_core(loc[t].leaf)
    BY <1>1, <1>5, <2>1, Zenon DEF Records
  <2>4. native'[native_len' + 1].key = loc'[t].leaf /\ native'[native_len' + 1].regs = loc'[t].regs
    <3> HIDE DEF n
    <3>1. native'[n].regs = loc[t].regs /\ native'[n].key = loc[t].leaf
      BY <1>1, <2>1, <2>2, Zenon
    <3> QED
      BY <2>1, <3>1, Zenon DEF n
  <2>5. Records(t)'
    BY <2>1, <2>2, <2>3, <2>4, Zenon DEF Records
  <2>6. IsAnswered(t)'
    BY <2>1, Zenon DEF IsAnswered
  <2>7. CellsAreWhole'
    <3> HIDE DEF n
    <3>1. \A m \in 1..native_len : native'[m] = native[m]
      BY <1>1, <1>4, <2>1, <2>2, Zenon
    <3> QED
      BY <1>1, <2>1, <3>1, Zenon DEF CellsAreWhole
  <2> QED
    BY <1>5, <1>6, <1>7, <2>1, <2>5, <2>6, <2>7, NativesOwned, Zenon
<1>11. CASE NativeLength(t)
  <2>1. /\ pc[t] = "nat_len" /\ pc'[t] = "nat_unlock" /\ UNCHANGED native_lock /\ native_len' = native_len + 1
        /\ loc'[t] = loc[t] /\ UNCHANGED native
    BY <1>2, <1>11, Zenon DEF NativeLength
  <2>2. native[n].key = loc[t].leaf /\ native[n].regs = loc[t].regs
    BY <1>1, <2>1, Zenon DEF Records
  <2>3. loc[t].regs.leaf = loc[t].leaf /\ ~leaf_varies_per_core(loc[t].leaf)
    BY <1>1, <1>5, <2>1, Zenon DEF Records
  <2>4. Records(t)'
    BY <2>1, <2>3, Zenon DEF Records
  <2>5. IsAnswered(t)'
    BY <2>1, Zenon DEF IsAnswered
  <2>6. CellsAreWhole'
    <3> HIDE DEF n
    <3> QED
      BY <1>1, <1>4, <2>1, <2>2, <2>3, Zenon DEF CellsAreWhole
  <2> QED
    BY <1>5, <1>6, <1>7, <2>1, <2>4, <2>5, <2>6, NativesOwned, Zenon
<1>12. CASE NativeUnlock(t)
  <2> DEFINE s == IF loc[t].reply = "none" THEN "native" ELSE loc[t].reply
             r == loc[t].regs
  <2>1. /\ pc[t] = "nat_unlock" /\ pc'[t] = "answered" /\ UNCHANGED native_len /\ UNCHANGED native
        /\ loc'[t] = [loc[t] EXCEPT !.regs = r, !.reply = s]
    BY <1>2, <1>12, Zenon DEF NativeUnlock, Native
  <2> HIDE DEF s, r
  <2>2. loc'[t].regs = r /\ loc'[t].leaf = loc[t].leaf
    BY <1>1, <2>1, Zenon DEF Locals
  <2>3. r.leaf = loc[t].leaf /\ ~leaf_varies_per_core(loc[t].leaf)
    BY <1>1, <1>5, <2>1, Zenon DEF Records, r
  <2>4. Records(t)' /\ pc'[t] \notin RecordLabels
    BY <2>1, Zenon DEF Records, RecordLabels
  <2>5. IsAnswered(t)'
    BY <2>2, <2>3, Zenon DEF IsAnswered
  <2>6. CellsAreWhole'
    BY <1>1, <2>1, Zenon DEF CellsAreWhole
  <2> QED
    BY <1>5, <1>6, <2>1, <2>4, <2>5, <2>6, NativesOwned, Zenon
<1> QED
  BY <1>8, <1>9, <1>10, <1>11, <1>12, Zenon DEF RecordStep

(* Every step keeps what holds of the cache of native replies. *)
LEMMA NativesHold ==
  ASSUME TrapTypes, NativeInv, [Next]_vars
  PROVE  NativeInv'
<1>1. (Failed => Failed') /\ workload' = workload
  BY FailuresStay, Zenon
<1>2. ASSUME NEW t \in Threads, ThreadStep(t), Moves(t), Frame(t) PROVE NativeInv'
  BY <1>1, <1>2, NativesOther, NativesRead, NativesRecord, Zenon
<1>3. CASE Ends /\ UNCHANGED <<flags, caches, scans, world>>
  <2>1. UNCHANGED native /\ UNCHANGED native_len /\ UNCHANGED native_lock
    BY <1>3, Zenon DEF caches
  <2>2. \A u \in Threads : pc'[u] \notin RecordLabels
    BY <1>3, Zenon DEF Ends, RecordLabels
  <2>3. RecordsOwn' /\ CellsAreWhole'
    BY <2>1, <2>2, Zenon DEF NativeInv, RecordsOwn, CellsAreWhole
  <2>4. \A u \in Threads : Records(u)' /\ IsAnswered(u)'
    BY <1>3, Zenon DEF Ends, Records, IsAnswered, RecordLabels
  <2> QED
    BY <2>3, <2>4, Zenon DEF NativeInv
<1>4. CASE LoaderMaps \/ Tick \/ UNCHANGED vars
  <2>1. UNCHANGED pc /\ UNCHANGED loc /\ UNCHANGED native /\ UNCHANGED native_len /\ UNCHANGED native_lock
    BY <1>4, Zenon DEF LoaderMaps, Tick, vars, caches
  <2>2. RecordsOwn' /\ CellsAreWhole'
    BY <2>1, Zenon DEF NativeInv, RecordsOwn, CellsAreWhole
  <2>3. \A u \in Threads : Records(u)' /\ IsAnswered(u)'
    BY <1>1, <2>1, Zenon DEF NativeInv, Records, IsAnswered
  <2> QED
    BY <2>2, <2>3, Zenon DEF NativeInv
<1> QED
  BY <1>2, <1>3, <1>4, StepCases, Zenon

-----------------------------------------------------------------------------
(* The artifact profile *)

(* Updates of the locals that leave the scan alone. *)
SameScan(k, l) == k.due = l.due /\ k.generation = l.generation /\ k.now = l.now

LEMMA SameScans ==
  ASSUME NEW l \in Locals
  PROVE  /\ SameScan(l, l)
         /\ \A x : /\ SameScan([l EXCEPT !.raw = x], l) /\ SameScan([l EXCEPT !.seq = x], l)
                   /\ SameScan([l EXCEPT !.start = x], l) /\ SameScan([l EXCEPT !.end = x], l)
                   /\ SameScan([l EXCEPT !.kind = x], l) /\ SameScan([l EXCEPT !.cell = x], l)
                   /\ SameScan([l EXCEPT !.reply = x], l) /\ SameScan([l EXCEPT !.regs = x], l)
         /\ \A x, y, z : SameScan([l EXCEPT !.kind = x, !.start = y, !.end = z], l)
         /\ \A x, y : SameScan([l EXCEPT !.regs = x, !.reply = y], l)
         /\ \A x, y, z : SameScan([l EXCEPT !.vendor = x, !.kind = y, !.rip = z], l)
         /\ \A x, y, z, w : /\ SameScan([l EXCEPT !.cell = x, !.seq = y, !.start = z, !.end = w], l)
                            /\ SameScan([l EXCEPT !.seq = x, !.start = y, !.end = z, !.cell = w], l)
<1>1. SameScan(l, l)
  BY Zenon DEF SameScan
<1>2. \A x : /\ SameScan([l EXCEPT !.raw = x], l) /\ SameScan([l EXCEPT !.seq = x], l)
             /\ SameScan([l EXCEPT !.start = x], l) /\ SameScan([l EXCEPT !.end = x], l)
  BY Zenon DEF SameScan, Locals
<1>3. \A x : /\ SameScan([l EXCEPT !.kind = x], l) /\ SameScan([l EXCEPT !.cell = x], l)
             /\ SameScan([l EXCEPT !.reply = x], l) /\ SameScan([l EXCEPT !.regs = x], l)
  BY Zenon DEF SameScan, Locals
<1>4. \A x, y, z : SameScan([l EXCEPT !.kind = x, !.start = y, !.end = z], l)
  BY Zenon DEF SameScan, Locals
<1>5. \A x, y : SameScan([l EXCEPT !.regs = x, !.reply = y], l)
  BY Zenon DEF SameScan, Locals
<1>6. \A x, y, z : SameScan([l EXCEPT !.vendor = x, !.kind = y, !.rip = z], l)
  BY Zenon DEF SameScan, Locals
<1>7. \A x, y, z, w : /\ SameScan([l EXCEPT !.cell = x, !.seq = y, !.start = z, !.end = w], l)
                      /\ SameScan([l EXCEPT !.seq = x, !.start = y, !.end = z, !.cell = w], l)
  BY ZenonT(60) DEF SameScan, Locals
<1> QED
  BY <1>1, <1>2, <1>3, <1>4, <1>5, <1>6, <1>7, Zenon

(* A thread without a call has no scan, and is not due. *)
LEMMA NoScan == /\ NoLocal.due = FALSE /\ NoLocal.generation = 0 /\ NoLocal.now = 0
                /\ NoLocal.vendor = "Unknown" /\ NoLocal.kind = "Ordinary"
                /\ \A leaf : ~HasArtifactReply("Unknown", leaf)
<1>1. NoLocal.due = FALSE /\ NoLocal.generation = 0 /\ NoLocal.now = 0
  BY Zenon DEF NoLocal
<1>2. NoLocal.vendor = "Unknown" /\ NoLocal.kind = "Ordinary"
  BY Zenon DEF NoLocal
<1>3. \A leaf : ~HasArtifactReply("Unknown", leaf)
  BY Zenon DEF HasArtifactReply
<1> QED
  BY <1>1, <1>2, <1>3, Zenon

(* What is due is mapped; nothing is newer than now. *)
LEMMA DueIsMapped ==
  ASSUME TrapTypes, ProfileIsDue
  PROVE  /\ ArtifactDue => Mapped
         /\ \A t \in Threads : loc[t].due => ArtifactDue
         /\ \A t \in Threads : loc[t].generation <= generation /\ loc[t].now <= clock
         /\ 0 <= generation /\ 0 <= clock /\ generation \in Nat /\ clock \in Nat
<1>1. generation \in Nat /\ clock \in Nat
  BY Zenon DEF TrapTypes, SharedTypes
<1>2. 0 <= generation /\ 0 <= clock
  BY <1>1, SMT
<1> QED
  BY <1>1, <1>2, Zenon DEF ProfileIsDue, ScansAreOld, Artifacts, ArtifactDue, Mapped

(* A step of t that leaves the scans and the world alone. *)
LEMMA ProfileKept ==
  ASSUME ProfileIsDue, NEW t \in Threads, Frame(t), UNCHANGED <<scans, generation, clock, image>>,
         artifact => artifact', loc'[t].generation <= generation, loc'[t].now <= clock,
         Negative(t)' => Negative(t) /\ loc'[t].generation = loc[t].generation /\ loc'[t].now = loc[t].now,
         Artifacts(t)'
  PROVE  ProfileIsDue'
<1>1. /\ UNCHANGED scan_generation /\ UNCHANGED scan_ms /\ UNCHANGED generation /\ UNCHANGED clock /\ UNCHANGED image
      /\ \A u \in Threads \ {t} : pc'[u] = pc[u] /\ loc'[u] = loc[u]
  BY Zenon DEF scans, Frame
<1>2. (Mapped' <=> Mapped) /\ (ArtifactDue' <=> ArtifactDue)
  BY <1>1, Zenon DEF Mapped, ArtifactDue
<1>3. \A u \in Threads : Negative(u)' => Negative(u) /\ loc'[u].generation = loc[u].generation /\ loc'[u].now = loc[u].now
  BY <1>1, Zenon DEF Negative
<1>4. ScansAreOld'
  BY <1>1, <1>2, <1>3, Zenon DEF ProfileIsDue, ScansAreOld
<1>5. ASSUME NEW u \in Threads \ {t} PROVE Artifacts(u)'
  <2>1. Artifacts(u) /\ pc'[u] = pc[u] /\ loc'[u] = loc[u]
    BY <1>1, Zenon DEF ProfileIsDue
  <2>2. Newer(u) => Newer(u)'
    BY <1>1, <1>3, <2>1, Zenon DEF Newer
  <2>3. Later(u) => Later(u)'
    BY <1>1, <2>1, Zenon DEF Later
  <2>4. Negative(u)' => Negative(u)
    BY <1>3, Zenon
  <2> QED
    BY <1>2, <2>1, <2>2, <2>3, <2>4, Zenon DEF Artifacts
<1> QED
  BY <1>4, <1>5, Zenon DEF ProfileIsDue

(* ... and that is not one of the scan. *)
Scanning == {"note", "store_ms", "store_generation", "fresh_generation", "fresh_ms"}

LEMMA ProfileSettled ==
  ASSUME TrapTypes, ProfileIsDue, NEW t \in Threads, Frame(t), UNCHANGED <<scans, generation, clock, image>>,
         artifact => artifact', pc'[t] \notin Scanning,
         loc'[t].generation \in {0, loc[t].generation}, loc'[t].now \in {0, loc[t].now},
         loc'[t].due => ArtifactDue,
         loc'[t].due /\ HasArtifactReply(loc'[t].vendor, loc'[t].leaf) =>
           /\ pc'[t] = "answer" => artifact'
           /\ pc'[t] \in Told => loc'[t].reply = "artifact"
  PROVE  ProfileIsDue'
<1>1. loc'[t].generation <= generation /\ loc'[t].now <= clock
  BY DueIsMapped, Zenon
<1>2. ~Negative(t)'
  BY Zenon DEF Negative, Scanning
<1>3. (Mapped' <=> Mapped) /\ (ArtifactDue' <=> ArtifactDue)
  BY Zenon DEF Mapped, ArtifactDue
<1>4. Artifacts(t)'
  BY <1>2, <1>3, DueIsMapped, Zenon DEF Artifacts, Scanning
<1> QED
  BY <1>1, <1>2, <1>4, ProfileKept, Zenon

(* ... nor one of the answer. *)
Unanswered == Labels \ (Scanning \cup Told \cup {"answer"})

LEMMA UnansweredLabels ==
  /\ {"idle", "gone", "cfg_load", "cfg_cas", "sel_load", "sel_cas", "sel_store", "vendor", "lookup"} \subseteq Unanswered
  /\ {"start", "end", "kind", "check", "classify", "search", "insert", "present"} \subseteq Unanswered
  /\ {"ins_odd", "ins_start", "ins_end", "ins_kind", "ins_even", "ins_unlock"} \subseteq Unanswered
  /\ {"generation", "scan", "choose"} \subseteq Unanswered
<1>1. {"idle", "gone", "cfg_load", "cfg_cas", "sel_load", "sel_cas", "sel_store", "vendor", "lookup"} \subseteq Unanswered
  BY ZenonT(60) DEF Unanswered, Labels, Scanning, Told, RecordLabels
<1>2. {"start", "end", "kind", "check", "classify", "search", "insert", "present"} \subseteq Unanswered
  BY ZenonT(60) DEF Unanswered, Labels, Scanning, Told, RecordLabels
<1>3. {"ins_odd", "ins_start", "ins_end", "ins_kind", "ins_even", "ins_unlock"} \subseteq Unanswered
  BY ZenonT(60) DEF Unanswered, Labels, Scanning, Told, RecordLabels, InsertLabels
<1>4. {"generation", "scan", "choose"} \subseteq Unanswered
  BY ZenonT(60) DEF Unanswered, Labels, Scanning, Told, RecordLabels
<1> QED
  BY <1>1, <1>2, <1>3, <1>4, Zenon

LEMMA ProfileQuiet ==
  ASSUME TrapTypes, ProfileIsDue, NEW t \in Threads, Frame(t), UNCHANGED <<scans, generation, clock, image>>,
         artifact => artifact', pc'[t] \in Unanswered, SameScan(loc'[t], loc[t]) \/ loc'[t] = NoLocal
  PROVE  ProfileIsDue'
<1>1. pc'[t] \notin Scanning /\ pc'[t] # "answer" /\ pc'[t] \notin Told
  BY Zenon DEF Unanswered
<1>2. /\ loc'[t].generation \in {0, loc[t].generation} /\ loc'[t].now \in {0, loc[t].now}
      /\ loc'[t].due => loc[t].due
  <2>1. CASE loc'[t] = NoLocal
    BY <2>1, NoScan, Zenon
  <2> QED
    BY <2>1, Zenon DEF SameScan
<1> QED
  BY <1>1, <1>2, ProfileSettled, DueIsMapped, Zenon

(* Configuring, and finding out who calls. *)
LEMMA ProfileApart ==
  ASSUME TrapTypes, ProfileIsDue, NEW t \in Threads, Frame(t),
         \/ StartLegacy(t) \/ \E host \in workload.hosts : StartConfigure(t, host)
         \/ ConfigureLoad(t) \/ ConfigureCas(t) \/ SelectLoad(t) \/ SelectCas(t) \/ SelectStore(t) \/ Return(t)
         \/ LookupSequence(t) \/ LookupStart(t) \/ LookupEnd(t) \/ LookupKind(t) \/ LookupCheck(t)
         \/ Classify(t) \/ Search(t) \/ Present(t) \/ EntryStep(t)
  PROVE  ProfileIsDue'
<1>1. pc \in [Threads -> Labels] /\ loc \in [Threads -> Locals] /\ loc[t] \in Locals /\ Rests(t)
  BY LocalTypes, Zenon DEF TrapTypes, ThreadTypes
<1>2. /\ \A label : Goto(t, label) => pc'[t] = label
      /\ \A l : Set(t, l) => loc'[t] = l
      /\ UNCHANGED loc => loc'[t] = loc[t]
  BY <1>1, Zenon DEF Goto, Set
<1>3. UNCHANGED <<scans, generation, clock, image>> /\ UNCHANGED artifact
  <2>1. QuietStep(t) \/ CountingStep(t) \/ FlagStep(t) \/ EntryStep(t)
    BY Zenon DEF QuietStep, CountingStep, FlagStep
  <2>2. UNCHANGED <<scans, world>>
    BY <2>1, QuietStays, CountingStays, FlagsStay, EntriesStay, Zenon DEF SharedStays
  <2>3. ConfigureCas(t) \/ SelectCas(t) \/ SelectStore(t) => UNCHANGED artifact
    BY Zenon DEF ConfigureCas, SelectCas, SelectStore
  <2>4. EntryStep(t) => UNCHANGED artifact
    BY EntriesStay, Zenon DEF flags
  <2>5. QuietStep(t) \/ CountingStep(t) => UNCHANGED artifact
    BY QuietStays, CountingStays, Zenon DEF SharedStays, flags
  <2>6. ConfigureCas(t) \/ SelectCas(t) \/ SelectStore(t) \/ QuietStep(t) \/ CountingStep(t) \/ EntryStep(t)
    BY Zenon DEF QuietStep, CountingStep
  <2> QED
    BY <2>2, <2>3, <2>4, <2>5, <2>6, Zenon DEF world
<1>4. SUFFICES pc'[t] \in Unanswered /\ (SameScan(loc'[t], loc[t]) \/ loc'[t] = NoLocal)
  BY <1>3, ProfileQuiet, Zenon
<1>5. SameScan(loc[t], loc[t])
  BY <1>1, SameScans, Zenon
<1>6. CASE StartLegacy(t)
  BY <1>2, <1>5, <1>6, UnansweredLabels, Zenon DEF StartLegacy
<1>7. ASSUME NEW host \in workload.hosts, StartConfigure(t, host) PROVE pc'[t] \in Unanswered /\ SameScan(loc'[t], loc[t])
  <2> DEFINE w == encode(denuvo(host))
  <2> HIDE DEF w
  <2>1. loc[t] = NoLocal /\ pc'[t] = "cfg_load" /\ loc'[t] = [NoLocal EXCEPT !.next = w]
    BY <1>1, <1>2, <1>7, Zenon DEF StartConfigure, Rests, w
  <2>2. SameScan([NoLocal EXCEPT !.next = w], NoLocal)
    BY Zenon DEF SameScan, NoLocal
  <2> QED
    BY <2>1, <2>2, UnansweredLabels, Zenon
<1>8. CASE ConfigureLoad(t) \/ SelectLoad(t) \/ SelectStore(t)
  <2>1. \A w : SameScan([loc[t] EXCEPT !.raw = w], loc[t])
    BY <1>1, SameScans, Zenon
  <2> QED
    BY <1>2, <1>8, <2>1, UnansweredLabels, Zenon DEF ConfigureLoad, SelectLoad, SelectStore, Local
<1>9. CASE ConfigureCas(t) \/ SelectCas(t)
  BY <1>2, <1>5, <1>9, UnansweredLabels, Zenon DEF ConfigureCas, AfterConfigure, SelectCas
<1>10. CASE Return(t)
  BY <1>2, <1>10, UnansweredLabels, Zenon DEF Return, Local
<1>11. NextCell(t) => pc'[t] \in Unanswered /\ SameScan(loc'[t], loc[t])
  <2>1. \A x, y, z, w : SameScan([loc[t] EXCEPT !.cell = x, !.seq = y, !.start = z, !.end = w], loc[t])
    BY <1>1, SameScans, Zenon
  <2>2. \A x : SameScan([loc[t] EXCEPT !.cell = x], loc[t])
    BY <1>1, SameScans, Zenon
  <2> QED
    <3>1. CASE loc[t].cell + 1 < CallerCap
      <4>1. NextCell(t) => pc'[t] = "lookup" /\ loc'[t] = [loc[t] EXCEPT !.cell = loc[t].cell + 1]
        BY <1>2, <3>1, Zenon DEF NextCell
      <4> QED
        BY <2>2, <4>1, UnansweredLabels, Zenon
    <3>2. CASE ~(loc[t].cell + 1 < CallerCap)
      <4>1. NextCell(t) =>
              pc'[t] = "classify" /\ loc'[t] = [loc[t] EXCEPT !.cell = 0, !.seq = 0, !.start = 0, !.end = 0]
        BY <1>2, <3>2, Zenon DEF NextCell
      <4>2. SameScan([loc[t] EXCEPT !.cell = 0, !.seq = 0, !.start = 0, !.end = 0], loc[t])
        BY <2>1, Zenon
      <4> QED
        BY <4>1, <4>2, UnansweredLabels, Zenon
    <3> QED
      BY <3>1, <3>2, Zenon
<1>12. CASE LookupSequence(t) \/ LookupCheck(t)
  <2>1. \A x : SameScan([loc[t] EXCEPT !.seq = x], loc[t])
    BY <1>1, SameScans, Zenon
  <2> QED
    BY <1>2, <1>5, <1>11, <1>12, <2>1, UnansweredLabels, Zenon DEF LookupSequence, LookupCheck
<1>13. CASE LookupStart(t) \/ LookupEnd(t) \/ LookupKind(t)
  <2>1. \A x : /\ SameScan([loc[t] EXCEPT !.start = x], loc[t]) /\ SameScan([loc[t] EXCEPT !.end = x], loc[t])
               /\ SameScan([loc[t] EXCEPT !.kind = x], loc[t])
    BY <1>1, SameScans, Zenon
  <2> QED
    BY <1>2, <1>13, <2>1, UnansweredLabels, Zenon DEF LookupStart, LookupEnd, LookupKind, Local
<1>14. CASE Classify(t) \/ Search(t)
  <2>1. /\ \A x : SameScan([loc[t] EXCEPT !.kind = x], loc[t])
        /\ \A x, y, z : SameScan([loc[t] EXCEPT !.kind = x, !.start = y, !.end = z], loc[t])
    BY <1>1, SameScans, Zenon
  <2> QED
    <3>1. pc'[t] \in Unanswered
      BY <1>2, <1>14, UnansweredLabels, Zenon DEF Classify, Search, Local
    <3>2. \A x : Set(t, [loc[t] EXCEPT !.kind = x]) => SameScan(loc'[t], loc[t])
      BY <1>2, <2>1, Zenon
    <3>3. \A x, y, z : Set(t, [loc[t] EXCEPT !.kind = x, !.start = y, !.end = z]) => SameScan(loc'[t], loc[t])
      <4> SUFFICES ASSUME NEW x, NEW y, NEW z, Set(t, [loc[t] EXCEPT !.kind = x, !.start = y, !.end = z])
                   PROVE  SameScan(loc'[t], loc[t])
        BY Zenon
      <4> DEFINE l == [loc[t] EXCEPT !.kind = x, !.start = y, !.end = z]
      <4>1. SameScan(l, loc[t]) /\ Set(t, l)
        BY <2>1, Zenon
      <4> HIDE DEF l
      <4> QED
        BY <1>2, <4>1, Zenon
    <3>4. CASE Classify(t)
      <4>1. CASE Set(t, [loc[t] EXCEPT !.kind = "Ordinary"])
        BY <3>1, <3>2, <4>1, Zenon
      <4>2. ASSUME NEW m \in MappingsAt(loc[t].rip),
                   Set(t, [loc[t] EXCEPT !.kind = m.path, !.start = m.start, !.end = m.end])
            PROVE  SameScan(loc'[t], loc[t])
        BY <3>3, <4>2, Zenon
      <4> QED
        BY <3>1, <3>4, <4>1, <4>2, Zenon DEF Classify
    <3>5. CASE Search(t)
      <4>1. PICK m \in MappingsAt(loc[t].rip) :
              Local(t, "search", "insert", [loc[t] EXCEPT !.kind = IF established THEN "Ordinary" ELSE m.image])
        BY <3>5, Zenon DEF Search
      <4> DEFINE k == IF established THEN "Ordinary" ELSE m.image
      <4>2. Set(t, [loc[t] EXCEPT !.kind = k])
        BY <4>1, Zenon DEF Local
      <4> HIDE DEF k
      <4> QED
        BY <3>1, <3>2, <4>2, Zenon
    <3> QED
      BY <1>14, <3>4, <3>5, Zenon
<1>15. CASE Present(t)
  <2>1. \A x, y, z, w : SameScan([loc[t] EXCEPT !.seq = x, !.start = y, !.end = z, !.cell = w], loc[t])
    BY <1>1, SameScans, Zenon
  <2> QED
    <3>1. loc'[t] = [loc[t] EXCEPT !.seq = 0, !.start = 0, !.end = 0, !.cell = 0]
      BY <1>2, <1>15, Zenon DEF Present, Local
    <3>2. pc'[t] \in Unanswered
      BY <1>2, <1>15, UnansweredLabels, Zenon DEF Present, Local
    <3>3. SameScan([loc[t] EXCEPT !.seq = 0, !.start = 0, !.end = 0, !.cell = 0], loc[t])
      BY <2>1, Zenon
    <3> QED
      BY <3>1, <3>2, <3>3, Zenon
<1>16. CASE EntryStep(t)
  <2>1. \A x : SameScan([loc[t] EXCEPT !.cell = x], loc[t])
    BY <1>1, SameScans, Zenon
  <2>2. CASE InsertLock(t) \/ InsertUnlock(t)
    BY <1>2, <1>5, <2>1, <2>2, UnansweredLabels, Zenon DEF InsertLock, InsertUnlock
  <2>3. CASE InsertOdd(t) \/ InsertStart(t) \/ InsertEnd(t) \/ InsertKind(t) \/ InsertEven(t)
    BY <1>2, <1>5, <2>3, UnansweredLabels, Zenon DEF InsertOdd, InsertStart, InsertEnd, InsertKind, InsertEven, StoreCell
  <2> QED
    BY <1>16, <2>2, <2>3, Zenon DEF EntryStep
<1> QED
  BY <1>6, <1>7, <1>8, <1>9, <1>10, <1>12, <1>13, <1>14, <1>15, <1>16, Zenon

(* The start of a trap: what is due then is mapped. *)
LEMMA ProfileTrapped ==
  ASSUME TrapTypes, ProfileIsDue, NEW t \in Threads, Frame(t),
         \/ \E leaf \in workload.calls : GetFixedReply(t, leaf)
         \/ \E trap \in workload.traps, core \in workload.cores : Trap(t, trap, core)
  PROVE  ProfileIsDue'
<1>1. pc \in [Threads -> Labels] /\ loc \in [Threads -> Locals]
  BY Zenon DEF TrapTypes, ThreadTypes
<1>2. /\ \A label : Goto(t, label) => pc'[t] = label
      /\ \A l : Set(t, l) => loc'[t] = l
  BY <1>1, Zenon DEF Goto, Set
<1>3. UNCHANGED <<scans, generation, clock, image>> /\ UNCHANGED artifact
  <2>1. CountingStep(t)
    BY Zenon DEF CountingStep
  <2> QED
    BY <2>1, CountingStays, Zenon DEF world
<1>4. ASSUME loc'[t].vendor = "Unknown", loc'[t].generation = 0, loc'[t].now = 0, loc'[t].due => ArtifactDue,
             pc'[t] \notin Scanning
      PROVE  ProfileIsDue'
  BY <1>3, <1>4, NoScan, ProfileSettled, Zenon
<1>5. ASSUME NEW leaf \in workload.calls, GetFixedReply(t, leaf) PROVE ProfileIsDue'
  <2> DEFINE d == ArtifactDue
  <2>1. loc'[t] = [NoLocal EXCEPT !.leaf = leaf, !.due = d] /\ pc'[t] \in {"vendor", "answered"}
    BY <1>2, <1>5, Zenon DEF GetFixedReply
  <2> HIDE DEF d
  <2>2. loc'[t].vendor = "Unknown" /\ loc'[t].generation = 0 /\ loc'[t].now = 0 /\ loc'[t].due = d
    BY <2>1, Zenon DEF NoLocal
  <2>3. pc'[t] \notin Scanning
    BY <2>1, Zenon DEF Scanning
  <2> QED
    BY <1>4, <2>2, <2>3, Zenon DEF d
<1>6. ASSUME NEW trap \in workload.traps, NEW core \in workload.cores, Trap(t, trap, core) PROVE ProfileIsDue'
  <2> DEFINE d == ArtifactDue
             a == trap.leaf
             r == trap.rip
  <2>1. loc'[t] = [NoLocal EXCEPT !.leaf = a, !.rip = r, !.core = core, !.due = d]
    BY <1>2, <1>6, Zenon DEF Trap
  <2>2. pc'[t] \in {"native", "lookup", "answer"}
    BY <1>2, <1>6, Zenon DEF Trap
  <2> HIDE DEF d, a, r
  <2>3. loc'[t].vendor = "Unknown" /\ loc'[t].generation = 0 /\ loc'[t].now = 0 /\ loc'[t].due = d
    BY <2>1, Zenon DEF NoLocal
  <2>4. pc'[t] \notin Scanning
    BY <2>2, Zenon DEF Scanning
  <2> QED
    BY <1>4, <2>3, <2>4, Zenon DEF d
<1> QED
  BY <1>5, <1>6, Zenon

(* Up to a scan: a negative one that is on record does not stop what is due. *)
LEMMA ProfileSearched ==
  ASSUME TrapTypes, ProfileIsDue, NEW t \in Threads, Frame(t),
         LoadVendor(t) \/ LoadGeneration(t) \/ FreshGeneration(t) \/ FreshMilliseconds(t)
  PROVE  ProfileIsDue'
<1>1. pc \in [Threads -> Labels] /\ loc \in [Threads -> Locals] /\ loc[t] \in Locals /\ Artifacts(t) /\ ScansAreOld
  BY LocalTypes, Zenon DEF TrapTypes, ThreadTypes, ProfileIsDue
<1>2. /\ \A label : Goto(t, label) => pc'[t] = label
      /\ \A l : Set(t, l) => loc'[t] = l
      /\ UNCHANGED loc => loc'[t] = loc[t]
  BY <1>1, Zenon DEF Goto, Set
<1>3. /\ UNCHANGED <<scans, generation, clock, image>> /\ UNCHANGED artifact
      /\ UNCHANGED image /\ UNCHANGED generation /\ UNCHANGED clock /\ UNCHANGED scan_generation /\ UNCHANGED scan_ms
  <2>1. QuietStep(t)
    BY Zenon DEF QuietStep
  <2> QED
    BY <2>1, QuietStays, Zenon DEF SharedStays, world, flags, scans
<1>4. /\ loc[t].generation \in Nat /\ loc[t].now \in Nat /\ generation \in Nat /\ clock \in Nat
      /\ scan_generation \in Int /\ scan_ms \in Nat /\ (image.since # Never => image.since \in Nat)
      /\ RescanInterval \in Nat
  BY LocalTypes, CpuidAssumption, Zenon DEF TrapTypes, SharedTypes, CpuidAssumption
<1>5. (Mapped' <=> Mapped) /\ (ArtifactDue' <=> ArtifactDue)
  BY <1>3, Zenon DEF Mapped, ArtifactDue
<1>6. loc[t].due => ArtifactDue /\ Mapped /\ image.since # Never
  BY <1>1, Zenon DEF Artifacts, Mapped
<1>7. CASE LoadVendor(t)
  <2> DEFINE v == Current.vendor
             l == [loc[t] EXCEPT !.vendor = v, !.kind = "Ordinary", !.rip = 0]
  <2>1. loc'[t] = l
    BY <1>2, <1>7, Zenon DEF LoadVendor, Local
  <2>2. \/ pc'[t] = "answer" /\ ~HasArtifactReply(v, loc[t].leaf)
        \/ pc'[t] \in {"choose", "generation"}
    BY <1>2, <1>7, Zenon DEF LoadVendor, Local
  <2> HIDE DEF v
  <2>3. l.vendor = v /\ l.leaf = loc[t].leaf /\ l.due = loc[t].due /\ l.generation = loc[t].generation /\ l.now = loc[t].now
    BY <1>1, Zenon DEF Locals
  <2> HIDE DEF l
  <2>4. pc'[t] \notin Scanning /\ pc'[t] \notin Told
    BY <2>2, Zenon DEF Scanning, Told, RecordLabels
  <2>5. pc'[t] = "answer" => ~HasArtifactReply(v, loc[t].leaf)
    BY <2>2, Zenon
  <2> QED
    BY <1>3, <1>6, <2>1, <2>3, <2>4, <2>5, ProfileSettled, Zenon
<1>8. CASE LoadGeneration(t)
  <2> DEFINE g == generation
             n == clock
  <2>1. pc'[t] = "fresh_generation" /\ loc'[t] = [loc[t] EXCEPT !.generation = g, !.now = n]
    BY <1>2, <1>8, Zenon DEF LoadGeneration, Local
  <2>2. loc'[t].generation = g /\ loc'[t].now = n /\ loc'[t].due = loc[t].due
    <3> HIDE DEF g, n
    <3> QED
      BY <1>1, <2>1, Zenon DEF Locals
  <2>3. g <= generation /\ n <= clock
    BY <1>4, SMT
  <2>4. ~Negative(t)'
    BY <2>1, Zenon DEF Negative
  <2>5. ASSUME loc[t].due PROVE Newer(t)' \/ Later(t)'
    <3>1. CASE image.counted
      <4>1. \A u \in Threads : Negative(u)' => Negative(u) /\ loc'[u] = loc[u]
        BY <2>4, Zenon DEF Negative, Frame
      <4>2. scan_generation < g /\ \A u \in Threads : Negative(u) => loc[u].generation < g
        BY <1>1, <3>1, Zenon DEF ScansAreOld
      <4>3. Newer(t)'
        BY <1>3, <2>2, <4>1, <4>2, Zenon DEF Newer
      <4> QED
        BY <4>3, Zenon
    <3>2. CASE clock - image.since >= RescanInterval
      <4>1. Later(t)'
        BY <1>3, <2>2, <3>2, Zenon DEF Later
      <4> QED
        BY <4>1, Zenon
    <3> QED
      BY <1>6, <2>5, <3>1, <3>2, Zenon DEF ArtifactDue
  <2>6. "fresh_generation" \notin Told /\ "fresh_generation" \notin {"note", "fresh_ms", "answer"}
    BY Zenon DEF Told, RecordLabels
  <2>7. Artifacts(t)'
    BY <1>5, <1>6, <2>1, <2>2, <2>4, <2>5, <2>6, Zenon DEF Artifacts
  <2> QED
    BY <1>3, <2>2, <2>3, <2>4, <2>7, ProfileKept, Zenon
<1>9. CASE FreshGeneration(t)
  <2>1. pc[t] = "fresh_generation" /\ loc'[t] = loc[t]
    BY <1>1, <1>2, <1>9, Zenon DEF FreshGeneration, Local
  <2>2. \/ pc'[t] = "fresh_ms" /\ loc[t].generation = scan_generation
        \/ pc'[t] = "scan"
    BY <1>2, <1>9, Zenon DEF FreshGeneration, Local
  <2>3. CASE pc'[t] = "scan"
    BY <1>1, <1>3, <2>1, <2>3, ProfileQuiet, SameScans, UnansweredLabels, Zenon
  <2>4. CASE pc'[t] = "fresh_ms" /\ loc[t].generation = scan_generation
    <3>1. ~(scan_generation < loc[t].generation)
      BY <1>4, <2>4, SMT
    <3>2. loc[t].due => Later(t)
      BY <1>1, <2>1, <3>1, Zenon DEF Artifacts, Newer
    <3>3. Later(t) => Later(t)'
      BY <1>3, <2>1, Zenon DEF Later
    <3>4. ~Negative(t)'
      BY <2>4, Zenon DEF Negative
    <3>5. "fresh_ms" \notin Told /\ "fresh_ms" \notin {"note", "fresh_generation", "answer"}
      BY Zenon DEF Told, RecordLabels
    <3>6. Artifacts(t)'
      BY <1>5, <1>6, <2>1, <2>4, <3>2, <3>3, <3>4, <3>5, Zenon DEF Artifacts
    <3>7. loc'[t].generation <= generation /\ loc'[t].now <= clock
      BY <2>1, DueIsMapped, Zenon
    <3> QED
      BY <1>3, <3>4, <3>6, <3>7, ProfileKept, Zenon
  <2> QED
    BY <2>2, <2>3, <2>4, Zenon
<1>10. CASE FreshMilliseconds(t)
  <2>1. pc[t] = "fresh_ms"
    BY <1>10, Zenon DEF FreshMilliseconds
  <2>2. ASSUME loc[t].now - scan_ms < RescanInterval, ScanEnds(t) PROVE ProfileIsDue'
    <3>1. ~loc[t].due
      <4> SUFFICES ASSUME loc[t].due PROVE FALSE
        BY Zenon
      <4>1. loc[t].now - image.since >= RescanInterval /\ image.since \in Nat
        BY <1>1, <1>4, <1>6, <2>1, Zenon DEF Artifacts, Later
      <4>2. scan_ms <= image.since
        BY <1>1, <1>6, Zenon DEF ScansAreOld
      <4> QED
        BY <1>4, <2>2, <4>1, <4>2, SMT
    <3>2. pc'[t] = "answer" /\ loc'[t] = [loc[t] EXCEPT !.generation = 0, !.now = 0]
      BY <1>2, <2>2, Zenon DEF ScanEnds
    <3>3. loc'[t].due = loc[t].due /\ loc'[t].generation = 0 /\ loc'[t].now = 0
      BY <1>1, <3>2, Zenon DEF Locals
    <3>4. pc'[t] \notin Scanning
      BY <3>2, Zenon DEF Scanning
    <3> QED
      BY <1>3, <3>1, <3>3, <3>4, ProfileSettled, Zenon
  <2>3. ASSUME pc'[t] = "scan", loc'[t] = loc[t] PROVE ProfileIsDue'
    BY <1>1, <1>3, <2>3, ProfileQuiet, SameScans, UnansweredLabels, Zenon
  <2> QED
    BY <1>2, <1>10, <2>2, <2>3, Zenon DEF FreshMilliseconds
<1> QED
  BY <1>7, <1>8, <1>9, <1>10, Zenon

(* Nobody is due before artifact.dll is mapped. *)
LEMMA NobodyDue ==
  ASSUME ProfileIsDue, ~Mapped
  PROVE  ~image.counted /\ \A t \in Threads : ~loc[t].due /\ ~(pc[t] = "note" /\ loc[t].kind = "Artifact")
  BY Zenon DEF ProfileIsDue, ScansAreOld, Artifacts

(* A scan, and what it puts on record: only the truth, if no call failed. *)
LEMMA ProfileScanned ==
  ASSUME TrapTypes, ProfileIsDue, workload' = workload, ~Failed', NEW t \in Threads, Frame(t), Scan(t) \/ ScanStep(t)
  PROVE  ProfileIsDue'
<1>1. pc \in [Threads -> Labels] /\ loc \in [Threads -> Locals] /\ loc[t] \in Locals /\ Artifacts(t) /\ ScansAreOld
  BY LocalTypes, Zenon DEF TrapTypes, ThreadTypes, ProfileIsDue
<1>2. /\ \A label : Goto(t, label) => pc'[t] = label
      /\ \A l : Set(t, l) => loc'[t] = l
      /\ UNCHANGED loc => loc'[t] = loc[t]
  BY <1>1, Zenon DEF Goto, Set
<1>3. UNCHANGED generation /\ UNCHANGED clock /\ UNCHANGED image /\ UNCHANGED artifact
  BY Zenon DEF Scan, ScanStep, StoreMilliseconds, StoreGeneration, world, flags
<1>4. (Mapped' <=> Mapped) /\ (ArtifactDue' <=> ArtifactDue)
  BY <1>3, Zenon DEF Mapped, ArtifactDue
<1>5. \A u \in Threads \ {t} : pc'[u] = pc[u] /\ loc'[u] = loc[u] /\ Artifacts(u)
  BY Zenon DEF Frame, ProfileIsDue
<1>6. CASE Scan(t)
  <2>1. loc'[t] = loc[t] /\ UNCHANGED scan_generation /\ UNCHANGED scan_ms /\ UNCHANGED scans
    BY <1>2, <1>6, Zenon DEF Scan, scans
  <2>2. pc'[t] = IF image.since # Never THEN "choose" ELSE "store_ms"
    BY <1>2, <1>6, FailureShows, Zenon DEF Scan
  <2>3. CASE image.since # Never
    BY <1>1, <1>3, <2>1, <2>2, <2>3, ProfileQuiet, SameScans, UnansweredLabels, Zenon
  <2>4. CASE ~(image.since # Never)
    <3>1. ~Mapped /\ ~Mapped' /\ ~image.counted /\ ~image'.counted
      BY <1>3, <1>4, <2>4, NobodyDue, Zenon DEF Mapped
    <3>2. \A u \in Threads : loc'[u] = loc[u]
      BY <1>5, <2>1, Zenon
    <3>3. ScansAreOld'
      BY <1>1, <1>3, <2>1, <3>1, <3>2, Zenon DEF ScansAreOld
    <3>4. \A u \in Threads : Artifacts(u)'
      <4>1. pc'[t] # "note"
        BY <2>2, <2>4, Zenon
      <4>2. \A u \in Threads : ~loc'[u].due /\ ~(pc'[u] = "note" /\ loc'[u].kind = "Artifact")
        BY <1>5, <3>1, <3>2, <4>1, NobodyDue, Zenon
      <4> QED
        BY <4>2, Zenon DEF Artifacts
    <3> QED
      BY <3>3, <3>4, Zenon DEF ProfileIsDue
  <2> QED
    BY <2>3, <2>4, Zenon
<1>7. CASE StoreMilliseconds(t)
  <2>1. /\ pc[t] = "store_ms" /\ pc'[t] = "store_generation" /\ loc'[t] = loc[t]
        /\ scan_ms' = loc[t].now /\ UNCHANGED scan_generation
    BY <1>2, <1>7, Zenon DEF StoreMilliseconds
  <2>2. \A u \in Threads : loc'[u] = loc[u] /\ (Negative(u)' <=> Negative(u))
    BY <1>5, <2>1, Zenon DEF Negative
  <2>3. Negative(t) /\ loc[t].now <= clock /\ (Mapped => loc[t].now <= image.since)
    BY <1>1, <2>1, Zenon DEF ScansAreOld, Negative
  <2>4. ScansAreOld'
    BY <1>1, <1>3, <1>4, <2>1, <2>2, <2>3, Zenon DEF ScansAreOld
  <2>5. Artifacts(t)'
    BY <1>1, <2>1, <2>2, <2>3, Zenon DEF Artifacts
  <2>6. ASSUME NEW u \in Threads \ {t} PROVE Artifacts(u)'
    <3>1. Newer(u) => Newer(u)'
      BY <2>1, <2>2, Zenon DEF Newer
    <3>2. Later(u) => Later(u)'
      BY <1>3, <2>2, Zenon DEF Later
    <3> QED
      BY <1>3, <1>4, <1>5, <2>2, <3>1, <3>2, Zenon DEF Artifacts
  <2> QED
    BY <2>4, <2>5, <2>6, Zenon DEF ProfileIsDue
<1>8. CASE StoreGeneration(t)
  <2>1. /\ pc[t] = "store_generation" /\ pc'[t] = "answer" /\ loc'[t] = [loc[t] EXCEPT !.generation = 0, !.now = 0]
        /\ scan_generation' = loc[t].generation /\ UNCHANGED scan_ms
    BY <1>2, <1>8, Zenon DEF StoreGeneration, ScanEnds
  <2>2. loc'[t].due = loc[t].due /\ loc'[t].generation = 0 /\ loc'[t].now = 0
    BY <1>1, <2>1, Zenon DEF Locals
  <2>3. Negative(t) /\ ~Negative(t)' /\ ~loc[t].due
    BY <1>1, <2>1, Zenon DEF Artifacts, Negative
  <2>4. \A u \in Threads : Negative(u)' => Negative(u) /\ loc'[u] = loc[u]
    BY <1>5, <2>3, Zenon DEF Negative
  <2>5. /\ loc[t].generation <= generation
        /\ image.counted => loc[t].generation < generation
        /\ \A u \in Threads : loc'[u].generation <= generation /\ loc'[u].now <= clock
    BY <1>1, <1>5, <2>2, <2>3, DueIsMapped, Zenon DEF ScansAreOld
  <2>6. ScansAreOld'
    BY <1>1, <1>3, <1>4, <2>1, <2>4, <2>5, Zenon DEF ScansAreOld
  <2>7. Artifacts(t)'
    BY <2>1, <2>2, <2>3, Zenon DEF Artifacts
  <2>8. ASSUME NEW u \in Threads \ {t} PROVE Artifacts(u)'
    <3>1. Newer(u) => Newer(u)'
      BY <1>5, <2>1, <2>3, <2>4, Zenon DEF Newer
    <3>2. Later(u) => Later(u)'
      BY <1>3, <1>5, Zenon DEF Later
    <3>3. Negative(u)' => Negative(u)
      BY <2>4, Zenon
    <3> QED
      BY <1>3, <1>4, <1>5, <3>1, <3>2, <3>3, Zenon DEF Artifacts
  <2> QED
    BY <2>6, <2>7, <2>8, Zenon DEF ProfileIsDue
<1> QED
  BY <1>6, <1>7, <1>8, Zenon DEF ScanStep

(* Choosing the profile, and answering with it. *)
LEMMA ProfileAnswered ==
  ASSUME TrapTypes, ProfileIsDue, NEW t \in Threads, Frame(t), Moves(t),
         ChooseProfile(t) \/ Answer(t) \/ NativeLookup(t) \/ NativeCpuid(t) \/ RecordStep(t)
  PROVE  ProfileIsDue'
<1>1. pc \in [Threads -> Labels] /\ loc \in [Threads -> Locals] /\ loc[t] \in Locals /\ Artifacts(t) /\ ScansAreOld
  BY LocalTypes, Zenon DEF TrapTypes, ThreadTypes, ProfileIsDue
<1>2. /\ \A label : Goto(t, label) => pc'[t] = label
      /\ \A l : Set(t, l) => loc'[t] = l
      /\ UNCHANGED loc => loc'[t] = loc[t]
  BY <1>1, Zenon DEF Goto, Set
<1>3. UNCHANGED <<scans, generation, clock, image>> /\ (~ChooseProfile(t) => UNCHANGED artifact)
  <2>1. CASE ChooseProfile(t)
    BY <2>1, Zenon DEF ChooseProfile, world
  <2>2. CASE Answer(t) \/ NativeLookup(t) \/ NativeCpuid(t)
    BY <2>2, Zenon DEF Answer, NativeLookup, NativeCpuid, world, flags
  <2>3. CASE RecordStep(t)
    BY <2>3, RecordsStay, Zenon DEF world, flags
  <2> QED
    BY <2>1, <2>2, <2>3, Zenon
<1>4. loc[t].due => ArtifactDue
  BY <1>1, Zenon DEF Artifacts
<1>5. "answer" \notin Scanning /\ "answer" \notin Told /\ \A label \in Told : label \notin Scanning /\ label # "answer"
  BY ZenonT(60) DEF Scanning, Told, RecordLabels
<1> DEFINE Same(l) == /\ SameScan(l, loc[t]) /\ l.vendor = loc[t].vendor /\ l.leaf = loc[t].leaf
<1>6. /\ Same(loc[t])
      /\ \A r : Same([loc[t] EXCEPT !.reply = r]) /\ Same([loc[t] EXCEPT !.regs = r])
      /\ \A r, s : Same([loc[t] EXCEPT !.regs = r, !.reply = s])
  <2>1. Same(loc[t])
    BY <1>1, SameScans, Zenon
  <2>2. \A r : SameScan([loc[t] EXCEPT !.reply = r], loc[t]) /\ SameScan([loc[t] EXCEPT !.regs = r], loc[t])
    BY <1>1, SameScans, Zenon
  <2>3. \A r, s : SameScan([loc[t] EXCEPT !.regs = r, !.reply = s], loc[t])
    BY <1>1, SameScans, Zenon
  <2>4. \A r : /\ [loc[t] EXCEPT !.reply = r].vendor = loc[t].vendor /\ [loc[t] EXCEPT !.reply = r].leaf = loc[t].leaf
               /\ [loc[t] EXCEPT !.regs = r].vendor = loc[t].vendor /\ [loc[t] EXCEPT !.regs = r].leaf = loc[t].leaf
    BY <1>1, Zenon DEF Locals
  <2>5. \A r, s : /\ [loc[t] EXCEPT !.regs = r, !.reply = s].vendor = loc[t].vendor
                  /\ [loc[t] EXCEPT !.regs = r, !.reply = s].leaf = loc[t].leaf
    BY <1>1, Zenon DEF Locals
  <2> QED
    BY <2>1, <2>2, <2>3, <2>4, <2>5, Zenon
<1>7. ASSUME pc'[t] \in Told, Same(loc'[t]), UNCHANGED artifact,
             loc[t].due /\ HasArtifactReply(loc[t].vendor, loc[t].leaf) => loc'[t].reply = "artifact"
      PROVE  ProfileIsDue'
  <2>1. /\ loc'[t].generation \in {0, loc[t].generation} /\ loc'[t].now \in {0, loc[t].now}
        /\ loc'[t].due = loc[t].due
    BY <1>7, Zenon DEF SameScan
  <2> QED
    BY <1>3, <1>4, <1>5, <1>7, <2>1, ProfileSettled, Zenon
<1> HIDE DEF Same
<1>8. ASSUME pc[t] \in Told PROVE loc[t].due /\ HasArtifactReply(loc[t].vendor, loc[t].leaf) => loc[t].reply = "artifact"
  BY <1>1, <1>8, Zenon DEF Artifacts
<1>9. ASSUME NEW r, Native(t, r), pc[t] \in Told, UNCHANGED artifact PROVE ProfileIsDue'
  <2> DEFINE s == IF loc[t].reply = "none" THEN "native" ELSE loc[t].reply
  <2>1. pc'[t] = "answered" /\ loc'[t] = [loc[t] EXCEPT !.regs = r, !.reply = s]
    BY <1>2, <1>9, Zenon DEF Native
  <2>2. loc[t].reply = "artifact" => s = "artifact"
    BY Zenon
  <2> HIDE DEF s
  <2>3. Same(loc'[t])
    <3>1. Same([loc[t] EXCEPT !.regs = r, !.reply = s])
      BY <1>6, Zenon
    <3> QED
      BY <2>1, <3>1, Zenon
  <2>4. loc'[t].reply = s
    BY <1>1, <2>1, Zenon DEF Locals
  <2>5. "answered" \in Told
    BY Zenon DEF Told
  <2> QED
    BY <1>7, <1>8, <1>9, <2>1, <2>2, <2>3, <2>4, <2>5, Zenon
<1>10. CASE ChooseProfile(t)
  <2>1. pc'[t] = "answer" /\ loc'[t] = [loc[t] EXCEPT !.generation = 0, !.now = 0] /\ artifact' = TRUE
    BY <1>2, <1>10, Zenon DEF ChooseProfile, ScanEnds
  <2>2. loc'[t].due = loc[t].due /\ loc'[t].generation = 0 /\ loc'[t].now = 0
    BY <1>1, <2>1, Zenon DEF Locals
  <2> QED
    BY <1>3, <1>4, <1>5, <2>1, <2>2, ProfileSettled, Zenon
<1>11. CASE Answer(t)
  <2>1. pc[t] = "answer" /\ UNCHANGED artifact
    BY <1>11, Zenon DEF Answer, flags
  <2>2. ASSUME loc[t].due, HasArtifactReply(loc[t].vendor, loc[t].leaf)
        PROVE  artifact /\ loc[t].vendor # "Unknown" /\ is_identity_leaf(loc[t].leaf)
    BY <1>1, <2>1, <2>2, Zenon DEF Artifacts, HasArtifactReply, is_identity_leaf
  <2>3. "answered" \in Told /\ "native" \in Told
    BY Zenon DEF Told
  <2>4. \A r : /\ Answered(t, r) => pc'[t] = "answered" /\ loc'[t].reply = r /\ Same(loc'[t])
               /\ Set(t, [loc[t] EXCEPT !.reply = r]) => loc'[t].reply = r /\ Same(loc'[t])
    <3>1. \A r : Set(t, [loc[t] EXCEPT !.reply = r]) => loc'[t].reply = r /\ Same(loc'[t])
      <4>1. \A r : [loc[t] EXCEPT !.reply = r].reply = r
        BY <1>1, Zenon DEF Locals
      <4> QED
        BY <1>2, <1>6, <4>1, Zenon
    <3> QED
      BY <1>2, <3>1, Zenon DEF Answered
  <2>5. CASE artifact /\ loc[t].vendor # "Unknown" /\ HasArtifactReply(loc[t].vendor, loc[t].leaf) /\ loc'[t].reply = "artifact"
             /\ Same(loc'[t]) /\ pc'[t] \in {"native", "answered"}
    BY <1>7, <2>1, <2>3, <2>5, Zenon
  <2>6. CASE /\ ~(artifact /\ loc[t].vendor # "Unknown" /\ HasArtifactReply(loc[t].vendor, loc[t].leaf)) \/ ~is_identity_leaf(loc[t].leaf)
             /\ Same(loc'[t]) /\ pc'[t] \in {"native", "answered"}
    BY <1>7, <2>1, <2>2, <2>3, <2>6, Zenon
  <2>7. \/ /\ artifact /\ loc[t].vendor # "Unknown" /\ HasArtifactReply(loc[t].vendor, loc[t].leaf)
           /\ \/ Goto(t, "native") /\ Set(t, [loc[t] EXCEPT !.reply = "artifact"])
              \/ Answered(t, "artifact")
        \/ /\ ~(artifact /\ loc[t].vendor # "Unknown" /\ HasArtifactReply(loc[t].vendor, loc[t].leaf))
           /\ Answered(t, fixed_reply(Current, loc[t].leaf))
        \/ /\ ~is_identity_leaf(loc[t].leaf)
           /\ Answered(t, "consumed") \/ (Goto(t, "native") /\ UNCHANGED loc)
    BY <1>11, Zenon DEF Answer
  <2> QED
    BY <1>2, <1>6, <2>4, <2>5, <2>6, <2>7, Zenon
<1>12. CASE NativeLookup(t)
  <2>1. pc[t] \in Told /\ "cpuid" \in Told
    BY <1>12, Zenon DEF NativeLookup, Told
  <2>2. UNCHANGED artifact
    BY <1>12, Zenon DEF NativeLookup, flags
  <2>3. CASE pc'[t] = "cpuid" /\ loc'[t] = loc[t]
    BY <1>6, <1>7, <1>8, <2>1, <2>2, <2>3, Zenon
  <2> QED
    BY <1>2, <1>9, <1>12, <2>1, <2>2, <2>3, Zenon DEF NativeLookup
<1>13. CASE NativeCpuid(t)
  <2>1. pc[t] \in Told /\ "nat_lock" \in Told
    BY <1>13, Zenon DEF NativeCpuid, Told
  <2>2. UNCHANGED artifact
    BY <1>13, Zenon DEF NativeCpuid, flags
  <2> DEFINE regs == [leaf |-> loc[t].leaf, core |-> loc[t].core]
  <2> HIDE DEF regs
  <2>3. ASSUME Goto(t, "nat_lock"), Set(t, [loc[t] EXCEPT !.regs = regs]) PROVE ProfileIsDue'
    <3>1. pc'[t] = "nat_lock" /\ loc'[t] = [loc[t] EXCEPT !.regs = regs]
      BY <1>2, <2>3, Zenon
    <3>2. Same(loc'[t])
      BY <1>6, <3>1, Zenon
    <3>3. loc'[t].reply = loc[t].reply
      BY <1>1, <3>1, Zenon DEF Locals
    <3> QED
      BY <1>7, <1>8, <2>1, <2>2, <3>1, <3>2, <3>3, Zenon
  <2>4. ASSUME pc' = [u \in Threads |-> "gone"], loc' = [u \in Threads |-> NoLocal] PROVE ProfileIsDue'
    <3>1. pc'[t] = "gone" /\ loc'[t] = NoLocal
      BY <2>4, Zenon
    <3> QED
      BY <1>3, <2>2, <3>1, ProfileQuiet, UnansweredLabels, Zenon
  <2> QED
    BY <1>9, <1>13, <2>1, <2>2, <2>3, <2>4, Zenon DEF NativeCpuid, regs
<1>14. CASE RecordStep(t)
  <2>1. UNCHANGED artifact
    BY <1>14, RecordsStay, Zenon DEF flags
  <2>2. CASE NativeUnlock(t)
    <3>1. pc[t] \in Told
      BY <2>2, Zenon DEF NativeUnlock, Told, RecordLabels
    <3> QED
      BY <1>9, <2>1, <2>2, <3>1, Zenon DEF NativeUnlock
  <2>3. CASE pc[t] \in Told /\ pc'[t] \in Told /\ loc'[t] = loc[t]
    BY <1>6, <1>7, <1>8, <2>1, <2>3, Zenon
  <2>4. {"nat_lock", "nat_key", "nat_regs", "nat_len", "nat_unlock"} \subseteq Told
    BY Zenon DEF Told, RecordLabels
  <2> QED
    BY <1>2, <1>14, <2>2, <2>3, <2>4, Zenon DEF RecordStep, NativeLock, NativeKey, NativeRegisters, NativeLength
<1> QED
  BY <1>10, <1>11, <1>12, <1>13, <1>14, Zenon

(* artifact.dll is mapped: every scan so far is older. *)
LEMMA ProfileMapped ==
  ASSUME TrapTypes, ProfileIsDue, image.since = Never, image' = [image EXCEPT !.since = clock],
         UNCHANGED <<scans, generation, clock>>,
         \A u \in Threads : ~loc'[u].due /\ loc'[u].generation <= generation /\ loc'[u].now <= clock
  PROVE  ProfileIsDue'
<1>1. /\ image \in [since : Nat \cup {Never}, counted : BOOLEAN] /\ clock \in Nat
      /\ UNCHANGED scan_generation /\ UNCHANGED scan_ms
  BY Zenon DEF TrapTypes, SharedTypes, scans
<1>2. image'.since = clock /\ image'.counted = image.counted
  BY <1>1, Zenon
<1>3. clock # Never /\ clock <= clock
  BY <1>1, SMT DEF Never
<1>4. Mapped' /\ ~image'.counted
  BY <1>2, <1>3, NobodyDue, Zenon DEF Mapped
<1>5. ScansAreOld'
  BY <1>1, <1>2, <1>3, <1>4, Zenon DEF ProfileIsDue, ScansAreOld
<1>6. \A u \in Threads : Artifacts(u)'
  BY <1>4, Zenon DEF Artifacts
<1> QED
  BY <1>5, <1>6, Zenon DEF ProfileIsDue

(* The world changes. *)
LEMMA ProfileWorld ==
  ASSUME TrapTypes, ProfileIsDue, WorldStep
  PROVE  ProfileIsDue'
<1>1. /\ UNCHANGED scans /\ UNCHANGED scan_generation /\ UNCHANGED scan_ms /\ UNCHANGED artifact /\ ScansAreOld
  BY WorldStays, Zenon DEF scans, flags, ProfileIsDue
<1>2. /\ pc \in [Threads -> Labels] /\ loc \in [Threads -> Locals]
      /\ \A t \in Threads : Rests(t) /\ Artifacts(t)
  BY Zenon DEF TrapTypes, ThreadTypes, ProfileIsDue
<1>3. /\ image \in [since : Nat \cup {Never}, counted : BOOLEAN] /\ clock \in Nat /\ generation \in Nat
      /\ scan_generation \in Int /\ scan_ms \in Nat /\ RescanInterval \in Nat
      /\ \A t \in Threads : loc[t].generation \in Nat /\ loc[t].now \in Nat
  BY LocalTypes, CpuidAssumption, Zenon DEF TrapTypes, SharedTypes, CpuidAssumption
<1>4. \A t \in Threads : loc[t].generation <= generation /\ loc[t].now <= clock
  BY DueIsMapped, Zenon
<1>5. ASSUME NEW t \in Threads, MapFile(t) PROVE ProfileIsDue'
  <2>1. pc[t] = "idle" /\ loc[t] = NoLocal /\ pc' = [pc EXCEPT ![t] = "note"] /\ UNCHANGED generation /\ UNCHANGED clock
    BY <1>2, <1>5, Zenon DEF MapFile, Rests, Goto
  <2>2. ASSUME image.since = Never, image' = [image EXCEPT !.since = clock], Set(t, [NoLocal EXCEPT !.kind = "Artifact"])
        PROVE  ProfileIsDue'
    <3>1. loc'[t] = [NoLocal EXCEPT !.kind = "Artifact"] /\ \A u \in Threads \ {t} : loc'[u] = loc[u]
      BY <1>2, <2>2, Zenon DEF Set
    <3>2. [NoLocal EXCEPT !.kind = "Artifact"].due = FALSE /\ [NoLocal EXCEPT !.kind = "Artifact"].generation = 0
          /\ [NoLocal EXCEPT !.kind = "Artifact"].now = 0
      BY Zenon DEF NoLocal
    <3>3. \A u \in Threads : ~loc[u].due
      BY <2>2, NobodyDue, Zenon DEF Mapped
    <3>4. \A u \in Threads : ~loc'[u].due /\ loc'[u].generation <= generation /\ loc'[u].now <= clock
      BY <1>4, <3>1, <3>2, <3>3, DueIsMapped, Zenon
    <3> QED
      BY <1>1, <2>1, <2>2, <3>4, ProfileMapped, Zenon
  <2>3. ASSUME UNCHANGED image, UNCHANGED loc PROVE ProfileIsDue'
    <3>1. pc'[t] = "note" /\ loc'[t] = NoLocal /\ \A u \in Threads \ {t} : pc'[u] = pc[u] /\ loc'[u] = loc[u]
      BY <1>2, <2>1, <2>3, Zenon
    <3>2. Frame(t)
      <4>1. "note" \in Labels
        BY Zenon DEF Labels
      <4> QED
        BY <3>1, <4>1, EmptyLocals, Zenon DEF Frame
    <3>3. Artifacts(t)'
      <4>1. loc'[t].due = FALSE /\ loc'[t].kind = "Ordinary"
        BY <3>1, NoScan, Zenon
      <4> QED
        BY <4>1, Zenon DEF Artifacts
    <3>4. ~Negative(t)'
      BY <3>1, Zenon DEF Negative
    <3>5. loc'[t].generation <= generation /\ loc'[t].now <= clock
      BY <1>4, <2>3, Zenon
    <3> QED
      BY <1>1, <2>1, <2>3, <3>2, <3>3, <3>4, <3>5, ProfileKept, Zenon
  <2> QED
    BY <1>5, <2>2, <2>3, Zenon DEF MapFile
<1>6. CASE LoaderMaps
  <2>1. /\ image.since = Never /\ image' = [image EXCEPT !.since = clock] /\ UNCHANGED <<scans, generation, clock>>
        /\ UNCHANGED loc
    BY <1>6, Zenon DEF LoaderMaps
  <2>2. \A u \in Threads : ~loc[u].due
    BY <2>1, NobodyDue, Zenon DEF Mapped
  <2> QED
    BY <1>4, <2>1, <2>2, ProfileMapped, Zenon
<1>7. ASSUME NEW t \in Threads, NoteFileMapping(t) PROVE ProfileIsDue'
  <2>1. /\ pc[t] = "note" /\ pc' = [pc EXCEPT ![t] = "idle"] /\ loc' = [loc EXCEPT ![t] = NoLocal]
        /\ generation' = generation + 1 /\ UNCHANGED clock
        /\ image' = [image EXCEPT !.counted = image.counted \/ loc[t].kind = "Artifact"]
    BY <1>7, Zenon DEF NoteFileMapping, Goto, Set
  <2>2. /\ pc'[t] = "idle" /\ loc'[t] = NoLocal
        /\ \A u \in Threads \ {t} : pc'[u] = pc[u] /\ loc'[u] = loc[u]
    BY <1>2, <2>1, Zenon
  <2>3. image'.since = image.since /\ (image'.counted <=> image.counted \/ loc[t].kind = "Artifact")
    <3> DEFINE b == image.counted \/ loc[t].kind = "Artifact"
    <3>1. image' = [image EXCEPT !.counted = b]
      BY <2>1, Zenon
    <3> HIDE DEF b
    <3>2. image'.since = image.since /\ image'.counted = b
      BY <1>3, <3>1, Zenon
    <3> QED
      BY <3>2, Zenon DEF b
  <2>4. (Mapped' <=> Mapped) /\ (image'.counted => Mapped) /\ (ArtifactDue => ArtifactDue')
    <3>1. Mapped' <=> Mapped
      BY <2>3, Zenon DEF Mapped
    <3>2. image'.counted => Mapped
      BY <1>1, <1>2, <2>1, <2>3, Zenon DEF ScansAreOld, Artifacts
    <3>3. ArtifactDue => ArtifactDue'
      BY <2>1, <2>3, Zenon DEF ArtifactDue
    <3> QED
      BY <3>1, <3>2, <3>3, Zenon
  <2>5. \A u \in Threads : Negative(u)' => Negative(u) /\ loc'[u] = loc[u]
    BY <2>2, Zenon DEF Negative
  <2>6. /\ scan_generation <= generation' /\ scan_generation < generation'
        /\ \A n \in Nat : n <= generation => n <= generation' /\ n < generation'
        /\ 0 <= generation' /\ 0 <= clock
    <3>1. scan_generation <= generation
      BY <1>1, Zenon DEF ScansAreOld
    <3> QED
      BY <1>3, <2>1, <3>1, SMT
  <2>7. \A u \in Threads : loc'[u].generation <= generation' /\ loc'[u].now <= clock
    BY <1>3, <1>4, <2>2, <2>6, NoScan, Zenon
  <2>8. \A u \in Threads : Negative(u)' => loc'[u].generation < generation'
    BY <1>3, <1>4, <2>5, <2>6, Zenon
  <2>9. ScansAreOld'
    BY <1>1, <2>1, <2>3, <2>4, <2>5, <2>6, <2>7, <2>8, Zenon DEF ScansAreOld
  <2>10. Artifacts(t)'
    BY <2>2, NoScan, Zenon DEF Artifacts
  <2>11. ASSUME NEW u \in Threads \ {t} PROVE Artifacts(u)'
    <3>1. Newer(u) => Newer(u)'
      BY <1>1, <2>2, <2>5, Zenon DEF Newer
    <3>2. Later(u) => Later(u)'
      BY <2>2, <2>3, Zenon DEF Later
    <3>3. Negative(u)' => Negative(u)
      BY <2>5, Zenon
    <3> QED
      BY <1>1, <1>2, <2>2, <2>4, <3>1, <3>2, <3>3, Zenon DEF Artifacts
  <2> QED
    BY <2>9, <2>10, <2>11, Zenon DEF ProfileIsDue
<1>8. CASE Tick
  <2>1. clock' = clock + 1 /\ UNCHANGED generation /\ UNCHANGED image /\ UNCHANGED pc /\ UNCHANGED loc
    BY <1>8, Zenon DEF Tick
  <2>2. \A n \in Nat : n <= clock => n <= clock'
    BY <1>3, <2>1, SMT
  <2>3. (Mapped' <=> Mapped) /\ (Mapped => image.since \in Nat)
    BY <1>3, <2>1, Zenon DEF Mapped
  <2>4. ArtifactDue => ArtifactDue'
    <3>1. Mapped /\ clock - image.since >= RescanInterval => clock' - image.since >= RescanInterval
      BY <1>3, <2>1, <2>3, SMT
    <3> QED
      BY <2>1, <3>1, Zenon DEF ArtifactDue, Mapped
  <2>5. \A u \in Threads : Negative(u)' <=> Negative(u)
    BY <2>1, Zenon DEF Negative
  <2>6. ScansAreOld'
    BY <1>1, <1>3, <2>1, <2>2, <2>3, <2>5, Zenon DEF ScansAreOld
  <2>7. ASSUME NEW u \in Threads PROVE Artifacts(u)'
    <3>1. Newer(u) => Newer(u)'
      BY <1>1, <2>1, <2>5, Zenon DEF Newer
    <3>2. Later(u) => Later(u)'
      BY <2>1, Zenon DEF Later
    <3> QED
      BY <1>1, <1>2, <2>1, <2>3, <2>4, <2>5, <3>1, <3>2, Zenon DEF Artifacts
  <2> QED
    BY <2>6, <2>7, Zenon DEF ProfileIsDue
<1> QED
  BY <1>5, <1>6, <1>7, <1>8, Zenon DEF WorldStep

(* Every step keeps what holds of the profile, until a system call fails. *)
LEMMA ArtifactsHold ==
  ASSUME TrapTypes, ArtifactInv, [Next]_vars
  PROVE  ArtifactInv'
<1>1. (Failed => Failed') /\ workload' = workload
  BY FailuresStay, Zenon
<1> SUFFICES ASSUME ~Failed' PROVE ProfileIsDue'
  BY Zenon DEF ArtifactInv
<1>2. ProfileIsDue
  BY <1>1, Zenon DEF ArtifactInv
<1>3. ASSUME NEW t \in Threads, ThreadStep(t), Moves(t), Frame(t) PROVE ProfileIsDue'
  <2>1. \/ \/ StartLegacy(t) \/ \E host \in workload.hosts : StartConfigure(t, host)
           \/ ConfigureLoad(t) \/ ConfigureCas(t) \/ SelectLoad(t) \/ SelectCas(t) \/ SelectStore(t) \/ Return(t)
           \/ LookupSequence(t) \/ LookupStart(t) \/ LookupEnd(t) \/ LookupKind(t) \/ LookupCheck(t)
           \/ Classify(t) \/ Search(t) \/ Present(t) \/ EntryStep(t)
        \/ \/ \E leaf \in workload.calls : GetFixedReply(t, leaf)
           \/ \E trap \in workload.traps, core \in workload.cores : Trap(t, trap, core)
        \/ LoadVendor(t) \/ LoadGeneration(t) \/ FreshGeneration(t) \/ FreshMilliseconds(t)
        \/ Scan(t) \/ ScanStep(t)
        \/ ChooseProfile(t) \/ Answer(t) \/ NativeLookup(t) \/ NativeCpuid(t) \/ RecordStep(t)
        \/ WorldStep
    BY <1>3, Zenon DEF ThreadStep, HandlerStep, ScanStep, RecordStep, EntryStep, WorldStep
  <2> QED
    BY <1>1, <1>2, <1>3, <2>1, ProfileApart, ProfileTrapped, ProfileSearched, ProfileScanned, ProfileAnswered,
       ProfileWorld, Zenon
<1>4. CASE Ends /\ UNCHANGED <<flags, caches, scans, world>>
  <2>1. /\ UNCHANGED scan_generation /\ UNCHANGED scan_ms /\ UNCHANGED generation /\ UNCHANGED clock /\ UNCHANGED image
        /\ \A u \in Threads : pc'[u] \in {"idle", "gone"} /\ loc'[u] = NoLocal
    BY <1>4, Zenon DEF scans, world, Ends
  <2>2. Mapped' <=> Mapped
    BY <2>1, Zenon DEF Mapped
  <2>3. \A u \in Threads : ~Negative(u)' /\ loc'[u].generation <= generation /\ loc'[u].now <= clock
    <3>1. \A u \in Threads : ~Negative(u)'
      BY <2>1, Zenon DEF Negative
    <3> QED
      BY <1>2, <2>1, <3>1, NoScan, DueIsMapped, Zenon
  <2>4. ScansAreOld'
    BY <1>2, <2>1, <2>2, <2>3, Zenon DEF ProfileIsDue, ScansAreOld
  <2>5. \A u \in Threads : Artifacts(u)'
    BY <2>1, NoScan, Zenon DEF Artifacts
  <2> QED
    BY <2>4, <2>5, Zenon DEF ProfileIsDue
<1>5. CASE LoaderMaps \/ Tick
  BY <1>2, <1>5, ProfileWorld, Zenon DEF WorldStep
<1>6. CASE UNCHANGED vars
  <2>1. /\ UNCHANGED scan_generation /\ UNCHANGED scan_ms /\ UNCHANGED generation /\ UNCHANGED clock /\ UNCHANGED image
        /\ UNCHANGED pc /\ UNCHANGED loc /\ UNCHANGED artifact
    BY <1>6, Zenon DEF vars, scans, world, flags
  <2>2. (Mapped' <=> Mapped) /\ (ArtifactDue' <=> ArtifactDue)
    BY <2>1, Zenon DEF Mapped, ArtifactDue
  <2>3. \A u \in Threads : /\ Negative(u)' <=> Negative(u)
                           /\ Later(u)' <=> Later(u)
    BY <2>1, Zenon DEF Negative, Later
  <2>4. \A u \in Threads : Newer(u) => Newer(u)'
    BY <2>1, <2>3, Zenon DEF Newer
  <2>5. ScansAreOld'
    BY <1>2, <2>1, <2>2, <2>3, Zenon DEF ProfileIsDue, ScansAreOld
  <2>6. \A u \in Threads : Artifacts(u)'
    BY <1>2, <2>1, <2>2, <2>3, <2>4, Zenon DEF ProfileIsDue, Artifacts
  <2> QED
    BY <2>5, <2>6, Zenon DEF ProfileIsDue
<1> QED
  BY <1>3, <1>4, <1>5, <1>6, StepCases, Zenon

-----------------------------------------------------------------------------
(* The theorems *)

(* The runtime starts with empty caches, nothing scanned and no call. *)
LEMMA TrapInit ==
  ASSUME Init
  PROVE  TrapInv
<1>1. workload \in Workloads /\ left = workload.bounds /\ workload.bounds \in Bounds
  BY CpuidAssumption, Zenon DEF Init, CpuidAssumption
<1>2. left.failures \in Nat /\ left.failures <= workload.bounds.failures
  <2>1. left.failures \in Nat /\ left.failures = workload.bounds.failures
    BY <1>1, Zenon DEF Bounds
  <2> QED
    BY <2>1, SMT
<1>3. raw_identity \in Words
  <2>1. workload.detected \in [vendor : Vendors, avx : BOOLEAN]
    BY <1>1, CpuidAssumption, Zenon DEF CpuidAssumption
  <2> QED
    BY <2>1, HostsHold, Zenon DEF Init
<1>4. 0 \in Nat /\ 0 <= 0 /\ 0 % 2 = 0 /\ Never \in Int /\ Never <= 0
  BY SMT DEF Never
<1>5. /\ entries \in [Cells -> Entry]
      /\ \A c \in Cells : entries[c].seq = 0 /\ entries[c].start = 0 /\ entries[c].end = 0
  <2>1. [seq |-> 0, start |-> 0, end |-> 0, kind |-> "Ordinary"] \in Entry
    BY <1>4, Zenon DEF Entry, Kinds
  <2> QED
    BY <2>1, Zenon DEF Init
<1>6. native \in [1..NativeCap -> [key : Asked, regs : Registers]]
  <2>1. [key |-> "none", regs |-> NoRegisters] \in [key : Asked, regs : Registers]
    BY EmptyLocals, Zenon DEF Asked
  <2> QED
    BY <2>1, Zenon DEF Init
<1>7. native_len \in 0..NativeCap /\ entries_next \in 0..CallerCap /\ 1..native_len = {}
  BY CpuidAssumption, SMT DEF Init, CpuidAssumption
<1>8. image \in [since : Nat \cup {Never}, counted : BOOLEAN] /\ image.since = Never /\ image.counted = FALSE
  BY Zenon DEF Init
<1>9. SharedTypes
  BY <1>1, <1>2, <1>3, <1>4, <1>5, <1>6, <1>7, <1>8, Zenon DEF SharedTypes, Init
<1>10. pc \in [Threads -> Labels] /\ loc \in [Threads -> Locals] /\ \A t \in Threads : pc[t] = "idle" /\ loc[t] = NoLocal
  <2>1. "idle" \in Labels
    BY Zenon DEF Labels
  <2> QED
    BY <2>1, EmptyLocals, Zenon DEF Init
<1>11. ThreadTypes
  BY <1>10, Zenon DEF ThreadTypes, Rests
<1>12. CallerInv
  <2>1. InsertsOwn
    BY <1>10, Zenon DEF InsertsOwn, InsertLabels
  <2>2. EntriesAreWhole
    BY <1>4, <1>5, Zenon DEF EntriesAreWhole, IsWhole
  <2>3. \A t \in Threads : Inserts(t)
    BY <1>10, Zenon DEF Inserts, InsertLabels
  <2>4. \A t \in Threads : Looks(t) /\ IsClassified(t)
    BY <1>10, Zenon DEF Looks, IsClassified, Classified
  <2> QED
    BY <2>1, <2>2, <2>3, <2>4, Zenon DEF CallerInv
<1>13. NativeInv
  <2>1. RecordsOwn
    BY <1>10, Zenon DEF RecordsOwn, RecordLabels
  <2>2. CellsAreWhole
    BY <1>7, Zenon DEF CellsAreWhole
  <2>3. \A t \in Threads : Records(t) /\ IsAnswered(t)
    BY <1>10, Zenon DEF Records, IsAnswered, RecordLabels
  <2> QED
    BY <2>1, <2>2, <2>3, Zenon DEF NativeInv
<1>14. ArtifactInv
  <2>1. scan_generation = Never /\ scan_ms = 0 /\ generation = 0 /\ clock = 0
    BY Zenon DEF Init
  <2>2. \A t \in Threads : loc[t].due = FALSE /\ loc[t].generation = 0 /\ loc[t].now = 0 /\ pc[t] # "note"
    BY <1>10, NoScan, Zenon
  <2>3. ~Mapped
    BY <1>8, Zenon DEF Mapped
  <2>4. ScansAreOld
    BY <1>4, <1>8, <2>1, <2>2, <2>3, Zenon DEF ScansAreOld
  <2>5. \A t \in Threads : Artifacts(t)
    BY <2>2, Zenon DEF Artifacts
  <2> QED
    BY <2>4, <2>5, Zenon DEF ArtifactInv, ProfileIsDue
<1> QED
  BY <1>9, <1>11, <1>12, <1>13, <1>14, Zenon DEF TrapInv, TrapTypes

(* The inductive invariant: every step of every thread keeps it. *)
THEOREM TrapStep == TrapInv /\ [Next]_vars => TrapInv'
<1> SUFFICES ASSUME TrapInv, [Next]_vars PROVE TrapInv'
  BY Zenon
<1>1. TrapTypes /\ CallerInv /\ NativeInv /\ ArtifactInv
  BY Zenon DEF TrapInv
<1>2. TrapTypes'
  BY <1>1, TypesKept, Zenon
<1>3. CallerInv'
  BY <1>1, <1>2, CallersHold, Zenon
<1>4. NativeInv'
  BY <1>1, NativesHold, Zenon
<1>5. ArtifactInv'
  BY <1>1, ArtifactsHold, Zenon
<1> QED
  BY <1>2, <1>3, <1>4, <1>5, Zenon DEF TrapInv

(* For any number of threads and entries, a seqlocked hit of CallerCache gives *)
(* a caller a kind of the mapping it executes from, and NativeCache answers    *)
(* with registers of the leaf that was asked.                                  *)
THEOREM CachedAnswersHold == Spec => []CachedAnswersAreTrue
<1>1. TrapInv => CachedAnswersAreTrue
  <2> SUFFICES ASSUME TrapInv PROVE CachedAnswersAreTrue
    BY Zenon
  <2>1. /\ raw_identity \in {encode(i) : i \in Identities}
        /\ native_len \in 0..NativeCap /\ entries_next \in 0..CallerCap
    BY Zenon DEF TrapInv, TrapTypes, SharedTypes, Words
  <2>2. ASSUME NEW t \in Threads,
               pc[t] \in {"present", "sel_load", "sel_cas", "sel_store", "vendor"}, loc[t].leaf # "none"
        PROVE  loc[t].kind \in KindsAt(loc[t].rip)
    BY <2>2, ClassifiedMeans, Zenon DEF TrapInv, CallerInv, Classified
  <2>3. \A t \in Threads : IsAnswered(t)
    BY Zenon DEF TrapInv, NativeInv
  <2> QED
    BY <2>1, <2>2, <2>3, Zenon DEF CachedAnswersAreTrue, IsAnswered
<1>2. Init => TrapInv
  BY TrapInit, Zenon
<1>3. TrapInv /\ [Next]_vars => TrapInv'
  BY TrapStep, Zenon
<1> QED
  BY <1>1, <1>2, <1>3, PTL DEF Spec

(* Once artifact.dll was mapped through the interposer, or RescanInterval ago, *)
(* no negative scan of artifact_module_newly_mapped outlives the mapping.      *)
THEOREM ArtifactHolds == Spec => []ArtifactIsSeen
<1>1. TrapInv => ArtifactIsSeen
  <2> SUFFICES ASSUME TrapInv, NEW t \in Threads, pc[t] = "answered", loc[t].due, ~Failed,
                      HasArtifactReply(loc[t].vendor, loc[t].leaf)
               PROVE  loc[t].reply = "artifact"
    BY Zenon DEF ArtifactIsSeen
  <2>1. Artifacts(t)
    BY Zenon DEF TrapInv, ArtifactInv, ProfileIsDue
  <2> QED
    BY <2>1, Zenon DEF Artifacts, Told
<1>2. Init => TrapInv
  BY TrapInit, Zenon
<1>3. TrapInv /\ [Next]_vars => TrapInv'
  BY TrapStep, Zenon
<1> QED
  BY <1>1, <1>2, <1>3, PTL DEF Spec

(* Only the two exchanges write the identity, and they keep Legacy. *)
LEMMA LegacyKept ==
  ASSUME TrapTypes, [Next]_vars, cpuid_kuser_recipe(Current) # "Resume"
  PROVE  cpuid_kuser_recipe(Current') # "Resume"
<1>1. \A i \in Identities : cpuid_kuser_recipe(i) # "Resume" <=> i.presentation = "Legacy"
  <2> SUFFICES ASSUME NEW i \in Identities PROVE cpuid_kuser_recipe(i) # "Resume" <=> i.presentation = "Legacy"
    BY Zenon
  <2>1. i.presentation \in {"Denuvo", "Legacy"}
    BY Zenon DEF Identities
  <2>2. CASE i.presentation = "Denuvo"
    BY <2>2, Zenon DEF cpuid_kuser_recipe
  <2>3. CASE i.presentation = "Legacy"
    BY <2>3, Zenon DEF cpuid_kuser_recipe
  <2> QED
    BY <2>1, <2>2, <2>3, Zenon
<1>2. raw_identity \in Words /\ Current = decode(raw_identity) /\ Current' = decode(raw_identity')
  BY Zenon DEF TrapTypes, SharedTypes, Current
<1>3. decode(raw_identity).presentation = "Legacy"
  BY <1>1, <1>2, WordsHold, Zenon
<1>4. SUFFICES decode(raw_identity') \in Identities /\ decode(raw_identity').presentation = "Legacy"
  BY <1>1, <1>2, Zenon
<1>5. CASE UNCHANGED raw_identity
  BY <1>2, <1>3, <1>5, WordsHold, Zenon
<1>6. ASSUME NEW t \in Threads, ConfigureCas(t) \/ SelectCas(t), ~(UNCHANGED raw_identity)
      PROVE  decode(raw_identity') \in Identities /\ decode(raw_identity').presentation = "Legacy"
  <2>1. loc[t].raw \in Words /\ loc[t].next \in Words /\ loc[t].raw = raw_identity
    BY <1>6, LocalTypes, Zenon DEF ConfigureCas, SelectCas
  <2>2. \E w \in Words : raw_identity' = encode([decode(w) EXCEPT !.presentation = "Legacy"])
    BY <1>3, <1>6, <2>1, Zenon DEF ConfigureCas, SelectCas, Configured
  <2>3. PICK w \in Words : raw_identity' = encode([decode(w) EXCEPT !.presentation = "Legacy"])
    BY <2>2, Zenon
  <2> DEFINE i == [decode(w) EXCEPT !.presentation = "Legacy"]
  <2>4. encode(i) \in Words /\ decode(encode(i)) = i /\ i.presentation = "Legacy"
    BY WordsHold, Zenon
  <2> HIDE DEF i
  <2>5. raw_identity' = encode(i)
    BY <2>3, Zenon DEF i
  <2> QED
    BY <2>4, <2>5, WordsHold, Zenon
<1>7. UNCHANGED raw_identity \/ \E t \in Threads : ConfigureCas(t) \/ SelectCas(t)
  <2>1. ASSUME NEW t \in Threads, \/ QuietStep(t) \/ CountingStep(t) \/ EntryStep(t) \/ RecordStep(t) \/ ScanStep(t)
        PROVE  UNCHANGED raw_identity
    BY <2>1, QuietStays, CountingStays, EntriesStay, RecordsStay, ScansStay, Zenon DEF SharedStays, flags
  <2>2. ASSUME WorldStep \/ UNCHANGED vars PROVE UNCHANGED raw_identity
    BY <2>2, WorldStays, Zenon DEF vars, flags
  <2>3. ASSUME NEW t \in Threads, FlagStep(t)
        PROVE  UNCHANGED raw_identity \/ ConfigureCas(t) \/ SelectCas(t)
    BY <2>3, FlagsStay, Zenon
  <2> QED
    BY <2>1, <2>2, <2>3, StepKinds, Zenon
<1> QED
  BY <1>5, <1>6, <1>7, Zenon

(* A presentation once Legacy stays Legacy: configure_host exchanges the word  *)
(* with the presentation that it read, and select_legacy_presentation only     *)
(* ever sets it.                                                               *)
THEOREM LegacyHolds == Spec => LegacyIsNeverLost
<1>1. TrapInv /\ [Next]_vars =>
        [cpuid_kuser_recipe(Current) # "Resume" => cpuid_kuser_recipe(Current') # "Resume"]_vars
  BY LegacyKept, Zenon DEF TrapInv
<1>2. Init => TrapInv
  BY TrapInit, Zenon
<1>3. TrapInv /\ [Next]_vars => TrapInv'
  BY TrapStep, Zenon
<1> QED
  BY <1>1, <1>2, <1>3, PTL DEF Spec, LegacyIsNeverLost
=============================================================================
