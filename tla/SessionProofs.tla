---------------------------- MODULE SessionProofs ---------------------------
(***************************************************************************)
(* The processes of a session: their starts (environment.rs, registry.rs and  *)
(* gamescope.rs), the clock offset that they share (faketime.rs) and the       *)
(* descriptors that they inherit (socketpair.rs), for every set of processes   *)
(* and threads, environment and requested time.                                *)
(***************************************************************************)
EXTENDS Startup, Faketime, SocketPair, FiniteSetTheorems, WellFoundedInduction, TLAPS

-----------------------------------------------------------------------------
(* Starts *)

(* Where a process can be. *)
StartLabels ==
  {"none", "gamescope", "registry", "flock", "check", "flush", "unlock", "mark", "classify",
   "overrides", "running", "dead"}

(* Labels between taking the lock on system.reg and giving it up. *)
Locked == {"check", "flush", "unlock"}
(* What WINEDLLOVERRIDES and LD_PRELOAD can hold, and the sections of       *)
(* system.reg.                                                              *)
Entries ==
  (UNION {Range(s.overrides) : s \in Sessions})
  \cup {[dll |-> dll, order |-> "n,b"] : dll \in Range(OverrideNames)}
Paths == (UNION {Range(list) : list \in UserPreloads}) \cup {Self, ""}
SectionKinds == {"guid", "profile", "value"}

(* The types of what the properties speak of. *)
StartTypes ==
  /\ spc \in [Procs -> StartLabels] /\ done \in [Procs -> BOOLEAN]
  /\ dlls \in [Procs -> Seq(Entries)] /\ preload \in [Procs -> Seq(Paths)]
  /\ enabled \in [Procs -> BOOLEAN] /\ game \in [Procs -> BOOLEAN] /\ next \in [Procs -> Nat \ {0}]
  /\ registry \in [kind : {"missing", "foreign", "wine"}, sections : Seq(SectionKinds)]

(* The value is found behind the profile's name, in these sections. *)
FindsGuid(sections) ==
  \E i, j \in DOMAIN sections :
    /\ i <= j /\ sections[i] \in {"profile", "guid"}
    /\ sections[j] \in (IF i = j THEN {"guid"} ELSE {"guid", "value"})

(* x is in the list once at most. *)
OneOf(list, x) == \A i, j \in DOMAIN list : list[i] = x /\ list[j] = x => i = j

(* fl is the process whose label, in at, is under the lock. *)
LockOK(fl, at) == \A p \in Procs : fl = p <=> at[p] \in Locked

(* p goes from one label to another and the lock's holder from fl to fl2. *)
LockMove(fl, fl2, p, from, to) ==
  \/ fl2 = fl /\ (from \in Locked <=> to \in Locked)
  \/ fl = "free" /\ fl2 = p /\ to \in Locked
  \/ from \in Locked /\ fl2 = "free" /\ to \notin Locked

(* The lock is held from the check to the unlock, and while it is held nobody    *)
(* else changes what the check saw.                                              *)
RegistryIsOwn ==
  /\ OneOf(registry.sections, "guid")
  /\ registry.kind # "wine" => registry.sections = <<>>
  /\ LockOK(flock, spc)
  /\ \A p \in Procs :
       /\ (done[p] \/ spc[p] \in {"unlock", "mark"}) /\ ~scarce => FindsGuid(registry.sections)
       /\ spc[p] = "flush" => registry.kind = "wine" /\ ~FindsGuid(registry.sections)

(* The overrides of a process: the player's first, none twice. *)
DllsOK(entries) ==
  /\ \A i, j \in DOMAIN entries : entries[i].dll = entries[j].dll => i = j
  /\ \E s \in Sessions : BeginsWith(entries, s.overrides)

(* How far the loop over OVERRIDES got. *)
LoopOK(l, n, g, entries, sc) ==
  /\ l \notin {"overrides", "running", "dead"} => n = 1
  /\ l = "overrides" =>
       /\ n \in 1..Len(OverrideNames)
       /\ ~sc => \A i \in 1..(n - 1) : already_present(entries, OverrideNames[i])
  /\ l = "running" /\ g /\ ~sc => \A i \in 1..Len(OverrideNames) : already_present(entries, OverrideNames[i])

(* LD_PRELOAD of a process. *)
PreloadOK(l, on, list) ==
  /\ on \/ l = "gamescope" => preload_has_path(list)
  /\ OneOf(list, Self)

(* The environment of every process. *)
EnvironIsOwn ==
  \A p \in Procs :
    /\ DllsOK(dlls[p]) /\ LoopOK(spc[p], next[p], game[p], dlls[p], scarce)
    /\ PreloadOK(spc[p], enabled[p], preload[p])

(* The inductive invariant of the starts. *)
StartInv == StartTypes /\ RegistryIsOwn /\ EnvironIsOwn
-----------------------------------------------------------------------------
(* Lists that grow at their end. *)

(* new is the list of elements of S with x at its end. *)
Grown(S, list, x, new) ==
  /\ new \in Seq(S) /\ DOMAIN list = 1..Len(list) /\ DOMAIN new = 1..(Len(list) + 1)
  /\ new[Len(list) + 1] = x
  /\ \A i \in 1..Len(list) : new[i] = list[i] /\ i \in 1..(Len(list) + 1)
  /\ \A i \in 1..(Len(list) + 1) : i \in 1..Len(list) \/ i = Len(list) + 1
  /\ Len(list) + 1 \in 1..(Len(list) + 1)

(* Appending keeps what is there. *)
LEMMA ListGrows ==
  ASSUME NEW S, NEW list \in Seq(S), NEW x \in S
  PROVE  Grown(S, list, x, Append(list, x))
  BY SMT DEF Grown

(* A list of elements of a larger set. *)
LEMMA ListOfMore ==
  ASSUME NEW S, NEW T, S \subseteq T, NEW list \in Seq(S)
  PROVE  list \in Seq(T)
  BY SMT

(* The lists that a session starts with. *)
LEMMA GivenLists ==
  /\ \A s \in Sessions : s.overrides \in Seq(Entries)
  /\ \A list \in UserPreloads : list \in Seq(Paths)
  /\ \A i \in 1..Len(OverrideNames) : OverrideNames[i] \in Range(OverrideNames)
  /\ Len(OverrideNames) \in Nat \ {0} /\ DOMAIN OverrideNames = 1..Len(OverrideNames)
<1>1. \A s \in Sessions : s.overrides \in Seq(Entries)
  <2> SUFFICES ASSUME NEW s \in Sessions PROVE s.overrides \in Seq(Entries)
    BY Zenon
  <2>1. s.overrides \in Seq(Range(s.overrides)) /\ Range(s.overrides) \subseteq Entries
    BY StartupAssumption, Zenon DEF StartupAssumption, IsList, Entries
  <2> QED
    BY <2>1, ListOfMore, Zenon
<1>2. \A list \in UserPreloads : list \in Seq(Paths)
  <2> SUFFICES ASSUME NEW list \in UserPreloads PROVE list \in Seq(Paths)
    BY Zenon
  <2>1. list \in Seq(Range(list)) /\ Range(list) \subseteq Paths
    BY StartupAssumption, Zenon DEF StartupAssumption, IsList, Paths
  <2> QED
    BY <2>1, ListOfMore, Zenon
<1>3. OverrideNames \in Seq(Range(OverrideNames)) /\ OverrideNames # <<>>
  BY StartupAssumption, Zenon DEF StartupAssumption, IsList
<1>4. Len(OverrideNames) \in Nat \ {0} /\ DOMAIN OverrideNames = 1..Len(OverrideNames)
  BY <1>3, SMT
<1> QED
  BY <1>1, <1>2, <1>4, Zenon DEF Range

(* A prefix stays one. *)
LEMMA PrefixGrows ==
  ASSUME NEW S, NEW first, NEW list \in Seq(S), NEW x \in S, BeginsWith(list, first)
  PROVE  BeginsWith(Append(list, x), first)
<1> DEFINE new == Append(list, x)
<1>1. Grown(S, list, x, new)
  BY ListGrows, Zenon
<1> HIDE DEF new
<1>2. \A i \in DOMAIN list : i \in DOMAIN new /\ new[i] = list[i]
  BY <1>1, Zenon DEF Grown
<1>3. BeginsWith(new, first)
  BY <1>2, Zenon DEF BeginsWith
<1> QED
  BY <1>3, Zenon DEF new

(* Every list is a prefix of itself. *)
LEMMA PrefixOfItself == \A list : BeginsWith(list, list)
  BY Zenon DEF BeginsWith

(* What is found stays found. *)
LEMMA FoundStays ==
  ASSUME NEW sections \in Seq(SectionKinds), NEW x \in SectionKinds, FindsGuid(sections)
  PROVE  FindsGuid(Append(sections, x))
<1> DEFINE new == Append(sections, x)
<1>1. Grown(SectionKinds, sections, x, new)
  BY ListGrows, Zenon
<1> HIDE DEF new
<1> QED
  BY <1>1, Zenon DEF FindsGuid, Grown, new

(* The section of this runtime is found. *)
LEMMA OwnIsFound ==
  ASSUME NEW sections \in Seq(SectionKinds)
  PROVE  FindsGuid(Append(sections, "guid"))
<1> DEFINE new == Append(sections, "guid")
<1>1. "guid" \in SectionKinds
  BY Zenon DEF SectionKinds
<1>2. Grown(SectionKinds, sections, "guid", new)
  BY <1>1, ListGrows, Zenon
<1>3. Len(sections) + 1 <= Len(sections) + 1
  BY SMT
<1> HIDE DEF new
<1> QED
  BY <1>2, <1>3, Zenon DEF FindsGuid, Grown, new

(* Where nothing is found no section has the profile's value, and so it is       *)
(* written a first time.                                                         *)
LEMMA GuidOnce ==
  ASSUME NEW sections \in Seq(SectionKinds), OneOf(sections, "guid"), NEW x \in SectionKinds,
         x = "guid" => ~FindsGuid(sections)
  PROVE  OneOf(Append(sections, x), "guid")
<1> DEFINE new == Append(sections, x)
           n == Len(sections)
<1>1. /\ DOMAIN sections = 1..n /\ DOMAIN new = 1..(n + 1) /\ new[n + 1] = x
      /\ \A i \in 1..n : new[i] = sections[i]
      /\ \A i \in 1..(n + 1) : i \in 1..n \/ i = n + 1
  <2>1. Grown(SectionKinds, sections, x, new)
    BY ListGrows, Zenon
  <2> QED
    BY <2>1, Zenon DEF Grown
<1>2. \A i \in 1..n : i <= i
  BY SMT
<1> HIDE DEF new, n
<1>3. x = "guid" => \A i \in 1..n : sections[i] # "guid"
  BY <1>1, <1>2, Zenon DEF FindsGuid
<1>4. ASSUME NEW i \in 1..(n + 1), NEW j \in 1..(n + 1), new[i] = "guid", new[j] = "guid" PROVE i = j
  <2>1. CASE i \in 1..n /\ j \in 1..n
    BY <1>1, <1>4, <2>1, Zenon DEF OneOf
  <2>2. CASE i = n + 1 /\ j \in 1..n
    BY <1>1, <1>3, <1>4, <2>2, Zenon
  <2>3. CASE i \in 1..n /\ j = n + 1
    BY <1>1, <1>3, <1>4, <2>3, Zenon
  <2> QED
    BY <1>1, <2>1, <2>2, <2>3, Zenon
<1> QED
  BY <1>1, <1>4, Zenon DEF OneOf, new

(* add_override adds a name that is not there, at the end. *)
LEMMA AddsOverride ==
  ASSUME NEW entries \in Seq(Entries), DllsOK(entries), NEW dll \in Range(OverrideNames)
  PROVE  /\ add_override(entries, dll) \in Seq(Entries) /\ DllsOK(add_override(entries, dll))
         /\ already_present(add_override(entries, dll), dll)
         /\ \A other : already_present(entries, other) => already_present(add_override(entries, dll), other)
<1> DEFINE x == [dll |-> dll, order |-> "n,b"]
           new == Append(entries, x)
           n == Len(entries)
<1>1. CASE already_present(entries, dll)
  BY <1>1, Zenon DEF add_override
<1>2. CASE ~already_present(entries, dll)
  <2>1. x \in Entries /\ x.dll = dll
    BY Zenon DEF Entries
  <2>2. add_override(entries, dll) = new
    BY <1>2, Zenon DEF add_override
  <2> HIDE DEF x
  <2>3. /\ new \in Seq(Entries) /\ DOMAIN entries = 1..n /\ DOMAIN new = 1..(n + 1) /\ new[n + 1] = x
        /\ \A i \in 1..n : new[i] = entries[i] /\ i \in 1..(n + 1)
        /\ n + 1 \in 1..(n + 1)
        /\ \A i \in 1..(n + 1) : i \in 1..n \/ i = n + 1
    <3>1. Grown(Entries, entries, x, new)
      BY <2>1, ListGrows, Zenon
    <3> QED
      BY <3>1, Zenon DEF Grown
  <2>4. \A s \in Sessions : s.overrides \in Seq(Entries)
    BY GivenLists, Zenon
  <2>5. \E s \in Sessions : BeginsWith(new, s.overrides)
    BY <2>1, <2>4, PrefixGrows, Zenon DEF DllsOK
  <2> HIDE DEF new, n
  <2>6. \A i \in 1..n : entries[i].dll # dll
    BY <1>2, <2>3, Zenon DEF already_present
  <2>7. ASSUME NEW i \in 1..(n + 1), NEW j \in 1..(n + 1), new[i].dll = new[j].dll PROVE i = j
    <3>1. CASE i \in 1..n /\ j \in 1..n
      BY <2>3, <2>7, <3>1, Zenon DEF DllsOK
    <3>2. CASE i = n + 1 /\ j \in 1..n
      BY <2>1, <2>3, <2>6, <2>7, <3>2, Zenon
    <3>3. CASE i \in 1..n /\ j = n + 1
      BY <2>1, <2>3, <2>6, <2>7, <3>3, Zenon
    <3> QED
      BY <2>3, <3>1, <3>2, <3>3, Zenon
  <2>8. DllsOK(new)
    BY <2>3, <2>5, <2>7, Zenon DEF DllsOK
  <2>9. already_present(new, dll) /\ \A other : already_present(entries, other) => already_present(new, other)
    BY <2>1, <2>3, Zenon DEF already_present
  <2> QED
    BY <2>2, <2>3, <2>8, <2>9, Zenon
<1> QED
  BY <1>1, <1>2, Zenon

(* LD_PRELOAD names the runtime once when it is appended to a list without it. *)
LEMMA AppendsSelf ==
  ASSUME NEW list \in Seq(Paths), ~preload_has_path(list)
  PROVE  /\ Append(list, Self) \in Seq(Paths) /\ preload_has_path(Append(list, Self))
         /\ OneOf(Append(list, Self), Self)
<1> DEFINE new == Append(list, Self)
           n == Len(list)
<1>1. Self \in Paths
  BY Zenon DEF Paths
<1>2. /\ new \in Seq(Paths) /\ DOMAIN list = 1..n /\ DOMAIN new = 1..(n + 1) /\ new[n + 1] = Self
      /\ \A i \in 1..n : new[i] = list[i]
      /\ n + 1 \in 1..(n + 1)
      /\ \A i \in 1..(n + 1) : i \in 1..n \/ i = n + 1
  <2>1. Grown(Paths, list, Self, new)
    BY <1>1, ListGrows, Zenon
  <2> QED
    BY <2>1, Zenon DEF Grown
<1> HIDE DEF new, n
<1>3. \A i \in 1..n : new[i] # Self
  BY <1>2, Zenon DEF preload_has_path, Range
<1>4. OneOf(new, Self)
  BY <1>2, <1>3, Zenon DEF OneOf
<1>5. preload_has_path(new)
  BY <1>2, Zenon DEF preload_has_path, Range
<1> QED
  BY <1>2, <1>4, <1>5, Zenon DEF new

(* The list of the runtime alone, and the unset one. *)
LEMMA ShortLists ==
  /\ <<Self>> \in Seq(Paths) /\ preload_has_path(<<Self>>) /\ OneOf(<<Self>>, Self)
  /\ Unset \in Seq(Paths) /\ OneOf(Unset, Self)
<1>1. Self \in Paths /\ "" \in Paths
  BY Zenon DEF Paths
<1>2. \A x \in Paths : <<x>> \in Seq(Paths) /\ DOMAIN <<x>> = {1} /\ <<x>>[1] = x
  <2> SUFFICES ASSUME NEW x \in Paths PROVE <<x>> \in Seq(Paths) /\ DOMAIN <<x>> = {1} /\ <<x>>[1] = x
    BY Zenon
  <2>1. <<x>> \in Seq(Paths)
    BY SMT
  <2>2. DOMAIN <<x>> = 1..1
    BY SMT
  <2>3. <<x>>[1] = x /\ 1..1 = {1}
    BY SMT
  <2> QED
    BY <2>1, <2>2, <2>3, Zenon
<1>3. \A x \in Paths : OneOf(<<x>>, Self)
  BY <1>2, Zenon DEF OneOf
<1> QED
  BY <1>1, <1>2, <1>3, Zenon DEF preload_has_path, Range, Unset

-----------------------------------------------------------------------------
(* The steps of a process. *)

(* A label under the lock is taken, kept or left. *)
LEMMA LockMoves ==
  ASSUME NEW fl, NEW at \in [Procs -> StartLabels], NEW fl2, NEW at2, NEW p \in Procs, NEW l,
         LockOK(fl, at), at2[p] = l, \A q \in Procs \ {p} : at2[q] = at[q],
         LockMove(fl, fl2, p, at[p], l)
  PROVE  LockOK(fl2, at2)
<1>1. "free" \notin Procs
  BY StartupAssumption, Zenon DEF StartupAssumption
<1>2. ASSUME NEW q \in Procs PROVE fl2 = q <=> at2[q] \in Locked
  <2>1. (fl = q <=> at[q] \in Locked) /\ (fl = p <=> at[p] \in Locked)
    BY Zenon DEF LockOK
  <2>2. CASE q = p
    BY <1>1, <2>1, <2>2, Zenon DEF LockMove
  <2>3. CASE q # p
    <3>1. at2[q] = at[q]
      BY <2>3, Zenon
    <3>2. CASE fl2 = fl
      BY <2>1, <3>1, <3>2, Zenon
    <3>3. CASE fl = "free" /\ fl2 = p
      <4>1. fl2 # q /\ fl # q
        BY <1>1, <2>3, <3>3, Zenon
      <4> QED
        BY <2>1, <3>1, <4>1, Zenon
    <3>4. CASE at[p] \in Locked /\ fl2 = "free"
      <4>1. fl2 # q /\ fl # q
        BY <1>1, <2>1, <2>3, <3>4, Zenon
      <4> QED
        BY <2>1, <3>1, <4>1, Zenon
    <3> QED
      BY <3>2, <3>3, <3>4, Zenon DEF LockMove
  <2> QED
    BY <2>2, <2>3, Zenon
<1> QED
  BY <1>2, Zenon DEF LockOK

(* The labels after a step of p. *)
LEMMA LabelAt ==
  ASSUME StartTypes, NEW p \in Procs, NEW l \in StartLabels, SGo(p, l)
  PROVE  /\ spc' \in [Procs -> StartLabels] /\ spc'[p] = l
         /\ \A q \in Procs \ {p} : spc'[q] = spc[q]
<1>1. spc \in [Procs -> StartLabels]
  BY Zenon DEF StartTypes
<1> QED
  BY <1>1, Zenon DEF SGo

(* What a step of p leaves of the others' environments. *)
LEMMA EnvironOf ==
  ASSUME EnvironIsOwn, NEW p \in Procs, scarce' = scarce,
         \A q \in Procs \ {p} : /\ spc'[q] = spc[q] /\ next'[q] = next[q] /\ game'[q] = game[q]
                                /\ dlls'[q] = dlls[q] /\ enabled'[q] = enabled[q] /\ preload'[q] = preload[q],
         DllsOK(dlls'[p]), LoopOK(spc'[p], next'[p], game'[p], dlls'[p], scarce),
         PreloadOK(spc'[p], enabled'[p], preload'[p])
  PROVE  EnvironIsOwn'
<1>1. ASSUME NEW q \in Procs
      PROVE  /\ DllsOK(dlls'[q]) /\ LoopOK(spc'[q], next'[q], game'[q], dlls'[q], scarce')
             /\ PreloadOK(spc'[q], enabled'[q], preload'[q])
  <2>1. CASE q = p
    BY <2>1, Zenon
  <2>2. CASE q # p
    BY <2>2, Zenon DEF EnvironIsOwn
  <2> QED
    BY <2>1, <2>2, Zenon
<1> QED
  BY <1>1, Zenon DEF EnvironIsOwn

(* What a step of p leaves of the registry that it does not write. *)
LEMMA RegistryOf ==
  ASSUME RegistryIsOwn, NEW p \in Procs, scarce' = scarce, registry' = registry, LockOK(flock', spc'),
         \A q \in Procs \ {p} : spc'[q] = spc[q] /\ done'[q] = done[q],
         (done'[p] \/ spc'[p] \in {"unlock", "mark"}) /\ ~scarce => FindsGuid(registry.sections),
         spc'[p] = "flush" => registry.kind = "wine" /\ ~FindsGuid(registry.sections)
  PROVE  RegistryIsOwn'
<1>1. ASSUME NEW q \in Procs
      PROVE  /\ (done'[q] \/ spc'[q] \in {"unlock", "mark"}) /\ ~scarce' => FindsGuid(registry'.sections)
             /\ spc'[q] = "flush" => registry'.kind = "wine" /\ ~FindsGuid(registry'.sections)
  <2>1. CASE q = p
    BY <2>1, Zenon
  <2>2. CASE q # p
    BY <2>2, Zenon DEF RegistryIsOwn
  <2> QED
    BY <2>1, <2>2, Zenon
<1> QED
  BY <1>1, Zenon DEF RegistryIsOwn

(* A step that changes p's label, perhaps with its mark of the registry or its   *)
(* ENABLED.                                                                      *)
LEMMA LabelMoves ==
  ASSUME StartInv, NEW p \in Procs, NEW l \in StartLabels, SGo(p, l),
         UNCHANGED <<dlls, preload, game, next, registry, scarce>>,
         \/ enabled' = enabled
         \/ spc[p] = "gamescope" /\ \E on \in BOOLEAN : enabled' = [enabled EXCEPT ![p] = on],
         \/ done' = done
         \/ done' = [done EXCEPT ![p] = TRUE] /\ (~scarce => FindsGuid(registry.sections)),
         LockMove(flock, flock', p, spc[p], l),
         l \notin {"none", "gamescope", "overrides", "running"},
         l # "dead" => spc[p] \notin {"overrides", "running", "dead"},
         l \in {"unlock", "mark"} /\ ~scarce => FindsGuid(registry.sections),
         l = "flush" => registry.kind = "wine" /\ ~FindsGuid(registry.sections)
  PROVE  StartInv'
<1>1. /\ dlls' = dlls /\ preload' = preload /\ game' = game /\ next' = next
      /\ registry' = registry /\ scarce' = scarce
  BY Zenon
<1>2. StartTypes /\ RegistryIsOwn /\ EnvironIsOwn
  BY Zenon DEF StartInv
<1>3. /\ spc' \in [Procs -> StartLabels] /\ spc'[p] = l
      /\ \A q \in Procs \ {p} : spc'[q] = spc[q]
  BY <1>2, LabelAt, Zenon
<1>4. spc \in [Procs -> StartLabels] /\ enabled \in [Procs -> BOOLEAN] /\ done \in [Procs -> BOOLEAN]
  BY <1>2, Zenon DEF StartTypes
<1>5. /\ enabled' \in [Procs -> BOOLEAN] /\ \A q \in Procs \ {p} : enabled'[q] = enabled[q]
      /\ enabled'[p] = enabled[p] \/ spc[p] = "gamescope"
  BY <1>4, Zenon
<1>6. /\ done' \in [Procs -> BOOLEAN] /\ \A q \in Procs \ {p} : done'[q] = done[q]
      /\ done'[p] = done[p] \/ (~scarce => FindsGuid(registry.sections))
  BY <1>4, Zenon
<1>7. StartTypes'
  BY <1>1, <1>2, <1>3, <1>5, <1>6, Zenon DEF StartTypes
<1>8. LockOK(flock', spc')
  <2>1. LockOK(flock, spc)
    BY <1>2, Zenon DEF RegistryIsOwn
  <2> QED
    BY <1>3, <1>4, <2>1, LockMoves, Zenon
<1>9. (done'[p] \/ spc'[p] \in {"unlock", "mark"}) /\ ~scarce => FindsGuid(registry.sections)
  BY <1>2, <1>3, <1>6, Zenon DEF RegistryIsOwn
<1>10. RegistryIsOwn'
  BY <1>1, <1>2, <1>3, <1>6, <1>8, <1>9, RegistryOf, Zenon
<1>11. DllsOK(dlls[p]) /\ LoopOK(spc[p], next[p], game[p], dlls[p], scarce) /\ PreloadOK(spc[p], enabled[p], preload[p])
  BY <1>2, Zenon DEF EnvironIsOwn
<1>12. DllsOK(dlls'[p])
  BY <1>1, <1>11, Zenon
<1>13. LoopOK(spc'[p], next'[p], game'[p], dlls'[p], scarce)
  <2>1. l # "dead" => next[p] = 1
    BY <1>11, Zenon DEF LoopOK
  <2>2. LoopOK(l, next[p], game[p], dlls[p], scarce)
    BY <2>1, Zenon DEF LoopOK
  <2> QED
    BY <1>1, <1>3, <2>2, Zenon
<1>14. PreloadOK(spc'[p], enabled'[p], preload'[p])
  <2>1. enabled'[p] => preload_has_path(preload[p])
    BY <1>5, <1>11, Zenon DEF PreloadOK
  <2>2. OneOf(preload[p], Self)
    BY <1>11, Zenon DEF PreloadOK
  <2>3. PreloadOK(l, enabled'[p], preload[p])
    BY <2>1, <2>2, Zenon DEF PreloadOK
  <2> QED
    BY <1>1, <1>3, <2>3, Zenon
<1>15. \A q \in Procs \ {p} : /\ spc'[q] = spc[q] /\ next'[q] = next[q] /\ game'[q] = game[q]
                              /\ dlls'[q] = dlls[q] /\ enabled'[q] = enabled[q] /\ preload'[q] = preload[q]
  BY <1>1, <1>3, <1>5, Zenon
<1>16. EnvironIsOwn'
  BY <1>1, <1>2, <1>12, <1>13, <1>14, <1>15, EnvironOf, Zenon
<1> QED
  BY <1>7, <1>10, <1>16, Zenon DEF StartInv

(* What the check of system.reg looks for. *)
LEMMA PresentMeansFound == registry_already_present <=> FindsGuid(registry.sections)
  BY Zenon DEF registry_already_present, FindsGuid

(* game_executable_argument answers yes or no. *)
LEMMA GameOrNot == \A args : game_executable_argument(args) \in BOOLEAN
  BY Zenon DEF game_executable_argument

(* A behaviour starts with the session's environment and registry. *)
LEMMA StartInit == StartupInit => StartInv
<1> SUFFICES ASSUME StartupInit PROVE StartInv
  BY Zenon
<1>1. PICK s \in Sessions : dlls = [p \in Procs |-> s.overrides] /\ registry = s.registry
  BY Zenon DEF StartupInit
<1>2. /\ IsList(s.overrides)
      /\ \A i, j \in DOMAIN s.overrides : s.overrides[i].dll = s.overrides[j].dll => i = j
      /\ registry \in [kind : {"missing", "foreign", "wine"}, sections : Seq({"guid", "profile", "value"})]
      /\ registry.kind # "wine" => registry.sections = <<>>
      /\ OneOf(registry.sections, "guid")
  BY <1>1, StartupAssumption, Zenon DEF StartupAssumption, OneOf
<1>3. s.overrides \in Seq(Entries)
  BY GivenLists, Zenon
<1>4. BeginsWith(s.overrides, s.overrides)
  BY PrefixOfItself, Zenon
<1>5. DllsOK(s.overrides)
  BY <1>2, <1>4, Zenon DEF DllsOK
<1>6. \A p \in Procs : spc[p] \in {"gamescope", "none"}
  BY Zenon DEF StartupInit
<1>7. StartTypes
  <2>1. spc \in [Procs -> StartLabels]
    BY Zenon DEF StartupInit, StartLabels
  <2>2. done \in [Procs -> BOOLEAN] /\ enabled \in [Procs -> BOOLEAN] /\ game \in [Procs -> BOOLEAN]
    BY Zenon DEF StartupInit
  <2>3. dlls \in [Procs -> Seq(Entries)] /\ preload \in [Procs -> Seq(Paths)]
    BY <1>1, <1>3, ShortLists, Zenon DEF StartupInit
  <2>4. next \in [Procs -> Nat \ {0}]
    <3>1. 1 \in Nat \ {0}
      BY SMT
    <3> QED
      BY <3>1, Zenon DEF StartupInit
  <2> QED
    BY <1>2, <2>1, <2>2, <2>3, <2>4, Zenon DEF StartTypes, SectionKinds
<1>8. LockOK(flock, spc)
  <2>1. flock \notin Procs
    BY StartupAssumption, Zenon DEF StartupAssumption, StartupInit
  <2> QED
    BY <1>6, <2>1, Zenon DEF LockOK, Locked
<1>9. \A p \in Procs : done[p] = FALSE /\ spc[p] \notin {"unlock", "mark", "flush"}
  BY <1>6, Zenon DEF StartupInit
<1>10. RegistryIsOwn
  BY <1>2, <1>8, <1>9, Zenon DEF RegistryIsOwn
<1>11. \A p \in Procs : LoopOK(spc[p], next[p], game[p], dlls[p], scarce)
  <2>1. \A p \in Procs : next[p] = 1 /\ spc[p] \notin {"overrides", "running", "dead"}
    BY <1>6, Zenon DEF StartupInit
  <2> QED
    BY <2>1, Zenon DEF LoopOK
<1>12. \A p \in Procs : PreloadOK(spc[p], enabled[p], preload[p])
  <2>1. \A p \in Procs : preload[p] = <<Self>>
    BY Zenon DEF StartupInit
  <2> QED
    BY <2>1, ShortLists, Zenon DEF PreloadOK
<1>13. EnvironIsOwn
  BY <1>1, <1>5, <1>11, <1>12, Zenon DEF EnvironIsOwn
<1> QED
  BY <1>7, <1>10, <1>13, Zenon DEF StartInv

(* linuwux_setup_gamescope. *)
LEMMA GamescopeKeeps ==
  ASSUME StartInv, NEW p \in Procs, SetupGamescope(p)
  PROVE  StartInv'
<1>1. /\ spc[p] = "gamescope" /\ SGo(p, "registry") /\ UNCHANGED <<dlls, preload, game, next, registry, scarce>>
      /\ done' = done /\ flock' = flock
  BY Zenon DEF SetupGamescope, environ, disk
<1>2. gamescope_detected(p) \in BOOLEAN
  <2>1. (distance[p] < AncestryLimit) \in BOOLEAN
    BY SMT
  <2> QED
    BY <2>1, Zenon DEF gamescope_detected
<1>3. enabled' = enabled \/ \E on \in BOOLEAN : enabled' = [enabled EXCEPT ![p] = on]
  BY <1>2, Zenon DEF SetupGamescope
<1>4. LockMove(flock, flock', p, spc[p], "registry")
  BY <1>1, Zenon DEF LockMove, Locked
<1>5. "registry" \in StartLabels
  BY Zenon DEF StartLabels
<1> QED
  BY <1>1, <1>3, <1>4, <1>5, LabelMoves, Zenon

(* init_registry opens the file, or has nothing to do. *)
LEMMA OpenKeeps ==
  ASSUME StartInv, NEW p \in Procs, OpenRegistry(p)
  PROVE  StartInv'
<1>1. /\ spc[p] = "registry" /\ UNCHANGED <<dlls, preload, game, next, registry, scarce>>
      /\ done' = done /\ flock' = flock /\ enabled' = enabled
  BY Zenon DEF OpenRegistry, environ, disk
<1>2. "classify" \in StartLabels /\ "flock" \in StartLabels
  BY Zenon DEF StartLabels
<1>3. CASE SGo(p, "classify")
  <2>1. LockMove(flock, flock', p, spc[p], "classify")
    BY <1>1, Zenon DEF LockMove, Locked
  <2> QED
    BY <1>1, <1>2, <1>3, <2>1, LabelMoves, Zenon
<1>4. CASE SGo(p, "flock")
  <2>1. LockMove(flock, flock', p, spc[p], "flock")
    BY <1>1, Zenon DEF LockMove, Locked
  <2> QED
    BY <1>1, <1>2, <1>4, <2>1, LabelMoves, Zenon
<1> QED
  BY <1>3, <1>4, Zenon DEF OpenRegistry

(* init_registry gets the lock. *)
LEMMA LockKeeps ==
  ASSUME StartInv, NEW p \in Procs, LockRegistry(p)
  PROVE  StartInv'
<1>1. /\ spc[p] = "flock" /\ UNCHANGED <<dlls, preload, game, next, registry, scarce>>
      /\ done' = done /\ flock = "free" /\ flock' = p /\ enabled' = enabled /\ SGo(p, "check")
  BY Zenon DEF LockRegistry, environ
<1>2. "check" \in StartLabels
  BY Zenon DEF StartLabels
<1>3. LockMove(flock, flock', p, spc[p], "check")
  BY <1>1, Zenon DEF LockMove, Locked
<1> QED
  BY <1>1, <1>2, <1>3, LabelMoves, Zenon

(* The check under the lock: another program's file, a section that is there, or *)
(* one to write.                                                                 *)
LEMMA CheckKeeps ==
  ASSUME StartInv, NEW p \in Procs, CheckRegistry(p)
  PROVE  StartInv'
<1>1. /\ spc[p] = "check" /\ UNCHANGED <<dlls, preload, game, next, registry, scarce>> /\ enabled' = enabled
  BY Zenon DEF CheckRegistry
<1>2. "classify" \in StartLabels /\ "flush" \in StartLabels
  BY Zenon DEF StartLabels
<1>3. CASE flock' = "free" /\ SGo(p, "classify") /\ done' = done
  <2>1. LockMove(flock, flock', p, spc[p], "classify")
    BY <1>1, <1>3, Zenon DEF LockMove, Locked
  <2> QED
    BY <1>1, <1>2, <1>3, <2>1, LabelMoves, Zenon
<1>4. CASE /\ registry_already_present /\ flock' = "free"
           /\ done' = [done EXCEPT ![p] = TRUE] /\ SGo(p, "classify")
  <2>1. LockMove(flock, flock', p, spc[p], "classify")
    BY <1>1, <1>4, Zenon DEF LockMove, Locked
  <2>2. FindsGuid(registry.sections)
    BY <1>4, PresentMeansFound, Zenon
  <2> QED
    BY <1>1, <1>2, <1>4, <2>1, <2>2, LabelMoves, Zenon
<1>5. CASE registry.kind = "wine" /\ ~registry_already_present /\ SGo(p, "flush") /\ done' = done /\ flock' = flock
  <2>1. LockMove(flock, flock', p, spc[p], "flush")
    BY <1>1, <1>5, Zenon DEF LockMove, Locked
  <2>2. registry.kind = "wine" /\ ~FindsGuid(registry.sections)
    BY <1>5, PresentMeansFound, Zenon
  <2> QED
    BY <1>1, <1>2, <1>5, <2>1, <2>2, LabelMoves, Zenon
<1> QED
  BY <1>3, <1>4, <1>5, Zenon DEF CheckRegistry

(* The section is on the disk when the lock is given up. *)
LEMMA UnlockKeeps ==
  ASSUME StartInv, NEW p \in Procs, UnlockRegistry(p)
  PROVE  StartInv'
<1>1. /\ spc[p] = "unlock" /\ UNCHANGED <<dlls, preload, game, next, registry, scarce>>
      /\ done' = done /\ flock' = "free" /\ enabled' = enabled /\ SGo(p, "mark")
  BY Zenon DEF UnlockRegistry, environ
<1>2. "mark" \in StartLabels
  BY Zenon DEF StartLabels
<1>3. LockMove(flock, flock', p, spc[p], "mark")
  BY <1>1, Zenon DEF LockMove, Locked
<1>4. ~scarce => FindsGuid(registry.sections)
  BY <1>1, Zenon DEF StartInv, RegistryIsOwn
<1> QED
  BY <1>1, <1>2, <1>3, <1>4, LabelMoves, Zenon

(* LINUWUX_HWPROFILE is set. *)
LEMMA MarkKeeps ==
  ASSUME StartInv, NEW p \in Procs, MarkDone(p)
  PROVE  StartInv'
<1>1. /\ spc[p] = "mark" /\ UNCHANGED <<dlls, preload, game, next, registry, scarce>>
      /\ done' = [done EXCEPT ![p] = TRUE] /\ flock' = flock /\ enabled' = enabled /\ SGo(p, "classify")
  BY Zenon DEF MarkDone, disk
<1>2. "classify" \in StartLabels
  BY Zenon DEF StartLabels
<1>3. LockMove(flock, flock', p, spc[p], "classify")
  BY <1>1, Zenon DEF LockMove, Locked
<1>4. ~scarce => FindsGuid(registry.sections)
  BY <1>1, Zenon DEF StartInv, RegistryIsOwn
<1> QED
  BY <1>1, <1>2, <1>3, <1>4, LabelMoves, Zenon

(* The kernel gives up the lock of a process that dies. *)
LEMMA DieKeeps ==
  ASSUME StartInv, NEW p \in Procs, Die(p)
  PROVE  StartInv'
<1>1. /\ UNCHANGED <<dlls, preload, game, next, registry, scarce>>
      /\ done' = done /\ enabled' = enabled /\ SGo(p, "dead")
      /\ flock' = IF flock = p THEN "free" ELSE flock
  BY Zenon DEF Die, environ
<1>2. "dead" \in StartLabels
  BY Zenon DEF StartLabels
<1>3. flock = p <=> spc[p] \in Locked
  BY Zenon DEF StartInv, RegistryIsOwn, LockOK
<1>4. "dead" \notin Locked
  BY Zenon DEF Locked
<1>5. LockMove(flock, flock', p, spc[p], "dead")
  BY <1>1, <1>3, <1>4, Zenon DEF LockMove
<1> QED
  BY <1>1, <1>2, <1>5, LabelMoves, Zenon

(* A section at the end of system.reg. *)
LEMMA SectionAdded ==
  ASSUME NEW r \in [kind : {"missing", "foreign", "wine"}, sections : Seq(SectionKinds)], NEW x \in SectionKinds,
         NEW new, new = [r EXCEPT !.sections = Append(@, x)]
  PROVE  /\ new \in [kind : {"missing", "foreign", "wine"}, sections : Seq(SectionKinds)]
         /\ new.kind = r.kind /\ new.sections = Append(r.sections, x)
<1>1. Append(r.sections, x) \in Seq(SectionKinds)
  <2>1. Grown(SectionKinds, r.sections, x, Append(r.sections, x))
    BY ListGrows, Zenon
  <2> QED
    BY <2>1, Zenon DEF Grown
<1> DEFINE list == Append(r.sections, x)
<1>2. new = [r EXCEPT !.sections = list]
  BY Zenon
<1> HIDE DEF list
<1>3. list \in Seq(SectionKinds)
  BY <1>1, Zenon DEF list
<1>4. /\ new \in [kind : {"missing", "foreign", "wine"}, sections : Seq(SectionKinds)]
      /\ new.kind = r.kind /\ new.sections = list
  BY <1>2, <1>3, Zenon
<1> QED
  BY <1>4, Zenon DEF list

(* The section, a first part of it or nothing reaches the disk, under the lock   *)
(* and where the check found none.                                               *)
LEMMA FlushKeeps ==
  ASSUME StartInv, NEW p \in Procs, FlushRegistry(p)
  PROVE  StartInv'
<1> DEFINE RegistrySet == [kind : {"missing", "foreign", "wine"}, sections : Seq(SectionKinds)]
<1>1. /\ spc[p] = "flush" /\ SGo(p, "unlock") /\ dlls' = dlls /\ preload' = preload /\ game' = game /\ next' = next
      /\ scarce' = scarce /\ done' = done /\ flock' = flock /\ enabled' = enabled
  BY Zenon DEF FlushRegistry, environ
<1>2. StartTypes /\ RegistryIsOwn /\ EnvironIsOwn
  BY Zenon DEF StartInv
<1>3. "unlock" \in StartLabels
  BY Zenon DEF StartLabels
<1>4. /\ spc' \in [Procs -> StartLabels] /\ spc'[p] = "unlock"
      /\ \A q \in Procs \ {p} : spc'[q] = spc[q]
  BY <1>1, <1>2, <1>3, LabelAt, Zenon
<1>5. /\ registry \in RegistrySet /\ OneOf(registry.sections, "guid") /\ LockOK(flock, spc)
      /\ registry.kind = "wine" /\ ~FindsGuid(registry.sections)
      /\ spc \in [Procs -> StartLabels] /\ registry.sections \in Seq(SectionKinds)
  <2>1. registry \in RegistrySet /\ spc \in [Procs -> StartLabels]
    BY <1>2, Zenon DEF StartTypes
  <2>2. registry.sections \in Seq(SectionKinds)
    BY <2>1, Zenon
  <2> QED
    BY <1>1, <1>2, <2>1, <2>2, Zenon DEF RegistryIsOwn
<1>6. /\ registry' \in RegistrySet /\ registry'.kind = "wine" /\ OneOf(registry'.sections, "guid")
      /\ ~scarce => FindsGuid(registry'.sections)
      /\ FindsGuid(registry.sections) => FindsGuid(registry'.sections)
  <2>1. "guid" \in SectionKinds /\ "profile" \in SectionKinds
    BY Zenon DEF SectionKinds
  <2>2. CASE registry' = [registry EXCEPT !.sections = Append(@, "guid")]
    <3>1. registry' \in RegistrySet /\ registry'.kind = registry.kind /\ registry'.sections = Append(registry.sections, "guid")
      BY <1>5, <2>1, <2>2, SectionAdded, Zenon
    <3>2. FindsGuid(Append(registry.sections, "guid")) /\ OneOf(Append(registry.sections, "guid"), "guid")
      BY <1>5, <2>1, OwnIsFound, GuidOnce, Zenon
    <3> QED
      BY <1>5, <3>1, <3>2, Zenon
  <2>3. CASE scarce /\ registry' = registry
    BY <1>5, <2>3, Zenon
  <2>4. CASE scarce /\ registry' = [registry EXCEPT !.sections = Append(@, "profile")]
    <3>1. registry' \in RegistrySet /\ registry'.kind = registry.kind /\ registry'.sections = Append(registry.sections, "profile")
      BY <1>5, <2>1, <2>4, SectionAdded, Zenon
    <3>2. OneOf(Append(registry.sections, "profile"), "guid")
      BY <1>5, <2>1, GuidOnce, Zenon
    <3> QED
      BY <1>5, <2>4, <3>1, <3>2, Zenon
  <2> QED
    BY <2>2, <2>3, <2>4, Zenon DEF FlushRegistry
<1>7. StartTypes'
  BY <1>1, <1>2, <1>4, <1>6, Zenon DEF StartTypes
<1>8. LockOK(flock', spc')
  <2>1. LockMove(flock, flock', p, spc[p], "unlock")
    BY <1>1, Zenon DEF LockMove, Locked
  <2> QED
    BY <1>4, <1>5, <2>1, LockMoves, Zenon
<1>9. ASSUME NEW q \in Procs
      PROVE  /\ (done'[q] \/ spc'[q] \in {"unlock", "mark"}) /\ ~scarce' => FindsGuid(registry'.sections)
             /\ spc'[q] = "flush" => registry'.kind = "wine" /\ ~FindsGuid(registry'.sections)
  <2>1. spc'[q] # "flush"
    <3>1. CASE q = p
      BY <1>4, <3>1, Zenon
    <3>2. CASE q # p
      <4>1. flock = p /\ flock # q
        BY <1>1, <1>5, <3>2, Zenon DEF LockOK, Locked
      <4>2. spc[q] \notin Locked
        BY <1>5, <4>1, Zenon DEF LockOK
      <4> QED
        BY <1>4, <3>2, <4>2, Zenon DEF Locked
    <3> QED
      BY <3>1, <3>2, Zenon
  <2> QED
    BY <1>1, <1>6, <2>1, Zenon
<1>10. RegistryIsOwn'
  BY <1>6, <1>8, <1>9, Zenon DEF RegistryIsOwn
<1>11. DllsOK(dlls[p]) /\ LoopOK(spc[p], next[p], game[p], dlls[p], scarce) /\ PreloadOK(spc[p], enabled[p], preload[p])
  BY <1>2, Zenon DEF EnvironIsOwn
<1>12. LoopOK("unlock", next[p], game[p], dlls[p], scarce) /\ PreloadOK("unlock", enabled[p], preload[p])
  BY <1>1, <1>11, Zenon DEF LoopOK, PreloadOK
<1>13. EnvironIsOwn'
  BY <1>1, <1>2, <1>4, <1>11, <1>12, EnvironOf, Zenon
<1> QED
  BY <1>7, <1>10, <1>13, Zenon DEF StartInv

(* A step between labels outside init_registry leaves the lock alone. *)
LEMMA LockStays ==
  ASSUME NEW fl, NEW at, NEW at2, NEW p \in Procs, LockOK(fl, at), at[p] \notin Locked, at2[p] \notin Locked,
         \A q \in Procs \ {p} : at2[q] = at[q]
  PROVE  LockOK(fl, at2)
<1>1. ASSUME NEW q \in Procs PROVE fl = q <=> at2[q] \in Locked
  BY Zenon DEF LockOK
<1> QED
  BY <1>1, Zenon DEF LockOK

(* A step between labels outside init_registry, with p's part of the             *)
(* environment as the step leaves it.                                            *)
LEMMA EnvironMoves ==
  ASSUME StartInv, NEW p \in Procs, registry' = registry, flock' = flock, scarce' = scarce, StartTypes',
         \A q \in Procs \ {p} : /\ spc'[q] = spc[q] /\ next'[q] = next[q] /\ game'[q] = game[q] /\ done'[q] = done[q]
                                /\ dlls'[q] = dlls[q] /\ enabled'[q] = enabled[q] /\ preload'[q] = preload[q],
         spc[p] \notin Locked, spc'[p] \notin Locked, spc'[p] # "mark",
         done'[p] /\ ~scarce => FindsGuid(registry.sections),
         DllsOK(dlls'[p]), LoopOK(spc'[p], next'[p], game'[p], dlls'[p], scarce),
         PreloadOK(spc'[p], enabled'[p], preload'[p])
  PROVE  StartInv'
<1>1. StartTypes /\ RegistryIsOwn /\ EnvironIsOwn
  BY Zenon DEF StartInv
<1>2. EnvironIsOwn'
  BY <1>1, EnvironOf, Zenon
<1>3. LockOK(flock', spc')
  <2>1. LockOK(flock, spc)
    BY <1>1, Zenon DEF RegistryIsOwn
  <2>2. LockOK(flock, spc')
    BY <2>1, LockStays, Zenon
  <2> QED
    BY <2>2, Zenon
<1>4. spc'[p] \notin {"unlock", "mark", "flush"}
  BY Zenon DEF Locked
<1>5. RegistryIsOwn'
  BY <1>1, <1>3, <1>4, RegistryOf, Zenon
<1> QED
  BY <1>2, <1>5, Zenon DEF StartInv

(* linuwux_setup_environment asks whether this is the game. *)
LEMMA EnvironmentKeeps ==
  ASSUME StartInv, NEW p \in Procs, SetupEnvironment(p)
  PROVE  StartInv'
<1> DEFINE g == game_executable_argument(argv[p])
           l == IF g THEN "overrides" ELSE "running"
<1>1. /\ spc[p] = "classify" /\ dlls' = dlls /\ preload' = preload /\ next' = next
      /\ scarce' = scarce /\ done' = done /\ flock' = flock /\ registry' = registry /\ enabled' = enabled
      /\ game' = [game EXCEPT ![p] = g] /\ SGo(p, IF game'[p] THEN "overrides" ELSE "running")
  BY Zenon DEF SetupEnvironment, environ, disk
<1>2. StartTypes /\ RegistryIsOwn /\ EnvironIsOwn
  BY Zenon DEF StartInv
<1>3. g \in BOOLEAN
  BY GameOrNot, Zenon
<1> HIDE DEF g
<1>4. game' \in [Procs -> BOOLEAN] /\ game'[p] = g /\ \A q \in Procs \ {p} : game'[q] = game[q]
  <2>1. game \in [Procs -> BOOLEAN]
    BY <1>2, Zenon DEF StartTypes
  <2> QED
    BY <1>1, <1>3, <2>1, Zenon
<1>5. SGo(p, l) /\ l \in StartLabels /\ l \in {"overrides", "running"} /\ (l = "running" => ~g)
  BY <1>1, <1>4, Zenon DEF StartLabels
<1> HIDE DEF l
<1>6. /\ spc' \in [Procs -> StartLabels] /\ spc'[p] = l
      /\ \A q \in Procs \ {p} : spc'[q] = spc[q]
  BY <1>2, <1>5, LabelAt, Zenon
<1>7. StartTypes'
  BY <1>1, <1>2, <1>4, <1>6, Zenon DEF StartTypes
<1>8. DllsOK(dlls[p]) /\ LoopOK(spc[p], next[p], game[p], dlls[p], scarce) /\ PreloadOK(spc[p], enabled[p], preload[p])
  BY <1>2, Zenon DEF EnvironIsOwn
<1>9. next[p] = 1
  BY <1>1, <1>8, Zenon DEF LoopOK
<1>10. LoopOK(l, 1, g, dlls[p], scarce)
  <2>1. 1 \in 1..Len(OverrideNames) /\ 1..(1 - 1) = {}
    <3>1. Len(OverrideNames) \in Nat \ {0}
      BY GivenLists, Zenon
    <3> QED
      BY <3>1, SMT
  <2> QED
    BY <1>5, <2>1, Zenon DEF LoopOK
<1>11. LoopOK(spc'[p], next'[p], game'[p], dlls'[p], scarce)
  BY <1>1, <1>4, <1>6, <1>9, <1>10, Zenon
<1>12. PreloadOK(spc'[p], enabled'[p], preload'[p])
  <2>1. PreloadOK(l, enabled[p], preload[p])
    BY <1>5, <1>8, Zenon DEF PreloadOK
  <2> QED
    BY <1>1, <1>6, <2>1, Zenon
<1>13. spc[p] \notin Locked /\ spc'[p] \notin Locked /\ spc'[p] # "mark"
  BY <1>1, <1>5, <1>6, Zenon DEF Locked
<1>14. done'[p] /\ ~scarce => FindsGuid(registry.sections)
  BY <1>1, <1>2, Zenon DEF RegistryIsOwn
<1>15. \A q \in Procs \ {p} : /\ spc'[q] = spc[q] /\ next'[q] = next[q] /\ game'[q] = game[q] /\ done'[q] = done[q]
                              /\ dlls'[q] = dlls[q] /\ enabled'[q] = enabled[q] /\ preload'[q] = preload[q]
  BY <1>1, <1>4, <1>6, Zenon
<1> QED
  BY <1>1, <1>7, <1>8, <1>11, <1>12, <1>13, <1>14, <1>15, EnvironMoves, Zenon

(* One step of the loop over OVERRIDES. *)
LEMMA OverrideKeeps ==
  ASSUME StartInv, NEW p \in Procs, NextOverride(p)
  PROVE  StartInv'
<1> DEFINE n == next[p]
           dll == OverrideNames[n]
           l == IF n < Len(OverrideNames) THEN "overrides" ELSE "running"
           new == dlls'[p]
<1>1. /\ spc[p] = "overrides" /\ preload' = preload /\ next' = [next EXCEPT ![p] = @ + 1] /\ SGo(p, l)
      /\ scarce' = scarce /\ done' = done /\ flock' = flock /\ registry' = registry /\ enabled' = enabled /\ game' = game
  BY Zenon DEF NextOverride, disk
<1>2. StartTypes /\ RegistryIsOwn /\ EnvironIsOwn
  BY Zenon DEF StartInv
<1>3. DllsOK(dlls[p]) /\ LoopOK(spc[p], n, game[p], dlls[p], scarce) /\ PreloadOK(spc[p], enabled[p], preload[p])
  BY <1>2, Zenon DEF EnvironIsOwn
<1>4. /\ dlls \in [Procs -> Seq(Entries)] /\ next \in [Procs -> Nat \ {0}]
      /\ n \in 1..Len(OverrideNames) /\ Len(OverrideNames) \in Nat \ {0}
      /\ ~scarce => \A i \in 1..(n - 1) : already_present(dlls[p], OverrideNames[i])
  BY <1>1, <1>2, <1>3, GivenLists, Zenon DEF StartTypes, LoopOK
<1>5. n + 1 \in Nat \ {0} /\ (n < Len(OverrideNames) => n + 1 \in 1..Len(OverrideNames))
  BY <1>4, SMT
<1>6. \A i \in 1..((n + 1) - 1) : i \in 1..(n - 1) \/ i = n
  BY <1>4, SMT
<1>7. ~(n < Len(OverrideNames)) => n = Len(OverrideNames)
  BY <1>4, SMT
<1>8. (n + 1) - 1 = n
  BY <1>4, SMT
<1>9. l \in StartLabels /\ l \in {"overrides", "running"}
  BY Zenon DEF StartLabels
<1>10. /\ spc' \in [Procs -> StartLabels] /\ spc'[p] = l
       /\ \A q \in Procs \ {p} : spc'[q] = spc[q]
  BY <1>1, <1>2, <1>9, LabelAt, Zenon
<1>11. /\ next' \in [Procs -> Nat \ {0}] /\ next'[p] = n + 1
       /\ \A q \in Procs \ {p} : next'[q] = next[q]
  BY <1>1, <1>4, <1>5, Zenon
<1>12. dll \in Range(OverrideNames)
  BY <1>4, GivenLists, Zenon
<1>13. dlls[p] \in Seq(Entries)
  BY <1>4, Zenon
<1>14. /\ dlls' \in [Procs -> Seq(Entries)] /\ \A q \in Procs \ {p} : dlls'[q] = dlls[q]
       /\ DllsOK(dlls'[p]) /\ (~scarce => already_present(dlls'[p], dll))
       /\ \A other : already_present(dlls[p], other) => already_present(dlls'[p], other)
  <2>1. CASE dlls' = [dlls EXCEPT ![p] = add_override(@, dll)]
    <3> DEFINE added == add_override(dlls[p], dll)
    <3>1. /\ added \in Seq(Entries) /\ DllsOK(added) /\ already_present(added, dll)
          /\ \A other : already_present(dlls[p], other) => already_present(added, other)
      BY <1>3, <1>12, <1>13, AddsOverride, Zenon
    <3>2. dlls' = [dlls EXCEPT ![p] = added]
      BY <2>1, Zenon
    <3> HIDE DEF added, dll
    <3>3. dlls' \in [Procs -> Seq(Entries)] /\ dlls'[p] = added /\ \A q \in Procs \ {p} : dlls'[q] = dlls[q]
      BY <1>4, <3>1, <3>2, Zenon
    <3> QED
      BY <3>1, <3>3, Zenon
  <2>2. CASE scarce /\ dlls' = dlls
    BY <1>3, <1>4, <2>2, Zenon
  <2> QED
    BY <2>1, <2>2, Zenon DEF NextOverride
<1>15. StartTypes'
  BY <1>1, <1>2, <1>10, <1>11, <1>14, Zenon DEF StartTypes
<1>16. ~scarce => \A i \in 1..n : already_present(new, OverrideNames[i])
  BY <1>4, <1>6, <1>8, <1>14, Zenon
<1>17. LoopOK(l, n + 1, game[p], new, scarce)
  <2> HIDE DEF n, new
  <2>1. CASE n < Len(OverrideNames)
    <3>1. l = "overrides"
      BY <2>1, Zenon
    <3> DEFINE m == n + 1
    <3>2. ~scarce => \A i \in 1..(m - 1) : already_present(new, OverrideNames[i])
      BY <1>8, <1>16, Zenon
    <3>3. m \in 1..Len(OverrideNames)
      BY <1>5, <2>1, Zenon
    <3> HIDE DEF m, l
    <3>4. LoopOK("overrides", m, game[p], new, scarce)
      BY <3>2, <3>3, Zenon DEF LoopOK
    <3> QED
      BY <3>1, <3>4, Zenon DEF m
  <2>2. CASE ~(n < Len(OverrideNames))
    <3>1. l = "running" /\ n = Len(OverrideNames)
      BY <1>7, <2>2, Zenon
    <3> QED
      BY <1>16, <3>1, Zenon DEF LoopOK
  <2> QED
    BY <2>1, <2>2, Zenon
<1> HIDE DEF l
<1>18. LoopOK(spc'[p], next'[p], game'[p], dlls'[p], scarce)
  BY <1>1, <1>10, <1>11, <1>17, Zenon
<1>19. PreloadOK(spc'[p], enabled'[p], preload'[p])
  <2>1. PreloadOK(l, enabled[p], preload[p])
    BY <1>3, <1>9, Zenon DEF PreloadOK
  <2> QED
    BY <1>1, <1>10, <2>1, Zenon
<1>20. spc[p] \notin Locked /\ spc'[p] \notin Locked /\ spc'[p] # "mark"
  BY <1>1, <1>9, <1>10, Zenon DEF Locked
<1>21. done'[p] /\ ~scarce => FindsGuid(registry.sections)
  BY <1>1, <1>2, Zenon DEF RegistryIsOwn
<1>22. \A q \in Procs \ {p} : /\ spc'[q] = spc[q] /\ next'[q] = next[q] /\ game'[q] = game[q] /\ done'[q] = done[q]
                              /\ dlls'[q] = dlls[q] /\ enabled'[q] = enabled[q] /\ preload'[q] = preload[q]
  BY <1>1, <1>10, <1>11, <1>14, Zenon
<1> QED
  BY <1>1, <1>14, <1>15, <1>18, <1>19, <1>20, <1>21, <1>22, EnvironMoves, Zenon

(* A step that changes nothing of the registry. *)
LEMMA RegistryStays ==
  ASSUME RegistryIsOwn, spc' = spc, done' = done, registry' = registry, flock' = flock, scarce' = scarce
  PROVE  RegistryIsOwn'
<1>1. LockOK(flock', spc')
  BY Zenon DEF RegistryIsOwn
<1>2. OneOf(registry'.sections, "guid") /\ (registry'.kind # "wine" => registry'.sections = <<>>)
  BY Zenon DEF RegistryIsOwn
<1>3. \A p \in Procs :
        /\ (done'[p] \/ spc'[p] \in {"unlock", "mark"}) /\ ~scarce' => FindsGuid(registry'.sections)
        /\ spc'[p] = "flush" => registry'.kind = "wine" /\ ~FindsGuid(registry'.sections)
  BY Zenon DEF RegistryIsOwn
<1> QED
  BY <1>1, <1>2, <1>3, Zenon DEF RegistryIsOwn

(* A step of a running process that changes LD_PRELOAD alone. *)
LEMMA PreloadMoves ==
  ASSUME StartInv, NEW p \in Procs, NEW list \in Seq(Paths), spc[p] = "running",
         UNCHANGED <<spc, done, dlls, enabled, game, next, registry, flock, scarce>>,
         preload' = [preload EXCEPT ![p] = list],
         enabled[p] => preload_has_path(list), OneOf(list, Self)
  PROVE  StartInv'
<1>1. /\ spc' = spc /\ done' = done /\ dlls' = dlls /\ enabled' = enabled /\ game' = game /\ next' = next
      /\ registry' = registry /\ flock' = flock /\ scarce' = scarce
  BY Zenon
<1>2. StartTypes /\ RegistryIsOwn /\ EnvironIsOwn
  BY Zenon DEF StartInv
<1>3. preload' \in [Procs -> Seq(Paths)] /\ preload'[p] = list /\ \A q \in Procs \ {p} : preload'[q] = preload[q]
  <2>1. preload \in [Procs -> Seq(Paths)]
    BY <1>2, Zenon DEF StartTypes
  <2> QED
    BY <2>1, Zenon
<1>4. StartTypes'
  BY <1>1, <1>2, <1>3, Zenon DEF StartTypes
<1>5. RegistryIsOwn'
  BY <1>1, <1>2, RegistryStays, Zenon
<1>6. DllsOK(dlls[p]) /\ LoopOK(spc[p], next[p], game[p], dlls[p], scarce)
  BY <1>2, Zenon DEF EnvironIsOwn
<1>7. PreloadOK(spc[p], enabled[p], list)
  BY Zenon DEF PreloadOK
<1>8. EnvironIsOwn'
  BY <1>1, <1>2, <1>3, <1>6, <1>7, EnvironOf, Zenon
<1> QED
  BY <1>4, <1>5, <1>8, Zenon DEF StartInv

(* A step that changes nothing of this. *)
LEMMA StartStutters ==
  ASSUME StartInv, UNCHANGED <<spc, done, dlls, preload, enabled, game, next, registry, flock, scarce>>
  PROVE  StartInv'
<1>1. /\ spc' = spc /\ done' = done /\ dlls' = dlls /\ enabled' = enabled /\ game' = game /\ next' = next
      /\ registry' = registry /\ flock' = flock /\ scarce' = scarce /\ preload' = preload
  BY Zenon
<1>2. StartTypes /\ RegistryIsOwn /\ EnvironIsOwn
  BY Zenon DEF StartInv
<1>3. StartTypes'
  BY <1>1, <1>2, Zenon DEF StartTypes
<1>4. RegistryIsOwn'
  BY <1>1, <1>2, RegistryStays, Zenon
<1>5. EnvironIsOwn'
  BY <1>1, <1>2, Zenon DEF EnvironIsOwn
<1> QED
  BY <1>3, <1>4, <1>5, Zenon DEF StartInv

(* setenv of LD_PRELOAD. *)
LEMMA SetPreloadKeeps ==
  ASSUME StartInv, NEW p \in Procs, NEW value \in UserPreloads, NEW overwrite \in BOOLEAN,
         SetPreload(p, value, overwrite)
  PROVE  StartInv'
<1> DEFINE list == IF ~overwrite /\ preload[p] # Unset THEN preload[p]
                   ELSE IF enabled[p] /\ ~preload_has_path(value) THEN Append(value, Self) ELSE value
<1>1. spc[p] = "running" /\ UNCHANGED <<spc, done, dlls, enabled, game, next, registry, flock, scarce>>
  BY Zenon DEF SetPreload, disk
<1>2. value \in Seq(Paths) /\ OneOf(value, Self)
  BY GivenLists, StartupAssumption, Zenon DEF StartupAssumption, OneOf
<1>3. preload[p] \in Seq(Paths) /\ OneOf(preload[p], Self) /\ (enabled[p] => preload_has_path(preload[p]))
  <2>1. preload \in [Procs -> Seq(Paths)] /\ PreloadOK(spc[p], enabled[p], preload[p])
    BY Zenon DEF StartInv, StartTypes, EnvironIsOwn
  <2> QED
    BY <2>1, Zenon DEF PreloadOK
<1>4. list \in Seq(Paths) /\ OneOf(list, Self) /\ (enabled[p] => preload_has_path(list))
  <2>1. CASE ~overwrite /\ preload[p] # Unset
    BY <1>3, <2>1, Zenon
  <2>2. CASE ~(~overwrite /\ preload[p] # Unset) /\ enabled[p] /\ ~preload_has_path(value)
    <3>1. list = Append(value, Self)
      BY <2>2, Zenon
    <3> HIDE DEF list
    <3> QED
      BY <1>2, <2>2, <3>1, AppendsSelf, Zenon
  <2>3. CASE ~(~overwrite /\ preload[p] # Unset) /\ ~(enabled[p] /\ ~preload_has_path(value))
    <3>1. list = value
      BY <2>3, Zenon
    <3> HIDE DEF list
    <3> QED
      BY <1>2, <2>3, <3>1, Zenon
  <2> QED
    BY <2>1, <2>2, <2>3, Zenon
<1>5. CASE preload' = [preload EXCEPT ![p] = list]
  <2> HIDE DEF list
  <2> QED
    BY <1>1, <1>4, <1>5, PreloadMoves, Zenon
<1>6. CASE preload' = preload
  BY <1>1, <1>6, StartStutters, Zenon
<1> QED
  BY <1>5, <1>6, Zenon DEF SetPreload

(* unsetenv of LD_PRELOAD leaves the runtime in it. *)
LEMMA UnsetPreloadKeeps ==
  ASSUME StartInv, NEW p \in Procs, UnsetPreload(p)
  PROVE  StartInv'
<1> DEFINE list == IF enabled[p] THEN <<Self>> ELSE Unset
<1>1. spc[p] = "running" /\ UNCHANGED <<spc, done, dlls, enabled, game, next, registry, flock, scarce>>
  BY Zenon DEF UnsetPreload, disk
<1>2. list \in Seq(Paths) /\ OneOf(list, Self) /\ (enabled[p] => preload_has_path(list))
  BY ShortLists, Zenon
<1>3. CASE preload' = [preload EXCEPT ![p] = list]
  <2> HIDE DEF list
  <2> QED
    BY <1>1, <1>2, <1>3, PreloadMoves, Zenon
<1>4. CASE preload' = preload
  BY <1>1, <1>4, StartStutters, Zenon
<1> QED
  BY <1>3, <1>4, Zenon DEF UnsetPreload

(* A child starts with its parent's environment. *)
LEMMA SpawnKeepsStart ==
  ASSUME StartInv, NEW p \in Procs, NEW q \in Procs, SpawnProcess(p, q)
  PROVE  StartInv'
<1>1. /\ spc[p] = "running" /\ spc[q] = "none" /\ preload_has_path(preload[p]) /\ SGo(q, "gamescope")
      /\ done' = [done EXCEPT ![q] = done[p]] /\ dlls' = [dlls EXCEPT ![q] = dlls[p]]
      /\ preload' = [preload EXCEPT ![q] = preload[p]]
      /\ enabled' = enabled /\ game' = game /\ next' = next
      /\ registry' = registry /\ flock' = flock /\ scarce' = scarce
  BY Zenon DEF SpawnProcess, disk
<1>2. StartTypes /\ RegistryIsOwn /\ EnvironIsOwn
  BY Zenon DEF StartInv
<1>3. "gamescope" \in StartLabels
  BY Zenon DEF StartLabels
<1>4. /\ spc' \in [Procs -> StartLabels] /\ spc'[q] = "gamescope"
      /\ \A r \in Procs \ {q} : spc'[r] = spc[r]
  BY <1>1, <1>2, <1>3, LabelAt, Zenon
<1>5. done \in [Procs -> BOOLEAN] /\ dlls \in [Procs -> Seq(Entries)] /\ preload \in [Procs -> Seq(Paths)]
  BY <1>2, Zenon DEF StartTypes
<1>6. done' \in [Procs -> BOOLEAN] /\ done'[q] = done[p] /\ \A r \in Procs \ {q} : done'[r] = done[r]
  BY <1>1, <1>5, Zenon
<1>7. dlls' \in [Procs -> Seq(Entries)] /\ dlls'[q] = dlls[p] /\ \A r \in Procs \ {q} : dlls'[r] = dlls[r]
  BY <1>1, <1>5, Zenon
<1>8. preload' \in [Procs -> Seq(Paths)] /\ preload'[q] = preload[p] /\ \A r \in Procs \ {q} : preload'[r] = preload[r]
  BY <1>1, <1>5, Zenon
<1>9. StartTypes'
  BY <1>1, <1>2, <1>4, <1>6, <1>7, <1>8, Zenon DEF StartTypes
<1>10. /\ DllsOK(dlls[p]) /\ OneOf(preload[p], Self) /\ next[q] = 1
  BY <1>1, <1>2, Zenon DEF EnvironIsOwn, PreloadOK, LoopOK
<1>11. LoopOK("gamescope", next[q], game[q], dlls[p], scarce) /\ PreloadOK("gamescope", enabled[q], preload[p])
  BY <1>1, <1>10, Zenon DEF LoopOK, PreloadOK
<1>12. /\ DllsOK(dlls'[q]) /\ LoopOK(spc'[q], next'[q], game'[q], dlls'[q], scarce)
       /\ PreloadOK(spc'[q], enabled'[q], preload'[q])
  BY <1>1, <1>4, <1>7, <1>8, <1>10, <1>11, Zenon
<1>13. spc[q] \notin Locked /\ spc'[q] \notin Locked /\ spc'[q] # "mark"
  BY <1>1, <1>4, Zenon DEF Locked
<1>14. done'[q] /\ ~scarce => FindsGuid(registry.sections)
  BY <1>2, <1>6, Zenon DEF RegistryIsOwn
<1>15. \A r \in Procs \ {q} : /\ spc'[r] = spc[r] /\ next'[r] = next[r] /\ game'[r] = game[r] /\ done'[r] = done[r]
                              /\ dlls'[r] = dlls[r] /\ enabled'[r] = enabled[r] /\ preload'[r] = preload[r]
  BY <1>1, <1>4, <1>6, <1>7, <1>8, Zenon
<1> QED
  BY <1>1, <1>9, <1>12, <1>13, <1>14, <1>15, EnvironMoves, Zenon

(* Every step of every process keeps the invariant. *)
LEMMA StartStep == StartInv /\ [StartupNext]_startupVars => StartInv'
<1> SUFFICES ASSUME StartInv, [StartupNext]_startupVars PROVE StartInv'
  BY Zenon
<1>1. ASSUME NEW p \in Procs, StartupStep(p) PROVE StartInv'
  BY <1>1, GamescopeKeeps, OpenKeeps, LockKeeps, CheckKeeps, FlushKeeps, UnlockKeeps, MarkKeeps,
     EnvironmentKeeps, OverrideKeeps, Zenon DEF StartupStep
<1>2. ASSUME NEW p \in Procs, Die(p) \/ UnsetPreload(p) PROVE StartInv'
  BY <1>2, DieKeeps, UnsetPreloadKeeps, Zenon
<1>3. ASSUME NEW p \in Procs, NEW value \in UserPreloads, NEW overwrite \in BOOLEAN, SetPreload(p, value, overwrite)
      PROVE  StartInv'
  BY <1>3, SetPreloadKeeps, Zenon
<1>4. ASSUME NEW p \in Procs, NEW q \in Procs, SpawnProcess(p, q) PROVE StartInv'
  BY <1>4, SpawnKeepsStart, Zenon
<1>5. CASE UNCHANGED startupVars
  <2>1. UNCHANGED <<spc, done, dlls, preload, enabled, game, next, registry, flock, scarce>>
    BY <1>5, Zenon DEF startupVars, environ, disk
  <2> QED
    BY <2>1, StartStutters, Zenon
<1> QED
  BY <1>1, <1>2, <1>3, <1>4, <1>5, Zenon DEF StartupNext

(* A list with one place for x at most counts it once at most. *)
LEMMA CountedOnce ==
  ASSUME NEW list, NEW x, OneOf(list, x)
  PROVE  Cardinality({i \in DOMAIN list : list[i] = x}) <= 1
<1> DEFINE P == {i \in DOMAIN list : list[i] = x}
<1>1. CASE P = {}
  <2>1. Cardinality(P) = 0
    BY <1>1, FS_EmptySet, Zenon
  <2> QED
    BY <2>1, SMT
<1>2. CASE P # {}
  <2>1. PICK i : i \in P
    BY <1>2, Zenon
  <2>2. P = {i}
    BY <2>1, Zenon DEF OneOf
  <2>3. Cardinality({i}) = 1
    BY FS_Singleton, Zenon
  <2> QED
    BY <2>2, <2>3, SMT
<1> QED
  BY <1>1, <1>2, Zenon

(* Whichever processes start, race for system.reg, set LD_PRELOAD, start others  *)
(* and die: linuwux_setup_environment, init_registry and the setenv and unsetenv *)
(* of gamescope.rs write the registry section once, mark only what is there, keep *)
(* the player's overrides first and never lose the runtime from LD_PRELOAD.      *)
THEOREM StartsKeepWhatTheyFind == StartupSpec => []StartupKeepsWhatItFinds
<1>1. StartInv => StartupKeepsWhatItFinds
  <2> SUFFICES ASSUME StartInv PROVE StartupKeepsWhatItFinds
    BY Zenon
  <2>1. StartTypes /\ RegistryIsOwn /\ EnvironIsOwn
    BY Zenon DEF StartInv
  <2>2. Cardinality({i \in DOMAIN registry.sections : registry.sections[i] = "guid"}) <= 1
    BY <2>1, CountedOnce, Zenon DEF RegistryIsOwn
  <2>3. \A p \in Procs : Cardinality({i \in DOMAIN preload[p] : preload[p][i] = Self}) <= 1
    BY <2>1, CountedOnce, Zenon DEF EnvironIsOwn, PreloadOK
  <2>4. GuidIsWrittenOnce
    BY <2>1, <2>2, PresentMeansFound, Zenon DEF RegistryIsOwn, LockOK, Locked, GuidIsWrittenOnce
  <2>5. ASSUME NEW p \in Procs
        PROVE  /\ \A i, j \in DOMAIN dlls[p] : dlls[p][i].dll = dlls[p][j].dll => i = j
               /\ \E s \in Sessions : BeginsWith(dlls[p], s.overrides)
               /\ spc[p] = "running" /\ game[p] /\ ~scarce =>
                    \A i \in DOMAIN OverrideNames : already_present(dlls[p], OverrideNames[i])
               /\ enabled[p] => preload_has_path(preload[p])
    <3>1. /\ DllsOK(dlls[p]) /\ LoopOK(spc[p], next[p], game[p], dlls[p], scarce)
          /\ PreloadOK(spc[p], enabled[p], preload[p])
      BY <2>1, Zenon DEF EnvironIsOwn
    <3>2. DOMAIN OverrideNames = 1..Len(OverrideNames)
      BY GivenLists, Zenon
    <3> QED
      BY <3>1, <3>2, Zenon DEF DllsOK, LoopOK, PreloadOK
  <2>6. EnvironmentIsKept
    BY <2>3, <2>5, Zenon DEF EnvironmentIsKept
  <2> QED
    BY <2>4, <2>6, Zenon DEF StartupKeepsWhatItFinds
<1> QED
  BY <1>1, StartInit, StartStep, PTL DEF StartupSpec

-----------------------------------------------------------------------------
(* The faked clock *)

(* The arithmetic of protocol/faketime.rs wraps: quotient and remainder of     *)
(* integers are unique.                                                        *)
LEMMA IntDivModUnique ==
  ASSUME NEW c \in Nat \ {0}, NEW q \in Int, NEW p \in Int,
         NEW r \in 0..(c - 1), NEW s \in 0..(c - 1), c * q + r = c * p + s
  PROVE  r = s
<1>1. CASE q < p
  <2>1. c * (q + 1) <= c * p
    BY <1>1, SMT
  <2>2. c * (q + 1) = c * q + c
    BY SMT
  <2> QED
    BY <2>1, <2>2, SMT
<1>2. CASE p < q
  <2>1. c * (p + 1) <= c * q
    BY <1>2, SMT
  <2>2. c * (p + 1) = c * p + c
    BY SMT
  <2> QED
    BY <2>1, <2>2, SMT
<1>3. CASE p = q
  BY <1>3, SMT
<1> QED
  BY <1>1, <1>2, <1>3, SMT

(* Division of integers with remainder. *)
LEMMA IntDivMod ==
  ASSUME NEW a \in Int, NEW c \in Nat \ {0}
  PROVE  a = c * (a \div c) + (a % c) /\ a \div c \in Int /\ a % c \in 0..(c - 1)
  BY SMT

(* A multiple of the modulus does not matter. *)
LEMMA ModShift ==
  ASSUME NEW x \in Int, NEW k \in Int, NEW c \in Nat \ {0}
  PROVE  (x + c * k) % c = x % c
<1> DEFINE y == x + c * k
<1>1. y \in Int
  BY SMT
<1> HIDE DEF y
<1>2. PICK q \in Int, r \in 0..(c - 1) : x = c * q + r /\ r = x % c
  BY IntDivMod, Zenon
<1>3. PICK p \in Int, s \in 0..(c - 1) : y = c * p + s /\ s = y % c
  BY <1>1, IntDivMod, Zenon
<1>4. c * (q + k) = c * q + c * k /\ q + k \in Int
  BY SMT
<1>5. c * q \in Int /\ c * k \in Int /\ c * p \in Int /\ c * (q + k) \in Int
  BY SMT
<1>6. c * (q + k) + r = c * p + s
  <2>1. y = x + c * k
    BY Zenon DEF y
  <2> DEFINE u == c * q
             v == c * k
             w == c * p
             z == c * (q + k)
  <2> HIDE DEF u, v, w, z
  <2>2. u \in Int /\ v \in Int /\ w \in Int /\ z \in Int /\ z = u + v /\ x = u + r /\ y = w + s /\ y = x + v
    BY <1>2, <1>3, <1>4, <1>5, <2>1, Zenon DEF u, v, w, z
  <2>3. z + r = w + s
    BY <2>2, SMT
  <2> QED
    BY <2>3, Zenon DEF z, w
<1>7. r = s
  BY <1>4, <1>6, IntDivModUnique, Zenon
<1> QED
  BY <1>2, <1>3, <1>7, Zenon DEF y

(* What was reduced already may be subtracted as it was. *)
LEMMA ModOfDifference ==
  ASSUME NEW a \in Int, NEW b \in Int, NEW c \in Nat \ {0}
  PROVE  (a - (b % c)) % c = (a - b) % c
<1>1. PICK q \in Int, r \in 0..(c - 1) : b = c * q + r /\ r = b % c
  BY IntDivMod, Zenon
<1>2. c * q \in Int
  BY SMT
<1>3. a - r = (a - b) + c * q /\ a - b \in Int
  <2> DEFINE u == c * q
  <2> HIDE DEF u
  <2>1. u \in Int /\ b = u + r
    BY <1>1, <1>2, Zenon DEF u
  <2>2. a - r = (a - b) + u /\ a - b \in Int
    BY <2>1, SMT
  <2> QED
    BY <2>2, Zenon DEF u
<1>4. ((a - b) + c * q) % c = (a - b) % c
  BY <1>3, ModShift, Zenon
<1> QED
  BY <1>1, <1>3, <1>4, Zenon

(* offset_from_filetime and apply_offset undo each other: the faked clock      *)
(* shows the requested time plus the real time since.                          *)
LEMMA OffsetsCancel ==
  ASSUME NEW secs \in Int, NEW at \in Int, NEW asked \in Int, NEW c \in Nat \ {0}
  PROVE  (secs - ((at - asked) % c)) % c = (asked + (secs - at)) % c
<1>1. at - asked \in Int /\ secs - (at - asked) = asked + (secs - at)
  BY SMT
<1>2. (secs - ((at - asked) % c)) % c = (secs - (at - asked)) % c
  BY <1>1, ModOfDifference, Zenon
<1> QED
  BY <1>1, <1>2, Zenon

-----------------------------------------------------------------------------
(* The offsets that set_offset computed. *)
MadeOffsets == {m.offset : m \in made}

(* A process has an offset that a SET_TIME asked for, or none; one that does   *)
(* not exist yet has none.                                                      *)
OffsetsOK ==
  \A p \in Processes :
    /\ p \notin alive => OFFSET[p] = 0
    /\ OFFSET[p] # 0 => OFFSET[p] \in MadeOffsets

(* So has a thread that is about to store or publish one, *)
WordsOK ==
  \A p \in Processes, t \in Threads :
    pc[p][t] \in {"adopt", "store", "publish"} => word[p][t] \in MadeOffsets

(* and so has every datagram of the pair. *)
QueueOK == \A i \in 1..Len(queue) : queue[i] \in MadeOffsets

(* What set_offset computed, *)
MadeOK == \A m \in made : m.offset = (m.at - Requested(m.filetime)) % Modulus

(* and what gettimeofday returned. *)
ResultOK ==
  result # << >> =>
    /\ result[1] = (result[2] - result[3]) % Modulus
    /\ result[3] # 0 => result[3] \in MadeOffsets

(* The inductive invariant of the faked clock. *)
ClockInv == TypeOK /\ OffsetsOK /\ WordsOK /\ QueueOK /\ MadeOK /\ ResultOK

-----------------------------------------------------------------------------
(* A word is what the arithmetic of protocol/faketime.rs leaves. *)
LEMMA WordOf ==
  ASSUME NEW x \in Int
  PROVE  x % Modulus \in Words
<1>1. Modulus \in Nat \ {0}
  BY FaketimeAssumption, Zenon
<1> QED
  BY <1>1, IntDivMod, Zenon DEF Words

(* The real clock shows a word. *)
LEMMA NowIsWord == TypeOK => Now \in Words
<1> SUFFICES ASSUME TypeOK PROVE Now \in Words
  BY Zenon
<1>1. elapsed \in 0..MaxTime /\ MaxTime \in Nat /\ FirstNow \in 0..(Modulus - 1) /\ Modulus \in Nat \ {0}
  BY FaketimeAssumption, Zenon DEF TypeOK
<1>2. FirstNow + elapsed \in Int
  BY <1>1, SMT
<1> QED
  BY <1>2, WordOf, Zenon DEF Now

(* Words are integers, and 0 is one. *)
LEMMA WordsAreInts == Words \subseteq Int /\ 0 \in Words
<1>1. Modulus \in Nat \ {0}
  BY FaketimeAssumption, Zenon
<1> QED
  BY <1>1, SMT DEF Words

(* What offset_from_filetime computes is a word. *)
LEMMA OffsetIsWord ==
  ASSUME NEW now \in Words, NEW f \in Filetimes
  PROVE  offset_from_filetime(now, f) \in Words
<1>1. f \in Nat /\ TicksPerSecond \in Nat \ {0} /\ Seconds1601To1970 \in Nat /\ now \in Int
  BY FaketimeAssumption, WordsAreInts, Zenon
<1>2. f \div TicksPerSecond - Seconds1601To1970 \in Int
  BY <1>1, SMT
<1>3. Requested(f) \in Int
  BY <1>2, WordOf, WordsAreInts, Zenon DEF Requested
<1>4. now - Requested(f) \in Int
  BY <1>1, <1>3, SMT
<1> QED
  BY <1>4, WordOf, Zenon DEF offset_from_filetime

(* g is f with the value v for thread t of process p. *)
IsPut(S, f, p, t, v, g) ==
  /\ g \in [Processes -> [Threads -> S]] /\ g[p][t] = v
  /\ \A q \in Processes, u \in Threads : q # p \/ u # t => g[q][u] = f[q][u]

(* A local of one thread changes. *)
LEMMA PutLocal ==
  ASSUME NEW S, NEW f \in [Processes -> [Threads -> S]], NEW p \in Processes, NEW t \in Threads, NEW v \in S,
         NEW g, g = [f EXCEPT ![p][t] = v]
  PROVE  IsPut(S, f, p, t, v, g)
<1>1. g = [f EXCEPT ![p] = [f[p] EXCEPT ![t] = v]]
  BY Zenon
<1>2. f[p] \in [Threads -> S]
  BY Zenon
<1> DEFINE h == [f[p] EXCEPT ![t] = v]
<1>3. h \in [Threads -> S] /\ h[t] = v /\ \A u \in Threads : u # t => h[u] = f[p][u]
  BY <1>2, Zenon
<1> HIDE DEF h
<1>4. g = [f EXCEPT ![p] = h]
  BY <1>1, Zenon DEF h
<1>5. g \in [Processes -> [Threads -> S]] /\ g[p] = h /\ \A q \in Processes : q # p => g[q] = f[q]
  BY <1>3, <1>4, Zenon
<1> QED
  BY <1>3, <1>5, Zenon DEF IsPut

-----------------------------------------------------------------------------
(* What a step does to the offsets that were asked for. *)

(* A step of one thread that computes no offset: its own word is one that was  *)
(* asked for if it goes where that matters.                                     *)
LEMMA MoveKeepsWords ==
  ASSUME TypeOK, WordsOK, NEW p \in Processes, NEW t \in Threads, NEW label \in Labels, NEW w \in Words,
         Goto(p, t, label), word' = [word EXCEPT ![p][t] = w], MadeOffsets \subseteq MadeOffsets',
         label \in {"adopt", "store", "publish"} => w \in MadeOffsets'
  PROVE  /\ pc' \in [Processes -> [Threads -> Labels]] /\ word' \in [Processes -> [Threads -> Words]]
         /\ WordsOK'
<1>1. pc \in [Processes -> [Threads -> Labels]] /\ word \in [Processes -> [Threads -> Words]]
  BY Zenon DEF TypeOK
<1>2. pc' = [pc EXCEPT ![p][t] = label]
  BY Zenon DEF Goto
<1>3. /\ pc' \in [Processes -> [Threads -> Labels]] /\ pc'[p][t] = label
      /\ \A q \in Processes, u \in Threads : q # p \/ u # t => pc'[q][u] = pc[q][u]
  <2>1. IsPut(Labels, pc, p, t, label, pc')
    BY <1>1, <1>2, PutLocal, Zenon
  <2> QED
    BY <2>1, Zenon DEF IsPut
<1>4. /\ word' \in [Processes -> [Threads -> Words]] /\ word'[p][t] = w
      /\ \A q \in Processes, u \in Threads : q # p \/ u # t => word'[q][u] = word[q][u]
  <2>1. IsPut(Words, word, p, t, w, word')
    BY <1>1, PutLocal, Zenon
  <2> QED
    BY <2>1, Zenon DEF IsPut
<1>5. ASSUME NEW q \in Processes, NEW u \in Threads, pc'[q][u] \in {"adopt", "store", "publish"}
      PROVE  word'[q][u] \in MadeOffsets'
  <2>1. CASE q = p /\ u = t
    BY <1>3, <1>4, <1>5, <2>1, Zenon
  <2>2. CASE q # p \/ u # t
    <3>1. pc'[q][u] = pc[q][u] /\ word'[q][u] = word[q][u]
      BY <1>3, <1>4, <2>2, Zenon
    <3>2. word[q][u] \in MadeOffsets
      BY <1>5, <3>1, Zenon DEF WordsOK
    <3> QED
      BY <3>1, <3>2, Zenon
  <2> QED
    BY <2>1, <2>2, Zenon
<1>6. WordsOK'
  BY <1>5, Zenon DEF WordsOK
<1> QED
  BY <1>3, <1>4, <1>6, Zenon

(* A call of gettimeofday returns with an offset that was asked for, or none.  *)
LEMMA ReturnKeeps ==
  ASSUME TypeOK, WordsOK, NEW p \in Processes, NEW t \in Threads, NEW o \in Words,
         o # 0 => o \in MadeOffsets, Return(p, t, o), made' = made
  PROVE  /\ pc' \in [Processes -> [Threads -> Labels]] /\ word' \in [Processes -> [Threads -> Words]]
         /\ seconds' \in [Processes -> [Threads -> Words]]
         /\ result' \in {<< >>} \cup (Words \X Words \X Words)
         /\ WordsOK' /\ ResultOK'
<1>1. "idle" \in Labels /\ "idle" \notin {"adopt", "store", "publish"} /\ 0 \in Words
  BY WordsAreInts, Zenon DEF Labels
<1>2. MadeOffsets' = MadeOffsets
  BY Zenon DEF MadeOffsets
<1>3. Goto(p, t, "idle") /\ word' = [word EXCEPT ![p][t] = 0] /\ seconds' = [seconds EXCEPT ![p][t] = 0]
  BY Zenon DEF Return
<1>4. pc' \in [Processes -> [Threads -> Labels]] /\ word' \in [Processes -> [Threads -> Words]] /\ WordsOK'
  BY <1>1, <1>2, <1>3, MoveKeepsWords, Zenon
<1>5. seconds \in [Processes -> [Threads -> Words]]
  BY Zenon DEF TypeOK
<1>6. seconds' \in [Processes -> [Threads -> Words]]
  <2>1. IsPut(Words, seconds, p, t, 0, seconds')
    BY <1>1, <1>3, <1>5, PutLocal, Zenon
  <2> QED
    BY <2>1, Zenon DEF IsPut
<1> DEFINE s == seconds[p][t]
<1>7. s \in Words
  BY <1>5, Zenon
<1> DEFINE r == (s - o) % Modulus
<1>8. result' = <<r, s, o>>
  BY Zenon DEF Return, apply_offset
<1> HIDE DEF s
<1>9. s - o \in Int
  BY <1>7, WordsAreInts, SMT
<1>10. r \in Words
  BY <1>9, WordOf, Zenon
<1>11. result'[1] = r /\ result'[2] = s /\ result'[3] = o
  BY <1>8, Zenon
<1>12. result' \in {<< >>} \cup (Words \X Words \X Words)
  BY <1>7, <1>8, <1>10, Zenon
<1>13. ResultOK'
  <2>1. result'[1] = (result'[2] - result'[3]) % Modulus
    BY <1>11, Zenon
  <2>2. result'[3] # 0 => result'[3] \in MadeOffsets'
    BY <1>2, <1>11, Zenon
  <2> QED
    BY <2>1, <2>2, Zenon DEF ResultOK
<1> QED
  BY <1>4, <1>6, <1>12, <1>13, Zenon

-----------------------------------------------------------------------------
(* At the start nothing has been asked for and no process has an offset. *)
LEMMA ClockInit == Init => ClockInv
<1> SUFFICES ASSUME Init PROVE ClockInv
  BY Zenon
<1>1. 0 \in Words /\ "idle" \in Labels /\ "idle" \notin {"adopt", "store", "publish"}
  BY WordsAreInts, Zenon DEF Labels
<1>2. MaxTime \in Nat /\ QueueLimit \in Nat /\ MaxSets \in Nat /\ MaxReads \in Nat
  BY FaketimeAssumption, Zenon
<1>3. 0 \in 0..MaxTime /\ Never \in Never..MaxTime /\ 0 \in 0..MaxSets /\ 0 \in 0..MaxReads
  BY <1>2, SMT DEF Never
<1>4. queue \in Seq(Words) /\ Len(queue) = 0 /\ Len(queue) <= QueueLimit
  BY <1>2, SMT DEF Init
<1>5. alive \subseteq Processes /\ Root \in alive
  BY FaketimeAssumption, Zenon DEF Init
<1>6. /\ OFFSET \in [Processes -> Words] /\ LAST_PEEK \in [Processes -> Never..MaxTime]
      /\ guard \in [Processes -> BOOLEAN]
  BY <1>1, <1>3, Zenon DEF Init
<1>7. pc \in [Processes -> [Threads -> Labels]] /\ \A p \in Processes, t \in Threads : pc[p][t] = "idle"
  BY <1>1, Zenon DEF Init
<1>8. word \in [Processes -> [Threads -> Words]]
  BY <1>1, Zenon DEF Init
<1>9. seconds \in [Processes -> [Threads -> Words]]
  BY <1>1, Zenon DEF Init
<1>10. result = << >> /\ made = {} /\ elapsed = 0 /\ sets = 0 /\ reads = 0
  BY Zenon DEF Init
<1>11. TypeOK
  BY <1>3, <1>4, <1>5, <1>6, <1>7, <1>8, <1>9, <1>10, Zenon DEF TypeOK
<1>12. OffsetsOK
  BY Zenon DEF OffsetsOK, Init
<1>13. WordsOK
  BY <1>1, <1>7, Zenon DEF WordsOK
<1>14. QueueOK
  <2>1. \A i \in 1..Len(queue) : FALSE
    BY <1>4, SMT
  <2> QED
    BY <2>1, Zenon DEF QueueOK
<1>15. MadeOK /\ ResultOK
  BY <1>10, Zenon DEF MadeOK, ResultOK
<1> QED
  BY <1>11, <1>12, <1>13, <1>14, <1>15, Zenon DEF ClockInv

(* Where nothing is asked for, nothing changes about what was. *)
LEMMA SameMade ==
  ASSUME made' = made
  PROVE  MadeOffsets' = MadeOffsets
  BY Zenon DEF MadeOffsets

(* An offset is stored that was asked for. *)
LEMMA StoreKeeps ==
  ASSUME TypeOK, OffsetsOK, NEW p \in Processes, p \in alive, NEW w \in MadeOffsets, w \in Words,
         OFFSET' = [OFFSET EXCEPT ![p] = w], made' = made, alive' = alive
  PROVE  OFFSET' \in [Processes -> Words] /\ OffsetsOK'
<1>1. OFFSET \in [Processes -> Words]
  BY Zenon DEF TypeOK
<1>2. OFFSET' \in [Processes -> Words] /\ OFFSET'[p] = w /\ \A q \in Processes : q # p => OFFSET'[q] = OFFSET[q]
  BY <1>1, Zenon
<1>3. ASSUME NEW q \in Processes PROVE (q \notin alive' => OFFSET'[q] = 0) /\ (OFFSET'[q] # 0 => OFFSET'[q] \in MadeOffsets')
  <2>1. CASE q = p
    BY <1>2, <2>1, SameMade, Zenon
  <2>2. CASE q # p
    BY <1>2, <2>2, SameMade, Zenon DEF OffsetsOK
  <2> QED
    BY <2>1, <2>2, Zenon
<1> QED
  BY <1>2, <1>3, Zenon DEF OffsetsOK

(* Parts of the invariant whose variables a step leaves alone. *)
LEMMA OffsetsStay ==
  ASSUME OffsetsOK, made' = made, OFFSET' = OFFSET, alive' = alive
  PROVE  OffsetsOK'
  BY SameMade, Zenon DEF OffsetsOK

(* The same for the words that threads hold, *)
LEMMA WordsStay ==
  ASSUME WordsOK, made' = made, pc' = pc, word' = word
  PROVE  WordsOK'
  BY SameMade, Zenon DEF WordsOK

(* for the datagrams of the pair, *)
LEMMA QueueStays ==
  ASSUME QueueOK, made' = made, queue' = queue
  PROVE  QueueOK'
  BY SameMade, Zenon DEF QueueOK

(* for what set_offset computed, *)
LEMMA MadeStays ==
  ASSUME MadeOK, made' = made
  PROVE  MadeOK'
  BY Zenon DEF MadeOK

(* and for what gettimeofday returned. *)
LEMMA ResultStays ==
  ASSUME ResultOK, made' = made, result' = result
  PROVE  ResultOK'
  BY SameMade, Zenon DEF ResultOK

-----------------------------------------------------------------------------
(* One lemma for each action. *)

(* The real clock goes on. *)
LEMMA TickKeeps == ClockInv /\ Tick => ClockInv'
<1> SUFFICES ASSUME ClockInv, Tick PROVE ClockInv'
  BY Zenon
<1>1. elapsed' \in 0..MaxTime
  <2>1. elapsed \in 0..MaxTime /\ MaxTime \in Nat /\ elapsed < MaxTime /\ elapsed' = elapsed + 1
    BY FaketimeAssumption, Zenon DEF ClockInv, TypeOK, Tick
  <2> QED
    BY <2>1, SMT
<1>2. /\ alive' = alive /\ queue' = queue /\ OFFSET' = OFFSET /\ LAST_PEEK' = LAST_PEEK /\ guard' = guard
      /\ pc' = pc /\ word' = word /\ seconds' = seconds /\ result' = result /\ made' = made
      /\ sets' = sets /\ reads' = reads
  BY Zenon DEF Tick, threadVars
<1>3. TypeOK'
  BY <1>1, <1>2, Zenon DEF ClockInv, TypeOK
<1>4. OffsetsOK' /\ WordsOK' /\ QueueOK' /\ MadeOK' /\ ResultOK'
  BY <1>2, OffsetsStay, WordsStay, QueueStays, MadeStays, ResultStays, Zenon DEF ClockInv
<1> QED
  BY <1>3, <1>4, Zenon DEF ClockInv

(* fork copies OFFSET; exec starts it afresh. *)
LEMMA SpawnKeeps ==
  ASSUME ClockInv, NEW p \in Processes, NEW c \in Processes, NEW exec \in BOOLEAN, Spawn(p, c, exec)
  PROVE  ClockInv'
<1>1. /\ elapsed' = elapsed /\ queue' = queue /\ guard' = guard
      /\ pc' = pc /\ word' = word /\ seconds' = seconds /\ result' = result /\ made' = made
      /\ sets' = sets /\ reads' = reads
  BY Zenon DEF Spawn, threadVars
<1>2. /\ OFFSET \in [Processes -> Words] /\ LAST_PEEK \in [Processes -> Never..MaxTime]
      /\ alive \subseteq Processes /\ Root \in alive
  BY Zenon DEF ClockInv, TypeOK
<1> DEFINE o == IF exec THEN 0 ELSE OFFSET[p]
           l == IF exec THEN Never ELSE LAST_PEEK[p]
<1>3. Never \in Never..MaxTime
  <2>1. MaxTime \in Nat
    BY FaketimeAssumption, Zenon
  <2> QED
    BY <2>1, SMT DEF Never
<1>4. o \in Words /\ l \in Never..MaxTime /\ (o # 0 => o \in MadeOffsets)
  BY <1>2, <1>3, WordsAreInts, Zenon DEF ClockInv, OffsetsOK
<1>5. OFFSET' = [OFFSET EXCEPT ![c] = o] /\ LAST_PEEK' = [LAST_PEEK EXCEPT ![c] = l] /\ alive' = alive \cup {c}
  BY Zenon DEF Spawn
<1> HIDE DEF o, l
<1>6. /\ OFFSET' \in [Processes -> Words] /\ LAST_PEEK' \in [Processes -> Never..MaxTime]
      /\ OFFSET'[c] = o /\ \A q \in Processes : q # c => OFFSET'[q] = OFFSET[q]
      /\ alive' \subseteq Processes /\ Root \in alive'
  BY <1>2, <1>4, <1>5, Zenon
<1>7. TypeOK'
  BY <1>1, <1>6, Zenon DEF ClockInv, TypeOK
<1>8. ASSUME NEW q \in Processes PROVE (q \notin alive' => OFFSET'[q] = 0) /\ (OFFSET'[q] # 0 => OFFSET'[q] \in MadeOffsets')
  <2>1. CASE q = c
    BY <1>1, <1>4, <1>5, <1>6, <2>1, SameMade, Zenon
  <2>2. CASE q # c
    BY <1>1, <1>5, <1>6, <2>2, SameMade, Zenon DEF ClockInv, OffsetsOK
  <2> QED
    BY <2>1, <2>2, Zenon
<1>9. OffsetsOK'
  BY <1>8, Zenon DEF OffsetsOK
<1>10. WordsOK' /\ QueueOK' /\ MadeOK' /\ ResultOK'
  BY <1>1, WordsStay, QueueStays, MadeStays, ResultStays, Zenon DEF ClockInv
<1> QED
  BY <1>7, <1>9, <1>10, Zenon DEF ClockInv

(* gettimeofday reads the real clock. *)
LEMMA ReadClockKeeps ==
  ASSUME ClockInv, NEW p \in Processes, NEW t \in Threads, ReadClock(p, t)
  PROVE  ClockInv'
<1>1. /\ elapsed' = elapsed /\ alive' = alive /\ queue' = queue /\ OFFSET' = OFFSET /\ LAST_PEEK' = LAST_PEEK
      /\ guard' = guard /\ word' = word /\ result' = result /\ made' = made /\ sets' = sets
      /\ Goto(p, t, "load") /\ seconds' = [seconds EXCEPT ![p][t] = Now]
  BY Zenon DEF ReadClock
<1>2. /\ pc \in [Processes -> [Threads -> Labels]] /\ word \in [Processes -> [Threads -> Words]]
      /\ seconds \in [Processes -> [Threads -> Words]]
  BY Zenon DEF ClockInv, TypeOK
<1>3. Now \in Words /\ "load" \in Labels /\ "load" \notin {"adopt", "store", "publish"}
  BY NowIsWord, Zenon DEF ClockInv, Labels
<1>4. IsPut(Words, seconds, p, t, Now, seconds')
  BY <1>1, <1>2, <1>3, PutLocal, Zenon
<1>5. IsPut(Labels, pc, p, t, "load", pc')
  BY <1>1, <1>2, <1>3, PutLocal, Zenon DEF Goto
<1>6. reads' \in 0..MaxReads
  <2>1. reads \in 0..MaxReads /\ MaxReads \in Nat /\ reads < MaxReads /\ reads' = reads + 1
    BY FaketimeAssumption, Zenon DEF ClockInv, TypeOK, ReadClock
  <2> QED
    BY <2>1, SMT
<1>7. seconds' \in [Processes -> [Threads -> Words]] /\ pc' \in [Processes -> [Threads -> Labels]]
  BY <1>4, <1>5, Zenon DEF IsPut
<1>8. TypeOK'
  BY <1>1, <1>6, <1>7, Zenon DEF ClockInv, TypeOK
<1>9. WordsOK'
  <2>1. MadeOffsets' = MadeOffsets
    BY <1>1, SameMade, Zenon
  <2>2. \A q \in Processes, u \in Threads : pc'[q][u] \in {"adopt", "store", "publish"} => pc[q][u] = pc'[q][u]
    BY <1>3, <1>5, Zenon DEF IsPut
  <2> QED
    BY <1>1, <2>1, <2>2, Zenon DEF ClockInv, WordsOK
<1>10. OffsetsOK' /\ QueueOK' /\ MadeOK' /\ ResultOK'
  BY <1>1, OffsetsStay, QueueStays, MadeStays, ResultStays, Zenon DEF ClockInv
<1> QED
  BY <1>8, <1>9, <1>10, Zenon DEF ClockInv

(* current_offset finds an offset, or is to peek. *)
LEMMA LoadOffsetKeeps ==
  ASSUME ClockInv, NEW p \in Processes, NEW t \in Threads, LoadOffset(p, t)
  PROVE  ClockInv'
<1>1. /\ elapsed' = elapsed /\ alive' = alive /\ queue' = queue /\ OFFSET' = OFFSET /\ guard' = guard
      /\ made' = made /\ sets' = sets /\ reads' = reads
  BY Zenon DEF LoadOffset
<1>2. /\ OFFSET[p] \in Words /\ (OFFSET[p] # 0 => OFFSET[p] \in MadeOffsets)
      /\ LAST_PEEK \in [Processes -> Never..MaxTime]
  BY Zenon DEF ClockInv, TypeOK, OffsetsOK
<1>3. OffsetsOK' /\ QueueOK' /\ MadeOK'
  BY <1>1, OffsetsStay, QueueStays, MadeStays, Zenon DEF ClockInv
<1>4. CASE Return(p, t, OFFSET[p]) /\ LAST_PEEK' = LAST_PEEK
  <2>1. /\ pc' \in [Processes -> [Threads -> Labels]] /\ word' \in [Processes -> [Threads -> Words]]
        /\ seconds' \in [Processes -> [Threads -> Words]]
        /\ result' \in {<< >>} \cup (Words \X Words \X Words)
        /\ WordsOK' /\ ResultOK'
    BY <1>1, <1>2, <1>4, ReturnKeeps, Zenon DEF ClockInv
  <2>2. TypeOK'
    BY <1>1, <1>4, <2>1, Zenon DEF ClockInv, TypeOK
  <2> QED
    BY <1>3, <2>1, <2>2, Zenon DEF ClockInv
<1>5. CASE LAST_PEEK' = [LAST_PEEK EXCEPT ![p] = elapsed] /\ Goto(p, t, "peek") /\ word' = word /\ seconds' = seconds /\ result' = result
  <2>1. elapsed \in Never..MaxTime
    <3>1. elapsed \in 0..MaxTime /\ MaxTime \in Nat
      BY FaketimeAssumption, Zenon DEF ClockInv, TypeOK
    <3> QED
      BY <3>1, SMT DEF Never
  <2>2. LAST_PEEK' \in [Processes -> Never..MaxTime]
    BY <1>2, <1>5, <2>1, Zenon
  <2>3. "peek" \in Labels /\ "peek" \notin {"adopt", "store", "publish"} /\ pc \in [Processes -> [Threads -> Labels]]
    BY Zenon DEF Labels, ClockInv, TypeOK
  <2>4. IsPut(Labels, pc, p, t, "peek", pc')
    BY <1>5, <2>3, PutLocal, Zenon DEF Goto
  <2>5. pc' \in [Processes -> [Threads -> Labels]]
    BY <2>4, Zenon DEF IsPut
  <2>6. TypeOK'
    BY <1>1, <1>5, <2>2, <2>5, Zenon DEF ClockInv, TypeOK
  <2>7. \A q \in Processes, u \in Threads : pc'[q][u] \in {"adopt", "store", "publish"} => pc[q][u] = pc'[q][u]
    BY <2>3, <2>4, Zenon DEF IsPut
  <2>8. WordsOK'
    BY <1>1, <1>5, <2>7, SameMade, Zenon DEF ClockInv, WordsOK
  <2>9. ResultOK'
    BY <1>1, <1>5, ResultStays, Zenon DEF ClockInv
  <2> QED
    BY <1>3, <2>6, <2>8, <2>9, Zenon DEF ClockInv
<1> QED
  BY <1>4, <1>5, Zenon DEF LoadOffset

(* recv with MSG_PEEK finds nothing, or the oldest datagram. *)
LEMMA PeekKeeps ==
  ASSUME ClockInv, NEW p \in Processes, NEW t \in Threads, Peek(p, t)
  PROVE  ClockInv'
<1>1. /\ elapsed' = elapsed /\ alive' = alive /\ queue' = queue /\ OFFSET' = OFFSET /\ guard' = guard
      /\ LAST_PEEK' = LAST_PEEK /\ made' = made /\ sets' = sets /\ reads' = reads
  BY Zenon DEF Peek
<1>2. OffsetsOK' /\ QueueOK' /\ MadeOK'
  BY <1>1, OffsetsStay, QueueStays, MadeStays, Zenon DEF ClockInv
<1>3. CASE Return(p, t, 0)
  <2>1. /\ pc' \in [Processes -> [Threads -> Labels]] /\ word' \in [Processes -> [Threads -> Words]]
        /\ seconds' \in [Processes -> [Threads -> Words]]
        /\ result' \in {<< >>} \cup (Words \X Words \X Words)
        /\ WordsOK' /\ ResultOK'
    BY <1>1, <1>3, WordsAreInts, ReturnKeeps, Zenon DEF ClockInv
  <2>2. TypeOK'
    BY <1>1, <2>1, Zenon DEF ClockInv, TypeOK
  <2> QED
    BY <1>2, <2>1, <2>2, Zenon DEF ClockInv
<1>4. CASE queue # << >> /\ word' = [word EXCEPT ![p][t] = Head(queue)] /\ Goto(p, t, "adopt") /\ seconds' = seconds /\ result' = result
  <2>1. queue \in Seq(Words)
    BY Zenon DEF ClockInv, TypeOK
  <2>2. 1 \in 1..Len(queue) /\ Head(queue) = queue[1] /\ Head(queue) \in Words
    BY <1>4, <2>1, SMT
  <2>3. Head(queue) \in MadeOffsets'
    BY <1>1, <2>2, SameMade, Zenon DEF ClockInv, QueueOK
  <2>4. MadeOffsets \subseteq MadeOffsets' /\ "adopt" \in Labels
    BY <1>1, SameMade, Zenon DEF Labels
  <2> DEFINE h == Head(queue)
  <2>5. h \in Words /\ h \in MadeOffsets' /\ word' = [word EXCEPT ![p][t] = h]
    BY <1>4, <2>2, <2>3, Zenon
  <2> HIDE DEF h
  <2>6. /\ pc' \in [Processes -> [Threads -> Labels]] /\ word' \in [Processes -> [Threads -> Words]]
        /\ WordsOK'
    BY <1>4, <2>4, <2>5, MoveKeepsWords, Zenon DEF ClockInv
  <2>7. TypeOK'
    BY <1>1, <1>4, <2>6, Zenon DEF ClockInv, TypeOK
  <2>8. ResultOK'
    BY <1>1, <1>4, ResultStays, Zenon DEF ClockInv
  <2> QED
    BY <1>2, <2>6, <2>7, <2>8, Zenon DEF ClockInv
<1> QED
  BY <1>3, <1>4, Zenon DEF Peek

(* The peeked offset becomes the process's own. *)
LEMMA AdoptOffsetKeeps ==
  ASSUME ClockInv, NEW p \in Processes, NEW t \in Threads, AdoptOffset(p, t)
  PROVE  ClockInv'
<1>1. /\ elapsed' = elapsed /\ alive' = alive /\ queue' = queue /\ guard' = guard
      /\ LAST_PEEK' = LAST_PEEK /\ made' = made /\ sets' = sets /\ reads' = reads
  BY Zenon DEF AdoptOffset
<1> DEFINE w == word[p][t]
<1>2. w \in Words /\ w \in MadeOffsets /\ p \in alive
  <2>1. pc[p][t] = "adopt" /\ p \in alive
    BY Zenon DEF AdoptOffset, At
  <2>2. word[p][t] \in Words
    BY Zenon DEF ClockInv, TypeOK
  <2>3. word[p][t] \in MadeOffsets
    BY <2>1, Zenon DEF ClockInv, WordsOK
  <2> QED
    BY <2>1, <2>2, <2>3, Zenon
<1>3. OFFSET' = [OFFSET EXCEPT ![p] = w] /\ Return(p, t, w)
  BY Zenon DEF AdoptOffset
<1> HIDE DEF w
<1>4. OFFSET' \in [Processes -> Words] /\ OffsetsOK'
  BY <1>1, <1>2, <1>3, StoreKeeps, Zenon DEF ClockInv
<1>5. /\ pc' \in [Processes -> [Threads -> Labels]] /\ word' \in [Processes -> [Threads -> Words]]
      /\ seconds' \in [Processes -> [Threads -> Words]]
      /\ result' \in {<< >>} \cup (Words \X Words \X Words)
      /\ WordsOK' /\ ResultOK'
  BY <1>1, <1>2, <1>3, ReturnKeeps, Zenon DEF ClockInv
<1>6. TypeOK'
  BY <1>1, <1>4, <1>5, Zenon DEF ClockInv, TypeOK
<1>7. QueueOK' /\ MadeOK'
  BY <1>1, QueueStays, MadeStays, Zenon DEF ClockInv
<1> QED
  BY <1>4, <1>5, <1>6, <1>7, Zenon DEF ClockInv

(* set_offset stores what it computed *)
LEMMA StoreOffsetKeeps ==
  ASSUME ClockInv, NEW p \in Processes, NEW t \in Threads, StoreOffset(p, t)
  PROVE  ClockInv'
<1>1. /\ elapsed' = elapsed /\ alive' = alive /\ queue' = queue /\ guard' = guard /\ word' = word /\ seconds' = seconds
      /\ result' = result /\ LAST_PEEK' = LAST_PEEK /\ made' = made /\ sets' = sets /\ reads' = reads
  BY Zenon DEF StoreOffset
<1>2. word[p][t] \in Words /\ word[p][t] \in MadeOffsets /\ p \in alive
  <2>1. pc[p][t] = "store" /\ p \in alive
    BY Zenon DEF StoreOffset, At
  <2>2. word[p][t] \in Words
    BY Zenon DEF ClockInv, TypeOK
  <2>3. word[p][t] \in MadeOffsets
    BY <2>1, Zenon DEF ClockInv, WordsOK
  <2> QED
    BY <2>1, <2>2, <2>3, Zenon
<1>3. OFFSET' = [OFFSET EXCEPT ![p] = word[p][t]]
  BY Zenon DEF StoreOffset
<1>4. OFFSET' \in [Processes -> Words] /\ OffsetsOK'
  BY <1>1, <1>2, <1>3, StoreKeeps, Zenon DEF ClockInv
<1>5. "publish" \in Labels /\ pc \in [Processes -> [Threads -> Labels]]
  BY Zenon DEF Labels, ClockInv, TypeOK
<1>6. IsPut(Labels, pc, p, t, "publish", pc')
  BY <1>5, PutLocal, Zenon DEF Goto, StoreOffset
<1>7. pc' \in [Processes -> [Threads -> Labels]]
  BY <1>6, Zenon DEF IsPut
<1>8. TypeOK'
  BY <1>1, <1>4, <1>7, Zenon DEF ClockInv, TypeOK
<1>9. ASSUME NEW q \in Processes, NEW u \in Threads, pc'[q][u] \in {"adopt", "store", "publish"}
      PROVE  word'[q][u] \in MadeOffsets'
  <2>1. CASE q = p /\ u = t
    BY <1>1, <1>2, <2>1, SameMade, Zenon
  <2>2. CASE q # p \/ u # t
    <3>1. pc'[q][u] = pc[q][u]
      BY <1>6, <2>2, Zenon DEF IsPut
    <3> QED
      BY <1>1, <1>9, <3>1, SameMade, Zenon DEF ClockInv, WordsOK
  <2> QED
    BY <2>1, <2>2, Zenon
<1>10. WordsOK'
  BY <1>9, Zenon DEF WordsOK
<1>11. QueueOK' /\ MadeOK' /\ ResultOK'
  BY <1>1, QueueStays, MadeStays, ResultStays, Zenon DEF ClockInv
<1> QED
  BY <1>4, <1>8, <1>10, <1>11, Zenon DEF ClockInv

(* and writes it to the pair, if the queue has room. *)
LEMMA PublishOffsetKeeps ==
  ASSUME ClockInv, NEW p \in Processes, NEW t \in Threads, PublishOffset(p, t)
  PROVE  ClockInv'
<1>1. /\ elapsed' = elapsed /\ alive' = alive /\ OFFSET' = OFFSET /\ seconds' = seconds
      /\ result' = result /\ LAST_PEEK' = LAST_PEEK /\ made' = made /\ sets' = sets /\ reads' = reads
      /\ guard' = [guard EXCEPT ![p] = FALSE]
      /\ Goto(p, t, "idle") /\ word' = [word EXCEPT ![p][t] = 0]
  BY Zenon DEF PublishOffset
<1>2. word[p][t] \in Words /\ word[p][t] \in MadeOffsets
  <2>1. pc[p][t] = "publish"
    BY Zenon DEF PublishOffset, At
  <2>2. word[p][t] \in Words
    BY Zenon DEF ClockInv, TypeOK
  <2>3. word[p][t] \in MadeOffsets
    BY <2>1, Zenon DEF ClockInv, WordsOK
  <2> QED
    BY <2>2, <2>3, Zenon
<1>3. "idle" \in Labels /\ "idle" \notin {"adopt", "store", "publish"} /\ 0 \in Words /\ MadeOffsets \subseteq MadeOffsets'
  BY <1>1, WordsAreInts, SameMade, Zenon DEF Labels
<1>4. pc' \in [Processes -> [Threads -> Labels]] /\ word' \in [Processes -> [Threads -> Words]] /\ WordsOK'
  BY <1>1, <1>3, MoveKeepsWords, Zenon DEF ClockInv
<1>5. guard' \in [Processes -> BOOLEAN]
  BY <1>1, Zenon DEF ClockInv, TypeOK
<1>6. queue' \in Seq(Words) /\ Len(queue') <= QueueLimit /\ QueueOK'
  <2>1. queue \in Seq(Words) /\ Len(queue) <= QueueLimit /\ QueueLimit \in Nat
    BY FaketimeAssumption, Zenon DEF ClockInv, TypeOK
  <2>2. CASE queue' = queue
    BY <1>1, <2>1, <2>2, QueueStays, Zenon DEF ClockInv
  <2>3. CASE Len(queue) < QueueLimit /\ queue' = Append(queue, word[p][t])
    <3> DEFINE w == word[p][t]
    <3>1. w \in Words /\ queue' = Append(queue, w)
      BY <1>2, <2>3, Zenon
    <3> HIDE DEF w
    <3>2. /\ queue' \in Seq(Words) /\ Len(queue') = Len(queue) + 1 /\ Len(queue) \in Nat
          /\ queue'[Len(queue) + 1] = w /\ \A i \in 1..Len(queue) : queue'[i] = queue[i]
      BY <2>1, <3>1, SMT
    <3>3. Len(queue') <= QueueLimit
      BY <2>1, <2>3, <3>2, SMT
    <3>4. ASSUME NEW i \in 1..Len(queue') PROVE queue'[i] \in MadeOffsets'
      <4>1. CASE i = Len(queue) + 1
        <5>1. queue'[i] = w
          BY <3>2, <4>1, Zenon
        <5>2. w \in MadeOffsets
          BY <1>2, Zenon DEF w
        <5> QED
          BY <1>1, <5>1, <5>2, SameMade, Zenon
      <4>2. CASE i # Len(queue) + 1
        <5>1. i \in 1..Len(queue)
          BY <3>2, <4>2, SMT
        <5> QED
          BY <1>1, <3>2, <5>1, SameMade, Zenon DEF ClockInv, QueueOK
      <4> QED
        BY <4>1, <4>2, Zenon
    <3>5. QueueOK'
      BY <3>4, Zenon DEF QueueOK
    <3> QED
      BY <3>2, <3>3, <3>5, Zenon
  <2> QED
    BY <2>2, <2>3, Zenon DEF PublishOffset
<1>7. TypeOK'
  BY <1>1, <1>4, <1>5, <1>6, Zenon DEF ClockInv, TypeOK
<1>8. OffsetsOK' /\ MadeOK' /\ ResultOK'
  BY <1>1, OffsetsStay, MadeStays, ResultStays, Zenon DEF ClockInv
<1> QED
  BY <1>4, <1>6, <1>7, <1>8, Zenon DEF ClockInv

(* set_offset computes an offset from a requested time, or drops the        *)
(* command.                                                                 *)
LEMMA SetOffsetKeeps ==
  ASSUME ClockInv, NEW p \in Processes, NEW t \in Threads, NEW f \in Filetimes, SetOffset(p, t, f)
  PROVE  ClockInv'
<1>1. /\ elapsed' = elapsed /\ alive' = alive /\ queue' = queue /\ OFFSET' = OFFSET /\ LAST_PEEK' = LAST_PEEK
      /\ seconds' = seconds /\ result' = result /\ reads' = reads
  BY Zenon DEF SetOffset
<1>2. sets' \in 0..MaxSets
  <2>1. sets \in 0..MaxSets /\ MaxSets \in Nat /\ sets < MaxSets /\ sets' = sets + 1
    BY FaketimeAssumption, Zenon DEF ClockInv, TypeOK, SetOffset
  <2> QED
    BY <2>1, SMT
<1>3. CASE guard' = guard /\ word' = word /\ made' = made /\ pc' = pc
  <2>1. TypeOK'
    BY <1>1, <1>2, <1>3, Zenon DEF ClockInv, TypeOK
  <2>2. OffsetsOK' /\ WordsOK' /\ QueueOK' /\ MadeOK' /\ ResultOK'
    BY <1>1, <1>3, OffsetsStay, WordsStay, QueueStays, MadeStays, ResultStays, Zenon DEF ClockInv
  <2> QED
    BY <2>1, <2>2, Zenon DEF ClockInv
<1>4. CASE /\ guard' = [guard EXCEPT ![p] = TRUE]
           /\ word' = [word EXCEPT ![p][t] = offset_from_filetime(Now, f)]
           /\ made' = made \cup {[offset |-> offset_from_filetime(Now, f), at |-> Now, filetime |-> f]}
           /\ Goto(p, t, "store")
  <2> DEFINE o == offset_from_filetime(Now, f)
             m == [offset |-> o, at |-> Now, filetime |-> f]
  <2>1. Now \in Words
    BY NowIsWord, Zenon DEF ClockInv
  <2>2. o \in Words /\ o = (Now - Requested(f)) % Modulus
    BY <2>1, OffsetIsWord, Zenon DEF offset_from_filetime
  <2>3. word' = [word EXCEPT ![p][t] = o] /\ made' = made \cup {m}
    BY <1>4, Zenon
  <2> HIDE DEF o
  <2>4. m \in [offset : Words, at : Words, filetime : Filetimes] /\ m.offset = o /\ m.at = Now /\ m.filetime = f
    BY <2>1, <2>2, Zenon
  <2> HIDE DEF m
  <2>5. MadeOffsets \subseteq MadeOffsets' /\ o \in MadeOffsets'
    BY <2>3, <2>4, Zenon DEF MadeOffsets
  <2>6. "store" \in Labels
    BY Zenon DEF Labels
  <2>7. pc' \in [Processes -> [Threads -> Labels]] /\ word' \in [Processes -> [Threads -> Words]] /\ WordsOK'
    BY <1>4, <2>2, <2>3, <2>5, <2>6, MoveKeepsWords, Zenon DEF ClockInv
  <2>8. guard' \in [Processes -> BOOLEAN]
    BY <1>4, Zenon DEF ClockInv, TypeOK
  <2>9. made' \subseteq [offset : Words, at : Words, filetime : Filetimes]
    BY <2>3, <2>4, Zenon DEF ClockInv, TypeOK
  <2>10. TypeOK'
    BY <1>1, <1>2, <2>7, <2>8, <2>9, Zenon DEF ClockInv, TypeOK
  <2>11. OffsetsOK'
    BY <1>1, <2>5, Zenon DEF ClockInv, OffsetsOK
  <2>12. QueueOK'
    BY <1>1, <2>5, Zenon DEF ClockInv, QueueOK
  <2>13. MadeOK'
    <3>1. m.offset = (m.at - Requested(m.filetime)) % Modulus
      BY <2>2, <2>4, Zenon
    <3>2. \A n \in made' : n \in made \/ n = m
      BY <2>3, Zenon
    <3> QED
      BY <3>1, <3>2, Zenon DEF ClockInv, MadeOK
  <2>14. ResultOK'
    BY <1>1, <2>5, Zenon DEF ClockInv, ResultOK
  <2> QED
    BY <2>7, <2>10, <2>11, <2>12, <2>13, <2>14, Zenon DEF ClockInv
<1> QED
  BY <1>3, <1>4, Zenon DEF SetOffset

-----------------------------------------------------------------------------
(* Every step of every thread keeps the invariant. *)
LEMMA ClockStep == ClockInv /\ [Next]_vars => ClockInv'
<1> SUFFICES ASSUME ClockInv, [Next]_vars PROVE ClockInv'
  BY Zenon
<1>1. CASE Tick
  BY <1>1, TickKeeps, Zenon
<1>2. CASE \E p, c \in Processes, exec \in BOOLEAN : Spawn(p, c, exec)
  BY <1>2, SpawnKeeps, Zenon
<1>3. ASSUME NEW p \in Processes, NEW t \in Threads, ReadClock(p, t) \/ Step(p, t) \/ \E f \in Filetimes : SetOffset(p, t, f)
      PROVE  ClockInv'
  <2>1. CASE ReadClock(p, t)
    BY <2>1, ReadClockKeeps, Zenon
  <2>2. CASE LoadOffset(p, t)
    BY <2>2, LoadOffsetKeeps, Zenon
  <2>3. CASE Peek(p, t)
    BY <2>3, PeekKeeps, Zenon
  <2>4. CASE AdoptOffset(p, t)
    BY <2>4, AdoptOffsetKeeps, Zenon
  <2>5. CASE StoreOffset(p, t)
    BY <2>5, StoreOffsetKeeps, Zenon
  <2>6. CASE PublishOffset(p, t)
    BY <2>6, PublishOffsetKeeps, Zenon
  <2>7. CASE \E f \in Filetimes : SetOffset(p, t, f)
    BY <2>7, SetOffsetKeeps, Zenon
  <2> QED
    BY <1>3, <2>1, <2>2, <2>3, <2>4, <2>5, <2>6, <2>7, Zenon DEF Step
<1>4. CASE UNCHANGED vars
  <2>1. /\ elapsed' = elapsed /\ alive' = alive /\ queue' = queue /\ OFFSET' = OFFSET /\ LAST_PEEK' = LAST_PEEK
        /\ guard' = guard /\ pc' = pc /\ word' = word /\ seconds' = seconds /\ result' = result /\ made' = made
        /\ sets' = sets /\ reads' = reads
    BY <1>4, Zenon DEF vars, threadVars
  <2>2. TypeOK'
    BY <2>1, Zenon DEF ClockInv, TypeOK
  <2>3. OffsetsOK' /\ WordsOK' /\ QueueOK' /\ MadeOK' /\ ResultOK'
    BY <2>1, OffsetsStay, WordsStay, QueueStays, MadeStays, ResultStays, Zenon DEF ClockInv
  <2> QED
    BY <2>2, <2>3, Zenon DEF ClockInv
<1> QED
  BY <1>1, <1>2, <1>3, <1>4, Zenon DEF Next

(* The invariant says what gettimeofday showed: offsets cancel. *)
LEMMA ClockInvImplies == ClockInv => FakedClockIsSound
<1> SUFFICES ASSUME ClockInv PROVE FakedClockIsSound
  BY Zenon
<1>1. TypeOK
  BY Zenon DEF ClockInv
<1>2. ASSUME result # << >>, result[3] # 0
      PROVE  \E m \in made :
               /\ m.offset = result[3]
               /\ result[1] = (Requested(m.filetime) + (result[2] - m.at)) % Modulus
  <2>1. result[1] = (result[2] - result[3]) % Modulus /\ result[3] \in MadeOffsets
    BY <1>2, Zenon DEF ClockInv, ResultOK
  <2>2. PICK m \in made : result[3] = m.offset
    BY <2>1, Zenon DEF MadeOffsets
  <2>3. m.offset = (m.at - Requested(m.filetime)) % Modulus
    BY Zenon DEF ClockInv, MadeOK
  <2>4. m.at \in Words /\ m.filetime \in Filetimes
    BY <1>1, Zenon DEF TypeOK
  <2>5. result[2] \in Words
    BY <1>1, <1>2, Zenon DEF TypeOK
  <2>6. Requested(m.filetime) \in Int
    <3>1. m.filetime \in Nat /\ TicksPerSecond \in Nat \ {0} /\ Seconds1601To1970 \in Nat
      BY <2>4, FaketimeAssumption, Zenon
    <3> DEFINE g == m.filetime
    <3> HIDE DEF g
    <3>2. g \in Nat
      BY <3>1, Zenon DEF g
    <3>3. g \div TicksPerSecond - Seconds1601To1970 \in Int
      BY <3>1, <3>2, SMT
    <3> QED
      BY <3>3, WordOf, WordsAreInts, Zenon DEF Requested, g
  <2>7. (result[2] - ((m.at - Requested(m.filetime)) % Modulus)) % Modulus = (Requested(m.filetime) + (result[2] - m.at)) % Modulus
    <3>1. result[2] \in Int /\ m.at \in Int /\ Modulus \in Nat \ {0}
      BY <2>4, <2>5, WordsAreInts, FaketimeAssumption, Zenon
    <3> QED
      BY <2>6, <3>1, OffsetsCancel, Zenon
  <2> QED
    BY <2>1, <2>2, <2>3, <2>7, Zenon
<1> QED
  BY <1>1, <1>2, Zenon DEF FakedClockIsSound, FakedClockRunsOn

(* For any number of processes and threads, requested times and word width:     *)
(* gettimeofday with an offset in force shows the time that a SET_TIME asked     *)
(* for plus the real time since, across the wrap of the arithmetic.              *)
THEOREM FakedClockHolds == Spec => []FakedClockIsSound
<1>1. Spec => []ClockInv
  BY ClockInit, ClockStep, PTL DEF Spec
<1> QED
  BY <1>1, ClockInvImplies, PTL

(* Whoever stores to OFFSET, and whatever process is forked or executed, an     *)
(* offset that changes becomes one that a SET_TIME asked for.                    *)
THEOREM OffsetsAreAskedFor == Spec => OffsetIsNeverInvented
<1> DEFINE A == \A p \in Processes : OFFSET'[p] # OFFSET[p] => OFFSET'[p] \in {m.offset : m \in made'}
<1>1. ClockInv /\ ClockInv' /\ [Next]_vars => [A]_vars
  <2> SUFFICES ASSUME ClockInv, ClockInv', [Next]_vars, NEW p \in Processes, OFFSET'[p] # OFFSET[p]
               PROVE  OFFSET'[p] \in MadeOffsets'
    BY Zenon DEF MadeOffsets
  <2>1. CASE OFFSET'[p] # 0
    BY <2>1, Zenon DEF ClockInv, OffsetsOK
  <2>2. CASE OFFSET'[p] = 0
    <3>1. OFFSET \in [Processes -> Words] /\ word \in [Processes -> [Threads -> Words]]
      BY Zenon DEF ClockInv, TypeOK
    <3>2. ASSUME NEW q \in Processes, NEW c \in Processes, NEW exec \in BOOLEAN, Spawn(q, c, exec) PROVE FALSE
      <4>1. OFFSET[c] = 0
        BY <3>2, Zenon DEF ClockInv, OffsetsOK, Spawn
      <4>2. p # c
        BY <2>2, <4>1, Zenon
      <4> DEFINE o == IF exec THEN 0 ELSE OFFSET[q]
      <4>3. OFFSET' = [OFFSET EXCEPT ![c] = o]
        BY <3>2, Zenon DEF Spawn
      <4> HIDE DEF o
      <4>4. OFFSET'[p] = OFFSET[p]
        BY <3>1, <4>2, <4>3, Zenon
      <4> QED
        BY <4>4, Zenon
    <3>3. ASSUME NEW q \in Processes, NEW t \in Threads, AdoptOffset(q, t) \/ StoreOffset(q, t)
          PROVE  OFFSET'[p] \in MadeOffsets'
      <4>1. word[q][t] \in MadeOffsets /\ made' = made /\ OFFSET' = [OFFSET EXCEPT ![q] = word[q][t]]
        BY <3>3, Zenon DEF AdoptOffset, StoreOffset, At, ClockInv, WordsOK
      <4>2. p = q
        BY <3>1, <4>1, Zenon
      <4>3. OFFSET'[p] = word[q][t]
        BY <3>1, <4>1, <4>2, Zenon
      <4> QED
        BY <4>1, <4>3, SameMade, Zenon
    <3>4. CASE OFFSET' = OFFSET
      BY <3>4, Zenon
    <3>5. OFFSET' = OFFSET \/ (\E q, c \in Processes, exec \in BOOLEAN : Spawn(q, c, exec))
            \/ (\E q \in Processes, t \in Threads : AdoptOffset(q, t) \/ StoreOffset(q, t))
      BY ZenonT(60) DEF Next, vars, Tick, ReadClock, Step, LoadOffset, Peek, PublishOffset, SetOffset
    <3> QED
      BY <3>2, <3>3, <3>4, <3>5, Zenon
  <2> QED
    BY <2>1, <2>2, Zenon
<1>2. Spec => []ClockInv
  BY ClockInit, ClockStep, PTL DEF Spec
<1>3. Spec => [][A]_vars
  BY <1>1, <1>2, PTL DEF Spec
<1> QED
  BY <1>3, Zenon DEF OffsetIsNeverInvented

-----------------------------------------------------------------------------
(* The socket pair *)

(* A set of numbers has a smallest. *)
LEMMA SmallestOf ==
  ASSUME NEW S \in SUBSET Nat, S # {}
  PROVE  \E n \in S : \A m \in S : n <= m
<1> DEFINE R == OpToRel(<, Nat)
<1>1. \E x \in S : \A y \in S : ~(<<y, x>> \in R)
  BY NatLessThanWellFounded, WFMin, Zenon
<1>2. \A x, y \in Nat : y < x => <<y, x>> \in R
  BY Zenon DEF OpToRel
<1>3. PICK x \in S : \A y \in S : ~(y < x)
  BY <1>1, <1>2, Zenon
<1>4. \A y \in S : x <= y
  <2> HIDE DEF R
  <2> SUFFICES ASSUME NEW y \in S PROVE x <= y
    BY Zenon
  <2>1. x \in Nat /\ y \in Nat /\ ~(y < x)
    BY <1>3, Zenon
  <2> QED
    BY <2>1, SMT
<1> QED
  BY <1>4, Zenon

(* The kernel's lowest free descriptor is a free one. *)
LEMMA MinInside ==
  ASSUME NEW S \in SUBSET Nat, S # {}
  PROVE  Min(S) \in S
<1>1. \E n \in S : \A m \in S : n <= m
  BY SmallestOf, Zenon
<1> QED
  BY <1>1, Zenon DEF Min

(* What a descriptor can be open on. *)
Descriptors == {Closed, File, Socket} \cup {RecvEnd(n) : n \in 1..MaxExecs} \cup {SendEnd(n) : n \in 1..MaxExecs}

(* The kinds of descriptors are apart. *)
LEMMA KindsApart ==
  /\ Closed # File /\ ~Ours(Closed) /\ ~Ours(File) /\ ~Ours(Socket)
  /\ \A n : RecvEnd(n) # File /\ SendEnd(n) # File /\ RecvEnd(n) # Closed
  BY Zenon DEF Closed, File, Socket, Ours, RecvEnd, SendEnd

(* While the pair is being moved to its fixed numbers, its sockets are on at    *)
(* most four descriptors, and none of these held a file; outside, they are only *)
(* on the fixed ones.                                                           *)
PairInv ==
  /\ PairTypeOK
  /\ FilesAreKept
  /\ pair_pc \in {"init", "done"} => \A fd \in Fds : Ours(fds[fd]) => fd \in {RecvFd, SendFd}
  /\ pair_pc \in {"dup_recv", "dup_send", "close"} =>
       /\ \A fd \in Fds : Ours(fds[fd]) => fd \in {RecvFd, SendFd, recv_fd, send_fd}
       /\ \A fd \in Fds : fd \in {RecvFd, SendFd, recv_fd, send_fd} => before[fd] # File

(* The numbers of descriptors. *)
LEMMA LimitIsPositive == PairTypeOK => limit \in Nat \ {0} /\ Fds \subseteq Nat /\ 0 \in Fds /\ IsFiniteSet(Fds)
<1> SUFFICES ASSUME PairTypeOK PROVE limit \in Nat \ {0} /\ Fds \subseteq Nat /\ 0 \in Fds /\ IsFiniteSet(Fds)
  BY Zenon
<1>1. limit \in Nat \ {0}
  BY SocketPairAssumption, Zenon DEF PairTypeOK
<1>2. Fds \subseteq Nat /\ 0 \in Fds /\ limit - 1 \in Nat
  BY <1>1, SMT DEF Fds
<1>3. IsFiniteSet(Fds)
  <2>1. 0 \in Int /\ limit - 1 \in Int
    BY <1>1, SMT
  <2> QED
    BY <2>1, FS_Interval, Zenon DEF Fds
<1> QED
  BY <1>1, <1>2, <1>3, Zenon

(* The first process starts with what the launcher left open. *)
LEMMA PairInitInv == PairInit => PairInv
<1> SUFFICES ASSUME PairInit PROVE PairInv
  BY Zenon
<1>1. limit \in Nat \ {0} /\ limit \in FdLimits
  BY SocketPairAssumption, Zenon DEF PairInit
<1>2. 0 \in Fds
  BY <1>1, SMT DEF Fds
<1>3. 1 \in 1..MaxExecs
  <2>1. MaxExecs \in Nat \ {0}
    BY SocketPairAssumption, Zenon
  <2> QED
    BY <2>1, SMT
<1>4. fds \in [Fds -> Inherited] /\ Inherited \subseteq {Closed, File, Socket} /\ before = fds
  BY SocketPairAssumption, Zenon DEF PairInit
<1>5. fds \in [Fds -> Descriptors]
  BY <1>4, Zenon DEF Descriptors
<1>6. PairTypeOK
  BY <1>1, <1>2, <1>3, <1>4, <1>5, Zenon DEF PairTypeOK, PairInit, Descriptors
<1>7. FilesAreKept
  BY <1>4, Zenon DEF FilesAreKept
<1>8. \A fd \in Fds : ~Ours(fds[fd])
  BY <1>4, KindsApart, Zenon
<1>9. pair_pc = "init"
  BY Zenon DEF PairInit
<1> QED
  BY <1>6, <1>7, <1>8, <1>9, Zenon DEF PairInv

(* Steps that leave the table alone. *)
LEMMA QuietPairStep ==
  ASSUME PairInv, Reuse \/ LeaveAlone
  PROVE  PairInv'
<1>1. /\ limit' = limit /\ fds' = fds /\ before' = before /\ recv_fd' = recv_fd /\ send_fd' = send_fd /\ execs' = execs
      /\ READY' \in BOOLEAN /\ pair_pc = "init" /\ pair_pc' = "done" /\ Fds' = Fds
  BY Zenon DEF PairInv, PairTypeOK, Reuse, LeaveAlone, Fds
<1>2. PairTypeOK'
  BY <1>1, Zenon DEF PairInv, PairTypeOK
<1>3. FilesAreKept'
  BY <1>1, Zenon DEF PairInv, FilesAreKept
<1> QED
  BY <1>1, <1>2, <1>3, Zenon DEF PairInv

(* The free descriptors. *)
LEMMA FreeInside ==
  ASSUME PairTypeOK
  PROVE  Free \in SUBSET Nat /\ Free \subseteq Fds /\ IsFiniteSet(Free)
<1>1. Fds \subseteq Nat /\ IsFiniteSet(Fds)
  BY LimitIsPositive, Zenon
<1>2. Free \subseteq Fds
  BY Zenon DEF Free
<1> QED
  BY <1>1, <1>2, FS_Subset, Zenon

(* socketpair places its two ends on two free descriptors. *)
LEMMA CreatePairKeeps ==
  ASSUME PairInv, CreatePair
  PROVE  PairInv'
<1>1. /\ limit' = limit /\ before' = before /\ READY' = READY /\ execs' = execs /\ Fds' = Fds
      /\ pair_pc = "init" /\ ~Taken(RecvFd) /\ ~Taken(SendFd)
  BY Zenon DEF CreatePair, MayCreate, Fds
<1>2. CASE pair_pc' = "done" /\ fds' = fds /\ recv_fd' = recv_fd /\ send_fd' = send_fd
  <2>1. PairTypeOK'
    BY <1>1, <1>2, Zenon DEF PairInv, PairTypeOK
  <2>2. FilesAreKept'
    BY <1>1, <1>2, Zenon DEF PairInv, FilesAreKept
  <2> QED
    BY <1>1, <1>2, <2>1, <2>2, Zenon DEF PairInv
<1>3. CASE /\ Cardinality(Free) >= 2 /\ recv_fd' = Min(Free) /\ send_fd' = Min(Free \ {recv_fd'})
           /\ fds' = [fds EXCEPT ![recv_fd'] = RecvEnd(execs), ![send_fd'] = SendEnd(execs)]
           /\ pair_pc' = "dup_recv"
  <2>1. Free \in SUBSET Nat /\ Free \subseteq Fds /\ IsFiniteSet(Free)
    BY FreeInside, Zenon DEF PairInv
  <2>2. Free # {}
    <3>1. CASE Free = {}
      <4>1. Cardinality(Free) = 0
        BY <3>1, FS_EmptySet, Zenon
      <4> QED
        BY <1>3, <4>1, SMT
    <3> QED
      BY <3>1, Zenon
  <2>3. recv_fd' \in Free
    BY <1>3, <2>1, <2>2, MinInside, Zenon
  <2>4. Free \ {recv_fd'} # {}
    <3>1. CASE Free \ {recv_fd'} = {}
      <4>1. Free = {recv_fd'}
        BY <2>3, <3>1, Zenon
      <4>2. Cardinality(Free) = 1
        BY <4>1, FS_Singleton, Zenon
      <4> QED
        BY <1>3, <4>2, SMT
    <3> QED
      BY <3>1, Zenon
  <2>5. send_fd' \in Free \ {recv_fd'}
    <3>1. Free \ {recv_fd'} \in SUBSET Nat
      BY <2>1, Zenon
    <3> QED
      BY <1>3, <2>4, <3>1, MinInside, Zenon
  <2>6. recv_fd' \in Fds /\ send_fd' \in Fds /\ fds[recv_fd'] = Closed /\ fds[send_fd'] = Closed /\ recv_fd' # send_fd'
    BY <2>3, <2>5, Zenon DEF Free
  <2> DEFINE a == recv_fd'
             b == send_fd'
             ra == RecvEnd(execs)
             sb == SendEnd(execs)
  <2>7. ra \in Descriptors /\ sb \in Descriptors /\ fds \in [Fds -> Descriptors] /\ execs \in 1..MaxExecs
    BY Zenon DEF PairInv, PairTypeOK, Descriptors
  <2>8. fds' = [fds EXCEPT ![a] = ra, ![b] = sb] /\ a \in Fds /\ b \in Fds /\ a # b
    BY <1>3, <2>6, Zenon
  <2> HIDE DEF a, b, ra, sb
  <2>9. fds' \in [Fds -> Descriptors] /\ \A fd \in Fds : fd # a /\ fd # b => fds'[fd] = fds[fd]
    BY <2>7, <2>8, Zenon
  <2>10. PairTypeOK'
    BY <1>1, <1>3, <2>6, <2>9, Zenon DEF PairInv, PairTypeOK, Descriptors
  <2>11. before[a] # File /\ before[b] # File
    BY <2>6, KindsApart, Zenon DEF PairInv, FilesAreKept, a, b
  <2>12. FilesAreKept'
    BY <1>1, <2>9, <2>11, Zenon DEF PairInv, FilesAreKept
  <2>13. ASSUME NEW fd \in Fds, Ours(fds'[fd]) PROVE fd \in {RecvFd, SendFd, a, b}
    <3>1. CASE fd # a /\ fd # b
      BY <1>1, <2>9, <2>13, <3>1, Zenon DEF PairInv
    <3> QED
      BY <3>1, Zenon
  <2>14. ASSUME NEW fd \in Fds, fd \in {RecvFd, SendFd, a, b} PROVE before[fd] # File
    <3>1. CASE fd = a \/ fd = b
      BY <2>11, <3>1, Zenon
    <3>2. CASE fd = RecvFd \/ fd = SendFd
      <4>1. ~Taken(fd)
        BY <1>1, <3>2, Zenon
      <4>2. fds[fd] # File
        <5>1. CASE fds[fd] = File
          <6>1. fds[fd].kind = "file" /\ fds[fd] # Closed
            <7>1. File.kind = "file"
              BY Zenon DEF File
            <7> QED
              BY <5>1, <7>1, KindsApart, Zenon
          <6> QED
            BY <4>1, <6>1, Zenon DEF Taken, fd_is_socket, IsOpen
        <5> QED
          BY <5>1, Zenon
      <4> QED
        BY <4>2, Zenon DEF PairInv, FilesAreKept
    <3> QED
      BY <2>14, <3>1, <3>2, Zenon
  <2>15. \A fd \in Fds : Ours(fds'[fd]) => fd \in {RecvFd, SendFd, recv_fd', send_fd'}
    BY <2>13, Zenon DEF a, b
  <2>16. \A fd \in Fds : fd \in {RecvFd, SendFd, recv_fd', send_fd'} => before[fd] # File
    BY <2>14, Zenon DEF a, b
  <2> QED
    BY <1>1, <1>3, <2>10, <2>12, <2>15, <2>16, Zenon DEF PairInv
<1> QED
  BY <1>2, <1>3, Zenon DEF CreatePair

(* dup2 onto a fixed number, or the clean-up after it failed. *)
LEMMA DupKeeps ==
  ASSUME PairInv, NEW from \in {recv_fd, send_fd}, NEW to \in {RecvFd, SendFd},
         NEW here \in {"dup_recv", "dup_send"}, NEW goal \in {"dup_send", "close"}, Dup(from, to, here, goal)
  PROVE  PairInv'
<1>1. /\ limit' = limit /\ before' = before /\ READY' = READY /\ execs' = execs /\ Fds' = Fds
      /\ recv_fd' = recv_fd /\ send_fd' = send_fd /\ pair_pc = here
  BY Zenon DEF Dup, Fds
<1>2. /\ fds \in [Fds -> Descriptors] /\ recv_fd \in Fds /\ send_fd \in Fds /\ from \in Fds
      /\ \A fd \in Fds : Ours(fds[fd]) => fd \in {RecvFd, SendFd, recv_fd, send_fd}
      /\ \A fd \in Fds : fd \in {RecvFd, SendFd, recv_fd, send_fd} => before[fd] # File
  BY <1>1, Zenon DEF PairInv, PairTypeOK, Descriptors
<1>3. CASE to \in Fds /\ fds' = [fds EXCEPT ![to] = fds[from]] /\ pair_pc' = goal
  <2>1. fds' \in [Fds -> Descriptors] /\ \A fd \in Fds : fd # to => fds'[fd] = fds[fd]
    BY <1>2, <1>3, Zenon
  <2>2. PairTypeOK'
    BY <1>1, <1>3, <2>1, Zenon DEF PairInv, PairTypeOK, Descriptors
  <2>3. FilesAreKept'
    BY <1>1, <1>2, <2>1, Zenon DEF PairInv, FilesAreKept
  <2>4. \A fd \in Fds : Ours(fds'[fd]) => fd \in {RecvFd, SendFd, recv_fd, send_fd}
    BY <1>2, <2>1, Zenon
  <2>5. pair_pc' \notin {"init", "done"}
    BY <1>3, Zenon
  <2> QED
    BY <1>1, <1>2, <2>2, <2>3, <2>4, <2>5, Zenon DEF PairInv
<1>4. CASE fds' = [fds EXCEPT ![recv_fd] = Closed, ![send_fd] = Closed] /\ pair_pc' = "done"
  <2>1. Closed \in Descriptors
    BY Zenon DEF Descriptors
  <2>2. /\ fds' \in [Fds -> Descriptors] /\ fds'[recv_fd] = Closed /\ fds'[send_fd] = Closed
        /\ \A fd \in Fds : fd # recv_fd /\ fd # send_fd => fds'[fd] = fds[fd]
    BY <1>2, <1>4, <2>1, Zenon
  <2>3. PairTypeOK'
    BY <1>1, <1>4, <2>2, Zenon DEF PairInv, PairTypeOK, Descriptors
  <2>4. FilesAreKept'
    BY <1>1, <1>2, <2>2, Zenon DEF PairInv, FilesAreKept
  <2>5. \A fd \in Fds : Ours(fds'[fd]) => fd \in {RecvFd, SendFd}
    BY <1>2, <2>2, KindsApart, Zenon
  <2> QED
    BY <1>1, <1>4, <2>3, <2>4, <2>5, Zenon DEF PairInv
<1> QED
  BY <1>3, <1>4, Zenon DEF Dup

(* The temporary descriptors are closed. *)
LEMMA CloseTemporaryKeeps ==
  ASSUME PairInv, CloseTemporary
  PROVE  PairInv'
<1>1. /\ limit' = limit /\ before' = before /\ READY' = TRUE /\ execs' = execs /\ Fds' = Fds
      /\ recv_fd' = recv_fd /\ send_fd' = send_fd /\ pair_pc = "close" /\ pair_pc' = "done"
      /\ fds' = [fd \in Fds |-> IF fd \in Temporary THEN Closed ELSE fds[fd]]
  BY Zenon DEF CloseTemporary, Fds
<1>2. /\ fds \in [Fds -> Descriptors]
      /\ \A fd \in Fds : Ours(fds[fd]) => fd \in {RecvFd, SendFd, recv_fd, send_fd}
      /\ \A fd \in Fds : fd \in {RecvFd, SendFd, recv_fd, send_fd} => before[fd] # File
  BY <1>1, Zenon DEF PairInv, PairTypeOK, Descriptors
<1>3. /\ \A fd \in Fds : fd \in Temporary => fds'[fd] = Closed
      /\ \A fd \in Fds : fd \notin Temporary => fds'[fd] = fds[fd]
  BY <1>1, Zenon
<1>4. fds' \in [Fds -> Descriptors]
  <2>1. Closed \in Descriptors
    BY Zenon DEF Descriptors
  <2> QED
    BY <1>1, <1>2, <2>1, Zenon
<1>5. PairTypeOK'
  BY <1>1, <1>4, Zenon DEF PairInv, PairTypeOK, Descriptors
<1>6. \A fd \in Fds : fd \in Temporary => before[fd] # File
  BY <1>2, Zenon DEF Temporary
<1>7. FilesAreKept'
  BY <1>1, <1>3, <1>6, Zenon DEF PairInv, FilesAreKept
<1>8. ASSUME NEW fd \in Fds, Ours(fds'[fd]) PROVE fd \in {RecvFd, SendFd}
  <2>1. fd \notin Temporary
    BY <1>3, <1>8, KindsApart, Zenon
  <2>2. fd \in {RecvFd, SendFd, recv_fd, send_fd}
    BY <1>2, <1>3, <1>8, <2>1, Zenon
  <2> QED
    BY <2>1, <2>2, Zenon DEF Temporary
<1> QED
  BY <1>1, <1>5, <1>7, <1>8, Zenon DEF PairInv

(* The program opens a file or a socket of its own. *)
LEMMA ProgramOpensKeeps ==
  ASSUME PairInv, ProgramOpens
  PROVE  PairInv'
<1>1. /\ limit' = limit /\ READY' = READY /\ execs' = execs /\ Fds' = Fds
      /\ recv_fd' = recv_fd /\ send_fd' = send_fd /\ pair_pc = "done" /\ pair_pc' = "done" /\ Free # {}
  BY Zenon DEF ProgramOpens, Fds
<1> DEFINE a == Min(Free)
<1>2. a \in Fds
  BY <1>1, FreeInside, MinInside, Zenon DEF PairInv
<1>3. PICK d \in Inherited : fds' = [fds EXCEPT ![a] = d] /\ before' = [before EXCEPT ![a] = fds'[a]]
  BY Zenon DEF ProgramOpens
<1> HIDE DEF a
<1>4. d \in {Closed, File, Socket} /\ d \in Descriptors
  BY SocketPairAssumption, Zenon DEF Descriptors
<1>5. fds \in [Fds -> Descriptors] /\ DOMAIN before = Fds
  BY Zenon DEF PairInv, PairTypeOK, Descriptors
<1>6. fds' \in [Fds -> Descriptors] /\ fds'[a] = d /\ \A fd \in Fds : fd # a => fds'[fd] = fds[fd]
  BY <1>2, <1>3, <1>4, <1>5, Zenon
<1>7. DOMAIN before' = Fds /\ before'[a] = fds'[a] /\ \A fd \in Fds : fd # a => before'[fd] = before[fd]
  BY <1>2, <1>3, <1>5, Zenon
<1>8. PairTypeOK'
  BY <1>1, <1>6, <1>7, Zenon DEF PairInv, PairTypeOK, Descriptors
<1>9. FilesAreKept'
  BY <1>1, <1>6, <1>7, Zenon DEF PairInv, FilesAreKept
<1>10. \A fd \in Fds : Ours(fds'[fd]) => fd \in {RecvFd, SendFd}
  BY <1>1, <1>4, <1>6, KindsApart, Zenon DEF PairInv
<1> QED
  BY <1>1, <1>8, <1>9, <1>10, Zenon DEF PairInv

(* A new process image starts with the table as it is. *)
LEMMA ExecKeeps ==
  ASSUME PairInv, Exec
  PROVE  PairInv'
<1>1. /\ limit' = limit /\ fds' = fds /\ before' = fds /\ READY' = FALSE /\ Fds' = Fds
      /\ recv_fd' = recv_fd /\ send_fd' = send_fd /\ pair_pc = "done" /\ pair_pc' = "init"
      /\ execs' = execs + 1 /\ execs < MaxExecs /\ execs \in 1..MaxExecs /\ fds \in [Fds -> Descriptors]
  BY Zenon DEF Exec, Fds, PairInv, PairTypeOK, Descriptors
<1>2. execs' \in 1..MaxExecs
  <2>1. MaxExecs \in Nat \ {0}
    BY SocketPairAssumption, Zenon
  <2> QED
    BY <1>1, <2>1, SMT
<1>3. DOMAIN before' = Fds'
  BY <1>1, Zenon
<1>4. PairTypeOK'
  BY <1>1, <1>2, <1>3, Zenon DEF PairInv, PairTypeOK
<1>5. FilesAreKept'
  BY <1>1, Zenon DEF FilesAreKept
<1> QED
  BY <1>1, <1>4, <1>5, Zenon DEF PairInv

(* Every step of the chain of processes keeps the invariant. *)
LEMMA PairStep == PairInv /\ [PairNext]_pairVars => PairInv'
<1> SUFFICES ASSUME PairInv, [PairNext]_pairVars PROVE PairInv'
  BY Zenon
<1>1. CASE Reuse \/ LeaveAlone
  BY <1>1, QuietPairStep, Zenon
<1>2. CASE CreatePair
  BY <1>2, CreatePairKeeps, Zenon
<1>3. CASE DupRecv
  <2>1. Dup(recv_fd, RecvFd, "dup_recv", "dup_send")
    BY <1>3, Zenon DEF DupRecv
  <2> QED
    BY <2>1, DupKeeps, Zenon
<1>4. CASE DupSend
  <2>1. Dup(send_fd, SendFd, "dup_send", "close")
    BY <1>4, Zenon DEF DupSend
  <2> QED
    BY <2>1, DupKeeps, Zenon
<1>5. CASE CloseTemporary
  BY <1>5, CloseTemporaryKeeps, Zenon
<1>6. CASE ProgramOpens
  BY <1>6, ProgramOpensKeeps, Zenon
<1>7. CASE Exec
  BY <1>7, ExecKeeps, Zenon
<1>8. CASE UNCHANGED pairVars
  <2>1. /\ limit' = limit /\ fds' = fds /\ before' = before /\ READY' = READY /\ pair_pc' = pair_pc
        /\ recv_fd' = recv_fd /\ send_fd' = send_fd /\ execs' = execs /\ Fds' = Fds
    BY <1>8, Zenon DEF pairVars, Fds
  <2>2. PairTypeOK' /\ FilesAreKept'
    BY <2>1, Zenon DEF PairInv, PairTypeOK, FilesAreKept
  <2> QED
    BY <2>1, <2>2, Zenon DEF PairInv
<1> QED
  BY <1>1, <1>2, <1>3, <1>4, <1>5, <1>6, <1>7, <1>8, Zenon DEF PairNext

(* For every descriptor table, limit and pair of fixed numbers, and through any  *)
(* number of execs: init_socketpair closes no file, and leaves no socket of a    *)
(* pair on a number that the runtime does not know of.                            *)
THEOREM DescriptorsStay == PairSpec => []DescriptorsAreKept
<1>1. PairInv => DescriptorsAreKept
  BY Zenon DEF PairInv, DescriptorsAreKept, NoStrayDescriptors
<1> QED
  BY PairInitInv, PairStep, <1>1, PTL DEF PairSpec
=============================================================================
