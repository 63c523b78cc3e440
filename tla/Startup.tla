------------------------------ MODULE Startup -------------------------------
(***************************************************************************)
(* What every process of a prefix does before its main: the constructors of   *)
(* gamescope.rs and environment.rs with the registry file of registry.rs, and *)
(* the setenv and unsetenv that gamescope.rs interposes.  Processes start     *)
(* each other with the environment they have, run at the same time and may    *)
(* die at any step; all share system.reg.                                      *)
(***************************************************************************)
EXTENDS Integers, Sequences, Functions, FiniteSets

CONSTANTS
  Procs, First,       \* processes, and the one the session starts with
  OverrideNames,      \* OVERRIDES, a sequence
  Sessions,           \* what a behaviour starts with, records of
                      \*   argv: every process's arguments, each the set of its kinds
                      \*   overrides: WINEDLLOVERRIDES, a sequence of entries
                      \*   desktop: the desktop variables name gamescope
                      \*   above: how many processes above the first gamescope is
                      \*   registry: system.reg and its profile sections
                      \*   scarce: memory and disk space can run out
                      \*   setenvs: bound on changes of LD_PRELOAD
  UserPreloads,       \* what LD_PRELOAD may be set to: sequences of paths
  Self,               \* SELF_PATH
  AncestryLimit       \* ANCESTRY_LIMIT

IsList(x) == x \in Seq(Range(x))

ASSUME StartupAssumption ==
  /\ First \in Procs /\ "free" \notin Procs /\ AncestryLimit \in Nat
  /\ IsList(OverrideNames) /\ OverrideNames # <<>>
  /\ \A s \in Sessions :
       /\ IsList(s.overrides)
       /\ \A i, j \in DOMAIN s.overrides : s.overrides[i].dll = s.overrides[j].dll => i = j
       /\ s.registry \in [kind : {"missing", "foreign", "wine"}, sections : Seq({"guid", "profile", "value"})]
       /\ s.registry.kind # "wine" => s.registry.sections = <<>>
       /\ \A i, j \in DOMAIN s.registry.sections :
            s.registry.sections[i] = "guid" /\ s.registry.sections[j] = "guid" => i = j
  /\ \A list \in UserPreloads :
       IsList(list) /\ \A i, j \in DOMAIN list : list[i] = Self /\ list[j] = Self => i = j

Unset == <<"">>       \* LD_PRELOAD is not in the environment

VARIABLES
  spc,                \* what each process executes; "none" before it starts
  argv,
  done, dlls, preload,      \* LINUWUX_HWPROFILE, WINEDLLOVERRIDES, LD_PRELOAD
  desktop, distance,  \* the desktop variables name gamescope; ancestors up to it
  enabled, game,      \* ENABLED, GAME_PROCESS
  next,               \* index into OVERRIDES of the loop that adds them
  registry,           \* external: system.reg and its profile sections
  flock,              \* external: who holds the lock on it
  scarce,             \* memory and disk space can run out in this behaviour
  setenvs

environ == <<done, dlls, preload, desktop, distance>>
disk == <<registry, flock>>
startupVars == <<spc, argv, environ, enabled, game, next, disk, scarce, setenvs>>

StartupInit ==
  /\ spc = [p \in Procs |-> IF p = First THEN "gamescope" ELSE "none"]
  /\ done = [p \in Procs |-> FALSE]
  /\ preload = [p \in Procs |-> <<Self>>]
  /\ enabled = [p \in Procs |-> FALSE] /\ game = [p \in Procs |-> FALSE]
  /\ next = [p \in Procs |-> 1]
  /\ flock = "free"
  /\ \E s \in Sessions :
       /\ argv = s.argv /\ dlls = [p \in Procs |-> s.overrides] /\ desktop = s.desktop
       /\ distance = [p \in Procs |-> s.above]
       /\ registry = s.registry /\ scarce = s.scarce /\ setenvs = s.setenvs

SGo(p, label) == spc' = [spc EXCEPT ![p] = label]

-----------------------------------------------------------------------------
(* linuwux_setup_gamescope: the walk looks at AncestryLimit processes, this     *)
(* one first.                                                                   *)
gamescope_detected(p) == desktop \/ distance[p] < AncestryLimit

SetupGamescope(p) ==
  /\ spc[p] = "gamescope"
  /\ \/ enabled' = [enabled EXCEPT ![p] = gamescope_detected(p)]
     \/ scarce /\ UNCHANGED enabled   \* resolve_self_path fails
  /\ SGo(p, "registry")
  /\ UNCHANGED <<argv, environ, game, next, disk, scarce, setenvs>>

-----------------------------------------------------------------------------
(* init_registry *)

OpenRegistry(p) ==
  /\ spc[p] = "registry"
  /\ \/ (done[p] \/ registry.kind = "missing" \/ scarce) /\ SGo(p, "classify")
     \/ ~done[p] /\ registry.kind # "missing" /\ SGo(p, "flock")
  /\ UNCHANGED <<argv, environ, enabled, game, next, disk, scarce, setenvs>>

LockRegistry(p) ==
  /\ spc[p] = "flock" /\ flock = "free" /\ flock' = p
  /\ SGo(p, "check")
  /\ UNCHANGED <<argv, environ, enabled, game, next, registry, scarce, setenvs>>

(* Sections: "guid" is the profile's with its value, "profile" the profile's    *)
(* without, "value" another one that has a HwProfileGuid.  The value is looked   *)
(* for anywhere behind the profile's name.                                       *)
registry_already_present ==
  \E i, j \in DOMAIN registry.sections :
    /\ i <= j /\ registry.sections[i] \in {"profile", "guid"}
    /\ registry.sections[j] \in (IF i = j THEN {"guid"} ELSE {"guid", "value"})

(* The header, then the sections, then the seek to the end. *)
CheckRegistry(p) ==
  /\ spc[p] = "check"
  /\ \/ /\ registry.kind # "wine" \/ (scarce /\ ~registry_already_present)   \* the seek fails
        /\ flock' = "free" /\ SGo(p, "classify") /\ UNCHANGED done
     \/ /\ registry.kind = "wine" /\ registry_already_present /\ flock' = "free"
        /\ done' = [done EXCEPT ![p] = TRUE] /\ SGo(p, "classify")
     \/ /\ registry.kind = "wine" /\ ~registry_already_present
        /\ SGo(p, "flush") /\ UNCHANGED <<done, flock>>
  /\ UNCHANGED <<argv, dlls, preload, desktop, distance, enabled, game, next, registry, scarce, setenvs>>

(* Mutant: the section is appended without the lock. *)
FlushUnlocked(p) ==
  /\ spc[p] = "flush"
  /\ IF flock = p THEN flock' = "free" /\ UNCHANGED <<registry, spc>>
     ELSE /\ registry' = [registry EXCEPT !.sections = Append(@, "guid")]
          /\ SGo(p, "unlock") /\ UNCHANGED flock
  /\ UNCHANGED <<argv, environ, enabled, game, next, scarce, setenvs>>

(* fwrite fills the stream's buffer, so its count says nothing of the disk;     *)
(* fflush writes the section, or, on a full disk, nothing or a first part of    *)
(* it.  A disk that is full stays so up to the fclose.                           *)
FlushRegistry(p) ==
  /\ spc[p] = "flush"
  /\ \/ registry' = [registry EXCEPT !.sections = Append(@, "guid")]
     \/ scarce /\ UNCHANGED registry
     \/ scarce /\ registry' = [registry EXCEPT !.sections = Append(@, "profile")]
  /\ SGo(p, "unlock")
  /\ UNCHANGED <<argv, environ, enabled, game, next, flock, scarce, setenvs>>

UnlockRegistry(p) ==
  /\ spc[p] = "unlock" /\ flock' = "free"
  /\ SGo(p, "mark")
  /\ UNCHANGED <<argv, environ, enabled, game, next, registry, scarce, setenvs>>

MarkDone(p) ==
  /\ spc[p] = "mark"
  /\ done' = [done EXCEPT ![p] = TRUE] /\ SGo(p, "classify")
  /\ UNCHANGED <<argv, dlls, preload, desktop, distance, enabled, game, next, disk, scarce, setenvs>>

-----------------------------------------------------------------------------
(* game_executable_argument and the rest of linuwux_setup_environment *)

game_executable_argument(args) ==
  LET Exe(i) == "exe" \in args[i]
      Drive(i) == Exe(i) /\ "drive" \in args[i]
      Helper(i) == Exe(i) /\ "helper" \in args[i]
  IN IF "loader" \in args[1]
     THEN /\ \E i \in 2..Len(args) : Drive(i)
          /\ \A i \in 2..Len(args) : Drive(i) => ~Helper(i)
     ELSE \/ \E i \in 1..Len(args) : Drive(i) /\ ~Helper(i)
          \/ /\ \E i \in 1..Len(args) : Exe(i) /\ "unix" \in args[i] /\ ~Helper(i)
             /\ \A i \in 1..Len(args) : ~Helper(i)

already_present(entries, dll) == \E i \in DOMAIN entries : entries[i].dll = dll

add_override(entries, dll) ==
  IF already_present(entries, dll) THEN entries ELSE Append(entries, [dll |-> dll, order |-> "n,b"])

SetupEnvironment(p) ==
  /\ spc[p] = "classify"
  /\ game' = [game EXCEPT ![p] = game_executable_argument(argv[p])]
  /\ SGo(p, IF game'[p] THEN "overrides" ELSE "running")
  /\ UNCHANGED <<argv, environ, enabled, next, disk, scarce, setenvs>>

(* Every override is added, except those for which memory ran out. *)
NextOverride(p) ==
  /\ spc[p] = "overrides"
  /\ \/ dlls' = [dlls EXCEPT ![p] = add_override(@, OverrideNames[next[p]])]
     \/ scarce /\ UNCHANGED dlls
  /\ next' = [next EXCEPT ![p] = @ + 1]
  /\ SGo(p, IF next[p] < Len(OverrideNames) THEN "overrides" ELSE "running")
  /\ UNCHANGED <<argv, done, preload, desktop, distance, enabled, game, disk, scarce, setenvs>>

-----------------------------------------------------------------------------
(* setenv and unsetenv of LD_PRELOAD *)

preload_has_path(list) == Self \in Range(list)

SetPreload(p, value, overwrite) ==
  /\ spc[p] = "running" /\ setenvs > 0 /\ setenvs' = setenvs - 1
  /\ \/ preload' = [preload EXCEPT ![p] =
          IF ~overwrite /\ @ # Unset THEN @
          ELSE IF enabled[p] /\ ~preload_has_path(value) THEN Append(value, Self) ELSE value]
     \/ scarce /\ UNCHANGED preload
  /\ UNCHANGED <<spc, argv, done, dlls, desktop, distance, enabled, game, next, disk, scarce>>

UnsetPreload(p) ==
  /\ spc[p] = "running" /\ setenvs > 0 /\ setenvs' = setenvs - 1
  /\ \/ preload' = [preload EXCEPT ![p] = IF enabled[p] THEN <<Self>> ELSE Unset]
     \/ scarce /\ enabled[p] /\ UNCHANGED preload
  /\ UNCHANGED <<spc, argv, done, dlls, desktop, distance, enabled, game, next, disk, scarce>>

-----------------------------------------------------------------------------
(* fork and exec with this environment; without the runtime in LD_PRELOAD the   *)
(* child runs none of this.                                                     *)
SpawnProcess(p, q) ==
  /\ spc[p] = "running" /\ spc[q] = "none" /\ preload_has_path(preload[p])
  /\ SGo(q, "gamescope")
  /\ done' = [done EXCEPT ![q] = done[p]] /\ dlls' = [dlls EXCEPT ![q] = dlls[p]]
  /\ preload' = [preload EXCEPT ![q] = preload[p]]
  /\ distance' = [distance EXCEPT ![q] = distance[p] + 1]
  /\ UNCHANGED <<argv, desktop, enabled, game, next, disk, scarce, setenvs>>

Die(p) ==
  /\ spc[p] \notin {"none", "dead"} /\ SGo(p, "dead")
  /\ flock' = IF flock = p THEN "free" ELSE flock
  /\ UNCHANGED <<argv, environ, enabled, game, next, registry, scarce, setenvs>>

StartupStep(p) ==
  \/ SetupGamescope(p) \/ OpenRegistry(p) \/ LockRegistry(p) \/ CheckRegistry(p) \/ FlushRegistry(p)
  \/ UnlockRegistry(p) \/ MarkDone(p) \/ SetupEnvironment(p) \/ NextOverride(p)

StartupNext ==
  \E p \in Procs :
    \/ StartupStep(p) \/ Die(p) \/ UnsetPreload(p)
    \/ \E value \in UserPreloads, overwrite \in BOOLEAN : SetPreload(p, value, overwrite)
    \/ \E q \in Procs : SpawnProcess(p, q)

StartupSpec == StartupInit /\ [][StartupNext]_startupVars

-----------------------------------------------------------------------------
(* Properties *)

(* system.reg gets the profile section once, however many processes start at    *)
(* the same time, die while writing it or find the disk full; a process that     *)
(* says so in LINUWUX_HWPROFILE found it or wrote it; and the lock is held by    *)
(* live processes inside init_registry alone, so that no start waits for ever.   *)
GuidIsWrittenOnce ==
  /\ Cardinality({i \in DOMAIN registry.sections : registry.sections[i] = "guid"}) <= 1
  /\ registry.kind # "wine" => registry.sections = <<>>
  /\ \A p \in Procs : done[p] /\ ~scarce => registry_already_present
  /\ \A p \in Procs : flock = p <=> spc[p] \in {"check", "flush", "unlock"}

BeginsWith(list, first) == \A i \in DOMAIN first : i \in DOMAIN list /\ list[i] = first[i]

(* Through any chain of processes the player's own overrides stay first and as  *)
(* they were, no DLL is overridden twice, and in a gamescope session LD_PRELOAD *)
(* never loses the runtime nor names it twice.                                  *)
EnvironmentIsKept ==
  \A p \in Procs :
    /\ \A i, j \in DOMAIN dlls[p] : dlls[p][i].dll = dlls[p][j].dll => i = j
    /\ \E s \in Sessions : BeginsWith(dlls[p], s.overrides)
    /\ spc[p] = "running" /\ game[p] /\ ~scarce => \A i \in DOMAIN OverrideNames : already_present(dlls[p], OverrideNames[i])
    /\ enabled[p] => preload_has_path(preload[p])
    /\ Cardinality({i \in DOMAIN preload[p] : preload[p][i] = Self}) <= 1

(* What a start finds in the prefix and in the environment it keeps: the       *)
(* registry section is written once, and overrides and preloads are only added *)
(* to, whichever processes start, race and die.                                *)
StartupKeepsWhatItFinds == GuidIsWrittenOnce /\ EnvironmentIsKept
=============================================================================
