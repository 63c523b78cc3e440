------------------------------ MODULE PeExport ------------------------------
(***************************************************************************)
(* module_base and export_service of syscall/pe_export.rs: find a module in   *)
(* the loader's list, then its service number by binary search over the       *)
(* export names.  Names are integers in their byte order.  Any read of the    *)
(* process's memory may fail and ends the search without an answer.           *)
(***************************************************************************)
EXTENDS Integers

CONSTANTS
  ModuleLimit, ExportLimit,   \* MODULE_LIMIT, EXPORT_LIMIT
  MaxList,                    \* bound on the loader list
  ExportNames,                \* integers that stand for names
  Services                    \* numbers an export's stub can load

ASSUME PeExportAssumption == ModuleLimit \in Nat /\ ExportLimit \in Nat /\ ExportNames \subseteq Int

NoService == 0   \* an export that is no syscall stub, or no answer

VARIABLES
  position,          \* external: where the module is in the loader list, or 0
  name_count, names,      \* external: NumberOfNames and the sorted export names
  loads,              \* external: what an export's stub loads
  wanted,            \* the export asked for
  xpc, walked, low, high, service

exportVars == <<position, name_count, names, loads, wanted, xpc, walked, low, high, service>>
exportImage == <<position, name_count, names, loads, wanted>>

Sorted(f, n) == \A i, j \in 0..(n - 1) : i < j => f[i] < f[j]

ExportInit ==
  /\ position \in 0..MaxList
  /\ name_count \in 0..(ExportLimit + 1)
  /\ names \in [0..(name_count - 1) -> ExportNames] /\ Sorted(names, name_count)
  /\ loads \in [0..(name_count - 1) -> Services \cup {NoService}]
  /\ wanted \in ExportNames
  /\ xpc = "walk" /\ walked = 0 /\ low = 0 /\ high = 0 /\ service = NoService

(* base_from_peb: one entry of the list after the other. *)
WalkModules ==
  /\ xpc = "walk"
  /\ \/ /\ walked < ModuleLimit /\ walked < MaxList /\ position # walked + 1
        /\ walked' = walked + 1 /\ UNCHANGED xpc
     \/ /\ walked < ModuleLimit /\ walked < MaxList /\ position = walked + 1
        /\ xpc' = "headers" /\ UNCHANGED walked
     \/ /\ walked = ModuleLimit \/ walked = MaxList   \* the limit, or back at the head
        /\ xpc' = "absent" /\ UNCHANGED walked
  /\ UNCHANGED <<exportImage, low, high, service>>

(* The headers and the export directory's counts. *)
ReadHeaders ==
  /\ xpc = "headers"
  /\ IF name_count = 0 \/ name_count > ExportLimit
     THEN xpc' = "absent" /\ UNCHANGED high
     ELSE xpc' = "search" /\ high' = name_count
  /\ UNCHANGED <<exportImage, walked, low, service>>

Mid == low + (high - low) \div 2

(* Mutant: the upper bound skips the entry below the middle. *)
SearchStepLow ==
  /\ xpc = "search" /\ low < high
  /\ \/ names[Mid] < wanted /\ low' = Mid + 1 /\ UNCHANGED <<high, xpc, service>>
     \/ names[Mid] > wanted /\ high' = Mid - 1 /\ UNCHANGED <<low, xpc, service>>
     \/ names[Mid] = wanted /\ service' = loads[Mid] /\ xpc' = "found" /\ UNCHANGED <<low, high>>
  /\ UNCHANGED <<exportImage, walked>>

SearchStep ==
  /\ xpc = "search" /\ low < high
  /\ \/ names[Mid] < wanted /\ low' = Mid + 1 /\ UNCHANGED <<high, xpc, service>>
     \/ names[Mid] > wanted /\ high' = Mid /\ UNCHANGED <<low, xpc, service>>
     \/ names[Mid] = wanted /\ service' = loads[Mid] /\ xpc' = "found" /\ UNCHANGED <<low, high>>
  /\ UNCHANGED <<exportImage, walked>>

SearchEnds ==
  /\ xpc = "search" /\ low >= high
  /\ xpc' = "missing"
  /\ UNCHANGED <<exportImage, walked, low, high, service>>

ReadFails ==
  /\ xpc \in {"walk", "headers", "search"}
  /\ xpc' = "unreadable"
  /\ UNCHANGED <<exportImage, walked, low, high, service>>

ExportNext == WalkModules \/ ReadHeaders \/ SearchStep \/ SearchEnds \/ ReadFails

ExportSpec == ExportInit /\ [][ExportNext]_exportVars

-----------------------------------------------------------------------------
(* The search reads inside the name table only; it answers with the service of *)
(* the export that was asked for, and says "missing" only if no export has the *)
(* name, for every sorted table.                                               *)
SearchIsRight ==
  /\ xpc = "search" /\ low < high => Mid \in 0..(name_count - 1)
  /\ xpc = "found" => \E i \in 0..(name_count - 1) : names[i] = wanted /\ service = loads[i]
  /\ xpc = "missing" => \A i \in 0..(name_count - 1) : names[i] # wanted
  /\ xpc # "found" => service = NoService
=============================================================================
