---------------------------- MODULE MCCpuidTrap -----------------------------
(* Small instances of CpuidTrap: three adjacent mappings, and programs. *)
EXTENDS CpuidTrap

SmallMappings ==
  { [start |-> 1, end |-> 2, path |-> "Artifact", image |-> "Artifact"],
    [start |-> 2, end |-> 3, path |-> "Ordinary", image |-> "Reflex64"],
    [start |-> 3, end |-> 4, path |-> "Ordinary", image |-> "Ordinary"] }

T(leaf, rip) == [leaf |-> leaf, rip |-> rip]
Host(vendor, avx) == [vendor |-> vendor, avx |-> avx]
B(traps, configs, mappings, ticks, forks, failures) ==
  [traps |-> traps, configs |-> configs, mappings |-> mappings, ticks |-> ticks,
   forks |-> forks, failures |-> failures]

(* Callers of every kind; presentation against configuration; the artifact     *)
(* profile while files are mapped and time passes; native leaves.              *)
SmallWorkloads ==
  { [traps |-> {T("hypervisor", 1), T("hypervisor", 2), T("hypervisor", 4), T("arm", 3)},
     detected |-> Host("Unknown", FALSE), hosts |-> {}, forced |-> FALSE, cores |-> {1},
     calls |-> {}, bounds |-> B(3, 0, 0, 0, 0, 1)],
    [traps |-> {T("brand", 2), T("brand", 1)},
     detected |-> Host("Unknown", FALSE), hosts |-> {Host("Amd", TRUE)}, forced |-> FALSE, cores |-> {1},
     calls |-> {}, bounds |-> B(2, 2, 0, 0, 0, 0)],
    [traps |-> {T("hypervisor", WineRip)},
     detected |-> Host("Amd", FALSE), hosts |-> {Host("Intel", TRUE), Host("Amd", FALSE)},
     forced |-> TRUE, cores |-> {1},
     calls |-> {}, bounds |-> B(1, 3, 0, 0, 0, 0)],
    [traps |-> {T("brand", 4)},
     detected |-> Host("Intel", FALSE), hosts |-> {}, forced |-> FALSE, cores |-> {1},
     calls |-> {}, bounds |-> B(2, 0, 2, 1, 0, 0)],
    [traps |-> {T("brand", 4)},
     detected |-> Host("Intel", FALSE), hosts |-> {}, forced |-> FALSE, cores |-> {1},
     calls |-> {"brand"}, bounds |-> B(2, 0, 1, 1, 0, 1)],
    [traps |-> {T("plain", 3), T("one", WineRip), T("topology", 3)},
     detected |-> Host("Amd", TRUE), hosts |-> {}, forced |-> FALSE, cores |-> {1},
     calls |-> {}, bounds |-> B(4, 0, 0, 0, 1, 1)],
    [traps |-> {T("plain", 3), T("topology", 3)},
     detected |-> Host("Amd", TRUE), hosts |-> {}, forced |-> FALSE, cores |-> {1, 2},
     calls |-> {"plain"}, bounds |-> B(2, 0, 0, 0, 0, 0)] }
=============================================================================
