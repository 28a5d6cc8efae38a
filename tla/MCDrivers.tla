----------------------------- MODULE MCDrivers -----------------------------
(***************************************************************************)
(* The drivers that are modelled from loading to unloading, checked in one *)
(* run: the first state chooses which of them moves.                       *)
(***************************************************************************)
EXTENDS ComCap, KbdFilter, WdmPnp, Ramdisk, NtDriver, Passthrough
LOCAL INSTANCE Integers

VARIABLE unit    \* the component that moves

\* Registry parameters: the default (16384 sectors of 512 bytes, 512 entries,
\* 2 sectors to a cluster) and sizes around each point where the layout changes.
RegistryValues ==
  LET Sectors == (64 .. 192) \cup (2030 .. 2060) \cup (4100 .. 4230) \cup (8180 .. 8300)
                   \cup {16384, 32768, 50000, 65535}
      all == [size : {k * 512 : k \in Sectors}, root : {16, 17, 500, 512}, spc : {1, 2, 4}]
  IN  {p \in all : p.size > 49999 * 512 => p.spc > 1}

DriversInit ==
  /\ unit \in {"ComCap", "KbdFilter", "WdmPnp", "Ramdisk", "NtDriver", "Passthrough"}
  /\ ComInit /\ KbdInit /\ WdmInit /\ RamInit /\ NtInit /\ PtInit

DriversNext ==
  /\ UNCHANGED unit
  /\ \/ /\ unit = "ComCap" /\ ComNext
        /\ UNCHANGED <<kbdVars, wdmVars, ramVars, ntVars, ptVars>>
     \/ /\ unit = "KbdFilter" /\ KbdNext
        /\ UNCHANGED <<comVars, wdmVars, ramVars, ntVars, ptVars>>
     \/ /\ unit = "WdmPnp" /\ WdmNext
        /\ UNCHANGED <<comVars, kbdVars, ramVars, ntVars, ptVars>>
     \/ /\ unit = "Ramdisk" /\ RamNext
        /\ UNCHANGED <<comVars, kbdVars, wdmVars, ntVars, ptVars>>
     \/ /\ unit = "NtDriver" /\ NtNext
        /\ UNCHANGED <<comVars, kbdVars, wdmVars, ramVars, ptVars>>
     \/ /\ unit = "Passthrough" /\ PtNext
        /\ UNCHANGED <<comVars, kbdVars, wdmVars, ramVars, ntVars>>

DriversSpec ==
  DriversInit /\ [][DriversNext]_<<unit, comVars, kbdVars, wdmVars, ramVars, ntVars, ptVars>>

-----------------------------------------------------------------------------
\* The COM filter passes everything on unchanged and is not used after it is
\* unloaded.
ComCapFilters == ComCapTransparent /\ ComCapUnloadSafe
=============================================================================
