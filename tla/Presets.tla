-------------------------------- MODULE Presets --------------------------------
(* The topology preset catalog: which presets load, which one a node group    *)
(* matches, where the hardware deviates from it, when it is applied, and what *)
(* the validation report marks.  A PF is [pci, dev, ew, rail]; pci and dev    *)
(* are numbers.  A directory entry is [dir, topo, machine, gpu, pfs] in       *)
(* directory order; topo says what reading topology.yaml gives.               *)
EXTENDS Integers, Sequences, FiniteSets, SequencesExt, FiniteSetsExt

None == "none"

-----------------------------------------------------------------------------
(* The catalog.                                                               *)

\* Directories without a topology are not presets; unreadable and incomplete
\* ones are skipped with a reason.  ReadDir and the final sort agree on order.
loadAllPresets(entries) ==
    LET dirs  == SelectSeq(entries, LAMBDA e : e.dir /\ e.topo # "absent")
        Ok(e) == e.topo = "ok" /\ e.machine # "" /\ e.gpu # ""
    IN [valid   |-> SelectSeq(dirs, Ok),
        skipped |-> SelectSeq(dirs, LAMBDA e : ~Ok(e))]

\* The first of the presets that declare exactly this machine and GPU, if any.
LoadPreset(entries, machine, gpu) ==
    LET hits == SelectSeq(loadAllPresets(entries).valid,
                          LAMBDA e : e.machine = machine /\ e.gpu = gpu)
    IN SubSeq(hits, 1, IF hits = <<>> THEN 0 ELSE 1)

\* By directory: found, or why not.
LoadPresetByDir(entries, name) ==
    LET all == loadAllPresets(entries)
        Named(s) == SelectSeq(s, LAMBDA e : e.name = name)
    IN IF Named(all.valid) # <<>> THEN "found"
       ELSE IF Named(all.skipped) # <<>> THEN "rejected" ELSE "unknown"

\* An explicit root with presets/ is authoritative, without presets/ embedded;
\* no root: the first directory on disk, else embedded.
CatalogForConfigDir(root, presetsDir, onDisk) ==
    IF root THEN IF presetsDir THEN "root" ELSE "embedded"
    ELSE IF onDisk # <<>> THEN onDisk[1] ELSE "embedded"

-----------------------------------------------------------------------------
(* Comparison with the hardware.                                              *)

\* pciAddress -> deviceID; a later PF overwrites an earlier one.
AddressMap(pfs) ==
    [a \in {pfs[i].pci : i \in DOMAIN pfs} |->
       pfs[Max({i \in DOMAIN pfs : pfs[i].pci = a})].dev]

\* Deviations are [field, at]; -pci stands for an address only the hardware has.
ValidatePreset(preset, pfs) ==
    LET want == AddressMap(preset)
        have == AddressMap(pfs)
    IN (IF Len(preset) # Len(pfs) THEN {[field |-> "pfCount", at |-> 0]} ELSE {})
       \union {[field |-> "pciAddress", at |-> a]  : a \in DOMAIN want \ DOMAIN have}
       \union {[field |-> "pciAddress", at |-> -a] : a \in DOMAIN have \ DOMAIN want}
       \union {[field |-> "deviceID",   at |-> a]  :
                 a \in {x \in DOMAIN want \cap DOMAIN have : want[x] # have[x]}}

HasTopologyDeviation(deviations) ==
    \E d \in deviations : d.field \in {"pfCount", "pciAddress", "deviceID"}

\* All or nothing: the preset's traffic and rails replace the live ones only if
\* every PF of the group has its address in a preset of the same size.
ApplyPreset(preset, pfs) ==
    LET At(a)   == preset[Max({i \in DOMAIN preset : preset[i].pci = a})]
        applies == /\ Len(pfs) = Len(preset)
                   /\ \A i \in DOMAIN pfs : pfs[i].pci \in DOMAIN AddressMap(preset)
    IN [applied |-> applies,
        pfs |-> IF ~applies THEN pfs
                ELSE [i \in DOMAIN pfs |->
                        [pfs[i] EXCEPT !.ew   = At(pfs[i].pci).ew,
                                       !.rail = At(pfs[i].pci).rail]]]

\* A result is [status, deviations, preset].
MatchGroupWithCatalog(group, entries) ==
    LET Result(s, d, p) == [status |-> s, deviations |-> d, preset |-> p]
        p == LoadPreset(entries, group.machine, group.gpu)
    IN IF group.machine = "" \/ group.gpu = "" THEN Result("skipped", {}, <<>>)
       ELSE IF p = <<>> THEN Result("not-found", {}, <<>>)
       ELSE LET d == ValidatePreset(p[1].pfs, group.pfs)
            IN Result(IF d = {} THEN "match" ELSE "deviation", d, p[1].pfs)

MatchAllWithCatalog(groups, entries) ==
    [i \in DOMAIN groups |-> MatchGroupWithCatalog(groups[i], entries)]

hasPresetDeviation(results) ==
    \E i \in DOMAIN results : results[i].status = "deviation"

-----------------------------------------------------------------------------
(* The report's node group section.                                           *)

\* The deviations shown for a group: those of a fresh deviation, else the ones
\* the discovery stored.
shownDeviations(group, result) ==
    IF result.status = "deviation" THEN result.deviations ELSE group.stored

\* Which actual and expected rows are marked.  Without a fresh deviation the
\* stored one marks actual rows and there are no expected ones.
applyPlatformTopologyMarkers(group, result) ==
    LET shown == shownDeviations(group, result)
        want  == AddressMap(result.preset)
        have  == AddressMap(group.pfs)
        fresh == result.status = "deviation"
        Addresses(pfs) == {pfs[i].pci : i \in DOMAIN pfs}
    IN [actual   |-> IF fresh
                       THEN {a \in Addresses(group.pfs) :
                               a \notin DOMAIN want
                               \/ \E i \in DOMAIN group.pfs :
                                    group.pfs[i].pci = a /\ group.pfs[i].dev # want[a]}
                       ELSE {a \in Addresses(group.pfs) :
                               \E d \in shown : \/ d.field = "deviceID" /\ d.at = a
                                                \/ d.field = "pciAddress" /\ d.at = -a},
        expected |-> IF fresh
                       THEN {a \in Addresses(result.preset) :
                               a \notin DOMAIN have
                               \/ \E i \in DOMAIN result.preset :
                                    result.preset[i].pci = a /\ result.preset[i].dev # have[a]}
                       ELSE {},
        count    |-> \E d \in shown : d.field = "pfCount"]
=============================================================================
