----------------------------- MODULE DeviceTable -----------------------------
(***************************************************************************)
(* The Device Table Compiler, tools/wm/wmdt.py, one generate_<class> call *)
(* per step.  main builds wm_device_table (parsing the kconfig file),     *)
(* loads the description, runs generate_file, and runs save_cfile, which  *)
(* writes wm_dt_dev_name.h, wm_dt_hw.h and wm_dt_hw.c.  A fatal entry     *)
(* (sys.exit) or a crash ends the process before save_cfile: nothing is   *)
(* written.                                                               *)
(***************************************************************************)
EXTENDS DeviceClasses

CONSTANTS Descriptions, Files

VARIABLES
    desc,   \* self.config: the description's device list
    kfile,  \* the kconfig file given on the command line
    gate,   \* self.kconfig and self.chip_type
    g,      \* index in Gens of the next generate_<class> call
    tbl,    \* self.wm_dt_hw_table
    phase   \* "gen", then "written" by save_cfile, or "failed"

vars == <<desc, kfile, gate, g, tbl, phase>>

Row_ == [name : STRING, ops : STRING, level : {0, 1}, prio : Nat]

TypeOK ==
    /\ g \in 1..Len(Gens) + 1
    /\ tbl \in Seq(Row_)
    /\ phase \in {"gen", "written", "failed"}

(* wm_device_table.__init__ and load_config. *)
Init ==
    /\ desc \in Descriptions
    /\ kfile \in Files
    /\ gate = WmdtGate(kfile)
    /\ g = 1
    /\ tbl = <<>>
    /\ phase = "gen"

(* One generate_<class> call: behind its gate, the loop over self.config  *)
(* appends a row per emitted entry, and stops the process at the first    *)
(* fatal or crashing entry.                                               *)
GenerateClass ==
    LET cls   == Gens[g]
        items == IF Gated(cls, gate.features)
                 THEN SelectSeq(desc, LAMBDA e : Match(cls, e.name))
                 ELSE <<>>
        outs  == [k \in 1..Len(items) |-> Outcome(cls, items[k], gate)]
        stop  == SelectInSeq(outs, LAMBDA o : o \in {"fatal", "crash"})
        done  == IF stop = 0 THEN items ELSE SubSeq(items, 1, stop - 1)
        emits == SelectSeq(done, LAMBDA e : Outcome(cls, e, gate) = "emit")
    IN  /\ phase = "gen"
        /\ g <= Len(Gens)
        /\ tbl' = tbl \o [k \in 1..Len(emits) |-> Row(cls, emits[k])]
        /\ g' = g + 1
        /\ phase' = IF stop = 0 THEN "gen" ELSE "failed"
        /\ UNCHANGED <<desc, kfile, gate>>

(* save_cfile: max() over the names of an empty table raises ValueError   *)
(* before any file is opened; otherwise the three files are written.      *)
save_cfile ==
    /\ phase = "gen"
    /\ g = Len(Gens) + 1
    /\ phase' = IF Len(tbl) = 0 THEN "failed" ELSE "written"
    /\ UNCHANGED <<desc, kfile, gate, g, tbl>>

Next == GenerateClass \/ save_cfile

Spec == Init /\ [][Next]_vars

----------------------------------------------------------------------------
(* Properties the specification of the compiler states.                  *)

(* Class i processes entry e: its gate is open, it matches e, and e is not *)
(* skipped.                                                                *)
ProcessedBy(i, e) ==
    /\ Gated(Gens[i], gate.features)
    /\ Match(Gens[i], e.name)
    /\ Outcome(Gens[i], e, gate) # "skip"

(* A value class i cannot translate: the init level, or an enumerated     *)
(* field of a class that has one.                                          *)
Untranslatable(i, e) == e.level \notin ValidLevels \/ (Gens[i].enum # "none" /\ ~e.ok)

(* The Feature Gate as specified: a missing file disables every feature. *)
SpecFeatures == IF kfile = NoFile THEN {} ELSE gate.features

(* The features a row depends on: its class's gate, the sdmmc or sdspi    *)
(* feature of an SD host, and the PMU driver feature for pmu.             *)
RowFeatures(row) ==
    LET i == CHOOSE j \in 1..Len(Gens) : Match(Gens[j], row.name)
    IN  Gens[i].needAll
        \cup (IF Gens[i].match = "sdh" THEN {row.name} ELSE {})
        \cup (IF Gens[i].base = "pmu" THEN {"pmu"} ELSE {})

(* Ordering: save_cfile writes the master table in ascending (init_level, *)
(* priority) order, system-level devices first, whatever the order of the *)
(* description and of generate_file.                                      *)
InitOrder ==
    phase = "written" =>
        \A i, j \in 1..Len(tbl) :
            i < j => \/ tbl[i].level > tbl[j].level
                     \/ tbl[i].level = tbl[j].level /\ tbl[i].prio <= tbl[j].prio

(* Feature-gate exclusion: no row of the written master table belongs to  *)
(* a device whose feature the kconfig file leaves disabled.               *)
FeatureGateExclusion ==
    phase = "written" => \A k \in 1..Len(tbl) : RowFeatures(tbl[k]) \subseteq SpecFeatures

(* The compiler completes on a description whose processed entries all   *)
(* have valid values: only a fatal value makes generate_<class> stop the  *)
(* run, and an empty table is a valid output.                             *)
CompletesOnValidInput ==
    phase = "failed" =>
        \E k \in 1..Len(desc), i \in 1..Len(Gens) :
            ProcessedBy(i, desc[k]) /\ Untranslatable(i, desc[k])

(* Generation-time strictness: a table is only written when every entry   *)
(* the compiler processed had values it could translate.                  *)
StrictGeneration ==
    phase = "written" =>
        \A k \in 1..Len(desc), i \in 1..Len(Gens) :
            ProcessedBy(i, desc[k]) => ~Untranslatable(i, desc[k])

====
