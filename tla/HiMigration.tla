----------------------------- MODULE HiMigration -----------------------------
(***************************************************************************)
(* What include/hi_migrator.h promises of a migration (lines 4-15): the    *)
(* partition table changes first, then the bootloader, after the checks of *)
(* the same boot, and neither ever goes back; each image runs on the       *)
(* layout it was made for, and only the slot that does not run is written; *)
(* a board that does not boot was interrupted in the middle of a write.    *)
(* HiMigrator shows that its tasks, handlers and timers keep it.           *)
(***************************************************************************)

VARIABLES
    region,    \* flash: the partition table and the bootloader
    slot,      \* flash: what the two application slots hold
    image,     \* what runs
    running,   \* the slot it runs from
    passed,    \* the checks of this boot passed
    excuse     \* why a region was left torn

vars == <<region, slot, image, running, passed, excuse>>

Region == {"table", "bootloader"}
Slot   == {"low", "ota1"}
Layout(contents) == \A r \in Region : region[r] = contents
Boots == \A r \in Region : region[r] # "torn"

Init ==
    /\ region \in {[r \in Region |-> layout] : layout \in {"old", "new"}}
    /\ running \in Slot
    /\ slot = [s \in Slot |-> IF s = running THEN "migrator"
                             ELSE IF Layout("old") THEN "legacy" ELSE "firmware"]
    /\ image = "off" /\ passed = FALSE /\ excuse = "no"

\* An image starts on the layout it was made for; the migrator on any.
Belongs(i) == (i = "legacy" => Layout("old")) /\ (i = "firmware" => Layout("new"))
Starts ==
    /\ image = "off" /\ Boots
    /\ running' \in Slot /\ slot[running'] # "torn" /\ Belongs(slot[running'])
    /\ image' = slot[running']
    /\ UNCHANGED <<region, slot, passed, excuse>>

\* A reset comes between two writes, or is the excuse.
Stops ==
    /\ image # "off" /\ image' = "off" /\ passed' = FALSE
    /\ excuse' = IF Boots \/ excuse # "no" THEN excuse ELSE "cut"
    /\ UNCHANGED <<region, slot, running>>

\* Relocation, under the old table, and the installation, on the new layout.
Receives(s, contents) ==
    /\ image = "migrator" /\ s # running
    /\ contents = (IF s = "low" THEN "firmware" ELSE "migrator")
    /\ Layout(IF s = "low" THEN "new" ELSE "old")
    /\ \/ slot' = [slot EXCEPT ![s] = "torn"]
       \/ slot[s] = "torn" /\ slot' = [slot EXCEPT ![s] = contents]
    /\ UNCHANGED <<region, image, running, passed, excuse>>

Passes ==
    /\ image = "migrator" /\ running = "ota1" /\ passed' = TRUE
    /\ UNCHANGED <<region, slot, image, running, excuse>>

\* The commit.  Whose turn it is, once the checks passed: a new region is not
\* written again, whether the other one could be written or not.
Turn(r) ==
    /\ image = "migrator" /\ running = "ota1" /\ passed /\ region[r] # "new"
    /\ IF r = "table" THEN region["bootloader"] = "old" ELSE region["table"] = "new"
Erases(r) ==
    /\ Turn(r) /\ region' = [region EXCEPT ![r] = "torn"]
    /\ UNCHANGED <<slot, image, running, passed, excuse>>
Writes(r) ==
    /\ Turn(r) /\ region[r] = "torn"
    /\ \E contents \in {"old", "new"} : region' = [region EXCEPT ![r] = contents]
    /\ UNCHANGED <<slot, image, running, passed, excuse>>
GivesUp ==
    /\ \E r \in Region : Turn(r)
    /\ excuse = "no" /\ excuse' = "restore"
    /\ UNCHANGED <<region, slot, image, running, passed>>

Next == \/ Starts \/ Stops \/ Passes \/ GivesUp
        \/ \E s \in Slot, contents \in {"migrator", "firmware"} : Receives(s, contents)
        \/ \E r \in Region : Erases(r) \/ Writes(r)

Spec == Init /\ [][Next]_vars
=============================================================================
