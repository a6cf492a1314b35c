----------------------------- MODULE MCBackupDrill -----------------------------
(* Small instances of BackupDrill: a drill and another run.                 *)
EXTENDS BackupDrill, TLC

CONSTANTS b1, b2

Backs(kind, place, counts, enough, named) ==
  [kind |-> kind, place |-> place, counts |-> counts, enough |-> enough, named |-> named]

Two(a, b) == b1 :> a @@ b2 :> b

(* A drill that counts next to a backup with rows enough, in a directory,   *)
(* in an object store and under one file name, and a drill that seeds a     *)
(* database of its own and has no destination.                              *)
Drills ==
  {Two(Backs("drill", place, TRUE, FALSE, named), Backs("backup", place, FALSE, TRUE, named)) :
     place \in {"local", "cloud"}, named \in BOOLEAN}
    \cup {Two(Backs("backup", "local", FALSE, FALSE, FALSE),
              Backs("seeded", "temp", TRUE, TRUE, FALSE))}

Drilling == DrillInit(Drills) /\ [][DrillNext]_drillVars
================================================================================
