------------------------------- MODULE DbBackup -------------------------------
(***************************************************************************)
(* dbbackup: a run dumps its database to a compressed file, delivers the   *)
(* file to a directory or an object store, fetches it back, replays it     *)
(* into another database and verifies the outcome. Several runs deliver to *)
(* one destination.                                                        *)
(*                                                                         *)
(* The content of a dump is the run that made it: what an archive is made  *)
(* of matters only by whose it is and by whether it is whole.              *)
(***************************************************************************)
EXTENDS Naturals

CONSTANTS
  Run,        \* the runs, of one pipeline or of several
  Attempts,   \* cloudExecRetries, tries of one transfer
  LastSecond  \* bound on the clock

CONSTANT Nothing   \* no object, no database content

(* A drill reads its source from a secret or seeds a throwaway one; a      *)
(* backup only dumps. A drill that counts rows passes only with enough,    *)
(* and one without a destination delivers to a temporary directory.        *)
Settings ==
  {s \in [kind: {"drill", "seeded", "backup"}, place: {"local", "cloud", "temp"},
          counts: BOOLEAN, enough: BOOLEAN, named: BOOLEAN] :
     s.kind = "backup" => s.place # "temp"}

VARIABLES
  dry,        \* SPARKWING_DRY_RUN
  cfg,        \* one of Settings for each run
  second,     \* the clock, as far as a file name shows it
  pc,         \* next step of each run
  failed,     \* runs that carry an error
  cancelled,  \* runs whose context is done
  tries,      \* failed tries of the transfer under way
  store,      \* name -> archive at the destination
  name,       \* name of each run's archive
  held,       \* archive each run has fetched
  target,     \* content of the database each run restores into
  scratch     \* files left in the working directory, per run

backupVars == <<dry, cfg, second, pc, failed, cancelled, tries, store, name,
                held, target, scratch>>

Fixed == LastSecond + 1
Name == ({"local", "cloud"} \X (0..Fixed)) \cup ({"temp"} \X Run)
Archive == [by: Run, whole: BOOLEAN]

ASSUME BackupAssumption ==
  /\ Attempts \in Nat \ {0} /\ LastSecond \in Nat
  /\ Nothing \notin Name \cup Archive

At(r, step) == pc[r] = step
Cloud(r) == cfg[r].place = "cloud"
Temp(r) == cfg[r].place = "temp"
IsDrill(r) == cfg[r].kind # "backup"

(* Where a run goes when dbbackup is done with it, or gives up. *)
Unwind(r) ==
  IF Temp(r) THEN "removeTemp" ELSE IF IsDrill(r) THEN "removeTarget" ELSE "report"

Goto(r, step) == pc' = [pc EXCEPT ![r] = step] /\ UNCHANGED failed

Fail(r, step) ==
  /\ pc' = [pc EXCEPT ![r] = step]
  /\ failed' = failed \cup {r}

(* What is left of a step's files once its deferred removals have run. *)
Leave(r, files) == scratch' = [scratch EXCEPT ![r] = @ \cup files]

settled == <<dry, cfg, second, cancelled>>

-------------------------------------------------------------------------------
(* dumpFilename has a resolution of one second; Filename overrides it. A   *)
(* temporary directory is the run's own.                                   *)
BackupName(r) ==
  <<cfg[r].place, IF Temp(r) THEN r ELSE IF cfg[r].named THEN Fixed ELSE second>>

(* pg_dump or mysqldump writes the whole dump before it is compressed. A   *)
(* failed step leaves its partial output, its removal not being deferred.  *)
Dump(r) ==
  /\ At(r, "dump")
  /\ name' = [name EXCEPT ![r] = BackupName(r)]
  /\ \/ r \notin cancelled /\ Goto(r, "deliver") /\ UNCHANGED scratch
     \/ \E partial \in {"sql", "sql.gz"} : Fail(r, Unwind(r)) /\ Leave(r, {partial})
  /\ UNCHANGED <<settled, tries, store, held, target>>

(* The step after a delivered archive. *)
Delivered(r) == IF IsDrill(r) THEN "fetch" ELSE "report"

Put(r, whole) == store' = [store EXCEPT ![name[r]] = [by |-> r, whole |-> whole]]

(* deliver, local: the copy goes straight to its final name, truncating    *)
(* what is there.                                                          *)
CreateCopy(r) ==
  /\ At(r, "deliver") /\ ~Cloud(r)
  /\ \/ Put(r, FALSE) /\ Goto(r, "copy")
     \/ Fail(r, Unwind(r)) /\ UNCHANGED store
  /\ UNCHANGED <<settled, tries, name, held, target, scratch>>

(* Another copy to the same name leaves bytes of both. *)
FinishCopy(r) ==
  /\ At(r, "copy")
  /\ \/ Put(r, TRUE) /\ Goto(r, Delivered(r))
     \/ store[name[r]].by # r /\ Put(r, FALSE) /\ Goto(r, Delivered(r))
     \/ Fail(r, Unwind(r)) /\ UNCHANGED store
  /\ UNCHANGED <<settled, tries, name, held, target, scratch>>

Another(r) == tries[r] + 1 < Attempts /\ r \notin cancelled

(* Broken variant: the last failure is dropped. *)
RetryThenCarryOn(r, partial) ==
  IF Another(r)
  THEN /\ tries' = [tries EXCEPT ![r] = @ + 1]
       /\ UNCHANGED <<pc, failed, scratch>>
  ELSE /\ tries' = [tries EXCEPT ![r] = 0]
       /\ Goto(r, Delivered(r))
       /\ Leave(r, partial)

(* execWithRetry: a failed transfer is repeated until the attempts or the  *)
(* context are used up.                                                    *)
Retry(r, partial) ==
  IF Another(r)
  THEN /\ tries' = [tries EXCEPT ![r] = @ + 1]
       /\ UNCHANGED <<pc, failed, scratch>>
  ELSE /\ tries' = [tries EXCEPT ![r] = 0]
       /\ Fail(r, Unwind(r))
       /\ Leave(r, partial)

Transferred(r, step) == Goto(r, step) /\ tries' = [tries EXCEPT ![r] = 0]

(* deliver, object store: an object appears whole or not at all, also when *)
(* the client reports a failure. A dry run only prints the command.        *)
Upload(r) ==
  /\ At(r, "deliver") /\ Cloud(r)
  /\ \/ dry /\ Transferred(r, Delivered(r)) /\ UNCHANGED <<store, scratch>>
     \/ /\ ~dry /\ r \notin cancelled
        /\ Put(r, TRUE) /\ Transferred(r, Delivered(r)) /\ UNCHANGED scratch
     \/ ~dry /\ (Put(r, TRUE) \/ UNCHANGED store) /\ Retry(r, {})
  /\ UNCHANGED <<settled, name, held, target>>

(* fetch: a local archive is used where it is. Downloads run also when     *)
(* dry, and a failed one may leave a partial file.                         *)
Fetch(r) ==
  /\ At(r, "fetch")
  /\ \/ /\ ~Cloud(r) \/ (r \notin cancelled /\ store[name[r]] # Nothing)
        /\ held' = [held EXCEPT ![r] = store[name[r]]]
        /\ Transferred(r, "gunzip") /\ UNCHANGED scratch
     \/ Cloud(r) /\ Retry(r, {"src.sql.gz"}) /\ UNCHANGED held
  /\ UNCHANGED <<settled, store, name, target>>

(* A local archive is read now, not when fetch named it. *)
Source(r) == IF Cloud(r) THEN held[r] ELSE store[name[r]]

(* Broken variant: a truncated archive is read as far as it goes. *)
ReadsAnything(r) == TRUE

(* The checksum at the end of the stream, which a partial or mixed file    *)
(* does not carry.                                                         *)
Decompresses(r) == Source(r).whole

Gunzip(r) ==
  /\ At(r, "gunzip")
  /\ \/ /\ Decompresses(r) /\ held' = [held EXCEPT ![r] = Source(r)]
        /\ Goto(r, "replay") /\ UNCHANGED scratch
     \/ Fail(r, Unwind(r)) /\ Leave(r, {"sql"}) /\ UNCHANGED held
  /\ UNCHANGED <<settled, tries, store, name, target>>

(* psql stops at the first error, with what it has done until then. A dry  *)
(* run only prints the command.                                            *)
Replay(r) ==
  /\ At(r, "replay")
  /\ \/ dry /\ Goto(r, "verify") /\ UNCHANGED target
     \/ /\ ~dry /\ r \notin cancelled
        /\ target' = [target EXCEPT ![r] = held[r]]
        /\ Goto(r, "verify")
     \/ /\ ~dry
        /\ target' = [target EXCEPT ![r] = [held[r] EXCEPT !.whole = FALSE]]
        /\ Fail(r, Unwind(r))
  /\ UNCHANGED <<settled, tries, store, name, held, scratch>>

(* VerifyRestore: without MinRows any answer will do, also that of an      *)
(* empty database; the first cell must otherwise be a number, and enough.  *)
Satisfied(r) == cfg[r].counts => target[r] # Nothing /\ cfg[target[r].by].enough

VerifyRestore(r) ==
  /\ At(r, "verify")
  /\ \/ r \notin cancelled /\ Satisfied(r) /\ Goto(r, Unwind(r))
     \/ Fail(r, Unwind(r))
  /\ UNCHANGED <<settled, tries, store, name, held, target, scratch>>

DbNext(r) ==
  \/ Dump(r) \/ CreateCopy(r) \/ FinishCopy(r) \/ Upload(r)
  \/ Fetch(r) \/ Gunzip(r) \/ Replay(r) \/ VerifyRestore(r)
===============================================================================
