----------------------------- MODULE BackupDrill -----------------------------
(***************************************************************************)
(* The pipelines db-backup-restore-drill and scheduled-db-backup: a drill  *)
(* runs dbbackup inside throwaway Postgres containers of package services, *)
(* one to restore into and, without a source of its own, one to dump.      *)
(***************************************************************************)
EXTENDS DbBackup

VARIABLES
  containers  \* pairs of a run and the role of a container that exists

(* Variables that only the properties read: what was left although ... *)
VARIABLES
  halfStarted, \* ... its docker run had reported a failure
  unremoved    \* ... its removal was tried, which failed

leftovers == <<containers, halfStarted, unremoved>>
drillVars == <<backupVars, leftovers>>

Role == {"source", "target"}

(* The steps that start a container, await it and remove it. *)
Runs(c) == IF c = "source" THEN "runSource" ELSE "runTarget"
Waits(c) == IF c = "source" THEN "waitSource" ELSE "waitTarget"
Removes(c) == IF c = "source" THEN "removeSource" ELSE "removeTarget"

Starting(r) == CASE cfg[r].kind = "backup" -> "dump"
                 [] cfg[r].kind = "drill"  -> "runTarget"
                 [] cfg[r].kind = "seeded" -> "runSource"

DrillInit(settings) ==
  /\ dry \in BOOLEAN
  /\ cfg \in settings
  /\ second = 0
  /\ pc = [r \in Run |-> Starting(r)]
  /\ failed = {} /\ cancelled = {}
  /\ tries = [r \in Run |-> 0]
  /\ store = [n \in Name |-> Nothing]
  /\ name = [r \in Run |-> Nothing]
  /\ held = [r \in Run |-> Nothing]
  /\ target = [r \in Run |-> Nothing]
  /\ scratch = [r \in Run |-> {}]
  /\ containers = {} /\ halfStarted = {} /\ unremoved = {}

kept == <<settled, tries, store, name, held, target, scratch>>

(* The step that follows the end of services.With. *)
Outer(r, c) == IF c = "target" /\ cfg[r].kind = "seeded" THEN "removeSource" ELSE "report"

(* docker run: a failure is returned at once, although a container that    *)
(* was created and did not start, or whose client was interrupted, exists. *)
StartContainer(r, c) ==
  /\ At(r, Runs(c))
  /\ \/ /\ r \notin cancelled /\ Goto(r, Waits(c))
        /\ containers' = containers \cup {<<r, c>>} /\ UNCHANGED halfStarted
     \/ Fail(r, Outer(r, c)) /\ UNCHANGED <<containers, halfStarted>>
     \/ /\ Fail(r, Outer(r, c))
        /\ containers' = containers \cup {<<r, c>>}
        /\ halfStarted' = halfStarted \cup {<<r, c>>}
  /\ UNCHANGED <<kept, unremoved>>

(* The body of services.With, entered once the container is ready. *)
Body(r, c) ==
  IF c = "source" THEN "seed" ELSE IF Temp(r) THEN "makeTemp" ELSE "dump"

(* docker port and waitReady: until ready, the deadline, or cancellation. *)
WaitReady(r, c) ==
  /\ At(r, Waits(c))
  /\ \/ r \notin cancelled /\ Goto(r, Body(r, c))
     \/ Fail(r, Removes(c))
  /\ UNCHANGED <<kept, leftovers>>

SeedSource(r) ==
  /\ At(r, "seed")
  /\ \/ r \notin cancelled /\ Goto(r, "runTarget")
     \/ Fail(r, "removeSource")
  /\ UNCHANGED <<kept, leftovers>>

(* Without a destination the archive goes to a new temporary directory. *)
MakeTemp(r) ==
  /\ At(r, "makeTemp")
  /\ Goto(r, "dump") \/ Fail(r, "removeTarget")
  /\ UNCHANGED <<kept, leftovers>>

(* The deferred removal of that directory with all it holds, on every way  *)
(* out of dbbackup; its error is dropped.                                  *)
RemoveTemp(r) ==
  /\ At(r, "removeTemp")
  /\ Goto(r, "removeTarget")
  /\ \/ store' = [store EXCEPT ![<<"temp", r>>] = Nothing] /\ UNCHANGED unremoved
     \/ unremoved' = unremoved \cup {<<r, "temp">>} /\ UNCHANGED store
  /\ UNCHANGED <<settled, tries, name, held, target, scratch, containers, halfStarted>>

(* Broken variant: the removal is bound to the context of the run. *)
RemovedInContext(r) == r \notin cancelled

(* The deferred removal does not take over the cancellation. *)
CanRemove(r) == TRUE

(* docker rm -f: a failure is only a warning. *)
RemoveContainer(r, c) ==
  /\ At(r, Removes(c))
  /\ Goto(r, Outer(r, c))
  /\ \/ CanRemove(r) /\ containers' = containers \ {<<r, c>>} /\ UNCHANGED unremoved
     \/ ~CanRemove(r) /\ UNCHANGED <<containers, unremoved>>
     \/ unremoved' = unremoved \cup {<<r, c>>} /\ UNCHANGED containers
  /\ UNCHANGED <<kept, halfStarted>>

(* report: the outcome is annotated and returned either way. *)
Report(r) ==
  /\ At(r, "report")
  /\ Goto(r, "done")
  /\ UNCHANGED <<kept, leftovers>>

Tick ==
  /\ second < LastSecond
  /\ second' = second + 1
  /\ UNCHANGED <<dry, cfg, pc, failed, cancelled, tries, store, name, held,
                 target, scratch, containers, halfStarted, unremoved>>

(* The job's timeout, or an operator, cancels the run. *)
Cancel(r) ==
  /\ r \notin cancelled /\ ~At(r, "done")
  /\ cancelled' = cancelled \cup {r}
  /\ UNCHANGED <<dry, cfg, second, pc, failed, tries, store, name, held,
                 target, scratch, containers, halfStarted, unremoved>>

(* The runner dies; what the run made stays as it is. *)
Die(r) ==
  /\ pc[r] \notin {"done", "dead"}
  /\ Goto(r, "dead")
  /\ UNCHANGED <<kept, leftovers>>

DrillStep(r) ==
  \/ DbNext(r) /\ UNCHANGED leftovers
  \/ \E c \in Role : StartContainer(r, c) \/ WaitReady(r, c) \/ RemoveContainer(r, c)
  \/ SeedSource(r) \/ MakeTemp(r) \/ RemoveTemp(r) \/ Report(r)

DrillNext == Tick \/ \E r \in Run : DrillStep(r) \/ Cancel(r) \/ Die(r)

DrillSpec(settings) == DrillInit(settings) /\ [][DrillNext]_drillVars

-------------------------------------------------------------------------------
DrillTypeOK ==
  /\ cfg \in [Run -> Settings] /\ second \in 0..LastSecond
  /\ failed \subseteq Run /\ cancelled \subseteq Run
  /\ tries \in [Run -> 0..(Attempts - 1)]
  /\ store \in [Name -> Archive \cup {Nothing}]
  /\ name \in [Run -> Name \cup {Nothing}]
  /\ held \in [Run -> Archive \cup {Nothing}]
  /\ target \in [Run -> Archive \cup {Nothing}]
  /\ scratch \in [Run -> SUBSET {"sql", "sql.gz", "src.sql.gz"}]
  /\ containers \subseteq Run \X Role /\ halfStarted \subseteq Run \X Role
  /\ unremoved \subseteq Run \X (Role \cup {"temp"})

Passed(r) == At(r, "done") /\ r \notin failed

(* No other run delivers under the same name to the same place. *)
Unshared(r) == \A q \in Run \ {r} : name[q] # name[r]

(* A drill passes only when a whole dump was replayed to its end, with     *)
(* enough rows if it counts them, and it was the dump of this very run     *)
(* unless two runs delivered under one name. No interrupted copy, retried  *)
(* transfer or replay that stopped half way passes. A dry run is exempt:   *)
(* it replays nothing and a drill that does not count still passes.        *)
PassMeansRestored ==
  \A r \in Run : Passed(r) /\ IsDrill(r) /\ ~dry =>
    /\ target[r] # Nothing /\ target[r].whole
    /\ Unshared(r) => target[r].by = r
    /\ cfg[r].counts => cfg[target[r].by].enough

(* dbbackup.Dump has returned an artifact. *)
Dumped(r) == Passed(r) \/ pc[r] \in {"fetch", "gunzip", "replay", "verify"}

(* A backup that was reported at the destination that is configured stays  *)
(* there, whole, through the retries, crashes and backups of others. When  *)
(* another run has delivered under its name it is one of theirs: in an     *)
(* object store still a whole one, while copies to a directory may have    *)
(* mixed. A drill without a destination removes its archive.               *)
ReportedBackupStays ==
  \A r \in Run : Dumped(r) /\ ~Temp(r) /\ (dry => ~Cloud(r)) =>
    /\ Unshared(r) => store[name[r]] = [by |-> r, whole |-> TRUE]
    /\ Cloud(r) => store[name[r]] # Nothing /\ store[name[r]].whole

(* Whatever fails and whenever it is cancelled, a run that ends leaves no  *)
(* container and no archive of a drill without a destination, but for what *)
(* docker run reported as a failure and what could not be removed; a run   *)
(* that succeeds leaves no other file either.                              *)
NothingLeftBehind ==
  \A r \in Run : At(r, "done") =>
    /\ \A c \in Role : <<r, c>> \in containers => <<r, c>> \in halfStarted \cup unremoved
    /\ store[<<"temp", r>>] # Nothing => <<r, "temp">> \in unremoved
    /\ r \notin failed => scratch[r] = {}

(* services.With is documented to remove the container always. It does not *)
(* when docker run reports a failure after it has created one.             *)
EveryContainerRemoved ==
  \A r \in Run, c \in Role :
    At(r, "done") /\ <<r, c>> \in containers => <<r, c>> \in unremoved
===============================================================================
