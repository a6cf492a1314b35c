------------------------------ MODULE LoginOnce ------------------------------
(***************************************************************************)
(* Registry logins shared by concurrent builds: docker's ensureECRLogin    *)
(* under BuildAndPush, and gcp.ConfigureDockerAuth.                        *)
(*                                                                         *)
(* Both look up a sync.Once for the registry under a mutex and run the     *)
(* login inside it. They differ in where the error goes: docker keeps one  *)
(* map of errors for all registries, gcp a field beside each Once.         *)
(* Reading and writing that place are steps of their own, so that TLC sees *)
(* which of them can overlap.                                              *)
(***************************************************************************)
EXTENDS Naturals, Sequences, FiniteSets

CONSTANTS
  Thread,       \* concurrent calls
  Host,         \* registries
  Registries,   \* the registries each call logs in to, in order
  SharedErrs    \* TRUE: one map of errors; FALSE: an error beside each Once

None == "none"

ASSUME LoginAssumption ==
  /\ Registries \in [Thread -> Seq(Host)]
  /\ SharedErrs \in BOOLEAN
  /\ None \notin Thread

VARIABLES
  lpc,       \* the step each thread is about to take, or in the midst of
  todo,      \* the registries the thread has not logged in to yet
  mutex,     \* its holder, or None
  onces,     \* the map under the mutex: the Once of a host, named after
             \* the thread that made it, or None
  mine,      \* the Once the thread got for its current host
  state,     \* of each Once: "new", "running" or "done"
  errs,      \* the error kept for each host
  returned   \* how the call returned, "none" while it runs

(* Variables that only the properties read. *)
VARIABLES
  logins,    \* how often each host was logged in to
  outcome    \* what the last login to it answered

loginVars == <<lpc, todo, mutex, onces, mine, state, errs, returned, logins, outcome>>

LoginStep == {"next", "lock", "find", "insert", "unlock", "do", "login", "write",
              "leave", "read", "done"}

LoginInit ==
  /\ lpc = [t \in Thread |-> "next"]
  /\ todo = Registries
  /\ mutex = None
  /\ onces = [h \in Host |-> None]
  /\ mine = [t \in Thread |-> None]
  /\ state = [h \in Host |-> [t \in Thread |-> "new"]]
  /\ errs = [h \in Host |-> "nil"]
  /\ returned = [t \in Thread |-> "none"]
  /\ logins = [h \in Host |-> 0]
  /\ outcome = [h \in Host |-> "none"]

LoginAt(t, step) == lpc[t] = step
LoginGoto(t, step) == lpc' = [lpc EXCEPT ![t] = step]
Now(t) == Head(todo[t])
MyOnce(t) == state[Now(t)][mine[t]]

(* The loop over the registries; with all logged in the build goes ahead. *)
NextRegistry(t) ==
  /\ LoginAt(t, "next")
  /\ IF todo[t] = << >>
     THEN LoginGoto(t, "done") /\ returned' = [returned EXCEPT ![t] = "ok"]
     ELSE LoginGoto(t, "lock") /\ UNCHANGED returned
  /\ UNCHANGED <<todo, mutex, onces, mine, state, errs, logins, outcome>>

(* Broken variant: the mutex keeps nobody out. *)
LockFree(t) ==
  /\ LoginAt(t, "lock")
  /\ mutex' = t
  /\ LoginGoto(t, "find")
  /\ UNCHANGED <<todo, onces, mine, state, errs, returned, logins, outcome>>

Lock(t) ==
  /\ LoginAt(t, "lock")
  /\ mutex = None
  /\ mutex' = t
  /\ LoginGoto(t, "find")
  /\ UNCHANGED <<todo, onces, mine, state, errs, returned, logins, outcome>>

Find(t) ==
  /\ LoginAt(t, "find")
  /\ IF onces[Now(t)] # None
     THEN /\ mine' = [mine EXCEPT ![t] = onces[Now(t)]]
          /\ LoginGoto(t, "unlock")
     ELSE /\ mine' = [mine EXCEPT ![t] = t]
          /\ LoginGoto(t, "insert")
  /\ UNCHANGED <<todo, mutex, onces, state, errs, returned, logins, outcome>>

Insert(t) ==
  /\ LoginAt(t, "insert")
  /\ onces' = [onces EXCEPT ![Now(t)] = t]
  /\ LoginGoto(t, "unlock")
  /\ UNCHANGED <<todo, mutex, mine, state, errs, returned, logins, outcome>>

(* Broken variant: a return path without Unlock. *)
UnlockForgotten(t) ==
  /\ LoginAt(t, "unlock")
  /\ LoginGoto(t, "do")
  /\ UNCHANGED <<todo, mutex, onces, mine, state, errs, returned, logins, outcome>>

Unlock(t) ==
  /\ LoginAt(t, "unlock")
  /\ mutex' = None
  /\ LoginGoto(t, "do")
  /\ UNCHANGED <<todo, onces, mine, state, errs, returned, logins, outcome>>

(* Broken variant: a "started" flag instead of a Once; nobody waits. *)
DoWithoutWaiting(t) ==
  /\ LoginAt(t, "do")
  /\ IF MyOnce(t) = "new"
     THEN /\ state' = [state EXCEPT ![Now(t)][mine[t]] = "running"]
          /\ LoginGoto(t, "login")
     ELSE LoginGoto(t, "read") /\ UNCHANGED state
  /\ UNCHANGED <<todo, mutex, onces, mine, errs, returned, logins, outcome>>

(* once.Do: the first caller runs the function, callers that come while it *)
(* runs wait for its end, later ones pass.                                 *)
Do(t) ==
  /\ LoginAt(t, "do")
  /\ MyOnce(t) # "running"
  /\ IF MyOnce(t) = "new"
     THEN /\ state' = [state EXCEPT ![Now(t)][mine[t]] = "running"]
          /\ LoginGoto(t, "login")
     ELSE LoginGoto(t, "read") /\ UNCHANGED state
  /\ UNCHANGED <<todo, mutex, onces, mine, errs, returned, logins, outcome>>

(* Broken variant: what the login answered is dropped. *)
LoginUnanswered(t) ==
  /\ LoginAt(t, "login")
  /\ logins' = [logins EXCEPT ![Now(t)] = @ + 1]
  /\ LoginGoto(t, "write")
  /\ UNCHANGED <<todo, mutex, onces, mine, state, errs, returned, outcome>>

Login(t) ==
  /\ LoginAt(t, "login")
  /\ logins' = [logins EXCEPT ![Now(t)] = @ + 1]
  /\ \E o \in {"nil", "refused"} : outcome' = [outcome EXCEPT ![Now(t)] = o]
  /\ LoginGoto(t, "write")
  /\ UNCHANGED <<todo, mutex, onces, mine, state, errs, returned>>

(* The end of the write: the thread has been writing since it came here. *)
WriteErr(t) ==
  /\ LoginAt(t, "write")
  /\ errs' = [errs EXCEPT ![Now(t)] = outcome[Now(t)]]
  /\ LoginGoto(t, "leave")
  /\ UNCHANGED <<todo, mutex, onces, mine, state, returned, logins, outcome>>

Leave(t) ==
  /\ LoginAt(t, "leave")
  /\ state' = [state EXCEPT ![Now(t)][mine[t]] = "done"]
  /\ LoginGoto(t, "read")
  /\ UNCHANGED <<todo, mutex, onces, mine, errs, returned, logins, outcome>>

(* The end of the read, and the return to the loop or out of it. *)
ReadErr(t) ==
  /\ LoginAt(t, "read")
  /\ IF errs[Now(t)] = "nil"
     THEN /\ todo' = [todo EXCEPT ![t] = Tail(@)]
          /\ LoginGoto(t, "next")
          /\ UNCHANGED returned
     ELSE /\ LoginGoto(t, "done")
          /\ returned' = [returned EXCEPT ![t] = "failed"]
          /\ UNCHANGED todo
  /\ UNCHANGED <<mutex, onces, mine, state, errs, logins, outcome>>

LoginAdvance(t) ==
  \/ NextRegistry(t) \/ Lock(t) \/ Find(t) \/ Insert(t) \/ Unlock(t)
  \/ Do(t) \/ Login(t) \/ WriteErr(t) \/ Leave(t) \/ ReadErr(t)

LoginNext == \E t \in Thread : LoginAdvance(t)

LoginSpec == LoginInit /\ [][LoginNext]_loginVars

(* Goroutines are scheduled, and a Mutex and a Once let waiters in. *)
FairLoginSpec ==
  /\ LoginSpec
  /\ \A t \in Thread : WF_loginVars(LoginAdvance(t)) /\ SF_loginVars(Lock(t))
-----------------------------------------------------------------------------
LoginTypeOK ==
  /\ lpc \in [Thread -> LoginStep]
  /\ todo \in [Thread -> Seq(Host)]
  /\ mutex \in Thread \cup {None}
  /\ onces \in [Host -> Thread \cup {None}]
  /\ mine \in [Thread -> Thread \cup {None}]
  /\ state \in [Host -> [Thread -> {"new", "running", "done"}]]
  /\ errs \in [Host -> {"nil", "refused"}]
  /\ returned \in [Thread -> {"none", "ok", "failed"}]
  /\ logins \in [Host -> Nat]
  /\ outcome \in [Host -> {"none", "nil", "refused"}]

(* Each registry authenticates at most once, however the calls interleave. *)
LoginOncePerHost == \A h \in Host : logins[h] <= 1

(* A call goes on to build only when every registry it pushes to has been  *)
(* logged in to successfully, by itself or by the call it waited for.      *)
OkMeansLoggedIn ==
  \A t \in Thread : returned[t] = "ok" =>
    \A i \in 1..Len(Registries[t]) : outcome[Registries[t][i]] = "nil"

(* The places two threads are at if they access the same memory. *)
SamePlace(t, u) == SharedErrs \/ Now(t) = Now(u)

(* No data race: nobody reads or writes the error while another writes it. *)
(* BuildAndPush is documented as safe to call concurrently, and a racing   *)
(* Go map ends the process.                                                *)
NoRace ==
  \A t, u \in Thread :
    t # u /\ LoginAt(t, "write") /\ lpc[u] \in {"write", "read"} => ~SamePlace(t, u)

(* Every call that begins gets through its logins: no waiter is left behind. *)
EveryLoginReturns == \A t \in Thread : (lpc[t] # "next") ~> (lpc[t] = "done")

(* Seen without the mutex and the Onces, the calls are those of            *)
(* SharedLogins: a host answers once, and no call goes past it or gives up *)
(* on it before the answer is there, or against it.                        *)
Promise == INSTANCE SharedLogins WITH answer <- outcome, left <- todo,
                                        result <- returned

RefinesSharedLogins == Promise!Spec
=============================================================================
