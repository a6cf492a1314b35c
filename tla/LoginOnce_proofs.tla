--------------------------- MODULE LoginOnce_proofs ---------------------------
(***************************************************************************)
(* Theorems about the shared registry logins, for any calls that log in to *)
(* any registries.                                                         *)
(***************************************************************************)
EXTENDS LoginOnce, SequenceTheorems, TLAPS

HasMutex == {"find", "insert", "unlock"}
InLoop == {"lock", "find", "insert", "unlock", "do", "login", "write", "leave", "read"}
HasOnce == {"unlock", "do", "login", "write", "leave", "read"}
InOnce == {"login", "write", "leave"}

(* What a thread knows of its place: who holds the mutex, the registry it  *)
(* is at, the Once it has of it, and how far the login under it has come.  *)
AtPlace(t) ==
  /\ lpc[t] \in HasMutex => mutex = t
  /\ lpc[t] \in InLoop => todo[t] # << >>
  /\ lpc[t] = "insert" => mine[t] = t /\ onces[Now(t)] = None
  /\ lpc[t] \in HasOnce => mine[t] \in Thread /\ (lpc[t] # "unlock" => onces[Now(t)] = mine[t])
  /\ lpc[t] = "unlock" => onces[Now(t)] = mine[t]
  /\ lpc[t] \in InOnce => MyOnce(t) = "running"
  /\ lpc[t] = "login" => logins[Now(t)] = 0
  /\ lpc[t] \in {"write", "leave"} => outcome[Now(t)] # "none"
  /\ lpc[t] = "leave" => errs[Now(t)] = outcome[Now(t)]
  /\ lpc[t] = "read" => MyOnce(t) = "done"

(* Of each host one Once is ever used: it runs one login, and what that    *)
(* answered is in errs when it is done.                                    *)
OnceOf(h) ==
  /\ logins[h] <= 1
  /\ \A o \in Thread : onces[h] # o => state[h][o] = "new"
  /\ onces[h] = None => logins[h] = 0
  /\ logins[h] = 0 => outcome[h] = "none"
  /\ \A o \in Thread : onces[h] = o =>
       /\ state[h][o] = "new" => logins[h] = 0
       /\ state[h][o] = "done" => errs[h] = outcome[h] /\ outcome[h] # "none"

(* One thread is inside the Once of a host. *)
Alone ==
  \A t, u \in Thread :
    lpc[t] \in InOnce /\ lpc[u] \in InOnce /\ Now(t) = Now(u) => t = u

OnceInv ==
  /\ LoginTypeOK
  /\ \A t \in Thread : AtPlace(t)
  /\ \A h \in Host : OnceOf(h)
  /\ Alone

-------------------------------------------------------------------------------
LEMMA NowInHost ==
  ASSUME LoginTypeOK, NEW t \in Thread, todo[t] # << >>
  PROVE  Now(t) \in Host /\ Tail(todo[t]) \in Seq(Host)
  BY DEF LoginTypeOK, Now

LEMMA Rows ==
  ASSUME LoginTypeOK, NEW t \in Thread
  PROVE  /\ lpc[t] \in LoginStep
         /\ todo[t] \in Seq(Host)
         /\ mine[t] \in Thread \cup {None}
         /\ returned[t] \in {"none", "ok", "failed"}
  BY DEF LoginTypeOK

LEMMA HostRows ==
  ASSUME LoginTypeOK, NEW h \in Host
  PROVE  /\ onces[h] \in Thread \cup {None}
         /\ errs[h] \in {"nil", "refused"}
         /\ logins[h] \in Nat
         /\ outcome[h] \in {"none", "nil", "refused"}
         /\ \A o \in Thread : state[h][o] \in {"new", "running", "done"}
  BY DEF LoginTypeOK

LEMMA Moved ==
  ASSUME LoginTypeOK, NEW t \in Thread, NEW step \in LoginStep, LoginGoto(t, step)
  PROVE  /\ lpc' \in [Thread -> LoginStep]
         /\ lpc'[t] = step
         /\ \A u \in Thread \ {t} : lpc'[u] = lpc[u]
  BY DEF LoginTypeOK, LoginGoto

LEMMA InitInv == LoginInit => OnceInv
<1> SUFFICES ASSUME LoginInit PROVE OnceInv
  OBVIOUS
<1>1. LoginTypeOK
  BY LoginAssumption DEF LoginInit, LoginTypeOK, LoginStep
<1>2. \A t \in Thread : AtPlace(t)
  BY DEF LoginInit, AtPlace, HasMutex, InLoop, HasOnce, InOnce
<1>3. \A h \in Host : OnceOf(h)
  BY LoginAssumption DEF LoginInit, OnceOf
<1>4. Alone
  BY DEF LoginInit, Alone, InOnce
<1> QED
  BY <1>1, <1>2, <1>3, <1>4 DEF OnceInv

(* Who neither moves nor has its host's Once touched keeps its place.      *)
LEMMA PlaceStays ==
  ASSUME NEW u \in Thread, AtPlace(u),
         lpc'[u] = lpc[u], todo'[u] = todo[u], mine'[u] = mine[u],
         lpc[u] \in HasMutex => mutex' = mutex,
         lpc[u] \in HasOnce \cup {"insert"} => onces'[Now(u)] = onces[Now(u)],
         lpc[u] \in InOnce \cup {"read"} =>
           state'[Now(u)][mine[u]] = state[Now(u)][mine[u]],
         lpc[u] \in InOnce =>
           /\ logins'[Now(u)] = logins[Now(u)] /\ outcome'[Now(u)] = outcome[Now(u)]
           /\ errs'[Now(u)] = errs[Now(u)]
  PROVE  AtPlace(u)'
  BY DEF AtPlace, Now, MyOnce, HasMutex, InLoop, HasOnce, InOnce

LEMMA HostStays ==
  ASSUME NEW h \in Host, OnceOf(h),
         logins'[h] = logins[h], outcome'[h] = outcome[h],
         errs'[h] = errs[h], onces'[h] = onces[h], state'[h] = state[h]
  PROVE  OnceOf(h)'
  BY DEF OnceOf


LEMMA AloneStays ==
  ASSUME Alone, NEW t \in Thread,
         \A u \in Thread \ {t} : lpc'[u] = lpc[u] /\ todo'[u] = todo[u],
         lpc'[t] \in InOnce => lpc[t] \in InOnce /\ todo'[t] = todo[t]
  PROVE  Alone'
  BY DEF Alone, Now

(* The mutex keeps others away from the map, and the Once of a host keeps  *)
(* them out of its login.                                                  *)
LEMMA MutexExcludes ==
  ASSUME OnceInv, NEW t \in Thread, NEW u \in Thread \ {t}, lpc[u] \in HasMutex
  PROVE  mutex # None /\ lpc[t] \notin HasMutex
  BY LoginAssumption DEF OnceInv, AtPlace

LEMMA OnceExcludes ==
  ASSUME OnceInv, NEW t \in Thread, NEW u \in Thread \ {t}, lpc[t] \in InOnce, Now(u) = Now(t)
  PROVE  lpc[u] \notin InOnce \cup {"read"}
<1>1. AtPlace(t) /\ AtPlace(u) /\ Alone
  BY DEF OnceInv
<1>2. lpc[u] \notin InOnce
  BY <1>1 DEF Alone
<1>3. MyOnce(t) = "running" /\ onces[Now(t)] = mine[t]
  BY <1>1 DEF AtPlace, InOnce, HasOnce
<1>4. lpc[u] = "read" => MyOnce(u) = "done" /\ onces[Now(u)] = mine[u]
  BY <1>1 DEF AtPlace, HasOnce
<1> QED
  BY <1>2, <1>3, <1>4 DEF MyOnce

(* Steps that touch no Once and no error: NextRegistry, Lock, Find, Unlock *)
(* and ReadErr.                                                            *)
LEMMA QuietStep ==
  ASSUME OnceInv, NEW t \in Thread, LoginTypeOK',
         UNCHANGED <<onces, state, errs, logins, outcome>>,
         \A u \in Thread \ {t} : lpc'[u] = lpc[u] /\ todo'[u] = todo[u] /\ mine'[u] = mine[u],
         mutex' = mutex \/ mutex = None \/ lpc[t] = "unlock",
         lpc'[t] \notin InOnce, AtPlace(t)'
  PROVE  OnceInv'
<1>1. \A u \in Thread \ {t} : lpc[u] \in HasMutex => mutex' = mutex
  BY MutexExcludes DEF HasMutex
<1>2. \A u \in Thread \ {t} : AtPlace(u)'
  BY <1>1, PlaceStays DEF OnceInv
<1>3. \A h \in Host : OnceOf(h)'
  BY HostStays DEF OnceInv
<1>4. Alone'
  BY AloneStays DEF OnceInv
<1> QED
  BY <1>2, <1>3, <1>4 DEF OnceInv

LEMMA InsertInv ==
  ASSUME OnceInv, NEW t \in Thread, NEW h \in Host, h = Now(t), Insert(t)
  PROVE  OnceInv'
<1>1. /\ LoginTypeOK /\ AtPlace(t) /\ lpc[t] = "insert" /\ LoginGoto(t, "unlock")
      /\ onces' = [onces EXCEPT ![h] = t]
      /\ UNCHANGED <<todo, mutex, mine, state, errs, returned, logins, outcome>>
  BY DEF OnceInv, Insert, LoginAt
<1>2. /\ onces[h] = None /\ mine[t] = t /\ mutex = t /\ todo[t] # << >>
  BY <1>1, NowInHost DEF AtPlace, InLoop, HasMutex
<1>3. /\ lpc' \in [Thread -> LoginStep] /\ lpc'[t] = "unlock"
      /\ \A u \in Thread \ {t} : lpc'[u] = lpc[u]
  BY <1>1, Moved DEF LoginStep
<1>4. /\ onces' \in [Host -> Thread \cup {None}] /\ onces'[h] = t
      /\ \A g \in Host \ {h} : onces'[g] = onces[g]
  BY <1>1, <1>2 DEF LoginTypeOK
<1>5. LoginTypeOK'
  BY <1>1, <1>3, <1>4 DEF LoginTypeOK
<1>6. AtPlace(t)'
  BY <1>1, <1>2, <1>3, <1>4 DEF AtPlace, Now, MyOnce, HasMutex, InLoop, HasOnce, InOnce
<1>7. ASSUME NEW u \in Thread \ {t} PROVE AtPlace(u)'
  <2>1. AtPlace(u) /\ lpc[u] \notin HasMutex
    BY <1>1, MutexExcludes DEF OnceInv, HasMutex
  <2>2. lpc[u] \in HasOnce \cup {"insert"} => Now(u) \in Host \ {h}
    BY <1>1, <1>2, <2>1, NowInHost, LoginAssumption DEF AtPlace, HasOnce, InLoop, HasMutex
  <2> QED
    BY <1>1, <1>3, <1>4, <2>1, <2>2, PlaceStays
<1>8. OnceOf(h)'
  <2>1. OnceOf(h)
    BY <1>2 DEF OnceInv
  <2> QED
    BY <1>1, <1>2, <1>4, <2>1, LoginAssumption DEF OnceOf
<1>9. \A g \in Host \ {h} : OnceOf(g)'
  BY <1>1, <1>4, HostStays DEF OnceInv
<1>10. Alone'
  BY <1>1, <1>3, AloneStays DEF OnceInv, InOnce
<1> QED
  BY <1>5, <1>6, <1>7, <1>8, <1>9, <1>10 DEF OnceInv

(* The state of one Once changes, of the host t is at. *)
LEMMA OnceRow ==
  ASSUME LoginTypeOK, NEW h \in Host, NEW o \in Thread, NEW s \in {"new", "running", "done"},
         state' = [state EXCEPT ![h][o] = s]
  PROVE  /\ state' \in [Host -> [Thread -> {"new", "running", "done"}]]
         /\ state'[h][o] = s
         /\ \A g \in Host \ {h} : state'[g] = state[g]
         /\ \A q \in Thread \ {o} : state'[h][q] = state[h][q]
  BY DEF LoginTypeOK

LEMMA DoInv ==
  ASSUME OnceInv, NEW t \in Thread, NEW h \in Host, h = Now(t), Do(t), MyOnce(t) = "new"
  PROVE  OnceInv'
<1>1. /\ LoginTypeOK /\ AtPlace(t) /\ lpc[t] = "do" /\ LoginGoto(t, "login")
      /\ state' = [state EXCEPT ![h][mine[t]] = "running"]
      /\ UNCHANGED <<todo, mutex, onces, mine, errs, returned, logins, outcome>>
  BY DEF OnceInv, Do, LoginAt
<1>2. /\ mine[t] \in Thread /\ onces[h] = mine[t] /\ todo[t] # << >>
  BY <1>1, NowInHost DEF AtPlace, InLoop, HasOnce
<1>3. /\ lpc' \in [Thread -> LoginStep] /\ lpc'[t] = "login"
      /\ \A u \in Thread \ {t} : lpc'[u] = lpc[u]
  BY <1>1, Moved DEF LoginStep
<1>4. /\ state' \in [Host -> [Thread -> {"new", "running", "done"}]]
      /\ state'[h][mine[t]] = "running"
      /\ \A g \in Host \ {h} : state'[g] = state[g]
      /\ \A q \in Thread \ {mine[t]} : state'[h][q] = state[h][q]
  BY <1>1, <1>2, OnceRow
<1>5. LoginTypeOK'
  BY <1>1, <1>3, <1>4 DEF LoginTypeOK
<1>6. OnceOf(h) /\ logins[h] = 0
  BY <1>2 DEF OnceInv, OnceOf, MyOnce
<1>7. AtPlace(t)'
  BY <1>1, <1>2, <1>3, <1>4, <1>6 DEF AtPlace, Now, MyOnce, HasMutex, InLoop, HasOnce, InOnce
<1>8. \A u \in Thread \ {t} : lpc[u] \in InOnce \cup {"read"} => Now(u) \in Host \ {h}
  <2> SUFFICES ASSUME NEW u \in Thread \ {t}, lpc[u] \in InOnce \cup {"read"}
               PROVE  Now(u) \in Host \ {h}
    OBVIOUS
  <2>1. AtPlace(u)
    BY DEF OnceInv
  <2>2. Now(u) \in Host
    BY <1>1, <2>1, NowInHost DEF AtPlace, InLoop, InOnce
  <2>3. onces[Now(u)] = mine[u] /\ MyOnce(u) \in {"running", "done"}
    BY <2>1 DEF AtPlace, HasOnce, InOnce
  <2> QED
    BY <1>2, <2>2, <2>3 DEF MyOnce
<1>9. \A u \in Thread \ {t} : AtPlace(u)'
  BY <1>1, <1>3, <1>4, <1>8, PlaceStays DEF OnceInv
<1>10. OnceOf(h)'
  BY <1>1, <1>2, <1>4, <1>6 DEF OnceOf
<1>11. \A g \in Host \ {h} : OnceOf(g)'
  BY <1>1, <1>4, HostStays DEF OnceInv
<1>12. Alone'
  BY <1>1, <1>3, <1>8 DEF OnceInv, Alone, Now, InOnce
<1> QED
  BY <1>5, <1>7, <1>9, <1>10, <1>11, <1>12 DEF OnceInv


LEMMA LoginInv ==
  ASSUME OnceInv, NEW t \in Thread, NEW h \in Host, h = Now(t), Login(t)
  PROVE  OnceInv'
<1>1. /\ LoginTypeOK /\ AtPlace(t) /\ lpc[t] = "login" /\ LoginGoto(t, "write")
      /\ logins' = [logins EXCEPT ![h] = @ + 1]
      /\ \E o \in {"nil", "refused"} : outcome' = [outcome EXCEPT ![h] = o]
      /\ UNCHANGED <<todo, mutex, onces, mine, state, errs, returned>>
  BY DEF OnceInv, Login, LoginAt
<1>2. /\ mine[t] \in Thread /\ onces[h] = mine[t] /\ todo[t] # << >>
      /\ state[h][mine[t]] = "running" /\ logins[h] = 0
  BY <1>1 DEF AtPlace, InLoop, HasOnce, InOnce, MyOnce
<1>3. /\ lpc' \in [Thread -> LoginStep] /\ lpc'[t] = "write"
      /\ \A u \in Thread \ {t} : lpc'[u] = lpc[u]
  BY <1>1, Moved DEF LoginStep
<1>4. /\ logins' \in [Host -> Nat] /\ logins'[h] = 1
      /\ \A g \in Host \ {h} : logins'[g] = logins[g]
  BY <1>1, <1>2 DEF LoginTypeOK
<1>5. /\ outcome' \in [Host -> {"none", "nil", "refused"}] /\ outcome'[h] # "none"
      /\ \A g \in Host \ {h} : outcome'[g] = outcome[g]
  BY <1>1 DEF LoginTypeOK
<1>6. LoginTypeOK'
  BY <1>1, <1>3, <1>4, <1>5 DEF LoginTypeOK
<1>7. AtPlace(t)'
  BY <1>1, <1>2, <1>3, <1>5 DEF AtPlace, Now, MyOnce, HasMutex, InLoop, HasOnce, InOnce
<1>8. \A u \in Thread \ {t} : lpc[u] \in InOnce => Now(u) \in Host \ {h}
  BY <1>1, OnceExcludes, NowInHost DEF OnceInv, AtPlace, InOnce, InLoop
<1>9. \A u \in Thread \ {t} : AtPlace(u)'
  BY <1>1, <1>3, <1>4, <1>5, <1>8, PlaceStays DEF OnceInv
<1>10. OnceOf(h)'
  BY <1>1, <1>2, <1>4, LoginAssumption DEF OnceInv, OnceOf
<1>11. \A g \in Host \ {h} : OnceOf(g)'
  BY <1>1, <1>4, <1>5, HostStays DEF OnceInv
<1>12. Alone'
  BY <1>1, <1>3, AloneStays DEF OnceInv, InOnce
<1> QED
  BY <1>6, <1>7, <1>9, <1>10, <1>11, <1>12 DEF OnceInv

LEMMA WriteErrInv ==
  ASSUME OnceInv, NEW t \in Thread, NEW h \in Host, h = Now(t), WriteErr(t)
  PROVE  OnceInv'
<1>1. /\ LoginTypeOK /\ AtPlace(t) /\ lpc[t] = "write" /\ LoginGoto(t, "leave")
      /\ errs' = [errs EXCEPT ![h] = outcome[h]]
      /\ UNCHANGED <<todo, mutex, onces, mine, state, returned, logins, outcome>>
  BY DEF OnceInv, WriteErr, LoginAt
<1>2. /\ mine[t] \in Thread /\ onces[h] = mine[t] /\ todo[t] # << >>
      /\ state[h][mine[t]] = "running" /\ outcome[h] \in {"nil", "refused"}
  BY <1>1, HostRows DEF AtPlace, InLoop, HasOnce, InOnce, MyOnce
<1>3. /\ lpc' \in [Thread -> LoginStep] /\ lpc'[t] = "leave"
      /\ \A u \in Thread \ {t} : lpc'[u] = lpc[u]
  BY <1>1, Moved DEF LoginStep
<1>4. /\ errs' \in [Host -> {"nil", "refused"}] /\ errs'[h] = outcome[h]
      /\ \A g \in Host \ {h} : errs'[g] = errs[g]
  BY <1>1, <1>2 DEF LoginTypeOK
<1>5. LoginTypeOK'
  BY <1>1, <1>3, <1>4 DEF LoginTypeOK
<1>6. AtPlace(t)'
  BY <1>1, <1>2, <1>3, <1>4 DEF AtPlace, Now, MyOnce, HasMutex, InLoop, HasOnce, InOnce
<1>7. \A u \in Thread \ {t} : lpc[u] \in InOnce => Now(u) \in Host \ {h}
  BY <1>1, OnceExcludes, NowInHost DEF OnceInv, AtPlace, InOnce, InLoop
<1>8. \A u \in Thread \ {t} : AtPlace(u)'
  BY <1>1, <1>3, <1>4, <1>7, PlaceStays DEF OnceInv
<1>9. OnceOf(h)'
  BY <1>1, <1>2, <1>4 DEF OnceInv, OnceOf
<1>10. \A g \in Host \ {h} : OnceOf(g)'
  BY <1>1, <1>4, HostStays DEF OnceInv
<1>11. Alone'
  BY <1>1, <1>3, AloneStays DEF OnceInv, InOnce
<1> QED
  BY <1>5, <1>6, <1>8, <1>9, <1>10, <1>11 DEF OnceInv

LEMMA LeaveInv ==
  ASSUME OnceInv, NEW t \in Thread, NEW h \in Host, h = Now(t), Leave(t)
  PROVE  OnceInv'
<1>1. /\ LoginTypeOK /\ AtPlace(t) /\ lpc[t] = "leave" /\ LoginGoto(t, "read")
      /\ state' = [state EXCEPT ![h][mine[t]] = "done"]
      /\ UNCHANGED <<todo, mutex, onces, mine, errs, returned, logins, outcome>>
  BY DEF OnceInv, Leave, LoginAt
<1>2. /\ mine[t] \in Thread /\ onces[h] = mine[t] /\ todo[t] # << >>
      /\ outcome[h] # "none" /\ errs[h] = outcome[h]
  BY <1>1 DEF AtPlace, InLoop, HasOnce
<1>3. /\ lpc' \in [Thread -> LoginStep] /\ lpc'[t] = "read"
      /\ \A u \in Thread \ {t} : lpc'[u] = lpc[u]
  BY <1>1, Moved DEF LoginStep
<1>4. /\ state' \in [Host -> [Thread -> {"new", "running", "done"}]]
      /\ state'[h][mine[t]] = "done"
      /\ \A g \in Host \ {h} : state'[g] = state[g]
      /\ \A q \in Thread \ {mine[t]} : state'[h][q] = state[h][q]
  <2>1. /\ state \in [Host -> [Thread -> {"new", "running", "done"}]] /\ mine[t] \in Thread
        /\ state' = [state EXCEPT ![h][mine[t]] = "done"]
    BY <1>1, <1>2 DEF LoginTypeOK
  <2> QED
    BY <2>1
<1>5. LoginTypeOK'
  BY <1>1, <1>3, <1>4 DEF LoginTypeOK
<1>6. AtPlace(t)'
  BY <1>1, <1>2, <1>3, <1>4 DEF AtPlace, Now, MyOnce, HasMutex, InLoop, HasOnce, InOnce
<1>7. \A u \in Thread \ {t} : lpc[u] \in InOnce \cup {"read"} => Now(u) \in Host \ {h}
  BY <1>1, OnceExcludes, NowInHost DEF OnceInv, AtPlace, InOnce, InLoop
<1>8. \A u \in Thread \ {t} : AtPlace(u)'
  BY <1>1, <1>3, <1>4, <1>7, PlaceStays DEF OnceInv
<1>9. OnceOf(h)'
  BY <1>1, <1>2, <1>4, LoginAssumption DEF OnceInv, OnceOf
<1>10. \A g \in Host \ {h} : OnceOf(g)'
  BY <1>1, <1>4, HostStays DEF OnceInv
<1>11. Alone'
  BY <1>1, <1>3, AloneStays DEF OnceInv, InOnce
<1> QED
  BY <1>5, <1>6, <1>8, <1>9, <1>10, <1>11 DEF OnceInv


LEMMA StepInv == OnceInv /\ [LoginNext]_loginVars => OnceInv'
<1> SUFFICES ASSUME OnceInv, [LoginNext]_loginVars PROVE OnceInv'
  OBVIOUS
<1>t. LoginTypeOK /\ \A t \in Thread : AtPlace(t)
  BY DEF OnceInv
<1>h. \A t \in Thread : lpc[t] \in InLoop => Now(t) \in Host
  BY <1>t, NowInHost DEF AtPlace
<1>1. ASSUME NEW t \in Thread, NextRegistry(t) PROVE OnceInv'
  <2>1. UNCHANGED <<todo, mutex, onces, mine, state, errs, logins, outcome>> /\ lpc[t] = "next"
    BY <1>1 DEF NextRegistry, LoginAt
  <2>2. /\ lpc' \in [Thread -> LoginStep] /\ \A u \in Thread \ {t} : lpc'[u] = lpc[u]
        /\ lpc'[t] \in {"done", "lock"} /\ (lpc'[t] = "lock" => todo[t] # << >>)
        /\ returned' \in [Thread -> {"none", "ok", "failed"}]
    BY <1>1, <1>t, Moved DEF NextRegistry, LoginTypeOK, LoginStep
  <2>3. LoginTypeOK'
    BY <1>t, <2>1, <2>2 DEF LoginTypeOK
  <2>4. AtPlace(t)'
    BY <2>1, <2>2 DEF AtPlace, HasMutex, InLoop, HasOnce, InOnce
  <2> QED
    BY <2>1, <2>2, <2>3, <2>4, QuietStep DEF InOnce
<1>2. ASSUME NEW t \in Thread, Lock(t) PROVE OnceInv'
  <2>1. /\ UNCHANGED <<todo, onces, mine, state, errs, returned, logins, outcome>>
        /\ lpc[t] = "lock" /\ mutex = None /\ mutex' = t
    BY <1>2 DEF Lock, LoginAt
  <2>2. lpc' \in [Thread -> LoginStep] /\ lpc'[t] = "find" /\ \A u \in Thread \ {t} : lpc'[u] = lpc[u]
    BY <1>2, <1>t, Moved DEF Lock, LoginStep
  <2>3. LoginTypeOK'
    BY <1>t, <2>1, <2>2 DEF LoginTypeOK
  <2>4. AtPlace(t)'
    BY <1>t, <2>1, <2>2 DEF AtPlace, HasMutex, InLoop, HasOnce, InOnce
  <2> QED
    BY <2>1, <2>2, <2>3, <2>4, QuietStep DEF InOnce
<1>3. ASSUME NEW t \in Thread, Find(t) PROVE OnceInv'
  <2>1. /\ UNCHANGED <<todo, mutex, onces, state, errs, returned, logins, outcome>>
        /\ lpc[t] = "find" /\ Now(t) \in Host
    BY <1>3, <1>h DEF Find, LoginAt, InLoop
  <2>2. /\ lpc' \in [Thread -> LoginStep] /\ \A u \in Thread \ {t} : lpc'[u] = lpc[u]
        /\ \/ onces[Now(t)] # None /\ lpc'[t] = "unlock" /\ mine' = [mine EXCEPT ![t] = onces[Now(t)]]
           \/ onces[Now(t)] = None /\ lpc'[t] = "insert" /\ mine' = [mine EXCEPT ![t] = t]
    BY <1>3, <1>t, Moved DEF Find, LoginStep
  <2>3. /\ mine' \in [Thread -> Thread \cup {None}] /\ \A u \in Thread \ {t} : mine'[u] = mine[u]
        /\ \/ lpc'[t] = "unlock" /\ mine'[t] \in Thread /\ mine'[t] = onces[Now(t)]
           \/ lpc'[t] = "insert" /\ mine'[t] = t /\ onces[Now(t)] = None
    <3>1. mine \in [Thread -> Thread \cup {None}] /\ onces[Now(t)] \in Thread \cup {None}
      BY <1>t, <2>1, HostRows DEF LoginTypeOK
    <3> QED
      BY <2>2, <3>1
  <2>4. LoginTypeOK'
    BY <1>t, <2>1, <2>2, <2>3 DEF LoginTypeOK
  <2>5. AtPlace(t)'
    BY <1>t, <2>1, <2>3 DEF AtPlace, Now, HasMutex, InLoop, HasOnce, InOnce
  <2> QED
    BY <2>1, <2>2, <2>3, <2>4, <2>5, QuietStep DEF InOnce
<1>4. ASSUME NEW t \in Thread, Insert(t) PROVE OnceInv'
  BY <1>4, <1>h, InsertInv DEF Insert, LoginAt, InLoop
<1>5. ASSUME NEW t \in Thread, Unlock(t) PROVE OnceInv'
  <2>1. /\ UNCHANGED <<todo, onces, mine, state, errs, returned, logins, outcome>>
        /\ lpc[t] = "unlock" /\ mutex' = None
    BY <1>5 DEF Unlock, LoginAt
  <2>2. lpc' \in [Thread -> LoginStep] /\ lpc'[t] = "do" /\ \A u \in Thread \ {t} : lpc'[u] = lpc[u]
    BY <1>5, <1>t, Moved DEF Unlock, LoginStep
  <2>3. LoginTypeOK'
    BY <1>t, <2>1, <2>2 DEF LoginTypeOK
  <2>4. AtPlace(t)'
    BY <1>t, <2>1, <2>2 DEF AtPlace, Now, HasMutex, InLoop, HasOnce, InOnce
  <2> QED
    BY <2>1, <2>2, <2>3, <2>4, QuietStep DEF InOnce
<1>6. ASSUME NEW t \in Thread, Do(t) PROVE OnceInv'
  <2>1. lpc[t] = "do" /\ MyOnce(t) # "running" /\ Now(t) \in Host
    BY <1>6, <1>h DEF Do, LoginAt, InLoop
  <2>2. CASE MyOnce(t) = "new"
    BY <1>6, <2>1, <2>2, DoInv
  <2>3. CASE MyOnce(t) # "new"
    <3>1. /\ UNCHANGED <<todo, mutex, onces, mine, state, errs, returned, logins, outcome>>
          /\ LoginGoto(t, "read")
      BY <1>6, <2>3 DEF Do
    <3>2. lpc' \in [Thread -> LoginStep] /\ lpc'[t] = "read" /\ \A u \in Thread \ {t} : lpc'[u] = lpc[u]
      BY <1>t, <3>1, Moved DEF LoginStep
    <3>3. LoginTypeOK'
      BY <1>t, <3>1, <3>2 DEF LoginTypeOK
    <3>4. mine[t] \in Thread /\ MyOnce(t) = "done"
      BY <1>t, <2>1, <2>3, HostRows DEF AtPlace, HasOnce, MyOnce
    <3>5. AtPlace(t)'
      BY <1>t, <2>1, <3>1, <3>2, <3>4 DEF AtPlace, Now, MyOnce, HasMutex, InLoop, HasOnce, InOnce
    <3> QED
      BY <3>1, <3>2, <3>3, <3>5, QuietStep DEF InOnce
  <2> QED
    BY <2>2, <2>3
<1>7. ASSUME NEW t \in Thread, Login(t) PROVE OnceInv'
  BY <1>7, <1>h, LoginInv DEF Login, LoginAt, InLoop
<1>8. ASSUME NEW t \in Thread, WriteErr(t) PROVE OnceInv'
  BY <1>8, <1>h, WriteErrInv DEF WriteErr, LoginAt, InLoop
<1>9. ASSUME NEW t \in Thread, Leave(t) PROVE OnceInv'
  BY <1>9, <1>h, LeaveInv DEF Leave, LoginAt, InLoop
<1>10. ASSUME NEW t \in Thread, ReadErr(t) PROVE OnceInv'
  <2>1. /\ UNCHANGED <<mutex, onces, mine, state, errs, logins, outcome>> /\ lpc[t] = "read"
        /\ todo[t] # << >>
    BY <1>10, <1>t DEF ReadErr, LoginAt, AtPlace, InLoop
  <2>2. /\ lpc' \in [Thread -> LoginStep] /\ lpc'[t] \in {"next", "done"}
        /\ \A u \in Thread \ {t} : lpc'[u] = lpc[u]
    BY <1>10, <1>t, Moved DEF ReadErr, LoginStep
  <2>3. /\ todo' \in [Thread -> Seq(Host)] /\ \A u \in Thread \ {t} : todo'[u] = todo[u]
    BY <1>10, <1>t, <2>1, NowInHost DEF ReadErr, LoginTypeOK
  <2>4. returned' \in [Thread -> {"none", "ok", "failed"}]
    BY <1>10, <1>t DEF ReadErr, LoginTypeOK
  <2>5. LoginTypeOK'
    BY <1>t, <2>1, <2>2, <2>3, <2>4 DEF LoginTypeOK
  <2>6. AtPlace(t)'
    BY <2>2 DEF AtPlace, HasMutex, InLoop, HasOnce, InOnce
  <2> QED
    BY <2>1, <2>2, <2>3, <2>5, <2>6, QuietStep DEF InOnce
<1>11. CASE UNCHANGED loginVars
  <2>1. UNCHANGED <<lpc, todo, mutex, onces, mine, state, errs, returned, logins, outcome>>
    BY <1>11 DEF loginVars
  <2>2. LoginTypeOK'
    BY <1>t, <2>1 DEF LoginTypeOK
  <2>3. \A t \in Thread : AtPlace(t)'
    BY <1>t, <2>1, PlaceStays
  <2>4. \A h \in Host : OnceOf(h)'
    BY <2>1, HostStays DEF OnceInv
  <2> QED
    BY <2>1, <2>2, <2>3, <2>4 DEF OnceInv, Alone, Now
<1> QED
  BY <1>1, <1>2, <1>3, <1>4, <1>5, <1>6, <1>7, <1>8, <1>9, <1>10, <1>11 DEF LoginNext, LoginAdvance

-------------------------------------------------------------------------------
(* The registries a thread has behind it: their number, and that what is   *)
(* left is the rest of its list.                                           *)
Behind(t) == Len(Registries[t]) - Len(todo[t])

LoggedInBehind(t) ==
  /\ Behind(t) \in Nat
  /\ \A i \in 1..Len(todo[t]) : todo[t][i] = Registries[t][Behind(t) + i]
  /\ \A i \in 1..Behind(t) : outcome[Registries[t][i]] = "nil"
  /\ returned[t] = "ok" => todo[t] = << >>

LoginsInv == OnceInv /\ \A t \in Thread : LoggedInBehind(t)

LEMMA TodoFacts ==
  ASSUME LoginTypeOK, NEW t \in Thread
  PROVE  /\ todo[t] \in Seq(Host) /\ Len(todo[t]) \in Nat
         /\ Registries[t] \in Seq(Host) /\ Len(Registries[t]) \in Nat
         /\ \A i \in 1..Len(Registries[t]) : Registries[t][i] \in Host
  BY LoginAssumption DEF LoginTypeOK

(* An answer once given stays: there is no second login to the host.       *)
LEMMA AnswerStays ==
  ASSUME OnceInv, [LoginNext]_loginVars, NEW h \in Host, outcome[h] = "nil"
  PROVE  outcome'[h] = "nil"
<1>1. ASSUME NEW t \in Thread, Login(t) PROVE outcome'[h] = "nil"
  <2>1. AtPlace(t) /\ lpc[t] = "login" /\ OnceOf(h) /\ outcome \in [Host -> {"none", "nil", "refused"}]
    BY <1>1 DEF OnceInv, Login, LoginAt, LoginTypeOK
  <2>2. Now(t) # h
    BY <2>1 DEF AtPlace, OnceOf
  <2> QED
    BY <1>1, <2>1, <2>2 DEF Login
<1>2. CASE ~\E t \in Thread : Login(t)
  <2>1. outcome' = outcome
    BY <1>2 DEF LoginNext, LoginAdvance, loginVars, NextRegistry, Lock, Find, Insert, Unlock, Do,
                WriteErr, Leave, ReadErr
  <2> QED
    BY <2>1
<1> QED
  BY <1>1, <1>2

LEMMA BehindStays ==
  ASSUME OnceInv, [LoginNext]_loginVars, NEW t \in Thread, LoggedInBehind(t),
         todo'[t] = todo[t], returned'[t] = "ok" => todo[t] = << >>
  PROVE  LoggedInBehind(t)'
<1>1. Behind(t)' = Behind(t)
  BY DEF Behind
<1>2. \A i \in 1..Behind(t) : outcome'[Registries[t][i]] = "nil"
  <2> SUFFICES ASSUME NEW i \in 1..Behind(t) PROVE outcome'[Registries[t][i]] = "nil"
    OBVIOUS
  <2>1. i \in 1..Len(Registries[t])
    BY TodoFacts DEF OnceInv, LoggedInBehind, Behind
  <2> QED
    BY <2>1, TodoFacts, AnswerStays DEF OnceInv, LoggedInBehind
<1> QED
  BY <1>1, <1>2 DEF LoggedInBehind

(* The one step that puts a registry behind: its answer was no error.      *)
LEMMA ReadErrBehind ==
  ASSUME OnceInv, [LoginNext]_loginVars, NEW t \in Thread, LoggedInBehind(t), ReadErr(t),
         errs[Now(t)] = "nil"
  PROVE  LoggedInBehind(t)'
<1>1. /\ LoginTypeOK /\ AtPlace(t) /\ lpc[t] = "read" /\ todo[t] # << >>
      /\ returned' = returned /\ outcome' = outcome /\ todo' = [todo EXCEPT ![t] = Tail(@)]
  BY DEF OnceInv, ReadErr, LoginAt, AtPlace, InLoop
<1>2. Now(t) \in Host /\ outcome[Now(t)] = "nil"
  BY <1>1, NowInHost, HostRows DEF OnceInv, OnceOf, AtPlace, HasOnce, MyOnce
<1>3. /\ todo'[t] = Tail(todo[t]) /\ Len(todo'[t]) = Len(todo[t]) - 1
      /\ \A i \in 1..Len(todo'[t]) : todo'[t][i] = todo[t][i + 1]
  BY <1>1, TodoFacts, HeadTailProperties DEF LoginTypeOK
<1>4. Len(todo[t]) \in Nat \ {0} /\ Now(t) = todo[t][1]
  BY <1>1, TodoFacts, EmptySeq DEF Now
<1>5. Behind(t)' = Behind(t) + 1 /\ Behind(t) \in Nat
  <2>1. /\ Behind(t)' = Len(Registries[t]) - Len(todo'[t])
        /\ Behind(t) = Len(Registries[t]) - Len(todo[t])
    BY DEF Behind
  <2>2. Len(Registries[t]) \in Nat
    BY <1>1, TodoFacts
  <2>3. Behind(t) \in Nat
    BY DEF LoggedInBehind
  <2> QED
    BY <1>3, <1>4, <2>1, <2>2, <2>3
<1>6. \A i \in 1..Len(todo'[t]) : todo'[t][i] = Registries[t][Behind(t)' + i]
  <2> SUFFICES ASSUME NEW i \in 1..Len(todo'[t])
               PROVE  todo'[t][i] = Registries[t][Behind(t)' + i]
    OBVIOUS
  <2>1. i + 1 \in 1..Len(todo[t]) /\ Behind(t)' + i = Behind(t) + (i + 1)
    BY <1>3, <1>4, <1>5
  <2> QED
    BY <1>3, <2>1 DEF LoggedInBehind
<1>7. \A i \in 1..Behind(t)' : outcome'[Registries[t][i]] = "nil"
  <2>1. Registries[t][Behind(t) + 1] = Now(t)
    BY <1>4 DEF LoggedInBehind
  <2>2. \A i \in 1..Behind(t)' : i \in 1..Behind(t) \/ i = Behind(t) + 1
    BY <1>5
  <2> QED
    BY <1>1, <1>2, <2>1, <2>2 DEF LoggedInBehind
<1>8. returned'[t] # "ok"
  BY <1>1 DEF LoggedInBehind
<1> QED
  BY <1>5, <1>6, <1>7, <1>8 DEF LoggedInBehind

LEMMA LoginsStep == LoginsInv /\ [LoginNext]_loginVars => LoginsInv'
<1> SUFFICES ASSUME LoginsInv, [LoginNext]_loginVars, NEW t \in Thread PROVE LoggedInBehind(t)'
  BY StepInv DEF LoginsInv
<1>1. OnceInv /\ LoginTypeOK /\ LoggedInBehind(t) /\ todo \in [Thread -> Seq(Host)]
      /\ returned \in [Thread -> {"none", "ok", "failed"}]
  BY DEF LoginsInv, OnceInv, LoginTypeOK
<1>2. ASSUME NEW u \in Thread, ReadErr(u) PROVE LoggedInBehind(t)'
  <2>1. CASE u = t /\ errs[Now(t)] = "nil"
    BY <1>1, <1>2, <2>1, ReadErrBehind
  <2>2. CASE u # t
    <3>1. todo'[t] = todo[t] /\ returned'[t] = returned[t]
      BY <1>1, <1>2, <2>2 DEF ReadErr
    <3> QED
      BY <1>1, <3>1, BehindStays DEF LoggedInBehind
  <2>3. CASE u = t /\ errs[Now(t)] # "nil"
    <3>1. todo'[t] = todo[t] /\ returned'[t] = "failed"
      BY <1>1, <1>2, <2>3 DEF ReadErr
    <3> QED
      BY <1>1, <3>1, BehindStays
  <2> QED
    BY <2>1, <2>2, <2>3
<1>3. ASSUME NEW u \in Thread, NextRegistry(u) PROVE LoggedInBehind(t)'
  <2>1. todo' = todo /\ (returned'[t] = "ok" => returned[t] = "ok" \/ todo[t] = << >>)
    BY <1>1, <1>3 DEF NextRegistry
  <2> QED
    BY <1>1, <2>1, BehindStays DEF LoggedInBehind
<1>4. CASE ~\E u \in Thread : ReadErr(u) \/ NextRegistry(u)
  <2>1. todo' = todo /\ returned' = returned
    BY <1>4 DEF LoginNext, LoginAdvance, loginVars, Lock, Find, Insert, Unlock, Do, Login, WriteErr, Leave
  <2> QED
    BY <1>1, <2>1, BehindStays DEF LoggedInBehind
<1> QED
  BY <1>2, <1>3, <1>4

-------------------------------------------------------------------------------
LEMMA Invariance == LoginSpec => []OnceInv
BY InitInv, StepInv, PTL DEF LoginSpec

(* Every thread, Once and error keeps its type: a thread that is past the  *)
(* map holds the Once of some thread, and no error is left half-written.   *)
THEOREM TypeCorrect == LoginSpec => []LoginTypeOK
<1>1. OnceInv => LoginTypeOK
  BY DEF OnceInv
<1> QED
  BY <1>1, Invariance, PTL

(* However many builds log in to however many registries, their steps in   *)
(* any order: each registry is logged in to at most once.                  *)
THEOREM OneLogin == LoginSpec => []LoginOncePerHost
<1>1. OnceInv => LoginOncePerHost
  BY DEF OnceInv, OnceOf, LoginOncePerHost
<1> QED
  BY <1>1, Invariance, PTL

(* With an error beside each Once, as ConfigureDockerAuth keeps it, no two *)
(* threads are ever at the same error while one of them writes it: the     *)
(* Once of the host orders them. The theorem says nothing of one map for   *)
(* all hosts, where threads in the Onces of two hosts do meet.             *)
THEOREM ErrorsDoNotRace ==
  ASSUME SharedErrs = FALSE
  PROVE  LoginSpec => []NoRace
<1>1. OnceInv => NoRace
  <2> SUFFICES ASSUME OnceInv, NEW t \in Thread, NEW u \in Thread, t # u, LoginAt(t, "write"),
                      lpc[u] \in {"write", "read"}, Now(u) = Now(t)
               PROVE  FALSE
    BY DEF NoRace, SamePlace
  <2>1. lpc[t] \in InOnce /\ u \in Thread \ {t}
    BY DEF LoginAt, InOnce
  <2> QED
    BY <2>1, OnceExcludes DEF InOnce
<1> QED
  BY <1>1, Invariance, PTL

(* A build goes ahead only with every registry of its list logged in to,   *)
(* whoever did it.                                                         *)
THEOREM BuildsLoggedIn == LoginSpec => []OkMeansLoggedIn
<1>1. LoginInit => LoginsInv
  BY InitInv, LoginAssumption DEF LoginInit, LoginsInv, LoggedInBehind, Behind
<1>2. LoginsInv => OkMeansLoggedIn
  <2> SUFFICES ASSUME LoginsInv, NEW t \in Thread, returned[t] = "ok",
                      NEW i \in 1..Len(Registries[t])
               PROVE  outcome[Registries[t][i]] = "nil"
    BY DEF OkMeansLoggedIn
  <2>1. Behind(t) = Len(Registries[t])
    <3>1. todo[t] = << >> /\ LoginTypeOK
      BY DEF LoginsInv, OnceInv, LoggedInBehind
    <3>2. Len(todo[t]) = 0
      BY <3>1
    <3> QED
      BY <3>1, <3>2, TodoFacts DEF Behind
  <2> QED
    BY <2>1 DEF LoginsInv, LoggedInBehind
<1> QED
  BY <1>1, <1>2, LoginsStep, PTL DEF LoginSpec

-------------------------------------------------------------------------------
(* The refinement: the mutex, the map and the Onces are stutters; the      *)
(* login is the one step that answers, the read of the error goes past the *)
(* host or gives up.                                                       *)

RunningInv == \A t \in Thread : lpc[t] # "done" => returned[t] = "none"

LEMMA RunningStep == OnceInv /\ RunningInv /\ [LoginNext]_loginVars => RunningInv'
<1> SUFFICES ASSUME OnceInv, RunningInv, [LoginNext]_loginVars, NEW t \in Thread, lpc'[t] # "done"
             PROVE  lpc[t] # "done" /\ returned'[t] = returned[t]
  BY DEF RunningInv
<1>1. lpc \in [Thread -> LoginStep] /\ returned \in [Thread -> {"none", "ok", "failed"}]
  BY DEF OnceInv, LoginTypeOK
<1>2. ASSUME NEW u \in Thread, LoginAdvance(u)
      PROVE  lpc[t] # "done" /\ returned'[t] = returned[t]
  BY <1>1, <1>2 DEF LoginAdvance, NextRegistry, Lock, Find, Insert, Unlock, Do, Login, WriteErr,
     Leave, ReadErr, LoginAt, LoginGoto
<1>3. CASE UNCHANGED loginVars
  BY <1>3 DEF loginVars
<1> QED
  BY <1>2, <1>3 DEF LoginNext

LEMMA StepRefines ==
  ASSUME OnceInv, RunningInv, NEW t \in Thread, LoginAdvance(t)
  PROVE  Promise!Next \/ UNCHANGED <<outcome, todo, returned>>
<1>1. /\ LoginTypeOK /\ AtPlace(t) /\ returned \in [Thread -> {"none", "ok", "failed"}]
      /\ lpc[t] # "done" => returned[t] = "none"
  BY DEF OnceInv, LoginTypeOK, RunningInv
<1>2. ASSUME lpc[t] \in InLoop
      PROVE  /\ Now(t) \in Host /\ Promise!AtHost(t, Now(t)) /\ OnceOf(Now(t))
             /\ errs[Now(t)] \in {"nil", "refused"}
  <2>1. todo[t] # << >> /\ returned[t] = "none"
    BY <1>1, <1>2 DEF AtPlace, InLoop
  <2>2. Now(t) \in Host
    BY <1>1, <2>1, NowInHost
  <2>3. Promise!AtHost(t, Now(t))
    BY <2>1, Zenon DEF Promise!AtHost, Now
  <2> QED
    BY <1>1, <2>2, <2>3, HostRows DEF OnceInv
<1>3. CASE Login(t)
  <2>1. lpc[t] = "login" /\ todo' = todo /\ returned' = returned
    BY <1>3 DEF Login, LoginAt
  <2>2. Now(t) \in Host /\ Promise!AtHost(t, Now(t)) /\ outcome[Now(t)] = "none"
    BY <1>1, <1>2, <2>1 DEF InLoop, AtPlace, OnceOf
  <2>3. \E o \in {"nil", "refused"} : outcome' = [outcome EXCEPT ![Now(t)] = o]
    BY <1>3 DEF Login
  <2>4. Promise!Authenticate(Now(t))
    BY <2>1, <2>2, <2>3, Zenon DEF Promise!Authenticate
  <2> QED
    BY <2>2, <2>4, Zenon DEF Promise!Next
<1>4. CASE ReadErr(t)
  <2>1. lpc[t] = "read" /\ outcome' = outcome
    BY <1>4 DEF ReadErr, LoginAt
  <2>2. Now(t) \in Host /\ Promise!AtHost(t, Now(t)) /\ errs[Now(t)] = outcome[Now(t)]
    BY <1>1, <1>2, <2>1 DEF InLoop, HasOnce, AtPlace, OnceOf, MyOnce
  <2>3. CASE errs[Now(t)] = "nil"
    <3>1. todo' = [todo EXCEPT ![t] = Tail(@)] /\ returned' = returned
      BY <1>4, <2>3 DEF ReadErr
    <3>2. Promise!Pass(t)
      BY <2>1, <2>2, <2>3, <3>1, Zenon DEF Promise!Pass
    <3> QED
      BY <3>2, Zenon DEF Promise!Next
  <2>4. CASE errs[Now(t)] # "nil"
    <3>1. outcome[Now(t)] = "refused"
      BY <1>2, <2>1, <2>2, <2>4 DEF InLoop
    <3>2. returned' = [returned EXCEPT ![t] = "failed"] /\ todo' = todo
      BY <1>4, <2>4 DEF ReadErr
    <3>3. Promise!GiveUp(t)
      BY <2>1, <2>2, <3>1, <3>2, Zenon DEF Promise!GiveUp
    <3> QED
      BY <3>3, Zenon DEF Promise!Next
  <2> QED
    BY <2>3, <2>4
<1>5. CASE NextRegistry(t)
  <2>1. CASE todo[t] = << >>
    <3>1. /\ lpc[t] = "next" /\ outcome' = outcome /\ todo' = todo
          /\ returned' = [returned EXCEPT ![t] = "ok"]
      BY <1>5, <2>1 DEF NextRegistry, LoginAt
    <3>2. Promise!Proceed(t)
      BY <1>1, <2>1, <3>1, Zenon DEF Promise!Proceed
    <3> QED
      BY <3>2, Zenon DEF Promise!Next
  <2>2. CASE todo[t] # << >>
    BY <1>5, <2>2 DEF NextRegistry
  <2> QED
    BY <2>1, <2>2
<1>6. CASE Lock(t) \/ Find(t) \/ Insert(t) \/ Unlock(t) \/ Do(t) \/ WriteErr(t) \/ Leave(t)
  BY <1>6 DEF Lock, Find, Insert, Unlock, Do, WriteErr, Leave
<1> QED
  BY <1>3, <1>4, <1>5, <1>6 DEF LoginAdvance

(* A host answers once, whichever call asks it, and the answer is what     *)
(* every call then goes by: LoginOnce implements SharedLogins. With one    *)
(* map of errors that is so in every run that its race (NoRace) lets live. *)
THEOREM Refinement == LoginSpec => RefinesSharedLogins
<1>1. LoginInit => Promise!Init /\ RunningInv
  BY DEF LoginInit, Promise!Init, RunningInv
<1>2. OnceInv /\ RunningInv /\ [LoginNext]_loginVars => [Promise!Next]_(Promise!vars)
  <2> SUFFICES ASSUME OnceInv, RunningInv, [LoginNext]_loginVars
               PROVE  Promise!Next \/ UNCHANGED <<outcome, todo, returned>>
    BY Zenon DEF Promise!vars
  <2> QED
    BY StepRefines DEF LoginNext, loginVars
<1> QED
  BY <1>1, <1>2, Invariance, RunningStep, PTL DEF LoginSpec, RefinesSharedLogins, Promise!Spec

-------------------------------------------------------------------------------
(* No waiter is left behind: the mutex is held by a thread that is on its  *)
(* way to the Unlock, and in a Once that runs there is a thread that runs  *)
(* it.                                                                     *)

Attended ==
  /\ mutex # None => mutex \in Thread /\ lpc[mutex] \in HasMutex
  /\ \A h \in Host, o \in Thread : state[h][o] = "running" =>
       \E t \in Thread : lpc[t] \in InOnce /\ Now(t) = h /\ mine[t] = o

LEMMA AttendedStep == OnceInv /\ Attended /\ [LoginNext]_loginVars => Attended'
<1> SUFFICES ASSUME OnceInv, Attended, [LoginNext]_loginVars PROVE Attended'
  OBVIOUS
<1>t. /\ LoginTypeOK /\ lpc \in [Thread -> LoginStep] /\ todo \in [Thread -> Seq(Host)]
      /\ mine \in [Thread -> Thread \cup {None}]
      /\ state \in [Host -> [Thread -> {"new", "running", "done"}]]
      /\ \A t \in Thread : AtPlace(t)
  BY DEF OnceInv, LoginTypeOK
<1>1. mutex' # None => mutex' \in Thread /\ lpc'[mutex'] \in HasMutex
  <2>1. ASSUME NEW u \in Thread, LoginAdvance(u), mutex' # None
        PROVE  mutex' \in Thread /\ lpc'[mutex'] \in HasMutex
    <3>1. CASE Lock(u)
      BY <1>t, <3>1 DEF Lock, LoginGoto, HasMutex
    <3>2. CASE Find(u) \/ Insert(u)
      BY <1>t, <2>1, <3>2 DEF Find, Insert, LoginGoto, HasMutex, Attended
    <3>3. CASE Unlock(u)
      BY <2>1, <3>3 DEF Unlock
    <3>4. CASE \/ NextRegistry(u) \/ Do(u) \/ Login(u) \/ WriteErr(u) \/ Leave(u) \/ ReadErr(u)
      <4>1. /\ mutex' = mutex /\ lpc[u] \notin HasMutex
            /\ \A t \in Thread \ {u} : lpc'[t] = lpc[t]
        BY <1>t, <3>4 DEF NextRegistry, Do, Login, WriteErr, Leave, ReadErr, LoginAt, LoginGoto, HasMutex
      <4> QED
        BY <2>1, <4>1 DEF Attended
    <3> QED
      BY <2>1, <3>1, <3>2, <3>3, <3>4 DEF LoginAdvance
  <2>2. CASE UNCHANGED loginVars
    BY <2>2 DEF loginVars, Attended
  <2> QED
    BY <2>1, <2>2 DEF LoginNext
<1>2. ASSUME NEW h \in Host, NEW o \in Thread, state'[h][o] = "running"
      PROVE  \E t \in Thread : lpc'[t] \in InOnce /\ Now(t)' = h /\ mine'[t] = o
  <2>1. ASSUME NEW u \in Thread, LoginAdvance(u)
        PROVE  \E t \in Thread : lpc'[t] \in InOnce /\ Now(t)' = h /\ mine'[t] = o
    <3>o. \A t \in Thread \ {u} : lpc'[t] = lpc[t] /\ todo'[t] = todo[t] /\ mine'[t] = mine[t]
      BY <1>t, <2>1 DEF LoginAdvance, NextRegistry, Lock, Find, Insert, Unlock, Do, Login, WriteErr,
         Leave, ReadErr, LoginGoto
    <3>n. lpc[u] \in InOnce => Now(u) \in Host /\ mine[u] \in Thread
      BY <1>t, NowInHost DEF AtPlace, InOnce, InLoop, HasOnce
    <3>1. CASE state[h][o] = "running"
      <4>1. PICK t \in Thread : lpc[t] \in InOnce /\ Now(t) = h /\ mine[t] = o
        BY <3>1 DEF Attended
      <4>2. CASE t # u
        BY <3>o, <4>1, <4>2 DEF Now
      <4>3. CASE t = u
        <5>1. CASE Login(u) \/ WriteErr(u)
          <6>1. lpc'[u] \in InOnce /\ todo' = todo /\ mine' = mine
            BY <1>t, <5>1 DEF Login, WriteErr, LoginGoto, InOnce
          <6> QED
            BY <4>1, <4>3, <6>1 DEF Now
        <5>2. CASE Leave(u)
          BY <1>2, <1>t, <4>1, <4>3, <5>2 DEF Leave
        <5> QED
          BY <2>1, <4>1, <4>3, <5>1, <5>2 DEF LoginAdvance, NextRegistry, Lock, Find, Insert, Unlock,
             Do, ReadErr, LoginAt, InOnce
      <4> QED
        BY <4>2, <4>3
    <3>2. CASE state[h][o] # "running"
      <4>1. state' # state
        BY <1>2, <3>2
      <4>2. CASE Do(u)
        <5>1. MyOnce(u) = "new" /\ LoginGoto(u, "login") /\ todo' = todo /\ mine' = mine
          BY <4>1, <4>2 DEF Do
        <5>2. state' = [state EXCEPT ![Now(u)][mine[u]] = "running"]
          BY <4>1, <4>2 DEF Do
        <5>3. lpc[u] = "do"
          BY <4>2 DEF Do, LoginAt
        <5>4. Now(u) \in Host /\ mine[u] \in Thread
          BY <1>t, <5>3, NowInHost DEF AtPlace, InLoop, HasOnce
        <5>5. h = Now(u) /\ o = mine[u]
          BY <1>2, <1>t, <3>2, <5>2, <5>4
        <5>6. lpc'[u] = "login"
          BY <1>t, <5>1 DEF LoginGoto
        <5> QED
          BY <5>1, <5>5, <5>6 DEF Now, InOnce
      <4>3. CASE Leave(u)
        BY <1>2, <1>t, <3>2, <4>3 DEF Leave
      <4> QED
        BY <2>1, <4>1, <4>2, <4>3 DEF LoginAdvance, NextRegistry, Lock, Find, Insert, Unlock, Login,
           WriteErr, ReadErr
    <3> QED
      BY <3>1, <3>2
  <2>2. CASE UNCHANGED loginVars
    BY <1>2, <2>2 DEF loginVars, Attended, Now
  <2> QED
    BY <2>1, <2>2 DEF LoginNext
<1> QED
  BY <1>1, <1>2 DEF Attended

(* When a thread has a step to take. *)
CanMove(t) ==
  /\ lpc[t] # "done"
  /\ lpc[t] = "lock" => mutex = None
  /\ lpc[t] = "do" => MyOnce(t) # "running"

NobodyStuck == (\E t \in Thread : lpc[t] # "done") => \E t \in Thread : CanMove(t)

(* The calls never wait for one another in a ring, whatever the registries *)
(* they share and the order they log in to them: as long as one has not    *)
(* returned, one can go on.                                                *)
THEOREM NoDeadlock == LoginSpec => []NobodyStuck
<1>1. LoginInit => Attended
  BY DEF LoginInit, Attended
<1>2. OnceInv /\ Attended => NobodyStuck
  <2> SUFFICES ASSUME OnceInv, Attended, NEW t \in Thread, lpc[t] # "done"
               PROVE  \E u \in Thread : CanMove(u)
    BY DEF NobodyStuck
  <2>1. CASE lpc[t] = "lock" /\ mutex # None
    BY <2>1 DEF Attended, CanMove, HasMutex
  <2>2. CASE lpc[t] = "do" /\ MyOnce(t) = "running"
    <3>1. Now(t) \in Host /\ mine[t] \in Thread
      BY <2>2, NowInHost DEF OnceInv, AtPlace, InLoop, HasOnce
    <3>2. PICK u \in Thread : lpc[u] \in InOnce
      BY <2>2, <3>1 DEF Attended, MyOnce
    <3> QED
      BY <3>2 DEF CanMove, InOnce
  <2> QED
    BY <2>1, <2>2 DEF CanMove
<1> QED
  BY <1>1, <1>2, Invariance, AttendedStep, PTL DEF LoginSpec

(* The steps a call has left: nine at most for each registry, and two to   *)
(* come to the next and to return.                                         *)
Passed ==
  [lock |-> 0, find |-> 1, insert |-> 2, unlock |-> 3, do |-> 4, login |-> 5, write |-> 6,
   leave |-> 7, read |-> 8]

StepsLeft(t) ==
  IF lpc[t] = "done" THEN 0
  ELSE IF lpc[t] = "next" THEN 10 * Len(todo[t]) + 1
  ELSE 10 * Len(todo[t]) - Passed[lpc[t]]

Countdown ==
  \A t \in Thread :
    /\ StepsLeft(t) \in Nat
    /\ StepsLeft(t) = 0 => lpc[t] = "done"

Nearer(t) ==
  /\ StepsLeft(t)' < StepsLeft(t)
  /\ \A u \in Thread \ {t} : StepsLeft(u)' = StepsLeft(u)

LEMMA CountdownFacts == OnceInv => Countdown
<1> SUFFICES ASSUME OnceInv, NEW t \in Thread
             PROVE  StepsLeft(t) \in Nat /\ (StepsLeft(t) = 0 => lpc[t] = "done")
  BY DEF Countdown
<1>1. lpc[t] \in LoginStep /\ Len(todo[t]) \in Nat
  BY TodoFacts DEF OnceInv, LoginTypeOK
<1>2. CASE lpc[t] \in InLoop
  <2>1. Len(todo[t]) >= 1
    BY <1>1, <1>2, TodoFacts, EmptySeq DEF OnceInv, AtPlace
  <2>2. Passed[lpc[t]] \in 0..8 /\ lpc[t] \notin {"done", "next"}
    BY <1>2 DEF Passed, InLoop
  <2> QED
    BY <1>1, <2>1, <2>2 DEF StepsLeft
<1>3. CASE lpc[t] \in {"next", "done"}
  BY <1>1, <1>3 DEF StepsLeft
<1> QED
  BY <1>1, <1>2, <1>3 DEF LoginStep, InLoop

(* Where a step leads: down the list, to the next registry, or out.        *)
LEMMA StepGoes ==
  ASSUME OnceInv, NEW t \in Thread, LoginAdvance(t)
  PROVE  \/ todo'[t] = todo[t] /\ lpc[t] = "next" /\ lpc'[t] = "lock"
         \/ /\ todo'[t] = todo[t] /\ lpc[t] \in InLoop /\ lpc'[t] \in InLoop
            /\ Passed[lpc[t]] < Passed[lpc'[t]]
         \/ todo'[t] = Tail(todo[t]) /\ lpc[t] = "read" /\ lpc'[t] = "next"
         \/ lpc[t] # "done" /\ lpc'[t] = "done"
<1>1. lpc \in [Thread -> LoginStep] /\ todo \in [Thread -> Seq(Host)]
  BY DEF OnceInv, LoginTypeOK
<1>2. CASE NextRegistry(t) \/ ReadErr(t)
  BY <1>1, <1>2 DEF NextRegistry, ReadErr, LoginAt, LoginGoto
<1>3. CASE \/ Lock(t) \/ Find(t) \/ Insert(t) \/ Unlock(t)
           \/ Do(t) \/ Login(t) \/ WriteErr(t) \/ Leave(t)
  <2>1. /\ todo' = todo
        /\ <<lpc[t], lpc'[t]>> \in {<<"lock", "find">>, <<"find", "insert">>, <<"find", "unlock">>,
             <<"insert", "unlock">>, <<"unlock", "do">>, <<"do", "login">>, <<"do", "read">>,
             <<"login", "write">>, <<"write", "leave">>, <<"leave", "read">>}
    BY <1>1, <1>3 DEF Lock, Find, Insert, Unlock, Do, Login, WriteErr, Leave, LoginAt, LoginGoto
  <2>2. lpc[t] \in InLoop /\ lpc'[t] \in InLoop
    BY <2>1 DEF InLoop
  <2>3. Passed[lpc[t]] < Passed[lpc'[t]]
    BY <2>1 DEF Passed
  <2> QED
    BY <2>1, <2>2, <2>3
<1> QED
  BY <1>2, <1>3 DEF LoginAdvance

LEMMA NearerStep ==
  ASSUME OnceInv, OnceInv', NEW t \in Thread, LoginAdvance(t)
  PROVE  Nearer(t)
<1>1. /\ todo[t] \in Seq(Host) /\ Len(todo[t]) \in Nat
      /\ lpc[t] \in InLoop => Len(todo[t]) >= 1 /\ todo[t] # << >>
  BY TodoFacts, EmptySeq DEF OnceInv, AtPlace
<1>2. \A step \in InLoop : Passed[step] \in 0..8 /\ step \notin {"next", "done"}
  BY DEF InLoop, Passed
<1>3. StepsLeft(t)' < StepsLeft(t)
  <2>1. CASE todo'[t] = todo[t] /\ lpc[t] = "next" /\ lpc'[t] = "lock"
    BY <1>1, <2>1 DEF StepsLeft, Passed
  <2>2. CASE /\ todo'[t] = todo[t] /\ lpc[t] \in InLoop /\ lpc'[t] \in InLoop
             /\ Passed[lpc[t]] < Passed[lpc'[t]]
    <3>1. /\ StepsLeft(t) = 10 * Len(todo[t]) - Passed[lpc[t]]
          /\ StepsLeft(t)' = 10 * Len(todo[t]) - Passed[lpc'[t]]
      BY <1>2, <2>2 DEF StepsLeft
    <3>2. PICK a \in Nat, b \in Nat : a = Passed[lpc[t]] /\ b = Passed[lpc'[t]] /\ a < b
      <4>1. Passed[lpc[t]] \in Nat /\ Passed[lpc'[t]] \in Nat
        BY <1>2, <2>2
      <4> QED
        BY <2>2, <4>1
    <3>3. StepsLeft(t) = 10 * Len(todo[t]) - a /\ StepsLeft(t)' = 10 * Len(todo[t]) - b
      BY <3>1, <3>2
    <3>4. \A n \in Nat : 10 * n - b < 10 * n - a
      BY <3>2
    <3> QED
      BY <1>1, <3>3, <3>4
  <2>3. CASE todo'[t] = Tail(todo[t]) /\ lpc[t] = "read" /\ lpc'[t] = "next"
    <3>1. todo[t] # << >>
      BY <1>1, <2>3 DEF InLoop
    <3>2. Len(Tail(todo[t])) = Len(todo[t]) - 1
      BY <1>1, <3>1, HeadTailProperties
    <3>3. /\ StepsLeft(t) = 10 * Len(todo[t]) - 8
          /\ StepsLeft(t)' = 10 * (Len(todo[t]) - 1) + 1
      BY <2>3, <3>2 DEF StepsLeft, Passed
    <3> QED
      BY <1>1, <3>3
  <2>4. CASE lpc[t] # "done" /\ lpc'[t] = "done"
    BY <2>4, CountdownFacts DEF Countdown, StepsLeft
  <2> QED
    BY <2>1, <2>2, <2>3, <2>4, StepGoes
<1>4. \A u \in Thread \ {t} : lpc'[u] = lpc[u] /\ todo'[u] = todo[u]
  BY DEF OnceInv, LoginTypeOK, LoginAdvance, NextRegistry, Lock, Find, Insert, Unlock, Do, Login, WriteErr,
     Leave, ReadErr, LoginGoto
<1>5. \A u \in Thread \ {t} : StepsLeft(u)' = StepsLeft(u)
  BY <1>4 DEF StepsLeft
<1> QED
  BY <1>3, <1>5 DEF Nearer

(* Every step of the calls takes one of them nearer its end and sets none  *)
(* back. With NoDeadlock, the calls all return if only somebody moves when *)
(* somebody can: the run's fairness is not needed for that.                *)
THEOREM CallsAreBounded ==
  LoginSpec => []Countdown /\ [][\E t \in Thread : Nearer(t)]_loginVars
<1>1. OnceInv /\ OnceInv' /\ [LoginNext]_loginVars => [\E t \in Thread : Nearer(t)]_loginVars
  BY NearerStep DEF LoginNext
<1> QED
  BY <1>1, CountdownFacts, Invariance, PTL DEF LoginSpec
===============================================================================
