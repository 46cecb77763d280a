---------------------------- MODULE ConfigProofs ----------------------------
(***************************************************************************)
(* Proofs about Config, for any number of managers and clients and every   *)
(* bound: settings files are whole whatever crashes and never go back, a   *)
(* destroyed manager is out of the worker's reach, and no change is        *)
(* forgotten.                                                              *)
(***************************************************************************)
EXTENDS Config, TLAPS

USE ClientsAssumption DEF Threads, Worker, Owner, Nobody

-----------------------------------------------------------------------------
(* The inductive invariant.                                                 *)

\* The steps of acquire() ... release(), of save(), and of the destructor.
Inside == {"reading", "acquired", "changing", "modified"}
Saving == {"open", "write", "sync", "rename", "saved"}
Dtor   == {"destroy", "dtorCancel1", "dtorCancel2", "dtorCancel3", "dtorCancel4"}
Queueing   == {"enqueue", "enqueueJob"}
Unloading  == {"disable", "disable2", "lockForSave"}
OwnerAlive == {"enable"} \cup Queueing \cup Unloading \cup Saving

Types ==
  /\ on \in [Threads -> Managers]
  /\ pc \in [Threads -> {"idle", "lockJob"} \cup Inside \cup OwnerAlive \cup Dtor]
  /\ mtx \in [Managers -> Threads \cup {Nobody}] /\ jobMtx \in [Managers -> Threads \cup {Nobody}]
  /\ conf \in [Managers -> Nat] /\ last \in [Managers -> Nat]
  /\ data \in [Managers -> Nat] /\ newFile \in [Managers -> Nat] /\ file \in [Managers -> Nat]
  /\ durable \in [Managers -> SUBSET Nat] /\ synced \in [Managers -> BOOLEAN]
  /\ alive \in [Managers -> BOOLEAN] /\ jobManager \in [Managers -> BOOLEAN]

\* What each kind of thread is ever doing.
Roles == /\ \A c \in Clients : pc[c] \in {"idle"} \cup Inside \cup Queueing
         /\ pc[Owner] \in {"idle"} \cup OwnerAlive \cup Dtor
         /\ pc[Worker] \in {"idle", "lockJob"} \cup Queueing \cup Saving

\* Whoever looks at the settings or saves them has the manager's mutex; the worker has its job's, too.
Locked == /\ \A t \in Threads : pc[t] \in Inside \cup Saving => mtx[on[t]] = t
          /\ pc[Worker] \in Saving => jobMtx[on[Worker]] = Worker

\* Settings that are half changed are in the hands of a client.
Whole == \A m \in Managers : conf[m] = Broken =>
           mtx[m] \in Clients /\ on[mtx[m]] = m /\ pc[mtx[m]] = "changing"

\* What a save has in hand, step by step.
Progress == \A t \in Threads :
  /\ pc[t] = "write" => data[on[t]] # Broken
  /\ pc[t] = "sync"  => newFile[on[t]] # Broken
  /\ pc[t] = "rename" => newFile[on[t]] # Broken /\ synced[on[t]]

\* The owner works on managers that exist, unless it is destroying one.
OwnerKnows == pc[Owner] \in OwnerAlive => alive[on[Owner]]

Inv == Types /\ Roles /\ Locked /\ Whole /\ Progress /\ OwnerKnows /\ FilesAreWhole /\ Unreachable

\* A program that has started and not done anything yet.
LEMMA InitInv == Init => Inv
<1> SUFFICES ASSUME Init PROVE Inv
  OBVIOUS
<1>1. PICK m \in Managers : on = [t \in Threads |-> m]
  BY DEF Init
<1>2. Types
  <2>1. on \in [Threads -> Managers] /\ pc \in [Threads -> {"idle"}]
    BY <1>1 DEF Init
  <2>2. pc \in [Threads -> {"idle", "lockJob"} \cup Inside \cup OwnerAlive \cup Dtor]
    BY <2>1
  <2>3. /\ conf \in [Managers -> Nat] /\ last \in [Managers -> Nat] /\ data \in [Managers -> Nat]
        /\ newFile \in [Managers -> Nat] /\ file \in [Managers -> Nat]
    BY DEF Init, All, Broken
  <2>4. /\ mtx \in [Managers -> Threads \cup {Nobody}] /\ jobMtx \in [Managers -> Threads \cup {Nobody}]
        /\ synced \in [Managers -> BOOLEAN] /\ alive \in [Managers -> BOOLEAN]
        /\ jobManager \in [Managers -> BOOLEAN]
    BY DEF Init, All
  <2>5. durable \in [Managers -> SUBSET Nat]
    BY DEF Init, All
  <2> QED BY <2>1, <2>2, <2>3, <2>4, <2>5 DEF Types
<1>3. Roles /\ Locked /\ Whole /\ Progress /\ OwnerKnows
  BY <1>1 DEF Init, Roles, Locked, Whole, Progress, OwnerKnows, All, Inside, Saving, OwnerAlive,
              Queueing, Unloading, Broken
<1>4. FilesAreWhole /\ Unreachable
  BY <1>1 DEF Init, FilesAreWhole, Unreachable, Freed, All, Broken
<1> QED BY <1>2, <1>3, <1>4 DEF Inv

-----------------------------------------------------------------------------
(* Steps.                                                                   *)

\* A thread that goes on outside the settings and the disk.
LEMMA Quiet ==
  ASSUME Inv, NEW t \in Threads, NEW step, NEW m \in Managers,
         pc[t] \notin Inside \cup Saving, step \notin Inside \cup Saving,
         pc' = [pc EXCEPT ![t] = step],
         on' = [on EXCEPT ![t] = m],
         t \in Clients => step \in {"idle"} \cup Queueing,
         t = Owner => step \in {"idle"} \cup OwnerAlive \cup Dtor,
         t = Worker => step \in {"idle", "lockJob"} \cup Queueing,
         t = Owner /\ step \in OwnerAlive => alive[m],
         t = Owner /\ pc[t] \in Dtor => step \in Dtor /\ m = on[t],
         UNCHANGED <<conf, last, alive, mtx, jobManager, jobMtx, data, newFile, synced, file, durable>>
  PROVE  Inv'
<1>1. /\ pc \in [Threads -> {"idle", "lockJob"} \cup Inside \cup OwnerAlive \cup Dtor]
      /\ on \in [Threads -> Managers]
  BY DEF Inv, Types
<1>2. \A u \in Threads : pc'[u] = (IF u = t THEN step ELSE pc[u]) /\ on'[u] = (IF u = t THEN m ELSE on[u])
  BY <1>1
<1>3. Types'
  <2>1. step \in {"idle", "lockJob"} \cup Inside \cup OwnerAlive \cup Dtor
    BY DEF OwnerAlive
  <2>2. pc' \in [Threads -> {"idle", "lockJob"} \cup Inside \cup OwnerAlive \cup Dtor] /\ on' \in [Threads -> Managers]
    BY <1>1, <2>1
  <2> QED BY <2>2 DEF Inv, Types
<1>4. Roles'
  BY <1>2 DEF Inv, Roles
<1>5. Locked'
  BY <1>2 DEF Inv, Locked
<1>6. Whole'
  BY <1>2 DEF Inv, Whole, Inside
<1>7. Progress'
  BY <1>2 DEF Inv, Progress, Saving
<1>8. OwnerKnows'
  BY <1>2 DEF Inv, OwnerKnows
<1>9. FilesAreWhole'
  BY DEF Inv, FilesAreWhole
<1>10. Unreachable'
  <2> SUFFICES ASSUME NEW n \in Managers, Freed(n)'
               PROVE  ~jobManager[n] /\ ~(on'[Worker] = n /\ pc'[Worker] \in Saving)
    BY DEF Unreachable, Saving
  <2>1. Freed(n)
    <3>1. ~alive[n]
      BY DEF Freed
    <3>2. CASE t # Owner
      BY <1>2, <3>1, <3>2 DEF Freed
    <3>3. CASE t = Owner /\ pc[Owner] = "idle"
      BY <3>1, <3>3 DEF Freed
    <3>4. CASE t = Owner /\ pc[Owner] \in OwnerAlive
      BY <3>1, <3>4 DEF Freed, Inv, OwnerKnows
    <3>5. CASE t = Owner /\ pc[Owner] \in Dtor
      BY <1>2, <3>1, <3>5 DEF Freed, Dtor
    <3> QED BY <3>2, <3>3, <3>4, <3>5 DEF Inv, Roles
  <2>2. ~jobManager[n] /\ ~(on[Worker] = n /\ pc[Worker] \in Saving)
    BY <2>1 DEF Inv, Unreachable, Saving
  <2> QED BY <1>2, <2>2
<1> QED BY <1>3, <1>4, <1>5, <1>6, <1>7, <1>8, <1>9, <1>10 DEF Inv

\* A step that touches none of it.
LEMMA Elsewhere ==
  ASSUME Inv,
         UNCHANGED <<pc, on, conf, last, alive, mtx, jobManager, jobMtx, data, newFile, synced, file, durable>>
  PROVE  Inv'
BY DEF Inv, Types, Roles, Locked, Whole, Progress, OwnerKnows, FilesAreWhole, Unreachable, Freed

\* What a step of a thread does to pc.
LEMMA Move ==
  ASSUME Inv, NEW t \in Threads, NEW step \in {"idle", "lockJob"} \cup Inside \cup OwnerAlive \cup Dtor,
         Goto(t, step)
  PROVE  /\ pc' \in [Threads -> {"idle", "lockJob"} \cup Inside \cup OwnerAlive \cup Dtor]
         /\ \A u \in Threads : pc'[u] = (IF u = t THEN step ELSE pc[u])
BY DEF Inv, Types, Goto

\* The client has the settings to itself.
LEMMA AcquireKeeps ==
  ASSUME Inv, NEW c \in Clients, NEW m \in Managers, NEW step \in {"reading", "acquired"},
         Acquire(c, m, step)
  PROVE  Inv'
<1> USE DEF Acquire, Enter, At, confVars, jobVars, diskVars
<1>1. /\ pc' \in [Threads -> {"idle", "lockJob"} \cup Inside \cup OwnerAlive \cup Dtor]
      /\ \A u \in Threads : pc'[u] = (IF u = c THEN step ELSE pc[u])
  BY Move DEF Inside
<1>2. /\ on' \in [Threads -> Managers]
      /\ \A u \in Threads : on'[u] = (IF u = c THEN m ELSE on[u])
  BY DEF Inv, Types
<1>3. /\ mtx' \in [Managers -> Threads \cup {Nobody}]
      /\ \A n \in Managers : mtx'[n] = (IF n = m THEN c ELSE mtx[n])
  BY DEF Inv, Types
<1>4. Types'
  BY <1>1, <1>2, <1>3 DEF Inv, Types
<1>5. Roles'
  BY <1>1 DEF Inv, Roles, Inside
<1>6. Locked'
  <2>1. ASSUME NEW u \in Threads, u # c, pc[u] \in Inside \cup Saving PROVE mtx'[on[u]] = u
    BY <2>1, <1>3 DEF Inv, Locked, Types
  <2> QED BY <2>1, <1>1, <1>2, <1>3 DEF Inv, Locked
<1>7. Whole'
  BY <1>1, <1>2, <1>3 DEF Inv, Whole
<1>8. Progress'
  BY <1>1, <1>2 DEF Inv, Progress
<1>9. OwnerKnows'
  BY <1>1, <1>2 DEF Inv, OwnerKnows
<1>10. FilesAreWhole' /\ Unreachable'
  BY <1>1, <1>2 DEF Inv, FilesAreWhole, Unreachable, Freed
<1> QED BY <1>4, <1>5, <1>6, <1>7, <1>8, <1>9, <1>10 DEF Inv

\* The client goes on with the settings in its hands.
LEMMA ChangeKeeps ==
  ASSUME Inv, NEW c \in Clients, NEW step \in {"changing", "modified"}, NEW v \in Nat,
         pc[c] \in Inside, Goto(c, step), v = Broken <=> step = "changing",
         pc[c] = "changing" => step = "modified",
         conf' = [conf EXCEPT ![on[c]] = v], last' \in [Managers -> Nat],
         UNCHANGED <<on, alive, mtx, jobManager, jobMtx, data, newFile, synced, file, durable>>
  PROVE  Inv'
<1>1. /\ pc' \in [Threads -> {"idle", "lockJob"} \cup Inside \cup OwnerAlive \cup Dtor]
      /\ \A u \in Threads : pc'[u] = (IF u = c THEN step ELSE pc[u])
  BY Move DEF Inside
<1>2. /\ conf' \in [Managers -> Nat]
      /\ \A n \in Managers : conf'[n] = (IF n = on[c] THEN v ELSE conf[n])
  BY DEF Inv, Types
<1>3. mtx[on[c]] = c
  BY DEF Inv, Locked
<1>4. Types'
  BY <1>1, <1>2 DEF Inv, Types
<1>5. Roles'
  BY <1>1 DEF Inv, Roles, Inside
<1>6. Locked'
  BY <1>1 DEF Inv, Locked, Inside
<1>7. Whole'
  BY <1>1, <1>2, <1>3 DEF Inv, Whole
<1>8. Progress'
  BY <1>1 DEF Inv, Progress
<1>9. OwnerKnows'
  BY <1>1 DEF Inv, OwnerKnows
<1>10. FilesAreWhole' /\ Unreachable'
  BY <1>1 DEF Inv, FilesAreWhole, Unreachable, Freed
<1> QED BY <1>4, <1>5, <1>6, <1>7, <1>8, <1>9, <1>10 DEF Inv

\* A client or a save lets go of the settings, which are whole.
LEMMA LetGo ==
  ASSUME Inv, NEW t \in Threads, NEW step \in {"idle", "enqueue"},
         pc[t] \in Inside \cup Saving, pc[t] # "changing", Goto(t, step),
         step = "enqueue" => t \in Clients,
         mtx' = [mtx EXCEPT ![on[t]] = Nobody],
         jobMtx' = IF t = Worker THEN [jobMtx EXCEPT ![on[t]] = Nobody] ELSE jobMtx,
         UNCHANGED <<on, conf, last, alive, jobManager, data, newFile, synced, file, durable>>
  PROVE  Inv'
<1>1. /\ pc' \in [Threads -> {"idle", "lockJob"} \cup Inside \cup OwnerAlive \cup Dtor]
      /\ \A u \in Threads : pc'[u] = (IF u = t THEN step ELSE pc[u])
  BY Move DEF OwnerAlive, Queueing
<1>2. /\ mtx' \in [Managers -> Threads \cup {Nobody}]
      /\ \A n \in Managers : mtx'[n] = (IF n = on[t] THEN Nobody ELSE mtx[n])
  BY DEF Inv, Types
<1>3. mtx[on[t]] = t
  BY DEF Inv, Locked
<1>4. Types'
  <2>1. jobMtx' \in [Managers -> Threads \cup {Nobody}]
    BY DEF Inv, Types
  <2> QED BY <1>1, <1>2, <2>1 DEF Inv, Types
<1>5. Roles'
  BY <1>1 DEF Inv, Roles, Queueing
<1>6. Locked'
  <2>1. ASSUME NEW u \in Threads, u # t, pc[u] \in Inside \cup Saving PROVE mtx'[on[u]] = u
    BY <2>1, <1>2, <1>3 DEF Inv, Locked, Types
  <2>2. step \notin Inside \cup Saving
    BY DEF Inside, Saving
  <2>3. t # Worker => jobMtx' = jobMtx
    OBVIOUS
  <2> QED BY <2>1, <2>2, <2>3, <1>1 DEF Inv, Locked
<1>7. Whole'
  BY <1>1, <1>2, <1>3 DEF Inv, Whole
<1>8. Progress'
  BY <1>1 DEF Inv, Progress
<1>9. OwnerKnows'
  BY <1>1 DEF Inv, OwnerKnows, OwnerAlive, Queueing, Unloading, Saving
<1>10. FilesAreWhole'
  BY DEF Inv, FilesAreWhole
<1>11. Unreachable'
  <2>1. t = Owner => alive[on[Owner]]
    BY DEF Inv, OwnerKnows, OwnerAlive, Roles, Inside, Dtor
  <2>2. \A n \in Managers : Freed(n)' => Freed(n)
    BY <2>1, <1>1 DEF Freed
  <2>3. pc'[Worker] \in Saving => pc[Worker] \in Saving
    BY <1>1 DEF Saving
  <2> QED BY <2>2, <2>3 DEF Inv, Unreachable, Saving
<1> QED BY <1>4, <1>5, <1>6, <1>7, <1>8, <1>9, <1>10, <1>11 DEF Inv

\* The worker starts to save.
LEMMA SaveJobKeeps == ASSUME Inv, SaveJob PROVE Inv'
<1> DEFINE m == on[Worker]
<1> USE DEF SaveJob, LockJob, At, diskVars
<1>0. m \in Managers /\ jobManager[m] /\ mtx[m] = Nobody /\ jobMtx[m] = Nobody
  BY DEF Inv, Types
<1>1. /\ pc' \in [Threads -> {"idle", "lockJob"} \cup Inside \cup OwnerAlive \cup Dtor]
      /\ \A u \in Threads : pc'[u] = (IF u = Worker THEN "open" ELSE pc[u])
  BY Move DEF OwnerAlive, Saving
<1>2. /\ mtx' \in [Managers -> Threads \cup {Nobody}] /\ jobMtx' \in [Managers -> Threads \cup {Nobody}]
      /\ \A n \in Managers : /\ mtx'[n] = (IF n = m THEN Worker ELSE mtx[n])
                             /\ jobMtx'[n] = (IF n = m THEN Worker ELSE jobMtx[n])
  BY DEF Inv, Types
<1>3. UNCHANGED <<on, conf, last, alive, jobManager, data, newFile, synced, file, durable>>
  OBVIOUS
<1> HIDE DEF SaveJob, LockJob, m
<1>4. Types'
  BY <1>1, <1>2, <1>3 DEF Inv, Types
<1>5. Roles'
  BY <1>1 DEF Inv, Roles, Saving
<1>6. Locked'
  <2>1. ASSUME NEW u \in Threads, u # Worker, pc[u] \in Inside \cup Saving PROVE mtx'[on[u]] = u
    BY <2>1, <1>0, <1>2 DEF Inv, Locked, Types
  <2> QED BY <2>1, <1>0, <1>1, <1>2, <1>3 DEF Inv, Locked, m
<1>7. Whole'
  BY <1>0, <1>1, <1>2, <1>3 DEF Inv, Whole
<1>8. Progress'
  BY <1>1, <1>3 DEF Inv, Progress
<1>9. OwnerKnows' /\ FilesAreWhole'
  BY <1>1, <1>3 DEF Inv, OwnerKnows, FilesAreWhole
<1>10. Unreachable'
  BY <1>0, <1>1, <1>3 DEF Inv, Unreachable, Freed, m
<1> QED BY <1>4, <1>5, <1>6, <1>7, <1>8, <1>9, <1>10 DEF Inv

\* The owner waits for the settings before it saves them.
LEMMA LockForSaveKeeps == ASSUME Inv, LockForSave PROVE Inv'
<1> USE DEF LockForSave, At, jobVars, diskVars
<1>0. on[Owner] \in Managers /\ mtx[on[Owner]] = Nobody /\ alive[on[Owner]]
  BY DEF Inv, Types, OwnerKnows, OwnerAlive, Unloading
<1>1. /\ pc' \in [Threads -> {"idle", "lockJob"} \cup Inside \cup OwnerAlive \cup Dtor]
      /\ \A u \in Threads : pc'[u] = (IF u = Owner THEN "open" ELSE pc[u])
  BY Move DEF OwnerAlive, Saving
<1>2. /\ mtx' \in [Managers -> Threads \cup {Nobody}]
      /\ \A n \in Managers : mtx'[n] = (IF n = on[Owner] THEN Owner ELSE mtx[n])
  BY DEF Inv, Types
<1>3. UNCHANGED <<on, conf, last, alive, jobManager, jobMtx, data, newFile, synced, file, durable>>
  OBVIOUS
<1>4. Types'
  BY <1>1, <1>2, <1>3 DEF Inv, Types
<1>5. Roles'
  BY <1>1 DEF Inv, Roles, OwnerAlive, Saving
<1>6. Locked'
  <2>1. ASSUME NEW u \in Threads, u # Owner, pc[u] \in Inside \cup Saving PROVE mtx'[on[u]] = u
    BY <2>1, <1>0, <1>2 DEF Inv, Locked, Types
  <2> QED BY <2>1, <1>0, <1>1, <1>2, <1>3 DEF Inv, Locked
<1>7. Whole'
  BY <1>0, <1>1, <1>2, <1>3 DEF Inv, Whole
<1>8. Progress'
  BY <1>1, <1>3 DEF Inv, Progress
<1>9. OwnerKnows' /\ FilesAreWhole'
  BY <1>0, <1>1, <1>3 DEF Inv, OwnerKnows, FilesAreWhole
<1>10. Unreachable'
  BY <1>0, <1>1, <1>3 DEF Inv, Unreachable, Freed
<1> QED BY <1>4, <1>5, <1>6, <1>7, <1>8, <1>9, <1>10 DEF Inv

\* The back pointer of a job is set for a manager that exists only.
LEMMA RestoreJobKeeps == ASSUME Inv, RestoreJob PROVE Inv'
<1> USE DEF RestoreJob, At, confVars, diskVars
<1>0. on[Owner] \in Managers /\ alive[on[Owner]]
  BY DEF Inv, Types, OwnerKnows, OwnerAlive
<1>1. /\ pc' \in [Threads -> {"idle", "lockJob"} \cup Inside \cup OwnerAlive \cup Dtor]
      /\ \A u \in Threads : pc'[u] = (IF u = Owner THEN "enqueue" ELSE pc[u])
  BY Move DEF OwnerAlive, Queueing
<1>2. /\ jobManager' \in [Managers -> BOOLEAN]
      /\ \A n \in Managers : jobManager'[n] = (IF n = on[Owner] THEN TRUE ELSE jobManager[n])
  BY DEF Inv, Types
<1>3. UNCHANGED <<on, conf, last, alive, mtx, jobMtx, data, newFile, synced, file, durable>>
  OBVIOUS
<1>4. Types'
  BY <1>1, <1>2, <1>3 DEF Inv, Types
<1>5. Roles'
  BY <1>1 DEF Inv, Roles, OwnerAlive, Queueing
<1>6. Locked'
  BY <1>1, <1>3 DEF Inv, Locked, Inside, Saving
<1>7. Whole'
  BY <1>1, <1>3 DEF Inv, Whole
<1>8. Progress'
  BY <1>1, <1>3 DEF Inv, Progress
<1>9. OwnerKnows' /\ FilesAreWhole'
  BY <1>0, <1>1, <1>3 DEF Inv, OwnerKnows, FilesAreWhole
<1>10. Unreachable'
  BY <1>0, <1>1, <1>2, <1>3 DEF Inv, Unreachable, Freed
<1> QED BY <1>4, <1>5, <1>6, <1>7, <1>8, <1>9, <1>10 DEF Inv

\* A manager on its way out is not freed yet, and nobody saves it: its mutex is free.
LEMMA BeginDestroyKeeps == ASSUME Inv, NEW m \in Managers, BeginDestroy(m) PROVE Inv'
<1> USE DEF BeginDestroy, Enter, At, jobVars, diskVars
<1>1. /\ pc' \in [Threads -> {"idle", "lockJob"} \cup Inside \cup OwnerAlive \cup Dtor]
      /\ \A u \in Threads : pc'[u] = (IF u = Owner THEN "destroy" ELSE pc[u])
  BY Move DEF Dtor
<1>2. /\ on' \in [Threads -> Managers]
      /\ \A u \in Threads : on'[u] = (IF u = Owner THEN m ELSE on[u])
  BY DEF Inv, Types
<1>3. /\ alive' \in [Managers -> BOOLEAN]
      /\ \A n \in Managers : alive'[n] = (IF n = m THEN FALSE ELSE alive[n])
  BY DEF Inv, Types
<1>4. UNCHANGED <<conf, last, mtx, jobManager, jobMtx, data, newFile, synced, file, durable>>
  OBVIOUS
<1>5. Types'
  BY <1>1, <1>2, <1>3, <1>4 DEF Inv, Types
<1>6. Roles'
  BY <1>1 DEF Inv, Roles, Dtor
<1>7. Locked'
  BY <1>1, <1>2, <1>4 DEF Inv, Locked, Inside, Saving
<1>8. Whole'
  BY <1>1, <1>2, <1>4 DEF Inv, Whole
<1>9. Progress'
  BY <1>1, <1>2, <1>4 DEF Inv, Progress
<1>10. OwnerKnows' /\ FilesAreWhole'
  BY <1>1, <1>4 DEF Inv, OwnerKnows, FilesAreWhole, OwnerAlive, Queueing, Unloading, Saving
<1>11. Unreachable'
  <2>1. \A n \in Managers : Freed(n)' => Freed(n)
    BY <1>1, <1>2, <1>3 DEF Freed
  <2> QED BY <2>1, <1>1, <1>2, <1>4 DEF Inv, Unreachable
<1> QED BY <1>5, <1>6, <1>7, <1>8, <1>9, <1>10, <1>11 DEF Inv

\* cancel() takes the back pointer away under the job's mutex, so nobody is saving by it.
LEMMA CancelJobKeeps ==
  ASSUME Inv, NEW step \in {"disable2", "dtorCancel2", "dtorCancel4"},
         NEW next \in {"lockForSave", "dtorCancel3", "idle"},
         step = "disable2" <=> next = "lockForSave", step = "dtorCancel4" <=> next = "idle",
         CancelJob(Owner, step, next)
  PROVE  Inv'
<1> USE DEF CancelJob, At, confVars, diskVars
<1>0. on[Owner] \in Managers /\ jobMtx[on[Owner]] = Nobody
  BY DEF Inv, Types
<1>1. /\ pc' \in [Threads -> {"idle", "lockJob"} \cup Inside \cup OwnerAlive \cup Dtor]
      /\ \A u \in Threads : pc'[u] = (IF u = Owner THEN next ELSE pc[u])
  BY Move DEF Dtor, OwnerAlive, Unloading
<1>2. /\ jobManager' \in [Managers -> BOOLEAN]
      /\ \A n \in Managers : jobManager'[n] = (IF n = on[Owner] THEN FALSE ELSE jobManager[n])
  BY DEF Inv, Types
<1>3. UNCHANGED <<on, conf, last, alive, mtx, jobMtx, data, newFile, synced, file, durable>>
  OBVIOUS
<1>4. Types'
  BY <1>1, <1>2, <1>3 DEF Inv, Types
<1>5. Roles'
  BY <1>1 DEF Inv, Roles, Dtor, OwnerAlive, Unloading
<1>6. Locked'
  BY <1>1, <1>3 DEF Inv, Locked, Inside, Saving
<1>7. Whole'
  BY <1>1, <1>3 DEF Inv, Whole
<1>8. Progress'
  BY <1>1, <1>3 DEF Inv, Progress
<1>9. OwnerKnows'
  BY <1>1, <1>3 DEF Inv, OwnerKnows, OwnerAlive, Queueing, Unloading, Saving
<1>10. FilesAreWhole'
  BY <1>3 DEF Inv, FilesAreWhole
<1>11. Unreachable'
  <2> SUFFICES ASSUME NEW n \in Managers, Freed(n)'
               PROVE  ~jobManager'[n] /\ ~(on[Worker] = n /\ pc[Worker] \in Saving)
    BY <1>1, <1>3 DEF Unreachable, Saving
  <2>1. CASE n = on[Owner]
    BY <2>1, <1>0, <1>2 DEF Inv, Locked
  <2>2. CASE n # on[Owner]
    BY <2>2, <1>2, <1>3 DEF Inv, Unreachable, Freed, Saving
  <2> QED BY <2>1, <2>2
<1> QED BY <1>4, <1>5, <1>6, <1>7, <1>8, <1>9, <1>10, <1>11 DEF Inv

\* What every step of save() leaves alone: it stays in save(), with its mutexes.
LEMMA SaveMoves ==
  ASSUME Inv, NEW t \in Threads, NEW step \in Saving,
         pc[t] \in Saving, Goto(t, step), UNCHANGED <<on, confVars, jobVars>>
  PROVE  /\ pc' \in [Threads -> {"idle", "lockJob"} \cup Inside \cup OwnerAlive \cup Dtor]
         /\ \A u \in Threads : pc'[u] = (IF u = t THEN step ELSE pc[u])
         /\ on[t] \in Managers /\ conf[on[t]] # Broken
         /\ \A u \in Threads : u # t /\ pc[u] \in Saving => on[u] # on[t]
         /\ Roles' /\ Locked' /\ Whole' /\ OwnerKnows' /\ Unreachable'
<1> USE DEF confVars, jobVars
<1>1. /\ pc' \in [Threads -> {"idle", "lockJob"} \cup Inside \cup OwnerAlive \cup Dtor]
      /\ \A u \in Threads : pc'[u] = (IF u = t THEN step ELSE pc[u])
  BY Move DEF OwnerAlive
<1>2. on[t] \in Managers /\ mtx[on[t]] = t
  BY DEF Inv, Types, Locked
<1>3. conf[on[t]] # Broken
  BY <1>2 DEF Inv, Whole, Saving
<1>4. \A u \in Threads : u # t /\ pc[u] \in Saving => on[u] # on[t]
  BY <1>2 DEF Inv, Locked
<1>5. Roles'
  <2>1. t \notin Clients
    BY DEF Inv, Roles, Inside, Queueing, Saving
  <2> QED BY <2>1, <1>1 DEF Inv, Roles, OwnerAlive
<1>6. Locked'
  BY <1>1 DEF Inv, Locked
<1>7. Whole'
  BY <1>1 DEF Inv, Whole, Saving
<1>8. OwnerKnows'
  BY <1>1 DEF Inv, OwnerKnows, OwnerAlive
<1>9. Unreachable'
  <2>1. \A n \in Managers : Freed(n)' => Freed(n)
    BY <1>1 DEF Freed, Saving
  <2> QED BY <2>1, <1>1 DEF Inv, Unreachable, Saving
<1> QED BY <1>1, <1>2, <1>3, <1>4, <1>5, <1>6, <1>7, <1>8, <1>9

\* Two saves under way are of two managers, so none disturbs what another has in hand, and a
\* file is replaced only by a new one that was written to the end and synced.
LEMMA SaveKeeps ==
  ASSUME Inv, NEW t \in Threads, Open(t) \/ Write(t) \/ Sync(t) \/ Rename(t) \/ Refused(t)
  PROVE  Inv'
<1> DEFINE m == on[t]
<1> USE DEF At
<1> SUFFICES ASSUME NEW step \in Saving, pc[t] \in Saving, Goto(t, step), UNCHANGED <<on, confVars, jobVars>>,
                    Open(t) \/ Write(t) \/ Sync(t) \/ Rename(t) \/ Refused(t)
             PROVE  Inv'
  BY DEF Open, Write, Sync, Rename, Refused, Saving
<1>1. /\ pc' \in [Threads -> {"idle", "lockJob"} \cup Inside \cup OwnerAlive \cup Dtor]
      /\ \A u \in Threads : pc'[u] = (IF u = t THEN step ELSE pc[u])
      /\ m \in Managers /\ conf[m] # Broken
      /\ \A u \in Threads : u # t /\ pc[u] \in Saving => on[u] # m
      /\ Roles' /\ Locked' /\ Whole' /\ OwnerKnows' /\ Unreachable'
  BY SaveMoves
<1>2. UNCHANGED <<on, conf, last, alive, mtx, jobManager, jobMtx>>
  BY DEF confVars, jobVars
<1>3. /\ data \in [Managers -> Nat] /\ newFile \in [Managers -> Nat] /\ file \in [Managers -> Nat]
      /\ durable \in [Managers -> SUBSET Nat] /\ synced \in [Managers -> BOOLEAN]
      /\ conf \in [Managers -> Nat]
  BY DEF Inv, Types
<1>4. Broken \in Nat
  BY DEF Broken
<1>5. SUFFICES /\ data' \in [Managers -> Nat] /\ newFile' \in [Managers -> Nat] /\ file' \in [Managers -> Nat]
               /\ durable' \in [Managers -> SUBSET Nat] /\ synced' \in [Managers -> BOOLEAN]
               /\ Progress' /\ FilesAreWhole'
  BY <1>1, <1>2 DEF Inv, Types
<1>6. ASSUME NEW u \in Threads, u # t, pc[u] \in {"write", "sync", "rename"}
      PROVE  /\ on[u] \in Managers /\ on[u] # m
             /\ pc[u] = "write" => data[on[u]] # Broken
             /\ pc[u] = "sync"  => newFile[on[u]] # Broken
             /\ pc[u] = "rename" => newFile[on[u]] # Broken /\ synced[on[u]]
  BY <1>1, <1>6 DEF Inv, Types, Progress, Saving
<1> HIDE DEF m
<1>7. CASE Open(t)
  <2>1. /\ \A n \in Managers : /\ data'[n] = (IF n = m THEN conf[n] ELSE data[n])
                               /\ n # m => newFile'[n] = newFile[n] /\ synced'[n] = synced[n]
        /\ data' \in [Managers -> Nat] /\ newFile' \in [Managers -> Nat] /\ synced' \in [Managers -> BOOLEAN]
        /\ UNCHANGED <<file, durable>> /\ pc'[t] = "write"
    BY <1>1, <1>3, <1>4, <1>7 DEF Open, Goto, m, Inv, Types
  <2>2. Progress'
    BY <2>1, <1>1, <1>2, <1>6 DEF Progress, m
  <2> QED BY <2>1, <2>2, <1>3 DEF Inv, FilesAreWhole
<1>8. CASE Write(t)
  <2>1. /\ \A n \in Managers : newFile'[n] = (IF n = m THEN data[n] ELSE newFile[n])
        /\ newFile' \in [Managers -> Nat] /\ data[m] # Broken
        /\ UNCHANGED <<data, synced, file, durable>> /\ pc'[t] = "sync"
    BY <1>1, <1>3, <1>8 DEF Write, Goto, m, Inv, Types, Progress
  <2>2. Progress'
    BY <2>1, <1>1, <1>2, <1>6 DEF Progress, m
  <2> QED BY <2>1, <2>2, <1>3 DEF Inv, FilesAreWhole
<1>9. CASE Sync(t)
  <2>1. /\ synced'[m] /\ \A n \in Managers : n # m => synced'[n] = synced[n]
        /\ synced' \in [Managers -> BOOLEAN] /\ newFile[m] # Broken
        /\ UNCHANGED <<data, newFile, file, durable>> /\ pc'[t] = "rename"
    BY <1>1, <1>3, <1>9 DEF Sync, Goto, m, Inv, Types, Progress
  <2>2. Progress'
    BY <2>1, <1>1, <1>2, <1>6 DEF Progress, m
  <2> QED BY <2>1, <2>2, <1>3 DEF Inv, FilesAreWhole
<1>10. CASE Rename(t)
  <2>1. newFile[m] # Broken /\ synced[m]
    BY <1>10 DEF Rename, m, Inv, Progress
  <2>2. /\ \A n \in Managers : /\ file'[n] = (IF n = m THEN newFile[n] ELSE file[n])
                               /\ durable'[n] = (IF n = m THEN durable[n] \cup {newFile[n]} ELSE durable[n])
                               /\ n # m => newFile'[n] = newFile[n]
        /\ file' \in [Managers -> Nat] /\ durable' \in [Managers -> SUBSET Nat] /\ newFile' \in [Managers -> Nat]
        /\ UNCHANGED <<data, synced>> /\ pc'[t] = "saved"
    <3>1. /\ file' = [file EXCEPT ![m] = newFile[m]] /\ newFile' = [newFile EXCEPT ![m] = Broken]
          /\ durable' = [durable EXCEPT ![m] = @ \cup {IF synced[m] THEN newFile[m] ELSE Broken}]
          /\ UNCHANGED <<data, synced>> /\ Goto(t, "saved")
      BY <1>10 DEF Rename, m
    <3>2. durable' = [durable EXCEPT ![m] = durable[m] \cup {newFile[m]}]
      BY <3>1, <2>1
    <3>3. newFile[m] \in Nat /\ durable[m] \cup {newFile[m]} \in SUBSET Nat
      BY <1>1, <1>3
    <3>4. file' \in [Managers -> Nat] /\ newFile' \in [Managers -> Nat] /\ durable' \in [Managers -> SUBSET Nat]
      BY <3>1, <3>2, <3>3, <1>3, <1>4
    <3>5. pc'[t] = "saved"
      BY <3>1 DEF Goto, Inv, Types
    <3> QED BY <3>1, <3>2, <3>4, <3>5, <1>3
  <2>3. Progress'
    BY <2>2, <1>1, <1>2, <1>6 DEF Progress, m
  <2>4. FilesAreWhole'
    BY <2>1, <2>2, <1>1 DEF Inv, FilesAreWhole
  <2> QED BY <2>2, <2>3, <2>4, <1>3
<1>11. CASE Refused(t)
  <2>1. /\ \A n \in Managers : n # m => newFile'[n] = newFile[n]
        /\ newFile' \in [Managers -> Nat]
        /\ UNCHANGED <<data, synced, file, durable>> /\ pc'[t] = "saved"
    BY <1>1, <1>3, <1>4, <1>11 DEF Refused, Goto, m, Inv, Types
  <2>2. Progress'
    BY <2>1, <1>1, <1>2, <1>6 DEF Progress, m
  <2> QED BY <2>1, <2>2, <1>3 DEF Inv, FilesAreWhole
<1> QED BY <1>7, <1>8, <1>9, <1>10, <1>11

\* Whatever is left on the disk is whole, and a program that starts has no thread at work.
LEMMA RestartKeeps == ASSUME Inv, Kill \/ PowerCut PROVE Inv'
<1> SUFFICES ASSUME NEW content \in [Managers -> Nat], \A m \in Managers : content[m] # Broken,
                    Restart(content),
                    durable' \in [Managers -> SUBSET Nat], \A m \in Managers : Broken \notin durable'[m]
             PROVE  Inv'
  <2>1. CASE Kill
    BY <2>1 DEF Kill, Inv, Types, FilesAreWhole
  <2>2. CASE PowerCut
    <3>1. PICK left \in [Managers -> UNION {durable[m] : m \in Managers}] :
            /\ \A m \in Managers : left[m] \in durable[m]
            /\ Restart(left)
            /\ durable' = [m \in Managers |-> {left[m]}]
      BY <2>2 DEF PowerCut
    <3>2. \A m \in Managers : left[m] \in Nat /\ left[m] # Broken
      BY <3>1 DEF Inv, Types, FilesAreWhole
    <3>3. left \in [Managers -> Nat]
      BY <3>2
    <3>4. durable' \in [Managers -> SUBSET Nat] /\ \A m \in Managers : Broken \notin durable'[m]
      BY <3>1, <3>2
    <3> QED BY <3>1, <3>2, <3>3, <3>4
  <2> QED BY <2>1, <2>2
<1> USE DEF Restart, All
<1>1. pc' = [u \in Threads |-> "idle"]
  OBVIOUS
<1>2. pc' \in [Threads -> {"idle", "lockJob"} \cup Inside \cup OwnerAlive \cup Dtor]
  BY <1>1
<1>3. Types'
  <2>1. /\ mtx' \in [Managers -> Threads \cup {Nobody}] /\ jobMtx' \in [Managers -> Threads \cup {Nobody}]
        /\ alive' \in [Managers -> BOOLEAN] /\ jobManager' \in [Managers -> BOOLEAN]
    OBVIOUS
  <2>2. /\ conf' = content /\ data' = content /\ file' = content
        /\ UNCHANGED <<last, on, newFile, synced>>
    OBVIOUS
  <2> QED BY <1>2, <2>1, <2>2 DEF Inv, Types
<1>4. Roles' /\ OwnerKnows'
  BY <1>1 DEF Roles, OwnerKnows, OwnerAlive, Queueing, Unloading, Saving
<1>5. Locked' /\ Progress'
  BY <1>1 DEF Locked, Progress, Inside, Saving
<1>6. Whole' /\ FilesAreWhole'
  BY DEF Whole, FilesAreWhole
<1>7. Unreachable'
  BY DEF Unreachable, Freed
<1> QED BY <1>3, <1>4, <1>5, <1>6, <1>7 DEF Inv

\* What enters or leaves no critical section of the settings: queueing, cancelling, switching
\* autosave on and off, and the worker's way to a job.
LEMMA QuietKeeps ==
  ASSUME Inv,
         \/ \E t \in Threads : EnqueueLock(t) \/ Enqueue(t)
         \/ CancelQueue(Owner, "disable", "disable2") \/ CancelQueue(Owner, "dtorCancel1", "dtorCancel2")
         \/ CancelQueue(Owner, "dtorCancel3", "dtorCancel4") \/ DestroyAutoSave
         \/ \E m \in Managers : EnableAutoSave(m) \/ DisableAutoSave(m) \/ TakeJob(m)
         \/ DropJob \/ RetryJob
  PROVE  Inv'
<1> USE DEF At, Goto, confVars, jobVars, diskVars, Inside, Saving, Queueing, Unloading, OwnerAlive, Dtor
<1>0. \A t \in Threads : on[t] \in Managers /\ on = [on EXCEPT ![t] = on[t]]
  BY DEF Inv, Types
<1>1. ASSUME NEW t \in Threads, EnqueueLock(t) \/ Enqueue(t) PROVE Inv'
  <2>1. PICK step \in {"enqueueJob", "idle"} : /\ pc' = [pc EXCEPT ![t] = step]
                                               /\ pc[t] \in Queueing
                                               /\ step = "enqueueJob" \/ step = "idle"
    BY <1>1 DEF EnqueueLock, Enqueue
  <2>2. UNCHANGED <<on, conf, last, alive, mtx, jobManager, jobMtx, data, newFile, synced, file, durable>>
    BY <1>1 DEF EnqueueLock, Enqueue
  <2>3. on' = [on EXCEPT ![t] = on[t]]
    BY <1>0, <2>2
  <2>4. t = Owner => alive[on[t]]
    BY <2>1 DEF Inv, OwnerKnows
  <2> QED BY <2>1, <2>2, <2>3, <2>4, <1>0, Quiet
<1>2. ASSUME NEW step \in {"disable2", "dtorCancel1", "dtorCancel2", "dtorCancel3", "dtorCancel4"},
             \/ CancelQueue(Owner, "disable", step) /\ step = "disable2"
             \/ CancelQueue(Owner, "dtorCancel1", step) /\ step = "dtorCancel2"
             \/ CancelQueue(Owner, "dtorCancel3", step) /\ step = "dtorCancel4"
             \/ DestroyAutoSave /\ step = IF autoSave[on[Owner]] THEN "dtorCancel1" ELSE "dtorCancel3"
      PROVE  Inv'
  <2>1. UNCHANGED <<on, conf, last, alive, mtx, jobManager, jobMtx, data, newFile, synced, file, durable>>
    BY <1>2 DEF CancelQueue, DestroyAutoSave
  <2>2. on' = [on EXCEPT ![Owner] = on[Owner]]
    BY <1>0, <2>1
  <2>3. /\ pc' = [pc EXCEPT ![Owner] = step]
        /\ pc[Owner] \in {"disable"} \cup Dtor
        /\ step = "disable2" => pc[Owner] = "disable"
        /\ pc[Owner] \in Dtor => step \in Dtor
    BY <1>2 DEF CancelQueue, DestroyAutoSave
  <2>4. step \in OwnerAlive => alive[on[Owner]]
    BY <2>3 DEF Inv, OwnerKnows
  <2> QED BY <2>1, <2>2, <2>3, <2>4, <1>0, Quiet
<1>3. ASSUME NEW m \in Managers, EnableAutoSave(m) \/ DisableAutoSave(m) PROVE Inv'
  <2>1. PICK step \in {"enable", "disable"} : /\ pc' = [pc EXCEPT ![Owner] = step]
                                              /\ pc[Owner] = "idle"
    BY <1>3 DEF EnableAutoSave, DisableAutoSave, Enter
  <2>2. /\ on' = [on EXCEPT ![Owner] = m] /\ alive[m]
        /\ UNCHANGED <<conf, last, alive, mtx, jobManager, jobMtx, data, newFile, synced, file, durable>>
    BY <1>3 DEF EnableAutoSave, DisableAutoSave, Enter
  <2> QED BY <2>1, <2>2, Quiet
<1>4. ASSUME NEW m \in Managers, NEW step \in {"lockJob", "idle", "enqueue"},
             \/ TakeJob(m) /\ step = "lockJob"
             \/ DropJob /\ m = on[Worker] /\ step = "idle"
             \/ RetryJob /\ m = on[Worker] /\ step = "enqueue"
      PROVE  Inv'
  <2>1. /\ pc' = [pc EXCEPT ![Worker] = step] /\ pc[Worker] \in {"idle", "lockJob"}
        /\ UNCHANGED <<conf, last, alive, mtx, jobManager, jobMtx, data, newFile, synced, file, durable>>
    BY <1>4 DEF TakeJob, DropJob, RetryJob, LockJob, Enter
  <2>2. on' = [on EXCEPT ![Worker] = m]
    BY <1>0, <1>4 DEF TakeJob, DropJob, RetryJob, LockJob, Enter
  <2> QED BY <2>1, <2>2, Quiet
<1>5. CASE \/ CancelQueue(Owner, "disable", "disable2") \/ CancelQueue(Owner, "dtorCancel1", "dtorCancel2")
           \/ CancelQueue(Owner, "dtorCancel3", "dtorCancel4") \/ DestroyAutoSave
  <2>1. PICK step \in {"dtorCancel1", "dtorCancel3"} :
          step = IF autoSave[on[Owner]] THEN "dtorCancel1" ELSE "dtorCancel3"
    OBVIOUS
  <2> QED BY <1>5, <1>2, <2>1
<1>6. CASE \E m \in Managers : TakeJob(m)
  BY <1>6, <1>4
<1>7. CASE DropJob \/ RetryJob
  BY <1>7, <1>0, <1>4
<1> QED BY <1>1, <1>3, <1>5, <1>6, <1>7

\* Every step keeps the invariant.
LEMMA NextKeeps == Inv /\ [Next]_vars => Inv'
<1> SUFFICES ASSUME Inv, [Next]_vars PROVE Inv'
  OBVIOUS
<1>1. ASSUME NEW c \in Clients, NEW m \in Managers, AcquireToRead(c, m) \/ AcquireToChange(c, m) PROVE Inv'
  BY <1>1, AcquireKeeps DEF AcquireToRead, AcquireToChange
<1>2. ASSUME NEW c \in Clients, BeginChange(c) PROVE Inv'
  <2>1. Broken \in Nat
    BY DEF Broken
  <2>2. last' \in [Managers -> Nat]
    BY <1>2 DEF BeginChange, Inv, Types
  <2> QED BY <1>2, <2>1, <2>2, ChangeKeeps DEF BeginChange, At, Inside, jobVars, diskVars
<1>3. ASSUME NEW c \in Clients, EndChange(c) PROVE Inv'
  <2>1. last[on[c]] + 1 \in Nat /\ last[on[c]] + 1 # Broken
    BY DEF Inv, Types, Broken
  <2>2. last' \in [Managers -> Nat]
    BY <1>3 DEF EndChange, Inv, Types
  <2> QED BY <1>3, <2>1, <2>2, ChangeKeeps DEF EndChange, At, Inside, jobVars, diskVars
<1>4. ASSUME NEW c \in Clients, ReleaseUnchanged(c) \/ Release(c) PROVE Inv'
  <2>1. PICK step \in {"idle", "enqueue"} : Goto(c, step)
    BY <1>4 DEF ReleaseUnchanged, Release
  <2>2. /\ pc[c] \in Inside \cup Saving /\ pc[c] # "changing" /\ c # Worker
        /\ mtx' = [mtx EXCEPT ![on[c]] = Nobody]
        /\ UNCHANGED <<on, conf, last, alive, jobMtx, jobManager, data, newFile, synced, file, durable>>
    BY <1>4 DEF ReleaseUnchanged, Release, At, Inside, jobVars, diskVars
  <2> QED BY <2>1, <2>2, LetGo
<1>5. ASSUME NEW t \in {Owner, Worker}, Saved(t) PROVE Inv'
  <2>1. /\ pc[t] \in Inside \cup Saving /\ pc[t] # "changing" /\ Goto(t, "idle")
        /\ mtx' = [mtx EXCEPT ![on[t]] = Nobody]
        /\ jobMtx' = IF t = Worker THEN [jobMtx EXCEPT ![on[t]] = Nobody] ELSE jobMtx
        /\ UNCHANGED <<on, conf, last, alive, jobManager, data, newFile, synced, file, durable>>
    BY <1>5 DEF Saved, At, Saving, diskVars
  <2> QED BY <2>1, LetGo
<1>6. ASSUME NEW t \in Threads, EnqueueLock(t) \/ Enqueue(t) PROVE Inv'
  BY <1>6, QuietKeeps
<1>7. ASSUME NEW t \in {Owner, Worker}, Open(t) \/ Write(t) \/ Sync(t) \/ Rename(t) \/ Refused(t) PROVE Inv'
  BY <1>7, SaveKeeps
<1>8. ASSUME Cancel(Owner) PROVE Inv'
  BY <1>8, CancelJobKeeps, QuietKeeps DEF Cancel
<1>9. CASE OwnerStep
  BY <1>9, <1>5, <1>6, <1>7, <1>8, RestoreJobKeeps, LockForSaveKeeps, QuietKeeps DEF OwnerStep, Save
<1>10. CASE WorkerStep
  BY <1>10, <1>5, <1>6, <1>7, SaveJobKeeps, QuietKeeps DEF WorkerStep, Save
<1>11. ASSUME NEW m \in Managers, EnableAutoSave(m) \/ DisableAutoSave(m) \/ BeginDestroy(m) PROVE Inv'
  BY <1>11, BeginDestroyKeeps, QuietKeeps
<1>12. ASSUME \/ UNCHANGED vars
              \/ \E m \in Managers : TimePasses(m)
       PROVE  Inv'
  BY <1>12, Elsewhere DEF TimePasses, vars, confVars, jobVars, diskVars
<1>13. CASE Kill \/ PowerCut
  BY <1>13, RestartKeeps
<1>14. ASSUME NEW c \in Clients, ClientStep(c) PROVE Inv'
  BY <1>14, <1>2, <1>3, <1>4, <1>6 DEF ClientStep
<1> QED BY <1>1, <1>7, <1>9, <1>10, <1>11, <1>12, <1>13, <1>14 DEF Next

-----------------------------------------------------------------------------
(* The theorems.                                                            *)

\* At every moment, and after a kill or a power cut at any moment, the settings file is there
\* and holds a whole version (ConfigManager::save writes a new file, syncs and renames it).
THEOREM FilesAreWholeHolds == Spec => []FilesAreWhole
<1>1. Inv => FilesAreWhole
  BY DEF Inv
<1> QED BY <1>1, InitInv, NextKeeps, PTL DEF Spec

\* A destroyed manager is out of the worker's reach: ConfigSaveWorker::cancel has taken the
\* back pointer of its job away, and no save by it is under way.
THEOREM UnreachableHolds == Spec => []Unreachable
<1>1. Inv => Unreachable
  BY DEF Inv
<1> QED BY <1>1, InitInv, NextKeeps, PTL DEF Spec

\* The mutexes do their work: whoever looks at the settings or saves them has the manager's
\* mutex, and what is half changed is in the hands of a client.
THEOREM LockedHolds == Spec => [](Locked /\ Whole)
<1>1. Inv => Locked /\ Whole
  BY DEF Inv
<1> QED BY <1>1, InitInv, NextKeeps, PTL DEF Spec

-----------------------------------------------------------------------------
(* The file never goes back.                                                *)

\* The disk is never ahead of the settings, nor the settings of the versions that were made.
Behind == \A m \in Managers :
  /\ file[m] <= last[m] /\ conf[m] <= last[m] /\ \A v \in durable[m] : v <= last[m]
  /\ conf[m] # Broken => file[m] <= conf[m]

\* What a save has in hand are the settings as they still are.
UpToDate == \A t \in Threads :
  /\ pc[t] = "write" => data[on[t]] = conf[on[t]]
  /\ pc[t] \in {"sync", "rename"} => newFile[on[t]] = conf[on[t]]

\* A step that is none of save().
LEMMA OutsideSave ==
  ASSUME UpToDate,
         \A t \in Threads : pc'[t] \in {"write", "sync", "rename"} =>
           pc'[t] = pc[t] /\ on'[t] = on[t] /\ conf'[on[t]] = conf[on[t]],
         UNCHANGED <<data, newFile>>
  PROVE  UpToDate'
BY DEF UpToDate

\* A client changes settings that nobody is saving.
LEMMA ChangeIsAhead ==
  ASSUME Inv, Behind, UpToDate, NEW c \in Clients, BeginChange(c) \/ EndChange(c)
  PROVE  Behind' /\ UpToDate'
<1> USE DEF At, jobVars, diskVars
<1>1. /\ pc' = [pc EXCEPT ![c] = IF pc[c] = "acquired" THEN "changing" ELSE "modified"]
      /\ pc[c] \in {"acquired", "changing"} /\ UNCHANGED <<on, data, newFile, file, durable>>
      /\ \A n \in Managers : n # on[c] => conf'[n] = conf[n] /\ last'[n] = last[n]
  BY DEF BeginChange, EndChange, Goto, Inv, Types
<1>2. on[c] \in Managers /\ mtx[on[c]] = c
  BY <1>1 DEF Inv, Types, Locked, Inside
<1>3. \A u \in Threads : pc[u] \in {"write", "sync", "rename"} => u # c /\ on[u] \in Managers /\ on[u] # on[c]
  BY <1>1, <1>2 DEF Inv, Locked, Saving, Types
<1>4. \A u \in Threads : pc'[u] \in {"write", "sync", "rename"} => pc'[u] = pc[u]
  BY <1>1 DEF Inv, Types
<1>5. UpToDate'
  BY <1>1, <1>3, <1>4, OutsideSave
<1>6. /\ last[on[c]] \in Nat /\ file[on[c]] \in Nat /\ durable[on[c]] \subseteq Nat
      /\ file[on[c]] <= last[on[c]] /\ \A v \in durable[on[c]] : v <= last[on[c]]
  BY <1>2 DEF Inv, Types, Behind
<1>7. CASE BeginChange(c)
  <2>1. conf'[on[c]] = Broken /\ last' = last
    BY <1>2, <1>7 DEF BeginChange, Inv, Types
  <2> QED BY <1>1, <1>5, <1>6, <2>1 DEF Behind, Broken
<1>8. CASE EndChange(c)
  <2>1. conf'[on[c]] = last[on[c]] + 1 /\ last'[on[c]] = last[on[c]] + 1
    BY <1>2, <1>8 DEF EndChange, Inv, Types
  <2>2. \A v \in durable[on[c]] : v <= last[on[c]] + 1
    BY <1>6
  <2>3. file[on[c]] <= last[on[c]] + 1
    BY <1>6
  <2> QED BY <1>1, <1>5, <1>6, <2>1, <2>2, <2>3 DEF Behind
<1> QED BY <1>7, <1>8

\* A save that goes on, or gives up.
LEMMA SaveIsUpToDate ==
  ASSUME Inv, Behind, UpToDate, NEW t \in Threads,
         Open(t) \/ Write(t) \/ Sync(t) \/ Rename(t) \/ Refused(t)
  PROVE  Behind' /\ UpToDate' /\ \A m \in Managers : file'[m] >= file[m]
<1> DEFINE m == on[t]
<1> USE DEF At
<1>0. PICK step \in Saving : pc[t] \in Saving /\ Goto(t, step) /\ UNCHANGED <<on, confVars, jobVars>>
  BY DEF Open, Write, Sync, Rename, Refused, Saving
<1>1. /\ \A u \in Threads : pc'[u] = (IF u = t THEN step ELSE pc[u])
      /\ m \in Managers /\ conf[m] # Broken
      /\ \A u \in Threads : u # t /\ pc[u] \in Saving => on[u] # m
  BY <1>0, SaveMoves
<1>2. UNCHANGED <<on, conf, last>>
  BY <1>0 DEF confVars
<1>3. /\ data \in [Managers -> Nat] /\ newFile \in [Managers -> Nat] /\ file \in [Managers -> Nat]
      /\ conf \in [Managers -> Nat] /\ last \in [Managers -> Nat] /\ durable \in [Managers -> SUBSET Nat]
  BY DEF Inv, Types
<1>4. ASSUME NEW u \in Threads, u # t, pc[u] \in {"write", "sync", "rename"}
      PROVE  /\ on[u] \in Managers /\ on[u] # m
             /\ pc[u] = "write" => data[on[u]] = conf[on[u]]
             /\ pc[u] \in {"sync", "rename"} => newFile[on[u]] = conf[on[u]]
  BY <1>1, <1>4 DEF Inv, Types, UpToDate, Saving
<1> HIDE DEF m
<1>5. UpToDate'
  <2>1. \A n \in Managers : n # m => data'[n] = data[n] /\ newFile'[n] = newFile[n]
    BY <1>3 DEF Open, Write, Sync, Rename, Refused, m
  <2>2. ASSUME NEW u \in Threads, u # t
        PROVE  /\ pc'[u] = "write" => data'[on'[u]] = conf'[on'[u]]
               /\ pc'[u] \in {"sync", "rename"} => newFile'[on'[u]] = conf'[on'[u]]
    BY <2>1, <2>2, <1>1, <1>2, <1>4
  <2>3. /\ pc'[t] = "write" => data'[m] = conf'[m]
        /\ pc'[t] \in {"sync", "rename"} => newFile'[m] = conf'[m]
    <3>1. CASE Open(t)
      BY <3>1, <1>1, <1>2, <1>3 DEF Open, Goto, Inv, Types, m
    <3>2. CASE Write(t)
      BY <3>2, <1>1, <1>2, <1>3 DEF Write, Goto, Inv, Types, UpToDate, m
    <3>3. CASE Sync(t)
      BY <3>3, <1>1, <1>2, <1>3 DEF Sync, Goto, Inv, Types, UpToDate, m
    <3>4. CASE Rename(t) \/ Refused(t)
      BY <3>4, <1>1 DEF Rename, Refused, Goto, Inv, Types
    <3> QED BY <3>1, <3>2, <3>3, <3>4
  <2> QED BY <2>2, <2>3, <1>2 DEF UpToDate, m
<1>6. CASE Rename(t)
  <2>1. newFile[m] = conf[m] /\ synced[m]
    BY <1>6 DEF Rename, UpToDate, Inv, Progress, m
  <2>2. /\ file' = [file EXCEPT ![m] = conf[m]]
        /\ durable' = [durable EXCEPT ![m] = durable[m] \cup {conf[m]}]
    BY <1>6, <2>1 DEF Rename, m
  <2>3. file[m] <= conf[m] /\ conf[m] <= last[m] /\ \A v \in durable[m] : v <= last[m]
    BY <1>1 DEF Behind
  <2>4. ASSUME NEW n \in Managers
        PROVE  /\ file'[n] <= last[n] /\ \A v \in durable'[n] : v <= last[n]
               /\ conf[n] # Broken => file'[n] <= conf[n]
               /\ file'[n] >= file[n]
    <3>1. CASE n = m
      BY <3>1, <2>2, <2>3, <1>1, <1>3
    <3>2. CASE n # m
      <4>1. file'[n] = file[n] /\ durable'[n] = durable[n]
        BY <3>2, <2>2, <1>3
      <4> QED BY <4>1, <1>3 DEF Behind
    <3> QED BY <3>1, <3>2
  <2>5. Behind'
    BY <2>4, <1>2 DEF Behind
  <2> QED BY <2>4, <2>5, <1>5
<1>7. CASE Open(t) \/ Write(t) \/ Sync(t) \/ Refused(t)
  <2>1. UNCHANGED <<file, durable>>
    BY <1>7 DEF Open, Write, Sync, Refused
  <2>2. \A n \in Managers : file'[n] >= file[n]
    BY <2>1, <1>3
  <2> QED BY <2>1, <2>2, <1>2, <1>5 DEF Behind
<1> QED BY <1>6, <1>7

\* A crash takes the settings back to a file that is not newer than they were.
LEMMA RestartIsBehind == ASSUME Inv, Behind, UpToDate, Kill \/ PowerCut PROVE Behind' /\ UpToDate'
<1>1. UpToDate'
  BY DEF Kill, PowerCut, Restart, UpToDate
<1>2. CASE Kill
  <2>1. conf' = file /\ file' = file /\ UNCHANGED <<last, durable>>
    BY <1>2 DEF Kill, Restart
  <2>2. \A m \in Managers : file[m] \in Nat /\ file[m] <= file[m]
    BY DEF Inv, Types
  <2>3. Behind'
    BY <2>1, <2>2 DEF Behind
  <2> QED BY <1>1, <2>3
<1>3. CASE PowerCut
  <2>1. PICK left \in [Managers -> UNION {durable[m] : m \in Managers}] :
          /\ \A m \in Managers : left[m] \in durable[m]
          /\ Restart(left)
          /\ durable' = [m \in Managers |-> {left[m]}]
    BY <1>3 DEF PowerCut
  <2>2. \A m \in Managers : left[m] \in Nat /\ left[m] <= last[m]
    BY <2>1 DEF Behind, Inv, Types
  <2>3. conf' = left /\ file' = left /\ last' = last
    BY <2>1 DEF Restart
  <2>4. \A m \in Managers : durable'[m] = {left[m]} /\ left[m] <= left[m]
    BY <2>1, <2>2
  <2>5. Behind'
    BY <2>2, <2>3, <2>4 DEF Behind
  <2> QED BY <1>1, <2>5
<1> QED BY <1>2, <1>3

\* The other steps touch neither the settings nor the disk, and lead into save() only at its start.
LEMMA OthersAreUpToDate ==
  ASSUME Inv, Behind, UpToDate,
         \/ \E c \in Clients : \/ ReleaseUnchanged(c) \/ Release(c)
                               \/ \E m \in Managers : AcquireToRead(c, m) \/ AcquireToChange(c, m)
         \/ \E t \in Threads : EnqueueLock(t) \/ Enqueue(t) \/ Saved(t)
         \/ RestoreJob \/ LockForSave \/ DestroyAutoSave \/ Cancel(Owner)
         \/ SaveJob \/ DropJob \/ RetryJob
         \/ \E m \in Managers : \/ TakeJob(m) \/ EnableAutoSave(m) \/ DisableAutoSave(m)
                                \/ BeginDestroy(m) \/ TimePasses(m)
         \/ UNCHANGED vars
  PROVE  Behind' /\ UpToDate' /\ \A m \in Managers : file'[m] >= file[m]
<1> USE DEF At, Goto, Enter, vars, confVars, jobVars, diskVars
<1>0. pc \in [Threads -> {"idle", "lockJob"} \cup Inside \cup OwnerAlive \cup Dtor] /\ on \in [Threads -> Managers]
  BY DEF Inv, Types
<1> DEFINE Outside == /\ UNCHANGED <<conf, last, data, newFile, file, durable>>
                      /\ \A t \in Threads : pc'[t] \in {"write", "sync", "rename"} => pc'[t] = pc[t] /\ on'[t] = on[t]
<1>1. SUFFICES Outside
  <2>1. Outside => Behind'
    BY DEF Behind
  <2>2. Outside => UpToDate'
    BY OutsideSave
  <2>3. Outside => \A m \in Managers : file'[m] >= file[m]
    BY DEF Inv, Types
  <2> QED BY <2>1, <2>2, <2>3
<1>2. ASSUME NEW c \in Clients, NEW m \in Managers,
             ReleaseUnchanged(c) \/ Release(c) \/ AcquireToRead(c, m) \/ AcquireToChange(c, m)
      PROVE  Outside
  BY <1>0, <1>2 DEF ReleaseUnchanged, Release, AcquireToRead, AcquireToChange, Acquire
<1>3. ASSUME NEW t \in Threads, EnqueueLock(t) \/ Enqueue(t) \/ Saved(t) PROVE Outside
  BY <1>0, <1>3 DEF EnqueueLock, Enqueue, Saved
<1>4. CASE RestoreJob \/ LockForSave \/ DestroyAutoSave
  BY <1>0, <1>4 DEF RestoreJob, LockForSave, DestroyAutoSave
<1>5. CASE Cancel(Owner)
  BY <1>0, <1>5 DEF Cancel, CancelQueue, CancelJob
<1>6. CASE SaveJob \/ DropJob \/ RetryJob
  BY <1>0, <1>6 DEF SaveJob, DropJob, RetryJob, LockJob
<1>7. ASSUME NEW m \in Managers,
             TakeJob(m) \/ EnableAutoSave(m) \/ DisableAutoSave(m) \/ BeginDestroy(m) \/ TimePasses(m)
      PROVE  Outside
  BY <1>0, <1>7 DEF TakeJob, EnableAutoSave, DisableAutoSave, BeginDestroy, TimePasses
<1>8. CASE UNCHANGED vars
  BY <1>8
<1>9. CASE \E c \in Clients : ReleaseUnchanged(c) \/ Release(c)
  <2>1. PICK c \in Clients : ReleaseUnchanged(c) \/ Release(c)
    BY <1>9
  <2>2. on[c] \in Managers
    BY <1>0
  <2> QED BY <1>2, <2>1, <2>2
<1> HIDE DEF Outside
<1> QED BY <1>2, <1>3, <1>4, <1>5, <1>6, <1>7, <1>8, <1>9

\* As long as the program runs, a step does not take a file back.
LEMMA StepMovesForward ==
  ASSUME Inv, Behind, UpToDate, crashes \in Nat, [Next]_vars
  PROVE  Behind' /\ UpToDate' /\ crashes' \in Nat
         /\ (crashes' = crashes => \A m \in Managers : file'[m] >= file[m])
<1> DEFINE Forward == \A m \in Managers : file'[m] >= file[m]
<1> DEFINE Kept == Behind' /\ UpToDate' /\ Forward
<1>1. ASSUME NEW c \in Clients, ClientStep(c) PROVE Kept
  <2>1. CASE BeginChange(c) \/ EndChange(c)
    <3>1. Forward
      BY <2>1 DEF BeginChange, EndChange, diskVars, Inv, Types
    <3> QED BY <2>1, <3>1, ChangeIsAhead
  <2>2. CASE ReleaseUnchanged(c) \/ Release(c) \/ EnqueueLock(c) \/ Enqueue(c)
    BY <2>2, OthersAreUpToDate
  <2> QED BY <1>1, <2>1, <2>2 DEF ClientStep
<1>2. ASSUME NEW t \in {Owner, Worker}, Save(t) \/ Refused(t) PROVE Kept
  <2>1. CASE Saved(t)
    BY <2>1, OthersAreUpToDate
  <2>2. CASE Open(t) \/ Write(t) \/ Sync(t) \/ Rename(t) \/ Refused(t)
    BY <2>2, SaveIsUpToDate
  <2> QED BY <1>2, <2>1, <2>2 DEF Save
<1>3. ASSUME \/ RestoreJob \/ LockForSave \/ DestroyAutoSave \/ Cancel(Owner)
             \/ \E t \in Threads : EnqueueLock(t) \/ Enqueue(t)
             \/ \E m \in Managers : TakeJob(m)
             \/ SaveJob \/ DropJob \/ RetryJob
      PROVE  Kept
  BY <1>3, OthersAreUpToDate
<1>4. ASSUME \/ \E m \in Managers : EnableAutoSave(m) \/ DisableAutoSave(m) \/ BeginDestroy(m) \/ TimePasses(m)
             \/ \E c \in Clients : \E m \in Managers : AcquireToRead(c, m) \/ AcquireToChange(c, m)
             \/ UNCHANGED vars
      PROVE  Kept
  BY <1>4, OthersAreUpToDate
<1>5. CASE Kill \/ PowerCut
  <2>1. crashes' = crashes + 1
    BY <1>5 DEF Kill, PowerCut, Restart
  <2>2. crashes' \in Nat /\ crashes' # crashes
    BY <2>1
  <2> QED BY <1>5, <2>2, RestartIsBehind
<1> HIDE DEF Forward, Kept
<1>6. CASE [Next]_vars /\ ~(Kill \/ PowerCut)
  <2>1. Kept
    BY <1>1, <1>2, <1>3, <1>4, <1>6 DEF Next, OwnerStep, WorkerStep
  <2>2. crashes' = crashes
    BY <1>6 DEF Next, ClientStep, OwnerStep, WorkerStep, Save, Cancel, BeginChange, EndChange,
       ReleaseUnchanged, Release, EnqueueLock, Enqueue, CancelQueue, CancelJob, AcquireToRead,
       AcquireToChange, Acquire, EnableAutoSave, RestoreJob, DisableAutoSave, LockForSave,
       BeginDestroy, DestroyAutoSave, TimePasses, TakeJob, SaveJob, DropJob, RetryJob, LockJob,
       Open, Write, Sync, Rename, Refused, Saved, bounds, vars
  <2> QED BY <2>1, <2>2 DEF Kept, Forward
<1> QED BY <1>5, <1>6

\* The saves of the worker and those of the owner never overtake each other: as long as the
\* program runs, a settings file never goes back to older settings.
THEOREM FileMovesForwardHolds == Spec => FileMovesForward
<1> DEFINE Counted == crashes \in Nat
<1>1. Init => Behind /\ UpToDate /\ Counted
  BY DEF Init, All, Behind, UpToDate, Broken
<1>2. Inv /\ Behind /\ UpToDate /\ Counted /\ [Next]_vars => Behind' /\ UpToDate' /\ Counted'
  BY StepMovesForward
<1>3. Inv /\ Behind /\ UpToDate /\ Counted /\ [Next]_vars =>
        [crashes' = crashes => \A m \in Managers : file'[m] >= file[m]]_vars
  BY StepMovesForward
<1> HIDE DEF Counted
<1> QED BY <1>1, <1>2, <1>3, InitInv, NextKeeps, PTL DEF Spec, FileMovesForward

-----------------------------------------------------------------------------
(* A change is not forgotten.                                               *)

\* Who is about to queue a save or to look at one; who will yet see to it that the manager
\* knows of the change; and where the owner has taken the job off the list but not yet marked it.
Asking   == {"enable", "enqueue", "enqueueJob", "lockJob"}
Handling == {"changing", "modified", "open", "write", "sync", "rename"}
Halfway  == {"disable2", "dtorCancel2", "dtorCancel4"}

Asked(m)   == \E t \in Threads : on[t] = m /\ pc[t] \in Asking
Handled(m) == \E t \in Threads : on[t] = m /\ pc[t] \in Handling

JobTypes ==
  /\ autoSave \in [Managers -> BOOLEAN] /\ changed \in [Managers -> BOOLEAN]
  /\ queued \in [Managers -> BOOLEAN] /\ failed \in [Managers -> BOOLEAN]
  /\ jobs \in [Managers -> Nat]

\* The owner cancels jobs of a manager only when it saves itself no longer, or dies.
OwnerCancels == /\ pc[Owner] \in {"disable", "disable2"} => ~autoSave[on[Owner]]
                /\ pc[Owner] \in Dtor => ~alive[on[Owner]]

\* A job with autosave on has its back pointer, or is about to get it.
Pointed == \A m \in Managers : alive[m] /\ autoSave[m] =>
             jobManager[m] \/ (on[Owner] = m /\ pc[Owner] = "enable")

\* A job that is marked as queued is in the list, unless the worker has just taken it off, or the
\* owner.
Listed == \A m \in Managers : queued[m] =>
            \/ jobs[m] > 0
            \/ on[Worker] = m /\ pc[Worker] = "lockJob"
            \/ on[Owner] = m /\ pc[Owner] \in Halfway

\* The manager knows when the file is behind, unless somebody is changing or saving the settings.
Noted == \A m \in Managers : conf[m] # file[m] /\ ~failed[m] => changed[m] \/ Handled(m)

\* While the manager knows of a change and autosave is on, a save is queued or about to be.
Pending == \A m \in Managers : alive[m] /\ autoSave[m] /\ changed[m] => jobs[m] > 0 \/ Asked(m)

PendInv == JobTypes /\ OwnerCancels /\ Pointed /\ Listed /\ Noted /\ Pending

\* Nothing is changed or queued when the program starts, and the files are the settings.
LEMMA InitPends == Init => PendInv
<1> SUFFICES ASSUME Init PROVE PendInv
  OBVIOUS
<1>1. JobTypes
  BY DEF Init, All, JobTypes
<1>2. OwnerCancels /\ Pointed /\ Listed /\ Noted /\ Pending
  BY DEF Init, All, OwnerCancels, Pointed, Listed, Noted, Pending, Dtor
<1> QED BY <1>1, <1>2 DEF PendInv

\* What a step of one thread does to who asks and who handles.
LEMMA Walk ==
  ASSUME Inv, NEW t \in Threads, NEW m \in Managers, NEW step,
         Goto(t, step), on' = [on EXCEPT ![t] = m] \/ (on' = on /\ m = on[t])
  PROVE  /\ \A u \in Threads : /\ pc'[u] = IF u = t THEN step ELSE pc[u]
                               /\ on'[u] = IF u = t THEN m ELSE on[u]
         /\ \A n : Asked(n) /\ (pc[t] \in Asking /\ on[t] = n => step \in Asking /\ m = n) => Asked(n)'
         /\ step \in Asking => Asked(m)'
         /\ \A n : Handled(n) /\ (pc[t] \in Handling /\ on[t] = n => step \in Handling /\ m = n)
                     => Handled(n)'
         /\ step \in Handling => Handled(m)'
<1>1. \A u \in Threads : /\ pc'[u] = IF u = t THEN step ELSE pc[u]
                         /\ on'[u] = IF u = t THEN m ELSE on[u]
  BY DEF Goto, Inv, Types
<1>2. ASSUME NEW n, Asked(n), pc[t] \in Asking /\ on[t] = n => step \in Asking /\ m = n
      PROVE  Asked(n)'
  <2>1. PICK u \in Threads : on[u] = n /\ pc[u] \in Asking
    BY <1>2 DEF Asked
  <2>2. on'[u] = n /\ pc'[u] \in Asking
    BY <1>1, <1>2, <2>1
  <2> QED BY <2>2 DEF Asked
<1>3. ASSUME NEW n, Handled(n), pc[t] \in Handling /\ on[t] = n => step \in Handling /\ m = n
      PROVE  Handled(n)'
  <2>1. PICK u \in Threads : on[u] = n /\ pc[u] \in Handling
    BY <1>3 DEF Handled
  <2>2. on'[u] = n /\ pc'[u] \in Handling
    BY <1>1, <1>3, <2>1
  <2> QED BY <2>2 DEF Handled
<1>4. /\ step \in Asking => Asked(m)'
      /\ step \in Handling => Handled(m)'
  BY <1>1 DEF Asked, Handled
<1> QED BY <1>1, <1>2, <1>3, <1>4

\* A thread that goes on without touching what is queued, changed or saved.
LEMMA WalkKeeps ==
  ASSUME Inv, PendInv, NEW t \in Threads, NEW m \in Managers, NEW step,
         Goto(t, step), on' = [on EXCEPT ![t] = m] \/ (on' = on /\ m = on[t]),
         pc[t] \in Asking => step \in Asking /\ m = on[t],
         pc[t] \in Handling => step \in Handling /\ m = on[t],
         t = Worker => pc[t] # "lockJob",
         t = Owner => pc[t] \notin Halfway \cup {"enable"} /\ step \notin {"disable", "disable2"} \cup Dtor,
         UNCHANGED <<conf, file, failed, alive, autoSave, jobManager, queued, jobs, changed>>
  PROVE  PendInv'
<1>1. /\ \A u \in Threads : /\ pc'[u] = IF u = t THEN step ELSE pc[u]
                            /\ on'[u] = IF u = t THEN m ELSE on[u]
      /\ \A n : Asked(n) => Asked(n)'
      /\ \A n : Handled(n) => Handled(n)'
  BY Walk
<1>2. JobTypes'
  BY DEF PendInv, JobTypes
<1>3. OwnerCancels'
  BY <1>1 DEF PendInv, OwnerCancels
<1>4. Pointed'
  BY <1>1 DEF PendInv, Pointed
<1>5. Listed'
  BY <1>1 DEF PendInv, Listed
<1>6. Noted'
  BY <1>1 DEF PendInv, Noted
<1>7. Pending'
  BY <1>1 DEF PendInv, Pending
<1> QED BY <1>2, <1>3, <1>4, <1>5, <1>6, <1>7 DEF PendInv

\* A client that changes the settings is at work on them until it has told the manager.
LEMMA ClientPends ==
  ASSUME Inv, PendInv, NEW c \in Clients, BeginChange(c) \/ EndChange(c) \/ Release(c)
  PROVE  PendInv'
<1>0. PICK m \in Managers : m = on[c]
  BY DEF Inv, Types
<1> USE DEF At, jobVars, diskVars, bounds
<1>1. m \in Managers /\ m = on[c] /\ c \in Threads /\ c # Owner /\ c # Worker
  BY <1>0
<1>2. PICK step : /\ Goto(c, step) /\ on' = on
                  /\ \/ pc[c] \in {"acquired", "changing"} /\ step \in {"changing", "modified"}
                     \/ pc[c] = "modified" /\ step = IF autoSave[m] THEN "enqueue" ELSE "idle"
  BY <1>1 DEF BeginChange, EndChange, Release, Handling
<1>3. /\ UNCHANGED <<file, failed, alive, autoSave, jobManager, queued, jobs>>
      /\ \A n \in Managers : n # m => conf'[n] = conf[n] /\ changed'[n] = changed[n]
      /\ pc[c] # "modified" => changed' = changed
      /\ pc[c] = "modified" => changed'[m] = TRUE
      /\ changed' \in [Managers -> BOOLEAN]
  BY <1>1, <1>2 DEF BeginChange, EndChange, Release, Inv, Types, PendInv, JobTypes
<1>4. /\ \A u \in Threads : /\ pc'[u] = IF u = c THEN step ELSE pc[u]
                            /\ on'[u] = IF u = c THEN m ELSE on[u]
      /\ \A n : Asked(n) /\ (pc[c] \in Asking /\ on[c] = n => step \in Asking /\ m = n) => Asked(n)'
      /\ step \in Asking => Asked(m)'
      /\ \A n : Handled(n) /\ (pc[c] \in Handling /\ on[c] = n => step \in Handling /\ m = n)
                  => Handled(n)'
      /\ step \in Handling => Handled(m)'
  BY <1>1, <1>2, Walk
<1>5. \A n : Asked(n) => Asked(n)'
  BY <1>2, <1>4 DEF Asking
<1>6. \A n : n # m /\ Handled(n) => Handled(n)'
  BY <1>1, <1>4
<1>7. JobTypes'
  BY <1>3 DEF PendInv, JobTypes
<1>8. OwnerCancels'
  BY <1>1, <1>3, <1>4 DEF PendInv, OwnerCancels
<1>9. Pointed' /\ Listed'
  BY <1>1, <1>3, <1>4 DEF PendInv, Pointed, Listed
<1>10. Noted'
  <2> SUFFICES ASSUME NEW n \in Managers, conf'[n] # file[n], ~failed[n]
               PROVE  changed'[n] \/ Handled(n)'
    BY <1>3 DEF Noted
  <2>1. CASE n = m
    BY <1>2, <1>3, <1>4, <2>1 DEF Handling
  <2>2. CASE n # m
    BY <1>3, <1>6, <2>2 DEF PendInv, Noted
  <2> QED BY <2>1, <2>2
<1>11. Pending'
  <2> SUFFICES ASSUME NEW n \in Managers, alive[n], autoSave[n], changed'[n]
               PROVE  jobs[n] > 0 \/ Asked(n)'
    BY <1>3 DEF Pending
  <2>1. CASE n = m /\ pc[c] = "modified"
    BY <1>2, <1>4, <2>1 DEF Asking
  <2>2. CASE ~(n = m /\ pc[c] = "modified")
    BY <1>3, <1>5, <2>2 DEF PendInv, Pending
  <2> QED BY <2>1, <2>2
<1> QED BY <1>7, <1>8, <1>9, <1>10, <1>11 DEF PendInv

\* A job that is queued already is in the list, or about to be looked at, or being cancelled.
LEMMA EnqueuePends ==
  ASSUME Inv, PendInv, NEW t \in Threads, Enqueue(t)
  PROVE  PendInv'
<1>0. PICK m \in Managers : m = on[t]
  BY DEF Inv, Types
<1> USE DEF At, confVars, diskVars
<1>1. /\ m \in Managers /\ m = on[t] /\ Goto(t, "idle") /\ on' = on /\ pc[t] = "enqueueJob"
      /\ UNCHANGED <<conf, file, failed, alive, autoSave, jobManager, changed>>
  BY <1>0 DEF Enqueue
<1>2. /\ \A u \in Threads : /\ pc'[u] = IF u = t THEN "idle" ELSE pc[u]
                            /\ on'[u] = IF u = t THEN m ELSE on[u]
      /\ \A n : Asked(n) /\ (pc[t] \in Asking /\ on[t] = n => "idle" \in Asking /\ m = n) => Asked(n)'
      /\ \A n : Handled(n) /\ (pc[t] \in Handling /\ on[t] = n => "idle" \in Handling /\ m = n)
                  => Handled(n)'
  BY <1>1, Walk
<1>3. /\ queued \in [Managers -> BOOLEAN] /\ jobs \in [Managers -> Nat]
      /\ queued' \in [Managers -> BOOLEAN] /\ jobs' \in [Managers -> Nat]
      /\ \A n \in Managers : n # m => queued'[n] = queued[n] /\ jobs'[n] = jobs[n]
      /\ jobManager[m] /\ ~queued[m] => jobs'[m] = jobs[m] + 1
      /\ ~(jobManager[m] /\ ~queued[m]) => jobs'[m] = jobs[m]
      /\ ~jobManager[m] => queued'[m] = queued[m]
  <2>1. queued \in [Managers -> BOOLEAN] /\ jobs \in [Managers -> Nat]
    BY DEF PendInv, JobTypes
  <2>2. CASE jobManager[m]
    <3>1. /\ queued' = [queued EXCEPT ![m] = TRUE]
          /\ jobs' = IF queued[m] THEN jobs ELSE [jobs EXCEPT ![m] = jobs[m] + 1]
      BY <1>1, <2>2 DEF Enqueue
    <3>2. jobs[m] + 1 \in Nat
      BY <1>1, <2>1
    <3> QED BY <1>1, <2>1, <2>2, <3>1, <3>2
  <2>3. CASE ~jobManager[m]
    BY <1>1, <2>1, <2>3 DEF Enqueue
  <2> QED BY <2>2, <2>3
<1>4. \A u \in Threads : pc[u] \in Asking /\ u # t => Asked(on[u])'
  BY <1>2 DEF Asked
<1>6. \A n : Handled(n) => Handled(n)'
  BY <1>1, <1>2 DEF Handling
<1>7. JobTypes'
  BY <1>1, <1>3 DEF PendInv, JobTypes
<1>8. OwnerCancels'
  BY <1>1, <1>2 DEF PendInv, OwnerCancels, Dtor
<1>9. Pointed'
  BY <1>1, <1>2 DEF PendInv, Pointed
<1>10. Listed'
  <2> SUFFICES ASSUME NEW n \in Managers, queued'[n]
               PROVE  \/ jobs'[n] > 0
                      \/ on'[Worker] = n /\ pc'[Worker] = "lockJob"
                      \/ on'[Owner] = n /\ pc'[Owner] \in Halfway
    BY DEF Listed
  <2>1. CASE queued[n]
    <3>1. \/ jobs[n] > 0
          \/ on[Worker] = n /\ pc[Worker] = "lockJob"
          \/ on[Owner] = n /\ pc[Owner] \in Halfway
      BY <2>1 DEF PendInv, Listed
    <3>2. jobs'[n] = jobs[n]
      BY <1>3, <2>1
    <3> QED BY <1>1, <1>2, <3>1, <3>2 DEF Halfway
  <2>2. CASE ~queued[n]
    <3>1. n = m /\ jobs'[n] = jobs[n] + 1 /\ jobs[n] \in Nat
      BY <1>3, <2>2
    <3> QED BY <3>1
  <2> QED BY <2>1, <2>2
<1>11. Noted'
  BY <1>1, <1>6 DEF PendInv, Noted
<1>12. Pending'
  <2> SUFFICES ASSUME NEW n \in Managers, alive[n], autoSave[n], changed[n]
               PROVE  jobs'[n] > 0 \/ Asked(n)'
    BY <1>1 DEF Pending
  <2>1. CASE n # m
    <3>1. jobs[n] > 0 \/ Asked(n)
      BY DEF PendInv, Pending
    <3> QED BY <1>1, <1>2, <1>3, <2>1, <3>1
  <2>2. CASE n = m /\ ~jobManager[m]
    <3>1. on[Owner] = m /\ pc[Owner] = "enable"
      BY <2>2 DEF PendInv, Pointed
    <3> QED BY <1>1, <1>4, <2>2, <3>1 DEF Asking
  <2>3. CASE n = m /\ jobManager[m] /\ ~queued[m]
    <3>1. jobs'[m] = jobs[m] + 1 /\ jobs[m] \in Nat
      BY <1>1, <1>3, <2>3
    <3> QED BY <2>3, <3>1
  <2>4. CASE n = m /\ jobManager[m] /\ queued[m]
    <3>1. ~(on[Owner] = m /\ pc[Owner] \in Halfway)
      BY <2>4 DEF PendInv, OwnerCancels, Halfway, Dtor
    <3>2. jobs[m] > 0 \/ (on[Worker] = m /\ pc[Worker] = "lockJob")
      BY <1>1, <2>4, <3>1 DEF PendInv, Listed
    <3> QED BY <1>1, <1>3, <1>4, <2>4, <3>2 DEF Asking
  <2> QED BY <2>1, <2>2, <2>3, <2>4
<1> QED BY <1>7, <1>8, <1>9, <1>10, <1>11, <1>12 DEF PendInv

\* cancel() empties the list of a manager that does not save itself any more.
LEMMA CancelPends ==
  ASSUME Inv, PendInv, Cancel(Owner)
  PROVE  PendInv'
<1>0. PICK m \in Managers : m = on[Owner]
  BY DEF Inv, Types
<1> USE DEF At, confVars, diskVars
<1>1. PICK step : /\ Goto(Owner, step) /\ on' = on
                  /\ \/ /\ pc[Owner] = "disable" /\ step = "disable2"
                        /\ CancelQueue(Owner, pc[Owner], step)
                     \/ /\ pc[Owner] = "dtorCancel1" /\ step = "dtorCancel2"
                        /\ CancelQueue(Owner, pc[Owner], step)
                     \/ /\ pc[Owner] = "dtorCancel3" /\ step = "dtorCancel4"
                        /\ CancelQueue(Owner, pc[Owner], step)
                     \/ /\ pc[Owner] = "disable2" /\ step = "lockForSave"
                        /\ CancelJob(Owner, pc[Owner], step)
                     \/ /\ pc[Owner] = "dtorCancel2" /\ step = "dtorCancel3"
                        /\ CancelJob(Owner, pc[Owner], step)
                     \/ /\ pc[Owner] = "dtorCancel4" /\ step = "idle"
                        /\ CancelJob(Owner, pc[Owner], step)
  <2> DEFINE Step(at, to) == pc[Owner] = at /\ Goto(Owner, to) /\ on' = on
  <2>1. \A at, to : CancelQueue(Owner, at, to) => Step(at, to)
    BY DEF CancelQueue
  <2>2. \A at, to : CancelJob(Owner, at, to) => Step(at, to)
    BY DEF CancelJob
  <2>3. CASE \/ CancelQueue(Owner, "disable", "disable2")
             \/ CancelQueue(Owner, "dtorCancel1", "dtorCancel2")
             \/ CancelQueue(Owner, "dtorCancel3", "dtorCancel4")
    BY <2>1, <2>3
  <2>4. CASE \/ CancelJob(Owner, "disable2", "lockForSave")
             \/ CancelJob(Owner, "dtorCancel2", "dtorCancel3")
             \/ CancelJob(Owner, "dtorCancel4", "idle")
    BY <2>2, <2>4
  <2> QED BY <2>3, <2>4 DEF Cancel
<1>2. UNCHANGED <<conf, file, failed, alive, autoSave, changed>>
  BY <1>1 DEF CancelQueue, CancelJob
<1>3. /\ queued \in [Managers -> BOOLEAN] /\ jobs \in [Managers -> Nat]
      /\ jobManager \in [Managers -> BOOLEAN]
  BY DEF PendInv, JobTypes, Inv, Types
<1>4. /\ queued' \in [Managers -> BOOLEAN] /\ jobs' \in [Managers -> Nat]
      /\ \A n \in Managers : n # m => /\ queued'[n] = queued[n] /\ jobs'[n] = jobs[n]
                                      /\ jobManager'[n] = jobManager[n]
      /\ step \in Halfway \/ ~queued'[m]
  <2>1. CASE pc[Owner] \in {"disable", "dtorCancel1", "dtorCancel3"}
    <3>1. CancelQueue(Owner, pc[Owner], step) /\ step \in {"disable2", "dtorCancel2", "dtorCancel4"}
      BY <1>1, <2>1
    <3>2. jobs' = [jobs EXCEPT ![m] = 0] /\ UNCHANGED <<queued, jobManager>>
      BY <1>0, <3>1 DEF CancelQueue
    <3> QED BY <1>3, <3>1, <3>2 DEF Halfway
  <2>2. CASE pc[Owner] \in {"disable2", "dtorCancel2", "dtorCancel4"}
    <3>1. CancelJob(Owner, pc[Owner], step)
      BY <1>1, <2>2
    <3>2. /\ jobs' = jobs /\ queued' = [queued EXCEPT ![m] = FALSE]
          /\ jobManager' = [jobManager EXCEPT ![m] = FALSE]
      BY <1>0, <3>1 DEF CancelJob
    <3> QED BY <1>3, <3>2
  <2> QED BY <1>1, <2>1, <2>2
<1>5. ~autoSave[m] \/ ~alive[m]
  BY <1>0, <1>1 DEF PendInv, OwnerCancels, Dtor
<1>6. /\ \A u \in Threads : /\ pc'[u] = IF u = Owner THEN step ELSE pc[u]
                            /\ on'[u] = IF u = Owner THEN m ELSE on[u]
      /\ \A n : Asked(n) /\ (pc[Owner] \in Asking /\ on[Owner] = n => step \in Asking /\ m = n)
                  => Asked(n)'
      /\ \A n : Handled(n) /\ (pc[Owner] \in Handling /\ on[Owner] = n => step \in Handling /\ m = n)
                  => Handled(n)'
  BY <1>0, <1>1, Walk
<1>7. \A n : (Asked(n) => Asked(n)') /\ (Handled(n) => Handled(n)')
  BY <1>1, <1>6 DEF Asking, Handling
<1>8. JobTypes'
  BY <1>2, <1>4 DEF PendInv, JobTypes
<1>9. OwnerCancels'
  BY <1>0, <1>1, <1>2, <1>6 DEF PendInv, OwnerCancels, Dtor
<1>10. Pointed'
  <2>1. ASSUME NEW n \in Managers, alive[n], autoSave[n]
        PROVE  jobManager'[n] \/ (on'[Owner] = n /\ pc'[Owner] = "enable")
    <3>1. n # m
      BY <1>5, <2>1
    <3>2. jobManager[n]
      BY <1>0, <1>1, <2>1, <3>1 DEF PendInv, Pointed
    <3> QED BY <1>4, <3>1, <3>2
  <2> QED BY <1>2, <2>1 DEF Pointed
<1>11. Listed'
  <2> SUFFICES ASSUME NEW n \in Managers, queued'[n]
               PROVE  \/ jobs'[n] > 0
                      \/ on'[Worker] = n /\ pc'[Worker] = "lockJob"
                      \/ on'[Owner] = n /\ pc'[Owner] \in Halfway
    BY DEF Listed
  <2>1. CASE n = m
    BY <1>4, <1>6, <2>1
  <2>2. CASE n # m
    <3>1. \/ jobs[n] > 0
          \/ on[Worker] = n /\ pc[Worker] = "lockJob"
      BY <1>0, <1>4, <2>2 DEF PendInv, Listed
    <3> QED BY <1>4, <1>6, <2>2, <3>1
  <2> QED BY <2>1, <2>2
<1>12. Noted'
  BY <1>2, <1>7 DEF PendInv, Noted
<1>13. Pending'
  <2>1. ASSUME NEW n \in Managers, alive[n], autoSave[n], changed[n]
        PROVE  jobs'[n] > 0 \/ Asked(n)'
    <3>1. n # m
      BY <1>5, <2>1
    <3> QED BY <1>4, <1>7, <2>1, <3>1 DEF PendInv, Pending
  <2> QED BY <1>2, <2>1 DEF Pending
<1> QED BY <1>8, <1>9, <1>10, <1>11, <1>12, <1>13 DEF PendInv

\* enableAutoSave() sets the back pointer and queues a save, whether anything changed or not.
LEMMA EnablePends ==
  ASSUME Inv, PendInv, RestoreJob \/ \E m \in Managers : EnableAutoSave(m)
  PROVE  PendInv'
<1> USE DEF At, Enter, confVars, jobVars, diskVars
<1>1. PICK m \in Managers, step \in {"enable", "enqueue"} :
        /\ Goto(Owner, step)
        /\ on' = [on EXCEPT ![Owner] = m] \/ (on' = on /\ m = on[Owner])
        /\ \/ /\ pc[Owner] = "idle" /\ step = "enable" /\ jobManager' = jobManager
              /\ autoSave' = [autoSave EXCEPT ![m] = TRUE]
           \/ /\ pc[Owner] = "enable" /\ step = "enqueue" /\ m = on[Owner]
              /\ jobManager' = [jobManager EXCEPT ![m] = TRUE] /\ autoSave' = autoSave
  <2>1. CASE RestoreJob
    <3>1. on[Owner] \in Managers
      BY DEF Inv, Types
    <3> QED BY <2>1, <3>1 DEF RestoreJob
  <2>2. CASE \E m \in Managers : EnableAutoSave(m)
    BY <2>2 DEF EnableAutoSave
  <2> QED BY <2>1, <2>2
<1>2. UNCHANGED <<conf, file, failed, alive, changed, queued, jobs>>
  BY DEF RestoreJob, EnableAutoSave
<1>3. /\ autoSave' \in [Managers -> BOOLEAN]
      /\ \A n \in Managers : n # m => autoSave'[n] = autoSave[n] /\ jobManager'[n] = jobManager[n]
      /\ jobManager'[m] \/ step = "enable"
  BY <1>1 DEF PendInv, JobTypes, Inv, Types
<1>4. /\ \A u \in Threads : /\ pc'[u] = IF u = Owner THEN step ELSE pc[u]
                            /\ on'[u] = IF u = Owner THEN m ELSE on[u]
      /\ \A n : Asked(n) /\ (pc[Owner] \in Asking /\ on[Owner] = n => step \in Asking /\ m = n)
                  => Asked(n)'
      /\ step \in Asking => Asked(m)'
      /\ \A n : Handled(n) /\ (pc[Owner] \in Handling /\ on[Owner] = n => step \in Handling /\ m = n)
                  => Handled(n)'
  <2>1. /\ Owner \in Threads /\ Goto(Owner, step)
        /\ on' = [on EXCEPT ![Owner] = m] \/ (on' = on /\ m = on[Owner])
    BY <1>1
  <2> QED BY <2>1, Walk
<1>5. /\ \A n : (Asked(n) => Asked(n)') /\ (Handled(n) => Handled(n)')
      /\ Asked(m)'
  BY <1>1, <1>4 DEF Asking, Handling
<1>6. JobTypes'
  BY <1>2, <1>3 DEF PendInv, JobTypes
<1>7. OwnerCancels'
  BY <1>1, <1>4 DEF OwnerCancels, Dtor
<1>8. Pointed'
  <2>1. ASSUME NEW n \in Managers, alive[n], autoSave'[n]
        PROVE  jobManager'[n] \/ (on'[Owner] = n /\ pc'[Owner] = "enable")
    <3>1. CASE n = m
      BY <1>3, <1>4, <3>1
    <3>2. CASE n # m
      <4>1. ~(on[Owner] = n /\ pc[Owner] = "enable")
        BY <1>1, <3>2
      <4> QED BY <1>3, <2>1, <3>2, <4>1 DEF PendInv, Pointed
    <3> QED BY <3>1, <3>2
  <2> QED BY <1>2, <2>1 DEF Pointed
<1>9. Listed'
  BY <1>1, <1>2, <1>4 DEF PendInv, Listed, Halfway
<1>10. Noted'
  BY <1>2, <1>5 DEF PendInv, Noted
<1>11. Pending'
  BY <1>2, <1>3, <1>5 DEF PendInv, Pending
<1> QED BY <1>6, <1>7, <1>8, <1>9, <1>10, <1>11 DEF PendInv

\* disableAutoSave() and the destructor switch autosave off before they cancel anything.
LEMMA OffPends ==
  ASSUME Inv, PendInv,
         DestroyAutoSave \/ \E m \in Managers : DisableAutoSave(m) \/ BeginDestroy(m)
  PROVE  PendInv'
<1> USE DEF At, Enter, confVars, jobVars, diskVars
<1>1. PICK m \in Managers, step \in {"disable", "destroy", "dtorCancel1", "dtorCancel3"} :
        /\ Goto(Owner, step)
        /\ on' = [on EXCEPT ![Owner] = m] \/ (on' = on /\ m = on[Owner])
        /\ \/ /\ pc[Owner] = "idle" /\ step = "disable" /\ alive' = alive
              /\ autoSave' = [autoSave EXCEPT ![m] = FALSE]
           \/ /\ pc[Owner] = "idle" /\ step = "destroy" /\ autoSave' = autoSave
              /\ alive' = [alive EXCEPT ![m] = FALSE]
           \/ /\ pc[Owner] = "destroy" /\ step \in {"dtorCancel1", "dtorCancel3"} /\ m = on[Owner]
              /\ autoSave' = [autoSave EXCEPT ![m] = FALSE] /\ alive' = alive
  <2>1. CASE DestroyAutoSave
    <3>1. on[Owner] \in Managers
      BY DEF Inv, Types
    <3>2. \E step \in {"dtorCancel1", "dtorCancel3"} : Goto(Owner, step)
      BY <2>1 DEF DestroyAutoSave
    <3> QED BY <2>1, <3>1, <3>2 DEF DestroyAutoSave
  <2>2. CASE \E m \in Managers : DisableAutoSave(m)
    BY <2>2 DEF DisableAutoSave
  <2>3. CASE \E m \in Managers : BeginDestroy(m)
    BY <2>3 DEF BeginDestroy
  <2> QED BY <2>1, <2>2, <2>3
<1>2. UNCHANGED <<conf, file, failed, changed, jobManager, queued, jobs>>
  BY DEF DestroyAutoSave, DisableAutoSave, BeginDestroy
<1>3. /\ autoSave' \in [Managers -> BOOLEAN]
      /\ \A n \in Managers : alive'[n] /\ autoSave'[n] => alive[n] /\ autoSave[n]
      /\ step = "disable" => ~autoSave'[m]
      /\ step # "disable" => ~alive'[m]
  <2>1. autoSave \in [Managers -> BOOLEAN] /\ alive \in [Managers -> BOOLEAN]
    BY DEF PendInv, JobTypes, Inv, Types
  <2>2. pc[Owner] = "destroy" => ~alive[on[Owner]]
    BY DEF PendInv, OwnerCancels, Dtor
  <2> QED BY <1>1, <2>1, <2>2
<1>4. /\ \A u \in Threads : /\ pc'[u] = IF u = Owner THEN step ELSE pc[u]
                            /\ on'[u] = IF u = Owner THEN m ELSE on[u]
      /\ \A n : Asked(n) /\ (pc[Owner] \in Asking /\ on[Owner] = n => step \in Asking /\ m = n)
                  => Asked(n)'
      /\ \A n : Handled(n) /\ (pc[Owner] \in Handling /\ on[Owner] = n => step \in Handling /\ m = n)
                  => Handled(n)'
  <2>1. /\ Owner \in Threads /\ Goto(Owner, step)
        /\ on' = [on EXCEPT ![Owner] = m] \/ (on' = on /\ m = on[Owner])
    BY <1>1
  <2> QED BY <2>1, Walk
<1>5. \A n : (Asked(n) => Asked(n)') /\ (Handled(n) => Handled(n)')
  BY <1>1, <1>4 DEF Asking, Handling
<1>6. JobTypes'
  BY <1>2, <1>3 DEF PendInv, JobTypes
<1>7. OwnerCancels'
  BY <1>1, <1>3, <1>4 DEF OwnerCancels, Dtor
<1>8. Pointed'
  BY <1>1, <1>2, <1>3, <1>4 DEF PendInv, Pointed
<1>9. Listed'
  BY <1>1, <1>2, <1>4 DEF PendInv, Listed, Halfway
<1>10. Noted'
  BY <1>2, <1>5 DEF PendInv, Noted
<1>11. Pending'
  BY <1>2, <1>3, <1>5 DEF PendInv, Pending
<1> QED BY <1>6, <1>7, <1>8, <1>9, <1>10, <1>11 DEF PendInv

\* A job taken off the list is looked at; then its manager is saved, or has nothing to save, or
\* the job is queued again.
LEMMA WorkerPends ==
  ASSUME Inv, PendInv, SaveJob \/ DropJob \/ RetryJob \/ \E m \in Managers : TakeJob(m)
  PROVE  PendInv'
<1> USE DEF At, Enter, confVars, jobVars, diskVars
<1>1. ASSUME NEW m \in Managers, TakeJob(m) PROVE PendInv'
  <2>1. /\ Worker \in Threads /\ Goto(Worker, "lockJob") /\ on' = [on EXCEPT ![Worker] = m]
        /\ pc[Worker] = "idle"
        /\ UNCHANGED <<conf, file, failed, alive, autoSave, changed, queued, jobManager>>
    BY <1>1 DEF TakeJob
  <2>2. /\ jobs' \in [Managers -> Nat]
        /\ \A n \in Managers : n # m => jobs'[n] = jobs[n]
    BY <1>1 DEF TakeJob, PendInv, JobTypes
  <2>3. /\ \A u \in Threads : /\ pc'[u] = IF u = Worker THEN "lockJob" ELSE pc[u]
                              /\ on'[u] = IF u = Worker THEN m ELSE on[u]
        /\ \A n : Asked(n) /\ (pc[Worker] \in Asking /\ on[Worker] = n => "lockJob" \in Asking /\ m = n)
                    => Asked(n)'
        /\ "lockJob" \in Asking => Asked(m)'
        /\ \A n : Handled(n) /\ (pc[Worker] \in Handling /\ on[Worker] = n
                                   => "lockJob" \in Handling /\ m = n)
                    => Handled(n)'
    <3>1. on' = [on EXCEPT ![Worker] = m] \/ (on' = on /\ m = on[Worker])
      BY <2>1
    <3>2. Worker \in Threads /\ Goto(Worker, "lockJob")
      BY <2>1
    <3> HIDE DEF Enter, At
    <3> QED BY <3>1, <3>2, Walk
  <2>4. /\ \A n : (Asked(n) => Asked(n)') /\ (Handled(n) => Handled(n)')
        /\ Asked(m)'
    BY <2>1, <2>3 DEF Asking, Handling
  <2>5. JobTypes' /\ OwnerCancels' /\ Pointed'
    BY <2>1, <2>2, <2>3 DEF PendInv, JobTypes, OwnerCancels, Pointed
  <2>6. Listed'
    BY <2>1, <2>2, <2>3 DEF PendInv, Listed
  <2>7. Noted'
    BY <2>1, <2>4 DEF PendInv, Noted
  <2>8. Pending'
    BY <2>1, <2>2, <2>4 DEF PendInv, Pending
  <2> QED BY <2>5, <2>6, <2>7, <2>8 DEF PendInv
<1>2. CASE SaveJob \/ DropJob \/ RetryJob
  <2>0. PICK m \in Managers : m = on[Worker]
    BY DEF Inv, Types
  <2>1. /\ pc[Worker] = "lockJob" /\ on' = on /\ queued' = [queued EXCEPT ![m] = FALSE]
        /\ UNCHANGED <<conf, file, failed, alive, autoSave, jobManager, jobs>>
    BY <1>2, <2>0 DEF SaveJob, DropJob, RetryJob, LockJob
  <2>2. PICK step :
          /\ Worker \in Threads /\ Goto(Worker, step)
          /\ \/ step = "open" /\ changed' = [changed EXCEPT ![m] = FALSE]
             \/ step = "idle" /\ changed' = changed /\ (jobManager[m] => ~ToSave(m))
             \/ step = "enqueue" /\ changed' = changed
    BY <1>2, <2>0 DEF SaveJob, DropJob, RetryJob
  <2>3. /\ queued' \in [Managers -> BOOLEAN] /\ changed' \in [Managers -> BOOLEAN]
        /\ \A n \in Managers : n # m => queued'[n] = queued[n] /\ changed'[n] = changed[n]
        /\ ~queued'[m]
        /\ step = "open" => ~changed'[m]
    BY <2>1, <2>2 DEF PendInv, JobTypes
  <2>4. /\ \A u \in Threads : /\ pc'[u] = IF u = Worker THEN step ELSE pc[u]
                              /\ on'[u] = IF u = Worker THEN m ELSE on[u]
        /\ \A n : Asked(n) /\ (pc[Worker] \in Asking /\ on[Worker] = n => step \in Asking /\ m = n)
                    => Asked(n)'
        /\ step \in Asking => Asked(m)'
        /\ \A n : Handled(n) /\ (pc[Worker] \in Handling /\ on[Worker] = n => step \in Handling /\ m = n)
                    => Handled(n)'
        /\ step \in Handling => Handled(m)'
    BY <2>0, <2>1, <2>2, Walk
  <2>5. /\ \A n : n # m /\ Asked(n) => Asked(n)'
        /\ \A n : Handled(n) => Handled(n)'
    BY <2>0, <2>1, <2>4 DEF Handling
  <2>6. JobTypes'
    BY <2>1, <2>3 DEF PendInv, JobTypes
  <2>7. OwnerCancels' /\ Pointed'
    BY <2>1, <2>4 DEF PendInv, OwnerCancels, Pointed
  <2>8. Listed'
    BY <2>0, <2>1, <2>3, <2>4 DEF PendInv, Listed
  <2>9. Noted'
    <3> SUFFICES ASSUME NEW n \in Managers, conf[n] # file[n], ~failed[n]
                 PROVE  changed'[n] \/ Handled(n)'
      BY <2>1 DEF Noted
    <3>1. changed[n] \/ Handled(n)
      BY DEF PendInv, Noted
    <3>2. CASE n # m \/ step # "open"
      BY <2>2, <2>3, <2>5, <3>1, <3>2
    <3>3. CASE n = m /\ step = "open"
      BY <2>4, <3>3 DEF Handling
    <3> QED BY <3>2, <3>3
  <2>10. Pending'
    <3> SUFFICES ASSUME NEW n \in Managers, alive[n], autoSave[n], changed'[n]
                 PROVE  jobs[n] > 0 \/ Asked(n)'
      BY <2>1 DEF Pending
    <3>1. CASE n # m
      BY <2>3, <2>5, <3>1 DEF PendInv, Pending
    <3>2. CASE n = m /\ step = "idle"
      <4>1. ~jobManager[m]
        BY <2>2, <3>2 DEF ToSave
      <4>2. on[Owner] = m /\ pc[Owner] = "enable"
        BY <3>2, <4>1 DEF PendInv, Pointed
      <4>3. on'[Owner] = n /\ pc'[Owner] = "enable"
        BY <2>4, <3>2, <4>2
      <4> QED BY <4>3 DEF Asked, Asking
    <3>3. CASE n = m /\ step = "enqueue"
      BY <2>4, <3>3 DEF Asking
    <3>4. CASE n = m /\ step = "open"
      BY <2>3, <3>4
    <3> QED BY <2>2, <3>1, <3>2, <3>3, <3>4
  <2> QED BY <2>6, <2>7, <2>8, <2>9, <2>10 DEF PendInv
<1> QED BY <1>1, <1>2

\* A save that ends leaves the settings in the file, or has been refused.
LEMMA SaveEndPends ==
  ASSUME Inv, UpToDate, PendInv, NEW t \in Threads, Rename(t) \/ Refused(t)
  PROVE  PendInv'
<1> USE DEF At, confVars, jobVars
<1>0. PICK m \in Managers : m = on[t]
  BY DEF Inv, Types
<1>1. /\ Goto(t, "saved") /\ on' = on /\ pc[t] \in {"open", "write", "sync", "rename"}
      /\ UNCHANGED <<conf, alive, autoSave, changed, jobManager, queued, jobs>>
  BY DEF Rename, Refused
<1>2. /\ failed' \in [Managers -> BOOLEAN]
      /\ \A n \in Managers : n # m => file'[n] = file[n] /\ failed'[n] = failed[n]
      /\ file'[m] = conf[m] \/ failed'[m]
  <2>1. CASE Rename(t)
    <3>1. newFile[m] = conf[m]
      BY <1>0, <2>1 DEF Rename, UpToDate
    <3>2. file' = [file EXCEPT ![m] = newFile[m]] /\ failed' = [failed EXCEPT ![m] = FALSE]
      BY <1>0, <2>1 DEF Rename
    <3> QED BY <3>1, <3>2 DEF Inv, Types, PendInv, JobTypes
  <2>2. CASE Refused(t)
    <3>1. file' = file /\ failed' = [failed EXCEPT ![m] = TRUE]
      BY <1>0, <2>2 DEF Refused
    <3> QED BY <3>1 DEF PendInv, JobTypes
  <2> QED BY <2>1, <2>2
<1>3. /\ \A u \in Threads : /\ pc'[u] = IF u = t THEN "saved" ELSE pc[u]
                            /\ on'[u] = IF u = t THEN m ELSE on[u]
      /\ \A n : Asked(n) /\ (pc[t] \in Asking /\ on[t] = n => "saved" \in Asking /\ m = n) => Asked(n)'
      /\ \A n : Handled(n) /\ (pc[t] \in Handling /\ on[t] = n => "saved" \in Handling /\ m = n)
                  => Handled(n)'
  BY <1>0, <1>1, Walk
<1>4. \A n : (Asked(n) => Asked(n)') /\ (n # m /\ Handled(n) => Handled(n)')
  BY <1>0, <1>1, <1>3 DEF Asking
<1>5. JobTypes'
  BY <1>1, <1>2 DEF PendInv, JobTypes
<1>6. OwnerCancels' /\ Pointed' /\ Listed'
  BY <1>1, <1>3 DEF PendInv, OwnerCancels, Pointed, Listed, Dtor, Halfway
<1>7. Noted'
  BY <1>1, <1>2, <1>4 DEF PendInv, Noted
<1>8. Pending'
  BY <1>1, <1>4 DEF PendInv, Pending
<1> QED BY <1>5, <1>6, <1>7, <1>8 DEF PendInv

\* A program that starts again has the settings of its files.
LEMMA RestartPends ==
  ASSUME Kill \/ PowerCut
  PROVE  PendInv'
<1>1. /\ conf' = file' /\ autoSave' = All(FALSE) /\ changed' = All(FALSE)
      /\ queued' = All(FALSE) /\ failed' = All(FALSE) /\ jobs' = All(0)
      /\ pc' = [t \in Threads |-> "idle"]
  BY DEF Kill, PowerCut, Restart
<1>2. JobTypes'
  BY <1>1 DEF JobTypes, All
<1>3. OwnerCancels' /\ Pointed' /\ Listed' /\ Noted' /\ Pending'
  BY <1>1 DEF OwnerCancels, Pointed, Listed, Noted, Pending, All, Dtor
<1> QED BY <1>2, <1>3 DEF PendInv

\* The other steps change nothing that is queued, changed or saved.
LEMMA WalkersPend ==
  ASSUME Inv, PendInv,
         \/ \E c \in Clients : \/ ReleaseUnchanged(c)
                               \/ \E m \in Managers : AcquireToRead(c, m) \/ AcquireToChange(c, m)
         \/ \E t \in Threads : EnqueueLock(t) \/ Open(t) \/ Write(t) \/ Sync(t) \/ Saved(t)
         \/ LockForSave
  PROVE  PendInv'
<1> USE DEF At, Enter, confVars, jobVars, diskVars
<1>1. ASSUME NEW c \in Clients, NEW m \in Managers, AcquireToRead(c, m) \/ AcquireToChange(c, m)
      PROVE  PendInv'
  <2>1. PICK step : /\ step \in {"reading", "acquired"} /\ Acquire(c, m, step)
    BY <1>1 DEF AcquireToRead, AcquireToChange
  <2>2. /\ c \in Threads /\ c # Worker /\ c # Owner /\ pc[c] = "idle"
        /\ Goto(c, step) /\ on' = [on EXCEPT ![c] = m]
        /\ UNCHANGED <<conf, file, failed, alive, autoSave, jobManager, queued, jobs, changed>>
    BY <2>1 DEF Acquire
  <2> QED BY <2>2, WalkKeeps DEF Asking, Handling
<1>2. ASSUME NEW t \in Threads, NEW m \in Managers, m = on[t],
             \/ t \in Clients /\ ReleaseUnchanged(t)
             \/ EnqueueLock(t) \/ Open(t) \/ Write(t) \/ Sync(t) \/ Saved(t)
             \/ t = Owner /\ LockForSave
      PROVE  PendInv'
  <2>1. PICK step :
          /\ Goto(t, step) /\ on' = on
          /\ \/ pc[t] = "reading" /\ step = "idle"
             \/ pc[t] = "enqueue" /\ step = "enqueueJob"
             \/ pc[t] = "open" /\ step = "write"
             \/ pc[t] = "write" /\ step = "sync"
             \/ pc[t] = "sync" /\ step = "rename"
             \/ pc[t] = "saved" /\ step = "idle"
             \/ pc[t] = "lockForSave" /\ step = "open"
    BY <1>2 DEF ReleaseUnchanged, EnqueueLock, Open, Write, Sync, Saved, LockForSave
  <2>2. UNCHANGED <<conf, file, failed, alive, autoSave, jobManager, queued, jobs, changed>>
    BY <1>2 DEF ReleaseUnchanged, EnqueueLock, Open, Write, Sync, Saved, LockForSave
  <2>3. /\ pc[t] \in Asking => step \in Asking /\ m = on[t]
        /\ pc[t] \in Handling => step \in Handling /\ m = on[t]
        /\ t = Worker => pc[t] # "lockJob"
        /\ t = Owner => /\ pc[t] \notin Halfway \cup {"enable"}
                        /\ step \notin {"disable", "disable2"} \cup Dtor
    BY <1>2, <2>1 DEF Asking, Handling, Halfway, Dtor
  <2> QED BY <1>2, <2>1, <2>2, <2>3, WalkKeeps
<1>3. \A t \in Threads : \E m \in Managers : m = on[t]
  BY DEF Inv, Types
<1> QED BY <1>1, <1>2, <1>3

\* Nobody forgets a change.
LEMMA PendStep ==
  ASSUME Inv, UpToDate, PendInv, [Next]_vars
  PROVE  PendInv'
<1>1. ASSUME NEW t \in Threads, Save(t) \/ Refused(t) PROVE PendInv'
  BY <1>1, WalkersPend, SaveEndPends DEF Save
<1>2. ASSUME NEW c \in Clients, ClientStep(c) PROVE PendInv'
  BY <1>2, ClientPends, WalkersPend, EnqueuePends DEF ClientStep
<1>3. CASE OwnerStep
  BY <1>1, <1>3, EnablePends, OffPends, CancelPends, WalkersPend, EnqueuePends DEF OwnerStep
<1>4. CASE WorkerStep
  BY <1>1, <1>4, WorkerPends, WalkersPend, EnqueuePends DEF WorkerStep
<1>5. CASE \E c \in Clients, m \in Managers : AcquireToRead(c, m) \/ AcquireToChange(c, m)
  BY <1>5, WalkersPend
<1>6. CASE \E m \in Managers : EnableAutoSave(m) \/ DisableAutoSave(m) \/ BeginDestroy(m)
  BY <1>6, EnablePends, OffPends
<1>7. CASE (\E m \in Managers : TimePasses(m)) \/ UNCHANGED vars
  <2>1. UNCHANGED <<conf, file, failed, alive, autoSave, jobManager, queued, jobs, changed, pc, on>>
    BY <1>7 DEF TimePasses, vars, confVars, jobVars, diskVars
  <2> QED BY <2>1 DEF PendInv, JobTypes, OwnerCancels, Pointed, Listed, Noted, Pending, Asked, Handled
<1>8. CASE Kill \/ PowerCut
  BY <1>8, RestartPends
<1> QED BY <1>1, <1>2, <1>3, <1>4, <1>5, <1>6, <1>7, <1>8 DEF Next

\* A change is not forgotten, in whatever order clients change settings, the owner switches
\* autosave, the worker takes jobs up and the disk refuses: see ChangeIsPending.
THEOREM ChangeIsPendingHolds == Spec => []ChangeIsPending
<1> DEFINE Counted == crashes \in Nat
<1>1. Init => Behind /\ UpToDate /\ Counted
  BY DEF Init, All, Behind, UpToDate, Broken
<1>2. Inv /\ Behind /\ UpToDate /\ Counted /\ [Next]_vars => Behind' /\ UpToDate' /\ Counted'
  BY StepMovesForward
<1>3. Inv /\ UpToDate /\ PendInv /\ [Next]_vars => PendInv'
  BY PendStep
<1>4. Inv /\ PendInv => ChangeIsPending
  <2> SUFFICES ASSUME Inv, PendInv, NEW m \in Managers, alive[m], autoSave[m], mtx[m] = Nobody,
                      conf[m] # file[m], ~failed[m]
               PROVE  changed[m] /\ (jobs[m] > 0 \/ Asked(m))
    BY DEF ChangeIsPending, Asked, Asking
  <2>1. ~Handled(m)
    BY DEF Handled, Handling, Inv, Locked, Inside, Saving
  <2>2. changed[m]
    BY <2>1 DEF PendInv, Noted
  <2> QED BY <2>2 DEF PendInv, Pending
<1> HIDE DEF Counted
<1> QED BY <1>1, <1>2, <1>3, <1>4, InitInv, NextKeeps, InitPends, PTL DEF Spec
=============================================================================
