------------------------------- MODULE Config -------------------------------
(***************************************************************************)
(* Settings and how they reach the disk: ConfigManager and the one         *)
(* background ConfigSaveWorker all managers share (core/src/config.cpp).   *)
(*                                                                         *)
(* Client threads change the settings between acquire() and                *)
(* release(true).  The owner of a manager - the code that loads and        *)
(* unloads the module it belongs to - switches autosave on, and at the end *)
(* switches it off, saves once more and destroys the manager.  The worker  *)
(* saves a manager a while after its last change.  The disk may refuse any *)
(* step of a save, the process may be killed, and the power may go.        *)
(*                                                                         *)
(* A settings object is a version number; 0 is what no save may leave      *)
(* behind: an object a client is in the middle of changing, or a file that *)
(* is empty or cut off.  The four kinds of mutex are modelled as such: a   *)
(* step of a thread that may have to wait for one is an action of its own. *)
(***************************************************************************)
EXTENDS Naturals, FiniteSets

CONSTANTS Managers,     \* the ConfigManager objects, one per settings file
          Clients,      \* threads that change settings
          MaxVersion,   \* bound: versions of each settings object
          MaxCrashes,   \* bound: kills and power cuts
          MaxFailures,  \* bound: steps of a save that the disk refuses
          MaxToggles,   \* bound: how often the owner switches autosave off
          MaxReads      \* bound: acquire() ... release(false) without a change

ASSUME BoundsAssumption ==
  {MaxVersion, MaxCrashes, MaxFailures, MaxToggles, MaxReads} \subseteq Nat /\ MaxVersion > 0

Broken == 0
Nobody == "nobody"
Worker == "worker"
Owner  == "owner"
Threads == Clients \cup {Worker, Owner}
ASSUME ClientsAssumption == Clients \cap {Worker, Owner, Nobody} = {}

VARIABLES
  conf, last,            \* the settings, and how many versions of them were made
  changed, autoSave,     \* members of ConfigManager
  alive,                 \* the manager exists: not yet destroyed
  mtx,                   \* who holds ConfigManager::mtx
  jobManager, queued,    \* SaveJob: manager is not NULL; queued
  elapsed,               \* SaveJob: due has passed
  jobMtx,                \* who holds SaveJob::mtx
  jobs,                  \* the worker's list: how many entries each job has in it
  workerMtx,             \* who holds ConfigSaveWorker::mtx
  pc, on,                \* each thread's step, and the manager it is at work on
  data,                  \* what the save under way writes
  newFile, synced,       \* "<path>.new" (Broken: absent or cut off), and whether fsync returned
  file,                  \* "<path>", as the program sees it
  durable,               \* what a power cut may leave at "<path>"
  failed,                \* history: the last save of this manager was refused by the disk
  crashes, failures, toggles, reads

confVars == <<conf, last, changed, autoSave, alive, mtx>>
jobVars  == <<jobManager, queued, elapsed, jobMtx, jobs, workerMtx>>
diskVars == <<data, newFile, synced, file, durable, failed>>
bounds   == <<crashes, failures, toggles, reads>>
vars == <<confVars, jobVars, pc, on, diskVars, bounds>>

All(v) == [m \in Managers |-> v]

Init ==
  /\ conf = All(1) /\ last = All(1) /\ data = All(1) /\ file = All(1) /\ durable = All({1})
  /\ changed = All(FALSE) /\ autoSave = All(FALSE) /\ alive = All(TRUE) /\ mtx = All(Nobody)
  /\ jobManager = All(TRUE) /\ queued = All(FALSE) /\ elapsed = All(FALSE)
  /\ jobMtx = All(Nobody) /\ jobs = All(0) /\ workerMtx = Nobody
  /\ newFile = All(Broken) /\ synced = All(FALSE) /\ failed = All(FALSE)
  /\ pc = [t \in Threads |-> "idle"] /\ \E m \in Managers : on = [t \in Threads |-> m]
  /\ crashes = 0 /\ failures = 0 /\ toggles = 0 /\ reads = 0

-----------------------------------------------------------------------------
At(t, step) == pc[t] = step
Goto(t, step) == pc' = [pc EXCEPT ![t] = step]
Enter(t, m, step) == At(t, "idle") /\ Goto(t, step) /\ on' = [on EXCEPT ![t] = m]

(* Clients: acquire(), change, release().                                   *)

Acquire(c, m, step) ==
  /\ alive[m] /\ mtx[m] = Nobody
  /\ Enter(c, m, step)
  /\ mtx' = [mtx EXCEPT ![m] = c]
  /\ UNCHANGED <<conf, last, changed, autoSave, alive, jobVars, diskVars, crashes, failures, toggles>>

AcquireToRead(c, m) == reads < MaxReads /\ reads' = reads + 1 /\ Acquire(c, m, "reading")

AcquireToChange(c, m) == last[m] < MaxVersion /\ Acquire(c, m, "acquired") /\ UNCHANGED reads

BeginChange(c) ==
  /\ At(c, "acquired")
  /\ Goto(c, "changing")
  /\ conf' = [conf EXCEPT ![on[c]] = Broken]
  /\ UNCHANGED <<last, changed, autoSave, alive, mtx, on, jobVars, diskVars, bounds>>

EndChange(c) ==
  /\ At(c, "changing")
  /\ Goto(c, "modified")
  /\ last' = [last EXCEPT ![on[c]] = @ + 1]
  /\ conf' = [conf EXCEPT ![on[c]] = last[on[c]] + 1]
  /\ UNCHANGED <<changed, autoSave, alive, mtx, on, jobVars, diskVars, bounds>>

\* release(false)
ReleaseUnchanged(c) ==
  /\ At(c, "reading")
  /\ mtx' = [mtx EXCEPT ![on[c]] = Nobody]
  /\ Goto(c, "idle")
  /\ UNCHANGED <<conf, last, changed, autoSave, alive, on, jobVars, diskVars, bounds>>

\* release(true): the job is copied under the lock, and queued after it was dropped.
Release(c) ==
  /\ At(c, "modified")
  /\ LET m == on[c] IN
       /\ changed' = [changed EXCEPT ![m] = TRUE]
       /\ Goto(c, IF autoSave[m] THEN "enqueue" ELSE "idle")
       /\ mtx' = [mtx EXCEPT ![m] = Nobody]
  /\ UNCHANGED <<conf, last, autoSave, alive, on, jobVars, diskVars, bounds>>

-----------------------------------------------------------------------------
(* ConfigSaveWorker::enqueue, by a client, the owner or the worker itself:  *)
(* both mutexes are taken, in this order.                                   *)

EnqueueLock(t) ==
  /\ At(t, "enqueue") /\ workerMtx = Nobody
  /\ workerMtx' = t
  /\ Goto(t, "enqueueJob")
  /\ UNCHANGED <<confVars, jobManager, queued, elapsed, jobMtx, jobs, on, diskVars, bounds>>

Enqueue(t) ==
  /\ At(t, "enqueueJob") /\ jobMtx[on[t]] = Nobody
  /\ LET m == on[t] IN
       IF jobManager[m]
       THEN /\ elapsed' = [elapsed EXCEPT ![m] = FALSE]
            /\ queued' = [queued EXCEPT ![m] = TRUE]
            /\ jobs' = IF queued[m] THEN jobs ELSE [jobs EXCEPT ![m] = @ + 1]
       ELSE UNCHANGED <<elapsed, queued, jobs>>
  /\ workerMtx' = Nobody
  /\ Goto(t, "idle")
  /\ UNCHANGED <<confVars, jobManager, jobMtx, on, diskVars, bounds>>

\* ConfigSaveWorker::cancel, in its two critical sections; what follows depends on the caller.
CancelQueue(t, step, next) ==
  /\ At(t, step) /\ workerMtx = Nobody
  /\ jobs' = [jobs EXCEPT ![on[t]] = 0]
  /\ Goto(t, next)
  /\ UNCHANGED <<confVars, jobManager, queued, elapsed, jobMtx, workerMtx, on, diskVars, bounds>>

CancelJob(t, step, next) ==
  /\ At(t, step) /\ jobMtx[on[t]] = Nobody
  /\ queued' = [queued EXCEPT ![on[t]] = FALSE]
  /\ jobManager' = [jobManager EXCEPT ![on[t]] = FALSE]
  /\ Goto(t, next)
  /\ UNCHANGED <<confVars, elapsed, jobMtx, jobs, workerMtx, on, diskVars, bounds>>

-----------------------------------------------------------------------------
(* The owner: enableAutoSave() when the module is loaded; disableAutoSave() *)
(* and save() when it is unloaded; then the destructor.                     *)

EnableAutoSave(m) ==
  /\ alive[m] /\ ~autoSave[m]
  /\ Enter(Owner, m, "enable")
  /\ autoSave' = [autoSave EXCEPT ![m] = TRUE]
  /\ UNCHANGED <<conf, last, changed, alive, mtx, jobVars, diskVars, bounds>>

\* Mutant: enableAutoSave() queues nothing.
RestoreJob_NoEnqueue ==
  /\ At(Owner, "enable") /\ jobMtx[on[Owner]] = Nobody
  /\ jobManager' = [jobManager EXCEPT ![on[Owner]] = TRUE]
  /\ Goto(Owner, "idle")
  /\ UNCHANGED <<confVars, queued, elapsed, jobMtx, jobs, workerMtx, on, diskVars, bounds>>

RestoreJob ==
  /\ At(Owner, "enable") /\ jobMtx[on[Owner]] = Nobody
  /\ jobManager' = [jobManager EXCEPT ![on[Owner]] = TRUE]
  /\ Goto(Owner, "enqueue")
  /\ UNCHANGED <<confVars, queued, elapsed, jobMtx, jobs, workerMtx, on, diskVars, bounds>>

DisableAutoSave(m) ==
  /\ alive[m] /\ autoSave[m] /\ toggles < MaxToggles
  /\ Enter(Owner, m, "disable")
  /\ toggles' = toggles + 1
  /\ autoSave' = [autoSave EXCEPT ![m] = FALSE]
  /\ UNCHANGED <<conf, last, changed, alive, mtx, jobVars, diskVars, crashes, failures, reads>>

\* Mutant: save(false) at unload.
LockForSave_Unlocked ==
  /\ At(Owner, "lockForSave")
  /\ Goto(Owner, "open")
  /\ UNCHANGED <<confVars, on, jobVars, diskVars, bounds>>

\* save() at unload waits for the settings like any client.
LockForSave ==
  /\ At(Owner, "lockForSave") /\ mtx[on[Owner]] = Nobody
  /\ mtx' = [mtx EXCEPT ![on[Owner]] = Owner]
  /\ Goto(Owner, "open")
  /\ UNCHANGED <<conf, last, changed, autoSave, alive, on, jobVars, diskVars, bounds>>

\* The destructor, once nobody is inside acquire() ... release() - a client may still be
\* about to queue the job it copied.
BeginDestroy(m) ==
  /\ alive[m] /\ mtx[m] = Nobody
  /\ Enter(Owner, m, "destroy")
  /\ alive' = [alive EXCEPT ![m] = FALSE]
  /\ UNCHANGED <<conf, last, changed, autoSave, mtx, jobVars, diskVars, bounds>>

\* Mutant: nothing to do when autosave is off.
DestroyAutoSave_Only ==
  /\ At(Owner, "destroy")
  /\ Goto(Owner, IF autoSave[on[Owner]] THEN "dtorCancel1" ELSE "idle")
  /\ autoSave' = [autoSave EXCEPT ![on[Owner]] = FALSE]
  /\ UNCHANGED <<conf, last, changed, alive, mtx, on, jobVars, diskVars, bounds>>

\* Its first call, disableAutoSave(), does nothing when autosave is off.
DestroyAutoSave ==
  /\ At(Owner, "destroy")
  /\ Goto(Owner, IF autoSave[on[Owner]] THEN "dtorCancel1" ELSE "dtorCancel3")
  /\ autoSave' = [autoSave EXCEPT ![on[Owner]] = FALSE]
  /\ UNCHANGED <<conf, last, changed, alive, mtx, on, jobVars, diskVars, bounds>>

\* The members are gone.
Freed(m) == ~alive[m] /\ ~(on[Owner] = m /\ pc[Owner] # "idle")

-----------------------------------------------------------------------------
(* The worker.                                                              *)

TimePasses(m) ==
  /\ jobs[m] > 0 /\ ~elapsed[m]
  /\ elapsed' = [elapsed EXCEPT ![m] = TRUE]
  /\ UNCHANGED <<confVars, jobManager, queued, jobMtx, jobs, workerMtx, pc, on, diskVars, bounds>>

\* A due job is taken off the list ...
TakeJob(m) ==
  /\ jobs[m] > 0 /\ elapsed[m] /\ workerMtx = Nobody
  /\ Enter(Worker, m, "lockJob")
  /\ jobs' = [jobs EXCEPT ![m] = @ - 1]
  /\ UNCHANGED <<confVars, jobManager, queued, elapsed, jobMtx, workerMtx, diskVars, bounds>>

\* ... and looked at under its own mutex.  The manager's is only tried: when somebody has it,
\* the job goes back on the list.
LockJob ==
  /\ At(Worker, "lockJob") /\ jobMtx[on[Worker]] = Nobody
  /\ queued' = [queued EXCEPT ![on[Worker]] = FALSE]
  /\ UNCHANGED <<conf, last, autoSave, alive, jobManager, elapsed, jobs, workerMtx, on, diskVars, bounds>>

ToSave(m) == autoSave[m] /\ changed[m]

\* changed is reset and save(false) entered, under both mutexes.
SaveJob ==
  LET m == on[Worker] IN
  /\ LockJob /\ jobManager[m] /\ mtx[m] = Nobody /\ ToSave(m)
  /\ mtx' = [mtx EXCEPT ![m] = Worker]
  /\ jobMtx' = [jobMtx EXCEPT ![m] = Worker]
  /\ changed' = [changed EXCEPT ![m] = FALSE]
  /\ Goto(Worker, "open")

\* The manager has nothing to save, or is gone.
DropJob ==
  LET m == on[Worker] IN
  /\ LockJob /\ (jobManager[m] => mtx[m] = Nobody /\ ~ToSave(m))
  /\ Goto(Worker, "idle")
  /\ UNCHANGED <<mtx, jobMtx, changed>>

\* Mutant: a job whose manager is in use is dropped.
RetryJob_Dropped ==
  /\ LockJob /\ jobManager[on[Worker]] /\ mtx[on[Worker]] # Nobody
  /\ Goto(Worker, "idle")
  /\ UNCHANGED <<mtx, jobMtx, changed>>

\* The manager is in use.
RetryJob ==
  /\ LockJob /\ jobManager[on[Worker]] /\ mtx[on[Worker]] # Nobody
  /\ Goto(Worker, "enqueue")
  /\ UNCHANGED <<mtx, jobMtx, changed>>

-----------------------------------------------------------------------------
(* save(): dump, write "<path>.new", fflush and fsync, rename.  Whoever     *)
(* runs it holds the manager's mutex throughout.                            *)

Open(t) ==
  /\ At(t, "open")
  /\ data' = [data EXCEPT ![on[t]] = conf[on[t]]]
  /\ newFile' = [newFile EXCEPT ![on[t]] = Broken]
  /\ synced' = [synced EXCEPT ![on[t]] = FALSE]
  /\ Goto(t, "write")
  /\ UNCHANGED <<confVars, jobVars, on, file, durable, failed, bounds>>

\* Mutant: no fsync().
Write_NoSync(t) ==
  /\ At(t, "write")
  /\ newFile' = [newFile EXCEPT ![on[t]] = data[on[t]]]
  /\ Goto(t, "rename")
  /\ UNCHANGED <<confVars, jobVars, on, data, synced, file, durable, failed, bounds>>

Write(t) ==
  /\ At(t, "write")
  /\ newFile' = [newFile EXCEPT ![on[t]] = data[on[t]]]
  /\ Goto(t, "sync")
  /\ UNCHANGED <<confVars, jobVars, on, data, synced, file, durable, failed, bounds>>

Sync(t) ==
  /\ At(t, "sync")
  /\ synced' = [synced EXCEPT ![on[t]] = TRUE]
  /\ Goto(t, "rename")
  /\ UNCHANGED <<confVars, jobVars, on, data, newFile, file, durable, failed, bounds>>

\* Until the directory reaches the disk a power cut may still leave what was there before.
Rename(t) ==
  /\ At(t, "rename")
  /\ LET m == on[t] IN
       /\ file' = [file EXCEPT ![m] = newFile[m]]
       /\ durable' = [durable EXCEPT ![m] = @ \cup {IF synced[m] THEN newFile[m] ELSE Broken}]
       /\ newFile' = [newFile EXCEPT ![m] = Broken]
       /\ failed' = [failed EXCEPT ![m] = FALSE]
  /\ Goto(t, "saved")
  /\ UNCHANGED <<confVars, jobVars, on, data, synced, bounds>>

\* Mutant: the error path returns without unlocking.
Refused_KeepsLock(t) ==
  /\ pc[t] \in {"open", "write", "sync", "rename"} /\ failures < MaxFailures
  /\ failures' = failures + 1
  /\ newFile' = IF At(t, "rename") THEN newFile ELSE [newFile EXCEPT ![on[t]] = Broken]
  /\ failed' = [failed EXCEPT ![on[t]] = TRUE]
  /\ Goto(t, "idle")
  /\ UNCHANGED <<confVars, jobVars, on, data, synced, file, durable, crashes, toggles, reads>>

\* Any of them may fail: the new file is removed (it stays when it is the rename that fails)
\* and the program carries on.
Refused(t) ==
  /\ pc[t] \in {"open", "write", "sync", "rename"} /\ failures < MaxFailures
  /\ failures' = failures + 1
  /\ newFile' = IF At(t, "rename") THEN newFile ELSE [newFile EXCEPT ![on[t]] = Broken]
  /\ failed' = [failed EXCEPT ![on[t]] = TRUE]
  /\ Goto(t, "saved")
  /\ UNCHANGED <<confVars, jobVars, on, data, synced, file, durable, crashes, toggles, reads>>

\* The mutexes save() ran under are released.
Saved(t) ==
  /\ At(t, "saved")
  /\ mtx' = [mtx EXCEPT ![on[t]] = Nobody]
  /\ jobMtx' = IF t = Worker THEN [jobMtx EXCEPT ![on[t]] = Nobody] ELSE jobMtx
  /\ Goto(t, "idle")
  /\ UNCHANGED <<conf, last, changed, autoSave, alive, jobManager, queued, elapsed, jobs,
                 workerMtx, on, diskVars, bounds>>

-----------------------------------------------------------------------------
(* The process is killed, or the power goes; then the program starts again  *)
(* and load()s what it finds.                                               *)

Restart(content) ==
  /\ crashes < MaxCrashes
  /\ crashes' = crashes + 1
  /\ conf' = content /\ data' = content /\ file' = content
  /\ changed' = All(FALSE) /\ autoSave' = All(FALSE) /\ alive' = All(TRUE) /\ mtx' = All(Nobody)
  /\ jobManager' = All(TRUE) /\ queued' = All(FALSE) /\ elapsed' = All(FALSE)
  /\ jobMtx' = All(Nobody) /\ jobs' = All(0) /\ workerMtx' = Nobody
  /\ pc' = [t \in Threads |-> "idle"] /\ failed' = All(FALSE)
  /\ UNCHANGED <<last, on, newFile, synced, failures, toggles, reads>>

Kill == Restart(file) /\ UNCHANGED durable

PowerCut ==
  \E left \in [Managers -> UNION {durable[m] : m \in Managers}] :
    /\ \A m \in Managers : left[m] \in durable[m]
    /\ Restart(left)
    /\ durable' = [m \in Managers |-> {left[m]}]
-----------------------------------------------------------------------------
Cancel(t) == \/ CancelQueue(t, "disable", "disable2") \/ CancelJob(t, "disable2", "lockForSave")
             \/ CancelQueue(t, "dtorCancel1", "dtorCancel2") \/ CancelJob(t, "dtorCancel2", "dtorCancel3")
             \/ CancelQueue(t, "dtorCancel3", "dtorCancel4") \/ CancelJob(t, "dtorCancel4", "idle")

Save(t) == Open(t) \/ Write(t) \/ Sync(t) \/ Rename(t) \/ Saved(t)

ClientStep(c) == BeginChange(c) \/ EndChange(c) \/ ReleaseUnchanged(c) \/ Release(c)
                 \/ EnqueueLock(c) \/ Enqueue(c)
OwnerStep == \/ RestoreJob \/ LockForSave \/ DestroyAutoSave \/ Cancel(Owner)
             \/ EnqueueLock(Owner) \/ Enqueue(Owner) \/ Save(Owner)
WorkerStep == \/ \E m \in Managers : TakeJob(m)
              \/ SaveJob \/ DropJob \/ RetryJob \/ EnqueueLock(Worker) \/ Enqueue(Worker) \/ Save(Worker)

Next ==
  \/ \E c \in Clients : ClientStep(c) \/ \E m \in Managers : AcquireToRead(c, m) \/ AcquireToChange(c, m)
  \/ OwnerStep \/ WorkerStep \/ Refused(Owner) \/ Refused(Worker)
  \/ \E m \in Managers : \/ EnableAutoSave(m) \/ DisableAutoSave(m) \/ BeginDestroy(m)
                         \/ TimePasses(m)
  \/ Kill \/ PowerCut

Spec == Init /\ [][Next]_vars

\* Threads are scheduled and time passes.  Nobody has to change a setting or unload a module,
\* and the disk does not have to refuse anything.
Fairness == /\ \A c \in Clients : WF_vars(ClientStep(c))
            /\ WF_vars(OwnerStep) /\ WF_vars(WorkerStep)
            /\ \A m \in Managers : WF_vars(TimePasses(m))

FairSpec == Spec /\ Fairness

-----------------------------------------------------------------------------
(* Properties.                                                              *)

\* At every moment, and after a kill or a power cut at any moment, the settings file is there
\* and holds one whole version that a client had finished.
FilesAreWhole == \A m \in Managers : file[m] # Broken /\ Broken \notin durable[m]

\* A destroyed manager is out of everyone's reach: its job has no back pointer to it, and
\* the worker is not in the middle of saving it.
Unreachable ==
  \A m \in Managers : Freed(m) =>
    ~jobManager[m] /\ ~(on[Worker] = m /\ pc[Worker] \in {"open", "write", "sync", "rename", "saved"})

\* A change is not forgotten: while the file is behind the settings and autosave is on, the
\* manager knows it, and a save is queued or somebody is about to queue one - unless the disk
\* refused the last save, which is not tried again before the next change.
ChangeIsPending ==
  \A m \in Managers :
    alive[m] /\ autoSave[m] /\ mtx[m] = Nobody /\ conf[m] # file[m] /\ ~failed[m] =>
      /\ changed[m]
      /\ \/ jobs[m] > 0
         \/ \E t \in Threads : on[t] = m /\ pc[t] \in {"enable", "enqueue", "enqueueJob", "lockJob"}

\* Saves never overtake each other: as long as the program runs, the file never goes back to
\* older settings.
FileMovesForward == [][crashes' = crashes => \A m \in Managers : file'[m] >= file[m]]_vars

\* A change reaches the disk while autosave stays on and the disk accepts it, although the
\* worker only tries the manager's mutex and never waits for it.
ChangesAreSaved ==
  \A m \in Managers : changed[m] /\ autoSave[m] ~>
                        file[m] = conf[m] \/ ~autoSave[m] \/ failed[m] \/ crashes > 0

\* Nobody waits for ever: every enqueue(), cancel(), save() and destructor returns, in
\* whatever order the four mutexes were asked for.
EverybodyReturns == \A t \in Threads : ~At(t, "idle") ~> At(t, "idle")
=============================================================================
