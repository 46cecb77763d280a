------------------------------- MODULE Sources ------------------------------
(***************************************************************************)
(* SourceManager and its DeviceProbeWorker (core/src/signal_path/source.cpp), *)
(* with the source menu (gui/menus/source.cpp) and the play button          *)
(* (gui/main_window.cpp) that call it.  Two threads: the UI thread loads    *)
(* and unloads source modules, selects, starts and stops a source and polls *)
(* for changed devices; the probe worker asks the selected source's module  *)
(* which devices are connected, which takes long and is done outside mtx.   *)
(*                                                                          *)
(* A step of the UI thread is one action, for it has no other to interleave *)
(* with but the worker, except that unregisterSource() waits for a probe in *)
(* between.  A step of the worker is what it does under mtx, or one probe.  *)
(***************************************************************************)
EXTENDS Naturals, FiniteSets

CONSTANTS
  Handlers,          \* the source modules that can be loaded; one handler each
  Probed,            \* those with a probeHandler and a refreshHandler
  None,              \* no handler, no signature
  DeviceSets,        \* what can be connected
  NoDevices,         \* ... nothing
  MaxChanges,        \* bound: how often devices come and go
  MaxFailures,       \* bound: how many probes throw
  DebugServer        \* whether the debug server's /source/type is used

ASSUME ProbedAssumption == Probed \subseteq Handlers
ASSUME NoneAssumption == None \notin Handlers /\ None \notin DeviceSets
ASSUME DevicesAssumption == NoDevices \in DeviceSets
ASSUME BoundsAssumption == MaxChanges \in Nat /\ MaxFailures \in Nat /\ DebugServer \in BOOLEAN

VARIABLES
  sources,           \* the registered handlers: those whose module is loaded
  selected,          \* selectedHandler, selectedName
  menu,              \* selectedSource of the menu
  input,             \* whose stream the IQ front end reads; None: nullSource
  playing, started,  \* the play state, and the handlers that were started and not stopped
  menuOpen,          \* the source menu is on the screen
  leaving,           \* the handler unregisterSource() is waiting with, or None
  list,              \* the devices each module offers in its menu
  target, signature, changed,    \* of the worker, under mtx
  due, asked,        \* nextProbe has passed; poll() was called in the last second
  worker,            \* the worker's step: "look", "idle" and "timed" under or waiting for mtx,
                     \* "probing" in the handler, with probeMtx only, "answer" back from it
  probing, answer,   \* its locals: the handler it asks, and what that answered
  devices,           \* the devices really connected
  changes, failures  \* history: how often the devices changed and a probe threw

ui     == <<sources, selected, menu, input, playing, started, menuOpen, leaving, list>>
watch  == <<target, signature, changed>>
locals == <<probing, answer>>
world  == <<devices, changes, failures>>
vars   == <<ui, watch, due, asked, worker, locals, world>>

Init ==
  /\ sources = {} /\ selected = None /\ menu = None /\ input = None
  /\ playing = FALSE /\ started = {} /\ menuOpen = FALSE /\ leaving = None
  /\ devices \in DeviceSets /\ list = [h \in Handlers |-> NoDevices]
  /\ target = None /\ signature = None /\ changed = FALSE
  /\ due = TRUE /\ asked = FALSE
  /\ worker = "look" /\ probing = None /\ answer = None
  /\ changes = 0 /\ failures = 0

-----------------------------------------------------------------------------
(* The UI thread.                                                           *)

Responsive == leaving = None

\* Mutant: the menu is not told.
Select_Silently(h) == selected' = h /\ input' = h /\ UNCHANGED menu

\* selectSource() of the manager; the menu follows through onSourceSelected.
Select(h) == selected' = h /\ menu' = h /\ input' = h

\* onSourcesChanged() of the menu: the source it shows again, or the first there is.
Reselect == IF menu \in sources' THEN Select(menu)
            ELSE \E h \in sources' : Select(h)

\* A module's constructor enumerates its devices and registers.
RegisterSource(h) ==
  /\ Responsive /\ h \notin sources
  /\ sources' = sources \cup {h}
  /\ list' = [list EXCEPT ![h] = devices]
  /\ Reselect
  /\ UNCHANGED <<playing, started, menuOpen, leaving, watch, due, asked, worker, locals, world>>

\* Mutant: the probe in flight is not waited for.
MustWait_Never(h) == FALSE

\* forget() waits for the probe in flight, whoever it belongs to.
MustWait(h) == h \in Probed

Forget(h) == IF h \in Probed /\ target = h
             THEN target' = None /\ signature' = None /\ changed' = FALSE
             ELSE UNCHANGED watch

\* Mutant: the radio plays on.
StopsRadio_Never(h) == FALSE

\* onSourceUnregister() of the menu: the radio is stopped when its source goes.
StopsRadio(h) == playing /\ menu = h

\* A module's destructor stops its hardware, then unregisters.
BeginUnregister(h) ==
  /\ Responsive /\ h \in sources
  /\ playing' = (playing /\ ~StopsRadio(h))
  /\ started' = started \ ({h} \cup IF StopsRadio(h) THEN {selected} ELSE {})
  /\ Forget(h)
  /\ leaving' = h
  /\ UNCHANGED <<sources, selected, menu, input, menuOpen, list, due, asked, worker, locals, world>>

\* The rest of unregisterSource(), and of the destructor: the module is gone.
EndUnregister(h) ==
  /\ leaving = h
  /\ MustWait(h) => worker # "probing"
  /\ sources' = sources \ {h} /\ leaving' = None
  /\ IF sources' # {} THEN Reselect
     ELSE selected' = None /\ menu' = None /\ input' = None
  /\ UNCHANGED <<playing, started, menuOpen, list, watch, due, asked, worker, locals, world>>

\* The combo box, which is disabled while playing, or the debug server's source request.
SelectSource(h) ==
  /\ Responsive /\ h \in sources
  /\ playing => DebugServer
  /\ Select(h)
  /\ UNCHANGED <<sources, playing, started, menuOpen, leaving, list, watch, due, asked, worker, locals, world>>

\* setPlayState(true); a source whose device does not open leaves the radio stopped.
Play ==
  /\ Responsive /\ ~playing /\ selected # None
  /\ playing' = TRUE /\ started' = started \cup {selected}
  /\ UNCHANGED <<sources, selected, menu, input, menuOpen, leaving, list, watch, due, asked, worker, locals, world>>

\* setPlayState(false): the stop button, or the watchdog over a silent source.
StopPlaying ==
  /\ Responsive /\ playing
  /\ playing' = FALSE /\ started' = started \ {selected}
  /\ UNCHANGED <<sources, selected, menu, input, menuOpen, leaving, list, watch, due, asked, worker, locals, world>>

ToggleMenu ==
  /\ Responsive /\ menuOpen' = ~menuOpen
  /\ UNCHANGED <<sources, selected, menu, input, playing, started, leaving, list, watch, due, asked, worker, locals, world>>

\* poll() returns true, so pollDeviceChanges() has the module enumerate its devices.
Report(h) == changed' = FALSE /\ list' = [list EXCEPT ![h] = devices]

\* Mutant: the worker is notified only when the target changes.
Wakes_NewTarget(new) == new

\* poll() notifies when a probe is due, as it is for a new target.
Wakes(new) == new \/ due

\* pollDeviceChanges(), called for every frame while the menu is open and the radio stopped.
PollDeviceChanges ==
  /\ Responsive /\ menuOpen /\ ~playing /\ selected \in Probed
  /\ LET new == target # selected
     IN  /\ target' = selected
         /\ signature' = IF new THEN None ELSE signature
         /\ due' = (due \/ new)
         /\ worker' = IF Wakes(new) /\ worker \in {"idle", "timed"} THEN "look" ELSE worker
         /\ IF changed /\ ~new THEN Report(selected)
            ELSE changed' = FALSE /\ UNCHANGED list
  /\ asked' = TRUE
  /\ UNCHANGED <<sources, selected, menu, input, playing, started, menuOpen, leaving, locals, world>>

-----------------------------------------------------------------------------
(* The probe worker.                                                        *)

\* Under mtx: sleep when nobody asks or it is too early, else copy the target and take
\* probeMtx before mtx is dropped.
Look ==
  /\ worker = "look"
  /\ \/ /\ target = None \/ ~asked
        /\ worker' = "idle" /\ UNCHANGED <<due, probing>>
     \/ /\ target # None /\ asked /\ ~due
        /\ worker' = "timed" /\ UNCHANGED <<due, probing>>
     \/ /\ target # None /\ asked /\ due
        /\ worker' = "probing" /\ probing' = target /\ due' = FALSE
  /\ UNCHANGED <<ui, watch, asked, answer, world>>

ProbeReturns ==
  /\ worker = "probing"
  /\ answer' = devices /\ worker' = "answer"
  /\ UNCHANGED <<ui, watch, due, asked, probing, world>>

\* The device library throws; the empty answer is what no devices look like.
ProbeThrows ==
  /\ worker = "probing" /\ failures < MaxFailures
  /\ failures' = failures + 1
  /\ answer' = NoDevices /\ worker' = "answer"
  /\ UNCHANGED <<ui, watch, due, asked, probing, devices, changes>>

\* Under mtx again: an answer about another handler than the target is dropped.
TakeAnswer ==
  /\ worker = "answer"
  /\ worker' = "look"
  /\ IF target = probing
     THEN changed' = (changed \/ (signature # None /\ answer # signature)) /\ signature' = answer
     ELSE UNCHANGED <<changed, signature>>
  /\ probing' = None /\ answer' = None
  /\ UNCHANGED <<ui, target, due, asked, world>>

\* wait_until()'s deadline has come.
DeadlineWake ==
  /\ worker = "timed" /\ due
  /\ worker' = "look"
  /\ UNCHANGED <<ui, watch, due, asked, locals, world>>

\* A spurious wake-up.
SpuriousWake ==
  /\ worker \in {"idle", "timed"}
  /\ worker' = "look"
  /\ UNCHANGED <<ui, watch, due, asked, locals, world>>

-----------------------------------------------------------------------------
(* Time and the world.                                                      *)

\* PROBE_INTERVAL is over.
IntervalPasses ==
  /\ ~due /\ due' = TRUE
  /\ UNCHANGED <<ui, watch, asked, worker, locals, world>>

\* A second without a poll().
NotAskedLately ==
  /\ asked /\ ~(Responsive /\ menuOpen /\ ~playing /\ selected \in Probed)
  /\ asked' = FALSE
  /\ UNCHANGED <<ui, watch, due, worker, locals, world>>

DevicesChange ==
  /\ changes < MaxChanges
  /\ devices' \in DeviceSets \ {devices}
  /\ changes' = changes + 1
  /\ UNCHANGED <<ui, watch, due, asked, worker, locals, failures>>

UINext == \/ \E h \in Handlers : \/ RegisterSource(h) \/ BeginUnregister(h)
                                 \/ EndUnregister(h) \/ SelectSource(h)
          \/ Play \/ StopPlaying \/ ToggleMenu \/ PollDeviceChanges

WorkerNext == Look \/ ProbeReturns \/ ProbeThrows \/ TakeAnswer \/ DeadlineWake

Next == UINext \/ WorkerNext \/ SpuriousWake
        \/ IntervalPasses \/ NotAskedLately \/ DevicesChange

Spec == Init /\ [][Next]_vars

\* The worker runs and time passes; the menu, while it is open, polls for every frame.
LiveSpec == Spec /\ WF_vars(WorkerNext) /\ WF_vars(IntervalPasses)
                 /\ WF_vars(PollDeviceChanges)
                 /\ WF_vars(\E h \in Handlers : EndUnregister(h))

-----------------------------------------------------------------------------
(* Properties.                                                              *)

\* The worker is never inside the probe handler of a module that is gone, although it calls
\* the handler without mtx and the menu has moved on to another source in the meantime.
NoProbeIntoUnloaded == worker = "probing" => probing \in sources

\* Between two frames the manager, the menu and the front end agree on the source, it is one
\* that is loaded, and there is one whenever any is loaded.
OneSelection ==
  Responsive => /\ selected = menu /\ input = selected
                /\ IF sources = {} THEN selected = None ELSE selected \in sources

\* What was started is what is selected, and it is stopped when the radio is: no source is
\* left streaming with nothing that could stop it.
OnlySelectedStarted == started = IF playing THEN {selected} ELSE {}

\* While one source stays in view the change that was there last is reported, whatever the
\* worker was doing when it happened: what the worker knows in the end is what is connected.
Watching(h) == Responsive /\ menuOpen /\ ~playing /\ selected = h
ChangesAreNoticed ==
  \A h \in Probed : <>[]Watching(h) => <>[](target = h /\ signature = devices /\ ~changed)

\* The menu's comment: "plugging an SDR in with the application already open is enough for
\* it to show up".
PluggedInShowsUp == \A h \in Probed : <>[]Watching(h) => <>[](list[h] = devices)
=============================================================================
