--------------------------- MODULE SourcesProofs ----------------------------
(***************************************************************************)
(* Proofs about Sources, for every set of modules and devices, every bound *)
(* and any number of loads, unloads, selections and probes.                *)
(***************************************************************************)
EXTENDS Sources, TLAPS

-----------------------------------------------------------------------------
(* The inductive invariant.                                                 *)

\* Manager, menu and front end agree at every step, also while a module is on its way out.
Agreed == /\ selected = menu /\ input = selected
          /\ IF sources = {} THEN selected = None ELSE selected \in sources

\* The worker's target and the handler it is inside of are probed handlers of loaded modules.
InSight == /\ sources \subseteq Handlers
           /\ target \in (sources \cap Probed) \cup {None}
           /\ worker = "probing" => probing \in sources \cap Probed

\* A module on its way out is still loaded, but no longer the target: no new probe of it begins.
OnItsWayOut == leaving # None => leaving \in sources /\ target # leaving

Reach == Agreed /\ InSight /\ OnItsWayOut

-----------------------------------------------------------------------------
(* Its steps.                                                               *)

LEMMA InitReach == Init => Reach
BY DEF Init, Reach, Agreed, InSight, OnItsWayOut

\* Whatever the menu falls back to, all three follow, to a source that is loaded.
LEMMA ReselectAgrees ==
  ASSUME Reselect, sources' # {}
  PROVE  Agreed'
<1>1. CASE menu \in sources'
  BY <1>1 DEF Reselect, Select, Agreed
<1>2. CASE menu \notin sources'
  BY <1>2 DEF Reselect, Select, Agreed
<1> QED BY <1>1, <1>2

LEMMA UIStep ==
  ASSUME Reach, UINext
  PROVE  Reach'
<1> USE ProbedAssumption, NoneAssumption
<1>1. ASSUME NEW h \in Handlers, RegisterSource(h) PROVE Reach'
  <2>1. Agreed'
    BY <1>1, ReselectAgrees DEF RegisterSource
  <2>2. InSight' /\ OnItsWayOut'
    BY <1>1 DEF RegisterSource, Reach, InSight, OnItsWayOut, watch, locals
  <2> QED BY <2>1, <2>2 DEF Reach
<1>2. ASSUME NEW h \in Handlers, BeginUnregister(h) PROVE Reach'
  <2>1. Agreed'
    BY <1>2 DEF BeginUnregister, Reach, Agreed
  <2>2. CASE h \in Probed /\ target = h
    <3>1. InSight' /\ OnItsWayOut'
      BY <1>2, <2>2 DEF BeginUnregister, Forget, Reach, InSight, OnItsWayOut, watch, locals
    <3> QED BY <2>1, <3>1 DEF Reach
  <2>3. CASE ~(h \in Probed /\ target = h)
    <3>1. InSight' /\ OnItsWayOut'
      BY <1>2, <2>3 DEF BeginUnregister, Forget, Reach, InSight, OnItsWayOut, watch, locals
    <3> QED BY <2>1, <3>1 DEF Reach
  <2> QED BY <2>2, <2>3
\* The module goes: the worker is not inside its probe handler, because forget() waited.
<1>3. ASSUME NEW h \in Handlers, EndUnregister(h) PROVE Reach'
  <2>1. Agreed'
    <3>1. CASE sources' = {}
      BY <1>3, <3>1 DEF EndUnregister, Agreed
    <3>2. CASE sources' # {}
      BY <1>3, <3>2, ReselectAgrees DEF EndUnregister
    <3> QED BY <3>1, <3>2
  <2>2. target # h
    BY <1>3 DEF EndUnregister, Reach, OnItsWayOut
  <2>3. worker = "probing" => probing # h
    BY <1>3 DEF EndUnregister, MustWait, Reach, InSight
  <2>4. InSight' /\ OnItsWayOut'
    BY <1>3, <2>2, <2>3 DEF EndUnregister, Reach, InSight, OnItsWayOut, watch, locals
  <2> QED BY <2>1, <2>4 DEF Reach
<1>4. ASSUME NEW h \in Handlers, SelectSource(h) PROVE Reach'
  BY <1>4 DEF SelectSource, Select, Reach, Agreed, InSight, OnItsWayOut, watch, locals
<1>5. CASE Play \/ StopPlaying \/ ToggleMenu
  BY <1>5 DEF Play, StopPlaying, ToggleMenu, Reach, Agreed, InSight, OnItsWayOut, watch, locals
\* The menu polls for the source that is selected, hence loaded.
<1>6. CASE PollDeviceChanges
  <2>1. selected \in sources \cap Probed /\ target' = selected
    BY <1>6 DEF PollDeviceChanges, Reach, Agreed
  <2>2. worker' = "probing" => worker = "probing"
    BY <1>6 DEF PollDeviceChanges
  <2>3. UNCHANGED <<sources, selected, menu, input, leaving, probing>> /\ leaving = None
    BY <1>6 DEF PollDeviceChanges, Responsive, locals
  <2> QED BY <2>1, <2>2, <2>3 DEF Reach, Agreed, InSight, OnItsWayOut
<1> QED BY <1>1, <1>2, <1>3, <1>4, <1>5, <1>6 DEF UINext

LEMMA OtherStep ==
  ASSUME Reach, WorkerNext \/ SpuriousWake \/ IntervalPasses \/ NotAskedLately \/ DevicesChange
  PROVE  Reach'
<1> USE DEF Reach, Agreed, InSight, OnItsWayOut, ui, watch, locals
\* The target is copied and probeMtx taken in one critical section of mtx.
<1>1. CASE Look
  BY <1>1 DEF Look
<1>2. CASE ProbeReturns \/ ProbeThrows
  BY <1>2 DEF ProbeReturns, ProbeThrows
<1>3. CASE TakeAnswer
  BY <1>3 DEF TakeAnswer
<1>4. CASE DeadlineWake \/ SpuriousWake
  BY <1>4 DEF DeadlineWake, SpuriousWake
<1>5. CASE IntervalPasses \/ NotAskedLately \/ DevicesChange
  BY <1>5 DEF IntervalPasses, NotAskedLately, DevicesChange
<1> QED BY <1>1, <1>2, <1>3, <1>4, <1>5 DEF WorkerNext

LEMMA StepReach == Reach /\ [Next]_vars => Reach'
<1> SUFFICES ASSUME Reach, [Next]_vars PROVE Reach'
  OBVIOUS
<1>1. CASE Next
  BY <1>1, UIStep, OtherStep DEF Next
<1>2. CASE UNCHANGED vars
  BY <1>2 DEF vars, ui, watch, locals, Reach, Agreed, InSight, OnItsWayOut
<1> QED BY <1>1, <1>2

-----------------------------------------------------------------------------
(* What is started, when no debug server changes the source under the radio. *)

Started == /\ playing \in BOOLEAN
           /\ started = IF playing THEN {selected} ELSE {}
           /\ playing => selected # None
           /\ leaving # None => ~(playing /\ menu = leaving)

LEMMA UIStepStarted ==
  ASSUME DebugServer = FALSE, Reach, Reach', Started, UINext
  PROVE  Started'
<1> USE ProbedAssumption, NoneAssumption DEF Started
<1>1. ASSUME NEW h \in Handlers, RegisterSource(h) PROVE Started'
  <2>1. CASE menu \in sources
    <3>1. selected' = selected /\ menu' = menu
      BY <1>1, <2>1 DEF RegisterSource, Reselect, Select, Reach, Agreed
    <3> QED BY <1>1, <3>1 DEF RegisterSource
  <2>2. CASE menu \notin sources
    <3>1. ~playing
      BY <2>2 DEF Reach, Agreed
    <3> QED BY <1>1, <3>1 DEF RegisterSource, Responsive
  <2> QED BY <2>1, <2>2
<1>2. ASSUME NEW h \in Handlers, BeginUnregister(h) PROVE Started'
  <2>1. CASE playing /\ menu = h
    BY <1>2, <2>1 DEF BeginUnregister, StopsRadio, Reach, Agreed
  <2>2. CASE ~(playing /\ menu = h)
    <3>1. started' = started /\ playing' = playing
      BY <1>2, <2>2 DEF BeginUnregister, StopsRadio, Reach, Agreed
    <3> QED BY <1>2, <2>2, <3>1 DEF BeginUnregister
  <2> QED BY <2>1, <2>2
\* The source that played is the one that goes, and was stopped, or is still there.
<1>3. ASSUME NEW h \in Handlers, EndUnregister(h) PROVE Started'
  <2>1. CASE playing
    <3>1. menu # h /\ menu \in sources /\ selected = menu
      BY <1>3, <2>1 DEF EndUnregister, Reach, Agreed
    <3>2. menu \in sources'
      BY <1>3, <3>1 DEF EndUnregister
    <3>3. selected' = selected /\ menu' = menu
      BY <1>3, <3>1, <3>2 DEF EndUnregister, Reselect, Select
    <3> QED BY <1>3, <3>3 DEF EndUnregister
  <2>2. CASE ~playing
    BY <1>3, <2>2 DEF EndUnregister
  <2> QED BY <2>1, <2>2
<1>4. ASSUME NEW h \in Handlers, SelectSource(h) PROVE Started'
  BY <1>4 DEF SelectSource, Select, Responsive
<1>5. CASE Play
  <2>1. started' = {selected} /\ playing' = TRUE
    BY <1>5 DEF Play
  <2> QED BY <1>5, <2>1 DEF Play, Responsive
<1>7. CASE StopPlaying
  <2>1. started' = {} /\ playing' = FALSE
    BY <1>7 DEF StopPlaying
  <2> QED BY <1>7, <2>1 DEF StopPlaying, Responsive
<1>8. CASE ToggleMenu
  BY <1>8 DEF ToggleMenu
<1>6. CASE PollDeviceChanges
  BY <1>6 DEF PollDeviceChanges
<1> QED BY <1>1, <1>2, <1>3, <1>4, <1>5, <1>6, <1>7, <1>8 DEF UINext

LEMMA StepStarted ==
  ASSUME DebugServer = FALSE
  PROVE  Reach /\ Reach' /\ Started /\ [Next]_vars => Started'
<1> SUFFICES ASSUME Reach, Reach', Started, [Next]_vars PROVE Started'
  OBVIOUS
<1>1. CASE UINext
  BY <1>1, UIStepStarted
<1>2. CASE UNCHANGED ui
  BY <1>2 DEF ui, Started
<1>3. CASE WorkerNext \/ SpuriousWake \/ IntervalPasses \/ NotAskedLately \/ DevicesChange
  BY <1>2, <1>3 DEF WorkerNext, Look, ProbeReturns, ProbeThrows, TakeAnswer, DeadlineWake,
                    SpuriousWake, IntervalPasses, NotAskedLately, DevicesChange
<1> QED BY <1>1, <1>2, <1>3 DEF Next, vars

-----------------------------------------------------------------------------
(* The theorems.                                                            *)

\* The invariant holds in every state of every behaviour.
THEOREM Reachable == Spec => []Reach
<1>1. Init => Reach
  BY InitReach
<1>2. Reach /\ [Next]_vars => Reach'
  BY StepReach
<1> QED BY <1>1, <1>2, PTL DEF Spec

\* unregisterSource() never returns, and its module is never destroyed, while the worker is
\* inside that module's probe handler.
THEOREM NoProbeIntoUnloadedHolds == Spec => []NoProbeIntoUnloaded
<1>1. Reach => NoProbeIntoUnloaded
  BY DEF Reach, InSight, NoProbeIntoUnloaded
<1> QED BY <1>1, Reachable, PTL

\* Manager, menu and front end always agree on a source that is loaded.
THEOREM OneSelectionHolds == Spec => []OneSelection
<1>1. Reach => OneSelection
  BY DEF Reach, Agreed, OneSelection
<1> QED BY <1>1, Reachable, PTL

\* Without the debug server no source is ever left streaming with nothing to stop it.
THEOREM OnlySelectedStartedHolds ==
  ASSUME DebugServer = FALSE
  PROVE  Spec => []OnlySelectedStarted
<1>1. Init => Started
  BY DEF Init, Started
<1>2. Reach /\ Reach' /\ Started /\ [Next]_vars => Started'
  BY StepStarted
<1>3. Started => OnlySelectedStarted
  BY DEF Started, OnlySelectedStarted
<1> QED BY <1>1, <1>2, <1>3, Reachable, PTL DEF Spec
=============================================================================
