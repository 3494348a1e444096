------------------------ MODULE ExtensionManagerProofs ------------------------
(***************************************************************************)
(* Proofs about ExtensionManager: the types, that the controllers of a JAR *)
(* are those of one loading, and that an extension which is listed has its *)
(* controllers or is loaded again, for any number of JARs, plugins,        *)
(* controllers and writes.                                                 *)
(***************************************************************************)
EXTENDS ExtensionManager, SequenceLemmas, FiniteSetTheorems

-----------------------------------------------------------------------------
(* The inductive invariant *)

\* The steps of unload in the monitor, and all those which concern an extension.
Inside    == {"stop", "enter", "wait", "controllers"}
Reloading == Inside \cup {"unload", "load", "add"}

\* The standalone controllers of a JAR.
ServedFor(j) == {c \in standalone : c[1].jar = j}

\* A JAR is loaded again only after it was written.
FilesInv ==
    \A j \in Jars : /\ loads[j] <= writes[j] + 1
                    /\ j \in newer => loads[j] <= writes[j]

\* One extension of a JAR is listed, and its controllers are the only ones.
ListInv ==
    /\ \A i, k \in DOMAIN extensions : extensions[i].jar = extensions[k].jar => i = k
    /\ \A e \in listed : /\ e.load <= loads[e.jar]
                         /\ \A c \in ServedFor(e.jar) : c[1] = e
    /\ \A c \in standalone : c[1].load <= loads[c[1].jar]
    /\ \A c, d \in standalone : c[1].jar = d[1].jar => c[1] = d[1]

\* The extension an unload works on has no controllers from then on.
ThreadInv(t) ==
    /\ work[t].step \in Reloading => work[t].ext \in Extensions
    /\ work[t].step \in Inside \cup {"add"} => monitor = t
    /\ work[t].step \in Inside =>
           /\ work[t].ext \in listed
           /\ \A c \in standalone : c[1] /= work[t].ext

\* The refresher works on an extension whose JAR was written.  When it is about
\* to load, nothing is left of what it has unloaded, or destroy has unloaded.
RefresherInv ==
    LET w == work[Refresher]
        j == w.ext.jar
    IN
    /\ w.step = "scan" => w.at > 0
    /\ w.step \in Reloading \ {"add"} => j \in newer
    /\ w.step \in {"load", "add"} => j \notin ListedJars
    /\ w.step = "load" => ServedFor(j) = {}
    /\ w.step = "unload" => \/ w.ext \in listed
                            \/ j \notin ListedJars /\ ServedFor(j) = {}
    /\ w.step = "add" =>
           LET e == [jar |-> j, load |-> loads[j]]
           IN  /\ e \in Extensions /\ {e} \X (1..Controllers) \subseteq standalone
               /\ \A c \in ServedFor(j) : c[1] = e

\* Nobody unloads before the start or, but for the refresher, before destroy.
PhaseInv ==
    /\ phase \in {"boot", "failed"} => work[Refresher].step = "idle"
    /\ phase /= "stopping" => work[Stopper].step = "idle"
    /\ work[Stopper].step \notin {"load", "add"}
    /\ phase \in {"boot", "failed", "run"} =>
           \A e \in listed : {e} \X (1..Controllers) \subseteq standalone \/ e.jar \in newer

IInv == /\ TypeOK /\ FilesInv /\ ListInv /\ (\A t \in Threads : ThreadInv(t))
        /\ RefresherInv /\ PhaseInv

-----------------------------------------------------------------------------
(* The types of what the actions write *)

\* An idle thread.
LEMMA IdleWork ==
    /\ Idle \in Works /\ Idle.step = "idle" /\ Idle.ext = None /\ Idle.rest = {}
  BY DEF Idle, Works

\* A step of a thread keeps everything else of its work.
LEMMA StepEffect ==
    ASSUME TypeOK, NEW t \in Threads, NEW s, Step(t, s),
           s \in {"idle", "scan", "unload", "stop", "enter", "wait", "controllers", "load", "add"}
    PROVE  /\ work' \in [Threads -> Works]
           /\ work'[t].step = s /\ work'[t].ext = work[t].ext /\ work'[t].at = work[t].at
           /\ work'[t].rest = work[t].rest
           /\ \A u \in Threads : u /= t => work'[u] = work[u]
<1>1. work[t] \in Works /\ work \in [Threads -> Works]
  BY DEF TypeOK
<1> DEFINE w == [work[t] EXCEPT !.step = s]
<1>2. w \in Works /\ w.step = s /\ w.ext = work[t].ext /\ w.at = work[t].at
      /\ w.rest = work[t].rest
  BY <1>1 DEF Works
<1>3. work' = [work EXCEPT ![t] = w]
  BY DEF Step
<1> HIDE DEF w
<1>4. QED
  BY <1>1, <1>2, <1>3

\* A thread that is done with an extension.
LEMMA ResumedType ==
    ASSUME TypeOK, NEW t \in Threads
    PROVE  /\ Resumed(t) \in Works /\ After(t) \in Works
           /\ t = Refresher => Resumed(t).step = "idle" /\ After(t).step = "load"
           /\ t = Refresher => After(t).ext = work[t].ext
           /\ t /= Refresher => Resumed(t).step = "scan" /\ After(t).step = "scan"
<1>1. work[t] \in Works
  BY DEF TypeOK
<1>2. \A w \in Works : LET v == [Idle EXCEPT !.step = "scan", !.rest = w.rest]
                       IN  v \in Works /\ v.step = "scan"
  BY DEF Idle, Works
<1>3. LET v == [work[t] EXCEPT !.step = "load"]
      IN  v \in Works /\ v.step = "load" /\ v.ext = work[t].ext
  BY <1>1 DEF Works
<1>4. QED
  BY <1>1, <1>2, <1>3, IdleWork DEF Resumed, After

\* The controllers a JAR brings.
LEMMA AddedType ==
    ASSUME NEW e \in Extensions, NEW c \in Contents
    PROVE  /\ AddedControllers(e, c) \subseteq Extensions \X (1..Controllers)
           /\ \A x \in AddedControllers(e, c) : x[1] = e
           /\ ~Refused(c) => AddedControllers(e, c) = {e} \X (1..Controllers)
<1>1. Controllers \in Nat /\ c \in 0..(Controllers + 1)
  BY ExtensionAssumption DEF Contents
<1>2. \A i \in 1..(IF c = Unreadable THEN 0 ELSE c - 1) : i \in 1..Controllers
  BY <1>1 DEF Unreadable
<1>3. ~Refused(c) => (IF c = Unreadable THEN 0 ELSE c - 1) = Controllers
  BY <1>1 DEF Refused, Good, Unreadable
<1>4. QED
  BY <1>2, <1>3 DEF AddedControllers

-----------------------------------------------------------------------------
(* The steps that change neither the files, nor the list, nor the controllers *)

\* What is left to prove of them: what the threads are doing.
LEMMA WorkChanges ==
    ASSUME IInv, TypeOK',
           UNCHANGED <<phase, newer, writes, loads, extensions, standalone>>,
           \A t \in Threads : ThreadInv(t)', RefresherInv',
           phase \in {"boot", "failed"} => work'[Refresher].step = "idle",
           phase /= "stopping" => work'[Stopper].step = "idle",
           work'[Stopper].step \notin {"load", "add"}
    PROVE  IInv'
<1>1. FilesInv /\ ListInv /\ PhaseInv
  BY DEF IInv
<1>2. FilesInv'
  BY <1>1 DEF FilesInv
<1>3. ListInv'
  BY <1>1 DEF ListInv, listed, ServedFor, ToSet
<1>4. PhaseInv'
  BY <1>1 DEF PhaseInv, listed, ToSet
<1>5. QED
  BY <1>2, <1>3, <1>4 DEF IInv

\* The threads stay where they are, or in the monitor with the same extension.
LEMMA Stays ==
    ASSUME IInv, TypeOK',
           UNCHANGED <<phase, newer, writes, loads, extensions, standalone, monitor>>,
           \A t \in Threads : /\ \/ work'[t].step = work[t].step
                                 \/ work[t].step \in Inside /\ work'[t].step \in Inside
                              /\ work'[t].ext = work[t].ext /\ work'[t].at = work[t].at
    PROVE  IInv'
<1>1. \A t \in Threads : ThreadInv(t)
  BY DEF IInv
<1>2. RefresherInv /\ PhaseInv
  BY DEF IInv
<1>3. Refresher \in Threads /\ Stopper \in Threads
  BY DEF Threads
<1>4. \A t \in Threads : ThreadInv(t)'
  BY <1>1 DEF ThreadInv, Inside, Reloading, listed, ToSet
<1>5. RefresherInv'
  BY <1>2, <1>3 DEF RefresherInv, Inside, Reloading, listed, ListedJars, ServedFor, ToSet
<1>6. /\ phase \in {"boot", "failed"} => work'[Refresher].step = "idle"
      /\ phase /= "stopping" => work'[Stopper].step = "idle"
      /\ work'[Stopper].step \notin {"load", "add"}
  BY <1>2, <1>3 DEF PhaseInv, Inside
<1>7. QED
  BY <1>4, <1>5, <1>6, WorkChanges

\* An exception ends what a thread does in the monitor.
LEMMA RaiseInv ==
    ASSUME IInv, NEW t \in Threads, Raise(t), work[t].step \in Inside,
           phase \notin {"boot", "failed"}, t = Stopper => phase = "stopping",
           UNCHANGED <<phase, files, manager, plugins, job>>
    PROVE  IInv'
<1>1. TypeOK /\ (\A u \in Threads : ThreadInv(u)) /\ RefresherInv /\ PhaseInv
  BY DEF IInv
<1>2. /\ work' = [work EXCEPT ![t] = Resumed(t)] /\ work' \in [Threads -> Works]
      /\ monitor' = None /\ Resumed(t).step \in {"idle", "scan"}
      /\ t = Refresher => Resumed(t).step = "idle"
  BY <1>1, ResumedType DEF Raise, TypeOK
<1>3. /\ work'[t].step \in {"idle", "scan"} /\ (t = Refresher => work'[t].step = "idle")
      /\ \A u \in Threads : u /= t => work'[u] = work[u]
  BY <1>1, <1>2 DEF TypeOK
<1>4. TypeOK'
  BY <1>1, <1>2 DEF TypeOK, files, manager, plugins
<1>5. \A u \in Threads : u /= t => work[u].step \notin Inside \cup {"add"}
  BY <1>1 DEF ThreadInv
<1>6. \A u \in Threads : ThreadInv(u)'
  BY <1>1, <1>2, <1>3, <1>5 DEF ThreadInv, Inside, Reloading, files, manager
<1>7. RefresherInv'
  <2>1. CASE t = Refresher
    BY <1>3, <2>1 DEF RefresherInv, Inside, Reloading
  <2>2. CASE t /= Refresher
    <3>1. work'[Refresher] = work[Refresher]
      BY <1>3, <2>2 DEF Threads
    <3>2. UNCHANGED <<newer, loads, extensions, standalone>>
      BY DEF files, manager
    <3>3. QED
      BY <1>1, <3>1, <3>2 DEF RefresherInv, listed, ListedJars, ServedFor, ToSet
  <2>3. QED
    BY <2>1, <2>2
<1>8. /\ phase /= "stopping" => work'[Stopper].step = "idle"
      /\ work'[Stopper].step \notin {"load", "add"}
  BY <1>1, <1>3 DEF PhaseInv, Threads, Refresher, Stopper
<1>9. QED
  BY <1>4, <1>6, <1>7, <1>8, WorkChanges DEF files, manager

\* The phases in which a thread unloads.
LEMMA UnloadPhases ==
    ASSUME IInv, NEW t \in Threads, work[t].step /= "idle"
    PROVE  phase \notin {"boot", "failed"} /\ (t = Stopper => phase = "stopping")
  BY DEF IInv, PhaseInv, Threads

\* Asking for the plugin stopper: unload ends with an exception, or it goes on with
\* the same extension.
LEMMA AsksStopperInv ==
    ASSUME IInv, NEW t \in Threads, AsksStopper(t)
    PROVE  IInv'
<1>1. TypeOK /\ work[t].step = "stop" /\ UNCHANGED <<phase, files, manager, plugins, job>>
  BY DEF IInv, AsksStopper
<1>2. CASE Raise(t)
  <2>1. work[t].step \in Inside /\ work[t].step /= "idle"
    BY <1>1 DEF Inside
  <2>2. QED
    BY <1>1, <1>2, <2>1, UnloadPhases, RaiseInv
<1>3. CASE UNCHANGED monitor /\ Step(t, IF phase = "run" THEN "enter" ELSE "wait")
  <2>1. PICK s \in {"enter", "wait"} : s = IF phase = "run" THEN "enter" ELSE "wait"
    OBVIOUS
  <2>2. Step(t, s)
    BY <1>3, <2>1
  <2>3. /\ work' \in [Threads -> Works]
        /\ work'[t].step = s /\ work'[t].ext = work[t].ext /\ work'[t].at = work[t].at
        /\ \A u \in Threads : u /= t => work'[u] = work[u]
    BY <1>1, <2>2, StepEffect
  <2>4. TypeOK'
    BY <1>1, <1>3, <2>3 DEF TypeOK, files, manager, plugins
  <2>5. \A u \in Threads : /\ \/ work'[u].step = work[u].step
                              \/ work[u].step \in Inside /\ work'[u].step \in Inside
                           /\ work'[u].ext = work[u].ext /\ work'[u].at = work[u].at
    BY <1>1, <2>1, <2>3 DEF Inside
  <2>6. QED
    BY <1>1, <1>3, <2>4, <2>5, Stays DEF files, manager
<1>4. QED
  BY <1>2, <1>3 DEF AsksStopper

\* Telling the plugins to stop changes no list of extensions.
LEMMA StopsPluginsInv ==
    ASSUME IInv, NEW t \in Threads, StopsPlugins(t)
    PROVE  IInv'
<1>1. /\ TypeOK /\ work[t].step = "enter" /\ Step(t, "wait")
      /\ UNCHANGED <<phase, files, manager, entry, monitor, job>>
  BY DEF IInv, StopsPlugins
<1>2. /\ work' \in [Threads -> Works]
      /\ work'[t].step = "wait" /\ work'[t].ext = work[t].ext /\ work'[t].at = work[t].at
      /\ \A u \in Threads : u /= t => work'[u] = work[u]
  BY <1>1, StepEffect
<1>3. status' \in [Plugins -> {"stopped", "started", "stopping"}]
  BY <1>1 DEF TypeOK, StopsPlugins
<1>4. TypeOK'
  BY <1>1, <1>2, <1>3 DEF TypeOK, files, manager
<1>5. \A u \in Threads : /\ \/ work'[u].step = work[u].step
                            \/ work[u].step \in Inside /\ work'[u].step \in Inside
                         /\ work'[u].ext = work[u].ext /\ work'[u].at = work[u].at
  BY <1>1, <1>2 DEF Inside
<1>6. QED
  BY <1>1, <1>4, <1>5, Stays DEF files, manager

\* After the wait the thread has the plugins of its extension to walk over.
LEMMA WaitedInv ==
    ASSUME IInv, NEW t \in Threads, Waited(t)
    PROVE  IInv'
<1>1. /\ TypeOK /\ work[t].step = "wait" /\ work[t] \in Works /\ ThreadInv(t)
      /\ UNCHANGED <<phase, files, manager, plugins, monitor, job>>
  BY DEF IInv, Waited, TypeOK
<1> DEFINE w == [work[t] EXCEPT !.step = "controllers", !.stale = FALSE,
                                !.todo = resources[work[t].ext]]
<1>2. resources[work[t].ext] \in SUBSET Plugins
  BY <1>1 DEF ThreadInv, Inside, Reloading, TypeOK
<1>3. w \in Works /\ w.step = "controllers" /\ w.ext = work[t].ext /\ w.at = work[t].at
  BY <1>1, <1>2 DEF Works
<1>4. work' = [work EXCEPT ![t] = w]
  BY DEF Waited
<1> HIDE DEF w
<1>5. TypeOK'
  BY <1>1, <1>3, <1>4 DEF TypeOK, files, manager, plugins
<1>6. \A u \in Threads : /\ \/ work'[u].step = work[u].step
                            \/ work[u].step \in Inside /\ work'[u].step \in Inside
                         /\ work'[u].ext = work[u].ext /\ work'[u].at = work[u].at
  BY <1>1, <1>3, <1>4 DEF Inside, TypeOK
<1>7. QED
  BY <1>1, <1>5, <1>6, Stays DEF files, manager

\* A controller leaves the registry of commands, or the error is thrown, while
\* the extension of the thread is still on its way out.
LEMMA RemovesControllerInv ==
    ASSUME IInv, NEW t \in Threads, RemovesController(t)
    PROVE  IInv'
<1>1. /\ TypeOK /\ work[t].step = "controllers" /\ work[t] \in Works
      /\ UNCHANGED <<phase, files, loads, extensions, resources, standalone, plugins, job>>
  BY DEF IInv, RemovesController, TypeOK
<1>2. CASE Raise(t) /\ UNCHANGED commands
  <2>1. work[t].step \in Inside /\ work[t].step /= "idle"
    BY <1>1 DEF Inside
  <2>2. QED
    BY <1>1, <1>2, <2>1, UnloadPhases, RaiseInv DEF manager
<1>3. ASSUME NEW p \in work[t].todo, UNCHANGED monitor,
             commands' = commands \ {<<p, "custom">>},
             work' = [work EXCEPT ![t].todo = @ \ {p}]
      PROVE  IInv'
  <2> DEFINE w == [work[t] EXCEPT !.todo = @ \ {p}]
  <2>1. w \in Works /\ w.step = work[t].step /\ w.ext = work[t].ext /\ w.at = work[t].at
    BY <1>1 DEF Works
  <2>2. work' = [work EXCEPT ![t] = w]
    BY <1>3
  <2> HIDE DEF w
  <2>3. TypeOK'
    BY <1>1, <1>3, <2>1, <2>2 DEF TypeOK, files, plugins
  <2>4. \A u \in Threads : /\ work'[u].step = work[u].step
                           /\ work'[u].ext = work[u].ext /\ work'[u].at = work[u].at
    BY <1>1, <2>1, <2>2 DEF TypeOK
  <2>5. QED
    BY <1>1, <1>3, <2>3, <2>4, Stays DEF files
<1>4. QED
  BY <1>2, <1>3 DEF RemovesController

\* A walk begins.
LEMMA TickInv ==
    ASSUME IInv, Tick
    PROVE  IInv'
<1>1. /\ TypeOK /\ (\A t \in Threads : ThreadInv(t)) /\ PhaseInv
      /\ phase \in {"run", "stopping"} /\ work[Refresher].step = "idle"
      /\ UNCHANGED <<phase, files, manager, plugins, monitor, job>>
      /\ Refresher \in Threads /\ Stopper \in Threads /\ Refresher /= Stopper
  BY DEF IInv, Tick, Threads, Refresher, Stopper
<1> DEFINE w == [work[Refresher] EXCEPT !.step = "scan", !.at = FirstToScan]
<1>2. w \in Works /\ w.step = "scan" /\ w.at = 1
  BY <1>1 DEF Works, TypeOK, FirstToScan
<1>3. work' = [work EXCEPT ![Refresher] = w]
  BY DEF Tick
<1> HIDE DEF w
<1>4. TypeOK'
  BY <1>1, <1>2, <1>3 DEF TypeOK, files, manager, plugins
<1>5. work'[Refresher] = w /\ \A t \in Threads : t /= Refresher => work'[t] = work[t]
  BY <1>1, <1>3 DEF TypeOK
<1>6. \A t \in Threads : ThreadInv(t)'
  BY <1>1, <1>2, <1>5 DEF ThreadInv, Inside, Reloading, listed, ToSet, files, manager
<1>7. RefresherInv'
  BY <1>2, <1>5 DEF RefresherInv, Inside, Reloading
<1>8. QED
  BY <1>1, <1>4, <1>5, <1>6, <1>7, WorkChanges DEF PhaseInv, files, manager

\* The walk goes on, ends, or finds an extension whose JAR was written.
LEMMA ScanInv ==
    ASSUME IInv, Scan
    PROVE  IInv'
<1>1. /\ TypeOK /\ (\A t \in Threads : ThreadInv(t)) /\ PhaseInv /\ RefresherInv
      /\ work[Refresher].step = "scan" /\ work[Refresher] \in Works
      /\ UNCHANGED <<phase, files, manager, plugins, monitor, job>>
      /\ Refresher \in Threads /\ Stopper \in Threads /\ Refresher /= Stopper
  BY DEF IInv, Scan, TypeOK, Threads, Refresher, Stopper
<1>2. PICK w : w = work'[Refresher]
  OBVIOUS
<1>3. /\ work' = [work EXCEPT ![Refresher] = w]
      /\ w = IF work[Refresher].at > Len(extensions) THEN Idle
             ELSE IF extensions[work[Refresher].at].jar \in newer
             THEN [work[Refresher] EXCEPT !.step = "unload",
                                          !.ext = extensions[work[Refresher].at]]
             ELSE [work[Refresher] EXCEPT !.at = @ + 1]
  BY <1>1, <1>2 DEF Scan, TypeOK
<1>4. /\ w \in Works /\ w.step \in {"idle", "scan", "unload"}
      /\ w.step = "scan" => w.at > 0
      /\ w.step = "unload" => w.ext \in listed /\ w.ext \in Extensions /\ w.ext.jar \in newer
  <2>1. CASE work[Refresher].at > Len(extensions)
    BY <1>3, <2>1, IdleWork
  <2>2. CASE ~(work[Refresher].at > Len(extensions))
    <3>1. work[Refresher].at \in 1..Len(extensions)
      BY <1>1, <2>2 DEF RefresherInv, Works, TypeOK
    <3>2. PICK e : e = extensions[work[Refresher].at]
      OBVIOUS
    <3>3. e \in Extensions /\ e \in listed
      BY <1>1, <3>1, <3>2 DEF TypeOK, listed, ToSet
    <3>4. CASE e.jar \in newer
      <4>1. w = [work[Refresher] EXCEPT !.step = "unload", !.ext = e]
        BY <1>3, <2>2, <3>2, <3>4
      <4>2. w \in Works /\ w.step = "unload" /\ w.ext = e
        BY <1>1, <3>3, <4>1 DEF Works
      <4>3. QED
        BY <3>3, <3>4, <4>2
    <3>5. CASE e.jar \notin newer
      <4>1. w = [work[Refresher] EXCEPT !.at = @ + 1]
        BY <1>3, <2>2, <3>2, <3>5
      <4>2. w \in Works /\ w.step = "scan" /\ w.at = work[Refresher].at + 1
        BY <1>1, <4>1 DEF Works
      <4>3. QED
        BY <3>1, <4>2
    <3>6. QED
      BY <3>4, <3>5
  <2>3. QED
    BY <2>1, <2>2
<1>5. TypeOK'
  BY <1>1, <1>3, <1>4 DEF TypeOK, files, manager, plugins
<1>6. work'[Refresher] = w /\ \A t \in Threads : t /= Refresher => work'[t] = work[t]
  BY <1>1, <1>3 DEF TypeOK
<1>7. \A t \in Threads : ThreadInv(t)'
  <2> TAKE t \in Threads
  <2>1. CASE t = Refresher
    BY <1>4, <1>6, <2>1 DEF ThreadInv, Inside, Reloading
  <2>2. CASE t /= Refresher
    BY <1>1, <1>6, <2>2 DEF ThreadInv, Inside, Reloading, listed, ToSet, files, manager
  <2>3. QED
    BY <2>1, <2>2
<1>8. RefresherInv'
  <2>1. UNCHANGED <<newer, extensions>>
    BY <1>1 DEF files, manager
  <2>2. QED
    BY <1>4, <1>6, <2>1 DEF RefresherInv, Inside, Reloading, listed, ToSet
<1>9. phase \notin {"boot", "failed"}
  BY <1>1 DEF PhaseInv
<1>10. QED
  BY <1>1, <1>5, <1>6, <1>7, <1>8, <1>9, WorkChanges DEF PhaseInv, files, manager

\* The stopper goes from one extension to the next.
LEMMA DestroyNextInv ==
    ASSUME IInv, DestroyNext
    PROVE  IInv'
<1>1. /\ TypeOK /\ (\A t \in Threads : ThreadInv(t)) /\ PhaseInv /\ RefresherInv
      /\ work[Stopper].step = "scan" /\ work[Stopper] \in Works
      /\ UNCHANGED <<phase, files, manager, plugins, monitor, job>>
      /\ Refresher \in Threads /\ Stopper \in Threads /\ Refresher /= Stopper
  BY DEF IInv, DestroyNext, TypeOK, Threads, Refresher, Stopper
<1>2. PICK e \in work[Stopper].rest :
          work' = [work EXCEPT ![Stopper] =
                      [Idle EXCEPT !.step = "unload", !.ext = e,
                                   !.rest = work[Stopper].rest \ {e}]]
  BY DEF DestroyNext
<1>3. work[Stopper].rest \subseteq Extensions /\ e \in Extensions
  BY <1>1 DEF Works
<1>4. PICK rest \in SUBSET Extensions : rest = work[Stopper].rest \ {e}
  BY <1>3
<1> DEFINE w == [Idle EXCEPT !.step = "unload", !.ext = e, !.rest = rest]
<1>5. w \in Works /\ w.step = "unload" /\ w.ext = e
  BY <1>3 DEF Idle, Works
<1>6. work' = [work EXCEPT ![Stopper] = w]
  BY <1>2, <1>4
<1> HIDE DEF w
<1>7. TypeOK'
  BY <1>1, <1>5, <1>6 DEF TypeOK, files, manager, plugins
<1>8. work'[Stopper] = w /\ \A t \in Threads : t /= Stopper => work'[t] = work[t]
  BY <1>1, <1>6 DEF TypeOK
<1>9. \A t \in Threads : ThreadInv(t)'
  <2> TAKE t \in Threads
  <2>1. CASE t = Stopper
    BY <1>3, <1>5, <1>8, <2>1 DEF ThreadInv, Inside, Reloading
  <2>2. CASE t /= Stopper
    BY <1>1, <1>8, <2>2 DEF ThreadInv, Inside, Reloading, listed, ToSet, files, manager
  <2>3. QED
    BY <2>1, <2>2
<1>10. RefresherInv'
  BY <1>1, <1>8 DEF RefresherInv, listed, ListedJars, ServedFor, ToSet, files, manager
<1>11. phase = "stopping" /\ work'[Refresher].step = work[Refresher].step
  BY <1>1, <1>8 DEF PhaseInv
<1>12. QED
  BY <1>1, <1>5, <1>7, <1>8, <1>9, <1>10, <1>11, WorkChanges DEF PhaseInv, files, manager

\* A step that moves the phase on, or the content of the files.
LEMMA PhaseChanges ==
    ASSUME IInv, TypeOK', FilesInv', PhaseInv',
           UNCHANGED <<loads, extensions, standalone, monitor>>, newer \subseteq newer',
           work'[Refresher] = work[Refresher],
           work'[Stopper].step \in {"idle", "scan"} \/ work'[Stopper] = work[Stopper]
    PROVE  IInv'
<1>1. ListInv /\ RefresherInv /\ \A t \in Threads : ThreadInv(t)
  BY DEF IInv
<1>2. ListInv'
  BY <1>1 DEF ListInv, listed, ServedFor, ToSet
<1>3. RefresherInv'
  BY <1>1 DEF RefresherInv, listed, ListedJars, ServedFor, ToSet
<1>4. \A t \in Threads : ThreadInv(t)'
  BY <1>1 DEF ThreadInv, Inside, Reloading, listed, ToSet, Threads
<1>5. QED
  BY <1>2, <1>3, <1>4 DEF IInv

\* A JAR is written: its extension will be loaded again.
LEMMA WriteJarInv ==
    ASSUME IInv, NEW j \in Jars, WriteJar(j)
    PROVE  IInv'
<1>1. /\ TypeOK /\ FilesInv /\ PhaseInv /\ phase = "run" /\ writes[j] < MaxWrites
      /\ writes' = [writes EXCEPT ![j] = @ + 1] /\ newer' = newer \cup {j}
      /\ UNCHANGED <<phase, manager, plugins, monitor, work, job>>
  BY DEF IInv, WriteJar
<1>2. content' \in [Jars -> Contents]
  BY <1>1 DEF TypeOK, WriteJar
<1>3. writes' \in [Jars -> 0..MaxWrites]
      /\ \A i \in Jars : writes'[i] = IF i = j THEN writes[i] + 1 ELSE writes[i]
  BY <1>1, ExtensionAssumption DEF TypeOK
<1>4. TypeOK'
  BY <1>1, <1>2, <1>3 DEF TypeOK, manager, plugins
<1>5. FilesInv'
  <2>1. loads' = loads /\ \A i \in Jars : loads[i] \in Nat /\ writes[i] \in Nat
    BY <1>1, ExtensionAssumption DEF TypeOK, manager
  <2>2. QED
    BY <1>1, <1>3, <2>1 DEF FilesInv
<1>6. PhaseInv'
  BY <1>1 DEF PhaseInv, listed, ToSet, manager
<1>7. QED
  BY <1>1, <1>4, <1>5, <1>6, PhaseChanges DEF manager

\* The boot is over with every listed extension served.
LEMMA BootEndsInv ==
    ASSUME IInv, BootEnds
    PROVE  IInv'
<1>1. /\ TypeOK /\ FilesInv /\ PhaseInv /\ phase = "boot" /\ phase' = "run"
      /\ UNCHANGED <<files, manager, plugins, monitor, work, job>>
  BY DEF IInv, BootEnds
<1>2. TypeOK' /\ FilesInv'
  BY <1>1 DEF TypeOK, FilesInv, files, manager, plugins
<1>3. PhaseInv'
  BY <1>1 DEF PhaseInv, listed, ToSet, files, manager
<1>4. QED
  BY <1>1, <1>2, <1>3, PhaseChanges DEF files, manager

\* destroy begins: from here on an extension may be listed without its controllers.
LEMMA DestroyInv ==
    ASSUME IInv, Destroy
    PROVE  IInv'
<1>1. /\ TypeOK /\ FilesInv /\ PhaseInv /\ phase = "run" /\ phase' = "stopping"
      /\ UNCHANGED <<files, manager, plugins, monitor, job>>
      /\ Refresher \in Threads /\ Stopper \in Threads /\ Refresher /= Stopper
  BY DEF IInv, Destroy, Threads, Refresher, Stopper
<1>2a. listed \subseteq Extensions
  BY <1>1 DEF TypeOK, listed, ToSet
<1>2. PICK rest \in SUBSET Extensions : rest = listed
  BY <1>2a
<1> DEFINE w == [Idle EXCEPT !.step = "scan", !.rest = rest]
<1>3. w \in Works /\ w.step = "scan"
  BY DEF Idle, Works
<1>4. work' = [work EXCEPT ![Stopper] = w]
  BY <1>2 DEF Destroy
<1> HIDE DEF w
<1>5. TypeOK' /\ FilesInv'
  BY <1>1, <1>3, <1>4 DEF TypeOK, FilesInv, files, manager, plugins
<1>6. work'[Stopper] = w /\ work'[Refresher] = work[Refresher]
  BY <1>1, <1>4 DEF TypeOK
<1>7. PhaseInv'
  BY <1>1, <1>3, <1>6 DEF PhaseInv
<1>8. QED
  BY <1>1, <1>3, <1>5, <1>6, <1>7, PhaseChanges DEF files, manager

\* Once destroyed, nothing of the manager runs any more.
LEMMA DestroyEndsInv ==
    ASSUME IInv, DestroyEnds
    PROVE  IInv'
<1>1. /\ TypeOK /\ FilesInv /\ PhaseInv /\ phase = "stopping" /\ phase' = "down"
      /\ work' = [work EXCEPT ![Stopper] = Idle]
      /\ UNCHANGED <<files, manager, plugins, monitor, job>>
      /\ Refresher \in Threads /\ Stopper \in Threads /\ Refresher /= Stopper
  BY DEF IInv, DestroyEnds, Threads, Refresher, Stopper
<1>2. TypeOK' /\ FilesInv'
  BY <1>1, IdleWork DEF TypeOK, FilesInv, files, manager, plugins
<1>3. work'[Stopper].step = "idle" /\ work'[Refresher] = work[Refresher]
  BY <1>1, IdleWork DEF TypeOK
<1>4. PhaseInv'
  BY <1>1, <1>3 DEF PhaseInv
<1>5. QED
  BY <1>1, <1>2, <1>3, <1>4, PhaseChanges DEF files, manager

-----------------------------------------------------------------------------
(* The list of extensions *)

\* An extension of a JAR that is not listed can be added.
LEMMA Listing ==
    ASSUME TypeOK, ListInv, NEW e \in Extensions, e.jar \notin ListedJars,
           extensions' = Append(extensions, e)
    PROVE  /\ extensions' \in Seq(Extensions) /\ listed' = listed \cup {e}
           /\ \A i, k \in DOMAIN extensions' :
                 extensions'[i].jar = extensions'[k].jar => i = k
<1>1. extensions \in Seq(Extensions)
  BY DEF TypeOK
<1>2. /\ extensions' \in Seq(Extensions) /\ Len(extensions') = Len(extensions) + 1
      /\ \A i \in 1..Len(extensions) : extensions'[i] = extensions[i]
      /\ extensions'[Len(extensions) + 1] = e
  BY <1>1
<1>3. DOMAIN extensions = 1..Len(extensions) /\ Len(extensions) \in Nat
      /\ DOMAIN extensions' = 1..Len(extensions) + 1
  BY <1>1, <1>2
<1>4. listed' = listed \cup {e}
  BY <1>2, <1>3 DEF listed, ToSet
<1>5. \A i \in DOMAIN extensions : extensions[i].jar /= e.jar
  BY DEF ListedJars, listed, ToSet
<1>6. \A i, k \in DOMAIN extensions' : extensions'[i].jar = extensions'[k].jar => i = k
  <2> TAKE i, k \in DOMAIN extensions'
  <2>1. \A n \in DOMAIN extensions' : n \in DOMAIN extensions \/ n = Len(extensions) + 1
    BY <1>3
  <2>2. QED
    BY <1>2, <1>3, <1>5, <2>1 DEF ListInv
<1>7. QED
  BY <1>2, <1>4, <1>6

\* An extension is in the list at one place, and is removed from there.
LEMMA Delisting ==
    ASSUME TypeOK, ListInv, NEW e \in listed,
           extensions' = RemoveFirst(extensions, e)
    PROVE  /\ extensions' \in Seq(Extensions) /\ listed' = listed \ {e}
           /\ e.jar \notin {x.jar : x \in listed \ {e}}
           /\ \A i, k \in DOMAIN extensions' :
                 extensions'[i].jar = extensions'[k].jar => i = k
<1>1. extensions \in Seq(Extensions)
  BY DEF TypeOK
<1> DEFINE n == Len(extensions)
<1>2. n \in Nat /\ DOMAIN extensions = 1..n
  BY <1>1
<1>3. PICK m \in 1..n : extensions[m] = e
  BY <1>2 DEF listed, ToSet
<1>4. \A i \in 1..n : extensions[i].jar = e.jar => i = m
  BY <1>2, <1>3 DEF ListInv
<1>5. extensions' = RemoveAt(extensions, m)
  BY <1>1, <1>2, <1>3, <1>4, RemoveFirstFacts
<1>9. /\ extensions' \in Seq(Extensions) /\ Len(extensions') = n - 1
  BY <1>1, <1>3, <1>5, RemoveFacts
<1>10. DOMAIN extensions' = 1..n - 1
  BY <1>9
<1>11. /\ \A i \in 1..n - 1 : \E k \in 1..n :
             /\ k /= m /\ extensions'[i] = extensions[k]
             /\ k = IF i < m THEN i ELSE i + 1
       /\ \A k \in 1..n :
             k /= m => \E i \in 1..n - 1 : extensions'[i] = extensions[k]
  <2>1. m \in 1..Len(extensions)
    BY <1>3
  <2>2. /\ \A i \in 1..Len(extensions) - 1 : \E k \in 1..Len(extensions) :
              /\ k /= m /\ RemoveAt(extensions, m)[i] = extensions[k]
              /\ k = IF i < m THEN i ELSE i + 1
        /\ \A k \in 1..Len(extensions) :
              k /= m => \E i \in 1..Len(extensions) - 1 :
                           RemoveAt(extensions, m)[i] = extensions[k]
    BY <1>1, <2>1, RemovedPositions
  <2>3. QED
    BY <1>5, <2>2
<1>13. \A x : x \in listed' <=> \E i \in 1..n - 1 : x = extensions'[i]
  BY <1>10 DEF listed, ToSet
<1>14. listed' = listed \ {e}
  <2>1. \A x : x \in listed <=> \E k \in 1..n : x = extensions[k]
    BY <1>2 DEF listed, ToSet
  <2>2. \A x : x \in listed' => x \in listed /\ x /= e
    <3> TAKE x
    <3> HAVE x \in listed'
    <3>1. PICK i \in 1..n - 1 : x = extensions'[i]
      BY <1>13
    <3>2. PICK k \in 1..n : k /= m /\ extensions'[i] = extensions[k]
      BY <1>11
    <3>3. QED
      BY <1>3, <1>4, <2>1, <3>1, <3>2
  <2>3. \A x : x \in listed /\ x /= e => x \in listed'
    <3> TAKE x
    <3> HAVE x \in listed /\ x /= e
    <3>1. PICK k \in 1..n : x = extensions[k]
      BY <2>1
    <3>2. k /= m
      BY <1>3, <3>1
    <3>3. PICK i \in 1..n - 1 : extensions'[i] = extensions[k]
      BY <1>11, <3>2
    <3>4. QED
      BY <1>13, <3>1, <3>3
  <2>4. QED
    BY <2>2, <2>3
<1>15. e.jar \notin {x.jar : x \in listed \ {e}}
  BY <1>2, <1>3, <1>4 DEF listed, ToSet
<1>16. \A i, k \in DOMAIN extensions' : extensions'[i].jar = extensions'[k].jar => i = k
  <2> TAKE i, k \in DOMAIN extensions'
  <2> HAVE extensions'[i].jar = extensions'[k].jar
  <2>1. i \in 1..n - 1 /\ k \in 1..n - 1
    BY <1>10
  <2>2. PICK a \in 1..n : extensions'[i] = extensions[a] /\ a = IF i < m THEN i ELSE i + 1
    BY <1>11, <2>1
  <2>3. PICK b \in 1..n : extensions'[k] = extensions[b] /\ b = IF k < m THEN k ELSE k + 1
    BY <1>11, <2>1
  <2>4. a = b
    BY <1>2, <2>2, <2>3 DEF ListInv
  <2>5. QED
    BY <1>2, <1>3, <2>1, <2>2, <2>3, <2>4
<1>17. QED
  BY <1>9, <1>14, <1>15, <1>16

-----------------------------------------------------------------------------
(* Loading *)

\* A JAR of which nothing is left gets the controllers of a new extension.
LEMMA ConstructEffect ==
    ASSUME TypeOK, FilesInv, ListInv, NEW j \in Jars, Construct(j), UNCHANGED writes,
           loads[j] <= writes[j], ServedFor(j) = {}
    PROVE  /\ Loaded(j) \in Extensions /\ Loaded(j).jar = j /\ Loaded(j).load = loads'[j]
           /\ newer' = newer \ {j}
           /\ loads' \in [Jars -> 0..MaxWrites + 1]
           /\ \A i \in Jars : loads[i] <= loads'[i] /\ (i /= j => loads'[i] = loads[i])
           /\ FilesInv'
           /\ standalone' \subseteq Extensions \X (1..Controllers)
           /\ standalone \subseteq standalone'
           /\ ~Refused(content[j]) => {Loaded(j)} \X (1..Controllers) \subseteq standalone'
           /\ \A c \in standalone' : IF c[1].jar = j THEN c[1] = Loaded(j)
                                                    ELSE c \in standalone
<1>1. /\ loads[j] \in Nat /\ writes[j] \in 0..MaxWrites /\ MaxWrites \in Nat
      /\ content[j] \in Contents
  BY ExtensionAssumption DEF TypeOK
<1>2. loads[j] + 1 \in 1..MaxWrites + 1
  BY <1>1
<1>3. Loaded(j) \in Extensions /\ Loaded(j).jar = j /\ Loaded(j).load = loads[j] + 1
  BY <1>2 DEF Loaded, Extensions
<1>4. /\ loads' \in [Jars -> 0..MaxWrites + 1] /\ loads'[j] = loads[j] + 1
      /\ \A i \in Jars : i /= j => loads'[i] = loads[i]
  BY <1>1, <1>2 DEF Construct, TypeOK
<1>5. \A i \in Jars : loads[i] \in Nat /\ writes[i] \in Nat
  BY ExtensionAssumption DEF TypeOK
<1>6. FilesInv'
  BY <1>1, <1>4, <1>5 DEF FilesInv, Construct
<1> DEFINE new == AddedControllers(Loaded(j), content[j])
<1>7. /\ new \subseteq Extensions \X (1..Controllers)
      /\ \A x \in new : x[1] = Loaded(j)
      /\ ~Refused(content[j]) => new = {Loaded(j)} \X (1..Controllers)
  BY <1>1, <1>3, AddedType
<1>8. standalone' = standalone \cup new
  BY DEF Construct
<1> HIDE DEF new
<1>9. \A c \in standalone' : IF c[1].jar = j THEN c[1] = Loaded(j) ELSE c \in standalone
  BY <1>3, <1>7, <1>8 DEF ServedFor
<1>10. \A i \in Jars : loads[i] <= loads'[i]
  BY <1>4, <1>5
<1>11. QED
  BY <1>3, <1>4, <1>6, <1>7, <1>8, <1>9, <1>10 DEF Construct, TypeOK

\* The list may get the new extension, if it has none of the JAR.
LEMMA ConstructList ==
    ASSUME TypeOK, FilesInv, ListInv, NEW j \in Jars, Construct(j), UNCHANGED writes,
           loads[j] <= writes[j], ServedFor(j) = {}, j \notin ListedJars,
           \/ UNCHANGED extensions
           \/ extensions' = Append(extensions, Loaded(j))
    PROVE  ListInv' /\ extensions' \in Seq(Extensions) /\ listed' \subseteq listed \cup {Loaded(j)}
<1> DEFINE e == Loaded(j)
<1>1. /\ e \in Extensions /\ e.jar = j /\ e.load = loads'[j]
      /\ \A i \in Jars : loads[i] <= loads'[i] /\ (i /= j => loads'[i] = loads[i])
      /\ loads' \in [Jars -> 0..MaxWrites + 1]
      /\ standalone' \subseteq Extensions \X (1..Controllers)
      /\ \A c \in standalone' : IF c[1].jar = j THEN c[1] = e ELSE c \in standalone
  BY ConstructEffect
<1> HIDE DEF e
<1>2. /\ extensions' \in Seq(Extensions) /\ listed' \subseteq listed \cup {e}
      /\ \A i, k \in DOMAIN extensions' :
            extensions'[i].jar = extensions'[k].jar => i = k
  <2>1. CASE UNCHANGED extensions
    BY <2>1 DEF ListInv, TypeOK, listed, ToSet
  <2>2. CASE extensions' = Append(extensions, e)
    BY <1>1, <2>2, Listing
  <2>3. QED
    BY <2>1, <2>2 DEF e
<1>3. \A x \in listed : x \in Extensions /\ x.jar \in Jars /\ x.jar /= j
  <2>1. listed \subseteq Extensions
    BY DEF TypeOK, listed, ToSet
  <2>2. \A x \in Extensions : x.jar \in Jars
    BY DEF Extensions
  <2>3. \A x \in listed : x.jar /= j
    BY DEF ListedJars
  <2>4. QED
    BY <2>1, <2>2, <2>3
<1>4. \A n \in Nat : n <= n
  OBVIOUS
<1>5. \A x \in listed' : x.load <= loads'[x.jar] /\ \A c \in ServedFor(x.jar)' : c[1] = x
  <2> TAKE x \in listed'
  <2>1. CASE x = e
    BY <1>1, <1>4, <2>1 DEF ServedFor
  <2>2. CASE x /= e
    <3>1. x \in listed /\ x.jar \in Jars /\ x.jar /= j
      BY <1>2, <1>3, <2>2
    <3>2. x.load <= loads'[x.jar]
      BY <1>1, <3>1 DEF ListInv
    <3>3. \A c \in ServedFor(x.jar)' : c[1] = x
      BY <1>1, <3>1 DEF ListInv, ServedFor
    <3>4. QED
      BY <3>2, <3>3
  <2>3. QED
    BY <2>1, <2>2
<1>6. \A c \in standalone' : c[1].load <= loads'[c[1].jar]
  <2> TAKE c \in standalone'
  <2>1. CASE c[1].jar = j
    BY <1>1, <1>4, <2>1
  <2>2. CASE c[1].jar /= j
    <3>1. c \in standalone /\ c[1].jar \in Jars
      BY <1>1, <2>2 DEF Extensions
    <3>2. QED
      BY <1>1, <2>2, <3>1 DEF ListInv
  <2>3. QED
    BY <2>1, <2>2
<1>7. \A c, d \in standalone' : c[1].jar = d[1].jar => c[1] = d[1]
  BY <1>1 DEF ListInv
<1>8. ListInv'
  BY <1>2, <1>5, <1>6, <1>7 DEF ListInv
<1>9. QED
  BY <1>2, <1>8 DEF e

\* A JAR is loaded at the start.
LEMMA BootLoadInv ==
    ASSUME IInv, NEW j \in Jars, BootLoad(j)
    PROVE  IInv'
<1>1. /\ TypeOK /\ FilesInv /\ ListInv /\ PhaseInv /\ (\A t \in Threads : ThreadInv(t))
      /\ phase = "boot" /\ loads[j] = 0 /\ Construct(j)
      /\ UNCHANGED <<content, writes, resources, commands, plugins, monitor, work, job>>
      /\ phase' \in {"boot", "failed"}
  BY DEF IInv, BootLoad
<1>2. writes[j] \in Nat /\ loads[j] <= writes[j]
  BY <1>1, ExtensionAssumption DEF TypeOK
<1>3. ServedFor(j) = {} /\ j \notin ListedJars
  <2>1. \A e \in Extensions : e.load \in Nat /\ e.load > 0
    BY ExtensionAssumption DEF Extensions
  <2>2. \A e \in Extensions : ~(e.load <= loads[j])
    BY <1>1, <2>1
  <2>3. listed \subseteq Extensions /\ standalone \subseteq Extensions \X (1..Controllers)
    BY <1>1 DEF TypeOK, listed, ToSet
  <2>4. \A c \in standalone : c[1] \in Extensions
    BY <2>3
  <2>5. QED
    BY <1>1, <2>2, <2>3, <2>4 DEF ListInv, ServedFor, ListedJars
<1>4. \/ UNCHANGED extensions
      \/ ~Refused(content[j]) /\ extensions' = Append(extensions, Loaded(j))
  BY DEF BootLoad
<1>5. /\ ListInv' /\ extensions' \in Seq(Extensions)
      /\ UNCHANGED extensions \/ ~Refused(content[j])
      /\ listed' \subseteq listed \cup {Loaded(j)}
  BY <1>1, <1>2, <1>3, <1>4, ConstructList
<1>6. /\ FilesInv' /\ newer' = newer \ {j}
      /\ loads' \in [Jars -> 0..MaxWrites + 1]
      /\ standalone' \subseteq Extensions \X (1..Controllers)
      /\ standalone \subseteq standalone'
      /\ ~Refused(content[j]) => {Loaded(j)} \X (1..Controllers) \subseteq standalone'
  BY <1>1, <1>2, <1>3, ConstructEffect
<1>7. TypeOK'
  BY <1>1, <1>5, <1>6 DEF TypeOK, plugins
<1>8. work[Refresher].step = "idle" /\ work[Stopper].step = "idle"
  BY <1>1 DEF PhaseInv
<1>9. \A t \in Threads : ThreadInv(t)'
  BY <1>1, <1>8 DEF ThreadInv, Inside, Reloading, Threads
<1>10. RefresherInv'
  BY <1>1, <1>8 DEF RefresherInv, Inside, Reloading
<1>11. \A e \in listed' : {e} \X (1..Controllers) \subseteq standalone' \/ e.jar \in newer'
  <2> TAKE e \in listed'
  <2>1. CASE e \in listed
    <3>1. e.jar /= j
      BY <1>3, <2>1 DEF ListedJars
    <3>2. {e} \X (1..Controllers) \subseteq standalone \/ e.jar \in newer
      BY <1>1, <2>1 DEF PhaseInv
    <3>3. QED
      BY <1>6, <3>1, <3>2
  <2>2. CASE e \notin listed
    <3>1. e = Loaded(j) /\ ~Refused(content[j])
      BY <1>5, <2>2 DEF listed, ToSet
    <3>2. QED
      BY <1>6, <3>1
  <2>3. QED
    BY <2>1, <2>2
<1>12. PhaseInv'
  BY <1>1, <1>8, <1>11 DEF PhaseInv
<1>13. QED
  BY <1>5, <1>6, <1>7, <1>9, <1>10, <1>12 DEF IInv

\* The refresher loads what it has unloaded.
LEMMA LoadInv ==
    ASSUME IInv, Load
    PROVE  IInv'
<1>1. /\ TypeOK /\ FilesInv /\ ListInv /\ PhaseInv /\ RefresherInv
      /\ (\A t \in Threads : ThreadInv(t))
      /\ work[Refresher].step = "load" /\ monitor = None
      /\ UNCHANGED <<phase, content, writes, extensions, resources, commands, plugins, job>>
      /\ Refresher \in Threads /\ Stopper \in Threads /\ Refresher /= Stopper
  BY DEF IInv, Load, Threads, Refresher, Stopper
<1>2. PICK j : j = work[Refresher].ext.jar
  OBVIOUS
<1>3. work[Refresher].ext \in Extensions /\ j \in Jars /\ Construct(j)
  BY <1>1, <1>2 DEF ThreadInv, Reloading, Extensions, Load
<1>4. j \in newer /\ j \notin ListedJars /\ ServedFor(j) = {} /\ loads[j] <= writes[j]
  BY <1>1, <1>2, <1>3 DEF RefresherInv, Reloading, FilesInv
<1>5. ListInv' /\ listed' = listed
  BY <1>1, <1>3, <1>4, ConstructList DEF listed, ToSet
<1>6. /\ FilesInv' /\ newer' = newer \ {j} /\ Loaded(j) \in Extensions
      /\ Loaded(j) = [jar |-> j, load |-> loads'[j]]
      /\ loads' \in [Jars -> 0..MaxWrites + 1]
      /\ standalone' \subseteq Extensions \X (1..Controllers)
      /\ standalone \subseteq standalone'
      /\ ~Refused(content[j]) => {Loaded(j)} \X (1..Controllers) \subseteq standalone'
      /\ \A c \in standalone' : c[1].jar = j => c[1] = Loaded(j)
      /\ \A c \in standalone' : c[1].jar /= j => c \in standalone
  <2>1. Loaded(j).load = loads'[j]
    BY <1>1, <1>3, <1>4, ConstructEffect
  <2>2. Loaded(j) = [jar |-> j, load |-> loads'[j]]
    BY <2>1 DEF Loaded
  <2>3. QED
    BY <1>1, <1>3, <1>4, <2>2, ConstructEffect
<1>7. /\ work' \in [Threads -> Works] /\ work'[Stopper] = work[Stopper]
      /\ \/ work'[Refresher].step = "idle" /\ UNCHANGED monitor
         \/ /\ ~Refused(content[j]) /\ work'[Refresher].step = "add"
            /\ work'[Refresher].ext = work[Refresher].ext /\ monitor' = Refresher
  <2>1. CASE Refused(content[j])
    <3>1. work' = [work EXCEPT ![Refresher] = Idle] /\ UNCHANGED monitor
      BY <1>2, <2>1 DEF Load
    <3>2. QED
      BY <1>1, <3>1, IdleWork DEF TypeOK
  <2>2. CASE ~Refused(content[j])
    <3>1. Step(Refresher, "add") /\ monitor' = Refresher
      BY <1>2, <2>2 DEF Load
    <3>2. QED
      BY <1>1, <2>2, <3>1, StepEffect
  <2>3. QED
    BY <2>1, <2>2
<1>8. TypeOK'
  BY <1>1, <1>6, <1>7 DEF TypeOK, plugins
<1>9. work[Stopper].step \notin Inside \cup {"add"}
  BY <1>1, ExtensionAssumption DEF ThreadInv, Threads
<1>10. \A t \in Threads : ThreadInv(t)'
  <2>1. ThreadInv(Stopper)'
    BY <1>1, <1>7, <1>9 DEF ThreadInv, Reloading
  <2>2. ThreadInv(Refresher)'
    BY <1>2, <1>3, <1>7 DEF ThreadInv, Inside, Reloading
  <2>3. QED
    BY <2>1, <2>2 DEF Threads
<1>11. RefresherInv'
  <2>1. CASE work'[Refresher].step = "idle"
    BY <2>1 DEF RefresherInv, Inside, Reloading
  <2>2. CASE /\ ~Refused(content[j]) /\ work'[Refresher].step = "add"
             /\ work'[Refresher].ext = work[Refresher].ext
    <3>1. j \notin ListedJars'
      BY <1>4, <1>5 DEF ListedJars
    <3>2. work'[Refresher].ext.jar = j
      BY <1>2, <2>2
    <3>3. \A c \in ServedFor(j)' : c[1] = Loaded(j)
      BY <1>6 DEF ServedFor
    <3>4. {Loaded(j)} \X (1..Controllers) \subseteq standalone'
      BY <1>6, <2>2
    <3>5. QED
      BY <1>6, <2>2, <3>1, <3>2, <3>3, <3>4 DEF RefresherInv, Inside, Reloading
  <2>3. QED
    BY <1>7, <2>1, <2>2
<1>12. PhaseInv'
  <2>1. phase \notin {"boot", "failed"}
    BY <1>1 DEF PhaseInv
  <2>2. \A e \in listed : e.jar /= j
    BY <1>4 DEF ListedJars
  <2>3. QED
    BY <1>1, <1>5, <1>6, <1>7, <2>1, <2>2 DEF PhaseInv
<1>13. QED
  BY <1>5, <1>6, <1>8, <1>10, <1>11, <1>12 DEF IInv

\* The extension that was loaded is listed.
LEMMA LoadEndsInv ==
    ASSUME IInv, LoadEnds
    PROVE  IInv'
<1>1. /\ TypeOK /\ FilesInv /\ ListInv /\ PhaseInv /\ RefresherInv
      /\ (\A t \in Threads : ThreadInv(t))
      /\ work[Refresher].step = "add" /\ monitor' = None
      /\ work' = [work EXCEPT ![Refresher] = Idle]
      /\ UNCHANGED <<phase, files, loads, resources, standalone, commands, plugins, job>>
      /\ Refresher \in Threads /\ Stopper \in Threads /\ Refresher /= Stopper
  BY DEF IInv, LoadEnds, Threads, Refresher, Stopper
<1>2. PICK e : e = [jar |-> work[Refresher].ext.jar, load |-> loads[work[Refresher].ext.jar]]
  OBVIOUS
<1>3. e.jar = work[Refresher].ext.jar /\ e.load = loads[e.jar]
      /\ extensions' = Append(extensions, e)
  BY <1>2 DEF LoadEnds
<1>4. /\ e \in Extensions /\ e.jar \notin ListedJars
      /\ {e} \X (1..Controllers) \subseteq standalone
      /\ \A c \in ServedFor(e.jar) : c[1] = e
  BY <1>1, <1>2, <1>3 DEF RefresherInv
<1>5. /\ extensions' \in Seq(Extensions) /\ listed' = listed \cup {e}
      /\ \A i, k \in DOMAIN extensions' :
            extensions'[i].jar = extensions'[k].jar => i = k
  BY <1>1, <1>3, <1>4, Listing
<1>6. /\ work' \in [Threads -> Works] /\ work'[Stopper] = work[Stopper]
      /\ work'[Refresher].step = "idle"
  BY <1>1, IdleWork DEF TypeOK
<1>7. TypeOK' /\ FilesInv'
  BY <1>1, <1>5, <1>6 DEF TypeOK, FilesInv, plugins, files
<1>8. ListInv'
  <2>1. \A n \in Nat : n <= n
    OBVIOUS
  <2>2. loads[e.jar] \in Nat
    BY <1>1, <1>4 DEF TypeOK, Extensions
  <2>3. QED
    BY <1>1, <1>3, <1>4, <1>5, <2>1, <2>2 DEF ListInv, ServedFor
<1>9. work[Stopper].step \notin Inside \cup {"add"}
  BY <1>1 DEF ThreadInv
<1>10. \A t \in Threads : ThreadInv(t)'
  <2>1. ThreadInv(Stopper)'
    BY <1>1, <1>6, <1>9 DEF ThreadInv, Reloading
  <2>2. ThreadInv(Refresher)'
    BY <1>6 DEF ThreadInv, Inside, Reloading
  <2>3. QED
    BY <2>1, <2>2 DEF Threads
<1>11. RefresherInv'
  BY <1>6 DEF RefresherInv, Inside, Reloading
<1>12. PhaseInv'
  BY <1>1, <1>4, <1>5, <1>6 DEF PhaseInv, files
<1>13. QED
  BY <1>7, <1>8, <1>10, <1>11, <1>12 DEF IInv

-----------------------------------------------------------------------------
(* Unloading *)

\* unload enters the monitor, or has nothing to do.
LEMMA UnloadBeginsInv ==
    ASSUME IInv, NEW t \in Threads, UnloadBegins(t)
    PROVE  IInv'
<1>1. /\ TypeOK /\ FilesInv /\ ListInv /\ PhaseInv /\ RefresherInv
      /\ (\A u \in Threads : ThreadInv(u))
      /\ work[t].step = "unload" /\ monitor = None
      /\ UNCHANGED <<phase, files, loads, extensions, resources, commands, plugins, job>>
      /\ Refresher \in Threads /\ Stopper \in Threads /\ Refresher /= Stopper
      /\ None \notin Threads
  BY ExtensionAssumption DEF IInv, UnloadBegins, Threads, Refresher, Stopper
<1>2. PICK e : e = work[t].ext
  OBVIOUS
<1>3. e \in Extensions /\ \A u \in Threads : work[u].step \notin Inside \cup {"add"}
  BY <1>1, <1>2 DEF ThreadInv, Reloading
<1>4. phase \notin {"boot", "failed"} /\ (t = Stopper => phase = "stopping")
  BY <1>1, UnloadPhases
<1>5. CASE e \notin listed
  <2>1. work' = [work EXCEPT ![t] = After(t)] /\ UNCHANGED <<monitor, standalone>>
    BY <1>2, <1>5 DEF UnloadBegins
  <2>2. /\ work' \in [Threads -> Works] /\ work'[t] = After(t)
        /\ \A u \in Threads : u /= t => work'[u] = work[u]
    BY <1>1, <2>1, ResumedType DEF TypeOK
  <2>3. /\ t = Refresher => After(t).step = "load" /\ After(t).ext = e
        /\ t /= Refresher => After(t).step = "scan"
    BY <1>1, <1>2, ResumedType
  <2>4. TypeOK'
    BY <1>1, <2>1, <2>2 DEF TypeOK, files, plugins
  <2>5. \A u \in Threads : ThreadInv(u)'
    <3> TAKE u \in Threads
    <3>1. CASE u = t
      BY <1>3, <2>2, <2>3, <3>1 DEF ThreadInv, Inside, Reloading
    <3>2. CASE u /= t
      BY <1>1, <1>3, <2>2, <3>2 DEF ThreadInv, Reloading
    <3>3. QED
      BY <3>1, <3>2
  <2>6. RefresherInv'
    <3>1. CASE t = Refresher
      <4>1. e.jar \in newer /\ e.jar \notin ListedJars /\ ServedFor(e.jar) = {}
        BY <1>1, <1>2, <1>5, <3>1 DEF RefresherInv, Reloading
      <4>2. UNCHANGED <<newer, extensions, standalone>>
        BY <1>1, <2>1 DEF files
      <4>3. QED
        BY <2>2, <2>3, <3>1, <4>1, <4>2
           DEF RefresherInv, Inside, Reloading, listed, ListedJars, ServedFor, ToSet
    <3>2. CASE t /= Refresher
      <4>1. UNCHANGED <<newer, loads, extensions, standalone>>
            /\ work'[Refresher] = work[Refresher]
        BY <1>1, <2>1, <2>2, <3>2 DEF files
      <4>2. QED
        BY <1>1, <4>1 DEF RefresherInv, listed, ListedJars, ServedFor, ToSet
    <3>3. QED
      BY <3>1, <3>2
  <2>7. /\ phase /= "stopping" => work'[Stopper].step = "idle"
        /\ work'[Stopper].step \notin {"load", "add"}
    BY <1>1, <1>4, <2>2, <2>3 DEF PhaseInv
  <2>8. QED
    BY <1>1, <1>4, <2>1, <2>4, <2>5, <2>6, <2>7, WorkChanges DEF files
<1>6. CASE e \in listed
  <2>1. monitor' = t /\ Step(t, "stop") /\ standalone' = WithoutControllersOf(e)
    BY <1>2, <1>6 DEF UnloadBegins
  <2>2. /\ work' \in [Threads -> Works] /\ work'[t].step = "stop" /\ work'[t].ext = e
        /\ \A u \in Threads : u /= t => work'[u] = work[u]
    BY <1>1, <1>2, <2>1, StepEffect
  <2>3. standalone' = {c \in standalone : c[1] /= e}
    BY <2>1 DEF WithoutControllersOf
  <2>4. TypeOK' /\ FilesInv'
    BY <1>1, <2>1, <2>2, <2>3 DEF TypeOK, FilesInv, files, plugins
  <2>5. ListInv' /\ listed' = listed
    BY <1>1, <2>3 DEF ListInv, listed, ServedFor, ToSet
  <2>6. \A u \in Threads : ThreadInv(u)'
    <3> TAKE u \in Threads
    <3>1. CASE u = t
      BY <1>3, <1>6, <2>1, <2>2, <2>3, <2>5, <3>1 DEF ThreadInv, Inside, Reloading
    <3>2. CASE u /= t
      BY <1>1, <1>3, <2>2, <3>2 DEF ThreadInv, Reloading
    <3>3. QED
      BY <3>1, <3>2
  <2>7. RefresherInv'
    <3>1. CASE t = Refresher
      <4>1. e.jar \in newer /\ UNCHANGED newer
        BY <1>1, <1>2, <3>1 DEF RefresherInv, Reloading, files
      <4>2. QED
        BY <2>2, <3>1, <4>1 DEF RefresherInv, Inside, Reloading
    <3>2. CASE t /= Refresher
      <4>1. /\ work'[Refresher] = work[Refresher] /\ work[Refresher].step /= "add"
            /\ UNCHANGED <<newer, loads>>
        BY <1>1, <1>3, <2>2, <3>2 DEF files
      <4>2. ListedJars' = ListedJars
        BY <2>5 DEF ListedJars
      <4>3. \A j : ServedFor(j) = {} => ServedFor(j)' = {}
        BY <2>3 DEF ServedFor
      <4>4. QED
        BY <1>1, <2>5, <4>1, <4>2, <4>3 DEF RefresherInv, Inside, Reloading
    <3>3. QED
      BY <3>1, <3>2
  <2>8. PhaseInv'
    <3>1. \A x \in listed : x /= e /\ {x} \X (1..Controllers) \subseteq standalone
              => {x} \X (1..Controllers) \subseteq standalone'
      BY <2>3
    <3>2. phase = "run" => t = Refresher /\ e.jar \in newer
      BY <1>1, <1>2, <1>4 DEF Threads, RefresherInv, Reloading
    <3>3. phase \in {"boot", "failed", "run"} =>
              \A x \in listed' : {x} \X (1..Controllers) \subseteq standalone' \/ x.jar \in newer'
      BY <1>1, <1>4, <2>5, <3>1, <3>2 DEF PhaseInv, files
    <3>4. /\ phase /= "stopping" => work'[Stopper].step = "idle"
          /\ work'[Stopper].step \notin {"load", "add"}
      BY <1>1, <1>4, <2>2 DEF PhaseInv
    <3>5. QED
      BY <1>1, <1>4, <3>3, <3>4 DEF PhaseInv
  <2>9. QED
    BY <2>4, <2>5, <2>6, <2>7, <2>8 DEF IInv
<1>7. QED
  BY <1>5, <1>6

\* The extension leaves the list; nothing of its JAR is left.
LEMMA UnloadEndsInv ==
    ASSUME IInv, NEW t \in Threads, UnloadEnds(t)
    PROVE  IInv'
<1>1. /\ TypeOK /\ FilesInv /\ ListInv /\ PhaseInv /\ RefresherInv
      /\ (\A u \in Threads : ThreadInv(u))
      /\ work[t].step = "controllers" /\ monitor' = None
      /\ UNCHANGED <<phase, files, loads, resources, standalone, commands, plugins, job>>
      /\ Refresher \in Threads /\ Stopper \in Threads /\ Refresher /= Stopper
  BY DEF IInv, UnloadEnds, Threads, Refresher, Stopper
<1>2. PICK e : e = work[t].ext
  OBVIOUS
<1>3. /\ e \in Extensions /\ e \in listed /\ (\A c \in standalone : c[1] /= e)
      /\ extensions' = RemoveFirst(extensions, e)
  BY <1>1, <1>2 DEF ThreadInv, Inside, Reloading, UnloadEnds
<1>4. phase \notin {"boot", "failed"} /\ (t = Stopper => phase = "stopping")
  BY <1>1, UnloadPhases
<1>5. /\ extensions' \in Seq(Extensions) /\ listed' = listed \ {e}
      /\ e.jar \notin {x.jar : x \in listed \ {e}}
      /\ \A i, k \in DOMAIN extensions' :
            extensions'[i].jar = extensions'[k].jar => i = k
  BY <1>1, <1>3, Delisting
<1>6. e.jar \notin ListedJars' /\ ListedJars' \subseteq ListedJars
      /\ ServedFor(e.jar) = {} /\ \A j : ServedFor(j)' = ServedFor(j)
  BY <1>1, <1>3, <1>5 DEF ListedJars, ServedFor, ListInv
<1>7. /\ work' = [u \in Threads |->
                     IF u = t THEN After(t)
                     ELSE IF u = Refresher /\ work[u].step = "scan" THEN Idle
                     ELSE work[u]]
      /\ \A u \in Threads : work[u] \in Works
  BY <1>1 DEF UnloadEnds, TypeOK
<1>8. /\ After(t) \in Works
      /\ t = Refresher => After(t).step = "load" /\ After(t).ext = e
      /\ t /= Refresher => After(t).step = "scan"
  BY <1>1, <1>2, ResumedType
<1>9. /\ work' \in [Threads -> Works] /\ work'[t] = After(t)
      /\ \A u \in Threads : u /= t => \/ work'[u] = work[u] /\ (u = Refresher => work[u].step /= "scan")
                                      \/ u = Refresher /\ work'[u] = Idle
  BY <1>7, <1>8, IdleWork
<1>10. TypeOK' /\ FilesInv'
  BY <1>1, <1>5, <1>9 DEF TypeOK, FilesInv, files, plugins
<1>11. ListInv'
  BY <1>1, <1>5, <1>6 DEF ListInv
<1>12. \A u \in Threads : u /= t => work[u].step \notin Inside \cup {"add"}
  BY <1>1 DEF ThreadInv, Inside
<1>13. \A u \in Threads : ThreadInv(u)'
  <2> TAKE u \in Threads
  <2>1. CASE u = t
    BY <1>3, <1>8, <1>9, <2>1 DEF ThreadInv, Inside, Reloading
  <2>2. CASE u /= t /\ work'[u] = work[u]
    BY <1>1, <1>12, <2>2 DEF ThreadInv, Reloading
  <2>3. CASE u /= t /\ work'[u] = Idle
    BY <2>3, IdleWork DEF ThreadInv, Inside, Reloading
  <2>4. QED
    BY <1>9, <2>1, <2>2, <2>3
<1>14. RefresherInv'
  <2>1. CASE t = Refresher
    <3>1. e.jar \in newer'
      BY <1>1, <1>2, <2>1 DEF RefresherInv, Inside, Reloading, files
    <3>2. QED
      BY <1>6, <1>8, <1>9, <2>1, <3>1 DEF RefresherInv, Inside, Reloading
  <2>2. CASE t /= Refresher /\ work'[Refresher] = Idle
    BY <2>2, IdleWork DEF RefresherInv, Inside, Reloading
  <2>3. CASE t /= Refresher /\ work'[Refresher] = work[Refresher]
    <3>1. work[Refresher].step \notin Inside \cup {"add"} /\ work[Refresher].step /= "scan"
      BY <1>1, <1>9, <1>12, <2>3, IdleWork
    <3>2. UNCHANGED newer
      BY <1>1 DEF files
    <3>3. CASE work[Refresher].step = "unload"
      BY <1>1, <1>5, <1>6, <2>3, <3>2, <3>3 DEF RefresherInv, Inside, Reloading
    <3>4. CASE work[Refresher].step /= "unload"
      BY <1>1, <1>6, <2>3, <3>1, <3>2, <3>4 DEF RefresherInv, Inside, Reloading
    <3>5. QED
      BY <3>3, <3>4
  <2>4. QED
    BY <1>1, <1>9, <2>1, <2>2, <2>3
<1>15. PhaseInv'
  <2>1. /\ phase /= "stopping" => work'[Stopper].step = "idle"
        /\ work'[Stopper].step \notin {"load", "add"}
    BY <1>1, <1>4, <1>8, <1>9 DEF PhaseInv
  <2>2. QED
    BY <1>1, <1>4, <1>5, <2>1 DEF PhaseInv, files
<1>16. QED
  BY <1>10, <1>11, <1>13, <1>14, <1>15 DEF IInv

-----------------------------------------------------------------------------
(* Registrations and the life cycle of the plugins *)

\* An iteration that is disturbed stays where it is.
LEMMA DisturbEffect ==
    ASSUME TypeOK, NEW e, Disturb(e)
    PROVE  /\ work' \in [Threads -> Works]
           /\ \A t \in Threads : /\ work'[t].step = work[t].step
                                 /\ work'[t].ext = work[t].ext /\ work'[t].at = work[t].at
<1>1. \A w \in Works : LET v == [w EXCEPT !.stale = TRUE]
                       IN  v \in Works /\ v.step = w.step /\ v.ext = w.ext /\ v.at = w.at
  BY DEF Works
<1>2. \A t \in Threads : work[t] \in Works
  BY DEF TypeOK
<1>3. work' = [t \in Threads |->
                  IF work[t].step = "controllers" /\ work[t].ext = e
                  THEN [work[t] EXCEPT !.stale = TRUE] ELSE work[t]]
  BY DEF Disturb
<1>4. QED
  BY <1>1, <1>2, <1>3

\* What is left to prove of a step that leaves the threads where they are.
LEMMA SameWork ==
    ASSUME IInv, TypeOK',
           UNCHANGED <<phase, files, loads, extensions, standalone, monitor, work>>
    PROVE  IInv'
  BY Stays DEF files

\* The registration of a plugin, step by step.
LEMMA RegistersInv ==
    ASSUME IInv, NEW p \in Plugins, Register(p) \/ Unregister(p)
    PROVE  IInv'
<1>1. TypeOK /\ UNCHANGED <<phase, files, manager, plugins, monitor, work>>
  BY DEF IInv, Register, Unregister
<1>2. listed \subseteq Extensions
  BY <1>1 DEF TypeOK, listed, ToSet
<1>3. job' \in Jobs
  BY <1>2 DEF Register, Unregister, Jobs
<1>4. TypeOK'
  BY <1>1, <1>3 DEF TypeOK, files, manager, plugins
<1>5. QED
  BY <1>1, <1>4, SameWork DEF manager

\* The steps before the extension is asked to load the plugin.
LEMMA LooksUpInv ==
    ASSUME IInv, RegisterAsks \/ RegisterFinds
    PROVE  IInv'
<1>1. /\ TypeOK /\ job \in Jobs
      /\ UNCHANGED <<phase, files, manager, plugins, monitor, work>>
  BY DEF IInv, TypeOK, RegisterAsks, RegisterFinds
<1>2. listed \subseteq Extensions
  BY <1>1 DEF TypeOK, listed, ToSet
<1>3. job' \in Jobs \cup {None}
  <2>1. CASE RegisterAsks
    BY <1>1, <2>1 DEF RegisterAsks, Jobs
  <2>2. ASSUME NEW e \in listed, job' = [job EXCEPT !.step = "load", !.ext = e]
        PROVE  job' \in Jobs
    BY <1>1, <1>2, <2>2 DEF Jobs
  <2>3. QED
    BY <2>1, <2>2 DEF RegisterFinds
<1>4. TypeOK'
  BY <1>1, <1>3 DEF TypeOK, files, manager, plugins
<1>5. QED
  BY <1>1, <1>4, SameWork DEF manager

\* The extension loads the plugin.
LEMMA RegisterLoadsInv ==
    ASSUME IInv, RegisterLoads
    PROVE  IInv'
<1>1. /\ TypeOK /\ job \in Jobs /\ Disturb(job.ext) /\ job' = [job EXCEPT !.step = "add"]
      /\ resources' = [resources EXCEPT ![job.ext] = @ \cup {job.plugin}]
      /\ UNCHANGED <<phase, files, loads, extensions, standalone, commands, plugins, monitor>>
  BY DEF IInv, TypeOK, RegisterLoads
<1>2. job' \in Jobs /\ job.plugin \in Plugins
  BY <1>1 DEF Jobs
<1>3. resources' \in [Extensions -> SUBSET Plugins]
  BY <1>1, <1>2 DEF TypeOK
<1>4. /\ work' \in [Threads -> Works]
      /\ \A t \in Threads : /\ work'[t].step = work[t].step
                            /\ work'[t].ext = work[t].ext /\ work'[t].at = work[t].at
  BY <1>1, DisturbEffect
<1>5. TypeOK'
  BY <1>1, <1>2, <1>3, <1>4 DEF TypeOK, files, plugins
<1>6. QED
  BY <1>1, <1>4, <1>5, Stays DEF files

\* The plugin is in the map.
LEMMA RegisterAddsInv ==
    ASSUME IInv, RegisterAdds
    PROVE  IInv'
<1>1. /\ TypeOK /\ job \in Jobs /\ job' = None
      /\ UNCHANGED <<phase, files, loads, extensions, resources, standalone, status, monitor, work>>
  BY DEF IInv, TypeOK, RegisterAdds
<1>2. job.plugin \in Plugins
  BY <1>1 DEF Jobs
<1>3. commands' \subseteq Plugins \X Kinds
      /\ entry' \in [Plugins -> {"none", "registered", "gone"}]
  BY <1>1, <1>2 DEF TypeOK, RegisterAdds
<1>4. TypeOK'
  BY <1>1, <1>3 DEF TypeOK, files
<1>5. QED
  BY <1>1, <1>4, SameWork

\* The plugin is unregistered, and its extension forgets it.
LEMMA UnregisterRemovesInv ==
    ASSUME IInv, UnregisterRemoves
    PROVE  IInv'
<1>1. /\ TypeOK /\ job \in Jobs /\ job' = None
      /\ entry' = [entry EXCEPT ![job.plugin] = "gone"]
      /\ UNCHANGED <<phase, files, loads, extensions, standalone, status, monitor>>
  BY DEF IInv, TypeOK, UnregisterRemoves
<1>2. entry' \in [Plugins -> {"none", "registered", "gone"}]
  BY <1>1 DEF TypeOK
<1>3. CASE /\ resources' = [resources EXCEPT ![job.ext] = @ \ {job.plugin}]
           /\ commands' = commands \ ({job.plugin} \X Kinds)
           /\ Disturb(job.ext)
  <2>1. resources' \in [Extensions -> SUBSET Plugins] /\ commands' \subseteq Plugins \X Kinds
    BY <1>1, <1>3 DEF TypeOK
  <2>2. /\ work' \in [Threads -> Works]
        /\ \A t \in Threads : /\ work'[t].step = work[t].step
                              /\ work'[t].ext = work[t].ext /\ work'[t].at = work[t].at
    BY <1>1, <1>3, DisturbEffect
  <2>3. TypeOK'
    BY <1>1, <1>2, <2>1, <2>2 DEF TypeOK, files
  <2>4. QED
    BY <1>1, <2>2, <2>3, Stays DEF files
<1>4. CASE UNCHANGED <<resources, commands, work>>
  <2>1. TypeOK'
    BY <1>1, <1>2, <1>4 DEF TypeOK, files
  <2>2. QED
    BY <1>1, <1>4, <2>1, SameWork
<1>5. QED
  BY <1>3, <1>4 DEF UnregisterRemoves

\* The life cycle does not touch extensions.
LEMMA LifeCycleInv ==
    ASSUME IInv, NEW p \in Plugins, StartPlugin(p) \/ StopPlugin(p) \/ PluginStopped(p)
    PROVE  IInv'
<1>1. TypeOK /\ UNCHANGED <<phase, files, manager, entry, monitor, work, job>>
  BY DEF IInv, StartPlugin, StopPlugin, PluginStopped
<1>2. status' \in [Plugins -> {"stopped", "started", "stopping"}]
  BY <1>1 DEF TypeOK, StartPlugin, StopPlugin, PluginStopped
<1>3. TypeOK'
  BY <1>1, <1>2 DEF TypeOK, files, manager
<1>4. QED
  BY <1>1, <1>3, SameWork DEF manager

-----------------------------------------------------------------------------
(* The invariant, and what follows from it *)

\* The invariant holds before anything is loaded.
LEMMA InitInv == Init => IInv
<1> SUFFICES ASSUME Init
             PROVE  IInv
  OBVIOUS
<1>1. listed = {} /\ extensions \in Seq(Extensions) /\ DOMAIN extensions = {}
  BY DEF Init, listed, ToSet
<1>2. TypeOK
  BY <1>1, IdleWork, ExtensionAssumption DEF Init, TypeOK
<1>3. FilesInv
  BY DEF Init, FilesInv
<1>4. ListInv
  BY <1>1 DEF Init, ListInv
<1>5. \A t \in Threads : ThreadInv(t)
  BY IdleWork DEF Init, ThreadInv, Inside, Reloading
<1>6. work[Refresher].step = "idle" /\ work[Stopper].step = "idle"
  BY IdleWork DEF Init, Threads
<1>7. RefresherInv
  BY <1>6 DEF RefresherInv, Inside, Reloading
<1>8. PhaseInv
  BY <1>1, <1>6 DEF PhaseInv
<1>9. QED
  BY <1>2, <1>3, <1>4, <1>5, <1>7, <1>8 DEF IInv

\* Every step preserves it.
LEMMA NextInv == IInv /\ [Next]_vars => IInv'
<1> SUFFICES ASSUME IInv, [Next]_vars
             PROVE  IInv'
  OBVIOUS
<1>1. CASE UNCHANGED vars
  <2>1. UNCHANGED <<phase, content, newer, writes, loads, extensions, resources, standalone,
                    commands, entry, status, monitor, work, job>>
    BY <1>1 DEF vars, files, manager, plugins
  <2>2. TypeOK'
    BY <2>1 DEF IInv, TypeOK
  <2>3. QED
    BY <2>1, <2>2, SameWork DEF files
<1>2. ASSUME NEW j \in Jars, BootLoad(j) \/ WriteJar(j)
      PROVE  IInv'
  BY <1>2, BootLoadInv, WriteJarInv
<1>3. ASSUME NEW t \in Threads, Unloads(t)
      PROVE  IInv'
  BY <1>3, UnloadBeginsInv, AsksStopperInv, StopsPluginsInv, WaitedInv,
     RemovesControllerInv, UnloadEndsInv DEF Unloads
<1>4. CASE Refreshes
  BY <1>3, <1>4, TickInv, ScanInv, LoadInv, LoadEndsInv DEF Refreshes, Threads
<1>5. CASE BootEnds \/ Destroy \/ DestroyNext \/ DestroyEnds
  BY <1>5, BootEndsInv, DestroyInv, DestroyNextInv, DestroyEndsInv
<1>6. CASE Registers
  BY <1>6, LooksUpInv, RegisterLoadsInv, RegisterAddsInv, UnregisterRemovesInv DEF Registers
<1>7. ASSUME NEW p \in Plugins, Register(p) \/ Unregister(p)
      PROVE  IInv'
  BY <1>7, RegistersInv
<1>8. ASSUME NEW p \in Plugins, StartPlugin(p) \/ StopPlugin(p) \/ PluginStopped(p)
      PROVE  IInv'
  BY <1>8, LifeCycleInv
<1>9. QED
  BY <1>1, <1>2, <1>3, <1>4, <1>5, <1>6, <1>7, <1>8 DEF Next, Threads

\* The invariant holds in every reachable state.
THEOREM InductiveInvariant == Spec => []IInv
  BY InitInv, NextInv, PTL DEF Spec

\* Every variable has its type.
THEOREM TypeCorrect == Spec => []TypeOK
<1>1. IInv => TypeOK
  BY DEF IInv
<1>2. QED
  BY <1>1, InductiveInvariant, PTL

\* The list has as many extensions, and as many JARs, as it has places.
LEMMA ListedOnce ==
    ASSUME TypeOK, ListInv
    PROVE  Cardinality(listed) = Len(extensions) /\ Cardinality(ListedJars) = Len(extensions)
<1>1. extensions \in Seq(Extensions)
  BY DEF TypeOK
<1>2. PICK n \in Nat : n = Len(extensions) /\ DOMAIN extensions = 1..n
  BY <1>1
<1>3. IsFiniteSet(1..n) /\ Cardinality(1..n) = n
  <2>1. 1 \in Int /\ n \in Int
    BY <1>2
  <2>2. IsFiniteSet(1..n) /\ Cardinality(1..n) = IF 1 > n THEN 0 ELSE n - 1 + 1
    BY <2>1, FS_Interval
  <2>3. QED
    BY <1>2, <2>2
<1>4. \A i, k \in 1..n : extensions[i].jar = extensions[k].jar => i = k
  BY <1>2 DEF ListInv
<1>5. listed = {extensions[i] : i \in 1..n} /\ ListedJars = {extensions[i].jar : i \in 1..n}
  BY <1>2 DEF listed, ListedJars, ToSet
<1> DEFINE f == [i \in 1..n |-> extensions[i]]
           g == [i \in 1..n |-> extensions[i].jar]
<1>6. ExistsBijection(1..n, listed)
  <2>1. f \in Bijection(1..n, listed)
    BY <1>4, <1>5 DEF Bijection, Injection, IsInjective, Surjection
  <2>2. QED
    BY <2>1 DEF ExistsBijection
<1>7. ExistsBijection(1..n, ListedJars)
  <2>1. g \in Bijection(1..n, ListedJars)
    BY <1>4, <1>5 DEF Bijection, Injection, IsInjective, Surjection
  <2>2. QED
    BY <2>1 DEF ExistsBijection
<1>8. QED
  BY <1>2, <1>3, <1>6, <1>7, FS_Bijection

\* A JAR is in the list once, and the standalone controllers that answer requests
\* for it are of one loading, whatever was refused, raised or written meanwhile.
THEOREM OneLoading == Spec => []OneGeneration
<1>1. IInv => OneGeneration
  BY ListedOnce DEF IInv, ListInv, OneGeneration
<1>2. QED
  BY <1>1, InductiveInvariant, PTL

\* A listed extension has all its standalone controllers, or is being unloaded, or
\* will be unloaded by the next walk: an unload that ended half-way is not left at that.
THEOREM ServedUnlessReloading == Spec => []ListedIsServed
<1>1. IInv => ListedIsServed
  BY DEF IInv, PhaseInv, ListedIsServed
<1>2. QED
  BY <1>1, InductiveInvariant, PTL
=============================================================================
