-------------------------- MODULE ExtensionManager --------------------------
(***************************************************************************)
(* Extensions and their controllers, in                                    *)
(* framework.services.ext.ExtensionManagerServiceImpl, together with what  *)
(* PluginManagerServiceImpl does with them.                                *)
(*                                                                         *)
(* At boot every JAR of the extension directory is loaded.  Then a         *)
(* recurring task, the refresher, walks over the loaded extensions: one    *)
(* whose JAR is newer than it is unloaded and loaded again.  Both change   *)
(* the list the refresher walks over, so that the walk ends there, with a  *)
(* ConcurrentModificationException or because the size has shrunk to the   *)
(* position; the rest is for the next walk.  Walks do not overlap.         *)
(*                                                                         *)
(* unload and load run in the monitor of the extension manager, and unload *)
(* enters the monitor of the plugin registry to stop the plugins.  A       *)
(* registration goes the other way: in the monitor of the registry it asks *)
(* for the loaded extensions.  Registrations exclude each other, so that   *)
(* one variable, job, is both the monitor of the registry and its holder.  *)
(*                                                                         *)
(* The i18n keys that come and go with an extension are left out: what     *)
(* fails there is caught, and nothing else depends on it.                  *)
(***************************************************************************)
EXTENDS Naturals, Sequences, FiniteSets, SequencesExt

CONSTANTS
    Jars,           \* the JAR files in the extension directory
    Plugins,        \* the plugin configurations, an identifier is used once
    JarOf,          \* the JAR that declares the definition of a plugin
    Controllers,    \* how many standalone controllers a JAR declares
    MaxWrites,      \* bound: how often one JAR is written
    None            \* nobody, nothing

Refresher == "refresher"    \* the thread of the recurring task
Stopper   == "stopper"      \* the thread that runs destroy
Threads   == {Refresher, Stopper}

\* A loading of a JAR: an instance of Extension.
Extensions == [jar : Jars, load : 1..MaxWrites + 1]

\* What is in a JAR: nothing that can be read, or controllers of which the one
\* with this number is the first that addExtensionController refuses.
Unreadable == 0
Good       == Controllers + 1
Contents   == 0..Controllers + 1

ASSUME ExtensionAssumption ==
    /\ JarOf \in [Plugins -> Jars]
    /\ Controllers \in Nat
    /\ MaxWrites \in Nat
    /\ None \notin Threads \cup Plugins \cup Extensions

VARIABLES
    phase,          \* boot, failed, run, stopping, down
    content,        \* what is in each JAR file
    newer,          \* the JARs modified after the loadingTime of their extension
    writes,         \* how often each JAR was written
    loads,          \* how many Extension objects were made of each JAR
    extensions,     \* the list of loaded extensions
    resources,      \* Extension.internalPluginResources: the plugins it holds
    standalone,     \* standalone controllers in extensionControllers
    commands,       \* controllers of plugins in extensionControllers
    entry,          \* of each plugin: none, registered, gone
    status,         \* of each plugin: stopped, started, stopping
    monitor,        \* the thread in the monitor of the extension manager
    work,           \* what refresher and stopper are doing
    job             \* the registration or unregistration under way, or None

files   == <<content, newer, writes>>
manager == <<loads, extensions, resources, standalone, commands>>
plugins == <<entry, status>>
vars    == <<phase, files, manager, plugins, monitor, work, job>>

Kinds == {"custom", "widget"}   \* registration controllers go as custom ones do

\* at: position of the walk; ext: the extension at hand; todo: what is left of
\* an iteration; stale: whether the map iterated over has changed since.
Works == [step : {"idle", "scan", "unload", "stop", "enter", "wait", "controllers",
                  "load", "add"},
          at : Nat, ext : Extensions \cup {None}, todo : SUBSET Plugins,
          stale : BOOLEAN, rest : SUBSET Extensions]
Jobs  == [step : {"ask", "find", "load", "add", "remove"}, plugin : Plugins,
          ext : Extensions \cup {None}]

TypeOK ==
    /\ phase \in {"boot", "failed", "run", "stopping", "down"}
    /\ content \in [Jars -> Contents]
    /\ newer \subseteq Jars
    /\ writes \in [Jars -> 0..MaxWrites]
    /\ loads \in [Jars -> 0..MaxWrites + 1]
    /\ extensions \in Seq(Extensions)
    /\ resources \in [Extensions -> SUBSET Plugins]
    /\ standalone \subseteq Extensions \X (1..Controllers)
    /\ commands \subseteq Plugins \X Kinds
    /\ entry \in [Plugins -> {"none", "registered", "gone"}]
    /\ status \in [Plugins -> {"stopped", "started", "stopping"}]
    /\ monitor \in Threads \cup {None}
    /\ work \in [Threads -> Works]
    /\ job \in Jobs \cup {None}

Idle == [step |-> "idle", at |-> 0, ext |-> None, todo |-> {}, stale |-> FALSE,
         rest |-> {}]

Init ==
    /\ phase = "boot"
    /\ content \in [Jars -> Contents]
    /\ newer = {}
    /\ writes = [j \in Jars |-> 0]
    /\ loads = [j \in Jars |-> 0]
    /\ extensions = <<>>
    /\ resources = [e \in Extensions |-> {}]
    /\ standalone = {}
    /\ commands = {}
    /\ entry = [p \in Plugins |-> "none"]
    /\ status = [p \in Plugins |-> "stopped"]
    /\ monitor = None
    /\ work = [t \in Threads |-> Idle]
    /\ job = None

listed == ToSet(extensions)
ListedJars == {e.jar : e \in listed}

-----------------------------------------------------------------------------
(* Files *)

\* Somebody copies a JAR over the present one.  Its time of modification is later
\* than the loading of its extension, whatever is in it.
WriteJar(j) ==
    /\ phase = "run"
    /\ writes[j] < MaxWrites
    /\ writes' = [writes EXCEPT ![j] = @ + 1]
    /\ \E c \in Contents : content' = [content EXCEPT ![j] = c]
    /\ newer' = newer \cup {j}
    /\ UNCHANGED <<phase, manager, plugins, monitor, work, job>>

-----------------------------------------------------------------------------
(* addExtension *)

\* Variant: the extension object is numbered as the one before it.
LoadedAsBefore(j) == [jar |-> j, load |-> loads[j]]
Loaded(j) == [jar |-> j, load |-> loads[j] + 1]

\* The constructor and the standalone controllers.  A controller that is refused
\* should take the ones before it along, but these are looked up by their class
\* where the map has the instances: with one to remove the lookup is of null.
AddedControllers(e, c) == {<<e, i>> : i \in 1..(IF c = Unreadable THEN 0 ELSE c - 1)}

\* Variant: a controller that is refused is left out and the extension listed.
RefusedIfUnreadable(c) == c = Unreadable
Refused(c) == c # Good
Throws(c)  == c \in 2..Controllers

Construct(j) ==
    /\ newer' = newer \ {j}
    /\ loads' = [loads EXCEPT ![j] = @ + 1]
    /\ standalone' = standalone \cup AddedControllers(Loaded(j), content[j])

\* init: an exception ends the start of the application.
BootLoad(j) ==
    /\ phase = "boot"
    /\ loads[j] = 0
    /\ Construct(j)
    /\ IF Refused(content[j])
       THEN /\ phase' = IF Throws(content[j]) THEN "failed" ELSE "boot"
            /\ UNCHANGED extensions
       ELSE /\ extensions' = Append(extensions, Loaded(j))
            /\ UNCHANGED phase
    /\ UNCHANGED <<content, writes, resources, commands, plugins, monitor, work, job>>

BootEnds ==
    /\ phase = "boot"
    /\ \A j \in Jars : loads[j] > 0
    /\ phase' = "run"
    /\ UNCHANGED <<files, manager, plugins, monitor, work, job>>

-----------------------------------------------------------------------------
(* unload, by either thread *)

Step(t, s) == work' = [work EXCEPT ![t].step = s]

\* The refresher is done with its walk whatever the outcome: see above.  The
\* stopper goes on with the next extension of its copy.
Resumed(t) ==
    IF t = Refresher THEN Idle ELSE [Idle EXCEPT !.step = "scan", !.rest = work[t].rest]

After(t) == IF t = Refresher THEN [work[t] EXCEPT !.step = "load"] ELSE Resumed(t)

\* An exception leaves the monitor.  It ends the walk; destroy logs it.
Raise(t) ==
    /\ monitor' = None
    /\ work' = [work EXCEPT ![t] = Resumed(t)]

\* Variant: only the first controller is removed.
WithoutFirstControllerOf(e) == standalone \ {<<e, 1>>}
WithoutControllersOf(e)     == {c \in standalone : c[1] # e}

\* unload enters the monitor and removes the standalone controllers, unless the
\* extension has been unloaded in the meantime.
UnloadBegins(t) ==
    LET e == work[t].ext IN
    /\ work[t].step = "unload"
    /\ monitor = None
    /\ IF e \in listed
       THEN /\ monitor' = t
            /\ standalone' = WithoutControllersOf(e)
            /\ Step(t, "stop")
       ELSE /\ work' = [work EXCEPT ![t] = After(t)]
            /\ UNCHANGED <<monitor, standalone>>
    /\ UNCHANGED <<phase, files, loads, extensions, resources, commands, plugins, job>>

ToldToStop(e) ==
    {p \in Plugins : entry[p] = "registered" /\ JarOf[p] = e.jar}

\* At shutdown there is no plugin stopper any more.  When it goes away between the
\* test and the call, unload ends with an exception.
AsksStopper(t) ==
    /\ work[t].step = "stop"
    /\ \/ Step(t, IF phase = "run" THEN "enter" ELSE "wait") /\ UNCHANGED monitor
       \/ phase # "run" /\ t = Refresher /\ Raise(t)
    /\ UNCHANGED <<phase, files, manager, plugins, job>>

\* stopAllPluginsWithIdentifier: the plugins that are started are told to stop, in
\* the monitor of the registry.
StopsPlugins(t) ==
    /\ work[t].step = "enter"
    /\ job = None
    /\ status' = [p \in Plugins |->
                     IF p \in ToldToStop(work[t].ext) /\ status[p] = "started"
                     THEN "stopping" ELSE status[p]]
    /\ Step(t, "wait")
    /\ UNCHANGED <<phase, files, manager, entry, monitor, job>>

\* The wait is for a fixed time: nothing says that the plugins have stopped.
Waited(t) ==
    /\ work[t].step = "wait"
    /\ work' = [work EXCEPT ![t].step = "controllers", ![t].stale = FALSE,
                            ![t].todo = resources[work[t].ext]]
    /\ UNCHANGED <<phase, files, manager, plugins, monitor, job>>

\* The map of the resources is walked over live: a plugin that is loaded or
\* unloaded by another thread ends the walk, and unload with it.
RemovesController(t) ==
    /\ work[t].step = "controllers"
    /\ work[t].todo # {}
    /\ IF work[t].stale
       THEN Raise(t) /\ UNCHANGED commands
       ELSE /\ \E p \in work[t].todo :
                  /\ commands' = commands \ {<<p, "custom">>}
                  /\ work' = [work EXCEPT ![t].todo = @ \ {p}]
            /\ UNCHANGED monitor
    /\ UNCHANGED <<phase, files, loads, extensions, resources, standalone, plugins, job>>

\* What the plugins of the extension hold of it goes with the extension.  Their
\* widget controllers stay in the map of the manager.  When this is destroy, a
\* walk of the refresher over the list ends.
UnloadEnds(t) ==
    LET e == work[t].ext IN
    /\ work[t].step = "controllers"
    /\ work[t].todo = {}
    /\ extensions' = RemoveFirst(extensions, e)
    /\ monitor' = None
    /\ work' = [u \in Threads |->
                   IF u = t THEN After(t)
                   ELSE IF u = Refresher /\ work[u].step = "scan" THEN Idle
                   ELSE work[u]]
    /\ UNCHANGED <<phase, files, loads, resources, standalone, commands, plugins, job>>

-----------------------------------------------------------------------------
(* The refresher *)

\* Variant: positions are counted from one more.
SecondToScan == 2
FirstToScan  == 1

Tick ==
    /\ phase \in {"run", "stopping"}
    /\ work[Refresher].step = "idle"
    /\ extensions # <<>>
    /\ work' = [work EXCEPT ![Refresher].step = "scan", ![Refresher].at = FirstToScan]
    /\ UNCHANGED <<phase, files, manager, plugins, monitor, job>>

Scan ==
    LET w == work[Refresher] IN
    /\ w.step = "scan"
    /\ work' = [work EXCEPT ![Refresher] =
                    IF w.at > Len(extensions) THEN Idle
                    ELSE IF extensions[w.at].jar \in newer
                    THEN [w EXCEPT !.step = "unload", !.ext = extensions[w.at]]
                    ELSE [w EXCEPT !.at = @ + 1]]
    /\ UNCHANGED <<phase, files, manager, plugins, monitor, job>>

\* Variant: a refused JAR returns without leaving the monitor.
LoadLocked ==
    LET j == work[Refresher].ext.jar IN
    /\ work[Refresher].step = "load"
    /\ monitor = None
    /\ Construct(j)
    /\ monitor' = Refresher
    /\ IF Refused(content[j]) THEN work' = [work EXCEPT ![Refresher] = Idle]
       ELSE Step(Refresher, "add")
    /\ UNCHANGED <<phase, content, writes, extensions, resources, commands, plugins, job>>

\* load.  A JAR that cannot be loaded is not in the list any more, and the
\* refresher never looks at it again.
Load ==
    LET j == work[Refresher].ext.jar IN
    /\ work[Refresher].step = "load"
    /\ monitor = None
    /\ Construct(j)
    /\ IF Refused(content[j])
       THEN work' = [work EXCEPT ![Refresher] = Idle] /\ UNCHANGED monitor
       ELSE Step(Refresher, "add") /\ monitor' = Refresher
    /\ UNCHANGED <<phase, content, writes, extensions, resources, commands, plugins, job>>

LoadEnds ==
    LET j == work[Refresher].ext.jar IN
    /\ work[Refresher].step = "add"
    /\ extensions' = Append(extensions, [jar |-> j, load |-> loads[j]])
    /\ monitor' = None
    /\ work' = [work EXCEPT ![Refresher] = Idle]
    /\ UNCHANGED <<phase, files, loads, resources, standalone, commands, plugins, job>>

-----------------------------------------------------------------------------
(* destroy *)

\* The plugin stopper is taken away and the list copied.
Destroy ==
    /\ phase = "run"
    /\ phase' = "stopping"
    /\ work' = [work EXCEPT ![Stopper] =
                    [Idle EXCEPT !.step = "scan", !.rest = listed]]
    /\ UNCHANGED <<files, manager, plugins, monitor, job>>

DestroyNext ==
    /\ work[Stopper].step = "scan"
    /\ \E e \in work[Stopper].rest :
          work' = [work EXCEPT ![Stopper] =
                      [Idle EXCEPT !.step = "unload", !.ext = e,
                                   !.rest = work[Stopper].rest \ {e}]]
    /\ UNCHANGED <<phase, files, manager, plugins, monitor, job>>

\* The refresher is cancelled last: what it is doing it does to the end.
DestroyEnds ==
    /\ phase = "stopping"
    /\ work[Stopper].step = "scan"
    /\ work[Stopper].rest = {}
    /\ phase' = "down"
    /\ work' = [work EXCEPT ![Stopper] = Idle]
    /\ UNCHANGED <<files, manager, plugins, monitor, job>>

-----------------------------------------------------------------------------
(* Plugins *)

\* The iterations over the resources of an extension do not survive a change.
Disturb(e) ==
    work' = [t \in Threads |->
                IF work[t].step = "controllers" /\ work[t].ext = e
                THEN [work[t] EXCEPT !.stale = TRUE] ELSE work[t]]

\* registerPlugin, in the monitor of the registry until the end.
Register(p) ==
    /\ phase = "run"
    /\ job = None
    /\ entry[p] = "none"
    /\ job' = [step |-> "ask", plugin |-> p, ext |-> None]
    /\ UNCHANGED <<phase, files, manager, plugins, monitor, work>>

\* getExtensionPlugins, through getLoadedExtensions, needs the monitor of the
\* extension manager.
MayAsk == monitor = None

RegisterAsks ==
    /\ job # None /\ job.step = "ask"
    /\ MayAsk
    /\ job' = IF JarOf[job.plugin] \in ListedJars
              THEN [job EXCEPT !.step = "find"] ELSE None
    /\ UNCHANGED <<phase, files, manager, plugins, monitor, work>>

\* The list is searched again, without the monitor.  That the class of the plugin
\* throws, or the list changes under the search, ends the registration.
RegisterFinds ==
    /\ job # None /\ job.step = "find"
    /\ \/ \E e \in listed :
             /\ e.jar = JarOf[job.plugin]
             /\ job' = [job EXCEPT !.step = "load", !.ext = e]
       \/ job' = None
    /\ UNCHANGED <<phase, files, manager, plugins, monitor, work>>

RegisterLoads ==
    /\ job # None /\ job.step = "load"
    /\ resources' = [resources EXCEPT ![job.ext] = @ \cup {job.plugin}]
    /\ Disturb(job.ext)
    /\ job' = [job EXCEPT !.step = "add"]
    /\ UNCHANGED <<phase, files, loads, extensions, standalone, commands, plugins, monitor>>

RegisterAdds ==
    /\ job # None /\ job.step = "add"
    /\ commands' = commands \cup ({job.plugin} \X Kinds)
    /\ entry' = [entry EXCEPT ![job.plugin] = "registered"]
    /\ job' = None
    /\ UNCHANGED <<phase, files, loads, extensions, resources, standalone, status, monitor, work>>

\* unregisterPlugin: of a plugin that is stopped the extension is looked up anew.
Unregister(p) ==
    /\ phase = "run"
    /\ job = None
    /\ entry[p] = "registered"
    /\ status[p] = "stopped"
    /\ \E e \in IF JarOf[p] \in ListedJars
                THEN {x \in listed : x.jar = JarOf[p]} ELSE {None} :
          job' = [step |-> "remove", plugin |-> p, ext |-> e]
    /\ UNCHANGED <<phase, files, manager, plugins, monitor, work>>

\* An extension that does not hold the plugin, because it was loaded after the
\* plugin, returns null: the exception is logged and the entry removed.
UnregisterRemoves ==
    LET p == job.plugin
        e == job.ext
        held == e # None /\ p \in resources[e]
    IN
    /\ job # None /\ job.step = "remove"
    /\ IF held
       THEN /\ resources' = [resources EXCEPT ![e] = @ \ {p}]
            /\ commands' = commands \ ({p} \X Kinds)
            /\ Disturb(e)
       ELSE UNCHANGED <<resources, commands, work>>
    /\ entry' = [entry EXCEPT ![p] = "gone"]
    /\ job' = None
    /\ UNCHANGED <<phase, files, loads, extensions, standalone, status, monitor>>

\* The life cycle, as far as it matters here; no monitor of the registry.
StartPlugin(p) ==
    /\ phase = "run"
    /\ entry[p] = "registered"
    /\ status[p] = "stopped"
    /\ ~(job # None /\ job.plugin = p)
    /\ status' = [status EXCEPT ![p] = "started"]
    /\ UNCHANGED <<phase, files, manager, entry, monitor, work, job>>

StopPlugin(p) ==
    /\ phase = "run"
    /\ status[p] = "started"
    /\ status' = [status EXCEPT ![p] = "stopping"]
    /\ UNCHANGED <<phase, files, manager, entry, monitor, work, job>>

PluginStopped(p) ==
    /\ status[p] = "stopping"
    /\ status' = [status EXCEPT ![p] = "stopped"]
    /\ UNCHANGED <<phase, files, manager, entry, monitor, work, job>>

-----------------------------------------------------------------------------
(* Specification *)

Unloads(t) ==
    \/ UnloadBegins(t) \/ AsksStopper(t) \/ StopsPlugins(t) \/ Waited(t)
    \/ RemovesController(t) \/ UnloadEnds(t)

Refreshes == Tick \/ Scan \/ Unloads(Refresher) \/ Load \/ LoadEnds
Registers == RegisterAsks \/ RegisterFinds \/ RegisterLoads \/ RegisterAdds \/ UnregisterRemoves

Next ==
    \/ \E j \in Jars : BootLoad(j) \/ WriteJar(j)
    \/ BootEnds
    \/ Refreshes
    \/ Destroy \/ DestroyNext \/ Unloads(Stopper) \/ DestroyEnds
    \/ \E p \in Plugins : Register(p) \/ Unregister(p)
    \/ Registers
    \/ \E p \in Plugins : StartPlugin(p) \/ StopPlugin(p) \/ PluginStopped(p)

\* The recurring task is scheduled again after every walk, and a thread that is
\* not kept out of a monitor goes on.
Spec == Init /\ [][Next]_vars /\ WF_vars(Refreshes) /\ WF_vars(Registers)

-----------------------------------------------------------------------------
(* Properties *)

\* A JAR is in the list once, and the standalone controllers that answer requests
\* for it are of one loading: a reload never leaves the controllers of the previous
\* extension, whatever was refused, raised or written meanwhile (unload, load).
OneGeneration ==
    /\ Cardinality(listed) = Len(extensions)
    /\ Cardinality(ListedJars) = Len(extensions)
    /\ \A c, d \in standalone : c[1].jar = d[1].jar => c[1] = d[1]

\* A listed extension has all its standalone controllers, or is being unloaded, or
\* will be unloaded again by the next walk because its JAR is newer: an unload that
\* ended with an exception half-way is not left at that.
ListedIsServed ==
    phase = "run" =>
        \A e \in listed :
            \/ {e} \X (1..Controllers) \subseteq standalone
            \/ e.jar \in newer
            \/ monitor = Refresher /\ work[Refresher].ext = e

\* unload is in the monitor of the extension manager and waits for that of the
\* registry; a registration is in that and waits for the extension manager.
StandOff ==
    /\ monitor # None /\ work[monitor].step = "enter"
    /\ job # None /\ job.step = "ask"

\* A loaded extension whose JAR has been written is loaded again, or leaves the list
\* because the new JAR is refused.  A registration always ends.  The exception to
\* both is the stand-off.
ChangesAreLoaded ==
    \A j \in Jars :
        j \in newer /\ j \in ListedJars
            ~> j \notin newer \/ j \notin ListedJars \/ StandOff \/ phase # "run"

RegistrationEnds == job # None ~> job = None \/ StandOff \/ phase # "run"

\* What the comment of startAutoRefresh promises, "reload the extensions which where
\* changed", needs at least that nobody waits forever: refuted, by a registration
\* during a reload.
NoStandOff == ~StandOff
=============================================================================
