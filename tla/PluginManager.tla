--------------------------- MODULE PluginManager ---------------------------
(***************************************************************************)
(* The life cycle of the plugin instances of                               *)
(* framework.services.plugins.PluginManagerServiceImpl.                    *)
(*                                                                         *)
(* Actors of the model:                                                    *)
(*   - administration threads calling registerPlugin, startPlugin,         *)
(*     stopPlugin, unregisterPlugin, stopAll, stopAllPluginsWithIdentifier;*)
(*   - one PluginLifeCycleControllingActor per registered plugin, which    *)
(*     runs IPluginRunner.start and stop;                                  *)
(*   - the single PluginStatusCallbackActor, which records the outcome in  *)
(*     the registry and maintains the tool menu;                           *)
(*   - the boot thread (init), after every start of the process.           *)
(*                                                                         *)
(* Granularity.  What runs under the monitor of one PluginRegistrationEntry*)
(* is one step, since every accessor of an entry is synchronized on it.    *)
(* The monitor of the registry map is the variable mapLock: a critical     *)
(* section of the map that has no inner step takes it and gives it back in *)
(* its single action; stopAll holds it across the plugins it stops, and    *)
(* registerPluginRunner while it waits for the monitor of the extension    *)
(* manager.  Every access to the database is a step of its own.            *)
(*                                                                         *)
(* Mailboxes keep the order of each sender, the only order Akka promises:  *)
(* callbackBox has one queue per lifecycle actor.                          *)
(***************************************************************************)
EXTENDS Naturals, Sequences, FiniteSets

CONSTANTS
    Plugins,        \* identifiers of plugin configurations (database keys)
    Definitions,    \* plugin definitions, one per IPluginDescriptor
    DefinitionOf,   \* the definition a configuration is an instance of
    AutoRegister,   \* the definitions whose descriptor says autoRegister
    Flows,          \* FlowType: the IN and the OUT interface
    InterfacesOf,   \* the interfaces the descriptor of a definition declares
    WithMenu,       \* the definitions whose runner has a menu descriptor
    Admins,         \* administration threads
    Boot,           \* the thread that runs init
    Nobody,         \* not a plugin and not a thread
    MaxOrphans      \* bound: routers that may be left running per interface

ASSUME ConstantsAssumption ==
    /\ DefinitionOf \in [Plugins -> Definitions]
    /\ AutoRegister \subseteq Definitions
    /\ InterfacesOf \in [Definitions -> SUBSET Flows]
    /\ WithMenu \subseteq Definitions
    /\ Nobody \notin Plugins
    /\ Nobody \notin Admins
    /\ Boot \notin Admins \cup {Nobody}
    /\ MaxOrphans \in Nat

VARIABLES
    \* the database
    config,       \* config[p]: row of PluginConfiguration: none, present, deleted
    autostart,    \* autostart[p]: PluginConfiguration.isAutostart
    available,    \* the definitions with PluginDefinition.isAvailable
    \* the registry
    entries,      \* the keys of pluginByIds
    mapLock,      \* the thread inside synchronized (getPluginByIds()), or Nobody
    status,       \* PluginRegistrationEntry.pluginStatus
    router,       \* in/outEventMessageProcessingActorRef: none, live or dead
    orphans,      \* live routers no reference leads to any more
    \* the actors
    lifeBox,      \* mailbox of the lifecycle actor of each plugin
    callbackBox,  \* mailbox of the status callback actor, by sender
    menuTask,     \* the menu update the callback actor has still to do
    running,      \* the plugins whose runner is started
    menu,         \* the plugins with an item in the tool menu
    \* the threads
    pc, target, todo,   \* of each administration thread
    phase,        \* down, booting, up, or aborted by an exception in init
    bootSet,      \* the configurations init has still to register
    bootStart     \* the configuration init is about to start, or Nobody

database == <<config, autostart, available>>
actors   == <<lifeBox, callbackBox, menuTask, running, menu>>
threads  == <<pc, target, todo>>
boot     == <<phase, bootSet, bootStart>>
vars     == <<database, entries, mapLock, status, router, orphans, actors,
              threads, boot>>

\* START_FAILED, the fifth value of PluginStatus, travels in the callback
\* messages but is never recorded in an entry.
Statuses == {"STOPPED", "STARTING", "STARTED", "STOPPING"}
Labels   == {"idle", "registerRunner", "registering", "registerRollback", "startRunner",
             "startFlag", "stopRunner", "stopFlag", "unregisterRunner", "stopping"}
MenuTasks == [op : {"add", "remove"}, plugin : Plugins]
NoTask    == [op |-> "none", plugin |-> Nobody]

Interfaces(p) == InterfacesOf[DefinitionOf[p]]
HasMenu(p)    == DefinitionOf[p] \in WithMenu
Instances(d)  == {p \in Plugins : DefinitionOf[p] = d}

\* Variant: the sections of the map are not synchronized.
MapIsNeverHeld == TRUE

MapIsFree == mapLock = Nobody

TypeOK ==
    /\ config \in [Plugins -> {"none", "present", "deleted"}]
    /\ autostart \in [Plugins -> BOOLEAN]
    /\ available \subseteq Definitions
    /\ entries \subseteq Plugins
    /\ mapLock \in Admins \cup {Boot, Nobody}
    /\ status \in [Plugins -> Statuses]
    /\ router \in [Plugins -> [Flows -> {"none", "live", "dead"}]]
    /\ orphans \in [Plugins -> [Flows -> Nat]]
    /\ lifeBox \in [Plugins -> Seq({"START", "STOP"})]
    /\ callbackBox \in [Plugins -> Seq({"STARTED", "STOPPED", "START_FAILED"})]
    /\ menuTask \in MenuTasks \cup {NoTask}
    /\ running \subseteq Plugins
    /\ menu \subseteq Plugins
    /\ pc \in [Admins -> Labels]
    /\ target \in [Admins -> Plugins \cup {Nobody}]
    /\ \A t \in Admins : target[t] = Nobody <=> pc[t] \in {"idle", "stopping"}
    /\ todo \in [Admins -> SUBSET Plugins]
    /\ phase \in {"down", "booting", "up", "aborted"}
    /\ bootSet \subseteq Plugins
    /\ bootStart \in Plugins \cup {Nobody}

Init ==
    /\ config = [p \in Plugins |-> "none"]
    /\ autostart = [p \in Plugins |-> FALSE]
    /\ available = Definitions
    /\ entries = {}
    /\ mapLock = Nobody
    /\ status = [p \in Plugins |-> "STOPPED"]
    /\ router = [p \in Plugins |-> [f \in Flows |-> "none"]]
    /\ orphans = [p \in Plugins |-> [f \in Flows |-> 0]]
    /\ lifeBox = [p \in Plugins |-> <<>>]
    /\ callbackBox = [p \in Plugins |-> <<>>]
    /\ menuTask = NoTask
    /\ running = {}
    /\ menu = {}
    /\ pc = [t \in Admins |-> "idle"]
    /\ target = [t \in Admins |-> Nobody]
    /\ todo = [t \in Admins |-> {}]
    /\ phase = "down"
    /\ bootSet = {}
    /\ bootStart = Nobody

-----------------------------------------------------------------------------
(* Threads *)

Begin(t, label, p) ==
    /\ phase = "up"
    /\ pc[t] = "idle"
    /\ pc' = [pc EXCEPT ![t] = label]
    /\ target' = [target EXCEPT ![t] = p]
    /\ UNCHANGED <<todo, boot>>

Continue(t, from, to) ==
    /\ pc[t] = from
    /\ pc' = [pc EXCEPT ![t] = to]
    /\ UNCHANGED <<target, todo, boot>>

Finish(t, from) ==
    /\ pc[t] = from
    /\ pc' = [pc EXCEPT ![t] = "idle"]
    /\ target' = [target EXCEPT ![t] = Nobody]
    /\ UNCHANGED <<todo, boot>>

-----------------------------------------------------------------------------
(* Operations on one registration entry, inside its monitor *)

\* isActorStopped resolves the router by the path "in-router-<id>" (or out-),
\* while a router is created under "in-router-<id>-<uuid>": no actor has that
\* path, and the answer is TRUE whatever runs.
RouterIsStopped(p, f) == TRUE

\* A message told to a stopped lifecycle actor is a dead letter.
TellLifecycle(p, message) ==
    lifeBox' = IF p \in entries
               THEN [lifeBox EXCEPT ![p] = Append(@, message)]
               ELSE lifeBox

\* Variant: a second start is accepted while the first one is pending.
MayStartTwice(p) == status[p] \in {"STOPPED", "STARTING"}

MayStart(p) == status[p] = "STOPPED" /\ \A f \in Flows : RouterIsStopped(p, f)

\* startPluginRunner.  A new router replaces the reference to the previous one,
\* stopped or not.  The request is refused, with an error in the log only, when
\* the plugin is not STOPPED or when isActorStopped gets no answer in time.
StartEntry(p) ==
    \/ /\ MayStart(p)
       /\ status' = [status EXCEPT ![p] = "STARTING"]
       /\ TellLifecycle(p, "START")
       /\ router' = [router EXCEPT ![p] =
              [f \in Flows |-> IF f \in Interfaces(p) THEN "live" ELSE @[f]]]
       /\ orphans' = [orphans EXCEPT ![p] =
              [f \in Flows |-> IF f \in Interfaces(p) /\ router[p][f] = "live"
                               THEN @[f] + 1 ELSE @[f]]]
    \/ UNCHANGED <<status, lifeBox, router, orphans>>

\* Variant: a plugin that is starting may be stopped.
MayStopEarly(p) == status[p] \in {"STARTING", "STARTED", "START_FAILED"}

\* stopPluginRunner: accepted when STARTED or START_FAILED.
MayStop(p) == status[p] \in {"STARTED", "START_FAILED"}

StopEntry(p) ==
    IF MayStop(p)
    THEN /\ status' = [status EXCEPT ![p] = "STOPPING"]
         /\ TellLifecycle(p, "STOP")
         /\ router' = [router EXCEPT ![p] =
                [f \in Flows |-> IF @[f] = "live" THEN "dead" ELSE @[f]]]
    ELSE UNCHANGED <<status, lifeBox, router>>

-----------------------------------------------------------------------------
(* registerPlugin *)

\* The configuration is saved first, with autostart off.
RegisterPlugin(t, p) ==
    /\ Begin(t, "registerRunner", p)
    /\ config[p] = "none"
    /\ DefinitionOf[p] \in available
    /\ config' = [config EXCEPT ![p] = "present"]
    /\ autostart' = [autostart EXCEPT ![p] = FALSE]
    /\ UNCHANGED <<available, entries, mapLock, status, router, orphans, actors>>

\* put() of a new PluginRegistrationEntry, unless the key is there already.
NewEntry(p) ==
    IF p \in entries
    THEN UNCHANGED <<entries, status, router>>
    ELSE /\ entries' = entries \cup {p}
         /\ status' = [status EXCEPT ![p] = "STOPPED"]
         /\ router' = [router EXCEPT ![p] = [f \in Flows |-> "none"]]

IsLoadable(p) == config[p] = "present" /\ DefinitionOf[p] \in available

\* registerPluginRunner enters the section of the map and reads the row.  Without
\* one (deleted meanwhile) initializePlugin throws a null pointer exception,
\* which registerPlugin does not catch.
RegisterEnters(t) ==
    LET p == target[t] IN
    /\ MapIsFree
    /\ pc[t] = "registerRunner"
    /\ IF IsLoadable(p) /\ p \notin entries
       THEN /\ Continue(t, "registerRunner", "registering")
            /\ mapLock' = t
       ELSE /\ Finish(t, "registerRunner")
            /\ UNCHANGED mapLock
    /\ UNCHANGED <<database, entries, status, router, orphans, actors>>

\* initializePlugin waits for the monitor of the extension manager, in
\* getLoadedExtensions, before the instance is put in the map, STOPPED.
RegisterRunner(t) ==
    /\ Finish(t, "registering")
    /\ NewEntry(target[t])
    /\ mapLock' = Nobody
    /\ UNCHANGED <<database, orphans, actors>>

\* initializePlugin fails: no such plugin any more, or the plugin's own code.
RegisterRunnerFails(t) ==
    /\ Continue(t, "registering", "registerRollback")
    /\ mapLock' = Nobody
    /\ UNCHANGED <<database, entries, status, router, orphans, actors>>

\* The rollback of registerPlugin deletes the configuration.
RegisterRollback(t) ==
    /\ Finish(t, "registerRollback")
    /\ config' = [config EXCEPT ![target[t]] = "deleted"]
    /\ UNCHANGED <<autostart, available, entries, mapLock, status, router,
                   orphans, actors>>

-----------------------------------------------------------------------------
(* startPlugin and stopPlugin: registry lookup, entry, autostart flag *)

StartPlugin(t, p) ==
    /\ MapIsFree
    /\ config[p] # "none"
    /\ Begin(t, IF p \in entries THEN "startRunner" ELSE "startFlag", p)
    /\ UNCHANGED <<database, entries, mapLock, status, router, orphans, actors>>

StartRunner(t) ==
    /\ Continue(t, "startRunner", "startFlag")
    /\ StartEntry(target[t])
    /\ UNCHANGED <<database, entries, mapLock, callbackBox, menuTask, running, menu>>

StopPlugin(t, p) ==
    /\ MapIsFree
    /\ config[p] # "none"
    /\ Begin(t, IF p \in entries THEN "stopRunner" ELSE "stopFlag", p)
    /\ UNCHANGED <<database, entries, mapLock, status, router, orphans, actors>>

StopRunner(t) ==
    /\ Continue(t, "stopRunner", "stopFlag")
    /\ StopEntry(target[t])
    /\ UNCHANGED <<database, entries, mapLock, orphans, callbackBox, menuTask,
                   running, menu>>

\* PluginConfiguration.changeAutoStartMode, whatever became of the request.
ChangeAutoStartMode(t, from, mode) ==
    /\ Finish(t, from)
    /\ autostart' = IF config[target[t]] = "present"
                    THEN [autostart EXCEPT ![target[t]] = mode]
                    ELSE autostart
    /\ UNCHANGED <<config, available, entries, mapLock, status, router, orphans,
                   actors>>

-----------------------------------------------------------------------------
(* unregisterPlugin *)

\* The configuration and what hangs off it are deleted before any check.
UnregisterPlugin(t, p) ==
    /\ Begin(t, "unregisterRunner", p)
    /\ config[p] = "present"
    /\ config' = [config EXCEPT ![p] = "deleted"]
    /\ UNCHANGED <<autostart, available, entries, mapLock, status, router,
                   orphans, actors>>

\* Variant: the status is not looked at.
MayUnregisterAny(p) == p \in entries

\* Variant: only a plugin that is up is refused, one that is stopping is not.
MayUnregisterUnlessUp(p) == p \in entries /\ status[p] \notin {"STARTING", "STARTED"}

MayUnregister(p) == p \in entries /\ status[p] = "STOPPED"

\* Under the map lock: the entry goes and its lifecycle actor is stopped, or
\* "Cannot unregister a plugin which is already running" is thrown.
UnregisterRunner(t) ==
    LET p == target[t] IN
    /\ MapIsFree
    /\ Finish(t, "unregisterRunner")
    /\ IF MayUnregister(p)
       THEN /\ entries' = entries \ {p}
            /\ lifeBox' = [lifeBox EXCEPT ![p] = <<>>]
       ELSE UNCHANGED <<entries, lifeBox>>
    /\ UNCHANGED <<database, mapLock, status, router, orphans, callbackBox,
                   menuTask, running, menu>>

-----------------------------------------------------------------------------
(* stopAll (shutdown) and stopAllPluginsWithIdentifier (extension unload) *)

StopAll(t, scope) ==
    /\ MapIsFree
    /\ phase = "up"
    /\ pc[t] = "idle"
    /\ pc' = [pc EXCEPT ![t] = "stopping"]
    /\ todo' = [todo EXCEPT ![t] = entries \cap scope]
    /\ mapLock' = t
    /\ UNCHANGED <<database, entries, status, router, orphans, actors, target, boot>>

StopNext(t, p) ==
    /\ pc[t] = "stopping"
    /\ p \in todo[t]
    /\ todo' = [todo EXCEPT ![t] = @ \ {p}]
    /\ StopEntry(p)
    /\ UNCHANGED <<database, entries, mapLock, orphans, callbackBox, menuTask,
                   running, menu, pc, target, boot>>

StopAllDone(t) ==
    /\ todo[t] = {}
    /\ Finish(t, "stopping")
    /\ mapLock' = Nobody
    /\ UNCHANGED <<database, entries, status, router, orphans, actors>>

-----------------------------------------------------------------------------
(* PluginLifeCycleControllingActor *)

Receive(p, message, answer) ==
    /\ lifeBox[p] # <<>>
    /\ Head(lifeBox[p]) = message
    /\ lifeBox' = [lifeBox EXCEPT ![p] = Tail(@)]
    /\ callbackBox' = [callbackBox EXCEPT ![p] = Append(@, answer)]
    /\ UNCHANGED <<database, entries, mapLock, status, router, orphans, menuTask,
                   menu, threads, boot>>

RunnerStarts(p) ==
    /\ Receive(p, "START", "STARTED")
    /\ running' = running \cup {p}

\* IPluginRunner.start throws.  MaxOrphans bounds how often it may.
RunnerFailsToStart(p) ==
    /\ \A f \in Flows : orphans[p][f] < MaxOrphans
    /\ Receive(p, "START", "START_FAILED")
    /\ running' = running \ {p}

\* Variant: an exception of IPluginRunner.stop also skips the answer.
RunnerStopsSilently(p) ==
    /\ Receive(p, "STOP", "STOPPED") \/
       /\ lifeBox[p] = <<"STOP">>
       /\ lifeBox' = [lifeBox EXCEPT ![p] = <<>>]
       /\ UNCHANGED <<database, entries, mapLock, status, router, orphans,
                      callbackBox, menuTask, menu, threads, boot>>
    /\ running' = running \ {p}

\* Variant: the answer is told before IPluginRunner.stop has run.
RunnerStopsLater(p) ==
    /\ Receive(p, "STOP", "STOPPED")
    /\ UNCHANGED running

\* An exception of IPluginRunner.stop is logged; STOPPED is told either way.
RunnerStops(p) ==
    /\ Receive(p, "STOP", "STOPPED")
    /\ running' = running \ {p}

-----------------------------------------------------------------------------
(* PluginStatusCallbackActor *)

\* Variant: the answer is recorded as it comes.
StatusAsAnswered(answer) == answer

\* A failed start is recorded as STOPPED; the routers are left alone.
StatusAfter(answer) == IF answer = "STARTED" THEN "STARTED" ELSE "STOPPED"

\* Variant: the menu item is left in place after a stop.
TaskOnlyAdds(answer, p) ==
    IF answer = "STARTED" THEN [op |-> "add", plugin |-> p] ELSE NoTask

TaskAfter(answer, p) ==
    IF answer = "START_FAILED" THEN NoTask
    ELSE [op |-> IF answer = "STARTED" THEN "add" ELSE "remove", plugin |-> p]

\* The first lookup of the entry.  When it is gone the actor fails with a null
\* pointer exception and the message is lost.
CallbackStatus(p) ==
    /\ MapIsFree
    /\ menuTask = NoTask
    /\ callbackBox[p] # <<>>
    /\ callbackBox' = [callbackBox EXCEPT ![p] = Tail(@)]
    /\ LET answer == Head(callbackBox[p]) IN
       IF p \in entries
       THEN /\ status' = [status EXCEPT ![p] = StatusAfter(answer)]
            /\ menuTask' = TaskAfter(answer, p)
       ELSE UNCHANGED <<status, menuTask>>
    /\ UNCHANGED <<database, entries, mapLock, router, orphans, lifeBox, running,
                   menu, threads, boot>>

\* addPluginMenuItem and removePluginMenuItem look the entry up again; when it
\* is gone the exception is logged and the menu stays as it is.
CallbackMenu ==
    LET p == menuTask.plugin IN
    /\ MapIsFree
    /\ menuTask # NoTask
    /\ menuTask' = NoTask
    /\ menu' = IF p \notin entries \/ ~HasMenu(p) THEN menu
               ELSE IF menuTask.op = "add" THEN menu \cup {p} ELSE menu \ {p}
    /\ UNCHANGED <<database, entries, mapLock, status, router, orphans, lifeBox,
                   callbackBox, running, threads, boot>>

-----------------------------------------------------------------------------
(* The process stops, or dies, at any moment, and init runs again *)

Present(d) == {p \in Instances(d) : config[p] = "present"}

\* createAutoRegisterPluginConfigurations: one new row per auto-register
\* definition that is loaded and has none.
IsAutoRegistration(new, loaded) ==
    \A d \in Definitions :
        LET mine == new \cap Instances(d) IN
        IF d \in AutoRegister \cap loaded /\ Present(d) = {}
        THEN Cardinality(mine) = 1
        ELSE mine = {}

\* findUnique throws on a second row: init throws a RuntimeException.
InitAborts(loaded) ==
    \E d \in AutoRegister \cap loaded : Cardinality(Present(d)) > 1

VolatileStateIsLost ==
    /\ entries' = {}
    /\ mapLock' = Nobody
    /\ status' = [p \in Plugins |-> "STOPPED"]
    /\ router' = [p \in Plugins |-> [f \in Flows |-> "none"]]
    /\ orphans' = [p \in Plugins |-> [f \in Flows |-> 0]]
    /\ lifeBox' = [p \in Plugins |-> <<>>]
    /\ callbackBox' = [p \in Plugins |-> <<>>]
    /\ menuTask' = NoTask
    /\ running' = {}
    /\ menu' = {}
    /\ pc' = [t \in Admins |-> "idle"]
    /\ target' = [t \in Admins |-> Nobody]
    /\ todo' = [t \in Admins |-> {}]
    /\ bootStart' = Nobody

\* hideNotLoadedPluginDefinitions, the auto-registration, and the list of the
\* available configurations; loaded: the definitions the extensions provide.
Restart(loaded) ==
    /\ VolatileStateIsLost
    /\ available' = available \cap loaded
    /\ IF InitAborts(loaded)
       THEN /\ phase' = "aborted"
            /\ bootSet' = {}
            /\ UNCHANGED <<config, autostart>>
       ELSE \E new \in SUBSET {p \in Plugins : config[p] = "none"} :
            /\ IsAutoRegistration(new, loaded)
            /\ phase' = "booting"
            /\ config' = [p \in Plugins |-> IF p \in new THEN "present" ELSE config[p]]
            /\ autostart' = [p \in Plugins |-> p \in new \/ autostart[p]]
            /\ bootSet' = {p \in Plugins : /\ config'[p] = "present"
                                           /\ DefinitionOf[p] \in available'}

\* registerPluginRunner for the next configuration takes the monitor of the map.
BootEnters ==
    /\ phase = "booting"
    /\ bootStart = Nobody
    /\ bootSet # {}
    /\ MapIsFree
    /\ mapLock' = Boot
    /\ UNCHANGED <<database, entries, status, router, orphans, actors, threads, boot>>

\* It ends, and startPluginRunner follows when the configuration is marked
\* autostart; an exception is logged and the next configuration is taken.
BootRegister(p, succeeds) ==
    /\ mapLock = Boot
    /\ p \in bootSet
    /\ bootSet' = bootSet \ {p}
    /\ mapLock' = Nobody
    /\ IF succeeds THEN NewEntry(p) ELSE UNCHANGED <<entries, status, router>>
    /\ bootStart' = IF succeeds /\ autostart[p] THEN p ELSE Nobody
    /\ UNCHANGED <<database, orphans, actors, threads, phase>>

BootStart ==
    /\ bootStart # Nobody
    /\ StartEntry(bootStart)
    /\ bootStart' = Nobody
    /\ UNCHANGED <<database, entries, mapLock, callbackBox, menuTask, running, menu,
                   threads, phase, bootSet>>

BootDone ==
    /\ phase = "booting"
    /\ bootSet = {}
    /\ bootStart = Nobody
    /\ phase' = "up"
    /\ UNCHANGED <<database, entries, mapLock, status, router, orphans, actors,
                   threads, bootSet, bootStart>>

-----------------------------------------------------------------------------

Scopes == {Plugins} \cup {Instances(d) : d \in Definitions}

Request(t) ==
    \/ \E p \in Plugins : \/ RegisterPlugin(t, p)
                          \/ StartPlugin(t, p)
                          \/ StopPlugin(t, p)
                          \/ UnregisterPlugin(t, p)
    \/ \E scope \in Scopes : StopAll(t, scope)

Proceed(t) ==
    \/ RegisterEnters(t)
    \/ RegisterRunner(t)
    \/ RegisterRunnerFails(t)
    \/ RegisterRollback(t)
    \/ StartRunner(t)
    \/ StopRunner(t)
    \/ ChangeAutoStartMode(t, "startFlag", TRUE)
    \/ ChangeAutoStartMode(t, "stopFlag", FALSE)
    \/ UnregisterRunner(t)
    \/ \E p \in Plugins : StopNext(t, p)
    \/ StopAllDone(t)

Lifecycle(p) == RunnerStarts(p) \/ RunnerFailsToStart(p) \/ RunnerStops(p)

Booting ==
    \/ BootEnters
    \/ \E p \in Plugins, succeeds \in BOOLEAN : BootRegister(p, succeeds)
    \/ BootStart
    \/ BootDone

Next ==
    \/ \E t \in Admins : Request(t) \/ Proceed(t)
    \/ \E p \in Plugins : Lifecycle(p) \/ CallbackStatus(p)
    \/ CallbackMenu
    \/ \E loaded \in SUBSET Definitions : Restart(loaded)
    \/ Booting

Spec == Init /\ [][Next]_vars

(***************************************************************************)
(* Fairness.  A dispatcher thread runs every actor whose mailbox is not    *)
(* empty, and IPluginRunner.start and stop return: WF.  The thread inside  *)
(* stopAll goes on: WF.  The callback actor competes with the other        *)
(* threads for the monitor of the map: SF says that it gets the monitor if *)
(* it is given back again and again.  Nothing is assumed of requests, of   *)
(* the boot, or of the other steps of a thread; in particular nothing says *)
(* that a registration ever gives the monitor back, since it waits for the *)
(* monitor of the extension manager (ExtensionManager, NoStandOff).        *)
(***************************************************************************)
Fairness ==
    /\ \A p \in Plugins : WF_vars(Lifecycle(p)) /\ SF_vars(CallbackStatus(p))
    /\ SF_vars(CallbackMenu)
    /\ \A t \in Admins : WF_vars((\E p \in Plugins : StopNext(t, p)) \/ StopAllDone(t))

FairSpec == Spec /\ Fairness

-----------------------------------------------------------------------------
(* Safety *)

\* A plugin and the registry hold one conversation at a time: a pending status
\* has exactly one message on its way, the request in the mailbox of the
\* lifecycle actor or its answer in the mailbox of the callback actor, and a
\* settled status has none.  A request that overtook another one (two clicks
\* on start, stop during start) would make the registry believe an old answer.
OneConversation ==
    \A p \in Plugins :
        \/ /\ lifeBox[p] = <<>>
           /\ callbackBox[p] = <<>>
           /\ p \in entries => status[p] \in {"STOPPED", "STARTED"}
        \/ /\ p \in entries
           /\ \/ /\ status[p] = "STARTING"
                 /\ \/ lifeBox[p] = <<"START">> /\ callbackBox[p] = <<>>
                    \/ lifeBox[p] = <<>> /\ callbackBox[p] = <<"STARTED">>
                    \/ lifeBox[p] = <<>> /\ callbackBox[p] = <<"START_FAILED">>
              \/ /\ status[p] = "STOPPING"
                 /\ \/ lifeBox[p] = <<"STOP">> /\ callbackBox[p] = <<>>
                    \/ lifeBox[p] = <<>> /\ callbackBox[p] = <<"STOPPED">>

\* No runner works behind the back of the registry: a runner that is started
\* belongs to a registered plugin that is starting, started or stopping.
\* unregisterPlugin and the callback actor read the status at different times.
RunnersAreKnown ==
    \A p \in running : /\ p \in entries
                       /\ status[p] \in {"STARTING", "STARTED", "STOPPING"}

\* What a lifecycle actor answered is still true when the callback actor gets
\* to read it, and what the registry says of a started plugin is true: nothing
\* can stop or start the runner while an answer is on its way.
AnswersAreTrue ==
    \A p \in Plugins :
        /\ callbackBox[p] = <<"STARTED">> \/ (p \in entries /\ status[p] = "STARTED")
               => p \in running
        /\ callbackBox[p] \in {<<"STOPPED">>, <<"START_FAILED">>} => p \notin running

\* The references of a plugin lead to live routers as long as it may be sent
\* events, and to stopped ones as soon as it is stopping, although the status
\* is changed by the callback actor and the routers by the other threads.
RoutersFollowStatus ==
    \A p \in entries : \A f \in Interfaces(p) :
        /\ status[p] \in {"STARTING", "STARTED"} => router[p][f] = "live"
        /\ status[p] = "STOPPING" => router[p][f] = "dead"

\* The tool menu shows the started plugins and no stopped one, except for the
\* moment between the two lookups of the callback actor.
MenuFollowsStatus ==
    \A p \in entries :
        /\ status[p] = "STARTED" /\ HasMenu(p)
               => p \in menu \/ menuTask = [op |-> "add", plugin |-> p]
        /\ p \in menu => \/ status[p] \in {"STARTED", "STOPPING"}
                         \/ menuTask = [op |-> "remove", plugin |-> p]

\* stopAll works on the registry as it is: while it walks over the keys of the
\* map no plugin is added or removed, so that it neither fails with a
\* concurrent modification nor misses a registered plugin.
StopAllSeesRegistry ==
    [][\A t \in Admins : pc[t] = "stopping" /\ pc'[t] = "stopping"
                             => entries' = entries /\ todo[t] \subseteq entries]_vars

\* A plugin leaves the registry, other than by a restart, only when its runner
\* is stopped and no message of it is on its way.
LeavesOnlyWhenIdle ==
    [][phase = "up" /\ phase' = "up" =>
         \A p \in entries \ entries' :
            p \notin running /\ lifeBox[p] = <<>> /\ callbackBox[p] = <<>>]_vars

\* What a client sees of each plugin: the status of its entry, if it has one.
PluginState == [p \in Plugins |-> IF p \in entries THEN status[p] ELSE "ABSENT"]

Lifecycles == INSTANCE PluginLifecycle WITH state <- PluginState

\* A registration is inside the monitor of the map.
Registering == mapLock = Boot \/ \E t \in Admins : pc[t] = "registering"

\* The manager implements the abstract life cycle: a client that looks at the
\* statuses sees no other transition.  A start or a stop that was accepted is
\* answered, unless a registration keeps the monitor of the map for ever.
ImplementsLifecycle ==
    /\ Lifecycles!Safety
    /\ <>[]Registering \/ Lifecycles!Progress
=============================================================================
