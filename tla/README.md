# A formal model of the BizDock application framework

The repository is the framework of the BizDock web application: a Play / Akka /
Ebean program in Java (`app/framework`, about 42 000 lines) with its database
entities (`app/models/framework_models`, 12 000 lines). It gives an application
extensions and plugins that are installed while it runs, events between the
application and its plugins, scheduled jobs and KPIs, accounts, notifications,
an API with signed requests, dashboards and message catalogues. The repository
has no tests. Of the 259 000 lines of JavaScript in 934 files below `public/`, one
file of 1 070 lines belongs to the repository, `framework/javascripts/main.js`;
the rest is third-party (Angular, CodeMirror, Highcharts, editors and their
plug-ins).

This directory holds TLA+ modules that model the parts with state and
concurrency, the TLC configurations that check them on small instances, and
proofs checked by TLAPS.

## 1. Inventory

Sources are relative to `src/app/framework/services`. "Hard" says what a test
would hardly reach.

| Component | State | Operations | Hard | Correct when |
|---|---|---|---|---|
| **Plugin manager, life cycle** `plugins/PluginManagerServiceImpl.java` | registry `pluginByIds` (synchronized map) of entries (status, two router references, lifecycle actor); rows of `PluginConfiguration`, `PluginDefinition` | boot, `registerPlugin`, `startPlugin`, `stopPlugin`, `unregisterPlugin`, `stopAll…`; actors `PluginLifeCycleControllingActor`, `PluginStatusCallbackActor` | requests of several threads against two kinds of actors; database and registry changed in turn; restarts | status, runner, routers and menu of a plugin agree; each accepted request is answered |
| **Plugin manager, events** same file, `postMessage` on | mailboxes of the IN and OUT routers | `postInMessage`, `postOutMessage`, database events, RESYNC recovery | status checked before the reference is read and the message told; stop while events are queued; failed RESYNC | an event is handled, recovered or reported; events reach a started runner |
| **Extension manager** `ext/ExtensionManagerServiceImpl.java` | extensions, web commands, controllers, class loaders | `load`, `unload`, auto-refresh, `destroy`, `loadAndInitPluginInstance` | its monitor and the registry's are taken in both orders; the walk changes the list it walks over; fixed waits; rollback | what is listed is served by one loading; a new JAR is loaded in the end; threads do not block each other |
| **Actor system, dead letters** `actor/` | files of dead letters | write, reprocess at boot | names with the resolution of a second | no dead letter is lost |
| **Scheduler** `system/SysAdminUtilsImpl.java` | rows of running actions | `scheduleOnce`, `scheduleRecurring` | `exclusive` flag, crash between start and end mark, exceptions and errors | a row that says running is true; an exception does not end a schedule |
| **Jobs** `job/` | list of schedulers | boot, trigger | manual and scheduled run together | – |
| **KPI** `kpi/` | table of KPIs, their schedulers, values | init, reload, `reloadKpi`, cancel | reload replaces before it cancels; ticks under way; nothing is locked | each listed KPI has one live scheduler, and no other has |
| **Object loader** `plugins/loader/toolkit/` | loading flag, scheduler | start, stop, load by tick and by event | flag tested and set apart; a start that fails halfway and is tried again; failures | the flag tells whether a load runs, and comes down; a stop ends the schedule |
| **Stored filters** `utils/FilterConfigController.java`, `utils/FilterConfig.java` | rows of `FilterConfiguration`: a default filter and named ones per user and table | create, save, clear, change, edit, delete, page with and without a shared key, refresh | several tabs; several saves per request without a transaction; beans read before and saved after | one default, at most one selected; deleted is final; a stored filter changes by Save only |
| **Table in the browser** `public/framework/javascripts/main.js`, `views/…/table/*.scala.html` | configuration object, fields, ticks, boxes, table | clicks on columns, filters, headers, pages, boxes, row actions | answers in any order or never; the object replaced under the widgets | fields, boxes and table show the configuration and the selection |
| **Database events** `database/` | bounded queue per listener | insert, update, delete | queue discards; before commit | listeners see committed changes in order |
| **Accounts** `account/` | rows, back-end, cache | create, update, delete | three stores changed in turn | cache and back-end agree with rows |
| **API registry** `api/server/` | cache by key, rows | create, rename, reset keys | cache and rows changed in turn | cache equals rows |
| **Messages** `configuration/I18nMessagesPluginImpl.java` | store in memory, rows | add, delete, reload | reload through an empty store | store equals rows |
| **Dashboard** `plugins/DashboardServiceImpl.java` | pages, home flag | create, set home, delete | check then act | at most one home page |
| **Notifications** `notification/` | mailbox of a pool | send | failure resumes | – |
| Others: preferences, storage, sessions, security, router, e-mail, scripts, audit, custom attributes, formatters, charts, models | database rows, files, rendering | – | little or none | see section 7 |

Interactions: the extension manager creates the classes of plugins for the
plugin manager and asks it, through `IPluginStopper`, to stop them; the plugin
manager receives database events and events of the account manager
(`IEventBroadcastingService`), and writes to the top menu bar; jobs, KPIs, the
object loader and the extension manager's refresh are run by the scheduler. The
selector area and the table of a page are two widgets of the browser that send
requests of their own to the stored filters of the user.

## 2. Modules

| Module | Models |
|---|---|
| `PluginLifecycle` | what a client of the plugin manager may rely on: the statuses of each instance and that a start or a stop is answered |
| `PluginManager` | the plugin manager's life cycle part, in full detail |
| `MCPluginManager` | instances of `PluginManager` for TLC |
| `PluginManagerProofs` | theorems about `PluginManager`, for all values of its constants |
| `PluginEvents` | the plugin manager's event part: from `postMessage` through the routers of an interface to the handler of the plugin or the dead letters |
| `PluginEventsProofs` | theorems about `PluginEvents`, for all values of its constants |
| `ExtensionManager` | loading, unloading and refreshing of extensions, their controllers, and the registration and unregistration of plugins as far as both monitors go |
| `ExtensionManagerProofs` | theorems about `ExtensionManager`, for all values of its constants |
| `Scheduler` | recurring and single actions, their ticks and rows; a module that the next two extend |
| `ObjectLoader` | the runner of a loader plugin: life cycle, schedule, loads |
| `ObjectLoaderProofs` | theorems about `ObjectLoader` and `Scheduler`, for all values of their constants |
| `KpiService` | the table of KPIs, its reloads, and the ticks of the KPIs |
| `KpiServiceProofs` | theorems about `KpiService`, for all values of its constants |
| `FilterStore` | the stored filters of a user and the requests of all his tabs |
| `FilterStoreProofs` | theorems about `FilterStore`, for all values of its constants |
| `TableFilter` | a filtered table in one browser tab, and its requests |
| `TableFilterProofs` | theorems about `TableFilter`, for any columns, rows, filters and number of requests |
| `SequenceLemmas` | what removing, appending and putting in order do to a sequence: facts three of the proofs share |
| `MCPluginEvents`, `MCExtensionManager`, `MCObjectLoader`, `MCKpiService`, `MCFilterStore`, `MCTableFilter` | their instances for TLC |

`PluginManager` and `PluginEvents` model the same class from two sides and both
implement `PluginLifecycle`. `PluginManager` has the requests, the database, the
locks and the mailboxes of the life cycle; its theorems allow `PluginEvents` to
reduce all that to one slot per direction and plugin (`OneConversation`,
`AnswersAreTrue`), and to spend its states on events.

### How PluginManager corresponds to the code

* `config`, `autostart`, `available` are the database. Every access is a step of
  its own: a request is interleaved with the others between its database access
  and its registry access.
* `entries`, `status`, `router` are the registry. An accessor of an entry is
  `synchronized`, and `startPluginRunner` and `stopPluginRunner` hold the
  monitor of the entry throughout, so what they do is one step (`StartEntry`,
  `StopEntry`). `mapLock` is the monitor of the map. Sections without an inner
  step are one action guarded by `MapIsFree`; `stopAll` keeps the lock over
  several steps (`StopAll`, `StopNext`, `StopAllDone`), and so does a
  registration (`RegisterEnters`, then `RegisterRunner` or `RegisterRunnerFails`;
  `BootEnters` and `BootRegister` at boot), since it waits in between for the
  monitor of the extension manager. That wait is the subject of
  `ExtensionManager`; here it is a step that nothing says will ever be taken.
  A row of the database is never used again after it was deleted
  (`config = "deleted"`), as identifiers are generated.
* `lifeBox` and `callbackBox` are mailboxes. Akka keeps the order of one sender
  and one receiver only, so the callback actor has one queue per sender.
  `menuTask` is the second half of the callback actor's handler.
* `running` is the truth about `IPluginRunner.start` and `stop`, which the
  registry only hears of.
* `orphans` counts routers nothing refers to any more. `isActorStopped` resolves
  a path no router ever has (`in-router-<id>` for routers named
  `in-router-<id>-<uuid>`), so `RouterIsStopped` is TRUE; the 5 s timeout of the
  same call is the refusal `StartEntry` always allows.
* `Restart` is the end of the process at any moment and the first part of
  `init` after it; `BootRegister`, `BootStart` and `BootDone` are its loop.
  `loaded` is the set of definitions that the installed extensions provide; it
  may differ at each boot.

Left out: the plugin's own code beyond success or failure, configuration blocks,
identification links, logs and wording, and events, which are the next module.

### How PluginEvents corresponds to the code

* A thread inside `postMessage` is a record `post[t]`: the entries its iterator
  has still to visit, and how far it is with the entry it is at. `CheckStatus`,
  `ReadReference` and `Tell` are three steps because the monitor of the entry is
  released after each accessor, and `tell` needs none. A change of the map makes
  the iterators of the other threads stale (`RegistryChanges`); a stale one may
  throw (`IteratorFails`), pass entries over (`IteratorMisses`) or, as nothing
  orders its unsynchronized read of the modification count, go on. A CUSTOM event
  is looked up, not iterated for.
* A router is identified by plugin, interface and the number of the start that
  created it. It is `live`, `stopping` (asked to stop, while its routee may still
  take messages, since `ActorSystem.stop` is asynchronous), and `dead`. `box` is
  the mailbox of its routee, `busy` what the routee is handling.
* Handlers end in one of three ways: they return (`HandleSucceeds`), throw
  `PluginException` (`HandleFails`: RESYNC told to the router, or saved in the
  plugin's log and thrown) or anything else (`HandleCrashes`). The supervisor
  resumes in each case, and its retry settings (`numberOfRetry`) count restarts
  only, so that they play no part.
* `fate` and `steady` are history variables: what became of an event at each
  plugin, and which plugins have been STARTED since a posting began.
* A process restart is not modelled here: mailboxes, references and posting
  threads are in memory and end with it.

Akka's behaviour (mailboxes in order, a stop that overtakes queued messages, dead
letters) is external, modelled from how the class uses it. The routers of both
interfaces are created for OUT (line 674 and its twin), so an event of the IN
interface takes the same path to the same handler; the instance checked has
events of the OUT interface only.

### How ExtensionManager corresponds to the code

* `extensions` is the list the walk of the refresher goes over by position;
  `resources` is the map each extension has of its plugins; `standalone` and
  `commands` are `extensionControllers` and the web commands behind them, kept
  apart by who registers them.
* A file is `newer` when it was written after its extension was loaded. The code
  compares `lastModified` with the loading time, in milliseconds or, on some file
  systems, in seconds: a write within the same unit as the load would not be seen,
  which is left out.
* `addExtension` with controllers of which one is refused: the rollback looks the
  ones before it up in the wrong way, and throws when there is one (`Throws`).
  So the controllers stay (`AddedControllers`) and the boot ends (`BootLoad`).
* `unload` is cut into the steps between which another thread can act, and each
  exception it can end with is a way out (`Raise`).
* `job` is both the monitor of the registry and what its holder does.

### How Scheduler, ObjectLoader and KpiService correspond to the code

* A schedule is an entry of `schedules`, identified by its position, and a tick is
  `Fires`, `MarkAsStarted`, the run, `MarkAsCompleted`. `left` collects the rows
  nobody will complete. Akka runs one tick of a schedule at a time: external.
* `ObjectLoader!pc` follows a thread through `runLoad`: the test of the flag, its
  setting, the entry into the monitor, the load and the `finally` block. Reports
  may throw at each place where the code writes one. `plugin` is what the life
  cycle actor knows of the runner: it is told START only while it is not started
  (`OneConversation` of `PluginManager`), and a start that throws may have
  scheduled the load before (`failed`), which does not keep it from being tried
  again. `raced` is a history variable: two threads have passed the test of the
  flag together, and the last of those that were in with them is not out yet.
* A KPI object is an entry of `KpiService!instances`; `kpis` is the Hashtable. The
  start time of a KPI is checked by a pattern that lets `9h30` pass, and the
  parsing then throws after the first of its two schedules was made (`badTime`).
* A run ends normally, with an exception, which the schedule survives, or with an
  `Error`, which it does not (`Stored`; `erred` records it).
* `cancel()` iterates over the Hashtable, and a change of it in between ends the
  loop (`CancelAll`).

### How FilterStore corresponds to the code

* `Program` is the sequence of database calls of each request, and a call is one
  action, since each is a transaction of its own. A bean is what a request has
  read; `save` does nothing if no property was changed and fails if the row was
  written since (Ebean's version column, external). The version is a timestamp,
  and two writes are assumed not to share one.
* `synchronized` on the table's template is `MayEnter`. It excludes requests of one
  process; a cluster is not modelled.
* `view` is what the selector area of a tab offers; a click replaces it by an icon
  until the answer. An answer with an error leaves the icon.

### How TableFilter corresponds to the code

* `cfg` and `selected` are the fields of the JavaScript object; `bound` says
  whether the links in the header were made for the present object, since they
  hold the object and not the variable.
* A request is a record in `calls`; answers are taken in any order, and `Lost` and
  `RefreshFailed` are the error callbacks, or their absence. `sent` numbers them,
  and `latest`, `drawnBy` and `storedBy` are history variables: the number of the
  refresh sent last, of the one drawn last and of the request that has written the
  default filter last.
* The choice of a stored filter is a request too. The list of filters gives way to an
  icon (`ChangeAsked`), the server copies the filter into the default one
  (`ServeChange`), and the browser installs it only when the answer comes
  (`ChangeAnswered`). If the answer is lost the server has the new filter, the
  widgets have the old one and the icon stays. `Reload` installs the filter without
  a request of its own. What a filter has stored is taken as it was when the list
  was drawn: Save, Create, Delete and the other tabs are in `FilterStore`.
* A configuration stored for an older definition of the table is not `compatible`:
  `persistCurrentInDefault` saves it, fails to read it, saves the initial one over
  it (`Kept`) and returns null. What the page shows then is up to the caller in the
  application, which the comment of the method asks to treat the case: external,
  modelled as a warning in place of the table (`RefreshRefused`), after
  `dynamic_tableview_no_more_compatible`. The action that answers a request for ids
  is external too; with such a configuration, which it can not read either, the request
  is only ever `Lost`.
* Rows are numbered in the order of the table. `Matching`, `Before` and `RowsShown`
  are the server's query, order and page.

## 3. Runs

| Run | Instance | Question |
|---|---|---|
| `manager_interleavings` | 2 plugins of one definition that is auto-register, has both interfaces and a menu; 2 administration threads; restarts; at most 1 orphan router per interface | do registry, actors, runners, routers and menu agree in every interleaving? |
| `manager_refinement` | 2 plugins of 2 definitions (one without menu and with one interface), 1 thread, fairness | is `PluginLifecycle` implemented, with its progress, unless a registration holds the registry for ever? |
| `events` | 1 plugin, 2 starts; an object and a CUSTOM event to OUT; 2 posting threads, fairness | does a started plugin hear of each event, is each event accounted for, and does it come to an end, through stops, new starts, failures and recoveries? |
| `ext_refresh` | 2 JARs with 2 controllers each, written once each; 1 plugin; shutdown at any moment; fairness | is what is listed what is served, and is a new JAR loaded in the end? |
| `filters` | 2 tabs, 3 configurations of which one is outdated, 3 requests, 4 rows | are the rows right, however the database calls of the requests interleave? |
| `table` | 2 columns, 1 of them a filter, 2 values, 2 rows on 2 pages, 2 stored filters of which one is outdated, any of them or none selected at first, 3 requests | do fields, boxes and table show the configuration, and does the server store it, however requests and answers overtake each other or get lost? |
| `loader` | 1 routee, 2 starts that schedule, 1 restart of the process, failures of loads and marks; fairness | does the flag tell whether a load is under way, and does it come down? |
| `kpi` | 1 KPI, the boot and another thread, 2 reloads, 4 schedules; fairness | does nothing but the listed KPI have a run to come that stores, and is it stored again and again? |
| `ext_standoff`, `kpi_reload`, `filters_changed`, `loader_exclusive` | the instances above (`kpi_reload` with the boot thread only) | four statements of comments that the code does not meet, section 6 |

Properties of `manager_interleavings`:

* `OneConversation`: registry and lifecycle actor never have two messages for
  one plugin under way, and the status tells which one is.
* `RunnersAreKnown`, `AnswersAreTrue`: no runner is started behind the back of
  the registry, and an answer is not overtaken by events before it is recorded.
* `RoutersFollowStatus`, `MenuFollowsStatus`: what is derived from the status,
  by other threads and at other moments, agrees with it.
* `StopAllSeesRegistry`: the walk over the map in `stopAll` is not disturbed.
* `LeavesOnlyWhenIdle`: a plugin leaves the registry only when nothing of it is
  running or on its way.

Properties of `events`:

* `EveryEventAccountedFor`: as long as nothing has become of an event it is
  exactly one message of exactly one router, itself or the RESYNC in its place.
* `StartedPluginsHear`: `postMessage` reads the status of a plugin, then its
  router, then tells it, and other threads start and stop plugins in between. A
  plugin that was started before and is not stopped meanwhile is told, and by way
  of a router that lives; the mutant, a start that keeps the routers of the one
  before, breaks it. Only a registration during the walk may cut it short.
* `ImplementsLifecycle`: the reduced life cycle is a special case of
  `PluginLifecycle`.
* `EveryEventSettles`: a failing event is replaced by a RESYNC at most once, so
  that a plugin that always fails does not keep the router busy for ever.

Properties of `ext_refresh`:

* `OneGeneration`: the controllers that answer requests for a JAR are all of one
  loading of it, whatever was refused or interrupted.
* `ListedIsServed`: an extension in the list has its controllers, or is going to
  be unloaded again.
* `ChangesAreLoaded`: the refresher's walk ends at each change it makes, and at
  exceptions of `unload`; what it has skipped a later walk finds. The exception
  is the stand-off of the two monitors.
* `RegistrationEnds`: a registration is not kept waiting but by the stand-off.

Properties of `filters`:

* `OneDefault`: pages create the default filter, `Clear` deletes it; with two of
  them each later page would fail in `findUnique`. It rests on the monitor of
  the table's template, as the mutant shows.
* `OneSelectedUnlessOverlap`: at most one filter is selected, unless two requests
  that select one have run at the same time. No failure halfway, and no stale
  tab, does it without that.
* `DeletedIsFinal`: rests on the version column alone.
* `StoredChangesBySave`: what the table does to its default filter never reaches a
  stored one.

Properties of `table`:

* `FieldsFollowConfig`: five widgets update fields and ticks in three ways.
* `TableShowsConfig`: what an older answer draws, or an older request writes, is
  right again with the refresh sent last. Nothing is excluded: refreshes may
  overtake each other in both directions, changes may be lost after the server has
  done them, and a configuration may be refused. The property says which of the
  two sides may be wrong when: the table until the last refresh is drawn, the
  default filter until the server has processed it as the last of the requests
  that write it. In particular, when an older refresh reaches the server after a
  newer one, the server keeps the older configuration until the next refresh.
* `BoxesTellSelection`: once all requests are answered, unless boxes were used while
  ids or a stored filter were on their way (`raced`) or an older answer was drawn
  last. These conditions say what the user must not do: the code does not keep boxes
  and selection together in these cases.

Properties of `loader` and `kpi`:

* `FlagTellsTheLoad`: the flag is up exactly while the one thread that has raised it
  is inside, and a load that was refused does not lower it (the mutant does).
  Two threads may read the flag before either sets it, as the code does not
  prevent it; the property then says that the disorder ends with the last of them.
  `FlagIsLowered`: a load that fails lowers the flag.
* `StoppedIsUnscheduled`, `RunningRowsAreTicks`: see the proofs.
* `ScheduledIsListed`: as long as `reload` is not used and the reloads of a KPI do
  not overlap, what `reloadKpi` replaced has no run to come that would store. The
  initial run of a replaced object may still come due, but its cancel has made it
  void. One case is different, and stated in the property: an object whose
  recurring schedule was refused after its initial one was made (`badTime`) is
  never listed, nobody can cancel it, and its initial run stores, beside whatever
  is listed by then.
* `CancelledStoresNothing`: also not the initial run, which nothing cancels.
* `ServedIsStored`: a run that fails does not end the schedule. One that ends with an
  `Error` does: such a KPI is still listed, but not `Served`.

**Bounds.** Two threads are what a race needs, since each property is about one
plugin and the pair of a request and the request that races with it; the
second plugin is there for `stopAll`, the shared callback actor and the
auto-registration. `MaxOrphans` bounds the number of failed starts between two
stops: one suffices to make a live router that no start accounts for. Mailboxes
need no bound, which `OneConversation` explains. The two threads and the two
instances of one definition are interchangeable (`Symmetry`), and so are the two
tabs of `filters` (`TabSymmetry`); the runs with a liveness property use no
symmetry.

For events, one plugin suffices, since no property relates two; two starts
(`MaxStarts`) give an old and a new router at a time; two events give a queue, and
two threads post them at the same time.
For extensions, two JARs make the walk end before its last extension, and one
write of each suffices for a reload that races with the plugin's registration; two
controllers make a difference between the first and the second being refused.
For filters, two requests race and the third finds what they left; for the
table, two requests cross and the third finds what they drew (a change takes two of
the three, itself and the refresh after it), and the second page holds what the
filter keeps. For loads and KPIs, the bounds are on the schedules
ever made: two starts that schedule (one leaks), or two objects of a KPI with two
schedules each.

Starts, events, writes, requests and schedules are numbered and each is used once,
so that these models stop when they are used up: their runs say
`CHECK_DEADLOCK FALSE`. The runs of `PluginManager` check that it never stops.

**Fairness** (`PluginManager!Fairness`). Weak fairness of each lifecycle actor: a dispatcher
thread runs an actor whose mailbox is not empty, and `IPluginRunner.start` and
`stop` are assumed to return. Weak fairness of a thread that is inside
`stopAll`. Strong fairness of the callback actor, which competes for the
monitor of the map with other threads, and is assumed to get it if it is given back
again and again; a JVM monitor gives no formal guarantee of that, it is the
assumption without which nothing could be said. Nothing is assumed of a
registration inside the monitor: it waits for the monitor of the extension
manager, which `NoStandOff` shows may never be given back. So the progress that
`ImplementsLifecycle` promises has this exception in its statement: either every
accepted start or stop is answered, or from some moment on a registration is
inside the monitor for ever (`<>[]Registering`). Requests, the boot and all other
threads need not proceed.

**Fairness** (`PluginEvents!Fairness`). Weak fairness of each routee that has a
message, of the end of each handler (the plugin's method returns or throws), of
each router that was asked to stop, and of a thread inside `postMessage`. None
of the life cycle: a plugin may stay started, or STARTING, for ever.

**Fairness of the others.** `ExtensionManager`: weak fairness of the refresher
as a whole (the task is scheduled again after each walk, and in the extension
manager's monitor a thread goes on) and of a registration under way.
`ObjectLoader` and `KpiService`: weak fairness of the steps of a load and of each
tick, since the Akka scheduler fires what is due and the plugin's load, or the
query of the KPI, is assumed to return. Neither the user nor the administrator
ever has to act. `FilterStore` and `TableFilter` have safety properties only:
nothing in them retries, and a lost request stays lost.

## 4. Proofs

Every invariant and every action property of the runs that pass, and the safety
part of the refinement on both of its sides, is stated by a theorem. Each proof has
the same shape: an inductive invariant that TLC has checked on the instance of the
run, a lemma for each operation on the state, a step for each action, and one
temporal step at the end.

`PluginManagerProofs` proves, for any sets of plugins, definitions, interfaces
and threads and from `ConstantsAssumption` only:

* `TypeCorrect`: `Spec => []TypeOK`.
* `ConversationCorrect`: the invariant `Conversation`, the conjunction of
  `OneConversation`, `RunnersAreKnown`, `AnswersAreTrue` and
  `RoutersFollowStatus`. None of the four is inductive alone: that an
  unregistration leaves no runner behind needs the mailboxes to be empty when
  the status is STOPPED, which needs every answer to be true, which needs to
  know which runner runs while a message is under way. The proof goes action by
  action, through one lemma for each helper on an entry (`StartEntry…`,
  `StopEntry…`, `NewEntry…`). The four parts follow as theorems of their own.
* `StopAllSeesRegistryCorrect`, from the invariant that a thread inside
  `stopAll` owns the monitor and that its list is within the registry.
* `LeavesOnlyWhenIdleCorrect`, from `Conversation`.
* `MenuFollowsStatusCorrect`, from `MenuMatches`: the update the callback actor
  has still to do fits the status the plugin has by then, and a plugin that may
  yet be registered has neither an item nor an update pending. The second part
  needs `RowsOutliveEntries`: a row that is being unregistered is gone for good,
  and the boot runs alone.
* `LifecycleRefined`: `Spec` implements the safety part of `PluginLifecycle`
  under the mapping `PluginState`; each action is a step or a stutter of it.

`PluginEventsProofs` proves, for any number of plugins, events, posting threads and
starts and from `EventsAssumption` only:

* `TypeCorrect`: `Spec => []TypeOK`.
* `NothingLostOrDoubled`: `EveryEventAccountedFor`. It is inductive with
  `PostsInv`: an event belongs to one posting thread, and nothing has become of it
  yet at the plugins this thread has still to visit. So a `tell` never doubles a
  message. The messages of a router form one sequence, what its routee handles
  followed by its mailbox (`Pipeline`), and each action leaves the pipelines alone,
  or adds a message to the end of one (`Arrives`), takes one out and records its
  fate (`Leaves`), or puts a RESYNC in its place (`Replaced`).
* `SteadyPluginsHear`: `StartedPluginsHear`, by an invariant of its own (`HInv`) on
  top of the one above: the routers that a plugin STARTING or STARTED refers to are
  live (`LiveInv`), and to a plugin that has been started since a posting began the
  event is told, is about to be, or is still to be considered by the walk
  (`HeardInv`). That it has not become a dead letter needs the messages of the event
  to be in live routers.
* `LifecycleRefined`: `Spec` implements the safety part of `PluginLifecycle`. It
  needs `CycleInv`: one request or answer is on its way while the plugin is
  STARTING or STOPPING, and it is the one the status tells. So the reduced life cycle
  the events run against is a special case of the one `PluginManager` implements.

`ExtensionManagerProofs` proves, for any number of JARs, plugins, controllers and
writes and from the assumptions of `ExtensionManager` only:

* `TypeCorrect`: `Spec => []TypeOK`.
* `OneLoading`: `OneGeneration`. `ListInv` says that an extension that is listed is
  alone with its JAR, in the list and in the table of controllers. That loading a
  JAR again keeps it so needs `RefresherInv`: when the refresher is about to load,
  nothing is left in the table of what it, or `destroy`, has unloaded. And it
  needs `ThreadInv`: the extension an unload works on has lost its controllers first.
* `ServedUnlessReloading`: `ListedIsServed`, by `PhaseInv`. An extension whose unload
  threw half-way is still newer than its loading (`FilesInv`), so the next walk
  takes it up again.

`ObjectLoaderProofs` proves, for any number of routees, schedules, starts and
restarts of the process and from the assumptions of `Scheduler` and
`ObjectLoader` only:

* `LoaderTypeCorrect`: `Spec => []TypeOK`. It says in particular that a thread
  is inside `runLoad` only while its tick is running.
* `FlagTellsTheLoadCorrect`: `FlagTellsTheLoad`. It is inductive as it stands: as long
  as two threads have not raced through the test, the one inside is the only one
  to raise and lower the flag (`RunLoadFlag`); and when the last of those that
  have raced lowers it, nobody is left inside.
* `StoppedIsUnscheduledCorrect`: a stopped plugin has no schedule armed but the
  leaked ones. Inductive with `ArmedIsCurrent`: the armed schedules are the one
  the runner refers to and those it lost.
* `RunningRowsAreTicksCorrect`: inductive with `RowsAreRecurring`, since a single
  action neither makes nor completes a row.

The inductive invariant is the conjunction `IInv`. `MovesInv` states once what
the steps of a load have in common (one thread moves); the other actions have a
step of the proof each.

`KpiServiceProofs` proves, for any KPIs, number of threads, reloads and schedules and
from the assumptions of `Scheduler` and `KpiService` only:

* `TypeCorrect`: `Spec => []TypeOK`.
* `OnlyListedRuns`: `ScheduledIsListed`. Every schedule has one owner, and an object
  that is cancelled has its schedule cancelled (`ObjectsInv`). For a KPI whose
  reloads have not overlapped, one thread at most works on it, it is out of the
  table while it is due to be loaded (`CleanCalls`), and the schedule that is armed
  is the one of the listed object or of the object about to be put in the table
  (`CleanSchedules`). The property speaks of a KPI nobody works on; the invariant of
  every step between. That the initial run of an object which has left the table is
  void needs `CleanObjects`, kept by every step (`LeftInvariant`): an object with a
  recurring schedule is listed, about to be, or cancelled, and it is cancelled
  before it leaves the table.
* `LateStoresNothing`: `CancelledStoresNothing`. What fires late is an initial run of
  a cancelled object, and it is not among the runs that store (`LateInv`).

`FilterStoreProofs` proves, for any number of tabs, configurations, rows and
requests and from the assumptions of `FilterStore` only (there is room for the
three rows of `Init`; the initial configuration is not outdated):

* `TypeCorrect`: `Spec => []TypeOK`, of rows, beans, requests and tabs.
* `OneDefaultAtMost`: one default filter at most is live. A request about to insert
  it has seen that there is none (`InsertIsDue`), and while it holds the monitor
  (`Exclusion`) nobody else can insert one. `Clear` is not synchronized, but it only
  deletes.
* `DeletedRowsAreFinal`: no deleted filter is written again. Inductive with
  `BeanInv`: a fresh bean is what its row is, and the request which holds a fresh
  bean of a deleted row has only to answer, or is a page which shows the bean and
  saves another one.
* `SavesChangeStored`: the configuration of a stored filter changes in a `Save` of
  this filter only. Every other save writes a bean of the slot `default`, or leaves
  the configuration as it was read; a save that is not refused finds it unchanged.

* `OneSelected`: `OneSelectedUnlessOverlap`. While requests that select a filter
  have not overlapped (`SelectionInv`), there is one of them at most, the bean it
  has read is the only filter that may be selected, and none is from the
  moment it has deselected this one until it selects its own (`Prepared`).
  `SelectionKept` states once that all other requests, which may delete, create
  and rewrite rows meanwhile, select none.

`Filled` is the part of the invariant which tells the calls apart: the beans the
earlier calls of a request have read and the next ones use without a test for
null. `MayWrite` states once what each of the writing calls sees to, `WritesInv`
that it is enough, and every call has a lemma of its own.

`TableFilterProofs` proves, for any columns, rows, stored filters and number of
requests and from the assumptions of `TableFilter` only:

* `TypeCorrect`: `Spec => []TypeOK`.
* `WidgetsFollow`: `FieldsFollowConfig`.
* `TableShows`: `TableShowsConfig`, for any order of service and answers. Inductive with
  `NumbersInv` (requests are told apart by their numbers) and `LatestInv` (a refresh
  under way that is the one sent last carries the current configuration): every
  step that changes the configuration sends a newer one.
* `BoxesFollow`: `BoxesTellSelection`, if no stored selection names a row twice.
  The hypothesis is about `StoredConfig`, and the instance checked meets it.
  Without it a click on the box of such a row removes one of the two entries, and
  the row stays selected with its box unchecked. Inductive with `IdsInv` (while the
  ids of all rows are fetched every box is checked and nothing is selected),
  `SelectedHasBox` and `BoxIsSelected`, which are the two halves of the property
  and hold at different moments.

The table's order is written in the model (`InOrder`), and the lemmas on ranks say
what it does: the operators of the library that sort a set and select from a
sequence are recursive, and nothing can be proved of them.

Only model-checked is liveness, which is out of the prover's reach (fairness and
ENABLED): `EveryEventSettles`, `ChangesAreLoaded`, `RegistrationEnds`,
`FlagIsLowered`, `ServedIsStored`, and the progress of `PluginLifecycle` in
`manager_refinement`.

## 5. Plan

Done: the plugin manager, the extension manager, the scheduler with the object
loader and the KPIs, and the filtered tables on both sides.

Left, in this order:

1. `DeadLetters`: the files the dead letters are written to and read from at boot,
   after `PluginEvents`; `DatabaseEvents` as its source of events.
2. `Accounts`, `ApiRegistry`, `Messages`, `Dashboard`: caches and stores that are to
   agree with rows; the version column and the monitor of `FilterStore` are the
   pattern.
3. Theorems of these modules, and those parts of the five liveness properties that are
   safety: that each step of a walk, of a registration or of a load makes its
   measure smaller.

The project keeps to a dozen runs. What a reader sees in a few lines of the source
without a model is in section 6 and has no run.

## 6. What the documentation says and the code does not do

With a run:

1. *Scans the extensions to detect any change (and thus reload the extensions which
   where changed)* (`startAutoRefresh`). `unload` holds the monitor of the extension
   manager and waits for the one of the registry, `registerPluginRunner` the other
   way round; both wait for ever, and nothing is reloaded or registered any more
   (`ext_standoff`, `NoStandOff`).
2. *Reload the KPIs* (`IKpiService.reload`). The new KPIs are put in the table,
   scheduled, and then cancelled; the old ones go on unseen (`kpi_reload`,
   `ReloadedIsServed`).
3. *Set the isSelected flag to true for the new selected filter*
   (`filterConfigurationChange`). If another tab has selected this filter already,
   the request deselects it through one bean, and the save of the other, in which
   nothing has changed, does nothing (`filters_changed`, `ChangedIsSelected`).
4. *If yes, then the action is not run* (`ISysAdminUtils`, on an exclusive action
   that runs already). The flag is only logged. In the trace a start of a loader
   fails after it has scheduled the load (the report it writes next throws), the
   plugin counts as stopped, and it is started again: the ticks of the two
   schedules, of one name, run at the same time (`loader_exclusive`,
   `ExclusiveRunsAlone`). A stop during a load and a new start do the same.

Seen while modelling, without a run:

* Plugin manager. `startPluginRunner` *requires all the associated actors to be
  fully stopped*, but `isActorStopped` looks for a path no router has: after a
  failed start the next one creates a second pair of routers. *START_FAILED: it is
  possible to attempt to stop it*: the status is recorded as STOPPED and a stop
  refused. `unregisterPlugin` *requires that the plugin is STOPPED*, and deletes the
  configuration before it looks. An unregistration between the two lookups of the
  callback actor leaves the menu item. `registerPlugin` accepts a second
  configuration of an auto-register definition, called *necessarily
  mono-instance*, and the next boot fails on it (`InitAborts`).
* Events. `stopPluginRunner` announces the routers first and STOP last; the order
  is the opposite, so that a stopped runner is given events. A registration during
  a broadcast ends it before all compatible plugins are notified. Status and
  reference are read apart, so that an event may reach the routers of a plugin that
  is STARTING. Both routers are created for OUT, and the handler of the IN
  interface is never called.
* Extensions. *All the plugins associated with this extension must be stopped and
  un-registered before removing the extension* (`unload`), but the refresher
  unloads under registered plugins: a plugin that was registered before a reload is
  unregistered with a null pointer exception (line 538) that leaves its widget
  controllers. *Remove all the loaded standaloneControllers and their web command*:
  the rollback of a refused controller ends with a null pointer exception
  (line 686) before it removes any. A changed JAR that is refused leaves the list,
  and the refresher never looks at it again. The wait for the plugins to stop is
  fixed.
* KPIs and loads. A start time `9h30` passes the check and fails later, with the
  first schedule already made, whose run nothing can cancel any more. *Only one load attempt could be received at a time*
  (`LoadableObjectPluginRunner`): two may pass the flag, and the second waits.
* Tables. A choice of a stored filter whose answer is lost has changed the
  default filter, and leaves an icon in place of the list of filters. Unchecking
  the box of the header *resets the selectedRows table*, but an
  answer still on its way then fills it. A row may be in `selectedRows` twice. A
  click on a header between the choice of a stored filter and the answer edits the
  object that was replaced. `Clear` on a page with a shared key applies the shared
  filter again.

## 7. Not modelled, and why

* Third-party JavaScript, all of `public/` but `main.js`: code of other projects.
* Components that only read and write rows or files one at a time (preferences,
  custom attributes, storage, plugin context), delegate to a library (sessions,
  security, e-mail, scripts, audit, API documentation) or render (formatters,
  charts, the cells of tables) have no protocol of their own.
* Accounts, API registry, messages, dashboard, database events, notifications and
  dead letters have one each; section 5 says in which order they would come.
  `PROJECT.json` lists each with its reason.
* Of the modelled components: the plugin's own code beyond success or failure, the
  values of KPIs, the objects a load reads, i18n keys of an extension, names and
  sharing messages of filters, link row actions and the Excel export of tables.
