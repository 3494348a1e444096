---------------------------- MODULE PluginEvents ----------------------------
(***************************************************************************)
(* The way of an event from postMessage to the plugins, in                 *)
(* framework.services.plugins.PluginManagerServiceImpl.                    *)
(*                                                                         *)
(* Posting threads read the status of an entry, then its router reference, *)
(* then tell the message: three steps, each in the monitor of the entry at *)
(* most.  Each accepted start creates a router per interface, a pool with  *)
(* one mailbox.  Stopping a router is asynchronous: it may give out more   *)
(* messages until its routees have terminated; then what is left of its    *)
(* mailbox goes to the dead letters, as does what is told to it later.     *)
(*                                                                         *)
(* The life cycle of a plugin is here what PluginManager shows it to be: a *)
(* single request or answer is on its way for each plugin, so that a       *)
(* mailbox is one slot.  The module covers one life of the process; the    *)
(* mailboxes are in memory only and do not outlive it.                     *)
(***************************************************************************)
EXTENDS Naturals, Sequences, FiniteSets, SequencesExt

CONSTANTS
    Plugins,        \* plugin configurations
    Events,         \* the events that are posted, each once
    KindOf,         \* custom, resync, or object: the four other MessageTypes
    FlowOf,         \* the interface an event is posted to
    AudienceOf,     \* the plugin of a custom event, or the compatible plugins
    In, Out,        \* FlowType
    InterfacesOf,   \* the interfaces the descriptor of a plugin declares
    Posters,        \* threads that post events
    MaxStarts,      \* bound: how often one plugin is started
    None            \* no plugin, no router, nothing being posted

Flows   == {In, Out}
Kinds   == {"object", "custom", "resync"}
Routers == [plugin : Plugins, flow : Flows, start : 1..MaxStarts]
Messages == [event : Events, kind : Kinds]

ASSUME EventsAssumption ==
    /\ KindOf \in [Events -> Kinds]
    /\ FlowOf \in [Events -> Flows]
    /\ AudienceOf \in [Events -> SUBSET Plugins]
    /\ In # Out
    /\ InterfacesOf \in [Plugins -> SUBSET Flows]
    /\ MaxStarts \in Nat
    /\ None \notin Routers \cup Plugins

VARIABLES
    registration,   \* of each plugin: none, registered, gone
    status,         \* PluginRegistrationEntry.pluginStatus
    ref,            \* in/outEventMessageProcessingActorRef
    starts,         \* how often the plugin was started
    request,        \* the message to the lifecycle actor, or none
    answer,         \* the message to the callback actor, or none
    stage,          \* of each router: none, live, stopping, dead
    box,            \* the mailbox of each router
    busy,           \* the messages its routees are handling, oldest first
    post,           \* what each posting thread is doing
    posted,         \* the events that have been posted
    fate,           \* history: what became of an event at each plugin
    steady          \* history: the plugins STARTED since each posting began

cycle   == <<registration, status, ref, starts, request, answer>>
routing == <<stage, box, busy>>
vars    == <<cycle, routing, post, posted, fate, steady>>

entries == {p \in Plugins : registration[p] = "registered"}

\* told: on its way; handled; failed: dropped with an error in the log; dead.
Fates == {"none", "told", "handled", "failed", "dead"}

\* A thread in postMessage: its event, the entries it has still to visit, whether
\* the map has changed since the iterator was made, and the entry it is at.
Posts == [event : Events, todo : SUBSET Plugins, stale : BOOLEAN,
          step : {"walk", "started", "read"},
          plugin : Plugins \cup {None}, router : Routers \cup {None}]

TypeOK ==
    /\ registration \in [Plugins -> {"none", "registered", "gone"}]
    /\ status \in [Plugins -> {"STOPPED", "STARTING", "STARTED", "STOPPING"}]
    /\ ref \in [Plugins -> [Flows -> Routers \cup {None}]]
    /\ starts \in [Plugins -> 0..MaxStarts]
    /\ request \in [Plugins -> {"none", "START", "STOP"}]
    /\ answer \in [Plugins -> {"none", "STARTED", "STOPPED", "START_FAILED"}]
    /\ stage \in [Routers -> {"none", "live", "stopping", "dead"}]
    /\ box \in [Routers -> Seq(Messages)]
    /\ busy \in [Routers -> Seq(Messages)]
    /\ post \in [Posters -> Posts \cup {None}]
    /\ posted \subseteq Events
    /\ fate \in [Events -> [Plugins -> Fates]]
    /\ steady \in [Posters -> SUBSET Plugins]

Init ==
    /\ registration = [p \in Plugins |-> "none"]
    /\ status = [p \in Plugins |-> "STOPPED"]
    /\ ref = [p \in Plugins |-> [f \in Flows |-> None]]
    /\ starts = [p \in Plugins |-> 0]
    /\ request = [p \in Plugins |-> "none"]
    /\ answer = [p \in Plugins |-> "none"]
    /\ stage = [r \in Routers |-> "none"]
    /\ box = [r \in Routers |-> <<>>]
    /\ busy = [r \in Routers |-> <<>>]
    /\ post = [t \in Posters |-> None]
    /\ posted = {}
    /\ fate = [e \in Events |-> [p \in Plugins |-> "none"]]
    /\ steady = [t \in Posters |-> {}]

-----------------------------------------------------------------------------
(* Life cycle *)

\* A put or a remove in pluginByIds makes the iterators of the threads that walk
\* over it stale.  A custom event is not walked: it is looked up.
RegistryChanges ==
    post' = [t \in Posters |->
                IF post[t] # None /\ KindOf[post[t].event] # "custom"
                THEN [post[t] EXCEPT !.stale = TRUE]
                ELSE post[t]]

Register(p) ==
    /\ registration[p] = "none"
    /\ registration' = [registration EXCEPT ![p] = "registered"]
    /\ RegistryChanges
    /\ UNCHANGED <<status, ref, starts, request, answer, routing, posted, fate, steady>>

\* The row of the configuration is deleted, and its identifier not used again.
Unregister(p) ==
    /\ p \in entries
    /\ status[p] = "STOPPED"
    /\ registration' = [registration EXCEPT ![p] = "gone"]
    /\ RegistryChanges
    /\ UNCHANGED <<status, ref, starts, request, answer, routing, posted, fate, steady>>

Router(p, f, s) == [plugin |-> p, flow |-> f, start |-> s]

\* Variant: a start keeps the routers the entry refers to already.
StartKeepsRouters(p) ==
    /\ p \in entries
    /\ status[p] = "STOPPED"
    /\ starts[p] < MaxStarts
    /\ starts' = [starts EXCEPT ![p] = @ + 1]
    /\ status' = [status EXCEPT ![p] = "STARTING"]
    /\ request' = [request EXCEPT ![p] = "START"]
    /\ ref' = [ref EXCEPT ![p] = [f \in Flows |->
                  IF f \in InterfacesOf[p] /\ ref[p][f] = None
                  THEN Router(p, f, starts'[p]) ELSE ref[p][f]]]
    /\ stage' = [r \in Routers |->
                  IF (\E f \in Flows : ref'[p][f] = r) /\ stage[r] = "none"
                  THEN "live" ELSE stage[r]]
    /\ UNCHANGED <<registration, answer, box, busy, post, posted, fate, steady>>

\* startPluginRunner: new routers replace the references to the previous ones.
Start(p) ==
    /\ p \in entries
    /\ status[p] = "STOPPED"
    /\ starts[p] < MaxStarts
    /\ starts' = [starts EXCEPT ![p] = @ + 1]
    /\ status' = [status EXCEPT ![p] = "STARTING"]
    /\ request' = [request EXCEPT ![p] = "START"]
    /\ ref' = [ref EXCEPT ![p] = [f \in Flows |->
                  IF f \in InterfacesOf[p] THEN Router(p, f, starts'[p]) ELSE None]]
    /\ stage' = [r \in Routers |->
                  IF r.plugin = p /\ r.start = starts'[p] /\ r.flow \in InterfacesOf[p]
                  THEN "live" ELSE stage[r]]
    /\ UNCHANGED <<registration, answer, box, busy, post, posted, fate, steady>>

\* Variant: a start that is under way may be stopped.
MayStopEarly(p) == status[p] \in {"STARTING", "STARTED"}

MayStop(p) == status[p] = "STARTED"

\* stopPluginRunner: STOP is told, then both routers are asked to stop.  All of it
\* is in the monitor of the entry, and the actors are asynchronous.
Stop(p) ==
    /\ p \in entries
    /\ MayStop(p)
    /\ status' = [status EXCEPT ![p] = "STOPPING"]
    /\ request' = [request EXCEPT ![p] = "STOP"]
    /\ stage' = [r \in Routers |->
                  IF (\E f \in Flows : ref[p][f] = r) /\ stage[r] = "live"
                  THEN "stopping" ELSE stage[r]]
    /\ steady' = [t \in Posters |-> steady[t] \ {p}]
    /\ UNCHANGED <<registration, ref, starts, answer, box, busy, post, posted, fate>>

Receive(p, message, result) ==
    /\ request[p] = message
    /\ request' = [request EXCEPT ![p] = "none"]
    /\ answer' = [answer EXCEPT ![p] = result]
    /\ UNCHANGED <<registration, status, ref, starts, routing, post, posted, fate, steady>>

RunnerStarts(p)       == Receive(p, "START", "STARTED")
RunnerFailsToStart(p) == Receive(p, "START", "START_FAILED")
RunnerStops(p)        == Receive(p, "STOP", "STOPPED")

\* Variant: the answer is recorded as it comes.
StatusAsAnswered(result) == result

StatusAfter(result) == IF result = "STARTED" THEN "STARTED" ELSE "STOPPED"

Callback(p) ==
    /\ answer[p] # "none"
    /\ answer' = [answer EXCEPT ![p] = "none"]
    /\ status' = [status EXCEPT ![p] = StatusAfter(answer[p])]
    /\ UNCHANGED <<registration, ref, starts, request, routing, post, posted, fate, steady>>

-----------------------------------------------------------------------------
(* postMessage *)

Posting(t, step) == post[t] # None /\ post[t].step = step

\* A consistent message: a custom one is looked up, another one is offered to
\* every entry of the map.
PostMessage(t, e) ==
    /\ post[t] = None
    /\ e \notin posted
    /\ posted' = posted \cup {e}
    /\ post' = [post EXCEPT ![t] =
          [event |-> e, stale |-> FALSE, step |-> "walk", plugin |-> None, router |-> None,
           todo |-> IF KindOf[e] = "custom" THEN entries \cap AudienceOf[e] ELSE entries]]
    /\ steady' = [steady EXCEPT ![t] = {p \in entries : status[p] = "STARTED"}]
    /\ UNCHANGED <<cycle, routing, fate>>

\* The status, and the compatibility of the plugin, under one monitor each.
CheckStatus(t, p) ==
    LET accepts == status[p] = "STARTED" /\ p \in AudienceOf[post[t].event] IN
    /\ Posting(t, "walk")
    /\ p \in post[t].todo
    /\ post' = [post EXCEPT ![t].todo = @ \ {p},
                            ![t].plugin = IF accepts THEN p ELSE None,
                            ![t].step = IF accepts THEN "started" ELSE "walk"]
    /\ UNCHANGED <<cycle, routing, posted, fate, steady>>

\* ConcurrentModificationException.  Nothing orders the thread's reads of the
\* map with the change, so that a stale iterator may also go on, or miss entries.
IteratorFails(t) ==
    /\ Posting(t, "walk")
    /\ post[t].stale
    /\ post[t].todo # {}
    /\ post' = [post EXCEPT ![t] = None]
    /\ steady' = [steady EXCEPT ![t] = {}]
    /\ UNCHANGED <<cycle, routing, posted, fate>>

IteratorMisses(t) ==
    /\ Posting(t, "walk")
    /\ post[t].stale
    /\ \E seen \in SUBSET post[t].todo : post' = [post EXCEPT ![t].todo = seen]
    /\ UNCHANGED <<cycle, routing, posted, fate, steady>>

PostDone(t) ==
    /\ Posting(t, "walk")
    /\ post[t].todo = {}
    /\ post' = [post EXCEPT ![t] = None]
    /\ steady' = [steady EXCEPT ![t] = {}]
    /\ UNCHANGED <<cycle, routing, posted, fate>>

\* dispatchMessage, first half; without a router there is nobody to tell.
ReadReference(t) ==
    /\ Posting(t, "started")
    /\ LET r == ref[post[t].plugin][FlowOf[post[t].event]] IN
       post' = [post EXCEPT ![t].router = r,
                            ![t].plugin = None,
                            ![t].step = IF r = None THEN "walk" ELSE "read"]
    /\ UNCHANGED <<cycle, routing, posted, fate, steady>>

Settle(e, p, outcome) == fate' = [fate EXCEPT ![e][p] = outcome]

\* dispatchMessage, second half.
Tell(t) ==
    LET r == post[t].router
        e == post[t].event
    IN
    /\ Posting(t, "read")
    /\ post' = [post EXCEPT ![t].step = "walk", ![t].router = None]
    /\ IF stage[r] = "dead"
       THEN Settle(e, r.plugin, "dead") /\ UNCHANGED box
       ELSE /\ Settle(e, r.plugin, "told")
            /\ box' = [box EXCEPT ![r] = Append(@, [event |-> e, kind |-> KindOf[e]])]
    /\ UNCHANGED <<cycle, stage, busy, posted, steady>>

-----------------------------------------------------------------------------
(* EventMessageProcessingActor and its router *)

\* The default of EventInterfaceConfiguration, which no runner changes.
PoolSize == 1

\* A routee takes its next message.
Handle(r) ==
    /\ stage[r] \in {"live", "stopping"}
    /\ box[r] # <<>>
    /\ Len(busy[r]) < PoolSize
    /\ busy' = [busy EXCEPT ![r] = Append(@, Head(box[r]))]
    /\ box' = [box EXCEPT ![r] = Tail(@)]
    /\ UNCHANGED <<cycle, stage, post, posted, fate, steady>>

\* The i-th of the messages being handled is done with.
Finish(r, i) ==
    /\ i \in DOMAIN busy[r]
    /\ busy' = [busy EXCEPT ![r] = RemoveAt(@, i)]
    /\ UNCHANGED <<cycle, stage, post, posted, steady>>

HandleSucceeds(r, i) ==
    /\ Finish(r, i)
    /\ Settle(busy[r][i].event, r.plugin, "handled")
    /\ UNCHANGED box

\* Variant: also a failed recovery is recovered from.
RecoversAlways(m) == TRUE

Recovers(m) == m.kind \notin {"resync", "custom"}

Resync(m) == [event |-> m.event, kind |-> "resync"]

\* Variant: the failure is thrown after it has been recovered from, too.
HandleFailsAndThrows(r, i) ==
    LET m == busy[r][i] IN
    /\ Finish(r, i)
    /\ box' = [box EXCEPT ![r] = IF Recovers(m) THEN Append(@, Resync(m)) ELSE @]
    /\ Settle(m.event, r.plugin, "failed")

\* PluginException: a RESYNC message takes the place of the event at the end of
\* the mailbox, or the failure is saved in the log of the plugin and thrown.
HandleFails(r, i) ==
    LET m == busy[r][i] IN
    /\ Finish(r, i)
    /\ IF Recovers(m)
       THEN box' = [box EXCEPT ![r] = Append(@, Resync(m))] /\ UNCHANGED fate
       ELSE Settle(m.event, r.plugin, "failed") /\ UNCHANGED box

\* Any other exception: the supervisor logs it and resumes the routee.
HandleCrashes(r, i) ==
    /\ Finish(r, i)
    /\ Settle(busy[r][i].event, r.plugin, "failed")
    /\ UNCHANGED box

\* The routees have terminated: what is left in the mailbox are dead letters.
RouterStops(r) ==
    /\ stage[r] = "stopping"
    /\ busy[r] = <<>>
    /\ stage' = [stage EXCEPT ![r] = "dead"]
    /\ box' = [box EXCEPT ![r] = <<>>]
    /\ fate' = [e \in Events |->
                  IF \E i \in DOMAIN box[r] : box[r][i].event = e
                  THEN [fate[e] EXCEPT ![r.plugin] = "dead"] ELSE fate[e]]
    /\ UNCHANGED <<cycle, busy, post, posted, steady>>

-----------------------------------------------------------------------------

LifeCycle(p) ==
    \/ Register(p)     \/ Unregister(p)
    \/ Start(p)        \/ Stop(p)
    \/ RunnerStarts(p) \/ RunnerFailsToStart(p) \/ RunnerStops(p)
    \/ Callback(p)

Proceed(t) ==
    \/ \E p \in Plugins : CheckStatus(t, p)
    \/ IteratorFails(t)
    \/ IteratorMisses(t)
    \/ PostDone(t)
    \/ ReadReference(t)
    \/ Tell(t)

EndOfHandler(r) ==
    \E i \in 1..Len(busy[r]) :
        HandleSucceeds(r, i) \/ HandleFails(r, i) \/ HandleCrashes(r, i)

Next ==
    \/ \E p \in Plugins : LifeCycle(p)
    \/ \E t \in Posters : (\E e \in Events : PostMessage(t, e)) \/ Proceed(t)
    \/ \E r \in Routers : Handle(r) \/ EndOfHandler(r) \/ RouterStops(r)

Spec == Init /\ [][Next]_vars

(***************************************************************************)
(* Fairness.  A dispatcher thread runs each routee that has a message, the *)
(* plugin's handler returns or throws, and a router that is asked to stop  *)
(* stops.  A posting thread that has started goes on.  Nothing is assumed  *)
(* of the life cycle.                                                      *)
(***************************************************************************)
Fairness ==
    /\ \A r \in Routers : /\ WF_vars(Handle(r))
                          /\ WF_vars(EndOfHandler(r))
                          /\ WF_vars(RouterStops(r))
    /\ \A t \in Posters : WF_vars(Proceed(t))

FairSpec == Spec /\ Fairness

-----------------------------------------------------------------------------
(* Properties *)

RoutersOf(p) == {r \in Routers : r.plugin = p}

\* The messages a router has accepted and is not done with, oldest first.
Pipeline(r) == busy[r] \o box[r]

\* An event told to a plugin is neither lost nor doubled on its way: it is one
\* message of one router of the plugin, itself or the RESYNC that replaces it,
\* for as long as nothing has become of it, and no message afterwards, through
\* stops, restarts and recoveries.
EveryEventAccountedFor ==
    \A p \in Plugins :
        /\ \A e \in Events :
             fate[e][p] = "told"
                <=> \E r \in RoutersOf(p) : \E i \in DOMAIN Pipeline(r) :
                       Pipeline(r)[i].event = e
        /\ \A r1, r2 \in RoutersOf(p) :
             \A i \in DOMAIN Pipeline(r1), j \in DOMAIN Pipeline(r2) :
                Pipeline(r1)[i].event = Pipeline(r2)[j].event => r1 = r2 /\ i = j

\* A posting reaches every plugin that it is for and that has been STARTED since
\* it began, whatever starts, stops and registrations are met on the way: at the
\* end of its walk none was passed over, or told by way of a router of an earlier
\* start.  A walk that meets a change of the map is excepted: it may be cut short.
StartedPluginsHear ==
    \A t \in Posters :
        Posting(t, "walk") /\ post[t].todo = {} /\ ~post[t].stale =>
            LET e == post[t].event IN
            \A p \in steady[t] \cap AudienceOf[e] :
                FlowOf[e] \in InterfacesOf[p] => fate[e][p] \notin {"none", "dead"}

\* Whatever the plugin does, fails at first and fails to recover included, an
\* event that was told to it is handled, reported as failed or a dead letter in
\* the end.
EveryEventSettles ==
    \A e \in Events, p \in Plugins :
        fate[e][p] = "told" ~> fate[e][p] \notin {"none", "told"}

\* The life cycle that the events run against is the one of the plugin manager.
Lifecycles ==
    INSTANCE PluginLifecycle
    WITH state <- [p \in Plugins |-> IF p \in entries THEN status[p] ELSE "ABSENT"]

\* The life cycle part of this module is a special case of the abstract one.
ImplementsLifecycle == Lifecycles!Safety
=============================================================================
