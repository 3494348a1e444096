------------------------------ MODULE KpiService ------------------------------
(***************************************************************************)
(* The KPI service (KpiServiceImpl, Kpi): the table of the loaded KPIs,    *)
(* reload() and reloadKpi() called by several threads, the two schedules   *)
(* of a KPI and the runs which store its values.                           *)
(*                                                                         *)
(* Nothing is locked but a single access to the Hashtable and the cancel   *)
(* of one KPI.  What a run stores is left out: it stores or it fails.      *)
(***************************************************************************)
EXTENDS Scheduler

CONSTANTS
    Callers,       \* the threads which reload
    Boot,          \* the one which constructs the service
    Kinds,         \* what there may be in kpi_definition
    MaxCalls       \* bound: reloads ever begun

ASSUME BootAssumption == Boot \in Callers
ASSUME UidsAssumption == ActionUuids /= {}
ASSUME MaxCallsAssumption == MaxCalls \in Nat

Uids == ActionUuids

VARIABLES
    instances,     \* every Kpi object ever made
    kpis,          \* the Hashtable: which of them is listed, 0 for none
    calls,         \* what each thread is doing
    begun,         \* how many reloads have begun
    clean,         \* history: the KPIs whose reloads never overlapped
    storing,       \* the schedules whose run is in storeValues
    late,          \* history: the ticks which came after the cancel of their KPI
    erred          \* history: the recurring schedules which an Error has ended

serviceVars == <<instances, kpis, calls, begun, clean>>
runVars == <<storing, late, erred>>
vars == <<schedulerVars, serviceVars, runVars>>

-----------------------------------------------------------------------------
(* State *)

\* What a thread may find in kpi_definition when it reads it: the application
\* edits the definitions at any time.  One with a scheduler may have a start
\* time which passes the check of the format and is refused when the recurring
\* run is scheduled ("9h30").
AllKinds == {"inactive", "invalid", "plain", "badTime", "scheduled"}

ASSUME KindsAssumption == Kinds \subseteq AllKinds /\ "inactive" \in Kinds

\* A Kpi object: the schedule INITIAL_<uid>, of which it keeps no reference,
\* and the recurring one, 0 for none.
Instance == [uid: Uids, cancelled: BOOLEAN, initial: 0..MaxSchedules,
             scheduler: 0..MaxSchedules]

CallSteps == {"idle", "cancelOne", "remove", "read", "next", "load", "put", "cancelAll"}

\* todo: the definitions init() has still to load; then: what follows them.
Call == [at: CallSteps, uid: Uids, kpi: Nat, kind: Kinds,
         todo: [Uids -> Kinds], then: {"end", "cancelAll", "up"}]

TypeOK ==
    /\ SchedulerTypeOK
    /\ instances \in Seq(Instance)
    /\ \A k \in DOMAIN instances : instances[k].scheduler /= 0 =>
           /\ schedules[instances[k].scheduler].recurring
           /\ schedules[instances[k].scheduler].uuid = instances[k].uid
    /\ \A u \in Uids : kpis[u] /= 0 => instances[kpis[u]].uid = u
    /\ calls \in [Callers -> Call]
    /\ begun \in 0..MaxCalls /\ clean \subseteq Uids
    /\ storing \subseteq {s \in DOMAIN schedules : schedules[s].at = "running"}
    /\ late \subseteq DOMAIN schedules /\ erred \subseteq DOMAIN schedules

Busy == {c \in Callers : calls[c].at /= "idle"}
Booting == calls[Boot].then = "up"

\* The threads whose call concerns a KPI.
WorkingOn(u) ==
    {c \in Busy : calls[c].uid = u \/ calls[c].then /= "end" \/ calls[c].at = "cancelAll"}

InstanceOf(s) ==
    CHOOSE k \in DOMAIN instances : s \in {instances[k].initial, instances[k].scheduler}

-----------------------------------------------------------------------------
(* The Kpi object *)

\* kpi.cancel(): what is left of the objects and of the schedules when the
\* ones in ks are cancelled.
CancelledKpis(ks) == [k \in DOMAIN instances |->
    IF k \in ks THEN [instances[k] EXCEPT !.cancelled = TRUE] ELSE instances[k]]

CancelledSchedules(ks) == [s \in DOMAIN schedules |->
    IF \E k \in ks : s = instances[k].scheduler THEN Cancelled(schedules, s)[s]
    ELSE schedules[s]]

\* Variant: the object keeps the schedule it has made first.
LoadKeepingTheFirst(c, kind) ==
    LET once == Scheduled(calls[c].uid, FALSE, FALSE)
        both == Append(once, [once[Len(once)] EXCEPT !.recurring = TRUE])
        kpi == [uid |-> calls[c].uid, cancelled |-> FALSE, scheduler |-> Len(once),
                initial |-> Len(both)]
    IN  CASE kind = "scheduled" -> schedules' = both /\ instances' = Append(instances, kpi)
          [] kind = "badTime" -> schedules' = once
                 /\ instances' = Append(instances, [kpi EXCEPT !.scheduler = 0, !.initial = Len(once)])
          [] OTHER -> UNCHANGED schedules
                 /\ instances' = Append(instances, [kpi EXCEPT !.initial = 0, !.scheduler = 0])

\* new Kpi(definition, service).init(): it ends with the schedules, of which
\* the first is made even when the second is refused.
Load(c, kind) ==
    LET once == Scheduled(calls[c].uid, FALSE, FALSE)
        both == Append(once, [once[Len(once)] EXCEPT !.recurring = TRUE])
        kpi == [uid |-> calls[c].uid, cancelled |-> FALSE, initial |-> 0, scheduler |-> 0]
    IN  CASE kind = "scheduled" ->
                 /\ schedules' = both
                 /\ instances' = Append(instances,
                        [kpi EXCEPT !.initial = Len(once), !.scheduler = Len(both)])
          [] kind = "badTime" ->
                 /\ schedules' = once
                 /\ instances' = Append(instances, [kpi EXCEPT !.initial = Len(once)])
          [] OTHER ->
                 /\ UNCHANGED schedules
                 /\ instances' = Append(instances, kpi)

-----------------------------------------------------------------------------
(* The calls *)

Goes(c, call) == calls' = [calls EXCEPT ![c] = call]

Idle == [at |-> "idle", uid |-> CHOOSE u \in Uids : TRUE, kpi |-> 0, kind |-> "inactive",
         todo |-> [u \in Uids |-> "inactive"], then |-> "end"]

Ends(c) == Goes(c, Idle)

\* A reload begins, and the reloads of the KPIs in us are no longer one after
\* the other.
Begins(us) ==
    /\ begun < MaxCalls /\ begun' = begun + 1
    /\ clean' = clean \ us

\* reloadKpi(uid): the KPI is looked up.
ReloadKpi(c, u) ==
    /\ ~Booting /\ calls[c].at = "idle"
    /\ Goes(c, [Idle EXCEPT !.uid = u, !.kpi = kpis[u], !.at =
                       IF kpis[u] /= 0 THEN "cancelOne" ELSE "read"])
    /\ Begins({v \in {u} : WorkingOn(v) /= {}})
    /\ UNCHANGED <<schedulerVars, runVars, instances, kpis>>

\* Variant: the KPI leaves the table and goes on.
CancelNothing(c) ==
    /\ calls[c].at = "cancelOne"
    /\ Goes(c, [calls[c] EXCEPT !.at = "remove"])
    /\ UNCHANGED <<schedulerVars, runVars, instances, kpis, begun, clean>>

CancelOne(c) ==
    /\ calls[c].at = "cancelOne"
    /\ instances' = CancelledKpis({calls[c].kpi})
    /\ schedules' = CancelledSchedules({calls[c].kpi})
    /\ Goes(c, [calls[c] EXCEPT !.at = "remove"])
    /\ UNCHANGED <<states, left, runVars, kpis, begun, clean>>

Remove(c) ==
    /\ calls[c].at = "remove"
    /\ kpis' = [kpis EXCEPT ![calls[c].uid] = 0]
    /\ Goes(c, [calls[c] EXCEPT !.at = "read"])
    /\ UNCHANGED <<schedulerVars, runVars, instances, begun, clean>>

ReadDefinition(c) ==
    /\ calls[c].at = "read"
    /\ \E kind \in Kinds :
           IF kind = "inactive" THEN Ends(c)
           ELSE Goes(c, [calls[c] EXCEPT !.kind = kind, !.at = "load"])
    /\ UNCHANGED <<schedulerVars, runVars, instances, kpis, begun, clean>>

\* reload(): init() makes a new table and reads the active definitions.
Reload(c) ==
    /\ ~Booting /\ calls[c].at = "idle"
    /\ kpis' = [u \in Uids |-> 0]
    /\ \E definitions \in [Uids -> Kinds] :
           Goes(c, [Idle EXCEPT !.todo = definitions, !.at = "next", !.then = "cancelAll"])
    /\ Begins(Uids)
    /\ UNCHANGED <<schedulerVars, runVars, instances>>

\* init() takes the next active definition, in the order of the database.
NextDefinition(c) ==
    /\ calls[c].at = "next"
    /\ \E u \in Uids :
           /\ calls[c].todo[u] /= "inactive"
           /\ Goes(c, [calls[c] EXCEPT !.uid = u, !.kind = calls[c].todo[u], !.at = "load",
                                       !.todo[u] = "inactive"])
    /\ UNCHANGED <<schedulerVars, runVars, instances, kpis, begun, clean>>

\* init() is over; what reload() does then is to cancel.
InitEnds(c) ==
    /\ calls[c].at = "next" /\ \A u \in Uids : calls[c].todo[u] = "inactive"
    /\ IF calls[c].then = "cancelAll" THEN Goes(c, [Idle EXCEPT !.at = "cancelAll"]) ELSE Ends(c)
    /\ UNCHANGED <<schedulerVars, runVars, instances, kpis, begun, clean>>

\* initKpiDefinition returns, to reloadKpi or to init.
Loaded(c) ==
    IF calls[c].then = "end" THEN Ends(c)
    ELSE Goes(c, [calls[c] EXCEPT !.at = "next", !.kind = "inactive", !.kpi = 0])

\* initKpiDefinition: only what has been initialised is put in the table.
\* Of the schedules an object has two at most, so that their bound bounds the
\* objects.
InitKpi(c) ==
    /\ calls[c].at = "load"
    /\ 2 * (Len(instances) + 1) <= MaxSchedules
    /\ IF calls[c].kind = "invalid"
       THEN UNCHANGED <<schedules, instances>>
       ELSE Load(c, calls[c].kind)
    /\ IF calls[c].kind \in {"plain", "scheduled"}
       THEN Goes(c, [calls[c] EXCEPT !.kpi = Len(instances'), !.at = "put"])
       ELSE Loaded(c)
    /\ UNCHANGED <<states, left, runVars, kpis, begun, clean>>

Put(c) ==
    /\ calls[c].at = "put"
    /\ kpis' = [kpis EXCEPT ![calls[c].uid] = calls[c].kpi]
    /\ Loaded(c)
    /\ UNCHANGED <<schedulerVars, runVars, instances, begun, clean>>

\* cancel() iterates over the table: a change of it in between ends the loop
\* with an exception before the other KPIs are cancelled.
CancelAll(c) ==
    /\ calls[c].at = "cancelAll"
    /\ LET listed == {kpis[u] : u \in Uids} \ {0}
       IN  \E ks \in SUBSET listed :
               /\ ks = listed \/ Busy /= {c}
               /\ instances' = CancelledKpis(ks)
               /\ schedules' = CancelledSchedules(ks)
    /\ Ends(c)
    /\ UNCHANGED <<states, left, runVars, kpis, begun, clean>>

-----------------------------------------------------------------------------
(* A run: storeValues *)

\* The tick of a schedule becomes due.
Due(s) ==
    /\ Fires(s)
    /\ late' = IF instances[InstanceOf(s)].cancelled THEN late \cup {s} ELSE late
    /\ UNCHANGED <<serviceVars, storing, erred>>

\* Variant: the initial run does not look at the flag.
IsNeverIgnored(s) == FALSE

\* Only the initial run looks whether its KPI was cancelled.
IsIgnored(s) == ~schedules[s].recurring /\ instances[InstanceOf(s)].cancelled

RunIsIgnored(s) ==
    /\ schedules[s].at = "running" /\ s \notin storing /\ IsIgnored(s)
    /\ RunEnds(s, "done")
    /\ UNCHANGED <<serviceVars, runVars>>

StoreValues(s) ==
    /\ schedules[s].at = "running" /\ s \notin storing /\ ~IsIgnored(s)
    /\ storing' = storing \cup {s}
    /\ UNCHANGED <<schedulerVars, serviceVars, late, erred>>

\* Rows may have been saved, and the script or the database may have failed.
\* storeValues catches nothing: what the script throws leaves the run.
Stored(s) ==
    /\ s \in storing
    /\ storing' = storing \ {s}
    /\ \/ RunEnds(s, "done") /\ UNCHANGED erred
       \/ RunEnds(s, "exception") /\ UNCHANGED erred
       \/ RunEnds(s, "error") /\ erred' = erred \cup {r \in {s} : schedules[r].recurring}
    /\ UNCHANGED <<serviceVars, late>>

-----------------------------------------------------------------------------

Init ==
    /\ SchedulerInit
    /\ instances = <<>> /\ kpis = [u \in Uids |-> 0] /\ begun = 0 /\ clean = Uids
    /\ \E definitions \in [Uids -> Kinds] :
           calls = [c \in Callers |-> IF c /= Boot THEN Idle
                                     ELSE [Idle EXCEPT !.at = "next", !.then = "up",
                                                       !.todo = definitions]]
    /\ storing = {} /\ late = {} /\ erred = {}

CallStep(c) ==
    \/ CancelOne(c) \/ Remove(c) \/ ReadDefinition(c) \/ NextDefinition(c)
    \/ InitEnds(c) \/ InitKpi(c) \/ Put(c) \/ CancelAll(c)

Tick(s) ==
    \/ Due(s)
    \/ /\ MarkAsStarted(s) \/ MarkAsCompleted(s)
       /\ UNCHANGED <<serviceVars, runVars>>
    \/ RunIsIgnored(s) \/ StoreValues(s) \/ Stored(s)

Next ==
    \/ \E c \in Callers : Reload(c) \/ CallStep(c) \/ \E u \in Uids : ReloadKpi(c, u)
    \/ \E s \in DOMAIN schedules : Tick(s)

\* The scheduler fires what is armed, and the threads run.
Fairness ==
    \A s \in Ids : WF_vars(s \in DOMAIN schedules /\ Tick(s))

Spec == Init /\ [][Next]_vars /\ Fairness

-----------------------------------------------------------------------------
(* Properties *)

Quiet(u) == ~Booting /\ WorkingOn(u) = {}

\* When reload() is not used and the reloads of a KPI do not overlap, an object
\* which is not the listed one has no recurring run to come, and its initial run,
\* if that is still to come, is one which the cancel of the object makes void.  One
\* thing remains: an object whose recurring schedule was refused never gets into
\* the table, so that nobody can cancel it, and its initial run stores its values
\* whatever is listed by then.  The schedule of the listed object is not cancelled.
ScheduledIsListed ==
    \A u \in clean : Quiet(u) =>
        /\ \A k \in DOMAIN instances :
               LET kpi == instances[k] IN
               (kpi.uid = u /\ k /= kpis[u]) =>
                   /\ kpi.scheduler /= 0 => ~Armed(kpi.scheduler)
                   /\ (kpi.initial /= 0 /\ Armed(kpi.initial)) =>
                          (kpi.cancelled \/ kpi.scheduler = 0)
        /\ (kpis[u] /= 0 /\ instances[kpis[u]].scheduler /= 0) =>
               ~schedules[instances[kpis[u]].scheduler].cancelled

\* A tick which comes due after its KPI was cancelled stores nothing, neither
\* the recurring one nor the initial one, which cannot be cancelled.
CancelledStoresNothing == late \cap storing = {}

Served(u) ==
    /\ kpis[u] /= 0
    /\ LET kpi == instances[kpis[u]]
       IN  kpi.scheduler /= 0 /\ ~kpi.cancelled /\ kpi.scheduler \notin erred

\* A scheduled KPI which stays in the table is stored again and again, although
\* a run may fail: an exception never ends its schedule.  An Error of its runner
\* does: the KPI stays in the table, and is not stored again until it is reloaded.
ServedIsStored ==
    \A u \in Uids :
        <>[]Served(u) => []<>(Served(u) /\ instances[kpis[u]].scheduler \in storing)

\* What IKpiService says of reload(): it reloads the KPIs.  Once it is over
\* the listed KPIs are not cancelled.
ReloadedIsServed ==
    Busy = {} => \A u \in Uids : kpis[u] /= 0 => ~instances[kpis[u]].cancelled
=============================================================================
