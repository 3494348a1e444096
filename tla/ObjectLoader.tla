----------------------------- MODULE ObjectLoader -----------------------------
(***************************************************************************)
(* A plugin which loads objects from a file (LoadableObjectPluginRunner):  *)
(* its life cycle, the schedule it arms when it starts, the loads asked by *)
(* hand through its OUT interface, and the two guards of a load, the flag  *)
(* isLoading and the monitor of the runner.                                *)
(*                                                                         *)
(* The life cycle actor of the plugin manager starts and stops the runner, *)
(* one message after the other, and tells START only to a plugin which is  *)
(* not started: one which has been stopped, or which failed to start.      *)
(***************************************************************************)
EXTENDS Scheduler

CONSTANTS
    Routees,       \* the actors which handle the events of the plugin
    Uuid,          \* the name of the plugin and of its configuration
    MaxRestarts    \* bound: crashes of the process

ASSUME RouteesAssumption == Routees \cap Ids = {}
ASSUME UuidAssumption == Uuid \in ActionUuids
ASSUME MaxRestartsAssumption == MaxRestarts \in Nat

VARIABLES
    plugin,        \* "stopped", "started" or "failed"
    current,       \* currentScheduler, 0 when there is none
    isLoading,     \* LoadingStatusHolder
    pc,            \* what each thread does in runLoad
    leaked,        \* history: schedules the runner has lost sight of
    raced,         \* history: two threads have passed the test of the flag together
    restarts

loaderVars == <<plugin, current, isLoading, pc, leaked, raced, restarts>>
vars == <<schedulerVars, loaderVars>>

-----------------------------------------------------------------------------
(* State *)

\* The ticks run in threads of their own; a routee handles one event at once.
Threads == Ids \cup Routees

\* The steps of runLoad; "lower" and "lowerError" are its finally block.
Steps == {"idle", "check", "raise", "enter", "load", "lower", "lowerError"}

TypeOK ==
    /\ SchedulerTypeOK
    /\ plugin \in {"stopped", "started", "failed"}
    /\ current \in 0..Len(schedules)
    /\ isLoading \in BOOLEAN
    /\ pc \in [Threads -> Steps]
    /\ \A s \in Ids : pc[s] /= "idle" =>
           s \in DOMAIN schedules /\ schedules[s].at = "running"
    /\ leaked \subseteq DOMAIN schedules
    /\ raced \in BOOLEAN
    /\ restarts \in 0..MaxRestarts

Loading == {t \in Threads : pc[t] = "load"}

\* The threads which have passed the test of the flag, and those of them which
\* have raised it.
Flagged == {t \in Threads : pc[t] \in {"enter", "load", "lower", "lowerError"}}
Inside  == {t \in Threads : pc[t] = "raise"} \cup Flagged

-----------------------------------------------------------------------------
(* runLoad and loadFile *)

Goes(t, step) == pc' = [pc EXCEPT ![t] = step]

\* runLoad returns or throws: a tick goes on in the scheduler, a routee is
\* ready for its next event.
Returns(t, outcome) ==
    /\ Goes(t, "idle")
    /\ IF t \in Ids THEN RunEnds(t, outcome) ELSE UNCHANGED schedulerVars

\* TRIGGER_LOAD.
Trigger(t) ==
    /\ plugin = "started" /\ pc[t] = "idle"
    /\ Goes(t, "check")
    /\ UNCHANGED <<schedulerVars, plugin, current, isLoading, leaked, raced, restarts>>

\* Variant: the tick has another thread run the load, and ends.
TickHandsOver(s) ==
    /\ schedules[s].at = "running" /\ pc[s] = "idle"
    /\ Goes(s, "check")
    /\ RunEnds(s, "done")
    /\ UNCHANGED <<plugin, current, isLoading, leaked, raced, restarts>>

TickBegins(s) ==
    /\ schedules[s].at = "running" /\ pc[s] = "idle"
    /\ Goes(s, "check")
    /\ UNCHANGED <<schedulerVars, plugin, current, isLoading, leaked, raced, restarts>>

\* Variant: the test of the flag is inside the block whose end lowers it.
CheckInsideTry(t) ==
    /\ pc[t] = "check"
    /\ \/ /\ ~isLoading /\ Goes(t, "raise") /\ UNCHANGED schedulerVars
          /\ raced' = (raced \/ \E u \in Threads : pc[u] = "raise")
          /\ UNCHANGED isLoading
       \/ /\ isLoading /\ Returns(t, "done") /\ isLoading' = FALSE
          /\ UNCHANGED raced
    /\ UNCHANGED <<plugin, current, leaked, restarts>>

\* The flag is read in a call and set in another one, and nothing keeps two
\* threads from reading it before either sets it.  Either way a report is
\* written first, which may throw.
Check(t) ==
    /\ pc[t] = "check"
    /\ \/ /\ ~isLoading /\ Goes(t, "raise") /\ UNCHANGED schedulerVars
          /\ raced' = (raced \/ \E u \in Threads : pc[u] = "raise")
       \/ isLoading /\ Returns(t, "done") /\ UNCHANGED raced
       \/ Returns(t, "exception") /\ UNCHANGED raced
    /\ UNCHANGED <<plugin, current, isLoading, leaked, restarts>>

Raise(t) ==
    /\ pc[t] = "raise"
    /\ isLoading' = TRUE
    /\ Goes(t, "enter")
    /\ UNCHANGED <<schedulerVars, plugin, current, leaked, raced, restarts>>

\* loadFile is synchronized.
Enter(t) ==
    /\ pc[t] = "enter" /\ Loading = {}
    /\ Goes(t, "load")
    /\ UNCHANGED <<schedulerVars, plugin, current, isLoading, leaked, raced, restarts>>

\* Variant: a load which fails does not come through the finally block.
LoadWithoutFinally(t) ==
    /\ pc[t] = "load"
    /\ \/ Goes(t, "lower") /\ UNCHANGED schedulerVars
       \/ Returns(t, "exception")
    /\ UNCHANGED <<plugin, current, isLoading, leaked, raced, restarts>>

\* An exception is reported and forgotten; an error leaves runLoad.
Load(t) ==
    /\ pc[t] = "load"
    /\ Goes(t, "lower") \/ Goes(t, "lowerError")
    /\ UNCHANGED <<schedulerVars, plugin, current, isLoading, leaked, raced, restarts>>

\* The report of the failure may itself throw.  With the last thread which was in
\* together with another one the race is over.
Lower(t) ==
    /\ pc[t] \in {"lower", "lowerError"}
    /\ isLoading' = FALSE
    /\ \E outcome \in IF pc[t] = "lower" THEN {"done", "exception"} ELSE {"error"} :
           Returns(t, outcome)
    /\ raced' = (raced /\ Inside /= {t})
    /\ UNCHANGED <<plugin, current, leaked, restarts>>

-----------------------------------------------------------------------------
(* The life cycle of the runner *)

\* start() fails, before it schedules anything or without doing so, or does
\* not schedule because the configuration says so.
StartUnscheduled ==
    /\ plugin /= "started"
    /\ plugin' \in {"started", "failed"}
    /\ UNCHANGED <<schedulerVars, current, isLoading, pc, leaked, raced, restarts>>

\* start() schedules the load; the report which follows may throw.
StartScheduled ==
    /\ plugin /= "started"
    /\ Len(schedules) < MaxSchedules
    /\ schedules' = Scheduled(Uuid, TRUE, TRUE)
    /\ current' = Len(schedules')
    /\ leaked' = leaked \cup {s \in {current} : s /= 0 /\ Armed(s)}
    /\ plugin' \in {"started", "failed"}
    /\ UNCHANGED <<states, left, isLoading, pc, raced, restarts>>

\* Variant: stop() does not cancel the schedule.
StopWithoutCancel ==
    /\ plugin = "started"
    /\ plugin' = "stopped"
    /\ UNCHANGED <<schedulerVars, current, isLoading, pc, leaked, raced, restarts>>

Stop ==
    /\ plugin = "started"
    /\ plugin' = "stopped"
    /\ schedules' = IF current = 0 THEN schedules ELSE Cancelled(schedules, current)
    /\ UNCHANGED <<states, left, current, isLoading, pc, leaked, raced, restarts>>

\* The process dies and comes back: only the rows are still there.
Restart ==
    /\ restarts < MaxRestarts
    /\ restarts' = restarts + 1
    /\ schedules' = AllEnded
    /\ left' = left \cup states
    /\ plugin' = "stopped" /\ current' = 0 /\ isLoading' = FALSE
    /\ pc' = [t \in Threads |-> "idle"]
    /\ raced' = FALSE
    /\ UNCHANGED <<states, leaked>>

-----------------------------------------------------------------------------

Init ==
    /\ SchedulerInit
    /\ plugin = "stopped" /\ current = 0 /\ isLoading = FALSE
    /\ pc = [t \in Threads |-> "idle"]
    /\ leaked = {} /\ raced = FALSE /\ restarts = 0

RunLoad(t) == Check(t) \/ Raise(t) \/ Enter(t) \/ Load(t) \/ Lower(t)

Next ==
    \/ (Ticks \/ FlushOldStates) /\ UNCHANGED loaderVars
    \/ \E s \in DOMAIN schedules : TickBegins(s)
    \/ \E t \in Routees : Trigger(t)
    \/ \E t \in Threads : RunLoad(t)
    \/ StartUnscheduled \/ StartScheduled \/ Stop \/ Restart

\* The threads run; a load ends, well or badly.
Spec == Init /\ [][Next]_vars /\ \A t \in Threads : WF_vars(RunLoad(t))

-----------------------------------------------------------------------------
(* Properties *)

\* The flag says whether a load is under way, and keeps every other load out, for
\* ticks of several schedules and loads by hand alike: nobody but the one who has
\* raised it lowers it.  Two threads may read it before either sets it; the load
\* of one then runs on with the flag lowered by the other, and lets in more, until
\* all of them are gone: from then on the flag can be relied on again.
FlagTellsTheLoad ==
    ~raced =>
        /\ \A t, u \in Inside : t = u
        /\ isLoading <=> Flagged /= {}

\* A row which says running is the row of a tick under way, unless it was
\* left there by a crash, an error or a failure of the database: an exception
\* in the action, a cancellation or a flush never leave one behind.
RunningRowsAreTicks ==
    \A s \in states \ left : schedules[s].at \in {"running", "completing"}

\* Once the plugin is stopped no load of it is scheduled any more, except those
\* of a start which failed after it had scheduled them, and was tried again.
StoppedIsUnscheduled ==
    plugin = "stopped" => \A s \in DOMAIN schedules \ leaked : ~Armed(s)

\* The flag which refuses the loads is always lowered again, even when the
\* load fails: one failure never refuses every later load.
FlagIsLowered == isLoading ~> ~isLoading

\* What ISysAdminUtils says of the exclusive flag: the action is not run when
\* another one with the same uuid is already running.
ExclusiveRunsAlone ==
    \A r, s \in {u \in DOMAIN schedules : schedules[u].at = "running" /\ schedules[u].exclusive} :
        schedules[r].uuid = schedules[s].uuid => r = s
=============================================================================
