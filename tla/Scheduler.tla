------------------------------ MODULE Scheduler ------------------------------
(***************************************************************************)
(* scheduleOnce and scheduleRecurring of SysAdminUtilsImpl, and the rows   *)
(* of scheduler_state they keep.  The modules of the services which        *)
(* schedule actions extend this one: they say when an action is scheduled  *)
(* and cancelled, and what its run does.                                   *)
(*                                                                         *)
(* The scheduler of Akka runs a recurring action again only after its run  *)
(* has returned: the ticks of one schedule never overlap.  A cancelled     *)
(* schedule finishes the tick it has begun.                                *)
(***************************************************************************)
EXTENDS Integers, Sequences, FiniteSets

CONSTANTS
    ActionUuids,    \* the names of the actions
    MaxSchedules,   \* bound: schedules ever made
    MarksMayFail    \* bound: whether the database may fail under a tick

ASSUME MarksMayFailAssumption == MarksMayFail \in BOOLEAN
ASSUME MaxSchedulesAssumption == MaxSchedules \in Nat

VARIABLES
    schedules,   \* every schedule made, in the order of their creation
    states,      \* the schedules which have a row with isRunning
    left         \* history: those whose row nobody will ever complete

schedulerVars == <<schedules, states, left>>

Ids == 1..MaxSchedules

\* Where a schedule is: waiting for its time, in the steps of a tick, or over.
Stages == {"armed", "marking", "running", "completing", "ended"}
Ticking == {"marking", "running", "completing"}

Schedule == [uuid: ActionUuids, exclusive: BOOLEAN, recurring: BOOLEAN,
             cancelled: BOOLEAN, at: Stages]

SchedulerTypeOK ==
    /\ schedules \in Seq(Schedule) /\ Len(schedules) <= MaxSchedules
    /\ states \subseteq DOMAIN schedules
    /\ left \subseteq DOMAIN schedules

Armed(s) == schedules[s].at /= "ended" /\ ~schedules[s].cancelled

-----------------------------------------------------------------------------
(* What the services call *)

\* The exclusive flag is kept for the log only.
Scheduled(uuid, exclusive, recurring) ==
    Append(schedules, [uuid |-> uuid, exclusive |-> exclusive, recurring |-> recurring,
                       cancelled |-> FALSE, at |-> "armed"])

\* Cancelling while a tick is under way only prevents the next one.
Cancelled(all, s) ==
    [all EXCEPT ![s].cancelled = TRUE,
                ![s].at = IF @ = "armed" THEN "ended" ELSE @]

-----------------------------------------------------------------------------
(* A tick *)

Fires(s) ==
    /\ schedules[s].at = "armed"
    /\ schedules' = [schedules EXCEPT ![s].at =
                        IF schedules[s].recurring THEN "marking" ELSE "running"]
    /\ UNCHANGED <<states, left>>

\* markAsStarted: a failure of the database is logged and the action runs.
MarkAsStarted(s) ==
    /\ schedules[s].at = "marking"
    /\ schedules' = [schedules EXCEPT ![s].at = "running"]
    /\ \/ states' = states \cup {s}
       \/ MarksMayFail /\ UNCHANGED states
    /\ UNCHANGED left

\* Variant: an exception skips markAsCompleted as well.
CompletesUnlessException(s, outcome) ==
    /\ schedules[s].at = "running"
    /\ schedules' = [schedules EXCEPT ![s].at =
           IF outcome = "done" THEN "completing"
           ELSE IF schedules[s].cancelled THEN "ended" ELSE "armed"]
    /\ UNCHANGED <<states, left>>

\* Variant: exceptions are not caught either, and the schedule is over.
EndsOnException(s, outcome) ==
    /\ schedules[s].at = "running"
    /\ schedules' = [schedules EXCEPT ![s].at =
           IF schedules[s].recurring /\ outcome = "done" THEN "completing" ELSE "ended"]
    /\ left' = left \cup {s}
    /\ UNCHANGED states

\* The run is over.  An exception is logged and the tick goes on; an error is
\* not caught: the schedule is not armed again, whatever its row says.
RunEnds(s, outcome) ==
    /\ schedules[s].at = "running"
    /\ schedules' = [schedules EXCEPT ![s].at =
           IF schedules[s].recurring /\ outcome /= "error" THEN "completing" ELSE "ended"]
    /\ left' = IF outcome = "error" /\ schedules[s].recurring THEN left \cup {s} ELSE left
    /\ UNCHANGED states

\* markAsCompleted: a row which was flushed in between is only missed, and a
\* failure of the database leaves the row as it is.
MarkAsCompleted(s) ==
    /\ schedules[s].at = "completing"
    /\ schedules' = [schedules EXCEPT ![s].at =
                        IF schedules[s].cancelled THEN "ended" ELSE "armed"]
    /\ \/ states' = states \ {s} /\ UNCHANGED left
       \/ MarksMayFail /\ s \in states /\ UNCHANGED states /\ left' = left \cup {s}

\* flushOldStates: the rows which are old go, also those which say running.
FlushOldStates ==
    \E old \in SUBSET states : old /= {} /\ states' = states \ old /\ UNCHANGED <<schedules, left>>

Ticks ==
    \E s \in DOMAIN schedules : Fires(s) \/ MarkAsStarted(s) \/ MarkAsCompleted(s)

\* The process dies: its schedules with it, its rows stay.
AllEnded == [s \in DOMAIN schedules |-> [schedules[s] EXCEPT !.at = "ended"]]

SchedulerInit == schedules = <<>> /\ states = {} /\ left = {}
=============================================================================
