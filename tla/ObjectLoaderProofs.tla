-------------------------- MODULE ObjectLoaderProofs --------------------------
(***************************************************************************)
(* Proofs about ObjectLoader: the types, that the flag tells whether a load *)
(* is under way, that a plugin which is stopped has no schedule, and that  *)
(* the rows which say running are those of ticks under way, for every      *)
(* number of schedules, routees and restarts.                              *)
(***************************************************************************)
EXTENDS ObjectLoader, TLAPS

-----------------------------------------------------------------------------
(* The inductive invariant *)

\* The runner refers to every schedule which is armed and not out of its reach.
ArmedIsCurrent == \A s \in DOMAIN schedules \ leaked : Armed(s) => s = current

\* Only recurring actions come to the steps about rows, and have any.
RowsAreRecurring ==
    /\ \A s \in states : schedules[s].recurring
    /\ \A s \in DOMAIN schedules :
           schedules[s].at \in {"marking", "completing"} => schedules[s].recurring

SchedulesInv ==
    /\ ArmedIsCurrent
    /\ StoppedIsUnscheduled
    /\ RowsAreRecurring
    /\ RunningRowsAreTicks

IInv == TypeOK /\ FlagTellsTheLoad /\ SchedulesInv

\* At the beginning nothing is scheduled and no thread is in runLoad.
LEMMA InitInv == Init => IInv
<1> SUFFICES ASSUME Init PROVE IInv
  OBVIOUS
<1>1. SchedulerTypeOK
  <2>1. schedules \in Seq(Schedule) /\ Len(schedules) = 0
    BY DEF Init, SchedulerInit
  <2>2. QED
    BY <2>1, MaxSchedulesAssumption DEF SchedulerTypeOK, Init, SchedulerInit
<1>2. TypeOK
  <2>1. current \in 0..Len(schedules) /\ leaked \subseteq DOMAIN schedules
    BY DEF Init, SchedulerInit
  <2>2. pc \in [Threads -> Steps]
    BY DEF Init, Steps
  <2>3. \A s \in Ids : pc[s] = "idle"
    BY DEF Init, Threads
  <2>4. isLoading \in BOOLEAN /\ plugin \in {"stopped", "started", "failed"} /\ raced \in BOOLEAN
    BY DEF Init
  <2>5. restarts \in 0..MaxRestarts
    BY MaxRestartsAssumption DEF Init
  <2>6. QED
    BY <1>1, <2>1, <2>2, <2>3, <2>4, <2>5 DEF TypeOK
<1>3. FlagTellsTheLoad
  <2>1. Inside = {} /\ Flagged = {}
    BY DEF Inside, Flagged, Init
  <2>2. QED
    BY <2>1 DEF FlagTellsTheLoad, Init
<1>4. SchedulesInv
  <2>1. DOMAIN schedules = {} /\ states = {}
    BY DEF Init, SchedulerInit
  <2>2. QED
    BY <2>1 DEF SchedulesInv, ArmedIsCurrent, StoppedIsUnscheduled, RowsAreRecurring,
           RunningRowsAreTicks
<1>5. QED
  BY <1>2, <1>3, <1>4 DEF IInv

-----------------------------------------------------------------------------
(* What becomes of the schedules *)

\* A step which moves one schedule to another stage.
LEMMA AtChanges ==
    ASSUME SchedulerTypeOK, NEW s \in DOMAIN schedules, NEW a \in Stages,
           schedules' = [schedules EXCEPT ![s].at = a]
    PROVE  /\ schedules' \in Seq(Schedule)
           /\ Len(schedules') = Len(schedules)
           /\ DOMAIN schedules' = DOMAIN schedules
           /\ \A r \in DOMAIN schedules : r /= s => schedules'[r] = schedules[r]
           /\ schedules'[s].at = a
           /\ schedules'[s].cancelled = schedules[s].cancelled
           /\ schedules'[s].recurring = schedules[s].recurring
<1>1. schedules \in Seq(Schedule) /\ schedules[s] \in Schedule
  BY DEF SchedulerTypeOK
<1>2. [schedules[s] EXCEPT !.at = a] \in Schedule
  BY <1>1 DEF Schedule
<1>3. schedules' = [schedules EXCEPT ![s] = [schedules[s] EXCEPT !.at = a]]
  OBVIOUS
<1>4. schedules' \in Seq(Schedule) /\ Len(schedules') = Len(schedules)
  BY <1>1, <1>2, <1>3
<1>5. schedules'[s] = [schedules[s] EXCEPT !.at = a]
  BY <1>1, <1>3
<1>6. QED
  BY <1>1, <1>3, <1>4, <1>5 DEF Schedule

\* The end of a run moves its schedule to "completing" or to "ended".
LEMMA RunEndsKeeps ==
    ASSUME SchedulerTypeOK, SchedulesInv, NEW s \in DOMAIN schedules, NEW outcome,
           RunEnds(s, outcome), UNCHANGED <<plugin, current, leaked>>
    PROVE  /\ SchedulerTypeOK' /\ SchedulesInv'
           /\ Len(schedules') = Len(schedules)
           /\ \A r \in DOMAIN schedules : r /= s => schedules'[r] = schedules[r]
<1> DEFINE a == IF schedules[s].recurring /\ outcome /= "error" THEN "completing" ELSE "ended"
<1>1. a \in Stages /\ schedules' = [schedules EXCEPT ![s].at = a]
  BY DEF RunEnds, Stages
<1>2. /\ schedules' \in Seq(Schedule)
      /\ Len(schedules') = Len(schedules)
      /\ DOMAIN schedules' = DOMAIN schedules
      /\ \A r \in DOMAIN schedules : r /= s => schedules'[r] = schedules[r]
      /\ schedules'[s].at = a
      /\ schedules'[s].cancelled = schedules[s].cancelled
      /\ schedules'[s].recurring = schedules[s].recurring
  <2> HIDE DEF a
  <2>1. QED BY <1>1, AtChanges
<1>3. states' = states /\ left \subseteq left' /\ left' \subseteq left \cup {s}
  BY DEF RunEnds
<1>4. SchedulerTypeOK'
  BY <1>2, <1>3 DEF SchedulerTypeOK
<1>5. ArmedIsCurrent' /\ StoppedIsUnscheduled'
  BY <1>2 DEF SchedulesInv, ArmedIsCurrent, StoppedIsUnscheduled, Armed, RunEnds
<1>6. RowsAreRecurring'
  BY <1>2, <1>3 DEF SchedulesInv, RowsAreRecurring, SchedulerTypeOK
<1>7. RunningRowsAreTicks'
  <2> SUFFICES ASSUME NEW r \in states' \ left'
               PROVE schedules'[r].at \in {"running", "completing"}
    BY DEF RunningRowsAreTicks
  <2>1. CASE r /= s
    BY <2>1, <1>2, <1>3 DEF SchedulesInv, RunningRowsAreTicks, SchedulerTypeOK
  <2>2. CASE r = s
    <3>1. schedules[s].recurring
      BY <2>2, <1>3 DEF SchedulesInv, RowsAreRecurring
    <3>2. outcome /= "error"
      BY <2>2, <3>1 DEF RunEnds
    <3>3. QED BY <2>2, <3>1, <3>2, <1>2
  <2>3. QED BY <2>1, <2>2
<1>8. QED
  BY <1>2, <1>4, <1>5, <1>6, <1>7 DEF SchedulesInv

-----------------------------------------------------------------------------
(* The ticks *)

\* What a tick does outside the run keeps the invariant.
LEMMA TickInv ==
    ASSUME IInv, NEW s \in DOMAIN schedules, UNCHANGED loaderVars,
           Fires(s) \/ MarkAsStarted(s) \/ MarkAsCompleted(s)
    PROVE  IInv'
<1>1. PICK a \in Stages : schedules' = [schedules EXCEPT ![s].at = a]
                          /\ (a = "running" => schedules[s].at \in {"armed", "marking"})
                          /\ (a = "running" /\ schedules[s].at = "armed" => ~schedules[s].recurring)
                          /\ (a = "armed" => ~schedules[s].cancelled)
  BY DEF Fires, MarkAsStarted, MarkAsCompleted, Stages
<1>2. SchedulerTypeOK /\ SchedulesInv
  BY DEF IInv, TypeOK
<1>3. /\ schedules' \in Seq(Schedule)
      /\ Len(schedules') = Len(schedules)
      /\ DOMAIN schedules' = DOMAIN schedules
      /\ \A r \in DOMAIN schedules : r /= s => schedules'[r] = schedules[r]
      /\ schedules'[s].at = a
      /\ schedules'[s].cancelled = schedules[s].cancelled
      /\ schedules'[s].recurring = schedules[s].recurring
  BY <1>1, <1>2, AtChanges
<1>4. schedules[s].at \in {"armed", "marking", "completing"}
  BY DEF Fires, MarkAsStarted, MarkAsCompleted
<1>5. SchedulerTypeOK'
  BY <1>2, <1>3 DEF SchedulerTypeOK, MarkAsStarted, MarkAsCompleted, Fires
<1>6. TypeOK'
  <2>1. \A r \in Ids : pc[r] /= "idle" =>
            r \in DOMAIN schedules' /\ schedules'[r].at = "running"
    BY <1>3, <1>4 DEF IInv, TypeOK
  <2>2. /\ plugin \in {"stopped", "started", "failed"} /\ isLoading \in BOOLEAN
        /\ pc \in [Threads -> Steps] /\ restarts \in 0..MaxRestarts
        /\ current \in 0..Len(schedules) /\ leaked \subseteq DOMAIN schedules
        /\ raced \in BOOLEAN
    BY DEF IInv, TypeOK
  <2>3. plugin' = plugin /\ current' = current /\ isLoading' = isLoading /\ pc' = pc
        /\ leaked' = leaked /\ raced' = raced /\ restarts' = restarts
    BY DEF loaderVars
  <2>4. QED
    BY <1>3, <1>5, <2>1, <2>2, <2>3 DEF TypeOK
<1>7. FlagTellsTheLoad'
  BY DEF IInv, FlagTellsTheLoad, Inside, Flagged, loaderVars
<1>8. ArmedIsCurrent' /\ StoppedIsUnscheduled'
  BY <1>1, <1>2, <1>3, <1>4
  DEF SchedulesInv, ArmedIsCurrent, StoppedIsUnscheduled, Armed, loaderVars
<1>9. RowsAreRecurring'
  <2>1. CASE Fires(s)
    BY <2>1, <1>2, <1>3 DEF Fires, SchedulesInv, RowsAreRecurring, SchedulerTypeOK
  <2>2. CASE MarkAsStarted(s)
    BY <2>2, <1>2, <1>3 DEF MarkAsStarted, SchedulesInv, RowsAreRecurring, SchedulerTypeOK
  <2>3. CASE MarkAsCompleted(s)
    BY <2>3, <1>2, <1>3 DEF MarkAsCompleted, SchedulesInv, RowsAreRecurring, SchedulerTypeOK
  <2>4. QED BY <2>1, <2>2, <2>3
<1>10. RunningRowsAreTicks'
  <2>1. CASE Fires(s)
    BY <2>1, <1>2, <1>3 DEF Fires, SchedulesInv, RunningRowsAreTicks, SchedulerTypeOK
  <2>2. CASE MarkAsStarted(s)
    BY <2>2, <1>2, <1>3 DEF MarkAsStarted, SchedulesInv, RunningRowsAreTicks, SchedulerTypeOK
  <2>3. CASE MarkAsCompleted(s)
    <3>1. s \notin states' \ left'
      BY <2>3 DEF MarkAsCompleted
    <3>2. states' \ left' \subseteq states \ left
      BY <2>3 DEF MarkAsCompleted
    <3>3. states' \subseteq DOMAIN schedules
      BY <1>3, <1>5 DEF SchedulerTypeOK
    <3>4. QED
      BY <3>1, <3>2, <3>3, <1>2, <1>3 DEF SchedulesInv, RunningRowsAreTicks
  <2>4. QED BY <2>1, <2>2, <2>3
<1>11. QED
  BY <1>6, <1>7, <1>8, <1>9, <1>10 DEF IInv, SchedulesInv

\* Flushing rows leaves fewer of them.
LEMMA FlushInv ==
    ASSUME IInv, FlushOldStates, UNCHANGED loaderVars
    PROVE  IInv'
<1>1. states' \subseteq states /\ schedules' = schedules /\ left' = left
  BY DEF FlushOldStates
<1>2. TypeOK'
  BY <1>1 DEF IInv, TypeOK, SchedulerTypeOK, loaderVars
<1>3. FlagTellsTheLoad'
  BY DEF IInv, FlagTellsTheLoad, Inside, Flagged, loaderVars
<1>4. SchedulesInv'
  BY <1>1 DEF IInv, SchedulesInv, ArmedIsCurrent, StoppedIsUnscheduled, Armed,
              RowsAreRecurring, RunningRowsAreTicks, loaderVars
<1>5. QED
  BY <1>2, <1>3, <1>4 DEF IInv

-----------------------------------------------------------------------------
(* runLoad *)

\* The end of runLoad keeps the types and what is known of the schedules.
LEMMA ReturnsKeeps ==
    ASSUME TypeOK, SchedulesInv, NEW t \in Threads, NEW outcome,
           pc[t] /= "idle", Returns(t, outcome), UNCHANGED <<plugin, current, leaked>>
    PROVE  /\ SchedulerTypeOK' /\ SchedulesInv'
           /\ Len(schedules') = Len(schedules)
           /\ pc' = [pc EXCEPT ![t] = "idle"] /\ pc' \in [Threads -> Steps]
           /\ \A s \in Ids : pc'[s] /= "idle" =>
                  s \in DOMAIN schedules' /\ schedules'[s].at = "running"
<1>1. pc' = [pc EXCEPT ![t] = "idle"] /\ pc' \in [Threads -> Steps]
  BY DEF Returns, Goes, TypeOK, Steps
<1>2. \A s \in Ids : pc'[s] /= "idle" => s /= t /\ pc[s] /= "idle"
  BY <1>1 DEF TypeOK, Threads
<1>3. SchedulerTypeOK
  BY DEF TypeOK
<1>4. CASE t \in Ids
  <2>1. t \in DOMAIN schedules /\ RunEnds(t, outcome)
    BY <1>4 DEF TypeOK, Returns
  <2>2. /\ SchedulerTypeOK' /\ SchedulesInv'
        /\ Len(schedules') = Len(schedules)
        /\ \A r \in DOMAIN schedules : r /= t => schedules'[r] = schedules[r]
    BY <1>3, <2>1, RunEndsKeeps
  <2>3. DOMAIN schedules' = DOMAIN schedules
    BY <1>3, <2>2 DEF SchedulerTypeOK
  <2>4. QED
    BY <1>1, <1>2, <2>2, <2>3 DEF TypeOK
<1>5. CASE t \notin Ids
  <2>1. UNCHANGED schedulerVars
    BY <1>5 DEF Returns
  <2>2. SchedulerTypeOK' /\ SchedulesInv'
    BY <1>3, <2>1 DEF SchedulerTypeOK, SchedulesInv, ArmedIsCurrent, StoppedIsUnscheduled,
                      RowsAreRecurring, RunningRowsAreTicks, Armed, schedulerVars
  <2>3. QED
    BY <1>1, <1>2, <2>1, <2>2 DEF TypeOK, schedulerVars
<1>6. QED
  BY <1>4, <1>5

\* A step inside runLoad moves one thread and leaves the schedules alone.
LEMMA GoesKeeps ==
    ASSUME TypeOK, SchedulesInv, NEW t \in Threads, NEW step \in Steps,
           step /= "idle" => t \notin Ids \/ (t \in DOMAIN schedules /\ schedules[t].at = "running"),
           Goes(t, step), UNCHANGED schedulerVars, UNCHANGED <<plugin, current, leaked>>
    PROVE  /\ SchedulerTypeOK' /\ SchedulesInv'
           /\ Len(schedules') = Len(schedules)
           /\ pc' = [pc EXCEPT ![t] = step] /\ pc' \in [Threads -> Steps]
           /\ \A s \in Ids : pc'[s] /= "idle" =>
                  s \in DOMAIN schedules' /\ schedules'[s].at = "running"
<1>1. pc' = [pc EXCEPT ![t] = step] /\ pc' \in [Threads -> Steps]
  BY DEF Goes, TypeOK
<1>2. SchedulerTypeOK' /\ SchedulesInv'
  BY DEF TypeOK, SchedulerTypeOK, SchedulesInv, ArmedIsCurrent, StoppedIsUnscheduled,
         RowsAreRecurring, RunningRowsAreTicks, Armed, schedulerVars
<1>3. \A s \in Ids : pc'[s] /= "idle" =>
          s \in DOMAIN schedules' /\ schedules'[s].at = "running"
  BY <1>1 DEF TypeOK, Threads, schedulerVars
<1>4. QED
  BY <1>1, <1>2, <1>3 DEF schedulerVars

\* A step of one thread takes it in or out of the two sets, and leaves the others
\* where they are.
LEMMA StepOf ==
    ASSUME pc \in [Threads -> Steps], NEW t \in Threads, NEW step, Goes(t, step)
    PROVE  /\ Flagged' = IF step \in {"enter", "load", "lower", "lowerError"}
                           THEN Flagged \cup {t} ELSE Flagged \ {t}
           /\ Inside' = IF step \in {"raise", "enter", "load", "lower", "lowerError"}
                          THEN Inside \cup {t} ELSE Inside \ {t}
  BY DEF Goes, Flagged, Inside

\* The flag goes on telling whether a load is under way, or the race is on record:
\* as long as nobody has raced, the thread which lowers the flag is the only one in.
LEMMA RunLoadFlag ==
    ASSUME IInv, NEW t \in Threads,
           \/ t \in DOMAIN schedules /\ TickBegins(t)
           \/ t \in Routees /\ Trigger(t)
           \/ RunLoad(t)
    PROVE  FlagTellsTheLoad' /\ raced' \in BOOLEAN
<1>1. pc \in [Threads -> Steps] /\ raced \in BOOLEAN /\ FlagTellsTheLoad
  BY DEF IInv, TypeOK
<1>2. /\ t \in Flagged <=> pc[t] \in {"enter", "load", "lower", "lowerError"}
      /\ t \in Inside <=> pc[t] = "raise" \/ t \in Flagged
  BY DEF Flagged, Inside
<1>3. CASE Inside' = Inside /\ Flagged' = Flagged /\ UNCHANGED <<isLoading, raced>>
  BY <1>1, <1>3 DEF FlagTellsTheLoad
<1>4. ASSUME Goes(t, "check") \/ Goes(t, "idle"), pc[t] \in {"idle", "check"},
             UNCHANGED <<isLoading, raced>>
      PROVE  FlagTellsTheLoad' /\ raced' \in BOOLEAN
  <2>1. Inside' = Inside \ {t} /\ Flagged' = Flagged \ {t}
    BY <1>1, <1>4, StepOf
  <2>2. QED
    BY <1>2, <1>3, <1>4, <2>1
<1>5. CASE TickBegins(t) \/ Trigger(t)
  BY <1>4, <1>5 DEF TickBegins, Trigger
<1>6. CASE Check(t)
  <2>1. CASE /\ ~isLoading /\ Goes(t, "raise")
             /\ raced' = (raced \/ \E u \in Threads : pc[u] = "raise")
    <3>1. Inside' = Inside \cup {t} /\ Flagged' = Flagged /\ isLoading' = isLoading
      BY <1>1, <1>2, <1>6, <2>1, StepOf DEF Check
    <3>2. raced' \in BOOLEAN
      BY <2>1
    <3>3. ~raced' => Inside = {} /\ Flagged = {}
      <4>1. SUFFICES ASSUME ~raced' PROVE Inside = {} /\ Flagged = {}
        OBVIOUS
      <4>2. Flagged = {}
        BY <1>1, <2>1, <4>1 DEF FlagTellsTheLoad
      <4>3. QED
        BY <2>1, <4>1, <4>2 DEF Inside
    <3>4. QED
      BY <2>1, <3>1, <3>2, <3>3 DEF FlagTellsTheLoad
  <2>2. CASE (Returns(t, "done") \/ Returns(t, "exception")) /\ UNCHANGED raced
    BY <1>4, <1>6, <2>2 DEF Check, Returns
  <2>3. QED BY <1>6, <2>1, <2>2 DEF Check
<1>7. CASE Raise(t)
  <2>1. Inside' = Inside /\ Flagged' = Flagged \cup {t} /\ isLoading' = TRUE /\ raced' = raced
    BY <1>1, <1>2, <1>7, StepOf DEF Raise
  <2>2. QED
    BY <1>1, <2>1 DEF FlagTellsTheLoad
<1>8. CASE Enter(t) \/ Load(t)
  <2>1. Inside' = Inside \cup {t} /\ Flagged' = Flagged \cup {t}
    BY <1>1, <1>8, StepOf DEF Enter, Load
  <2>2. UNCHANGED <<isLoading, raced>> /\ t \in Inside /\ t \in Flagged
    BY <1>2, <1>8 DEF Enter, Load
  <2>3. QED
    BY <1>3, <2>1, <2>2
<1>9. CASE Lower(t)
  <2>1. Goes(t, "idle") /\ t \in Inside
    BY <1>2, <1>9 DEF Lower, Returns
  <2>2. Inside' = Inside \ {t} /\ Flagged' = Flagged \ {t}
    BY <1>1, <2>1, StepOf
  <2>3. isLoading' = FALSE /\ raced' = (raced /\ Inside /= {t})
    BY <1>9 DEF Lower
  <2>4. ~raced' => Inside = {t}
    BY <1>1, <2>1, <2>3 DEF FlagTellsTheLoad
  <2>5. Flagged \subseteq Inside
    BY DEF Inside
  <2>6. raced' \in BOOLEAN
    BY <2>3
  <2>7. ~raced' => Inside' = {} /\ Flagged' = {}
    BY <2>2, <2>4, <2>5
  <2>8. QED
    BY <2>3, <2>6, <2>7 DEF FlagTellsTheLoad
<1>10. QED
  BY <1>5, <1>6, <1>7, <1>8, <1>9 DEF RunLoad

\* What the steps of runLoad have in common: one thread moves.
Moves(t) ==
    /\ SchedulerTypeOK' /\ SchedulesInv'
    /\ Len(schedules') = Len(schedules)
    /\ \E step \in Steps : pc' = [pc EXCEPT ![t] = step]
    /\ pc' \in [Threads -> Steps]
    /\ \A s \in Ids : pc'[s] /= "idle" =>
           s \in DOMAIN schedules' /\ schedules'[s].at = "running"

\* A step of runLoad, by any thread, keeps the invariant.
LEMMA MovesInv ==
    ASSUME IInv, NEW t \in Threads, Moves(t),
           UNCHANGED <<plugin, current, leaked, restarts>>, isLoading' \in BOOLEAN,
           FlagTellsTheLoad' /\ raced' \in BOOLEAN
    PROVE  IInv'
<1>1. TypeOK'
  <2>1. DOMAIN schedules' = DOMAIN schedules
    BY DEF Moves, IInv, TypeOK, SchedulerTypeOK
  <2>2. QED
    BY <2>1 DEF Moves, IInv, TypeOK
<1>2. QED
  BY <1>1 DEF IInv, Moves

\* Every step of runLoad, by a tick or by a routee, keeps the invariant.
LEMMA RunLoadInv ==
    ASSUME IInv, NEW t \in Threads,
           \/ t \in DOMAIN schedules /\ TickBegins(t)
           \/ t \in Routees /\ Trigger(t)
           \/ RunLoad(t)
    PROVE  IInv'
<1>1. TypeOK /\ SchedulesInv /\ isLoading \in BOOLEAN
  BY DEF IInv, TypeOK
<1>2. pc[t] /= "idle" => t \notin Ids \/ (t \in DOMAIN schedules /\ schedules[t].at = "running")
  BY <1>1 DEF TypeOK
<1>3. UNCHANGED <<plugin, current, leaked>> /\ UNCHANGED restarts
  BY DEF TickBegins, Trigger, RunLoad, Check, Raise, Enter, Load, Lower
<1> FlagTellsTheLoad' /\ raced' \in BOOLEAN
  BY RunLoadFlag
<1>4. ASSUME NEW step \in Steps,
             step /= "idle" =>
                 t \notin Ids \/ (t \in DOMAIN schedules /\ schedules[t].at = "running"),
             Goes(t, step), UNCHANGED schedulerVars
      PROVE  Moves(t)
  BY <1>1, <1>3, <1>4, GoesKeeps DEF Moves
<1>5. ASSUME NEW outcome, pc[t] /= "idle", Returns(t, outcome)
      PROVE  Moves(t)
  <2>1. "idle" \in Steps
    BY DEF Steps
  <2>2. QED
    BY <1>1, <1>3, <1>5, <2>1, ReturnsKeeps DEF Moves
<1>6. CASE t \in DOMAIN schedules /\ TickBegins(t)
  BY <1>1, <1>3, <1>4, <1>6, MovesInv DEF TickBegins, Steps
<1>7. CASE t \in Routees /\ Trigger(t)
  BY <1>1, <1>3, <1>4, <1>7, MovesInv, RouteesAssumption DEF Trigger, Steps
<1>8. CASE Check(t)
  <2>1. CASE ~isLoading /\ Goes(t, "raise") /\ UNCHANGED schedulerVars
    BY <1>1, <1>2, <1>3, <1>4, <1>8, <2>1, MovesInv DEF Check, Steps
  <2>2. CASE Returns(t, "done") \/ Returns(t, "exception")
    BY <1>1, <1>3, <1>5, <1>8, <2>2, MovesInv DEF Check
  <2>3. QED BY <1>8, <2>1, <2>2 DEF Check
<1>9. CASE Raise(t)
  BY <1>1, <1>2, <1>3, <1>4, <1>9, MovesInv DEF Raise, Steps
<1>10. CASE Enter(t)
  <2>1. Goes(t, "load") /\ UNCHANGED schedulerVars /\ pc[t] /= "idle" /\ "load" \in Steps
        /\ isLoading' = isLoading
    BY <1>10 DEF Enter, Steps
  <2>2. QED
    BY <1>1, <1>2, <1>3, <1>4, <1>10, <2>1, MovesInv
<1>11. CASE Load(t)
  BY <1>1, <1>2, <1>3, <1>4, <1>11, MovesInv DEF Load, Steps
<1>12. CASE Lower(t)
  <2>1. pc[t] /= "idle" /\ isLoading' \in BOOLEAN /\ \E outcome : Returns(t, outcome)
    BY <1>12 DEF Lower
  <2>2. QED
    BY <1>3, <1>5, <2>1, MovesInv
<1>13. QED
  BY <1>6, <1>7, <1>8, <1>9, <1>10, <1>11, <1>12 DEF RunLoad

-----------------------------------------------------------------------------
(* The life cycle of the runner *)

\* A start which schedules nothing touches nothing but the status.
LEMMA StartUnscheduledInv == IInv /\ StartUnscheduled => IInv'
<1> SUFFICES ASSUME IInv, StartUnscheduled PROVE IInv'
  OBVIOUS
<1>1. plugin' \in {"started", "failed"} /\ plugin' /= "stopped"
  BY DEF StartUnscheduled
<1>2. UNCHANGED <<schedulerVars, current, isLoading, pc, leaked, raced, restarts>>
  BY DEF StartUnscheduled
<1>3. TypeOK'
  BY <1>1, <1>2 DEF IInv, TypeOK, SchedulerTypeOK, schedulerVars
<1>4. FlagTellsTheLoad'
  BY <1>2 DEF IInv, FlagTellsTheLoad, Inside, Flagged
<1>5. SchedulesInv'
  BY <1>1, <1>2 DEF IInv, SchedulesInv, ArmedIsCurrent, StoppedIsUnscheduled, Armed,
                   RowsAreRecurring, RunningRowsAreTicks, schedulerVars
<1>6. QED
  BY <1>3, <1>4, <1>5 DEF IInv

\* The schedule which a start replaces is out of reach from then on.
LEMMA StartScheduledInv == IInv /\ StartScheduled => IInv'
<1> SUFFICES ASSUME IInv, StartScheduled PROVE IInv'
  OBVIOUS
<1> DEFINE new == [uuid |-> Uuid, exclusive |-> TRUE, recurring |-> TRUE,
                   cancelled |-> FALSE, at |-> "armed"]
<1>1. TypeOK /\ SchedulerTypeOK /\ SchedulesInv /\ schedules \in Seq(Schedule)
  BY DEF IInv, TypeOK, SchedulerTypeOK
<1>2. new \in Schedule
  BY UuidAssumption DEF Schedule, Stages
<1>3. schedules' = Append(schedules, new)
  BY DEF StartScheduled, Scheduled
<1>4. /\ schedules' \in Seq(Schedule) /\ Len(schedules') = Len(schedules) + 1
      /\ DOMAIN schedules' = DOMAIN schedules \cup {Len(schedules')}
      /\ \A r \in DOMAIN schedules : schedules'[r] = schedules[r]
      /\ schedules'[Len(schedules')] = new
  <2> HIDE DEF new
  <2>1. QED BY <1>1, <1>2, <1>3
<1>5. /\ current' = Len(schedules') /\ plugin' \in {"started", "failed"}
      /\ leaked' = leaked \cup {s \in {current} : s /= 0 /\ Armed(s)}
      /\ UNCHANGED <<states, left, isLoading, pc, raced, restarts>>
  BY DEF StartScheduled
<1>6. SchedulerTypeOK'
  <2>1. Len(schedules') <= MaxSchedules
    <3> HIDE DEF new
    <3>1. Len(schedules) < MaxSchedules /\ Len(schedules) \in Nat
      BY <1>1 DEF StartScheduled
    <3>2. QED BY <1>4, <3>1, MaxSchedulesAssumption
  <2>2. QED
    BY <1>1, <1>4, <1>5, <2>1 DEF SchedulerTypeOK
<1>7. TypeOK'
  <2>1. leaked' \subseteq DOMAIN schedules'
    <3>1. current /= 0 => current \in DOMAIN schedules
      BY <1>1 DEF TypeOK
    <3>2. leaked \subseteq DOMAIN schedules
      BY <1>1 DEF TypeOK
    <3>3. QED BY <1>4, <1>5, <3>1, <3>2
  <2>2. current' \in 0..Len(schedules')
    BY <1>4, <1>5
  <2>3. \A s \in Ids : pc'[s] /= "idle" =>
            s \in DOMAIN schedules' /\ schedules'[s].at = "running"
    BY <1>1, <1>4, <1>5 DEF TypeOK
  <2>4. /\ plugin' \in {"stopped", "started", "failed"} /\ isLoading' \in BOOLEAN
        /\ pc' \in [Threads -> Steps] /\ restarts' \in 0..MaxRestarts /\ raced' \in BOOLEAN
    BY <1>1, <1>5 DEF TypeOK
  <2>5. QED
    BY <1>6, <2>1, <2>2, <2>3, <2>4 DEF TypeOK
<1>8. FlagTellsTheLoad'
  BY <1>5 DEF IInv, FlagTellsTheLoad, Inside, Flagged
<1>9. ArmedIsCurrent'
  <2> SUFFICES ASSUME NEW s \in DOMAIN schedules' \ leaked', Armed(s)'
               PROVE s = current'
    BY DEF ArmedIsCurrent
  <2>1. CASE s = Len(schedules')
    BY <2>1, <1>5
  <2>2. CASE s \in DOMAIN schedules
    <3>1. Armed(s) /\ s \notin leaked
      BY <2>2, <1>4, <1>5 DEF Armed
    <3>2. s = current
      BY <2>2, <3>1, <1>1 DEF SchedulesInv, ArmedIsCurrent
    <3>3. s /= 0
      BY <2>2, <1>1
    <3>4. QED BY <3>1, <3>2, <3>3, <1>5
  <2>3. QED BY <2>1, <2>2, <1>4
<1>10. StoppedIsUnscheduled'
  BY <1>5 DEF StoppedIsUnscheduled
<1>11. RowsAreRecurring' /\ RunningRowsAreTicks'
  BY <1>1, <1>4, <1>5
  DEF SchedulesInv, RowsAreRecurring, RunningRowsAreTicks, SchedulerTypeOK
<1>12. QED
  BY <1>7, <1>8, <1>9, <1>10, <1>11 DEF IInv, SchedulesInv

\* Stopping cancels the schedule the runner refers to.
LEMMA StopInv == IInv /\ Stop => IInv'
<1> SUFFICES ASSUME IInv, Stop PROVE IInv'
  OBVIOUS
<1>1. TypeOK /\ SchedulerTypeOK /\ SchedulesInv
  BY DEF IInv, TypeOK
<1>2. /\ plugin' = "stopped"
      /\ UNCHANGED <<states, left, current, isLoading, pc, leaked, raced, restarts>>
  BY DEF Stop
<1>3. FlagTellsTheLoad'
  BY <1>2 DEF IInv, FlagTellsTheLoad, Inside, Flagged
<1>4. CASE current = 0
  <2>1. schedules' = schedules
    BY <1>4 DEF Stop
  <2>2. TypeOK'
    BY <1>1, <1>2, <2>1 DEF TypeOK, SchedulerTypeOK
  <2>3. ArmedIsCurrent' /\ StoppedIsUnscheduled'
    <3>1. 0 \notin DOMAIN schedules
      BY <1>1 DEF SchedulerTypeOK
    <3>2. QED
      BY <1>1, <1>2, <1>4, <2>1, <3>1
      DEF SchedulesInv, ArmedIsCurrent, StoppedIsUnscheduled, Armed
  <2>4. RowsAreRecurring' /\ RunningRowsAreTicks'
    BY <1>1, <1>2, <2>1 DEF SchedulesInv, RowsAreRecurring, RunningRowsAreTicks
  <2>5. QED
    BY <1>3, <2>2, <2>3, <2>4 DEF IInv, SchedulesInv
<1>5. CASE current /= 0
  <2> DEFINE old == schedules[current]
             new == [[old EXCEPT !.cancelled = TRUE] EXCEPT
                        !.at = IF old.at = "armed" THEN "ended" ELSE old.at]
  <2>1. current \in DOMAIN schedules /\ old \in Schedule /\ schedules \in Seq(Schedule)
    BY <1>1, <1>5 DEF TypeOK, SchedulerTypeOK
  <2>2. /\ new \in Schedule /\ new.cancelled /\ new.recurring = old.recurring
        /\ new.at = old.at \/ (old.at = "armed" /\ new.at = "ended")
    BY <2>1 DEF Schedule, Stages
  <2>3. schedules' = [schedules EXCEPT ![current] = new]
    BY <1>5, <2>1 DEF Stop, Cancelled, Schedule
  <2>4. /\ schedules' \in Seq(Schedule) /\ Len(schedules') = Len(schedules)
        /\ DOMAIN schedules' = DOMAIN schedules
        /\ \A r \in DOMAIN schedules : r /= current => schedules'[r] = schedules[r]
        /\ schedules'[current] = new
    <3> HIDE DEF new
    <3>1. QED BY <2>1, <2>2, <2>3
  <2> HIDE DEF new
  <2>5. SchedulerTypeOK'
    BY <1>1, <1>2, <2>4 DEF SchedulerTypeOK
  <2>6. TypeOK'
    BY <1>1, <1>2, <2>2, <2>4, <2>5 DEF TypeOK
  <2>7. \A s \in DOMAIN schedules' \ leaked' : ~Armed(s)'
    <3> SUFFICES ASSUME NEW s \in DOMAIN schedules' \ leaked', Armed(s)'
                 PROVE FALSE
      OBVIOUS
    <3>1. CASE s = current
      BY <3>1, <2>2, <2>4 DEF Armed
    <3>2. CASE s /= current
      BY <3>2, <1>1, <1>2, <2>4 DEF Armed, SchedulesInv, ArmedIsCurrent
    <3>3. QED BY <3>1, <3>2
  <2>8. RowsAreRecurring' /\ RunningRowsAreTicks'
    <3>1. states \subseteq DOMAIN schedules
      BY <1>1 DEF SchedulerTypeOK
    <3>2. QED
      BY <1>1, <1>2, <2>2, <2>4, <3>1
      DEF SchedulesInv, RowsAreRecurring, RunningRowsAreTicks
  <2>9. QED
    BY <1>3, <2>6, <2>7, <2>8
    DEF IInv, SchedulesInv, ArmedIsCurrent, StoppedIsUnscheduled
<1>6. QED
  BY <1>4, <1>5

\* A crash ends every schedule, and leaves to the rows the name of lost.
LEMMA RestartInv == IInv /\ Restart => IInv'
<1> SUFFICES ASSUME IInv, Restart PROVE IInv'
  OBVIOUS
<1>1. TypeOK /\ SchedulerTypeOK /\ SchedulesInv /\ schedules \in Seq(Schedule)
  BY DEF IInv, TypeOK, SchedulerTypeOK
<1>2. schedules' = [s \in DOMAIN schedules |-> [schedules[s] EXCEPT !.at = "ended"]]
  BY DEF Restart, AllEnded
<1>3. \A s \in DOMAIN schedules :
          /\ [schedules[s] EXCEPT !.at = "ended"] \in Schedule
          /\ [schedules[s] EXCEPT !.at = "ended"].at = "ended"
          /\ [schedules[s] EXCEPT !.at = "ended"].recurring = schedules[s].recurring
  <2>1. TAKE s \in DOMAIN schedules
  <2>2. schedules[s] \in Schedule
    BY <1>1
  <2>3. QED
    BY <2>2 DEF Schedule, Stages
<1>4. schedules' \in [1..Len(schedules) -> Schedule]
  BY <1>1, <1>2, <1>3
<1>5. /\ schedules' \in Seq(Schedule) /\ Len(schedules') = Len(schedules)
      /\ DOMAIN schedules' = DOMAIN schedules
  BY <1>1, <1>4
<1>6. \A s \in DOMAIN schedules :
          schedules'[s].at = "ended" /\ schedules'[s].recurring = schedules[s].recurring
  BY <1>2, <1>3
<1>7. /\ states' = states /\ left' = left \cup states /\ leaked' = leaked
      /\ plugin' = "stopped" /\ current' = 0 /\ isLoading' = FALSE
      /\ pc' = [t \in Threads |-> "idle"] /\ raced' = FALSE /\ restarts' \in 0..MaxRestarts
  BY <1>1, MaxRestartsAssumption DEF Restart, TypeOK
<1>8. SchedulerTypeOK'
  BY <1>1, <1>5, <1>7 DEF SchedulerTypeOK
<1>9. TypeOK'
  <2>1. pc' \in [Threads -> Steps] /\ \A s \in Ids : pc'[s] = "idle"
    BY <1>7 DEF Steps, Threads
  <2>2. current' \in 0..Len(schedules') /\ leaked' \subseteq DOMAIN schedules'
    BY <1>1, <1>5, <1>7 DEF TypeOK
  <2>3. isLoading' \in BOOLEAN /\ plugin' \in {"stopped", "started", "failed"}
    BY <1>7
  <2>4. QED
    BY <1>7, <1>8, <2>1, <2>2, <2>3 DEF TypeOK
<1>10. FlagTellsTheLoad'
  <2>1. Inside' = {} /\ Flagged' = {}
    BY <1>7 DEF Inside, Flagged
  <2>2. QED
    BY <1>7, <2>1 DEF FlagTellsTheLoad
<1>11. ArmedIsCurrent' /\ StoppedIsUnscheduled'
  BY <1>5, <1>6 DEF ArmedIsCurrent, StoppedIsUnscheduled, Armed
<1>12. RowsAreRecurring'
  BY <1>1, <1>5, <1>6, <1>7 DEF SchedulesInv, RowsAreRecurring, SchedulerTypeOK
<1>13. RunningRowsAreTicks'
  BY <1>7 DEF RunningRowsAreTicks
<1>14. QED
  BY <1>9, <1>10, <1>11, <1>12, <1>13 DEF IInv, SchedulesInv

-----------------------------------------------------------------------------
(* The theorems *)

\* No step of the system leaves the invariant.
LEMMA NextInv == IInv /\ [Next]_vars => IInv'
<1> SUFFICES ASSUME IInv, [Next]_vars PROVE IInv'
  OBVIOUS
<1>1. CASE /\ \E s \in DOMAIN schedules : Fires(s) \/ MarkAsStarted(s) \/ MarkAsCompleted(s)
           /\ UNCHANGED loaderVars
  BY <1>1, TickInv
<1>2. CASE FlushOldStates /\ UNCHANGED loaderVars
  BY <1>2, FlushInv
<1>3. CASE \E s \in DOMAIN schedules : TickBegins(s)
  <2>1. DOMAIN schedules \subseteq Threads
    BY MaxSchedulesAssumption DEF IInv, TypeOK, SchedulerTypeOK, Threads, Ids
  <2>2. QED BY <1>3, <2>1, RunLoadInv
<1>4. CASE \E t \in Routees : Trigger(t)
  BY <1>4, RunLoadInv DEF Threads
<1>5. CASE \E t \in Threads : RunLoad(t)
  BY <1>5, RunLoadInv
<1>6. CASE StartUnscheduled \/ StartScheduled \/ Stop \/ Restart
  BY <1>6, StartUnscheduledInv, StartScheduledInv, StopInv, RestartInv
<1>7. CASE UNCHANGED vars
  <2>1. UNCHANGED schedulerVars /\ UNCHANGED loaderVars
    BY <1>7 DEF vars
  <2>2. TypeOK' /\ FlagTellsTheLoad'
    BY <2>1 DEF IInv, TypeOK, SchedulerTypeOK, FlagTellsTheLoad, Inside, Flagged,
                schedulerVars, loaderVars
  <2>3. SchedulesInv'
    BY <2>1 DEF IInv, SchedulesInv, ArmedIsCurrent, StoppedIsUnscheduled, Armed,
                RowsAreRecurring, RunningRowsAreTicks, schedulerVars, loaderVars
  <2>4. QED BY <2>2, <2>3 DEF IInv
<1>8. QED
  BY <1>1, <1>2, <1>3, <1>4, <1>5, <1>6, <1>7 DEF Next, Ticks

\* The invariant, from the steps above.
LEMMA Invariance == Spec => []IInv
<1>1. QED
  BY InitInv, NextInv, PTL DEF Spec

\* Every variable keeps its type, and a tick is inside runLoad only while its
\* schedule runs.
THEOREM LoaderTypeCorrect == Spec => []TypeOK
<1>1. IInv => TypeOK
  BY DEF IInv
<1>2. QED
  BY <1>1, Invariance, PTL

\* Whatever the number of routees and of schedules: from the start, and again once
\* all those which have passed the test of the flag together are gone, one thread
\* at most is past the test and the flag is up as long as it has not finished.
THEOREM FlagTellsTheLoadCorrect == Spec => []FlagTellsTheLoad
<1>1. IInv => FlagTellsTheLoad
  BY DEF IInv
<1>2. QED
  BY <1>1, Invariance, PTL

\* A plugin which is stopped has no schedule but those it had lost sight of.
THEOREM StoppedIsUnscheduledCorrect == Spec => []StoppedIsUnscheduled
<1>1. IInv => StoppedIsUnscheduled
  BY DEF IInv, SchedulesInv
<1>2. QED
  BY <1>1, Invariance, PTL

\* A row which says running is the row of a tick under way, unless a crash, an
\* error or a failure of the database has left it.
THEOREM RunningRowsAreTicksCorrect == Spec => []RunningRowsAreTicks
<1>1. IInv => RunningRowsAreTicks
  BY DEF IInv, SchedulesInv
<1>2. QED
  BY <1>1, Invariance, PTL
=============================================================================
