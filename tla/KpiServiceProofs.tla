--------------------------- MODULE KpiServiceProofs ---------------------------
(***************************************************************************)
(* Proofs about KpiService: the types, that nothing runs for a KPI but the *)
(* schedule of the object which is listed, and that what fires after the   *)
(* cancel stores nothing, for any number of KPIs, threads, reloads and     *)
(* schedules.                                                              *)
(***************************************************************************)
EXTENDS KpiService, SequenceTheorems, TLAPS

-----------------------------------------------------------------------------
(* The inductive invariant *)

\* A schedule belongs to the object that made it.
Owns(k, s) == s \in {instances[k].initial, instances[k].scheduler}

\* An object keeps a recurring schedule of its KPI and has made an initial one.
\* When it is cancelled its schedule is.
InstanceInv(k) ==
    /\ instances[k].initial /= 0 =>
           /\ instances[k].initial \in DOMAIN schedules
           /\ ~schedules[instances[k].initial].recurring
    /\ instances[k].scheduler /= 0 =>
           /\ instances[k].scheduler \in DOMAIN schedules
           /\ schedules[instances[k].scheduler].recurring
           /\ schedules[instances[k].scheduler].uuid = instances[k].uid
           /\ instances[k].cancelled => schedules[instances[k].scheduler].cancelled

\* A schedule has one owner, and what is cancelled does not wait for its time.
ScheduleInv(s) ==
    /\ schedules[s].cancelled => schedules[s].at /= "armed"
    /\ \E k \in DOMAIN instances : Owns(k, s)
    /\ \A k, l \in DOMAIN instances : Owns(k, s) /\ Owns(l, s) => k = l

ObjectsInv ==
    /\ schedules \in Seq(Schedule) /\ instances \in Seq(Instance)
    /\ Len(schedules) <= 2 * Len(instances) /\ 2 * Len(instances) <= MaxSchedules
    /\ \A k \in DOMAIN instances : InstanceInv(k)
    /\ \A s \in DOMAIN schedules : ScheduleInv(s)

\* What a call knows of the objects, and who runs init().
CallInv(c, call) ==
    /\ call.at \in {"cancelOne", "put"} =>
           call.kpi \in DOMAIN instances /\ instances[call.kpi].uid = call.uid
    /\ call.then = "up" => c = Boot
    /\ call.then /= "end" => call.at \in {"next", "load", "put"}
    /\ call.at = "next" => call.then /= "end"
    /\ call.then /= "end" /\ call.at /= "next" => call.todo[call.uid] = "inactive"

CallsInv ==
    /\ kpis \in [Uids -> 0..Len(instances)]
    /\ \A u \in Uids : kpis[u] /= 0 => instances[kpis[u]].uid = u
    /\ calls \in [Callers -> Call]
    /\ \A c \in Callers : CallInv(c, calls[c])
    /\ begun \in 0..MaxCalls /\ clean \subseteq Uids

\* The runs: a late one is an initial run, of an object that is cancelled.
LateInv(s) == /\ ~schedules[s].recurring /\ s \notin storing
              /\ \A k \in DOMAIN instances : Owns(k, s) => instances[k].cancelled

RunsInv ==
    /\ states \subseteq DOMAIN schedules /\ left \subseteq DOMAIN schedules
    /\ storing \subseteq {s \in DOMAIN schedules : schedules[s].at = "running"}
    /\ late \subseteq DOMAIN schedules /\ erred \subseteq DOMAIN schedules
    /\ \A s \in late : LateInv(s)

\* A KPI is going to be loaded by a thread.
DueForLoad(u) == \E c \in Callers :
    \/ calls[c].uid = u /\ calls[c].at \in {"read", "load", "put"}
    \/ calls[c].then = "up" /\ calls[c].todo[u] /= "inactive"

\* The steps of the threads at a KPI whose reloads do not overlap.
CleanCalls(u) ==
    /\ \A c, d \in WorkingOn(u) : c = d
    /\ \A c \in Callers : calls[c].then /= "cancelAll" /\ calls[c].at /= "cancelAll"
    /\ DueForLoad(u) => kpis[u] = 0
    /\ \A c \in Callers : calls[c].uid = u /\ calls[c].at \in {"cancelOne", "remove"} =>
           kpis[u] /= 0 /\ calls[c].kpi = kpis[u]

\* The schedule which runs for it: that of the listed object, cancelled just
\* before the object leaves the table, or that of the object to be put there.
CleanSchedules(u) ==
    /\ kpis[u] /= 0 /\ instances[kpis[u]].scheduler /= 0 =>
           \/ ~schedules[instances[kpis[u]].scheduler].cancelled
           \/ \E c \in Callers : calls[c].uid = u /\ calls[c].at = "remove"
    /\ \A c \in Callers : calls[c].uid = u /\ calls[c].at = "remove"
                          /\ instances[kpis[u]].scheduler /= 0 =>
           schedules[instances[kpis[u]].scheduler].cancelled
    /\ \A c \in Callers : calls[c].uid = u /\ calls[c].at = "put"
                          /\ instances[calls[c].kpi].scheduler /= 0 =>
           ~schedules[instances[calls[c].kpi].scheduler].cancelled
    /\ \A s \in DOMAIN schedules :
           schedules[s].uuid = u /\ schedules[s].recurring /\ Armed(s) =>
               \/ kpis[u] /= 0 /\ s = instances[kpis[u]].scheduler
               \/ \E c \in Callers : /\ calls[c].uid = u /\ calls[c].at = "put"
                                     /\ s = instances[calls[c].kpi].scheduler

IInv == /\ ObjectsInv /\ CallsInv /\ RunsInv
        /\ \A u \in clean : CleanCalls(u) /\ CleanSchedules(u)

-----------------------------------------------------------------------------
(* The objects and their schedules *)

\* What the invariant says of the domains.
LEMMA Domains ==
    ASSUME ObjectsInv
    PROVE  /\ DOMAIN schedules = 1..Len(schedules) /\ Len(schedules) \in Nat
           /\ DOMAIN instances = 1..Len(instances) /\ Len(instances) \in Nat
           /\ \A s \in DOMAIN schedules : schedules[s] \in Schedule
           /\ \A k \in DOMAIN instances : instances[k] \in Instance
  BY DEF ObjectsInv

\* A schedule is of the KPI of its owner only.
LEMMA OwnerOf ==
    ASSUME ObjectsInv, NEW s \in DOMAIN schedules
    PROVE  /\ InstanceOf(s) \in DOMAIN instances /\ Owns(InstanceOf(s), s)
           /\ \A k \in DOMAIN instances : Owns(k, s) => k = InstanceOf(s)
<1>1. /\ \E k \in DOMAIN instances : Owns(k, s)
      /\ \A k, l \in DOMAIN instances : Owns(k, s) /\ Owns(l, s) => k = l
  BY DEF ObjectsInv, ScheduleInv
<1>2. InstanceOf(s) = CHOOSE k \in DOMAIN instances : Owns(k, s)
  BY DEF InstanceOf, Owns
<1>3. QED
  BY <1>1, <1>2

\* One schedule goes to another stage of its tick.
Moves(s, stage) ==
    /\ s \in DOMAIN schedules /\ stage \in Stages
    /\ schedules[s].at /= "ended"
    /\ schedules[s].cancelled => stage /= "armed"
    /\ schedules' = [schedules EXCEPT ![s].at = stage]

\* Such a move keeps the KPI, the kind and the cancellation of every schedule.
LEMMA MovesEffect ==
    ASSUME ObjectsInv, NEW s, NEW stage, Moves(s, stage)
    PROVE  /\ schedules' \in Seq(Schedule) /\ Len(schedules') = Len(schedules)
           /\ DOMAIN schedules' = DOMAIN schedules
           /\ \A x \in DOMAIN schedules :
                  /\ schedules'[x].uuid = schedules[x].uuid
                  /\ schedules'[x].recurring = schedules[x].recurring
                  /\ schedules'[x].cancelled = schedules[x].cancelled
                  /\ schedules'[x].at = IF x = s THEN stage ELSE schedules[x].at
<1>1. schedules \in Seq(Schedule) /\ s \in 1..Len(schedules) /\ schedules[s] \in Schedule
  BY Domains DEF Moves, ObjectsInv
<1> DEFINE e == [schedules[s] EXCEPT !.at = stage]
<1>2. /\ e \in Schedule /\ e.uuid = schedules[s].uuid /\ e.recurring = schedules[s].recurring
      /\ e.cancelled = schedules[s].cancelled /\ e.at = stage
  BY <1>1 DEF Moves, Schedule
<1>3. schedules' = [schedules EXCEPT ![s] = e]
  BY DEF Moves
<1> HIDE DEF e
<1>4. /\ schedules' \in Seq(Schedule) /\ Len(schedules') = Len(schedules)
      /\ \A x \in 1..Len(schedules) : schedules'[x] = IF x = s THEN e ELSE schedules[x]
  BY <1>1, <1>2, <1>3, ExceptSeq
<1>5. DOMAIN schedules' = 1..Len(schedules) /\ DOMAIN schedules = 1..Len(schedules)
  BY <1>1, <1>4
<1>6. QED
  BY <1>2, <1>4, <1>5

\* The objects do not notice.
LEMMA MovesObjects ==
    ASSUME ObjectsInv, NEW s, NEW stage, Moves(s, stage), UNCHANGED instances
    PROVE  ObjectsInv'
<1>1. /\ schedules' \in Seq(Schedule) /\ Len(schedules') = Len(schedules)
      /\ DOMAIN schedules' = DOMAIN schedules
  BY MovesEffect
<1>2. \A x \in DOMAIN schedules :
                  /\ schedules'[x].uuid = schedules[x].uuid
                  /\ schedules'[x].recurring = schedules[x].recurring
                  /\ schedules'[x].cancelled = schedules[x].cancelled
                  /\ schedules'[x].at = IF x = s THEN stage ELSE schedules[x].at
  BY MovesEffect
<1>3. \A k \in DOMAIN instances : InstanceInv(k)'
  BY <1>1, <1>2 DEF ObjectsInv, InstanceInv
<1>4. \A x \in DOMAIN schedules : ScheduleInv(x)'
  BY <1>1, <1>2 DEF ObjectsInv, ScheduleInv, Owns, Moves
<1>5. QED
  BY <1>1, <1>3, <1>4 DEF ObjectsInv

\* Nor does what is known of a KPI whose reloads do not overlap.
LEMMA MovesClean ==
    ASSUME IInv, NEW s, NEW stage, Moves(s, stage), UNCHANGED serviceVars
    PROVE  \A u \in clean' : CleanCalls(u)' /\ CleanSchedules(u)'
<1> SUFFICES ASSUME NEW u \in clean PROVE CleanCalls(u)' /\ CleanSchedules(u)'
  BY DEF serviceVars
<1>1. CleanCalls(u) /\ CleanSchedules(u) /\ ObjectsInv
  BY DEF IInv
<1>2. CleanCalls(u)'
  BY <1>1 DEF CleanCalls, serviceVars, WorkingOn, Busy, DueForLoad
<1>3. /\ DOMAIN schedules' = DOMAIN schedules
      /\ \A x \in DOMAIN schedules :
             /\ schedules'[x].uuid = schedules[x].uuid
             /\ schedules'[x].recurring = schedules[x].recurring
             /\ schedules'[x].cancelled = schedules[x].cancelled
             /\ Armed(x)' => Armed(x)
  BY <1>1, MovesEffect DEF Armed, Moves
<1>4. \A k \in DOMAIN instances : instances[k].scheduler /= 0 =>
          instances[k].scheduler \in DOMAIN schedules
  BY <1>1 DEF ObjectsInv, InstanceInv
<1>5. /\ \A v \in Uids : kpis[v] /= 0 => kpis[v] \in DOMAIN instances
      /\ \A c \in Callers : calls[c].at = "put" => calls[c].kpi \in DOMAIN instances
      /\ u \in Uids
      /\ \A c \in Callers : calls[c].uid = u /\ calls[c].at = "remove" => kpis[u] /= 0
  BY <1>1, Domains DEF IInv, CallsInv, CallInv, CleanCalls
<1>6. UNCHANGED <<instances, kpis, calls>>
  BY DEF serviceVars
<1>7. CleanSchedules(u)'
  BY <1>1, <1>3, <1>4, <1>5, <1>6 DEF CleanSchedules
<1>8. QED
  BY <1>2, <1>7

-----------------------------------------------------------------------------
(* The ticks *)

\* A tick changes nothing of the calls.
LEMMA TickCalls ==
    ASSUME CallsInv, UNCHANGED serviceVars
    PROVE  CallsInv'
  BY DEF CallsInv, CallInv, serviceVars

\* What is left to prove of a tick: what it does to the runs.
LEMMA TickInv ==
    ASSUME IInv, NEW s, NEW stage, Moves(s, stage), UNCHANGED serviceVars, RunsInv'
    PROVE  IInv'
<1>1. ObjectsInv'
  BY MovesObjects DEF IInv, serviceVars
<1>2. CallsInv'
  BY TickCalls DEF IInv
<1>3. QED
  BY <1>1, <1>2, MovesClean DEF IInv

\* The runs after a tick.
LEMMA RunsAfter ==
    ASSUME IInv, NEW s, NEW stage, Moves(s, stage), UNCHANGED serviceVars,
           states' \subseteq states \cup {s}, left' \subseteq left \cup {s},
           late' \subseteq late \cup {s}, storing' \subseteq storing,
           erred' \subseteq erred \cup {s},
           schedules[s].at = "running" => s \notin storing',
           s \in late' => LateInv(s)
    PROVE  RunsInv'
<1>1. /\ DOMAIN schedules' = DOMAIN schedules /\ s \in DOMAIN schedules
      /\ \A x \in DOMAIN schedules :
             /\ schedules'[x].recurring = schedules[x].recurring
             /\ schedules'[x].at = IF x = s THEN stage ELSE schedules[x].at
  BY MovesEffect DEF Moves, IInv
<1>2. RunsInv /\ UNCHANGED instances
  BY DEF IInv, serviceVars
<1>3. states' \subseteq DOMAIN schedules' /\ left' \subseteq DOMAIN schedules'
      /\ late' \subseteq DOMAIN schedules' /\ erred' \subseteq DOMAIN schedules'
  BY <1>1, <1>2 DEF RunsInv
<1>4. storing' \subseteq {x \in DOMAIN schedules' : schedules'[x].at = "running"}
  BY <1>1, <1>2 DEF RunsInv
<1>5. \A x \in late' : LateInv(x)'
  BY <1>1, <1>2 DEF RunsInv, LateInv, Owns
<1>6. QED
  BY <1>3, <1>4, <1>5 DEF RunsInv

\* A late tick is that of an initial run.
LEMMA DueInv ==
    ASSUME IInv, NEW s \in DOMAIN schedules, Due(s)
    PROVE  IInv'
<1> DEFINE stage == IF schedules[s].recurring THEN "marking" ELSE "running"
<1>1. schedules[s].at = "armed" /\ schedules' = [schedules EXCEPT ![s].at = stage]
  BY DEF Due, Fires
<1>2. Moves(s, stage)
  BY <1>1 DEF Moves, Stages
<1> HIDE DEF stage
<1>3. ~schedules[s].cancelled /\ s \notin storing
  BY <1>1 DEF IInv, ObjectsInv, ScheduleInv, RunsInv
<1>4. instances[InstanceOf(s)].cancelled => LateInv(s)
  <2>1. ObjectsInv /\ RunsInv
    BY DEF IInv
  <2>2. InstanceOf(s) \in DOMAIN instances /\ Owns(InstanceOf(s), s)
        /\ \A k \in DOMAIN instances : Owns(k, s) => k = InstanceOf(s)
    BY <2>1, OwnerOf
  <2>3. s /= 0
    BY <2>1, Domains
  <2>4. InstanceInv(InstanceOf(s))
    BY <2>1, <2>2 DEF ObjectsInv
  <2>5. QED
    BY <1>3, <2>2, <2>3, <2>4 DEF LateInv, InstanceInv, Owns
<1>5. s \in late' => LateInv(s)
  BY <1>4 DEF Due, IInv, RunsInv
<1>6. RunsInv'
  <2>1. /\ UNCHANGED serviceVars /\ states' = states /\ left' = left /\ storing' = storing
        /\ late' \subseteq late \cup {s} /\ erred' = erred
    BY DEF Due, Fires
  <2>2. QED
    BY <1>2, <1>3, <1>5, <2>1, RunsAfter
<1>7. QED
  BY <1>2, <1>6, TickInv DEF Due

\* Marking the row changes no run.
LEMMA MarkInv ==
    ASSUME IInv, NEW s \in DOMAIN schedules, MarkAsStarted(s) \/ MarkAsCompleted(s),
           UNCHANGED <<serviceVars, runVars>>
    PROVE  IInv'
<1>1. RunsInv /\ UNCHANGED <<storing, late, erred>> /\ UNCHANGED serviceVars
  BY DEF IInv, runVars
<1>2. s \in late' => LateInv(s)
  BY <1>1 DEF RunsInv
<1>3. CASE MarkAsStarted(s)
  <2>1. Moves(s, "running")
    BY <1>3, <1>1 DEF MarkAsStarted, Moves, IInv, ObjectsInv, ScheduleInv, Stages
  <2>2. states' \subseteq states \cup {s} /\ left' = left /\ schedules[s].at = "marking"
    BY <1>3 DEF MarkAsStarted
  <2>3. RunsInv'
    BY <1>1, <1>2, <2>1, <2>2, RunsAfter
  <2>4. QED
    BY <1>1, <2>1, <2>3, TickInv
<1>4. CASE MarkAsCompleted(s)
  <2> DEFINE stage == IF schedules[s].cancelled THEN "ended" ELSE "armed"
  <2>1. Moves(s, stage)
    BY <1>4 DEF MarkAsCompleted, Moves, Stages
  <2> HIDE DEF stage
  <2>2. /\ states' \subseteq states \cup {s} /\ left' \subseteq left \cup {s}
        /\ schedules[s].at = "completing"
    BY <1>4 DEF MarkAsCompleted
  <2>3. RunsInv'
    BY <1>1, <1>2, <2>1, <2>2, RunsAfter
  <2>4. QED
    BY <1>1, <2>1, <2>3, TickInv
<1>5. QED
  BY <1>3, <1>4

\* A run which is over.
LEMMA RunEndsInv ==
    ASSUME IInv, NEW s \in DOMAIN schedules, NEW outcome, RunEnds(s, outcome),
           UNCHANGED serviceVars, late' = late, storing' = storing \ {s},
           erred' \subseteq erred \cup {s}
    PROVE  IInv'
<1> DEFINE stage == IF schedules[s].recurring /\ outcome /= "error" THEN "completing"
                    ELSE "ended"
<1>1. Moves(s, stage)
  BY DEF RunEnds, Moves, Stages
<1> HIDE DEF stage
<1>2. states' = states /\ left' \subseteq left \cup {s}
  BY DEF RunEnds
<1>3. s \in late' => LateInv(s)
  BY DEF IInv, RunsInv
<1>4. RunsInv'
  BY <1>1, <1>2, <1>3, RunsAfter
<1>5. QED
  BY <1>1, <1>4, TickInv

\* A run which looks at the flag and does not store.
LEMMA IgnoredInv ==
    ASSUME IInv, NEW s \in DOMAIN schedules, RunIsIgnored(s)
    PROVE  IInv'
  BY RunEndsInv DEF RunIsIgnored, runVars

\* A run begins to store: it is not a late one.
LEMMA StoreValuesInv ==
    ASSUME IInv, NEW s \in DOMAIN schedules, StoreValues(s)
    PROVE  IInv'
<1>1. ObjectsInv /\ CallsInv /\ RunsInv
  BY DEF IInv
<1>2. UNCHANGED <<schedules, states, left, instances, kpis, calls, begun, clean, late, erred>>
  BY DEF StoreValues, schedulerVars, serviceVars
<1>3. ObjectsInv'
  BY <1>1, <1>2 DEF ObjectsInv, InstanceInv, ScheduleInv, Owns
<1>4. CallsInv'
  BY <1>1, <1>2 DEF CallsInv, CallInv
<1>5. RunsInv'
  <2>1. s \notin late
    BY <1>1, OwnerOf DEF StoreValues, IsIgnored, RunsInv, LateInv
  <2>2. QED
    BY <1>1, <1>2, <2>1 DEF StoreValues, RunsInv, LateInv, Owns
<1>6. \A u \in clean' : CleanCalls(u)' /\ CleanSchedules(u)'
  BY <1>2 DEF IInv, CleanCalls, CleanSchedules, WorkingOn, Busy, DueForLoad, Armed
<1>7. QED
  BY <1>3, <1>4, <1>5, <1>6 DEF IInv

\* A run has stored, or failed to.
LEMMA StoredInv ==
    ASSUME IInv, NEW s \in DOMAIN schedules, Stored(s)
    PROVE  IInv'
  BY RunEndsInv DEF Stored

-----------------------------------------------------------------------------
(* The calls which make and cancel nothing *)

\* The fields of a thread which makes no call.
LEMMA IdleType ==
    /\ Idle \in Call /\ Idle.at = "idle" /\ Idle.then = "end" /\ Idle.kpi = 0
    /\ Idle.uid \in Uids /\ Idle.kind = "inactive" /\ Idle.todo = [u \in Uids |-> "inactive"]
<1>1. (CHOOSE u \in Uids : TRUE) \in Uids
  BY UidsAssumption DEF Uids
<1>2. "inactive" \in Kinds
  BY KindsAssumption
<1>3. QED
  BY <1>1, <1>2 DEF Idle, Call, CallSteps

\* The fields of a call, and of the idle one, after each change a step makes.
LEMMA GoesEffect ==
    ASSUME CallsInv, NEW c \in Callers, NEW call \in Call, Goes(c, call)
    PROVE  /\ calls' \in [Callers -> Call]
           /\ \A d \in Callers : calls'[d] = IF d = c THEN call ELSE calls[d]
  BY DEF CallsInv, Goes

\* A step of a call which makes and cancels nothing keeps the objects and the runs.
LEMMA QuietObjects ==
    ASSUME IInv, UNCHANGED <<schedulerVars, runVars, instances>>
    PROVE  ObjectsInv' /\ RunsInv'
<1>1. ObjectsInv /\ RunsInv
  BY DEF IInv
<1>2. UNCHANGED <<schedules, states, left, storing, late, erred, instances>>
  BY DEF schedulerVars, runVars
<1>3. ObjectsInv'
  BY <1>1, <1>2 DEF ObjectsInv, InstanceInv, ScheduleInv, Owns
<1>4. RunsInv'
  BY <1>1, <1>2 DEF RunsInv, LateInv, Owns
<1>5. QED
  BY <1>3, <1>4

\* The calls after a step of one of them.
LEMMA CallsAfter ==
    ASSUME CallsInv, NEW c \in Callers, NEW call \in Call, Goes(c, call),
           UNCHANGED instances, CallInv(c, call),
           kpis' \in [Uids -> 0..Len(instances)],
           \A u \in Uids : kpis'[u] /= 0 => instances[kpis'[u]].uid = u,
           begun' \in 0..MaxCalls, clean' \subseteq Uids
    PROVE  CallsInv'
<1>1. /\ calls' \in [Callers -> Call]
      /\ \A d \in Callers : calls'[d] = IF d = c THEN call ELSE calls[d]
  BY GoesEffect
<1>2. (\A d \in Callers : CallInv(d, calls[d]))'
  BY <1>1 DEF CallsInv, CallInv
<1>3. QED
  BY <1>1, <1>2 DEF CallsInv

\* A reload of one KPI begins.  If the others of this KPI have ended, there is
\* nothing but its schedule.
LEMMA ReloadKpiInv ==
    ASSUME IInv, NEW c \in Callers, NEW u \in Uids, ReloadKpi(c, u)
    PROVE  IInv'
<1> DEFINE call == [Idle EXCEPT !.uid = u, !.kpi = kpis[u], !.at =
                       IF kpis[u] /= 0 THEN "cancelOne" ELSE "read"]
<1>1. ObjectsInv /\ CallsInv /\ RunsInv
  BY DEF IInv
<1>2. kpis[u] \in 0..Len(instances) /\ Len(instances) \in Nat
  BY <1>1, Domains DEF CallsInv
<1>3. /\ call \in Call /\ call.uid = u /\ call.kpi = kpis[u] /\ call.then = "end"
      /\ call.at = IF kpis[u] /= 0 THEN "cancelOne" ELSE "read"
  <2>1. kpis[u] \in Nat
    BY <1>2
  <2>2. PICK at \in CallSteps : at = IF kpis[u] /= 0 THEN "cancelOne" ELSE "read"
    BY DEF CallSteps
  <2>3. Idle \in Call /\ Idle.then = "end"
    BY IdleType
  <2>4. call = [Idle EXCEPT !.uid = u, !.kpi = kpis[u], !.at = at]
    BY <2>2
  <2> HIDE DEF call
  <2>5. \A old \in Call : LET new == [old EXCEPT !.uid = u, !.kpi = kpis[u], !.at = at]
           IN  /\ new \in Call /\ new.uid = u /\ new.kpi = kpis[u] /\ new.at = at
               /\ new.then = old.then
    BY <2>1 DEF Call
  <2>6. /\ call \in Call /\ call.uid = u /\ call.kpi = kpis[u] /\ call.at = at
        /\ call.then = Idle.then
    BY <2>3, <2>4, <2>5
  <2>7. QED
    BY <2>2, <2>3, <2>6
<1>4. Goes(c, call)
  BY DEF ReloadKpi
<1> HIDE DEF call
<1>5. /\ UNCHANGED <<schedulerVars, runVars, instances, kpis>> /\ ~Booting
      /\ calls[c].at = "idle" /\ begun < MaxCalls /\ begun' = begun + 1
      /\ clean' = clean \ {v \in {u} : WorkingOn(v) /= {}}
  BY DEF ReloadKpi, Begins
<1>6. CallInv(c, call)
  BY <1>1, <1>2, <1>3, Domains DEF CallInv, CallsInv
<1>7. begun' \in 0..MaxCalls /\ clean' \subseteq Uids
  BY <1>1, <1>5, MaxCallsAssumption DEF CallsInv
<1>8. CallsInv'
  BY <1>1, <1>3, <1>4, <1>5, <1>6, <1>7, CallsAfter DEF CallsInv
<1>9. ASSUME NEW v \in clean' PROVE CleanCalls(v)' /\ CleanSchedules(v)'
  <2>1. \A d \in Callers : calls'[d] = IF d = c THEN call ELSE calls[d]
    BY <1>1, <1>3, <1>4, GoesEffect
  <2>2. v \in clean /\ CleanCalls(v) /\ CleanSchedules(v) /\ (v = u => WorkingOn(v) = {})
    BY <1>5, <1>9 DEF IInv
  <2>3. UNCHANGED <<schedules, instances, kpis>>
    BY <1>5 DEF schedulerVars
  <2>4. calls[c].then = "end"
    BY <1>1, <1>5 DEF CallsInv, CallInv
  <2>5. \A d \in Callers : v = u => calls[d].then = "end" /\ (calls[d].at /= "idle" => calls[d].uid /= u)
    BY <1>1, <2>2 DEF WorkingOn, Busy, CallsInv, CallInv
  <2>6. CleanCalls(v)'
    <3>1. \A a, b \in WorkingOn(v)' : a = b
      <4>1. CASE v = u
        <5>1. \A d \in WorkingOn(v)' : d = c
          BY <2>1, <2>2, <4>1 DEF WorkingOn, Busy
        <5>2. QED
          BY <5>1
      <4>2. CASE v /= u
        <5>1. WorkingOn(v)' \subseteq WorkingOn(v)
          BY <1>3, <2>1, <4>2 DEF WorkingOn, Busy
        <5>2. QED
          BY <2>2, <5>1 DEF CleanCalls
      <4>3. QED
        BY <4>1, <4>2
    <3>2. \A d \in Callers : calls'[d].then /= "cancelAll" /\ calls'[d].at /= "cancelAll"
      BY <1>3, <2>1, <2>2 DEF CleanCalls
    <3>3. DueForLoad(v)' => kpis'[v] = 0
      BY <1>3, <2>1, <2>2, <2>3, <2>5 DEF CleanCalls, DueForLoad
    <3>4. \A d \in Callers : calls'[d].uid = v /\ calls'[d].at \in {"cancelOne", "remove"} =>
             kpis'[v] /= 0 /\ calls'[d].kpi = kpis'[v]
      BY <1>3, <2>1, <2>2, <2>3 DEF CleanCalls
    <3>5. QED
      BY <3>1, <3>2, <3>3, <3>4 DEF CleanCalls
  <2>7. CleanSchedules(v)'
    BY <1>3, <1>5, <2>1, <2>2, <2>3 DEF CleanSchedules, Armed
  <2>8. QED
    BY <2>6, <2>7
<1>10. QED
  BY <1>5, <1>8, <1>9, QuietObjects DEF IInv

\* Who works on a KPI whose reloads do not overlap.
LEMMA OneWorks ==
    ASSUME IInv, NEW u \in clean, NEW c \in Callers, NEW d \in Callers,
           calls[c].at /= "idle", calls[d].at /= "idle",
           calls[c].uid = u \/ calls[c].then /= "end",
           calls[d].uid = u \/ calls[d].then /= "end"
    PROVE  c = d
  BY DEF IInv, CleanCalls, WorkingOn, Busy

\* The object, whose schedule is cancelled now, leaves the table.
LEMMA RemoveInv ==
    ASSUME IInv, NEW c \in Callers, Remove(c)
    PROVE  IInv'
<1> DEFINE call == [calls[c] EXCEPT !.at = "read"]
<1>1. ObjectsInv /\ CallsInv /\ RunsInv /\ calls[c] \in Call
  BY DEF IInv, CallsInv
<1>2. /\ call \in Call /\ call.uid = calls[c].uid /\ call.kpi = calls[c].kpi
      /\ call.then = calls[c].then /\ call.at = "read" /\ call.todo = calls[c].todo
  BY <1>1 DEF Call, CallSteps
<1>3. Goes(c, call)
  BY DEF Remove
<1> HIDE DEF call
<1>4. /\ UNCHANGED <<schedulerVars, runVars, instances, begun, clean>>
      /\ calls[c].at = "remove" /\ kpis' = [kpis EXCEPT ![calls[c].uid] = 0]
  BY DEF Remove
<1>5. CallInv(c, call) /\ call.then = "end"
  BY <1>1, <1>2, <1>4 DEF CallsInv, CallInv
<1>6. /\ kpis' \in [Uids -> 0..Len(instances)]
      /\ \A u \in Uids : kpis'[u] = IF u = calls[c].uid THEN 0 ELSE kpis[u]
  <2>1. kpis \in [Uids -> 0..Len(instances)]
    BY <1>1 DEF CallsInv
  <2>2. 0 \in 0..Len(instances)
    BY <1>1, Domains
  <2>3. QED
    BY <1>4, <2>1, <2>2
<1>7. CallsInv'
  <2>1. \A u \in Uids : kpis'[u] /= 0 => instances[kpis'[u]].uid = u
    BY <1>1, <1>6 DEF CallsInv
  <2>2. begun' \in 0..MaxCalls /\ clean' \subseteq Uids /\ UNCHANGED instances
    BY <1>1, <1>4 DEF CallsInv
  <2>3. QED
    BY <1>1, <1>2, <1>3, <1>5, <1>6, <2>1, <2>2, CallsAfter
<1>8. ASSUME NEW v \in clean' PROVE CleanCalls(v)' /\ CleanSchedules(v)'
  <2>1. \A d \in Callers : calls'[d] = IF d = c THEN call ELSE calls[d]
    BY <1>1, <1>2, <1>3, GoesEffect
  <2>2. v \in clean /\ CleanCalls(v) /\ CleanSchedules(v) /\ v \in Uids
    BY <1>1, <1>4 DEF IInv, CallsInv
  <2>3. UNCHANGED <<schedules, instances>>
    BY <1>4 DEF schedulerVars
  <2>4. WorkingOn(v)' \subseteq WorkingOn(v)
    BY <1>2, <1>4, <2>1 DEF WorkingOn, Busy
  <2>5. CleanCalls(v)'
    <3>1. \A a, b \in WorkingOn(v)' : a = b
      BY <2>2, <2>4 DEF CleanCalls
    <3>2. \A d \in Callers : calls'[d].then /= "cancelAll" /\ calls'[d].at /= "cancelAll"
      BY <1>2, <2>1, <2>2 DEF CleanCalls
    <3>3. DueForLoad(v)' => kpis'[v] = 0
      BY <1>2, <1>6, <2>1, <2>2 DEF CleanCalls, DueForLoad
    <3>4. \A d \in Callers : calls'[d].uid = v /\ calls'[d].at \in {"cancelOne", "remove"} =>
             kpis'[v] /= 0 /\ calls'[d].kpi = kpis'[v]
      <4> SUFFICES ASSUME NEW d \in Callers, calls'[d].uid = v,
                          calls'[d].at \in {"cancelOne", "remove"}
                   PROVE  kpis'[v] /= 0 /\ calls'[d].kpi = kpis'[v]
        OBVIOUS
      <4>1. d /= c /\ calls'[d] = calls[d]
        BY <1>2, <2>1
      <4>2. calls[c].uid /= v
        BY <1>4, <2>2, <4>1, OneWorks
      <4>3. QED
        BY <1>6, <2>2, <4>1, <4>2 DEF CleanCalls
    <3>5. QED
      BY <3>1, <3>2, <3>3, <3>4 DEF CleanCalls
  <2>6. CleanSchedules(v)'
    <3>1. CASE v = calls[c].uid
      <4>1. \A d \in Callers : d /= c /\ calls[d].uid = v => calls[d].at = "idle"
        BY <1>4, <2>2, <3>1, OneWorks
      <4>2. kpis'[v] = 0
        BY <1>6, <2>2, <3>1
      <4>3. \A s \in DOMAIN schedules :
                ~(schedules[s].uuid = v /\ schedules[s].recurring /\ Armed(s))
        <5> SUFFICES ASSUME NEW s \in DOMAIN schedules, schedules[s].uuid = v,
                            schedules[s].recurring, Armed(s)
                     PROVE  FALSE
          OBVIOUS
        <5>1. kpis[v] /= 0 /\ s = instances[kpis[v]].scheduler
          BY <1>4, <2>2, <4>1, <3>1 DEF CleanSchedules
        <5>2. s /= 0
          BY <1>1, Domains
        <5>3. QED
          BY <1>4, <2>2, <3>1, <5>1, <5>2 DEF CleanSchedules, Armed
      <4>4. QED
        BY <1>2, <2>1, <2>3, <4>1, <4>2, <4>3 DEF CleanSchedules, Armed
    <3>2. CASE v /= calls[c].uid
      BY <1>2, <1>6, <2>1, <2>2, <2>3, <3>2 DEF CleanSchedules, Armed
    <3>3. QED
      BY <3>1, <3>2
  <2>7. QED
    BY <2>5, <2>6
<1>9. QED
  BY <1>4, <1>7, <1>8, QuietObjects DEF IInv

\* A call goes on and concerns no other KPIs than before.
LEMMA GoesOnClean ==
    ASSUME IInv, NEW c \in Callers, NEW call \in Call, Goes(c, call),
           UNCHANGED <<schedules, instances, kpis, clean>>,
           calls[c].at \notin {"put", "remove"},
           call.at \notin {"cancelOne", "remove", "put"},
           \A v \in clean :
               /\ call.then /= "cancelAll" /\ call.at /= "cancelAll"
               /\ call.at /= "idle" /\ (call.uid = v \/ call.then /= "end") => c \in WorkingOn(v)
               /\ \/ call.uid = v /\ call.at \in {"read", "load"}
                  \/ call.then = "up" /\ call.todo[v] /= "inactive"
                  => DueForLoad(v)
    PROVE  \A v \in clean' : CleanCalls(v)' /\ CleanSchedules(v)'
<1> SUFFICES ASSUME NEW v \in clean PROVE CleanCalls(v)' /\ CleanSchedules(v)'
  OBVIOUS
<1>1. \A d \in Callers : calls'[d] = IF d = c THEN call ELSE calls[d]
  BY GoesEffect DEF IInv
<1>2. CleanCalls(v) /\ CleanSchedules(v)
  BY DEF IInv
<1>3. WorkingOn(v)' \subseteq WorkingOn(v)
  BY <1>1 DEF WorkingOn, Busy
<1>4. CleanCalls(v)'
  <2>1. \A a, b \in WorkingOn(v)' : a = b
    BY <1>2, <1>3 DEF CleanCalls
  <2>2. \A d \in Callers : calls'[d].then /= "cancelAll" /\ calls'[d].at /= "cancelAll"
    BY <1>1, <1>2 DEF CleanCalls
  <2>3. DueForLoad(v)' => DueForLoad(v)
    BY <1>1 DEF DueForLoad
  <2>4. \A d \in Callers : calls'[d].uid = v /\ calls'[d].at \in {"cancelOne", "remove"} =>
             kpis'[v] /= 0 /\ calls'[d].kpi = kpis'[v]
    BY <1>1, <1>2 DEF CleanCalls
  <2>5. QED
    BY <1>2, <2>1, <2>2, <2>3, <2>4 DEF CleanCalls
<1>5. CleanSchedules(v)'
  BY <1>1, <1>2 DEF CleanSchedules, Armed
<1>6. QED
  BY <1>4, <1>5

\* A step of a call with only its own state to change.
LEMMA GoesOnInv ==
    ASSUME IInv, NEW c \in Callers, NEW call \in Call, Goes(c, call),
           UNCHANGED <<schedulerVars, runVars, instances, kpis, begun, clean>>,
           CallInv(c, call),
           calls[c].at \notin {"put", "remove"},
           call.at \notin {"cancelOne", "remove", "put"},
           \A v \in clean :
               /\ call.then /= "cancelAll" /\ call.at /= "cancelAll"
               /\ call.at /= "idle" /\ (call.uid = v \/ call.then /= "end") => c \in WorkingOn(v)
               /\ \/ call.uid = v /\ call.at \in {"read", "load"}
                  \/ call.then = "up" /\ call.todo[v] /= "inactive"
                  => DueForLoad(v)
    PROVE  IInv'
<1>1. UNCHANGED <<schedules, instances, kpis, begun, clean>>
  BY DEF schedulerVars
<1>2. ObjectsInv' /\ RunsInv'
  BY QuietObjects
<1>3. CallsInv'
  BY <1>1, CallsAfter DEF IInv, CallsInv
<1>4. \A v \in clean' : CleanCalls(v)' /\ CleanSchedules(v)'
  BY <1>1, GoesOnClean
<1>5. QED
  BY <1>2, <1>3, <1>4 DEF IInv

\* A thread which makes no call has nothing to be true about.
LEMMA IdleCallInv == \A c \in Callers : CallInv(c, Idle)
  BY IdleType DEF CallInv

\* A call is over.
LEMMA EndsInv ==
    ASSUME IInv, NEW c \in Callers, Ends(c), calls[c].at \notin {"put", "remove"},
           UNCHANGED <<schedulerVars, runVars, instances, kpis, begun, clean>>
    PROVE  IInv'
<1>1. /\ Idle \in Call /\ Idle.at = "idle" /\ Idle.then = "end"
      /\ CallInv(c, Idle) /\ Goes(c, Idle)
  BY IdleType, IdleCallInv DEF Ends
<1>2. QED
  BY <1>1, GoesOnInv

\* The definition is read: there is none, or it is loaded.
LEMMA ReadDefinitionInv ==
    ASSUME IInv, NEW c \in Callers, ReadDefinition(c)
    PROVE  IInv'
<1>1. calls[c] \in Call /\ CallInv(c, calls[c]) /\ calls[c].at = "read"
  BY DEF IInv, CallsInv, ReadDefinition
<1>2. UNCHANGED <<schedulerVars, runVars, instances, kpis, begun, clean>>
  BY DEF ReadDefinition
<1>3. CASE Ends(c)
  BY <1>1, <1>2, <1>3, EndsInv
<1>4. ASSUME NEW kind \in Kinds, Goes(c, [calls[c] EXCEPT !.kind = kind, !.at = "load"])
      PROVE  IInv'
  <2> DEFINE call == [calls[c] EXCEPT !.kind = kind, !.at = "load"]
  <2>1. /\ call \in Call /\ call.uid = calls[c].uid /\ call.then = calls[c].then
        /\ call.at = "load" /\ call.todo = calls[c].todo
    BY <1>1 DEF Call, CallSteps
  <2>2. Goes(c, call)
    BY <1>4
  <2> HIDE DEF call
  <2>3. call.then = "end" /\ CallInv(c, call)
    BY <1>1, <2>1 DEF CallInv
  <2>4. \A v \in clean : call.uid = v => c \in WorkingOn(v) /\ DueForLoad(v)
    BY <1>1, <2>1 DEF WorkingOn, Busy, DueForLoad
  <2>5. QED
    BY <1>1, <1>2, <2>1, <2>2, <2>3, <2>4, GoesOnInv
<1>5. QED
  BY <1>3, <1>4 DEF ReadDefinition

\* init() takes the next definition.
LEMMA NextDefinitionInv ==
    ASSUME IInv, NEW c \in Callers, NextDefinition(c)
    PROVE  IInv'
<1>1. /\ calls[c] \in Call /\ CallInv(c, calls[c]) /\ calls[c].at = "next"
      /\ calls[c].todo \in [Uids -> Kinds]
  BY DEF IInv, CallsInv, NextDefinition, Call
<1>2. UNCHANGED <<schedulerVars, runVars, instances, kpis, begun, clean>>
  BY DEF NextDefinition
<1>3. PICK u \in Uids :
          /\ calls[c].todo[u] /= "inactive"
          /\ Goes(c, [calls[c] EXCEPT !.uid = u, !.kind = calls[c].todo[u], !.at = "load",
                                      !.todo[u] = "inactive"])
  BY DEF NextDefinition
<1> DEFINE call == [calls[c] EXCEPT !.uid = u, !.kind = calls[c].todo[u], !.at = "load",
                                    !.todo[u] = "inactive"]
<1>4. /\ call \in Call /\ call.uid = u /\ call.then = calls[c].then
      /\ call.at = "load" /\ call.todo = [calls[c].todo EXCEPT ![u] = "inactive"]
  <2>1. [calls[c].todo EXCEPT ![u] = "inactive"] \in [Uids -> Kinds]
    BY <1>1, KindsAssumption
  <2>2. calls[c].todo[u] \in Kinds
    BY <1>1
  <2>3. QED
    BY <1>1, <2>1, <2>2 DEF Call, CallSteps
<1>5. Goes(c, call)
  BY <1>3
<1> HIDE DEF call
<1>6. call.todo[u] = "inactive" /\ \A v \in Uids : v /= u => call.todo[v] = calls[c].todo[v]
  BY <1>1, <1>4
<1>7. CallInv(c, call)
  BY <1>1, <1>4, <1>6 DEF CallInv
<1>8. \A v \in clean :
          /\ call.then /= "cancelAll" /\ c \in WorkingOn(v)
          /\ call.uid = v \/ (call.then = "up" /\ call.todo[v] /= "inactive") => DueForLoad(v)
  <2> TAKE v \in clean
  <2>1. v \in Uids /\ calls[c].then \in {"end", "cancelAll", "up"}
    BY <1>1 DEF IInv, CallsInv, Call
  <2>2. calls[c].then = "up"
    BY <1>1, <2>1 DEF IInv, CleanCalls, CallInv
  <2>3. c \in WorkingOn(v)
    BY <1>1, <2>2 DEF WorkingOn, Busy
  <2>4. QED
    BY <1>3, <1>4, <1>6, <2>1, <2>2, <2>3 DEF DueForLoad
<1>9. QED
  BY <1>1, <1>2, <1>4, <1>5, <1>7, <1>8, GoesOnInv

\* init() is over; a reload() goes on to cancel, and then no KPI is clean.
LEMMA InitEndsInv ==
    ASSUME IInv, NEW c \in Callers, InitEnds(c)
    PROVE  IInv'
<1>1. calls[c].at = "next" /\ UNCHANGED <<schedulerVars, runVars, instances, kpis, begun, clean>>
  BY DEF InitEnds
<1>2. CASE Ends(c)
  BY <1>1, <1>2, EndsInv
<1>3. CASE calls[c].then = "cancelAll" /\ Goes(c, [Idle EXCEPT !.at = "cancelAll"])
  <2> DEFINE call == [Idle EXCEPT !.at = "cancelAll"]
  <2>1. call \in Call /\ call.at = "cancelAll" /\ call.then = "end"
    BY IdleType DEF Call, CallSteps
  <2>2. Goes(c, call)
    BY <1>3
  <2> HIDE DEF call
  <2>3. clean = {}
    BY <1>3 DEF IInv, CleanCalls
  <2>4. CallInv(c, call)
    BY <2>1 DEF CallInv
  <2>5. QED
    BY <1>1, <2>1, <2>2, <2>3, <2>4, GoesOnInv
<1>4. QED
  BY <1>2, <1>3 DEF InitEnds

\* reload() empties the table, and no KPI is clean any more.
LEMMA ReloadInv ==
    ASSUME IInv, NEW c \in Callers, Reload(c)
    PROVE  IInv'
<1>1. CallsInv /\ ObjectsInv
  BY DEF IInv
<1>2. PICK definitions \in [Uids -> Kinds] :
          Goes(c, [Idle EXCEPT !.todo = definitions, !.at = "next", !.then = "cancelAll"])
  BY DEF Reload
<1> DEFINE call == [Idle EXCEPT !.todo = definitions, !.at = "next", !.then = "cancelAll"]
<1>3. call \in Call /\ call.at = "next" /\ call.then = "cancelAll"
  BY IdleType DEF Call, CallSteps
<1>4. Goes(c, call)
  BY <1>2
<1> HIDE DEF call
<1>5. /\ UNCHANGED <<schedulerVars, runVars, instances>> /\ kpis' = [u \in Uids |-> 0]
      /\ begun < MaxCalls /\ begun' = begun + 1 /\ clean' = {}
  BY <1>1 DEF Reload, Begins, CallsInv
<1>6. CallInv(c, call)
  BY <1>3 DEF CallInv
<1>7. begun' \in 0..MaxCalls /\ clean' \subseteq Uids
  BY <1>1, <1>5, MaxCallsAssumption DEF CallsInv
<1>8. /\ kpis' \in [Uids -> 0..Len(instances)]
      /\ \A u \in Uids : kpis'[u] /= 0 => instances[kpis'[u]].uid = u
  <2>1. 0 \in 0..Len(instances)
    BY <1>1, Domains
  <2>2. QED
    BY <1>5, <2>1
<1>9. CallsInv'
  BY <1>1, <1>3, <1>4, <1>5, <1>6, <1>7, <1>8, CallsAfter
<1>10. QED
  BY <1>5, <1>9, QuietObjects DEF IInv

\* The call after initKpiDefinition.
LEMMA LoadedCall ==
    ASSUME CallsInv, NEW c \in Callers, Loaded(c), calls[c].at \in {"load", "put"}
    PROVE  \E call \in Call :
               /\ Goes(c, call) /\ call.at \in {"idle", "next"}
               /\ call.at = "next" => /\ call.uid = calls[c].uid /\ call.then = calls[c].then
                                      /\ call.todo = calls[c].todo /\ call.then /= "end"
               /\ call.at = "idle" => call.then = "end"
<1>1. calls[c] \in Call
  BY DEF CallsInv
<1>2. CASE calls[c].then = "end"
  BY <1>2, IdleType DEF Loaded, Ends
<1>3. CASE calls[c].then /= "end"
  <2> DEFINE call == [calls[c] EXCEPT !.at = "next", !.kind = "inactive", !.kpi = 0]
  <2>1. /\ call \in Call /\ call.at = "next" /\ call.uid = calls[c].uid
        /\ call.then = calls[c].then /\ call.todo = calls[c].todo
    BY <1>1, KindsAssumption DEF Call, CallSteps
  <2>2. Goes(c, call)
    BY <1>3 DEF Loaded
  <2> HIDE DEF call
  <2>3. QED
    BY <1>3, <2>1, <2>2
<1>4. QED
  BY <1>2, <1>3

\* The object is put in the table, where there is none while the KPI is clean.
LEMMA PutInv ==
    ASSUME IInv, NEW c \in Callers, Put(c)
    PROVE  IInv'
<1>1. /\ ObjectsInv /\ CallsInv /\ RunsInv /\ calls[c] \in Call
      /\ CallInv(c, calls[c]) /\ calls[c].uid \in Uids
  BY DEF IInv, CallsInv, Call
<1>2. /\ UNCHANGED <<schedulerVars, runVars, instances, begun, clean>> /\ Loaded(c)
      /\ calls[c].at = "put" /\ kpis' = [kpis EXCEPT ![calls[c].uid] = calls[c].kpi]
  BY DEF Put
<1>3. PICK call \in Call :
               /\ Goes(c, call) /\ call.at \in {"idle", "next"}
               /\ call.at = "next" => /\ call.uid = calls[c].uid /\ call.then = calls[c].then
                                      /\ call.todo = calls[c].todo /\ call.then /= "end"
               /\ call.at = "idle" => call.then = "end"
  BY <1>1, <1>2, LoadedCall
<1>4. CallInv(c, call)
  BY <1>1, <1>3 DEF CallInv
<1>5. calls[c].kpi \in 1..Len(instances) /\ instances[calls[c].kpi].uid = calls[c].uid
  BY <1>1, <1>2, Domains DEF CallInv
<1>6. /\ kpis' \in [Uids -> 0..Len(instances)]
      /\ \A u \in Uids : kpis'[u] = IF u = calls[c].uid THEN calls[c].kpi ELSE kpis[u]
  <2>1. kpis \in [Uids -> 0..Len(instances)]
    BY <1>1 DEF CallsInv
  <2>2. calls[c].kpi \in 0..Len(instances)
    BY <1>5
  <2>3. QED
    BY <1>2, <2>1, <2>2
<1>7. CallsInv'
  <2>1. \A u \in Uids : kpis'[u] /= 0 => instances[kpis'[u]].uid = u
    BY <1>1, <1>5, <1>6 DEF CallsInv
  <2>2. begun' \in 0..MaxCalls /\ clean' \subseteq Uids /\ UNCHANGED instances
    BY <1>1, <1>2 DEF CallsInv
  <2>3. QED
    BY <1>1, <1>3, <1>4, <1>6, <2>1, <2>2, CallsAfter
<1>8. ASSUME NEW v \in clean' PROVE CleanCalls(v)' /\ CleanSchedules(v)'
  <2>1. \A d \in Callers : calls'[d] = IF d = c THEN call ELSE calls[d]
    BY <1>1, <1>3, GoesEffect
  <2>2. v \in clean /\ CleanCalls(v) /\ CleanSchedules(v) /\ v \in Uids
    BY <1>1, <1>2 DEF IInv, CallsInv
  <2>3. UNCHANGED <<schedules, instances>>
    BY <1>2 DEF schedulerVars
  <2>4. WorkingOn(v)' \subseteq WorkingOn(v)
    BY <1>2, <1>3, <2>1 DEF WorkingOn, Busy
  <2>5. v = calls[c].uid => kpis[v] = 0
    BY <1>2, <2>2 DEF CleanCalls, DueForLoad
  <2>6. \A d \in Callers : v = calls[c].uid /\ d /= c =>
            /\ calls[d].at /= "idle" => calls[d].uid /= v /\ calls[d].then = "end"
            /\ calls[d].then = "end"
    BY <1>1, <1>2, <2>2, OneWorks DEF CallsInv, CallInv
  <2>7. CleanCalls(v)'
    <3>1. \A a, b \in WorkingOn(v)' : a = b
      BY <2>2, <2>4 DEF CleanCalls
    <3>2. \A d \in Callers : calls'[d].then /= "cancelAll" /\ calls'[d].at /= "cancelAll"
      BY <1>3, <2>1, <2>2 DEF CleanCalls
    <3>3. DueForLoad(v)' => kpis'[v] = 0
      <4>1. CASE v = calls[c].uid
        <5>1. ~DueForLoad(v)'
          BY <1>1, <1>2, <1>3, <2>1, <2>6, <4>1 DEF DueForLoad, CallInv
        <5>2. QED
          BY <5>1
      <4>2. CASE v /= calls[c].uid
        <5>1. DueForLoad(v)' => DueForLoad(v)
          BY <1>3, <2>1, <4>2 DEF DueForLoad
        <5>2. QED
          BY <1>6, <2>2, <4>2, <5>1 DEF CleanCalls
      <4>3. QED
        BY <4>1, <4>2
    <3>4. \A d \in Callers : calls'[d].uid = v /\ calls'[d].at \in {"cancelOne", "remove"} =>
             kpis'[v] /= 0 /\ calls'[d].kpi = kpis'[v]
      BY <1>3, <1>6, <2>1, <2>2, <2>6 DEF CleanCalls
    <3>5. QED
      BY <3>1, <3>2, <3>3, <3>4 DEF CleanCalls
  <2>8. CleanSchedules(v)'
    <3>1. CASE v = calls[c].uid
      <4>1. kpis'[v] = calls[c].kpi /\ kpis'[v] /= 0
        BY <1>5, <1>6, <2>2, <3>1
      <4>2. \A d \in Callers : calls'[d].uid = v => calls'[d].at \notin {"remove", "put"}
        BY <1>3, <2>1, <2>6, <3>1
      <4>3. instances[calls[c].kpi].scheduler /= 0 =>
                ~schedules[instances[calls[c].kpi].scheduler].cancelled
        BY <1>2, <2>2, <3>1 DEF CleanSchedules
      <4>4. \A s \in DOMAIN schedules :
                schedules[s].uuid = v /\ schedules[s].recurring /\ Armed(s) =>
                    s = instances[calls[c].kpi].scheduler
        BY <2>2, <2>5, <2>6, <3>1 DEF CleanSchedules
      <4>5. QED
        BY <2>3, <4>1, <4>2, <4>3, <4>4 DEF CleanSchedules, Armed
    <3>2. CASE v /= calls[c].uid
      BY <1>3, <1>6, <2>1, <2>2, <2>3, <3>2 DEF CleanSchedules, Armed
    <3>3. QED
      BY <3>1, <3>2
  <2>9. QED
    BY <2>7, <2>8
<1>9. QED
  BY <1>2, <1>7, <1>8, QuietObjects DEF IInv

-----------------------------------------------------------------------------
(* Cancelling *)

\* A function on 1..n is a sequence.
LEMMA SequenceOfLength ==
    ASSUME NEW S, NEW n \in Nat, NEW f \in [1..n -> S]
    PROVE  f \in Seq(S) /\ Len(f) = n /\ DOMAIN f = 1..n
<1>1. f \in Seq(S)
  BY SeqDef
<1>2. DOMAIN f = 1..Len(f) /\ Len(f) \in Nat
  BY <1>1, LenProperties
<1>3. \A a, b \in Nat : 1..a = 1..b => a = b
  <2> SUFFICES ASSUME NEW a \in Nat, NEW b \in Nat, 1..a = 1..b, a < b PROVE FALSE
    OBVIOUS
  <2>1. b \in 1..b /\ b \notin 1..a
    OBVIOUS
  <2>2. QED
    BY <2>1
<1>4. QED
  BY <1>1, <1>2, <1>3

\* The objects and the schedules after a cancel.
LEMMA CancelEffect ==
    ASSUME ObjectsInv, NEW ks \in SUBSET DOMAIN instances,
           instances' = CancelledKpis(ks), schedules' = CancelledSchedules(ks)
    PROVE  /\ instances' \in Seq(Instance) /\ Len(instances') = Len(instances)
           /\ DOMAIN instances' = DOMAIN instances
           /\ \A k \in DOMAIN instances :
                  /\ instances'[k].uid = instances[k].uid
                  /\ instances'[k].initial = instances[k].initial
                  /\ instances'[k].scheduler = instances[k].scheduler
                  /\ instances'[k].cancelled <=> instances[k].cancelled \/ k \in ks
           /\ schedules' \in Seq(Schedule) /\ Len(schedules') = Len(schedules)
           /\ DOMAIN schedules' = DOMAIN schedules
           /\ \A s \in DOMAIN schedules :
                  /\ schedules'[s].uuid = schedules[s].uuid
                  /\ schedules'[s].recurring = schedules[s].recurring
                  /\ schedules'[s].cancelled <=>
                         schedules[s].cancelled \/ \E k \in ks : s = instances[k].scheduler
                  /\ schedules[s].at = "running" => schedules'[s].at = "running"
                  /\ schedules'[s].at = "armed" =>
                         schedules[s].at = "armed" /\ ~\E k \in ks : s = instances[k].scheduler
                  /\ schedules[s].at = "ended" => schedules'[s].at = "ended"
<1>1. /\ DOMAIN schedules = 1..Len(schedules) /\ Len(schedules) \in Nat
      /\ DOMAIN instances = 1..Len(instances) /\ Len(instances) \in Nat
      /\ \A s \in DOMAIN schedules : schedules[s] \in Schedule
      /\ \A k \in DOMAIN instances : instances[k] \in Instance
  BY Domains
<1>2. \A k \in DOMAIN instances :
          /\ instances'[k] \in Instance
          /\ instances'[k].uid = instances[k].uid
          /\ instances'[k].initial = instances[k].initial
          /\ instances'[k].scheduler = instances[k].scheduler
          /\ instances'[k].cancelled <=> instances[k].cancelled \/ k \in ks
  BY <1>1 DEF CancelledKpis, Instance
<1>3. instances' \in [1..Len(instances) -> Instance]
  BY <1>1, <1>2 DEF CancelledKpis
<1>4. /\ instances' \in Seq(Instance) /\ Len(instances') = Len(instances)
      /\ DOMAIN instances' = DOMAIN instances
  BY <1>1, <1>3, SequenceOfLength
<1>5. \A s \in DOMAIN schedules :
          LET new == Cancelled(schedules, s)[s] IN
          /\ new \in Schedule /\ new.uuid = schedules[s].uuid /\ new.cancelled = TRUE
          /\ new.recurring = schedules[s].recurring
          /\ new.at = IF schedules[s].at = "armed" THEN "ended" ELSE schedules[s].at
  <2> TAKE s \in DOMAIN schedules
  <2>1. Cancelled(schedules, s)[s] =
            [schedules[s] EXCEPT !.cancelled = TRUE,
                                 !.at = IF @ = "armed" THEN "ended" ELSE @]
    BY <1>1 DEF Cancelled
  <2>2. PICK at : at = IF schedules[s].at = "armed" THEN "ended" ELSE schedules[s].at
    OBVIOUS
  <2>3. at \in Stages
    BY <1>1, <2>2 DEF Schedule, Stages
  <2>4. Cancelled(schedules, s)[s] = [schedules[s] EXCEPT !.cancelled = TRUE, !.at = at]
    BY <1>1, <2>1, <2>2 DEF Schedule
  <2>5. QED
    BY <1>1, <2>2, <2>3, <2>4 DEF Schedule
<1>6. \A s \in DOMAIN schedules :
          schedules'[s] = IF \E k \in ks : s = instances[k].scheduler
                          THEN Cancelled(schedules, s)[s] ELSE schedules[s]
  BY DEF CancelledSchedules
<1>7. schedules' \in [1..Len(schedules) -> Schedule]
  BY <1>1, <1>5 DEF CancelledSchedules
<1>8. /\ schedules' \in Seq(Schedule) /\ Len(schedules') = Len(schedules)
      /\ DOMAIN schedules' = DOMAIN schedules
  BY <1>1, <1>7, SequenceOfLength
<1>9. \A s \in DOMAIN schedules :
                  /\ schedules'[s].uuid = schedules[s].uuid
                  /\ schedules'[s].recurring = schedules[s].recurring
                  /\ schedules'[s].cancelled <=>
                         schedules[s].cancelled \/ \E k \in ks : s = instances[k].scheduler
                  /\ schedules[s].at = "running" => schedules'[s].at = "running"
                  /\ schedules'[s].at = "armed" =>
                         schedules[s].at = "armed" /\ ~\E k \in ks : s = instances[k].scheduler
                  /\ schedules[s].at = "ended" => schedules'[s].at = "ended"
  <2> TAKE s \in DOMAIN schedules
  <2>1. CASE \E k \in ks : s = instances[k].scheduler
    BY <1>5, <1>6, <2>1
  <2>2. CASE ~\E k \in ks : s = instances[k].scheduler
    BY <1>1, <1>6, <2>2
  <2>3. QED
    BY <2>1, <2>2
<1>10. QED
  BY <1>2, <1>4, <1>8, <1>9

\* Cancelling leaves the objects as they should be, and the runs.
LEMMA CancelObjects ==
    ASSUME IInv, NEW ks \in SUBSET DOMAIN instances,
           instances' = CancelledKpis(ks), schedules' = CancelledSchedules(ks),
           UNCHANGED <<states, left, runVars>>
    PROVE  ObjectsInv' /\ RunsInv'
<1>1. ObjectsInv /\ RunsInv /\ UNCHANGED <<states, left, storing, late, erred>>
  BY DEF IInv, runVars
<1>2. /\ instances' \in Seq(Instance) /\ Len(instances') = Len(instances)
      /\ DOMAIN instances' = DOMAIN instances
      /\ schedules' \in Seq(Schedule) /\ Len(schedules') = Len(schedules)
      /\ DOMAIN schedules' = DOMAIN schedules
  BY <1>1, CancelEffect
<1>3. \A k \in DOMAIN instances :
                  /\ instances'[k].uid = instances[k].uid
                  /\ instances'[k].initial = instances[k].initial
                  /\ instances'[k].scheduler = instances[k].scheduler
                  /\ instances'[k].cancelled <=> instances[k].cancelled \/ k \in ks
  BY <1>1, CancelEffect
<1>4. \A s \in DOMAIN schedules :
                  /\ schedules'[s].uuid = schedules[s].uuid
                  /\ schedules'[s].recurring = schedules[s].recurring
                  /\ schedules'[s].cancelled <=>
                         schedules[s].cancelled \/ \E k \in ks : s = instances[k].scheduler
                  /\ schedules[s].at = "running" => schedules'[s].at = "running"
                  /\ schedules'[s].at = "armed" =>
                         schedules[s].at = "armed" /\ ~\E k \in ks : s = instances[k].scheduler
  BY <1>1, CancelEffect
<1>5. \A k \in DOMAIN instances : InstanceInv(k)'
  <2> TAKE k \in DOMAIN instances
  <2>1. InstanceInv(k)
    BY <1>1 DEF ObjectsInv
  <2>2. instances[k].initial /= 0 =>
            /\ instances[k].initial \in DOMAIN schedules'
            /\ ~schedules'[instances[k].initial].recurring
    BY <1>2, <1>4, <2>1 DEF InstanceInv
  <2>3. instances[k].scheduler /= 0 =>
            /\ instances[k].scheduler \in DOMAIN schedules'
            /\ schedules'[instances[k].scheduler].recurring
            /\ schedules'[instances[k].scheduler].uuid = instances[k].uid
            /\ instances'[k].cancelled => schedules'[instances[k].scheduler].cancelled
    BY <1>2, <1>3, <1>4, <2>1 DEF InstanceInv
  <2>4. QED
    BY <1>3, <2>2, <2>3 DEF InstanceInv
<1>6. \A s \in DOMAIN schedules : ScheduleInv(s)'
  <2> TAKE s \in DOMAIN schedules
  <2>1. ScheduleInv(s)
    BY <1>1 DEF ObjectsInv
  <2>2. \A k \in DOMAIN instances : Owns(k, s)' <=> Owns(k, s)
    BY <1>3 DEF Owns
  <2>3. schedules'[s].cancelled => schedules'[s].at /= "armed"
    BY <1>4, <2>1 DEF ScheduleInv
  <2>4. \E k \in DOMAIN instances' : Owns(k, s)'
    BY <1>2, <2>1, <2>2 DEF ScheduleInv
  <2>5. \A k, l \in DOMAIN instances' : Owns(k, s)' /\ Owns(l, s)' => k = l
    BY <1>2, <2>1, <2>2 DEF ScheduleInv
  <2>6. QED
    BY <2>3, <2>4, <2>5 DEF ScheduleInv
<1>7. ObjectsInv'
  BY <1>1, <1>2, <1>5, <1>6 DEF ObjectsInv
<1>8. \A s \in late : LateInv(s)'
  BY <1>1, <1>2, <1>3, <1>4 DEF RunsInv, LateInv, Owns
<1>9. RunsInv'
  BY <1>1, <1>2, <1>4, <1>8 DEF RunsInv
<1>10. QED
  BY <1>7, <1>9

\* A call goes on, and the objects keep their number and their KPIs.
LEMMA CancelCalls ==
    ASSUME CallsInv, NEW c \in Callers, NEW call \in Call, Goes(c, call),
           Len(instances') = Len(instances), DOMAIN instances' = DOMAIN instances,
           \A k \in DOMAIN instances : instances'[k].uid = instances[k].uid,
           DOMAIN instances = 1..Len(instances), Len(instances) \in Nat,
           CallInv(c, call), UNCHANGED <<kpis, begun, clean>>
    PROVE  CallsInv'
<1>1. /\ calls' \in [Callers -> Call]
      /\ \A d \in Callers : calls'[d] = IF d = c THEN call ELSE calls[d]
  BY GoesEffect
<1>2. (\A d \in Callers : CallInv(d, calls[d]))'
  BY <1>1 DEF CallsInv, CallInv
<1>3. \A u \in Uids : kpis[u] /= 0 => kpis[u] \in DOMAIN instances
  BY DEF CallsInv
<1>4. QED
  BY <1>1, <1>2, <1>3 DEF CallsInv

\* One object is cancelled: the one which is listed, while the KPI is clean.
LEMMA CancelOneInv ==
    ASSUME IInv, NEW c \in Callers, CancelOne(c)
    PROVE  IInv'
<1> DEFINE call == [calls[c] EXCEPT !.at = "remove"]
<1>1. /\ ObjectsInv /\ CallsInv /\ RunsInv /\ calls[c] \in Call /\ CallInv(c, calls[c])
  BY DEF IInv, CallsInv
<1>2. /\ call \in Call /\ call.uid = calls[c].uid /\ call.kpi = calls[c].kpi
      /\ call.then = calls[c].then /\ call.at = "remove" /\ call.todo = calls[c].todo
  BY <1>1 DEF Call, CallSteps
<1>3. Goes(c, call)
  BY DEF CancelOne
<1> HIDE DEF call
<1>4. PICK k : k = calls[c].kpi
  OBVIOUS
<1>5. /\ UNCHANGED <<states, left, runVars, kpis, begun, clean>>
      /\ calls[c].at = "cancelOne"
      /\ instances' = CancelledKpis({k}) /\ schedules' = CancelledSchedules({k})
  BY <1>4 DEF CancelOne
<1>6. k \in DOMAIN instances /\ instances[k].uid = calls[c].uid /\ calls[c].then = "end"
  BY <1>1, <1>4, <1>5 DEF CallInv
<1>7. ObjectsInv' /\ RunsInv'
  BY <1>5, <1>6, CancelObjects
<1>8. /\ DOMAIN instances' = DOMAIN instances /\ Len(instances') = Len(instances)
      /\ \A i \in DOMAIN instances : /\ instances'[i].uid = instances[i].uid
                                     /\ instances'[i].scheduler = instances[i].scheduler
      /\ DOMAIN schedules' = DOMAIN schedules
  BY <1>1, <1>5, <1>6, CancelEffect
<1>9. \A s \in DOMAIN schedules :
                  /\ schedules'[s].uuid = schedules[s].uuid
                  /\ schedules'[s].recurring = schedules[s].recurring
                  /\ schedules'[s].cancelled <=>
                         schedules[s].cancelled \/ s = instances[k].scheduler
                  /\ schedules[s].at = "ended" => schedules'[s].at = "ended"
  <2>1. PICK ks \in SUBSET DOMAIN instances : ks = {k}
    BY <1>6
  <2>2. \A s \in DOMAIN schedules :
                  /\ schedules'[s].uuid = schedules[s].uuid
                  /\ schedules'[s].recurring = schedules[s].recurring
                  /\ schedules'[s].cancelled <=>
                         schedules[s].cancelled \/ \E i \in ks : s = instances[i].scheduler
                  /\ schedules[s].at = "ended" => schedules'[s].at = "ended"
    BY <1>1, <1>5, <2>1, CancelEffect
  <2>3. QED
    BY <2>1, <2>2
<1>10. CallInv(c, call)
  BY <1>2, <1>6 DEF CallInv
<1>11. CallsInv'
  BY <1>1, <1>2, <1>3, <1>5, <1>8, <1>10, Domains, CancelCalls
<1>12. ASSUME NEW v \in clean' PROVE CleanCalls(v)' /\ CleanSchedules(v)'
  <2>1. \A d \in Callers : calls'[d] = IF d = c THEN call ELSE calls[d]
    BY <1>1, <1>2, <1>3, GoesEffect
  <2>2. v \in clean /\ CleanCalls(v) /\ CleanSchedules(v) /\ v \in Uids
    BY <1>1, <1>5 DEF IInv, CallsInv
  <2>3. WorkingOn(v)' \subseteq WorkingOn(v)
    BY <1>2, <1>5, <2>1 DEF WorkingOn, Busy
  <2>4. CleanCalls(v)'
    <3>1. \A a, b \in WorkingOn(v)' : a = b
      BY <2>2, <2>3 DEF CleanCalls
    <3>2. \A d \in Callers : calls'[d].then /= "cancelAll" /\ calls'[d].at /= "cancelAll"
      BY <1>2, <2>1, <2>2 DEF CleanCalls
    <3>3. DueForLoad(v)' => DueForLoad(v)
      BY <1>2, <2>1 DEF DueForLoad
    <3>4. \A d \in Callers : calls'[d].uid = v /\ calls'[d].at \in {"cancelOne", "remove"} =>
             kpis'[v] /= 0 /\ calls'[d].kpi = kpis'[v]
      BY <1>2, <1>5, <2>1, <2>2 DEF CleanCalls
    <3>5. QED
      BY <1>5, <2>2, <3>1, <3>2, <3>3, <3>4 DEF CleanCalls
  <2>5. kpis[v] /= 0 => kpis[v] \in DOMAIN instances /\ instances[kpis[v]].uid = v
    BY <1>1, <2>2, Domains DEF CallsInv
  <2>6. \A i \in DOMAIN instances : instances[i].scheduler /= 0 =>
            /\ instances[i].scheduler \in DOMAIN schedules
            /\ instances[i].scheduler = instances[k].scheduler => i = k
    BY <1>1, <1>6 DEF ObjectsInv, InstanceInv, ScheduleInv, Owns
  <2>7. \A s \in DOMAIN schedules : Armed(s)' => Armed(s)
    BY <1>9 DEF Armed
  <2>8. CASE v = calls[c].uid
    <3>1. kpis[v] = k /\ kpis[v] /= 0
      BY <1>4, <1>5, <2>2, <2>8 DEF CleanCalls
    <3>2. \A d \in Callers : d /= c => calls[d].uid /= v \/ calls[d].at = "idle"
      BY <1>5, <2>2, <2>8, OneWorks
    <3>3. \A d \in Callers : calls'[d].uid = v => calls'[d].at /= "put"
      BY <1>2, <2>1, <3>2
    <3>4. calls'[c].uid = v /\ calls'[c].at = "remove"
      BY <1>2, <2>1, <2>8
    <3>5. instances[k].scheduler /= 0 => schedules'[instances[k].scheduler].cancelled
      BY <1>6, <1>9, <2>6
    <3>6. \A s \in DOMAIN schedules :
              ~(schedules'[s].uuid = v /\ schedules'[s].recurring /\ Armed(s)')
      <4> SUFFICES ASSUME NEW s \in DOMAIN schedules, schedules[s].uuid = v,
                          schedules[s].recurring, Armed(s)'
                   PROVE  FALSE
        BY <1>9
      <4>1. s = instances[k].scheduler
        BY <1>5, <2>2, <2>7, <2>8, <3>1, <3>2 DEF CleanSchedules
      <4>2. QED
        BY <1>9, <4>1 DEF Armed
    <3>7. CleanSchedules(v)'
      BY <1>5, <1>6, <1>8, <3>1, <3>3, <3>4, <3>5, <3>6 DEF CleanSchedules
    <3>8. QED
      BY <2>4, <3>7
  <2>9. CASE v /= calls[c].uid
    <3>1. kpis[v] /= k
      BY <1>1, <1>6, <2>5, <2>9, Domains
    <3>2. \A d \in Callers : calls[d].uid = v /\ calls[d].at = "put" =>
              /\ calls[d].kpi \in DOMAIN instances /\ calls[d].kpi /= k
              /\ instances'[calls[d].kpi].scheduler = instances[calls[d].kpi].scheduler
      BY <1>1, <1>6, <1>8, <2>9 DEF CallsInv, CallInv
    <3>3. \A d \in Callers : calls'[d].uid = v => d /= c /\ calls'[d] = calls[d]
      BY <1>2, <2>1, <2>9
    <3>4. \A d \in Callers : calls[d].uid = v => d /= c /\ calls'[d] = calls[d]
      BY <2>1, <2>9
    <3>5. kpis[v] /= 0 => instances'[kpis[v]].scheduler = instances[kpis[v]].scheduler
      BY <1>8, <2>5
    <3>6. \A i \in DOMAIN instances : i /= k /\ instances[i].scheduler /= 0 =>
              schedules'[instances[i].scheduler].cancelled =
              schedules[instances[i].scheduler].cancelled
      <4> TAKE i \in DOMAIN instances
      <4> HAVE i /= k /\ instances[i].scheduler /= 0
      <4> DEFINE s == instances[i].scheduler
      <4>1. s \in DOMAIN schedules /\ s /= instances[k].scheduler
        BY <2>6
      <4>2. schedules[s].cancelled \in BOOLEAN /\ schedules'[s].cancelled \in BOOLEAN
        <5>1. schedules' \in Seq(Schedule) /\ DOMAIN schedules' = DOMAIN schedules
          BY <1>7, <1>8 DEF ObjectsInv
        <5>2. schedules[s] \in Schedule /\ schedules'[s] \in Schedule
          BY <1>1, <4>1, <5>1, Domains
        <5>3. QED
          BY <5>2 DEF Schedule
      <4>3. QED
        BY <1>9, <4>1, <4>2
    <3>7. kpis[v] /= 0 /\ instances[kpis[v]].scheduler /= 0 =>
              schedules'[instances[kpis[v]].scheduler].cancelled =
              schedules[instances[kpis[v]].scheduler].cancelled
      BY <2>5, <3>1, <3>6
    <3>8. \A d \in Callers : calls[d].uid = v /\ calls[d].at = "put" /\ instances[calls[d].kpi].scheduler /= 0 =>
              schedules'[instances[calls[d].kpi].scheduler].cancelled =
              schedules[instances[calls[d].kpi].scheduler].cancelled
      BY <3>2, <3>6
    <3>9. \A d \in Callers : calls[d].uid = v /\ calls[d].at = "remove" => kpis[v] /= 0
      BY <2>2 DEF CleanCalls
    <3>10. CleanSchedules(v)'
      <4>1. (kpis[v] /= 0 /\ instances[kpis[v]].scheduler /= 0 =>
           \/ ~schedules[instances[kpis[v]].scheduler].cancelled
           \/ \E d \in Callers : calls[d].uid = v /\ calls[d].at = "remove")'
        BY <1>5, <2>2, <3>4, <3>5, <3>7 DEF CleanSchedules
      <4>2. (\A d \in Callers : calls[d].uid = v /\ calls[d].at = "remove"
                          /\ instances[kpis[v]].scheduler /= 0 =>
             schedules[instances[kpis[v]].scheduler].cancelled)'
        BY <1>5, <2>2, <3>3, <3>5, <3>7, <3>9 DEF CleanSchedules
      <4>3. (\A d \in Callers : calls[d].uid = v /\ calls[d].at = "put"
                          /\ instances[calls[d].kpi].scheduler /= 0 =>
             ~schedules[instances[calls[d].kpi].scheduler].cancelled)'
        BY <2>2, <3>2, <3>3, <3>8 DEF CleanSchedules
      <4>4. \A s \in DOMAIN schedules :
                schedules'[s].uuid = v /\ schedules'[s].recurring /\ Armed(s)' =>
                    \/ kpis'[v] /= 0 /\ s = instances'[kpis'[v]].scheduler
                    \/ \E d \in Callers : /\ calls'[d].uid = v /\ calls'[d].at = "put"
                                          /\ s = instances'[calls'[d].kpi].scheduler
        <5> TAKE s \in DOMAIN schedules
        <5> HAVE schedules'[s].uuid = v /\ schedules'[s].recurring /\ Armed(s)'
        <5>1. \/ kpis[v] /= 0 /\ s = instances[kpis[v]].scheduler
              \/ \E d \in Callers : /\ calls[d].uid = v /\ calls[d].at = "put"
                                    /\ s = instances[calls[d].kpi].scheduler
          BY <1>9, <2>2, <2>7 DEF CleanSchedules
        <5>2. QED
          BY <1>5, <3>2, <3>4, <3>5, <5>1
      <4>5. QED
        BY <1>8, <4>1, <4>2, <4>3, <4>4 DEF CleanSchedules
    <3>11. QED
      BY <2>4, <3>10
  <2>10. QED
    BY <2>8, <2>9
<1>13. QED
  BY <1>7, <1>11, <1>12 DEF IInv

\* Every listed object may be cancelled only by a reload(): no KPI is clean.
LEMMA CancelAllInv ==
    ASSUME IInv, NEW c \in Callers, CancelAll(c)
    PROVE  IInv'
<1>1. ObjectsInv /\ CallsInv /\ RunsInv
  BY DEF IInv
<1>2. PICK ks \in SUBSET ({kpis[u] : u \in Uids} \ {0}) :
          instances' = CancelledKpis(ks) /\ schedules' = CancelledSchedules(ks)
  BY DEF CancelAll
<1>3. ks \in SUBSET DOMAIN instances
  <2>1. \A u \in Uids : kpis[u] /= 0 => kpis[u] \in DOMAIN instances
    BY <1>1, Domains DEF CallsInv
  <2>2. QED
    BY <2>1
<1>4. UNCHANGED <<states, left, runVars, kpis, begun, clean>> /\ calls[c].at = "cancelAll"
  BY DEF CancelAll
<1>5. ObjectsInv' /\ RunsInv'
  BY <1>2, <1>3, <1>4, CancelObjects
<1>6. Goes(c, Idle) /\ Idle \in Call /\ CallInv(c, Idle)
  BY IdleType, IdleCallInv DEF CancelAll, Ends
<1>7. /\ DOMAIN instances' = DOMAIN instances /\ Len(instances') = Len(instances)
      /\ \A i \in DOMAIN instances : instances'[i].uid = instances[i].uid
  BY <1>1, <1>2, <1>3, CancelEffect
<1>8. CallsInv'
  BY <1>1, <1>4, <1>6, <1>7, Domains, CancelCalls
<1>9. clean' = {}
  BY <1>4 DEF IInv, CleanCalls
<1>10. QED
  BY <1>5, <1>8, <1>9 DEF IInv

-----------------------------------------------------------------------------
(* Loading *)

\* What loading makes: one object, and what it schedules.
MadeBy(c, kind) ==
    LET k == Len(instances) + 1 IN
    /\ instances' \in Seq(Instance) /\ Len(instances') = k
    /\ \A i \in DOMAIN instances : instances'[i] = instances[i]
    /\ instances'[k].uid = calls[c].uid /\ ~instances'[k].cancelled
    /\ instances'[k].initial \in {0, Len(schedules) + 1}
    /\ instances'[k].scheduler \in {0, Len(schedules) + 2}
    /\ kind /= "scheduled" => instances'[k].scheduler = 0
    /\ schedules' \in Seq(Schedule) /\ Len(schedules') \in Len(schedules)..Len(schedules) + 2
    /\ \A s \in DOMAIN schedules : schedules'[s] = schedules[s]
    /\ instances'[k].initial /= 0 =>
           /\ instances'[k].initial <= Len(schedules')
           /\ ~schedules'[instances'[k].initial].recurring
    /\ instances'[k].scheduler /= 0 =>
           /\ instances'[k].scheduler <= Len(schedules')
           /\ schedules'[instances'[k].scheduler].recurring
    /\ \A s \in DOMAIN schedules' : s > Len(schedules) =>
           /\ s \in {instances'[k].initial, instances'[k].scheduler}
           /\ schedules'[s].uuid = calls[c].uid /\ ~schedules'[s].cancelled

\* A load makes one object, which owns the schedules it makes and no other.
LEMMA LoadEffect ==
    ASSUME ObjectsInv, NEW c \in Callers, calls[c].uid \in Uids,
           2 * (Len(instances) + 1) <= MaxSchedules, NEW kind, Load(c, kind)
    PROVE  MadeBy(c, kind)
<1> DEFINE n == Len(schedules)
           u == calls[c].uid
           first == [uuid |-> u, exclusive |-> FALSE, recurring |-> FALSE,
                     cancelled |-> FALSE, at |-> "armed"]
           once == Append(schedules, first)
           second == [once[Len(once)] EXCEPT !.recurring = TRUE]
           both == Append(once, second)
           kpi == [uid |-> u, cancelled |-> FALSE, initial |-> 0, scheduler |-> 0]
           twice == [kpi EXCEPT !.initial = Len(once), !.scheduler = Len(both)]
           half == [kpi EXCEPT !.initial = Len(once)]
<1>1. /\ schedules \in Seq(Schedule) /\ n \in Nat /\ DOMAIN schedules = 1..n
      /\ instances \in Seq(Instance) /\ Len(instances) \in Nat
      /\ DOMAIN instances = 1..Len(instances)
      /\ n <= 2 * Len(instances) /\ MaxSchedules \in Nat
  BY Domains, MaxSchedulesAssumption DEF ObjectsInv
<1>2. /\ first \in Schedule /\ first.uuid = u /\ ~first.cancelled /\ ~first.recurring
      /\ kpi \in Instance /\ kpi.uid = u /\ ~kpi.cancelled /\ kpi.initial = 0
      /\ kpi.scheduler = 0
  BY <1>1 DEF Schedule, Stages, Uids, Instance
<1>3. \/ kind = "scheduled" /\ schedules' = both /\ instances' = Append(instances, twice)
      \/ schedules' = once /\ instances' = Append(instances, half)
      \/ schedules' = schedules /\ instances' = Append(instances, kpi)
  <2>1. Scheduled(calls[c].uid, FALSE, FALSE) = once
    BY DEF Scheduled
  <2> HIDE DEF once
  <2>2. QED
    BY <2>1 DEF Load
<1> HIDE DEF kpi, first
<1>4. /\ once \in Seq(Schedule) /\ Len(once) = n + 1 /\ once[n + 1] = first
      /\ \A s \in DOMAIN schedules : once[s] = schedules[s]
  BY <1>1, <1>2, AppendProperties
<1> HIDE DEF once
<1>5. /\ second \in Schedule /\ second.uuid = u /\ ~second.cancelled /\ second.recurring
  <2>1. \A e \in Schedule : LET new == [e EXCEPT !.recurring = TRUE]
                            IN  /\ new \in Schedule /\ new.uuid = e.uuid
                                /\ new.cancelled = e.cancelled /\ new.recurring = TRUE
    BY DEF Schedule
  <2>2. once[Len(once)] = first
    BY <1>4
  <2>3. QED
    BY <1>2, <2>1, <2>2
<1> HIDE DEF second
<1>6. /\ both \in Seq(Schedule) /\ Len(both) = n + 2 /\ both[n + 2] = second
      /\ both[n + 1] = first /\ \A s \in DOMAIN schedules : both[s] = schedules[s]
  <2>1. /\ both \in Seq(Schedule) /\ Len(both) = Len(once) + 1 /\ both[Len(once) + 1] = second
        /\ \A s \in 1..Len(once) : both[s] = once[s]
    BY <1>4, <1>5, AppendProperties
  <2> HIDE DEF both
  <2>2. n + 1 \in 1..Len(once) /\ \A s \in DOMAIN schedules : s \in 1..Len(once)
    BY <1>1, <1>4
  <2>3. both[n + 1] = first /\ \A s \in DOMAIN schedules : both[s] = schedules[s]
    BY <1>4, <2>1, <2>2
  <2>4. QED
    BY <1>1, <1>4, <2>1, <2>3
<1> HIDE DEF both
<1>7. /\ twice \in Instance /\ twice.uid = u /\ ~twice.cancelled
      /\ twice.initial = n + 1 /\ twice.scheduler = n + 2
      /\ half \in Instance /\ half.uid = u /\ ~half.cancelled
      /\ half.initial = n + 1 /\ half.scheduler = 0
  <2>1. Len(once) \in 0..MaxSchedules /\ Len(both) \in 0..MaxSchedules
    BY <1>1, <1>4, <1>6
  <2>2. PICK i, j \in 0..MaxSchedules : i = Len(once) /\ j = Len(both)
    BY <2>1
  <2>3. twice = [kpi EXCEPT !.initial = i, !.scheduler = j] /\ half = [kpi EXCEPT !.initial = i]
    BY <2>2
  <2>4. i = n + 1 /\ j = n + 2
    BY <1>4, <1>6, <2>2
  <2> HIDE DEF twice, half
  <2>5. /\ twice \in Instance /\ twice.uid = u /\ ~twice.cancelled
        /\ twice.initial = i /\ twice.scheduler = j
        /\ half \in Instance /\ half.uid = u /\ ~half.cancelled
        /\ half.initial = i /\ half.scheduler = 0
    BY <1>2, <2>3 DEF Instance
  <2>6. QED
    BY <2>4, <2>5
<1> HIDE DEF twice, half
<1>8. CASE kind = "scheduled" /\ schedules' = both /\ instances' = Append(instances, twice)
  <2>1. /\ instances' \in Seq(Instance) /\ Len(instances') = Len(instances) + 1
        /\ \A i \in DOMAIN instances : instances'[i] = instances[i]
        /\ instances'[Len(instances) + 1] = twice
    BY <1>1, <1>7, <1>8, AppendProperties
  <2>2. DOMAIN schedules' = 1..(n + 2)
    BY <1>1, <1>6, <1>8, LenProperties
  <2>3. /\ schedules' \in Seq(Schedule) /\ Len(schedules') = n + 2
        /\ schedules'[n + 1] = first /\ schedules'[n + 2] = second
        /\ \A s \in DOMAIN schedules : schedules'[s] = schedules[s]
    BY <1>6, <1>8
  <2>4. \A s \in DOMAIN schedules' : s > n => s = n + 1 \/ s = n + 2
    <3>1. PICK m \in Nat : m = n
      BY <1>1
    <3>2. \A s \in 1..(m + 2) : s > m => s = m + 1 \/ s = m + 2
      OBVIOUS
    <3>3. QED
      BY <2>2, <3>1, <3>2
  <2>5. QED
    BY <1>1, <1>2, <1>5, <1>7, <1>8, <2>1, <2>3, <2>4 DEF MadeBy
<1>9. CASE schedules' = once /\ instances' = Append(instances, half)
  <2>1. /\ instances' \in Seq(Instance) /\ Len(instances') = Len(instances) + 1
        /\ \A i \in DOMAIN instances : instances'[i] = instances[i]
        /\ instances'[Len(instances) + 1] = half
    BY <1>1, <1>7, <1>9, AppendProperties
  <2>2. DOMAIN schedules' = 1..(n + 1)
    BY <1>1, <1>4, <1>9, LenProperties
  <2>3. \A s \in DOMAIN schedules' : s > n => s = n + 1
    BY <1>1, <2>2
  <2>4. QED
    BY <1>1, <1>2, <1>4, <1>7, <1>9, <2>1, <2>3 DEF MadeBy
<1>10. CASE schedules' = schedules /\ instances' = Append(instances, kpi)
  <2>1. /\ instances' \in Seq(Instance) /\ Len(instances') = Len(instances) + 1
        /\ \A i \in DOMAIN instances : instances'[i] = instances[i]
        /\ instances'[Len(instances) + 1] = kpi
    BY <1>1, <1>2, <1>10, AppendProperties
  <2>2. QED
    BY <1>1, <1>2, <1>10, <2>1 DEF MadeBy
<1>11. QED
  BY <1>3, <1>8, <1>9, <1>10

\* What is made belongs to the new object only.
LEMMA LoadObjects ==
    ASSUME IInv, NEW c \in Callers, NEW kind, MadeBy(c, kind),
           UNCHANGED <<states, left, runVars>>, 2 * (Len(instances) + 1) <= MaxSchedules
    PROVE  ObjectsInv' /\ RunsInv'
<1>1. ObjectsInv /\ RunsInv /\ UNCHANGED <<states, left, storing, late, erred>>
  BY DEF IInv, runVars
<1>2. PICK k : k = Len(instances) + 1
  OBVIOUS
<1>3. /\ DOMAIN schedules = 1..Len(schedules) /\ Len(schedules) \in Nat
      /\ DOMAIN instances = 1..Len(instances) /\ Len(instances) \in Nat
  BY <1>1, Domains
<1>4. /\ instances' \in Seq(Instance) /\ Len(instances') = k /\ DOMAIN instances' = 1..k
      /\ \A i \in DOMAIN instances : instances'[i] = instances[i]
      /\ instances'[k].uid = calls[c].uid /\ ~instances'[k].cancelled
  BY <1>2, LenProperties DEF MadeBy
<1>5. /\ schedules' \in Seq(Schedule) /\ Len(schedules') \in Len(schedules)..Len(schedules) + 2
      /\ DOMAIN schedules' = 1..Len(schedules')
      /\ \A s \in DOMAIN schedules : s \in DOMAIN schedules' /\ schedules'[s] = schedules[s]
  <2>1. DOMAIN schedules' = 1..Len(schedules')
    BY LenProperties DEF MadeBy
  <2>2. QED
    BY <1>3, <2>1 DEF MadeBy
<1>6. /\ instances'[k].initial \in {0, Len(schedules) + 1}
      /\ instances'[k].scheduler \in {0, Len(schedules) + 2}
      /\ instances'[k].initial /= 0 =>
           /\ instances'[k].initial <= Len(schedules')
           /\ ~schedules'[instances'[k].initial].recurring
      /\ instances'[k].scheduler /= 0 =>
           /\ instances'[k].scheduler <= Len(schedules')
           /\ schedules'[instances'[k].scheduler].recurring
  BY <1>2 DEF MadeBy
<1>7. \A s \in DOMAIN schedules' : s > Len(schedules) =>
           /\ s \in {instances'[k].initial, instances'[k].scheduler}
           /\ schedules'[s].uuid = calls[c].uid /\ ~schedules'[s].cancelled
  BY <1>2 DEF MadeBy
<1>8. \A i \in DOMAIN instances :
          /\ InstanceInv(i)
          /\ instances[i].initial \in 0..Len(schedules)
          /\ instances[i].scheduler \in 0..Len(schedules)
  <2> TAKE i \in DOMAIN instances
  <2>1. InstanceInv(i) /\ instances[i] \in Instance
    BY <1>1, Domains DEF ObjectsInv
  <2>2. instances[i].initial \in Nat /\ instances[i].scheduler \in Nat
    BY <2>1 DEF Instance
  <2>3. QED
    BY <1>3, <2>1, <2>2 DEF InstanceInv
<1>9. \A i \in DOMAIN instances' : InstanceInv(i)'
  <2> TAKE i \in DOMAIN instances'
  <2>1. CASE i \in DOMAIN instances
    BY <1>4, <1>5, <1>8, <2>1 DEF InstanceInv
  <2>2. CASE i = k
    <3>1. PICK n, m \in Nat : n = Len(schedules) /\ m = Len(schedules') /\ DOMAIN schedules' = 1..m
      <4>1. Len(schedules') \in Nat
        BY <1>5, LenProperties
      <4>2. QED
        BY <1>3, <1>5, <4>1
    <3>2. \A s \in {n + 1, n + 2} : s <= m => s \in DOMAIN schedules' /\ s > n
      BY <3>1
    <3>3. instances'[k].initial /= 0 =>
              /\ instances'[k].initial \in DOMAIN schedules'
              /\ ~schedules'[instances'[k].initial].recurring
      BY <1>6, <3>1, <3>2
    <3>4. instances'[k].scheduler /= 0 =>
              /\ instances'[k].scheduler \in DOMAIN schedules'
              /\ schedules'[instances'[k].scheduler].recurring
              /\ schedules'[instances'[k].scheduler].uuid = instances'[k].uid
      BY <1>4, <1>6, <1>7, <3>1, <3>2
    <3>5. QED
      BY <1>4, <2>2, <3>3, <3>4 DEF InstanceInv
  <2>3. QED
    BY <1>2, <1>3, <1>4, <2>1, <2>2
<1>10. \A s \in DOMAIN schedules' : ScheduleInv(s)'
  <2> TAKE s \in DOMAIN schedules'
  <2>1. CASE s \in DOMAIN schedules
    <3>1. ScheduleInv(s)
      BY <1>1, <2>1 DEF ObjectsInv
    <3>2. \A i \in DOMAIN instances : Owns(i, s)' <=> Owns(i, s)
      BY <1>4 DEF Owns
    <3>3. ~Owns(k, s)'
      BY <1>3, <1>6, <2>1 DEF Owns
    <3>4. \A i \in DOMAIN instances' : i = k \/ i \in DOMAIN instances
      BY <1>2, <1>3, <1>4
    <3>5. \E i \in DOMAIN instances' : Owns(i, s)'
      BY <1>2, <1>3, <1>4, <3>1, <3>2 DEF ScheduleInv
    <3>6. \A i, j \in DOMAIN instances' : Owns(i, s)' /\ Owns(j, s)' => i = j
      BY <3>1, <3>2, <3>3, <3>4 DEF ScheduleInv
    <3>7. schedules'[s].cancelled => schedules'[s].at /= "armed"
      BY <1>5, <2>1, <3>1 DEF ScheduleInv
    <3>8. QED
      BY <3>5, <3>6, <3>7 DEF ScheduleInv
  <2>2. CASE s \notin DOMAIN schedules
    <3>1. s > Len(schedules)
      BY <1>3, <1>5, <2>2
    <3>2. \A i \in DOMAIN instances : ~Owns(i, s)'
      BY <1>3, <1>4, <1>8, <3>1 DEF Owns
    <3>3. Owns(k, s)' /\ k \in DOMAIN instances' /\ ~schedules'[s].cancelled
      BY <1>2, <1>3, <1>4, <1>7, <3>1 DEF Owns
    <3>4. \A i \in DOMAIN instances' : i = k \/ i \in DOMAIN instances
      BY <1>2, <1>3, <1>4
    <3>5. QED
      BY <3>2, <3>3, <3>4 DEF ScheduleInv
  <2>3. QED
    BY <2>1, <2>2
<1>11. ObjectsInv'
  <2>1. Len(schedules') <= 2 * Len(instances') /\ 2 * Len(instances') <= MaxSchedules
    BY <1>1, <1>2, <1>3, <1>4, <1>5, MaxSchedulesAssumption DEF ObjectsInv
  <2>2. QED
    BY <1>4, <1>5, <1>9, <1>10, <2>1 DEF ObjectsInv
<1>12. \A s \in late : LateInv(s)'
  <2> TAKE s \in late
  <2>1. s \in DOMAIN schedules /\ LateInv(s)
    BY <1>1 DEF RunsInv
  <2>2. \A i \in DOMAIN instances' : Owns(i, s)' => instances'[i].cancelled
    <3> TAKE i \in DOMAIN instances'
    <3>1. CASE i \in DOMAIN instances
      BY <1>4, <2>1, <3>1 DEF Owns, LateInv
    <3>2. CASE i = k
      BY <1>3, <1>6, <2>1, <3>2 DEF Owns
    <3>3. QED
      BY <1>2, <1>3, <1>4, <3>1, <3>2
  <2>3. QED
    BY <1>1, <1>5, <2>1, <2>2 DEF LateInv
<1>13. RunsInv'
  BY <1>1, <1>5, <1>12 DEF RunsInv
<1>14. QED
  BY <1>11, <1>13

\* The calls after a step that makes one object.
LEMMA LoadCalls ==
    ASSUME IInv, NEW c \in Callers, NEW call \in Call, Goes(c, call),
           Len(instances') = Len(instances) + 1, DOMAIN instances' = 1..(Len(instances) + 1),
           \A k \in DOMAIN instances : instances'[k] = instances[k],
           \/ call.at = "put" /\ call.kpi = Len(instances) + 1
              /\ instances'[call.kpi].uid = call.uid
           \/ call.at \in {"idle", "next"},
           call.then = "up" => c = Boot,
           call.then /= "end" => call.at /= "idle",
           call.at = "next" => call.then /= "end",
           call.then /= "end" => call.todo[call.uid] = "inactive",
           UNCHANGED <<kpis, begun, clean>>
    PROVE  CallsInv'
<1>1. CallsInv /\ DOMAIN instances = 1..Len(instances) /\ Len(instances) \in Nat
  BY Domains DEF IInv
<1>2. /\ calls' \in [Callers -> Call]
      /\ \A d \in Callers : calls'[d] = IF d = c THEN call ELSE calls[d]
  BY <1>1, GoesEffect
<1>3. \A k \in DOMAIN instances : k \in DOMAIN instances'
  BY <1>1
<1>4. \A d \in Callers : CallInv(d, calls[d])
  BY <1>1 DEF CallsInv
<1>5. (\A d \in Callers : CallInv(d, calls[d]))'
  BY <1>1, <1>2, <1>3, <1>4 DEF CallInv
<1>6. \A u \in Uids : kpis[u] \in 0..Len(instances')
                      /\ (kpis[u] /= 0 => kpis[u] \in DOMAIN instances)
  BY <1>1 DEF CallsInv
<1>7. kpis \in [Uids -> 0..Len(instances')]
  BY <1>1, <1>6 DEF CallsInv
<1>8. \A u \in Uids : kpis[u] /= 0 => instances'[kpis[u]].uid = u
  BY <1>1, <1>6 DEF CallsInv
<1>9. QED
  BY <1>1, <1>2, <1>5, <1>7, <1>8 DEF CallsInv

\* What is made concerns the clean KPI that waits for it.
LEMMA LoadClean ==
    ASSUME IInv, NEW c \in Callers, NEW kind, MadeBy(c, kind), NEW call \in Call, Goes(c, call),
           calls[c].at = "load",
           \/ /\ call.at = "put" /\ call.kpi = Len(instances) + 1 /\ call.uid = calls[c].uid
              /\ call.then = calls[c].then /\ call.todo = calls[c].todo
           \/ /\ call.at = "next" /\ kind /= "scheduled" /\ call.uid = calls[c].uid
              /\ call.then = calls[c].then /\ call.todo = calls[c].todo
           \/ call.at = "idle" /\ kind /= "scheduled" /\ call.then = "end",
           UNCHANGED <<kpis, clean>>
    PROVE  \A v \in clean' : CleanCalls(v)' /\ CleanSchedules(v)'
<1> SUFFICES ASSUME NEW v \in clean PROVE CleanCalls(v)' /\ CleanSchedules(v)'
  OBVIOUS
<1>1. /\ CleanCalls(v) /\ CleanSchedules(v) /\ v \in Uids
      /\ ObjectsInv /\ CallsInv
  BY DEF IInv, CallsInv
<1>2. \A d \in Callers : calls'[d] = IF d = c THEN call ELSE calls[d]
  BY <1>1, GoesEffect
<1>3. PICK k : k = Len(instances) + 1
  OBVIOUS
<1>4. /\ DOMAIN schedules = 1..Len(schedules) /\ Len(schedules) \in Nat
      /\ DOMAIN instances = 1..Len(instances) /\ Len(instances) \in Nat
  BY <1>1, Domains
<1>5. /\ \A i \in DOMAIN instances : instances'[i] = instances[i]
      /\ \A s \in DOMAIN schedules : schedules'[s] = schedules[s]
      /\ kind /= "scheduled" => instances'[k].scheduler = 0
      /\ instances'[k].initial /= 0 => ~schedules'[instances'[k].initial].recurring
  BY <1>3 DEF MadeBy
<1>6. \A s \in DOMAIN schedules' : s \notin DOMAIN schedules =>
           /\ s \in {instances'[k].initial, instances'[k].scheduler} /\ s > 0
           /\ schedules'[s].uuid = calls[c].uid /\ ~schedules'[s].cancelled
  <2>1. DOMAIN schedules' = 1..Len(schedules') /\ Len(schedules') \in Nat
    BY LenProperties DEF MadeBy
  <2>2. \A s \in DOMAIN schedules' : s \notin DOMAIN schedules => s > Len(schedules) /\ s > 0
    BY <1>4, <2>1
  <2>3. QED
    BY <1>3, <2>2 DEF MadeBy
<1>7. instances'[k].scheduler /= 0 => ~schedules'[instances'[k].scheduler].cancelled
  <2>1. DOMAIN schedules' = 1..Len(schedules') /\ Len(schedules') \in Nat
    BY LenProperties DEF MadeBy
  <2>2. instances'[k].scheduler \in {0, Len(schedules) + 2}
        /\ (instances'[k].scheduler /= 0 => instances'[k].scheduler <= Len(schedules'))
    BY <1>3 DEF MadeBy
  <2>3. instances'[k].scheduler /= 0 => instances'[k].scheduler \in DOMAIN schedules'
                                        /\ instances'[k].scheduler \notin DOMAIN schedules
    BY <1>4, <2>1, <2>2
  <2>4. QED
    BY <1>6, <2>3
<1>8. v = calls[c].uid => kpis[v] = 0
  BY <1>1 DEF CleanCalls, DueForLoad
<1>9. kpis[v] /= 0 => kpis[v] \in DOMAIN instances
  BY <1>1, <1>4 DEF CallsInv
<1>10. \A i \in DOMAIN instances : instances[i].scheduler /= 0 =>
           instances[i].scheduler \in DOMAIN schedules
  BY <1>1 DEF ObjectsInv, InstanceInv
<1>11. CleanCalls(v)'
  <2>1. WorkingOn(v)' \subseteq WorkingOn(v)
    BY <1>2 DEF WorkingOn, Busy
  <2>2. \A a, b \in WorkingOn(v)' : a = b
    BY <1>1, <2>1 DEF CleanCalls
  <2>3. \A d \in Callers : calls'[d].then /= "cancelAll" /\ calls'[d].at /= "cancelAll"
    BY <1>1, <1>2 DEF CleanCalls
  <2>4. DueForLoad(v)' => DueForLoad(v)
    BY <1>2 DEF DueForLoad
  <2>5. \A d \in Callers : calls'[d].uid = v /\ calls'[d].at \in {"cancelOne", "remove"} =>
           kpis'[v] /= 0 /\ calls'[d].kpi = kpis'[v]
    BY <1>1, <1>2 DEF CleanCalls
  <2>6. QED
    BY <1>1, <2>2, <2>3, <2>4, <2>5 DEF CleanCalls
<1>12. CleanSchedules(v)'
  <2>1. (kpis[v] /= 0 /\ instances[kpis[v]].scheduler /= 0 =>
           \/ ~schedules[instances[kpis[v]].scheduler].cancelled
           \/ \E d \in Callers : calls[d].uid = v /\ calls[d].at = "remove")'
    BY <1>1, <1>2, <1>5, <1>9, <1>10 DEF CleanSchedules
  <2>2. (\A d \in Callers : calls[d].uid = v /\ calls[d].at = "remove"
                          /\ instances[kpis[v]].scheduler /= 0 =>
             schedules[instances[kpis[v]].scheduler].cancelled)'
    <3> SUFFICES ASSUME NEW d \in Callers, calls'[d].uid = v, calls'[d].at = "remove",
                        instances'[kpis'[v]].scheduler /= 0
                 PROVE  schedules'[instances'[kpis'[v]].scheduler].cancelled
      OBVIOUS
    <3>1. d /= c /\ calls'[d] = calls[d]
      BY <1>2
    <3>2. kpis[v] /= 0
      BY <1>1, <3>1 DEF CleanCalls
    <3>3. QED
      BY <1>1, <1>5, <1>9, <1>10, <3>1, <3>2 DEF CleanSchedules
  <2>3. (\A d \in Callers : calls[d].uid = v /\ calls[d].at = "put"
                          /\ instances[calls[d].kpi].scheduler /= 0 =>
             ~schedules[instances[calls[d].kpi].scheduler].cancelled)'
    <3> SUFFICES ASSUME NEW d \in Callers, calls'[d].uid = v, calls'[d].at = "put",
                        instances'[calls'[d].kpi].scheduler /= 0
                 PROVE  ~schedules'[instances'[calls'[d].kpi].scheduler].cancelled
      OBVIOUS
    <3>1. CASE d = c
      BY <1>2, <1>3, <1>7, <3>1
    <3>2. CASE d /= c
      <4>1. calls'[d] = calls[d] /\ calls[d].kpi \in DOMAIN instances
        BY <1>1, <1>2, <3>2 DEF CallsInv, CallInv
      <4>2. QED
        BY <1>1, <1>5, <1>10, <4>1 DEF CleanSchedules
    <3>3. QED
      BY <3>1, <3>2
  <2>4. \A s \in DOMAIN schedules' :
            schedules'[s].uuid = v /\ schedules'[s].recurring /\ Armed(s)' =>
                \/ kpis'[v] /= 0 /\ s = instances'[kpis'[v]].scheduler
                \/ \E d \in Callers : /\ calls'[d].uid = v /\ calls'[d].at = "put"
                                      /\ s = instances'[calls'[d].kpi].scheduler
    <3> TAKE s \in DOMAIN schedules'
    <3> HAVE schedules'[s].uuid = v /\ schedules'[s].recurring /\ Armed(s)'
    <3>1. CASE s \in DOMAIN schedules
      <4>1. schedules[s].uuid = v /\ schedules[s].recurring /\ Armed(s)
        BY <1>5, <3>1 DEF Armed
      <4>2. \/ kpis[v] /= 0 /\ s = instances[kpis[v]].scheduler
            \/ \E d \in Callers : /\ calls[d].uid = v /\ calls[d].at = "put"
                                  /\ s = instances[calls[d].kpi].scheduler
        BY <1>1, <3>1, <4>1 DEF CleanSchedules
      <4>3. CASE kpis[v] /= 0 /\ s = instances[kpis[v]].scheduler
        BY <1>5, <1>9, <4>3
      <4>4. ASSUME NEW d \in Callers, calls[d].uid = v, calls[d].at = "put",
                   s = instances[calls[d].kpi].scheduler
            PROVE  \E e \in Callers : /\ calls'[e].uid = v /\ calls'[e].at = "put"
                                      /\ s = instances'[calls'[e].kpi].scheduler
        <5>1. calls'[d] = calls[d] /\ calls[d].kpi \in DOMAIN instances
          BY <1>1, <1>2, <4>4 DEF CallsInv, CallInv
        <5>2. QED
          BY <1>5, <4>4, <5>1
      <4>5. QED
        BY <4>2, <4>3, <4>4
    <3>2. CASE s \notin DOMAIN schedules
      <4>1. s \in {instances'[k].initial, instances'[k].scheduler} /\ s > 0
            /\ v = calls[c].uid
        BY <1>6, <3>2
      <4>2. s = instances'[k].scheduler
        BY <1>5, <4>1
      <4>3. call.at = "put" /\ call.kpi = k /\ call.uid = v
        BY <1>3, <1>5, <4>1, <4>2
      <4>4. QED
        BY <1>2, <4>2, <4>3
    <3>3. QED
      BY <3>1, <3>2
  <2>5. QED
    BY <2>1, <2>2, <2>3, <2>4 DEF CleanSchedules
<1>13. QED
  BY <1>11, <1>12

\* The definition is initialised, or it fails; what has been scheduled stays.
LEMMA InitKpiInv ==
    ASSUME IInv, NEW c \in Callers, InitKpi(c)
    PROVE  IInv'
<1>1. /\ ObjectsInv /\ CallsInv /\ calls[c] \in Call /\ CallInv(c, calls[c])
      /\ calls[c].uid \in Uids /\ calls[c].at = "load"
  BY DEF IInv, CallsInv, Call, InitKpi
<1>2. UNCHANGED <<states, left, runVars, kpis, begun, clean>>
  BY DEF InitKpi
<1>3. DOMAIN instances = 1..Len(instances) /\ Len(instances) \in Nat
  BY <1>1, Domains
<1>4. CASE calls[c].kind = "invalid"
  <2>1. Loaded(c) /\ UNCHANGED <<schedulerVars, runVars, instances, kpis, begun, clean>>
    BY <1>2, <1>4 DEF InitKpi, schedulerVars
  <2>2. PICK call \in Call :
               /\ Goes(c, call) /\ call.at \in {"idle", "next"}
               /\ call.at = "next" => /\ call.uid = calls[c].uid /\ call.then = calls[c].then
                                      /\ call.todo = calls[c].todo /\ call.then /= "end"
               /\ call.at = "idle" => call.then = "end"
    BY <1>1, <2>1, LoadedCall
  <2>3. CallInv(c, call)
    BY <1>1, <2>2 DEF CallInv
  <2>4. \A v \in clean :
            /\ call.then /= "cancelAll"
            /\ call.at = "next" => c \in WorkingOn(v)
            /\ call.at = "next" /\ call.then = "up" /\ call.todo[v] /= "inactive" => DueForLoad(v)
    BY <1>1, <2>2 DEF IInv, CleanCalls, WorkingOn, Busy, DueForLoad
  <2>5. QED
    BY <1>1, <2>1, <2>2, <2>3, <2>4, GoesOnInv
<1>5. CASE calls[c].kind /= "invalid"
  <2>1. PICK kind : kind = calls[c].kind
    OBVIOUS
  <2>2. Load(c, kind) /\ 2 * (Len(instances) + 1) <= MaxSchedules
    BY <1>5, <2>1 DEF InitKpi
  <2>3. MadeBy(c, kind)
    BY <1>1, <2>2, LoadEffect
  <2>4. ObjectsInv' /\ RunsInv'
    BY <1>2, <2>2, <2>3, LoadObjects
  <2>5. /\ Len(instances') = Len(instances) + 1 /\ instances' \in Seq(Instance)
        /\ \A k \in DOMAIN instances : instances'[k] = instances[k]
        /\ instances'[Len(instances) + 1].uid = calls[c].uid
    BY <2>3 DEF MadeBy
  <2>6. DOMAIN instances' = 1..(Len(instances) + 1)
    BY <2>5, LenProperties
  <2>7. CASE kind \in {"plain", "scheduled"}
    <3> PICK k \in Nat : k = Len(instances')
      BY <1>3, <2>5
    <3> DEFINE call == [calls[c] EXCEPT !.kpi = k, !.at = "put"]
    <3>1. Goes(c, call)
      BY <2>1, <2>7 DEF InitKpi
    <3>2. /\ call \in Call /\ call.uid = calls[c].uid /\ call.then = calls[c].then
          /\ call.at = "put" /\ call.todo = calls[c].todo /\ call.kpi = Len(instances) + 1
      BY <1>1, <1>3, <2>5 DEF Call, CallSteps
    <3> HIDE DEF call
    <3>3. CallsInv'
      BY <1>1, <1>2, <2>5, <2>6, <3>1, <3>2, LoadCalls DEF CallInv
    <3>4. \A v \in clean' : CleanCalls(v)' /\ CleanSchedules(v)'
      BY <1>1, <1>2, <2>3, <3>1, <3>2, LoadClean
    <3>5. QED
      BY <2>4, <3>3, <3>4 DEF IInv
  <2>8. CASE kind \notin {"plain", "scheduled"}
    <3>1. Loaded(c)
      BY <2>1, <2>8 DEF InitKpi
    <3>2. PICK call \in Call :
               /\ Goes(c, call) /\ call.at \in {"idle", "next"}
               /\ call.at = "next" => /\ call.uid = calls[c].uid /\ call.then = calls[c].then
                                      /\ call.todo = calls[c].todo /\ call.then /= "end"
               /\ call.at = "idle" => call.then = "end"
      BY <1>1, <3>1, LoadedCall
    <3>3. CallsInv'
      BY <1>1, <1>2, <2>5, <2>6, <3>2, LoadCalls DEF CallInv
    <3>4. \A v \in clean' : CleanCalls(v)' /\ CleanSchedules(v)'
      BY <1>1, <1>2, <2>3, <2>8, <3>2, LoadClean
    <3>5. QED
      BY <2>4, <3>3, <3>4 DEF IInv
  <2>9. QED
    BY <2>7, <2>8
<1>6. QED
  BY <1>4, <1>5

-----------------------------------------------------------------------------
(* The objects of a KPI whose reloads do not overlap *)

\* An object which has a recurring schedule is listed, about to be listed, or
\* cancelled, and it is cancelled before it leaves the table.
CleanObjects(u) ==
    /\ \A c \in Callers : calls[c].uid = u /\ calls[c].at = "remove" =>
           instances[kpis[u]].cancelled
    /\ \A k \in DOMAIN instances :
           instances[k].uid = u /\ instances[k].scheduler /= 0 /\ ~instances[k].cancelled =>
               \/ k = kpis[u]
               \/ \E c \in Callers : calls[c].uid = u /\ calls[c].at = "put" /\ calls[c].kpi = k

ObjectsLeft == \A u \in clean : CleanObjects(u)

\* A thread which is at neither step, before and after, changes nothing here.
LEMMA ElsewhereLeft ==
    ASSUME IInv, ObjectsLeft, NEW c \in Callers, UNCHANGED <<instances, kpis>>,
           clean' \subseteq clean, calls[c].at \notin {"remove", "put"},
           \A d \in Callers : d /= c => calls'[d] = calls[d],
           calls'[c].at \notin {"remove", "put"}
    PROVE  ObjectsLeft'
<1> SUFFICES ASSUME NEW u \in clean PROVE CleanObjects(u)'
  BY DEF ObjectsLeft
<1>1. CleanObjects(u)
  BY DEF ObjectsLeft
<1>2. QED
  BY <1>1 DEF CleanObjects

\* What the other steps have in common: the facts they need of a clean KPI.
LEMMA CleanFacts ==
    ASSUME IInv, ObjectsLeft, NEW u \in clean
    PROVE  /\ CleanObjects(u) /\ u \in Uids
           /\ \A c, d \in Callers :
                  calls[c].uid = u /\ calls[c].at /= "idle" /\ calls[d].uid = u
                  /\ calls[d].at /= "idle" => c = d
           /\ \A c \in Callers : calls[c].at /= "cancelAll"
           /\ \A c \in Callers : calls[c].uid = u /\ calls[c].at = "put" => kpis[u] = 0
           /\ \A c \in Callers : calls[c].uid = u /\ calls[c].at \in {"cancelOne", "remove"} =>
                  kpis[u] \in DOMAIN instances /\ calls[c].kpi = kpis[u]
<1>1. CleanCalls(u) /\ CallsInv /\ ObjectsInv
  BY DEF IInv
<1>2. \A v \in Uids : kpis[v] /= 0 => kpis[v] \in DOMAIN instances
  BY <1>1, Domains DEF CallsInv
<1>3. u \in Uids
  BY <1>1 DEF CallsInv
<1>4. QED
  BY <1>1, <1>2, <1>3 DEF ObjectsLeft, CleanCalls, WorkingOn, Busy, DueForLoad

\* The object is cancelled, and then leaves the table.
LEMMA CancelOneLeft ==
    ASSUME IInv, ObjectsLeft, NEW c \in Callers, CancelOne(c)
    PROVE  ObjectsLeft'
<1>1. /\ calls[c].at = "cancelOne" /\ CallsInv /\ ObjectsInv /\ UNCHANGED <<kpis, clean>>
      /\ instances' = CancelledKpis({calls[c].kpi})
      /\ schedules' = CancelledSchedules({calls[c].kpi})
      /\ calls' = [calls EXCEPT ![c] = [calls[c] EXCEPT !.at = "remove"]]
  BY DEF CancelOne, IInv, Goes
<1>2. calls[c].kpi \in DOMAIN instances /\ calls \in [Callers -> Call] /\ calls[c] \in Call
  BY <1>1 DEF CallsInv, CallInv
<1>3. /\ DOMAIN instances' = DOMAIN instances
      /\ \A k \in DOMAIN instances :
             /\ instances'[k].uid = instances[k].uid
             /\ instances'[k].scheduler = instances[k].scheduler
             /\ instances[k].cancelled => instances'[k].cancelled
             /\ k = calls[c].kpi => instances'[k].cancelled
  <2> PICK ks \in SUBSET DOMAIN instances : ks = {calls[c].kpi}
    BY <1>2
  <2>1. instances' = CancelledKpis(ks) /\ schedules' = CancelledSchedules(ks)
    BY <1>1
  <2>2. DOMAIN instances' = DOMAIN instances
    BY <1>1, <2>1, CancelEffect
  <2>3. \A k \in DOMAIN instances :
             /\ instances'[k].uid = instances[k].uid
             /\ instances'[k].scheduler = instances[k].scheduler
             /\ instances'[k].cancelled <=> instances[k].cancelled \/ k \in ks
    BY <1>1, <2>1, CancelEffect
  <2>4. QED
    BY <2>2, <2>3
<1>4. /\ \A d \in Callers : d /= c => calls'[d] = calls[d]
      /\ calls'[c].at = "remove" /\ calls'[c].uid = calls[c].uid
  BY <1>1, <1>2 DEF Call
<1> SUFFICES ASSUME NEW u \in clean PROVE CleanObjects(u)'
  BY <1>1 DEF ObjectsLeft
<1>5. CleanObjects(u)
  BY DEF ObjectsLeft
<1>6. \A d \in Callers : calls[d].uid = u /\ calls[d].at \in {"cancelOne", "remove"} =>
          kpis[u] \in DOMAIN instances /\ calls[d].kpi = kpis[u]
  BY CleanFacts
<1>7. \A d \in Callers : calls'[d].uid = u /\ calls'[d].at = "remove" =>
          instances'[kpis'[u]].cancelled
  <2> SUFFICES ASSUME NEW d \in Callers, calls'[d].uid = u, calls'[d].at = "remove"
               PROVE  instances'[kpis[u]].cancelled
    BY <1>1
  <2>1. CASE d = c
    <3>1. calls[c].uid = u /\ calls[c].at = "cancelOne"
      BY <1>1, <1>4, <2>1
    <3>2. kpis[u] \in DOMAIN instances /\ calls[c].kpi = kpis[u]
      BY <1>6, <3>1
    <3>3. QED
      BY <1>3, <3>2
  <2>2. CASE d /= c
    BY <1>3, <1>4, <1>5, <1>6, <2>2 DEF CleanObjects
  <2>3. QED
    BY <2>1, <2>2
<1>8. ASSUME NEW k \in DOMAIN instances', instances'[k].uid = u,
             instances'[k].scheduler /= 0, ~instances'[k].cancelled
      PROVE  \/ k = kpis'[u]
             \/ \E d \in Callers : calls'[d].uid = u /\ calls'[d].at = "put" /\ calls'[d].kpi = k
  <2>1. \/ k = kpis[u]
        \/ \E d \in Callers : calls[d].uid = u /\ calls[d].at = "put" /\ calls[d].kpi = k
    BY <1>3, <1>5, <1>8 DEF CleanObjects
  <2>2. QED
    BY <1>1, <1>4, <2>1
<1>9. QED
  BY <1>7, <1>8 DEF CleanObjects

\* What leaves the table was cancelled.
LEMMA RemoveLeft ==
    ASSUME IInv, ObjectsLeft, NEW c \in Callers, Remove(c)
    PROVE  ObjectsLeft'
<1>1. /\ calls[c].at = "remove" /\ CallsInv /\ UNCHANGED <<instances, clean>>
      /\ kpis' = [kpis EXCEPT ![calls[c].uid] = 0]
      /\ calls' = [calls EXCEPT ![c] = [calls[c] EXCEPT !.at = "read"]]
  BY DEF Remove, IInv, Goes
<1>2. calls \in [Callers -> Call] /\ calls[c] \in Call /\ DOMAIN kpis = Uids
  BY <1>1 DEF CallsInv
<1>3. /\ \A d \in Callers : d /= c => calls'[d] = calls[d]
      /\ calls'[c].at = "read"
  BY <1>1, <1>2 DEF Call
<1> SUFFICES ASSUME NEW u \in clean PROVE CleanObjects(u)'
  BY <1>1 DEF ObjectsLeft
<1>4. /\ CleanObjects(u) /\ u \in Uids
      /\ \A d, e \in Callers :
             calls[d].uid = u /\ calls[d].at /= "idle" /\ calls[e].uid = u
             /\ calls[e].at /= "idle" => d = e
  BY CleanFacts
<1>5. CASE u = calls[c].uid
  <2>1. \A d \in Callers : d /= c /\ calls[d].uid = u => calls[d].at = "idle"
    BY <1>1, <1>4, <1>5
  <2>2. instances[kpis[u]].cancelled
    BY <1>1, <1>4, <1>5 DEF CleanObjects
  <2>3. \A k \in DOMAIN instances :
            ~(instances[k].uid = u /\ instances[k].scheduler /= 0 /\ ~instances[k].cancelled)
    BY <1>1, <1>4, <2>1, <2>2 DEF CleanObjects
  <2>4. QED
    BY <1>1, <1>3, <2>1, <2>3 DEF CleanObjects
<1>6. CASE u /= calls[c].uid
  <2>1. kpis'[u] = kpis[u]
    BY <1>1, <1>2, <1>4, <1>6
  <2>2. QED
    BY <1>1, <1>3, <1>4, <2>1 DEF CleanObjects
<1>7. QED
  BY <1>5, <1>6

\* What a load makes is about to be listed, or has no recurring schedule.
LEMMA InitKpiLeft ==
    ASSUME IInv, ObjectsLeft, NEW c \in Callers, InitKpi(c)
    PROVE  ObjectsLeft'
<1>1. /\ calls[c].at = "load" /\ CallsInv /\ ObjectsInv /\ UNCHANGED <<kpis, clean>>
      /\ 2 * (Len(instances) + 1) <= MaxSchedules
  BY DEF InitKpi, IInv
<1>2. calls \in [Callers -> Call] /\ calls[c] \in Call /\ calls[c].uid \in Uids
  BY <1>1 DEF CallsInv, Call
<1>3. CASE calls[c].kind = "invalid"
  <2>1. Loaded(c) /\ UNCHANGED instances
    BY <1>3 DEF InitKpi
  <2>2. PICK call \in Call : Goes(c, call) /\ call.at \in {"idle", "next"}
    BY <1>1, <2>1, LoadedCall
  <2>3. QED
    BY <1>1, <2>1, <2>2, GoesEffect, ElsewhereLeft
<1>4. CASE calls[c].kind /= "invalid"
  <2> DEFINE n == Len(instances) + 1
  <2>1. MadeBy(c, calls[c].kind)
    BY <1>1, <1>2, <1>4, LoadEffect DEF InitKpi
  <2>2. /\ Len(instances') = n /\ instances' \in Seq(Instance)
        /\ \A k \in DOMAIN instances : instances'[k] = instances[k]
        /\ instances'[n].uid = calls[c].uid
        /\ calls[c].kind /= "scheduled" => instances'[n].scheduler = 0
    BY <2>1 DEF MadeBy
  <2>3. /\ DOMAIN instances = 1..Len(instances) /\ Len(instances) \in Nat
        /\ DOMAIN instances' = 1..n
    BY <1>1, <2>2, Domains, LenProperties
  <2>4. /\ \A d \in Callers : d /= c => calls'[d] = calls[d]
        /\ calls'[c].at /= "remove"
        /\ calls[c].kind = "scheduled" =>
               calls'[c].at = "put" /\ calls'[c].uid = calls[c].uid /\ calls'[c].kpi = n
    <3>1. CASE calls[c].kind \in {"plain", "scheduled"}
      <4>1. calls' = [calls EXCEPT ![c] = [calls[c] EXCEPT !.kpi = Len(instances'), !.at = "put"]]
        BY <3>1 DEF InitKpi, Goes
      <4>2. QED
        BY <1>2, <2>2, <4>1 DEF Call
    <3>2. CASE calls[c].kind \notin {"plain", "scheduled"}
      <4>1. PICK call \in Call : Goes(c, call) /\ call.at \in {"idle", "next"}
        BY <1>1, <3>2, LoadedCall DEF InitKpi
      <4>2. QED
        BY <1>1, <3>2, <4>1, GoesEffect
    <3>3. QED BY <3>1, <3>2
  <2> HIDE DEF n
  <2> SUFFICES ASSUME NEW u \in clean PROVE CleanObjects(u)'
    BY <1>1 DEF ObjectsLeft
  <2>5. /\ CleanObjects(u)
        /\ \A d \in Callers : calls[d].uid = u /\ calls[d].at \in {"cancelOne", "remove"} =>
               kpis[u] \in DOMAIN instances
    BY CleanFacts
  <2>6. \A d \in Callers : calls'[d].uid = u /\ calls'[d].at = "remove" =>
            instances'[kpis'[u]].cancelled
    BY <1>1, <2>2, <2>4, <2>5 DEF CleanObjects
  <2>7. ASSUME NEW k \in DOMAIN instances', instances'[k].uid = u,
               instances'[k].scheduler /= 0, ~instances'[k].cancelled
        PROVE  \/ k = kpis'[u]
               \/ \E d \in Callers : calls'[d].uid = u /\ calls'[d].at = "put" /\ calls'[d].kpi = k
    <3>1. CASE k \in DOMAIN instances
      <4>1. \/ k = kpis[u]
            \/ \E d \in Callers : calls[d].uid = u /\ calls[d].at = "put" /\ calls[d].kpi = k
        BY <2>2, <2>5, <2>7, <3>1 DEF CleanObjects
      <4>2. QED
        BY <1>1, <2>4, <4>1
    <3>2. CASE k = n
      <4>1. calls[c].kind = "scheduled" /\ u = calls[c].uid
        BY <2>2, <2>7, <3>2
      <4>2. QED
        BY <2>4, <3>2, <4>1
    <3>3. QED
      BY <2>3, <3>1, <3>2 DEF n
  <2>8. QED
    BY <2>6, <2>7 DEF CleanObjects
<1>5. QED
  BY <1>3, <1>4

\* What was about to be listed is listed, and nothing was before.
LEMMA PutLeft ==
    ASSUME IInv, ObjectsLeft, NEW c \in Callers, Put(c)
    PROVE  ObjectsLeft'
<1>1. /\ calls[c].at = "put" /\ CallsInv /\ ObjectsInv /\ UNCHANGED <<instances, clean>>
      /\ kpis' = [kpis EXCEPT ![calls[c].uid] = calls[c].kpi] /\ Loaded(c)
  BY DEF Put, IInv
<1>2. PICK call \in Call : Goes(c, call) /\ call.at \in {"idle", "next"}
  BY <1>1, LoadedCall
<1>3. \A d \in Callers : calls'[d] = IF d = c THEN call ELSE calls[d]
  BY <1>1, <1>2, GoesEffect
<1>4. DOMAIN kpis = Uids /\ 0 \notin DOMAIN instances
  BY <1>1, Domains DEF CallsInv
<1> SUFFICES ASSUME NEW u \in clean PROVE CleanObjects(u)'
  BY <1>1 DEF ObjectsLeft
<1>5. /\ CleanObjects(u) /\ u \in Uids
      /\ \A d, e \in Callers :
             calls[d].uid = u /\ calls[d].at /= "idle" /\ calls[e].uid = u
             /\ calls[e].at /= "idle" => d = e
      /\ \A d \in Callers : calls[d].uid = u /\ calls[d].at = "put" => kpis[u] = 0
  BY CleanFacts
<1>6. CASE u = calls[c].uid
  <2>1. \A d \in Callers : d /= c /\ calls[d].uid = u => calls[d].at = "idle"
    BY <1>1, <1>5, <1>6
  <2>2. kpis[u] = 0 /\ kpis'[u] = calls[c].kpi
    BY <1>1, <1>4, <1>5, <1>6
  <2>3. \A k \in DOMAIN instances :
            instances[k].uid = u /\ instances[k].scheduler /= 0 /\ ~instances[k].cancelled =>
                k = calls[c].kpi
    BY <1>4, <1>5, <2>1, <2>2 DEF CleanObjects
  <2>4. \A d \in Callers : ~(calls'[d].uid = u /\ calls'[d].at = "remove")
    BY <1>2, <1>3, <2>1
  <2>5. QED
    BY <1>1, <2>2, <2>3, <2>4 DEF CleanObjects
<1>7. CASE u /= calls[c].uid
  <2>1. kpis'[u] = kpis[u]
    BY <1>1, <1>4, <1>5, <1>7
  <2>2. \A d \in Callers : calls'[d].uid = u /\ calls'[d].at = "remove" =>
            instances'[kpis'[u]].cancelled
    BY <1>1, <1>2, <1>3, <1>5, <2>1 DEF CleanObjects
  <2>3. \A d \in Callers : calls[d].uid = u => calls'[d] = calls[d]
    BY <1>3, <1>7
  <2>4. QED
    BY <1>1, <1>5, <2>1, <2>2, <2>3 DEF CleanObjects
<1>8. QED
  BY <1>6, <1>7

\* No step leaves the objects otherwise.
LEMMA NextLeft == IInv /\ ObjectsLeft /\ [Next]_vars => ObjectsLeft'
<1> SUFFICES ASSUME IInv, ObjectsLeft, [Next]_vars PROVE ObjectsLeft'
  OBVIOUS
<1>1. CallsInv /\ calls \in [Callers -> Call]
  BY DEF IInv, CallsInv
<1>2. ASSUME NEW c \in Callers, UNCHANGED <<instances, kpis, clean>>,
             calls[c].at \notin {"remove", "put"},
             NEW call, Goes(c, call), call.at \notin {"remove", "put"}
      PROVE  ObjectsLeft'
  <2>1. \A d \in Callers : calls'[d] = IF d = c THEN call ELSE calls[d]
    BY <1>1, <1>2 DEF Goes
  <2>2. QED
    BY <1>2, <2>1, ElsewhereLeft
<1>3. ASSUME NEW c \in Callers, CallStep(c)
      PROVE  ObjectsLeft'
  <2>1. CASE CancelOne(c) \/ Remove(c) \/ InitKpi(c) \/ Put(c)
    BY <2>1, CancelOneLeft, RemoveLeft, InitKpiLeft, PutLeft
  <2>2. CASE ReadDefinition(c)
    <3>1. calls[c].at = "read" /\ UNCHANGED <<instances, kpis, clean>> /\ calls[c] \in Call
      BY <1>1, <2>2 DEF ReadDefinition
    <3>2. CASE Ends(c)
      BY <1>2, <3>1, <3>2, IdleType DEF Ends
    <3>3. ASSUME NEW kind \in Kinds, Goes(c, [calls[c] EXCEPT !.kind = kind, !.at = "load"])
          PROVE  ObjectsLeft'
      <4>1. [calls[c] EXCEPT !.kind = kind, !.at = "load"].at = "load"
        BY <3>1 DEF Call
      <4>2. QED
        BY <1>2, <3>1, <3>3, <4>1
    <3>4. QED
      BY <2>2, <3>2, <3>3 DEF ReadDefinition
  <2>3. CASE NextDefinition(c)
    <3>1. calls[c].at = "next" /\ UNCHANGED <<instances, kpis, clean>> /\ calls[c] \in Call
      BY <1>1, <2>3 DEF NextDefinition
    <3>2. PICK u \in Uids :
              Goes(c, [calls[c] EXCEPT !.uid = u, !.kind = calls[c].todo[u], !.at = "load",
                                       !.todo[u] = "inactive"])
      BY <2>3 DEF NextDefinition
    <3>3. [calls[c] EXCEPT !.uid = u, !.kind = calls[c].todo[u], !.at = "load",
                           !.todo[u] = "inactive"].at = "load"
      BY <3>1 DEF Call
    <3>4. QED
      BY <1>2, <3>1, <3>2, <3>3
  <2>4. CASE InitEnds(c)
    <3>1. calls[c].at = "next" /\ UNCHANGED <<instances, kpis, clean>>
      BY <2>4 DEF InitEnds
    <3>2. [Idle EXCEPT !.at = "cancelAll"].at = "cancelAll" /\ Idle.at = "idle"
      BY IdleType DEF Call
    <3>3. QED
      BY <1>2, <2>4, <3>1, <3>2 DEF InitEnds, Ends
  <2>5. CASE CancelAll(c)
    <3>1. clean = {} /\ clean' = clean
      BY <2>5, CleanFacts DEF CancelAll
    <3>2. QED
      BY <3>1 DEF ObjectsLeft
  <2>6. QED
    BY <1>3, <2>1, <2>2, <2>3, <2>4, <2>5 DEF CallStep
<1>4. ASSUME NEW c \in Callers, Reload(c)
      PROVE  ObjectsLeft'
  <2>1. clean' = {}
    BY <1>1, <1>4 DEF Reload, Begins, CallsInv
  <2>2. QED
    BY <2>1 DEF ObjectsLeft
<1>5. ASSUME NEW c \in Callers, NEW u \in Uids, ReloadKpi(c, u)
      PROVE  ObjectsLeft'
  <2> DEFINE call == [Idle EXCEPT !.uid = u, !.kpi = kpis[u], !.at =
                         IF kpis[u] /= 0 THEN "cancelOne" ELSE "read"]
  <2>1. /\ calls[c].at = "idle" /\ Goes(c, call) /\ clean' \subseteq clean
        /\ UNCHANGED <<instances, kpis>>
    BY <1>5 DEF ReloadKpi, Begins
  <2>2. call.at \in {"cancelOne", "read"}
    BY IdleType DEF Call
  <2> HIDE DEF call
  <2>3. \A d \in Callers : calls'[d] = IF d = c THEN call ELSE calls[d]
    BY <1>1, <2>1 DEF Goes
  <2>4. QED
    BY <2>1, <2>2, <2>3, ElsewhereLeft
<1>6. CASE UNCHANGED serviceVars
  BY <1>6 DEF ObjectsLeft, CleanObjects, serviceVars
<1>7. ASSUME NEW s \in DOMAIN schedules, Tick(s)
      PROVE  UNCHANGED serviceVars
  BY <1>7 DEF Tick, Due, RunIsIgnored, StoreValues, Stored
<1>8. QED
  BY <1>3, <1>4, <1>5, <1>6, <1>7 DEF Next, vars

-----------------------------------------------------------------------------
(* The theorems *)

\* When the service is created nothing is scheduled and one thread initialises it.
LEMMA InitInv == Init => IInv
<1> SUFFICES ASSUME Init PROVE IInv
  OBVIOUS
<1>1. /\ schedules = <<>> /\ states = {} /\ left = {} /\ instances = <<>>
      /\ kpis = [u \in Uids |-> 0] /\ begun = 0 /\ clean = Uids /\ storing = {} /\ late = {}
      /\ erred = {}
  BY DEF Init, SchedulerInit
<1>2. PICK definitions \in [Uids -> Kinds] :
          calls = [c \in Callers |-> IF c /= Boot THEN Idle
                                     ELSE [Idle EXCEPT !.at = "next", !.then = "up",
                                                       !.todo = definitions]]
  BY DEF Init
<1> DEFINE call == [Idle EXCEPT !.at = "next", !.then = "up", !.todo = definitions]
<1>3. call \in Call /\ call.at = "next" /\ call.then = "up" /\ call.uid = Idle.uid
  BY IdleType DEF Call, CallSteps
<1> HIDE DEF call
<1>4. \A c \in Callers : calls[c] = IF c /= Boot THEN Idle ELSE call
  BY <1>2 DEF call
<1>5. ObjectsInv
  BY <1>1, MaxSchedulesAssumption DEF ObjectsInv
<1>6. CallsInv
  <2>1. \A c \in Callers : calls[c] \in Call
    BY <1>3, <1>4, IdleType
  <2>2. calls \in [Callers -> Call]
    BY <1>2, <2>1
  <2>3. \A c \in Callers : CallInv(c, calls[c])
    BY <1>3, <1>4, IdleCallInv DEF CallInv
  <2>4. QED
    BY <1>1, <2>2, <2>3, MaxCallsAssumption DEF CallsInv
<1>7. RunsInv
  BY <1>1 DEF RunsInv
<1>8. \A u \in clean : CleanCalls(u) /\ CleanSchedules(u)
  <2> TAKE u \in clean
  <2>1. \A c \in WorkingOn(u) : c = Boot
    BY <1>4, IdleType DEF WorkingOn, Busy
  <2>2. \A c \in Callers : calls[c].at \in {"idle", "next"} /\ calls[c].then /= "cancelAll"
    BY <1>3, <1>4, IdleType
  <2>3. CleanCalls(u)
    BY <1>1, <2>1, <2>2 DEF CleanCalls
  <2>4. CleanSchedules(u)
    BY <1>1, <2>2 DEF CleanSchedules
  <2>5. QED
    BY <2>3, <2>4
<1>9. QED
  BY <1>5, <1>6, <1>7, <1>8 DEF IInv

\* Every step of a call, of a tick and of a run keeps the invariant.
LEMMA NextInv == IInv /\ [Next]_vars => IInv'
<1> SUFFICES ASSUME IInv, [Next]_vars PROVE IInv'
  OBVIOUS
<1>1. ASSUME NEW c \in Callers, CallStep(c)
      PROVE  IInv'
  BY <1>1, CancelOneInv, RemoveInv, ReadDefinitionInv, NextDefinitionInv, InitEndsInv,
     InitKpiInv, PutInv, CancelAllInv DEF CallStep
<1>2. ASSUME NEW c \in Callers, Reload(c) \/ \E u \in Uids : ReloadKpi(c, u)
      PROVE  IInv'
  BY <1>2, ReloadInv, ReloadKpiInv
<1>3. ASSUME NEW s \in DOMAIN schedules, Tick(s)
      PROVE  IInv'
  BY <1>3, DueInv, MarkInv, IgnoredInv, StoreValuesInv, StoredInv DEF Tick
<1>4. CASE UNCHANGED vars
  <2>1. /\ UNCHANGED <<schedules, states, left, instances, kpis, calls, begun, clean>>
        /\ UNCHANGED <<storing, late, erred>>
    BY <1>4 DEF vars, schedulerVars, serviceVars, runVars
  <2>2. ObjectsInv' /\ CallsInv' /\ RunsInv'
    BY <2>1 DEF IInv, ObjectsInv, InstanceInv, ScheduleInv, Owns, CallsInv, CallInv, RunsInv,
                LateInv
  <2>3. \A u \in clean' : CleanCalls(u)' /\ CleanSchedules(u)'
    BY <2>1 DEF IInv, CleanCalls, CleanSchedules, WorkingOn, Busy, DueForLoad, Armed
  <2>4. QED
    BY <2>2, <2>3 DEF IInv
<1>5. QED
  BY <1>1, <1>2, <1>3, <1>4 DEF Next

\* The inductive invariant holds in every state: which object owns each schedule,
\* how far each call is with the object it makes, what a run may still store.
THEOREM InductiveInvariant == Spec => []IInv
<1>1. Init => IInv
  BY InitInv
<1>2. IInv /\ [Next]_vars => IInv'
  BY NextInv
<1>3. QED
  BY <1>1, <1>2, PTL DEF Spec

\* The types: a KPI object keeps a recurring schedule of its own KPI, the
\* table maps a KPI to an object of it, and only a running schedule stores.
THEOREM TypeCorrect == Spec => []TypeOK
<1>1. IInv => TypeOK
  <2> SUFFICES ASSUME IInv PROVE TypeOK
    OBVIOUS
  <2>1. ObjectsInv /\ CallsInv /\ RunsInv
    BY DEF IInv
  <2>2. Len(schedules) <= MaxSchedules
    BY <2>1, Domains, MaxSchedulesAssumption DEF ObjectsInv
  <2>3. SchedulerTypeOK
    BY <2>1, <2>2 DEF SchedulerTypeOK, ObjectsInv, RunsInv
  <2>4. QED
    BY <2>1, <2>3 DEF TypeOK, ObjectsInv, InstanceInv, CallsInv, RunsInv
<1>2. QED
  BY <1>1, InductiveInvariant, PTL

\* An object with a recurring schedule is listed, about to be or cancelled, in
\* every state: no KPI whose reloads do not overlap leaves one behind.
LEMMA LeftInvariant == Spec => []ObjectsLeft
<1>1. Init => ObjectsLeft
  <2> SUFFICES ASSUME Init, NEW u \in clean PROVE CleanObjects(u)
    BY DEF ObjectsLeft
  <2>1. instances = <<>>
    BY DEF Init
  <2>2. \A c \in Callers : calls[c].at \in {"idle", "next"}
    <3>1. \A definitions \in [Uids -> Kinds] :
              [Idle EXCEPT !.at = "next", !.then = "up", !.todo = definitions].at = "next"
      BY IdleType DEF Call
    <3>2. QED
      BY <3>1, IdleType DEF Init
  <2>3. QED
    BY <2>1, <2>2 DEF CleanObjects
<1>2. IInv /\ ObjectsLeft /\ [Next]_vars => ObjectsLeft'
  BY NextLeft
<1>3. QED
  BY <1>1, <1>2, InductiveInvariant, PTL DEF Spec

\* When reload() is not used and the reloads of a KPI do not overlap, reloadKpi()
\* leaves nothing of the object it has replaced, whatever the definitions it reads
\* and however its steps interleave with the ticks and with the reloads of the
\* other KPIs: its recurring schedule is over, and its initial run is void.  Only
\* an object whose recurring schedule was refused goes on beside the listed one.
THEOREM OnlyListedRuns == Spec => []ScheduledIsListed
<1>1. IInv /\ ObjectsLeft => ScheduledIsListed
  <2> SUFFICES ASSUME IInv, ObjectsLeft PROVE ScheduledIsListed
    OBVIOUS
  <2>1. ASSUME NEW u \in clean, Quiet(u)
        PROVE  /\ CleanSchedules(u) /\ CleanObjects(u)
               /\ \A c \in Callers : calls[c].uid = u => calls[c].at = "idle"
    <3>1. \A c \in Callers : calls[c].uid = u => calls[c].at = "idle"
      BY <2>1 DEF Quiet, WorkingOn, Busy
    <3>2. QED
      BY <3>1 DEF IInv, ObjectsLeft
  <2>2. ASSUME NEW u \in clean, Quiet(u), NEW k \in DOMAIN instances,
               instances[k].uid = u, k /= kpis[u]
        PROVE  /\ instances[k].scheduler /= 0 => ~Armed(instances[k].scheduler)
               /\ instances[k].cancelled \/ instances[k].scheduler = 0
    <3>1. instances[k].cancelled \/ instances[k].scheduler = 0
      BY <2>1, <2>2 DEF CleanObjects
    <3>2. InstanceInv(k)
      BY DEF IInv, ObjectsInv
    <3>3. QED
      BY <3>1, <3>2 DEF InstanceInv, Armed
  <2>3. ASSUME NEW u \in clean, Quiet(u), kpis[u] /= 0, instances[kpis[u]].scheduler /= 0
        PROVE  ~schedules[instances[kpis[u]].scheduler].cancelled
    BY <2>1, <2>3 DEF CleanSchedules
  <2>4. QED
    BY <2>2, <2>3 DEF ScheduledIsListed
<1>2. QED
  BY <1>1, InductiveInvariant, LeftInvariant, PTL

\* A tick which comes due after the cancel of its KPI stores nothing: the
\* recurring schedule does not fire once it is cancelled, and the initial one,
\* of which no reference is kept, fires and looks at the flag of its object.
THEOREM LateStoresNothing == Spec => []CancelledStoresNothing
<1>1. IInv => CancelledStoresNothing
  BY DEF IInv, RunsInv, LateInv, CancelledStoresNothing
<1>2. QED
  BY <1>1, InductiveInvariant, PTL
=============================================================================
