------------------------- MODULE PluginEventsProofs -------------------------
(***************************************************************************)
(* Proofs about PluginEvents: the types, that no event told to a plugin is *)
(* lost or doubled, that a posting reaches the plugins that are started    *)
(* all along, and that the life cycle the events run against is the        *)
(* abstract one; for any number of plugins, events, posting threads and    *)
(* starts.                                                                 *)
(***************************************************************************)
EXTENDS PluginEvents, SequenceLemmas

-----------------------------------------------------------------------------
(* The inductive invariant *)

\* A posting thread and what it has still to visit.
PostInv(t) ==
    post[t] /= None =>
        LET w == post[t]
            fresh(p) == fate[w.event][p] = "none"
        IN
        /\ w.event \in posted
        /\ \A p \in w.todo : fresh(p)
        /\ w.step = "started" => w.plugin \in Plugins \ w.todo /\ fresh(w.plugin)
        /\ w.step = "read" =>
               w.router \in Routers /\ w.router.plugin \notin w.todo /\ fresh(w.router.plugin)

\* An event is posted by one thread, and nothing becomes of it before.
PostsInv ==
    /\ \A t \in Posters : PostInv(t)
    /\ \A t, u \in Posters :
          t /= u /\ post[t] /= None /\ post[u] /= None => post[t].event /= post[u].event
    /\ \A e \in Events \ posted : \A p \in Plugins : fate[e][p] = "none"

\* One request or answer is on its way while the plugin starts or stops, and none
\* otherwise; without a registration the plugin is stopped.
CycleInv ==
    \A p \in Plugins :
        /\ p \notin entries => status[p] = "STOPPED"
        /\ request[p] = "START" => status[p] = "STARTING"
        /\ request[p] = "STOP" => status[p] = "STOPPING"
        /\ answer[p] \in {"STARTED", "START_FAILED"} => status[p] = "STARTING"
        /\ answer[p] = "STOPPED" => status[p] = "STOPPING"
        /\ request[p] = "none" \/ answer[p] = "none"

\* References are to the plugin's own routers; a routee handles one message.
RoutersInv ==
    /\ \A p \in Plugins, f \in Flows : ref[p][f] /= None => ref[p][f].plugin = p
    /\ \A r \in Routers : Len(busy[r]) <= PoolSize

IInv == TypeOK /\ PostsInv /\ CycleInv /\ RoutersInv /\ EveryEventAccountedFor

-----------------------------------------------------------------------------
(* What is in the pipelines *)

\* A pipeline is a sequence of messages.
LEMMA PipelineType ==
    ASSUME TypeOK, NEW r \in Routers
    PROVE  /\ busy[r] \in Seq(Messages) /\ box[r] \in Seq(Messages)
           /\ Pipeline(r) \in Seq(Messages) /\ r.plugin \in Plugins
           /\ DOMAIN Pipeline(r) = 1..Len(Pipeline(r)) /\ Len(Pipeline(r)) \in Nat
           /\ \A i \in DOMAIN Pipeline(r) : Pipeline(r)[i].event \in Events
<1>1. busy[r] \in Seq(Messages) /\ box[r] \in Seq(Messages) /\ r.plugin \in Plugins
  BY DEF TypeOK, Routers
<1>2. Pipeline(r) \in Seq(Messages)
  BY <1>1, ConcatProperties DEF Pipeline
<1>3. DOMAIN Pipeline(r) = 1..Len(Pipeline(r)) /\ Len(Pipeline(r)) \in Nat
  BY <1>2, LenProperties
<1>4. \A m \in Messages : m.event \in Events
  BY DEF Messages
<1>5. QED
  BY <1>1, <1>2, <1>3, <1>4, ElementOfSeq

\* One outcome is recorded.
LEMMA SettleEffect ==
    ASSUME TypeOK, NEW e \in Events, NEW p \in Plugins, NEW outcome \in Fates,
           Settle(e, p, outcome)
    PROVE  /\ fate' \in [Events -> [Plugins -> Fates]]
           /\ \A x \in Events, q \in Plugins :
                 fate'[x][q] = IF x = e /\ q = p THEN outcome ELSE fate[x][q]
<1>1. fate[e] \in [Plugins -> Fates]
  BY DEF TypeOK
<1>2. PICK g \in [Plugins -> Fates] : g = [fate[e] EXCEPT ![p] = outcome]
  BY <1>1
<1>3. fate' = [fate EXCEPT ![e] = g]
  BY <1>2 DEF Settle
<1>4. QED
  BY <1>1, <1>2, <1>3 DEF TypeOK

\* Every message stays where it is.
LEMMA Unmoved ==
    ASSUME EveryEventAccountedFor, UNCHANGED fate,
           \A r \in Routers : Pipeline(r)' = Pipeline(r)
    PROVE  EveryEventAccountedFor'
  BY DEF EveryEventAccountedFor, RoutersOf

\* A message leaves its pipeline, and it is recorded what became of the event.
LEMMA Leaves ==
    ASSUME TypeOK, EveryEventAccountedFor, NEW r \in Routers,
           NEW i \in DOMAIN Pipeline(r), NEW outcome \in Fates \ {"told"},
           Pipeline(r)' = RemoveAt(Pipeline(r), i),
           \A s \in Routers \ {r} : Pipeline(s)' = Pipeline(s),
           Settle(Pipeline(r)[i].event, r.plugin, outcome)
    PROVE  EveryEventAccountedFor'
<1>1. /\ Pipeline(r) \in Seq(Messages) /\ i \in 1..Len(Pipeline(r)) /\ r.plugin \in Plugins
      /\ DOMAIN Pipeline(r) = 1..Len(Pipeline(r)) /\ Pipeline(r)[i].event \in Events
  BY PipelineType
<1>2. PICK e \in Events : e = Pipeline(r)[i].event
  BY <1>1
<1>3. \A x \in Events, p \in Plugins :
         fate'[x][p] = IF x = e /\ p = r.plugin THEN outcome ELSE fate[x][p]
  BY <1>1, <1>2, SettleEffect
<1>4. DOMAIN Pipeline(r)' = 1..Len(Pipeline(r)) - 1
  <2>1. /\ RemoveAt(Pipeline(r), i) \in Seq(Messages)
        /\ Len(RemoveAt(Pipeline(r), i)) = Len(Pipeline(r)) - 1
    BY <1>1, RemoveFacts
  <2>2. QED
    BY <2>1, LenProperties
<1>5. /\ \A k \in DOMAIN Pipeline(r)' : \E n \in DOMAIN Pipeline(r) :
            /\ Pipeline(r)'[k] = Pipeline(r)[n] /\ n /= i
            /\ n = IF k < i THEN k ELSE k + 1
      /\ \A n \in DOMAIN Pipeline(r) : n /= i =>
            \E k \in DOMAIN Pipeline(r)' : Pipeline(r)'[k] = Pipeline(r)[n]
  <2>1. /\ \A k \in 1..Len(Pipeline(r)) - 1 : \E n \in 1..Len(Pipeline(r)) :
              /\ n /= i /\ RemoveAt(Pipeline(r), i)[k] = Pipeline(r)[n]
              /\ n = IF k < i THEN k ELSE k + 1
        /\ \A n \in 1..Len(Pipeline(r)) :
              n /= i => \E k \in 1..Len(Pipeline(r)) - 1 :
                           RemoveAt(Pipeline(r), i)[k] = Pipeline(r)[n]
    BY <1>1, RemovedPositions
  <2>2. QED
    BY <1>1, <1>4, <2>1
<1>6. ASSUME NEW p \in Plugins, NEW x \in Events
      PROVE  fate'[x][p] = "told" <=> \E s \in RoutersOf(p) : \E k \in DOMAIN Pipeline(s)' :
                                          Pipeline(s)'[k].event = x
  <2>1. fate[x][p] = "told" <=> \E s \in RoutersOf(p) : \E k \in DOMAIN Pipeline(s) :
                                    Pipeline(s)[k].event = x
    BY DEF EveryEventAccountedFor
  <2>2. CASE x = e /\ p = r.plugin
    <3>1. ASSUME NEW s \in RoutersOf(p), NEW k \in DOMAIN Pipeline(s)',
                 Pipeline(s)'[k].event = x
          PROVE  FALSE
      <4>1. s \in Routers /\ r \in RoutersOf(p)
        BY <2>2 DEF RoutersOf
      <4>2. CASE s = r
        <5>1. PICK n \in DOMAIN Pipeline(r) : n /= i /\ Pipeline(r)[n].event = x
          BY <1>5, <3>1, <4>2
        <5>2. QED
          BY <1>2, <2>2, <4>1, <5>1 DEF EveryEventAccountedFor
      <4>3. CASE s /= r
        BY <1>2, <2>2, <3>1, <4>1, <4>3 DEF EveryEventAccountedFor
      <4>4. QED
        BY <4>2, <4>3
    <3>2. fate'[x][p] /= "told"
      BY <1>3, <2>2
    <3>3. QED
      BY <3>1, <3>2
  <2>3. CASE ~(x = e /\ p = r.plugin)
    <3>1. fate'[x][p] = fate[x][p]
      BY <1>3, <2>3
    <3>2. ASSUME NEW s \in RoutersOf(p), NEW k \in DOMAIN Pipeline(s),
                 Pipeline(s)[k].event = x
          PROVE  \E n \in DOMAIN Pipeline(s)' : Pipeline(s)'[n].event = x
      BY <1>2, <1>5, <2>3, <3>2 DEF RoutersOf
    <3>3. ASSUME NEW s \in RoutersOf(p), NEW k \in DOMAIN Pipeline(s)',
                 Pipeline(s)'[k].event = x
          PROVE  \E n \in DOMAIN Pipeline(s) : Pipeline(s)[n].event = x
      BY <1>5, <3>3 DEF RoutersOf
    <3>4. QED
      BY <2>1, <3>1, <3>2, <3>3
  <2>4. QED
    BY <2>2, <2>3
<1>7. ASSUME NEW p \in Plugins, NEW s \in RoutersOf(p), NEW t \in RoutersOf(p),
             NEW j \in DOMAIN Pipeline(s)', NEW k \in DOMAIN Pipeline(t)',
             Pipeline(s)'[j].event = Pipeline(t)'[k].event
      PROVE  s = t /\ j = k
  <2>1. \A u \in RoutersOf(p) : \A l \in DOMAIN Pipeline(u)' : \E n \in DOMAIN Pipeline(u) :
            /\ Pipeline(u)'[l] = Pipeline(u)[n]
            /\ n = IF u = r /\ ~(l < i) THEN l + 1 ELSE l
    BY <1>5 DEF RoutersOf
  <2>2. PICK a \in DOMAIN Pipeline(s) : /\ Pipeline(s)'[j] = Pipeline(s)[a]
                                        /\ a = IF s = r /\ ~(j < i) THEN j + 1 ELSE j
    BY <2>1
  <2>3. PICK b \in DOMAIN Pipeline(t) : /\ Pipeline(t)'[k] = Pipeline(t)[b]
                                        /\ b = IF t = r /\ ~(k < i) THEN k + 1 ELSE k
    BY <2>1
  <2>4. s = t /\ a = b
    BY <1>7, <2>2, <2>3 DEF EveryEventAccountedFor
  <2>5. s = r => j \in 1..Len(Pipeline(r)) - 1 /\ k \in 1..Len(Pipeline(r)) - 1
    BY <1>4, <2>4
  <2>6. QED
    BY <1>1, <2>2, <2>3, <2>4, <2>5
<1>8. QED
  BY <1>6, <1>7 DEF EveryEventAccountedFor

\* A message is replaced by one for the same event, at the end.
LEMMA Replaced ==
    ASSUME TypeOK, EveryEventAccountedFor, UNCHANGED fate, NEW r \in Routers,
           NEW i \in DOMAIN Pipeline(r), NEW m \in Messages, m.event = Pipeline(r)[i].event,
           Pipeline(r)' = Append(RemoveAt(Pipeline(r), i), m),
           \A s \in Routers \ {r} : Pipeline(s)' = Pipeline(s)
    PROVE  EveryEventAccountedFor'
<1>1. PICK n \in Nat : n = Len(Pipeline(r)) /\ DOMAIN Pipeline(r) = 1..n
  BY PipelineType
<1>2. Pipeline(r) \in Seq(Messages) /\ i \in 1..n /\ r.plugin \in Plugins
  BY <1>1, PipelineType
<1>3. DOMAIN Pipeline(r)' = 1..n
      /\ (\A k \in 1..n - 1 : Pipeline(r)'[k] = RemoveAt(Pipeline(r), i)[k])
      /\ Pipeline(r)'[n] = m
  <2>1. PICK q \in Seq(Messages) : q = RemoveAt(Pipeline(r), i) /\ Len(q) = n - 1
    BY <1>1, <1>2, RemoveFacts
  <2>2. /\ Append(q, m) \in Seq(Messages) /\ Len(Append(q, m)) = n - 1 + 1
        /\ \A k \in 1..n - 1 : Append(q, m)[k] = q[k]
        /\ Append(q, m)[n - 1 + 1] = m
    BY <2>1, AppendProperties
  <2>3. DOMAIN Append(q, m) = 1..n - 1 + 1 /\ n - 1 + 1 = n
    BY <1>1, <2>2, LenProperties
  <2>4. QED
    BY <2>1, <2>2, <2>3
<1>4. /\ \A k \in 1..n - 1 : \E l \in 1..n :
            /\ l /= i /\ RemoveAt(Pipeline(r), i)[k] = Pipeline(r)[l]
            /\ l = IF k < i THEN k ELSE k + 1
      /\ \A l \in 1..n :
            l /= i => \E k \in 1..n - 1 : RemoveAt(Pipeline(r), i)[k] = Pipeline(r)[l]
  <2>1. i \in 1..Len(Pipeline(r))
    BY <1>1, <1>2
  <2>2. /\ \A k \in 1..Len(Pipeline(r)) - 1 : \E l \in 1..Len(Pipeline(r)) :
              /\ l /= i /\ RemoveAt(Pipeline(r), i)[k] = Pipeline(r)[l]
              /\ l = IF k < i THEN k ELSE k + 1
        /\ \A l \in 1..Len(Pipeline(r)) :
              l /= i => \E k \in 1..Len(Pipeline(r)) - 1 :
                           RemoveAt(Pipeline(r), i)[k] = Pipeline(r)[l]
    BY <1>2, <2>1, RemovedPositions
  <2>3. QED
    BY <1>1, <2>2
<1>5. \A k \in 1..n : \E l \in 1..n :
         /\ Pipeline(r)'[k].event = Pipeline(r)[l].event
         /\ l = IF k = n THEN i ELSE IF k < i THEN k ELSE k + 1
  <2> TAKE k \in 1..n
  <2>1. CASE k = n
    BY <1>2, <1>3, <2>1
  <2>2. CASE k /= n
    <3>1. k \in 1..n - 1
      BY <1>1, <2>2
    <3>2. PICK l \in 1..n : /\ RemoveAt(Pipeline(r), i)[k] = Pipeline(r)[l]
                            /\ l = IF k < i THEN k ELSE k + 1
      BY <1>4, <3>1
    <3>3. QED
      BY <1>3, <2>2, <3>1, <3>2
  <2>3. QED
    BY <2>1, <2>2
<1>6. \A l \in 1..n : \E k \in 1..n : Pipeline(r)'[k].event = Pipeline(r)[l].event
  <2> TAKE l \in 1..n
  <2>1. CASE l = i
    <3>1. n \in 1..n
      BY <1>1, <1>2
    <3>2. QED
      BY <1>3, <2>1, <3>1
  <2>2. CASE l /= i
    <3>1. PICK k \in 1..n - 1 : RemoveAt(Pipeline(r), i)[k] = Pipeline(r)[l]
      BY <1>4, <2>2
    <3>2. k \in 1..n
      BY <1>1
    <3>3. QED
      BY <1>3, <3>1, <3>2
  <2>3. QED
    BY <2>1, <2>2
<1>7. ASSUME NEW p \in Plugins, NEW x \in Events
      PROVE  fate'[x][p] = "told" <=> \E s \in RoutersOf(p) : \E k \in DOMAIN Pipeline(s)' :
                                          Pipeline(s)'[k].event = x
  <2>1. fate[x][p] = "told" <=> \E s \in RoutersOf(p) : \E k \in DOMAIN Pipeline(s) :
                                    Pipeline(s)[k].event = x
    BY DEF EveryEventAccountedFor
  <2>2. \A s \in RoutersOf(p) :
           (\E k \in DOMAIN Pipeline(s) : Pipeline(s)[k].event = x)
              <=> \E k \in DOMAIN Pipeline(s)' : Pipeline(s)'[k].event = x
    <3> TAKE s \in RoutersOf(p)
    <3>1. CASE s = r
      <4>1. ASSUME NEW l \in DOMAIN Pipeline(r), Pipeline(r)[l].event = x
            PROVE  \E k \in DOMAIN Pipeline(r)' : Pipeline(r)'[k].event = x
        BY <1>1, <1>3, <1>6, <4>1
      <4>2. ASSUME NEW k \in DOMAIN Pipeline(r)', Pipeline(r)'[k].event = x
            PROVE  \E l \in DOMAIN Pipeline(r) : Pipeline(r)[l].event = x
        BY <1>1, <1>3, <1>5, <4>2
      <4>3. QED
        BY <3>1, <4>1, <4>2
    <3>2. CASE s /= r
      BY <3>2 DEF RoutersOf
    <3>3. QED
      BY <3>1, <3>2
  <2>3. QED
    BY <2>1, <2>2
<1>8. ASSUME NEW p \in Plugins, NEW s \in RoutersOf(p), NEW t \in RoutersOf(p),
             NEW j \in DOMAIN Pipeline(s)', NEW k \in DOMAIN Pipeline(t)',
             Pipeline(s)'[j].event = Pipeline(t)'[k].event
      PROVE  s = t /\ j = k
  <2>1. \A u \in RoutersOf(p) : \A a \in DOMAIN Pipeline(u)' : \E b \in DOMAIN Pipeline(u) :
           /\ Pipeline(u)'[a].event = Pipeline(u)[b].event
           /\ b = IF u = r THEN IF a = n THEN i ELSE IF a < i THEN a ELSE a + 1 ELSE a
    BY <1>1, <1>3, <1>5 DEF RoutersOf
  <2>2. PICK a \in DOMAIN Pipeline(s) :
           /\ Pipeline(s)'[j].event = Pipeline(s)[a].event
           /\ a = IF s = r THEN IF j = n THEN i ELSE IF j < i THEN j ELSE j + 1 ELSE j
    BY <2>1
  <2>3. PICK b \in DOMAIN Pipeline(t) :
           /\ Pipeline(t)'[k].event = Pipeline(t)[b].event
           /\ b = IF t = r THEN IF k = n THEN i ELSE IF k < i THEN k ELSE k + 1 ELSE k
    BY <2>1
  <2>4. s = t /\ a = b
    <3>1. Pipeline(s)[a].event = Pipeline(t)[b].event
      BY <1>8, <2>2, <2>3
    <3>2. QED
      BY <3>1 DEF EveryEventAccountedFor
  <2>5. CASE s = r
    <3>1. j \in 1..n /\ k \in 1..n
      BY <1>3, <2>4, <2>5
    <3>2. a = (IF j = n THEN i ELSE IF j < i THEN j ELSE j + 1)
          /\ a = (IF k = n THEN i ELSE IF k < i THEN k ELSE k + 1)
      BY <2>2, <2>3, <2>4, <2>5
    <3>3. j = k
      BY <1>1, <1>2, <3>1, <3>2
    <3>4. QED
      BY <2>4, <3>3
  <2>6. CASE s /= r
    BY <2>2, <2>3, <2>4, <2>6
  <2>7. QED
    BY <2>5, <2>6
<1>9. QED
  BY <1>7, <1>8 DEF EveryEventAccountedFor

\* An event is told to a plugin that has not heard of it.
LEMMA Arrives ==
    ASSUME TypeOK, EveryEventAccountedFor, NEW r \in Routers, NEW m \in Messages,
           fate[m.event][r.plugin] = "none", Settle(m.event, r.plugin, "told"),
           Pipeline(r)' = Append(Pipeline(r), m),
           \A s \in Routers \ {r} : Pipeline(s)' = Pipeline(s)
    PROVE  EveryEventAccountedFor'
<1>1. PICK n \in Nat : n = Len(Pipeline(r)) /\ DOMAIN Pipeline(r) = 1..n
  BY PipelineType
<1>2. Pipeline(r) \in Seq(Messages) /\ r.plugin \in Plugins
  BY PipelineType
<1>3. PICK e \in Events : e = m.event
  BY DEF Messages
<1>4. \A x \in Events, p \in Plugins :
         fate'[x][p] = IF x = e /\ p = r.plugin THEN "told" ELSE fate[x][p]
  BY <1>2, <1>3, SettleEffect DEF Fates
<1>5. DOMAIN Pipeline(r)' = 1..n + 1
      /\ (\A k \in 1..n : Pipeline(r)'[k] = Pipeline(r)[k])
      /\ Pipeline(r)'[n + 1] = m
  <2>1. /\ Append(Pipeline(r), m) \in Seq(Messages) /\ Len(Append(Pipeline(r), m)) = n + 1
        /\ \A k \in 1..n : Append(Pipeline(r), m)[k] = Pipeline(r)[k]
        /\ Append(Pipeline(r), m)[n + 1] = m
    BY <1>1, <1>2, AppendProperties
  <2>2. DOMAIN Append(Pipeline(r), m) = 1..n + 1
    BY <2>1, LenProperties
  <2>3. QED
    BY <2>1, <2>2
<1>6. \A s \in RoutersOf(r.plugin) : \A k \in DOMAIN Pipeline(s) : Pipeline(s)[k].event /= e
  BY <1>2, <1>3 DEF EveryEventAccountedFor
<1>7. \A k \in 1..n + 1 : k \in 1..n \/ k = n + 1
  BY <1>1
<1>8. n + 1 \in 1..n + 1 /\ \A k \in 1..n : k \in 1..n + 1
  BY <1>1
<1>9. ASSUME NEW p \in Plugins, NEW x \in Events
      PROVE  fate'[x][p] = "told" <=> \E s \in RoutersOf(p) : \E k \in DOMAIN Pipeline(s)' :
                                          Pipeline(s)'[k].event = x
  <2>1. fate[x][p] = "told" <=> \E s \in RoutersOf(p) : \E k \in DOMAIN Pipeline(s) :
                                    Pipeline(s)[k].event = x
    BY DEF EveryEventAccountedFor
  <2>2. CASE x = e /\ p = r.plugin
    <3>1. r \in RoutersOf(p)
      BY <2>2 DEF RoutersOf
    <3>2. QED
      BY <1>3, <1>4, <1>5, <1>8, <2>2, <3>1
  <2>3. CASE ~(x = e /\ p = r.plugin)
    <3>1. \A s \in RoutersOf(p) :
             (\E k \in DOMAIN Pipeline(s) : Pipeline(s)[k].event = x)
                <=> \E k \in DOMAIN Pipeline(s)' : Pipeline(s)'[k].event = x
      BY <1>1, <1>3, <1>5, <1>7, <1>8, <2>3 DEF RoutersOf
    <3>2. QED
      BY <1>4, <2>1, <2>3, <3>1
  <2>4. QED
    BY <2>2, <2>3
<1>10. ASSUME NEW p \in Plugins, NEW s \in RoutersOf(p), NEW t \in RoutersOf(p),
              NEW j \in DOMAIN Pipeline(s)', NEW k \in DOMAIN Pipeline(t)',
              Pipeline(s)'[j].event = Pipeline(t)'[k].event
       PROVE  s = t /\ j = k
  <2>1. \A u \in RoutersOf(p) : \A a \in DOMAIN Pipeline(u)' :
           \/ a \in DOMAIN Pipeline(u) /\ Pipeline(u)'[a] = Pipeline(u)[a]
           \/ u = r /\ a = n + 1 /\ p = r.plugin /\ Pipeline(u)'[a].event = e
    BY <1>1, <1>3, <1>5, <1>7 DEF RoutersOf
  <2>2. QED
    BY <1>6, <1>10, <2>1 DEF EveryEventAccountedFor
<1>11. QED
  BY <1>9, <1>10 DEF EveryEventAccountedFor

\* A router stops: what is left in its pipeline are dead letters.
LEMMA Dies ==
    ASSUME TypeOK, EveryEventAccountedFor, NEW r \in Routers,
           Pipeline(r)' = <<>>, \A s \in Routers \ {r} : Pipeline(s)' = Pipeline(s),
           fate' = [e \in Events |->
                       IF \E i \in DOMAIN Pipeline(r) : Pipeline(r)[i].event = e
                       THEN [fate[e] EXCEPT ![r.plugin] = "dead"] ELSE fate[e]]
    PROVE  /\ EveryEventAccountedFor' /\ fate' \in [Events -> [Plugins -> Fates]]
           /\ \A e \in Events, p \in Plugins :
                 fate[e][p] = "none" => fate'[e][p] = "none"
<1>1. r.plugin \in Plugins
  BY PipelineType
<1> DEFINE Left(e) == \E i \in DOMAIN Pipeline(r) : Pipeline(r)[i].event = e
<1>2. /\ fate' \in [Events -> [Plugins -> Fates]]
      /\ \A e \in Events, p \in Plugins :
            fate'[e][p] = IF Left(e) /\ p = r.plugin THEN "dead" ELSE fate[e][p]
  <2>1. \A e \in Events : /\ fate[e] \in [Plugins -> Fates]
                          /\ [fate[e] EXCEPT ![r.plugin] = "dead"] \in [Plugins -> Fates]
    BY DEF TypeOK, Fates
  <2>2. fate' = [e \in Events |-> IF Left(e) THEN [fate[e] EXCEPT ![r.plugin] = "dead"]
                                             ELSE fate[e]]
    OBVIOUS
  <2> HIDE DEF Left
  <2>3. QED
    BY <1>1, <2>1, <2>2
<1>3. \A e \in Events : Left(e) => fate[e][r.plugin] = "told"
  BY <1>1 DEF EveryEventAccountedFor, RoutersOf
<1>4. DOMAIN Pipeline(r)' = {}
  OBVIOUS
<1>5. ASSUME NEW p \in Plugins, NEW x \in Events
      PROVE  fate'[x][p] = "told" <=> \E s \in RoutersOf(p) : \E k \in DOMAIN Pipeline(s)' :
                                          Pipeline(s)'[k].event = x
  <2>1. fate[x][p] = "told" <=> \E s \in RoutersOf(p) : \E k \in DOMAIN Pipeline(s) :
                                    Pipeline(s)[k].event = x
    BY DEF EveryEventAccountedFor
  <2>2. CASE Left(x) /\ p = r.plugin
    <3>1. \A s \in RoutersOf(p) : \A k \in DOMAIN Pipeline(s) :
             Pipeline(s)[k].event = x => s = r
      BY <2>2 DEF EveryEventAccountedFor, RoutersOf
    <3>2. \A s \in RoutersOf(p) : \A k \in DOMAIN Pipeline(s)' : Pipeline(s)'[k].event /= x
      BY <1>4, <3>1 DEF RoutersOf
    <3>3. QED
      BY <1>2, <2>2, <3>2
  <2>3. CASE ~(Left(x) /\ p = r.plugin)
    <3>1. fate'[x][p] = fate[x][p]
      BY <1>2, <2>3
    <3>2. \A s \in RoutersOf(p) :
             (\E k \in DOMAIN Pipeline(s) : Pipeline(s)[k].event = x)
                <=> \E k \in DOMAIN Pipeline(s)' : Pipeline(s)'[k].event = x
      BY <1>4, <2>3 DEF RoutersOf
    <3>3. QED
      BY <2>1, <3>1, <3>2
  <2>4. QED
    BY <2>2, <2>3
<1>6. ASSUME NEW p \in Plugins, NEW s \in RoutersOf(p), NEW t \in RoutersOf(p),
             NEW j \in DOMAIN Pipeline(s)', NEW k \in DOMAIN Pipeline(t)',
             Pipeline(s)'[j].event = Pipeline(t)'[k].event
      PROVE  s = t /\ j = k
  BY <1>4, <1>6 DEF EveryEventAccountedFor, RoutersOf
<1>7. QED
  BY <1>2, <1>3, <1>5, <1>6 DEF EveryEventAccountedFor

-----------------------------------------------------------------------------
(* The posting threads *)

\* What is known of a thread that is posting.
LEMMA PostType ==
    ASSUME TypeOK, NEW t \in Posters, post[t] /= None
    PROVE  /\ post[t] \in Posts /\ post[t].event \in Events /\ post[t].todo \subseteq Plugins
           /\ post[t].plugin \in Plugins \cup {None}
           /\ post[t].router \in Routers \cup {None}
           /\ post[t].step \in {"walk", "started", "read"} /\ post[t].stale \in BOOLEAN
<1>1. post[t] \in Posts
  BY DEF TypeOK
<1>2. QED
  BY <1>1 DEF Posts

\* Nothing becomes of an event where it has not been told.
LEMMA PostsKept ==
    ASSUME TypeOK, PostsInv, UNCHANGED <<post, posted>>,
           \A e \in Events, p \in Plugins : fate[e][p] = "none" => fate'[e][p] = "none"
    PROVE  PostsInv'
<1>1. ASSUME NEW t \in Posters
      PROVE  PostInv(t)'
  <2>1. CASE post[t] = None
    BY <2>1 DEF PostInv
  <2>2. CASE post[t] /= None
    <3>1. post[t].event \in Events /\ post[t].todo \subseteq Plugins
      BY <2>2, PostType
    <3>2. PostInv(t)
      BY DEF PostsInv
    <3>3. \A r \in Routers : r.plugin \in Plugins
      BY DEF Routers
    <3>4. QED
      BY <2>2, <3>1, <3>2, <3>3 DEF PostInv
  <2>3. QED
    BY <2>1, <2>2
<1>2. QED
  BY <1>1 DEF PostsInv

\* One thread goes on, with the same event or none.
LEMMA Advances ==
    ASSUME TypeOK, PostsInv, UNCHANGED <<posted, fate>>, NEW t \in Posters,
           NEW w \in Posts \cup {None}, post' = [post EXCEPT ![t] = w],
           w /= None => post[t] /= None /\ w.event = post[t].event,
           PostInv(t)'
    PROVE  PostsInv'
<1>1. post'[t] = w /\ \A u \in Posters : u /= t => post'[u] = post[u]
  BY DEF TypeOK
<1>2. \A u \in Posters : PostInv(u)'
  BY <1>1 DEF PostsInv, PostInv
<1>3. \A u, v \in Posters : u /= v /\ post'[u] /= None /\ post'[v] /= None
                                => post'[u].event /= post'[v].event
  BY <1>1 DEF PostsInv
<1>4. QED
  BY <1>2, <1>3 DEF PostsInv

\* An iterator that is stale goes on where it was.
LEMMA RegistryChangesEffect ==
    ASSUME TypeOK, PostsInv, RegistryChanges, UNCHANGED <<posted, fate>>
    PROVE  post' \in [Posters -> Posts \cup {None}] /\ PostsInv'
<1>1. \A w \in Posts : LET v == [w EXCEPT !.stale = TRUE]
                       IN  /\ v \in Posts /\ v.event = w.event /\ v.todo = w.todo
                           /\ v.step = w.step /\ v.plugin = w.plugin /\ v.router = w.router
  BY DEF Posts
<1>2. ASSUME NEW t \in Posters
      PROVE  /\ post'[t] \in Posts \cup {None}
             /\ post'[t] /= None =>
                   /\ post[t] /= None /\ post'[t].event = post[t].event
                   /\ post'[t].todo = post[t].todo /\ post'[t].step = post[t].step
                   /\ post'[t].plugin = post[t].plugin /\ post'[t].router = post[t].router
  <2>1. post[t] \in Posts \cup {None}
    BY DEF TypeOK
  <2>2. CASE post'[t] = post[t]
    BY <2>1, <2>2
  <2>3. CASE post[t] /= None /\ post'[t] = [post[t] EXCEPT !.stale = TRUE]
    BY <1>1, <2>1, <2>3
  <2>4. QED
    BY <2>2, <2>3 DEF RegistryChanges
<1>3. post' \in [Posters -> Posts \cup {None}]
  BY <1>2 DEF RegistryChanges
<1>4. \A t \in Posters : PostInv(t)'
  BY <1>2 DEF PostsInv, PostInv
<1>5. \A u, v \in Posters : u /= v /\ post'[u] /= None /\ post'[v] /= None
                                => post'[u].event /= post'[v].event
  BY <1>2 DEF PostsInv
<1>6. QED
  BY <1>3, <1>4, <1>5 DEF PostsInv

\* What is left to prove of a step that moves no message.
LEMMA NoMessageMoves ==
    ASSUME IInv, TypeOK', PostsInv', CycleInv', RoutersInv', UNCHANGED <<box, busy, fate>>
    PROVE  IInv'
<1>1. \A r \in Routers : Pipeline(r)' = Pipeline(r)
  BY DEF Pipeline
<1>2. EveryEventAccountedFor'
  BY <1>1, Unmoved DEF IInv
<1>3. QED
  BY <1>2 DEF IInv

\* A thread takes up an event that nobody has posted.
LEMMA PostMessageInv ==
    ASSUME IInv, NEW t \in Posters, NEW e \in Events, PostMessage(t, e)
    PROVE  IInv'
<1>1. /\ TypeOK /\ PostsInv /\ CycleInv /\ RoutersInv /\ post[t] = None /\ e \notin posted
      /\ posted' = posted \cup {e} /\ UNCHANGED <<cycle, routing, fate>>
  BY DEF IInv, PostMessage
<1>2. PICK todo \in SUBSET Plugins :
         todo = IF KindOf[e] = "custom" THEN entries \cap AudienceOf[e] ELSE entries
  BY DEF entries
<1> DEFINE w == [event |-> e, stale |-> FALSE, step |-> "walk", plugin |-> None,
                 router |-> None, todo |-> todo]
<1>3. w \in Posts /\ w.event = e /\ w.todo = todo /\ w.step = "walk"
  BY DEF Posts
<1>4. post' = [post EXCEPT ![t] = w]
  BY <1>2 DEF PostMessage
<1> HIDE DEF w
<1>5. post'[t] = w /\ \A u \in Posters : u /= t => post'[u] = post[u]
  BY <1>1, <1>4 DEF TypeOK
<1>6. TypeOK'
  <2>1. steady' \in [Posters -> SUBSET Plugins]
    BY <1>1 DEF TypeOK, PostMessage, entries
  <2>2. QED
    BY <1>1, <1>3, <1>4, <2>1 DEF TypeOK, cycle, routing
<1>7. PostsInv'
  <2>1. \A u \in Posters : u /= t => PostInv(u)'
    BY <1>1, <1>5 DEF PostsInv, PostInv
  <2>2. PostInv(t)'
    BY <1>1, <1>3, <1>5 DEF PostsInv, PostInv
  <2>3. \A u \in Posters : post[u] /= None => post[u].event /= e
    BY <1>1 DEF PostsInv, PostInv
  <2>4. \A u, v \in Posters : u /= v /\ post'[u] /= None /\ post'[v] /= None
                                  => post'[u].event /= post'[v].event
    BY <1>1, <1>3, <1>5, <2>3 DEF PostsInv
  <2>5. \A x \in Events \ posted' : \A p \in Plugins : fate'[x][p] = "none"
    BY <1>1 DEF PostsInv
  <2>6. QED
    BY <2>1, <2>2, <2>4, <2>5 DEF PostsInv
<1>8. CycleInv' /\ RoutersInv'
  BY <1>1 DEF CycleInv, RoutersInv, cycle, routing, entries
<1>9. QED
  BY <1>1, <1>6, <1>7, <1>8, NoMessageMoves DEF routing

\* What is left to prove of a thread that goes on without telling anybody.
LEMMA GoesOn ==
    ASSUME IInv, UNCHANGED <<cycle, routing, posted, fate>>, NEW t \in Posters,
           steady' \in [Posters -> SUBSET Plugins],
           NEW w \in Posts \cup {None}, post' = [post EXCEPT ![t] = w],
           w /= None => post[t] /= None /\ w.event = post[t].event,
           PostInv(t)'
    PROVE  IInv'
<1>1. TypeOK /\ PostsInv /\ CycleInv /\ RoutersInv
  BY DEF IInv
<1>2. TypeOK'
  BY <1>1 DEF TypeOK, cycle, routing
<1>3. PostsInv'
  BY <1>1, Advances
<1>4. CycleInv' /\ RoutersInv'
  BY <1>1 DEF CycleInv, RoutersInv, cycle, routing, entries
<1>5. QED
  BY <1>2, <1>3, <1>4, NoMessageMoves DEF routing

\* A thread looks at an entry.
LEMMA CheckStatusInv ==
    ASSUME IInv, NEW t \in Posters, NEW p \in Plugins, CheckStatus(t, p)
    PROVE  IInv'
<1>1. /\ TypeOK /\ PostInv(t) /\ post[t] /= None /\ p \in post[t].todo
      /\ UNCHANGED <<cycle, routing, posted, fate>> /\ steady' \in [Posters -> SUBSET Plugins]
  BY DEF IInv, TypeOK, PostsInv, CheckStatus, Posting
<1>2. post[t] \in Posts /\ post[t].todo \subseteq Plugins
  BY <1>1, PostType
<1>3. PICK accepts \in BOOLEAN : accepts <=> status[p] = "STARTED" /\ p \in AudienceOf[post[t].event]
  OBVIOUS
<1>4. PICK q \in Plugins \cup {None}, s \in {"walk", "started"} :
         /\ q = IF accepts THEN p ELSE None
         /\ s = IF accepts THEN "started" ELSE "walk"
  OBVIOUS
<1>5. PICK todo \in SUBSET Plugins : todo = post[t].todo \ {p}
  BY <1>2
<1> DEFINE w == [post[t] EXCEPT !.todo = todo, !.plugin = q, !.step = s]
<1>6. w \in Posts /\ w.event = post[t].event /\ w.todo = todo /\ w.plugin = q /\ w.step = s
  BY <1>2 DEF Posts
<1>7. post' = [post EXCEPT ![t] = w]
  BY <1>3, <1>4, <1>5 DEF CheckStatus
<1> HIDE DEF w
<1>8. post'[t] = w
  BY <1>1, <1>7 DEF TypeOK
<1>9. PostInv(t)'
  BY <1>1, <1>4, <1>5, <1>6, <1>8 DEF PostInv
<1>10. QED
  BY <1>1, <1>6, <1>7, <1>9, GoesOn

\* A thread ends its walk.
LEMMA WalkEndsInv ==
    ASSUME IInv, NEW t \in Posters, IteratorFails(t) \/ PostDone(t)
    PROVE  IInv'
<1>1. /\ TypeOK /\ post' = [post EXCEPT ![t] = None]
      /\ UNCHANGED <<cycle, routing, posted, fate>> /\ steady' \in [Posters -> SUBSET Plugins]
  BY DEF IInv, TypeOK, IteratorFails, PostDone
<1>2. PostInv(t)'
  BY <1>1 DEF PostInv, TypeOK
<1>3. QED
  BY <1>1, <1>2, GoesOn

\* A stale iterator misses entries.
LEMMA IteratorMissesInv ==
    ASSUME IInv, NEW t \in Posters, IteratorMisses(t)
    PROVE  IInv'
<1>1. /\ TypeOK /\ PostInv(t) /\ post[t] /= None /\ post[t].step = "walk"
      /\ UNCHANGED <<cycle, routing, posted, fate>> /\ steady' \in [Posters -> SUBSET Plugins]
  BY DEF IInv, TypeOK, PostsInv, IteratorMisses, Posting
<1>2. post[t] \in Posts /\ post[t].todo \subseteq Plugins
  BY <1>1, PostType
<1>3. PICK seen \in SUBSET post[t].todo : post' = [post EXCEPT ![t].todo = seen]
  BY DEF IteratorMisses
<1> DEFINE w == [post[t] EXCEPT !.todo = seen]
<1>4. w \in Posts /\ w.event = post[t].event /\ w.todo = seen /\ w.step = "walk"
  BY <1>1, <1>2 DEF Posts
<1>5. post' = [post EXCEPT ![t] = w]
  BY <1>3
<1> HIDE DEF w
<1>6. post'[t] = w
  BY <1>1, <1>5 DEF TypeOK
<1>7. PostInv(t)'
  BY <1>1, <1>3, <1>4, <1>6 DEF PostInv
<1>8. QED
  BY <1>1, <1>4, <1>5, <1>7, GoesOn

\* A thread reads the reference to the router.
LEMMA ReadReferenceInv ==
    ASSUME IInv, NEW t \in Posters, ReadReference(t)
    PROVE  IInv'
<1>1. /\ TypeOK /\ PostInv(t) /\ RoutersInv /\ post[t] /= None /\ post[t].step = "started"
      /\ UNCHANGED <<cycle, routing, posted, fate>> /\ steady' \in [Posters -> SUBSET Plugins]
  BY DEF IInv, TypeOK, PostsInv, ReadReference, Posting
<1>2. post[t] \in Posts /\ post[t].event \in Events
  BY <1>1, PostType
<1>3. PICK p \in Plugins \ post[t].todo, f \in Flows :
         /\ p = post[t].plugin /\ fate[post[t].event][p] = "none" /\ f = FlowOf[post[t].event]
  BY <1>1, <1>2, EventsAssumption DEF PostInv
<1>4. PICK r \in Routers \cup {None} : r = ref[p][f]
  BY <1>1 DEF TypeOK
<1>5. PICK s \in {"walk", "read"} : s = IF r = None THEN "walk" ELSE "read"
  OBVIOUS
<1>6. r /= None => r \in Routers /\ r.plugin = p
  BY <1>1, <1>4 DEF RoutersInv
<1> DEFINE w == [post[t] EXCEPT !.router = r, !.plugin = None, !.step = s]
<1>7. w \in Posts /\ w.event = post[t].event /\ w.todo = post[t].todo /\ w.router = r /\ w.step = s
  BY <1>2 DEF Posts
<1>8. post' = [post EXCEPT ![t] = w]
  BY <1>3, <1>4, <1>5 DEF ReadReference
<1> HIDE DEF w
<1>9. post'[t] = w
  BY <1>1, <1>8 DEF TypeOK
<1>10. PostInv(t)'
  BY <1>1, <1>3, <1>5, <1>6, <1>7, <1>9 DEF PostInv
<1>11. QED
  BY <1>1, <1>7, <1>8, <1>10, GoesOn

\* The message is told to the router, or goes to the dead letters.
LEMMA TellInv ==
    ASSUME IInv, NEW t \in Posters, Tell(t)
    PROVE  IInv'
<1>1. /\ TypeOK /\ PostsInv /\ CycleInv /\ RoutersInv /\ EveryEventAccountedFor
      /\ post[t] /= None /\ post[t].step = "read" /\ PostInv(t)
      /\ UNCHANGED <<cycle, stage, busy, posted, steady>>
  BY DEF IInv, PostsInv, Tell, Posting
<1>2. PICK r \in Routers, e \in Events :
         /\ r = post[t].router /\ e = post[t].event /\ e \in posted
         /\ r.plugin \notin post[t].todo /\ fate[e][r.plugin] = "none"
  BY <1>1, PostType DEF PostInv
<1>3. r.plugin \in Plugins
  BY DEF Routers
<1> DEFINE w == [post[t] EXCEPT !.step = "walk", !.router = None]
<1>4. w \in Posts /\ w.event = e /\ w.todo = post[t].todo /\ w.step = "walk"
  <2>1. post[t] \in Posts
    BY <1>1, PostType
  <2>2. QED
    BY <1>2, <2>1 DEF Posts
<1>5. post' = [post EXCEPT ![t] = w]
  BY DEF Tell
<1> HIDE DEF w
<1>6. post'[t] = w /\ \A u \in Posters : u /= t => post'[u] = post[u]
  BY <1>1, <1>5 DEF TypeOK
<1>7. PICK m \in Messages : m = [event |-> e, kind |-> KindOf[e]]
  BY EventsAssumption DEF Messages
<1>8. PICK outcome \in {"told", "dead"} :
         /\ outcome = IF stage[r] = "dead" THEN "dead" ELSE "told"
         /\ Settle(e, r.plugin, outcome)
         /\ IF stage[r] = "dead" THEN UNCHANGED box ELSE box' = [box EXCEPT ![r] = Append(@, m)]
  BY <1>2, <1>7 DEF Tell
<1>9. /\ fate' \in [Events -> [Plugins -> Fates]]
      /\ \A x \in Events, q \in Plugins :
            fate'[x][q] = IF x = e /\ q = r.plugin THEN outcome ELSE fate[x][q]
  BY <1>1, <1>3, <1>8, SettleEffect DEF Fates
<1>10. box' \in [Routers -> Seq(Messages)]
  <2>1. Append(box[r], m) \in Seq(Messages)
    BY <1>1, AppendProperties DEF TypeOK
  <2>2. QED
    BY <1>1, <1>8, <2>1 DEF TypeOK
<1>11. TypeOK'
  BY <1>1, <1>4, <1>5, <1>9, <1>10 DEF TypeOK, cycle
<1>12. PostsInv'
  <2>1. \A u, v \in Posters : u /= v /\ post'[u] /= None /\ post'[v] /= None
                                  => post'[u].event /= post'[v].event
    BY <1>1, <1>2, <1>4, <1>6 DEF PostsInv
  <2>2. \A u \in Posters : u /= t => PostInv(u)'
    <3> TAKE u \in Posters
    <3> HAVE u /= t
    <3>1. CASE post[u] = None
      BY <1>6, <3>1 DEF PostInv
    <3>2. CASE post[u] /= None
      <4>1. post[u].event \in Events /\ post[u].todo \subseteq Plugins /\ PostInv(u)
        BY <1>1, <3>2, PostType DEF PostsInv
      <4>2. post[u].event /= e
        BY <1>1, <1>2, <3>2 DEF PostsInv
      <4>3. \A q \in Plugins : fate'[post[u].event][q] = fate[post[u].event][q]
        BY <1>9, <4>1, <4>2
      <4>4. \A x \in Routers : x.plugin \in Plugins
        BY DEF Routers
      <4>5. QED
        BY <1>1, <1>6, <3>2, <4>1, <4>3, <4>4 DEF PostInv
    <3>3. QED
      BY <3>1, <3>2
  <2>3. PostInv(t)'
    <3>1. post[t].todo \subseteq Plugins /\ \A q \in post[t].todo : fate[e][q] = "none"
      BY <1>1, <1>2, PostType DEF PostInv
    <3>2. \A q \in post[t].todo : fate'[e][q] = "none"
      BY <1>2, <1>9, <3>1
    <3>3. QED
      BY <1>1, <1>2, <1>4, <1>6, <3>2 DEF PostInv
  <2>4. \A x \in Events \ posted' : \A q \in Plugins : fate'[x][q] = "none"
    BY <1>1, <1>2, <1>9 DEF PostsInv
  <2>5. QED
    BY <2>1, <2>2, <2>3, <2>4 DEF PostsInv
<1>13. CycleInv' /\ RoutersInv'
  BY <1>1 DEF CycleInv, RoutersInv, cycle, entries
<1>14. EveryEventAccountedFor'
  <2>1. CASE stage[r] = "dead"
    <3>1. \A s \in Routers : Pipeline(s)' = Pipeline(s)
      BY <1>1, <1>8, <2>1 DEF Pipeline
    <3>2. \A x \in Events, q \in Plugins :
             fate'[x][q] = "told" <=> fate[x][q] = "told"
      BY <1>2, <1>8, <1>9, <2>1
    <3>3. QED
      BY <1>1, <3>1, <3>2 DEF EveryEventAccountedFor, RoutersOf
  <2>2. CASE stage[r] /= "dead"
    <3>1. box' = [box EXCEPT ![r] = Append(@, m)] /\ outcome = "told"
      BY <1>8, <2>2
    <3>2. \A s \in Routers \ {r} : Pipeline(s)' = Pipeline(s)
      BY <1>1, <3>1 DEF Pipeline, TypeOK
    <3>3. Pipeline(r)' = busy[r] \o Append(box[r], m)
      BY <1>1, <3>1 DEF Pipeline, TypeOK
    <3>4. Pipeline(r)' = Append(Pipeline(r), m)
      <4>1. PICK b \in Seq(Messages), c \in Seq(Messages) : b = busy[r] /\ c = box[r]
        BY <1>1, PipelineType
      <4>2. b \o Append(c, m) = Append(b \o c, m)
        BY AppendBehind
      <4>3. QED
        BY <3>3, <4>1, <4>2 DEF Pipeline
    <3>5. m.event = e
      BY <1>7
    <3>6. QED
      BY <1>1, <1>2, <1>8, <3>1, <3>2, <3>4, <3>5, Arrives
  <2>3. QED
    BY <2>1, <2>2
<1>15. QED
  BY <1>11, <1>12, <1>13, <1>14 DEF IInv

-----------------------------------------------------------------------------
(* The routers *)

\* What is left to prove of a step of a router.
LEMMA RouterSteps ==
    ASSUME IInv, UNCHANGED <<cycle, post, posted, steady>>, EveryEventAccountedFor',
           stage' \in [Routers -> {"none", "live", "stopping", "dead"}],
           box' \in [Routers -> Seq(Messages)], busy' \in [Routers -> Seq(Messages)],
           \A r \in Routers : Len(busy'[r]) <= PoolSize,
           fate' \in [Events -> [Plugins -> Fates]],
           \A e \in Events, p \in Plugins : fate[e][p] = "none" => fate'[e][p] = "none"
    PROVE  IInv'
<1>1. TypeOK /\ PostsInv /\ CycleInv /\ RoutersInv
  BY DEF IInv
<1>2. TypeOK'
  BY <1>1 DEF TypeOK, cycle
<1>3. PostsInv'
  BY <1>1, PostsKept
<1>4. CycleInv' /\ RoutersInv'
  BY <1>1 DEF CycleInv, RoutersInv, cycle, entries
<1>5. QED
  BY <1>2, <1>3, <1>4 DEF IInv

\* A routee takes its next message: the pipeline stays as it is.
LEMMA HandleInv ==
    ASSUME IInv, NEW r \in Routers, Handle(r)
    PROVE  IInv' /\ \A x \in Routers : Pipeline(x)' = Pipeline(x)
<1>1. /\ TypeOK /\ RoutersInv /\ EveryEventAccountedFor
      /\ box[r] /= <<>> /\ Len(busy[r]) < PoolSize
      /\ busy' = [busy EXCEPT ![r] = Append(@, Head(box[r]))]
      /\ box' = [box EXCEPT ![r] = Tail(@)]
      /\ UNCHANGED <<cycle, stage, post, posted, fate, steady>>
  BY DEF IInv, Handle
<1>2. PICK s \in Seq(Messages), t \in Seq(Messages) : s = busy[r] /\ t = box[r] /\ t /= <<>>
  BY <1>1 DEF TypeOK
<1>3. PICK h \in Messages, u \in Seq(Messages) : h = Head(t) /\ u = Tail(t)
  BY <1>2, HeadTailProperties
<1>4. Append(s, h) \in Seq(Messages) /\ Len(Append(s, h)) = Len(s) + 1 /\ Len(s) \in Nat
  BY <1>2, AppendProperties
<1>5. busy' = [busy EXCEPT ![r] = Append(s, h)] /\ box' = [box EXCEPT ![r] = u]
  BY <1>1, <1>2, <1>3
<1>6. /\ busy' \in [Routers -> Seq(Messages)] /\ box' \in [Routers -> Seq(Messages)]
      /\ busy'[r] = Append(s, h) /\ box'[r] = u
      /\ \A x \in Routers \ {r} : busy'[x] = busy[x] /\ box'[x] = box[x]
  BY <1>1, <1>4, <1>5 DEF TypeOK
<1>7. Len(busy'[r]) <= PoolSize
  BY <1>1, <1>2, <1>4, <1>6 DEF PoolSize
<1>8. Append(s, h) \o u = s \o t
  BY <1>2, <1>3, HeadMoves
<1>9. \A x \in Routers : Pipeline(x)' = Pipeline(x)
  BY <1>2, <1>6, <1>8 DEF Pipeline
<1>10. EveryEventAccountedFor'
  BY <1>1, <1>9, Unmoved
<1>11. \A x \in Routers : Len(busy'[x]) <= PoolSize
  BY <1>1, <1>6, <1>7 DEF RoutersInv
<1>12. QED
  BY <1>1, <1>6, <1>9, <1>10, <1>11, RouterSteps DEF TypeOK

\* A routee is done with a message: the pipeline is short of it.
LEMMA FinishEffect ==
    ASSUME IInv, NEW r \in Routers, NEW i \in 1..Len(busy[r]), Finish(r, i)
    PROVE  /\ busy[r][i] \in Messages /\ busy[r][i].event \in Events
           /\ busy' \in [Routers -> Seq(Messages)] /\ busy'[r] = RemoveAt(busy[r], i)
           /\ \A x \in Routers \ {r} : busy'[x] = busy[x]
           /\ \A x \in Routers : Len(busy'[x]) <= PoolSize
           /\ i \in DOMAIN Pipeline(r) /\ Pipeline(r)[i] = busy[r][i]
           /\ busy'[r] \o box[r] = RemoveAt(Pipeline(r), i)
           /\ fate[busy[r][i].event][r.plugin] = "told"
<1>1. /\ TypeOK /\ RoutersInv /\ EveryEventAccountedFor
      /\ busy' = [busy EXCEPT ![r] = RemoveAt(@, i)]
  BY DEF IInv, Finish
<1>2. PICK s \in Seq(Messages), t \in Seq(Messages) : s = busy[r] /\ t = box[r]
  BY <1>1 DEF TypeOK
<1>3. /\ RemoveAt(s, i) \in Seq(Messages) /\ Len(RemoveAt(s, i)) = Len(s) - 1
      /\ Len(s) \in Nat /\ s[i] \in Messages
  <2>1. i \in 1..Len(s)
    BY <1>2
  <2>2. RemoveAt(s, i) \in Seq(Messages) /\ Len(RemoveAt(s, i)) = Len(s) - 1
    BY <2>1, RemoveFacts
  <2>3. QED
    BY <2>1, <2>2, LenProperties, ElementOfSeq
<1>4. /\ busy' \in [Routers -> Seq(Messages)] /\ busy'[r] = RemoveAt(s, i)
      /\ \A x \in Routers \ {r} : busy'[x] = busy[x]
  BY <1>1, <1>2, <1>3 DEF TypeOK
<1>5. \A x \in Routers : Len(busy'[x]) <= PoolSize
  BY <1>1, <1>2, <1>3, <1>4 DEF RoutersInv, PoolSize
<1>6. /\ i \in 1..Len(s \o t) /\ (s \o t)[i] = s[i]
      /\ RemoveAt(s, i) \o t = RemoveAt(s \o t, i)
  <2>1. i \in 1..Len(s)
    BY <1>2
  <2>2. QED
    BY <2>1, RemoveInFront
<1>7. Pipeline(r) = s \o t
  BY <1>2 DEF Pipeline
<1>8. i \in DOMAIN Pipeline(r)
  BY <1>1, <1>6, <1>7, PipelineType
<1>9. s[i].event \in Events
  BY <1>3 DEF Messages
<1>10. fate[s[i].event][r.plugin] = "told"
  <2>1. Pipeline(r)[i].event = s[i].event /\ r.plugin \in Plugins /\ r \in RoutersOf(r.plugin)
    BY <1>1, <1>6, <1>7, PipelineType DEF RoutersOf
  <2>2. QED
    BY <1>1, <1>8, <1>9, <2>1 DEF EveryEventAccountedFor
<1>11. QED
  BY <1>2, <1>3, <1>4, <1>5, <1>6, <1>7, <1>8, <1>9, <1>10

\* The handler returns or throws, and the event is settled.
LEMMA SettledInv ==
    ASSUME IInv, NEW r \in Routers, NEW i \in 1..Len(busy[r]), Finish(r, i),
           NEW outcome \in {"handled", "failed"},
           Settle(busy[r][i].event, r.plugin, outcome), UNCHANGED box
    PROVE  IInv'
<1>1. TypeOK /\ EveryEventAccountedFor /\ UNCHANGED <<cycle, stage, post, posted, steady>>
  BY DEF IInv, Finish
<1>2. PICK e \in Events : e = busy[r][i].event /\ fate[e][r.plugin] = "told"
  BY FinishEffect
<1>3. r.plugin \in Plugins
  BY DEF Routers
<1>4. /\ fate' \in [Events -> [Plugins -> Fates]]
      /\ \A x \in Events, q \in Plugins :
            fate'[x][q] = IF x = e /\ q = r.plugin THEN outcome ELSE fate[x][q]
  BY <1>1, <1>2, <1>3, SettleEffect DEF Fates
<1>5. /\ busy' \in [Routers -> Seq(Messages)]
      /\ \A x \in Routers : Len(busy'[x]) <= PoolSize
      /\ i \in DOMAIN Pipeline(r) /\ Pipeline(r)[i].event = e
  BY <1>2, FinishEffect
<1>6. Pipeline(r)' = RemoveAt(Pipeline(r), i)
      /\ \A s \in Routers \ {r} : Pipeline(s)' = Pipeline(s)
  <2>1. busy'[r] \o box[r] = RemoveAt(Pipeline(r), i)
        /\ \A s \in Routers \ {r} : busy'[s] = busy[s]
    BY FinishEffect
  <2>2. QED
    BY <2>1 DEF Pipeline
<1>7. EveryEventAccountedFor'
  BY <1>1, <1>2, <1>5, <1>6, Leaves DEF Fates
<1>8. \A x \in Events, q \in Plugins : fate[x][q] = "none" => fate'[x][q] = "none"
  BY <1>2, <1>4
<1>9. QED
  BY <1>1, <1>4, <1>5, <1>7, <1>8, RouterSteps DEF TypeOK

\* The handler fails, and a RESYNC message takes the place of the event.
LEMMA RecoveredInv ==
    ASSUME IInv, NEW r \in Routers, NEW i \in 1..Len(busy[r]), Finish(r, i),
           box' = [box EXCEPT ![r] = Append(@, Resync(busy[r][i]))], UNCHANGED fate
    PROVE  IInv'
<1>1. TypeOK /\ EveryEventAccountedFor /\ UNCHANGED <<cycle, stage, post, posted, steady>>
  BY DEF IInv, Finish
<1>2. PICK m \in Messages : m = Resync(busy[r][i]) /\ m.event = busy[r][i].event
  <2>1. busy[r][i].event \in Events
    BY FinishEffect
  <2>2. QED
    BY <2>1 DEF Resync, Messages, Kinds
<1>3. /\ busy' \in [Routers -> Seq(Messages)]
      /\ \A x \in Routers : Len(busy'[x]) <= PoolSize
      /\ i \in DOMAIN Pipeline(r) /\ Pipeline(r)[i].event = m.event
      /\ busy'[r] \o box[r] = RemoveAt(Pipeline(r), i)
      /\ \A s \in Routers \ {r} : busy'[s] = busy[s]
  BY <1>2, FinishEffect
<1>4. /\ box' \in [Routers -> Seq(Messages)] /\ box'[r] = Append(box[r], m)
      /\ \A s \in Routers \ {r} : box'[s] = box[s]
  <2>1. Append(box[r], m) \in Seq(Messages)
    BY <1>1, AppendProperties DEF TypeOK
  <2>2. QED
    BY <1>1, <1>2, <2>1 DEF TypeOK
<1>5. busy'[r] \o Append(box[r], m) = Append(busy'[r] \o box[r], m)
  <2>1. PICK b \in Seq(Messages), c \in Seq(Messages) : b = busy'[r] /\ c = box[r]
    BY <1>1, <1>3 DEF TypeOK
  <2>2. b \o Append(c, m) = Append(b \o c, m)
    BY AppendBehind
  <2>3. QED
    BY <2>1, <2>2
<1>6. Pipeline(r)' = Append(RemoveAt(Pipeline(r), i), m)
      /\ \A s \in Routers \ {r} : Pipeline(s)' = Pipeline(s)
  BY <1>3, <1>4, <1>5 DEF Pipeline
<1>7. EveryEventAccountedFor'
  BY <1>1, <1>3, <1>6, Replaced
<1>8. QED
  BY <1>1, <1>3, <1>4, <1>7, RouterSteps DEF TypeOK

\* The end of a handler, however it ends.
LEMMA EndOfHandlerInv ==
    ASSUME IInv, NEW r \in Routers, EndOfHandler(r)
    PROVE  IInv'
<1>1. PICK i \in 1..Len(busy[r]) :
         HandleSucceeds(r, i) \/ HandleFails(r, i) \/ HandleCrashes(r, i)
  BY DEF EndOfHandler
<1>2. Finish(r, i)
  BY <1>1 DEF HandleSucceeds, HandleFails, HandleCrashes
<1>3. \/ /\ \E outcome \in {"handled", "failed"} :
               Settle(busy[r][i].event, r.plugin, outcome)
         /\ UNCHANGED box
      \/ box' = [box EXCEPT ![r] = Append(@, Resync(busy[r][i]))] /\ UNCHANGED fate
  BY <1>1 DEF HandleSucceeds, HandleFails, HandleCrashes
<1>4. QED
  BY <1>2, <1>3, SettledInv, RecoveredInv

\* A router stops.
LEMMA RouterStopsInv ==
    ASSUME IInv, NEW r \in Routers, RouterStops(r)
    PROVE  IInv'
<1>1. /\ TypeOK /\ RoutersInv /\ EveryEventAccountedFor /\ busy[r] = <<>>
      /\ stage' = [stage EXCEPT ![r] = "dead"] /\ box' = [box EXCEPT ![r] = <<>>]
      /\ UNCHANGED <<cycle, busy, post, posted, steady>>
  BY DEF IInv, RouterStops
<1>2. /\ box' \in [Routers -> Seq(Messages)] /\ box'[r] = <<>>
      /\ \A s \in Routers \ {r} : box'[s] = box[s]
      /\ stage' \in [Routers -> {"none", "live", "stopping", "dead"}]
  BY <1>1, EmptySeq DEF TypeOK
<1>3. Pipeline(r) = box[r] /\ Pipeline(r)' = <<>>
  <2>1. <<>> \o box[r] = box[r]
    BY <1>1, ConcatEmptySeq DEF TypeOK
  <2>2. <<>> \o <<>> = <<>>
    OBVIOUS
  <2>3. QED
    BY <1>1, <1>2, <2>1, <2>2 DEF Pipeline
<1>4. \A s \in Routers \ {r} : Pipeline(s)' = Pipeline(s)
  BY <1>1, <1>2 DEF Pipeline
<1>5. fate' = [e \in Events |->
                  IF \E i \in DOMAIN Pipeline(r) : Pipeline(r)[i].event = e
                  THEN [fate[e] EXCEPT ![r.plugin] = "dead"] ELSE fate[e]]
  BY <1>3 DEF RouterStops
<1>6. /\ EveryEventAccountedFor' /\ fate' \in [Events -> [Plugins -> Fates]]
      /\ \A e \in Events, p \in Plugins : fate[e][p] = "none" => fate'[e][p] = "none"
  BY <1>1, <1>3, <1>4, <1>5, Dies
<1>7. \A s \in Routers : Len(busy'[s]) <= PoolSize
  BY <1>1 DEF RoutersInv
<1>8. QED
  BY <1>1, <1>2, <1>6, <1>7, RouterSteps DEF TypeOK

-----------------------------------------------------------------------------
(* The life cycle *)

\* A plugin is registered or unregistered.
LEMMA RegistersInv ==
    ASSUME IInv, NEW p \in Plugins, Register(p) \/ Unregister(p)
    PROVE  IInv'
<1>1. /\ TypeOK /\ PostsInv /\ CycleInv /\ RoutersInv /\ RegistryChanges
      /\ UNCHANGED <<status, ref, starts, request, answer, routing, posted, fate, steady>>
  BY DEF IInv, Register, Unregister
<1>2. post' \in [Posters -> Posts \cup {None}] /\ PostsInv'
  BY <1>1, RegistryChangesEffect
<1>3. registration' \in [Plugins -> {"none", "registered", "gone"}]
  <2>1. registration \in [Plugins -> {"none", "registered", "gone"}]
    BY <1>1 DEF TypeOK
  <2>2. PICK new \in {"registered", "gone"} : registration' = [registration EXCEPT ![p] = new]
    BY DEF Register, Unregister
  <2>3. QED
    BY <2>1, <2>2
<1>4. TypeOK'
  BY <1>1, <1>2, <1>3 DEF TypeOK, routing
<1>5. CycleInv'
  <2>1. \A q \in Plugins : q \notin entries' => q \notin entries \/ status[q] = "STOPPED"
    BY <1>1 DEF Register, Unregister, entries, TypeOK
  <2>2. QED
    BY <1>1, <2>1 DEF CycleInv
<1>6. RoutersInv'
  BY <1>1 DEF RoutersInv, routing
<1>7. QED
  BY <1>1, <1>2, <1>4, <1>5, <1>6, NoMessageMoves DEF routing

\* A start creates routers of the plugin.
LEMMA StartInv ==
    ASSUME IInv, NEW p \in Plugins, Start(p)
    PROVE  IInv'
<1>1. /\ TypeOK /\ PostsInv /\ CycleInv /\ RoutersInv
      /\ p \in entries /\ status[p] = "STOPPED" /\ starts[p] < MaxStarts
      /\ starts' = [starts EXCEPT ![p] = @ + 1]
      /\ status' = [status EXCEPT ![p] = "STARTING"]
      /\ request' = [request EXCEPT ![p] = "START"]
      /\ UNCHANGED <<registration, answer, box, busy, post, posted, fate, steady>>
  BY DEF IInv, Start
<1>2. starts' \in [Plugins -> 0..MaxStarts] /\ starts'[p] \in 1..MaxStarts
  <2>1. starts[p] \in 0..MaxStarts /\ MaxStarts \in Nat
    BY <1>1, EventsAssumption DEF TypeOK
  <2>2. starts[p] + 1 \in 1..MaxStarts /\ starts[p] + 1 \in 0..MaxStarts
    BY <1>1, <2>1
  <2>3. QED
    BY <1>1, <2>2 DEF TypeOK
<1>3. PICK n \in 1..MaxStarts : n = starts'[p]
  BY <1>2
<1>4. \A f \in Flows : Router(p, f, n) \in Routers /\ Router(p, f, n).plugin = p
  BY DEF Router, Routers
<1> DEFINE new == [f \in Flows |-> IF f \in InterfacesOf[p] THEN Router(p, f, n) ELSE None]
<1>5. /\ new \in [Flows -> Routers \cup {None}]
      /\ \A f \in Flows : new[f] /= None => new[f].plugin = p
  BY <1>4
<1>6. ref' = [ref EXCEPT ![p] = new]
  BY <1>3 DEF Start
<1> HIDE DEF new
<1>7. /\ ref' \in [Plugins -> [Flows -> Routers \cup {None}]]
      /\ \A q \in Plugins : ref'[q] = IF q = p THEN new ELSE ref[q]
  BY <1>1, <1>5, <1>6 DEF TypeOK
<1>8. stage' \in [Routers -> {"none", "live", "stopping", "dead"}]
  BY <1>1 DEF TypeOK, Start
<1>9. TypeOK'
  BY <1>1, <1>2, <1>7, <1>8 DEF TypeOK
<1>10. PostsInv'
  BY <1>1, PostsKept
<1>11. CycleInv'
  BY <1>1 DEF CycleInv, entries, TypeOK
<1>12. RoutersInv'
  BY <1>1, <1>5, <1>7 DEF RoutersInv
<1>13. QED
  BY <1>1, <1>9, <1>10, <1>11, <1>12, NoMessageMoves

\* A stop leaves the messages where they are.
LEMMA StopInv ==
    ASSUME IInv, NEW p \in Plugins, Stop(p)
    PROVE  IInv'
<1>1. /\ TypeOK /\ PostsInv /\ CycleInv /\ RoutersInv
      /\ p \in entries /\ status[p] = "STARTED"
      /\ status' = [status EXCEPT ![p] = "STOPPING"]
      /\ request' = [request EXCEPT ![p] = "STOP"]
      /\ UNCHANGED <<registration, ref, starts, answer, box, busy, post, posted, fate>>
      /\ steady' \in [Posters -> SUBSET Plugins]
  BY DEF IInv, TypeOK, Stop, MayStop
<1>2. stage' \in [Routers -> {"none", "live", "stopping", "dead"}]
  BY <1>1 DEF TypeOK, Stop
<1>3. TypeOK'
  BY <1>1, <1>2 DEF TypeOK
<1>4. PostsInv'
  BY <1>1, PostsKept
<1>5. CycleInv' /\ RoutersInv'
  BY <1>1 DEF CycleInv, RoutersInv, entries, TypeOK
<1>6. QED
  BY <1>1, <1>3, <1>4, <1>5, NoMessageMoves

\* A request is answered.
LEMMA RunnerInv ==
    ASSUME IInv, NEW p \in Plugins, RunnerStarts(p) \/ RunnerFailsToStart(p) \/ RunnerStops(p)
    PROVE  IInv'
<1>1. TypeOK /\ PostsInv /\ CycleInv /\ RoutersInv
  BY DEF IInv
<1>2. PICK message \in {"START", "STOP"}, result \in {"STARTED", "STOPPED", "START_FAILED"} :
         /\ Receive(p, message, result)
         /\ message = "STOP" <=> result = "STOPPED"
  BY DEF RunnerStarts, RunnerFailsToStart, RunnerStops
<1>3. /\ request[p] = message /\ request' = [request EXCEPT ![p] = "none"]
      /\ answer' = [answer EXCEPT ![p] = result]
      /\ UNCHANGED <<registration, status, ref, starts, routing, post, posted, fate, steady>>
  BY <1>2 DEF Receive
<1>4. TypeOK'
  BY <1>1, <1>3 DEF TypeOK, routing
<1>5. PostsInv'
  BY <1>1, <1>3, PostsKept
<1>6. CycleInv'
  BY <1>1, <1>2, <1>3 DEF CycleInv, entries, TypeOK
<1>7. RoutersInv'
  BY <1>1, <1>3 DEF RoutersInv, routing
<1>8. QED
  BY <1>3, <1>4, <1>5, <1>6, <1>7, NoMessageMoves DEF routing

\* The answer arrives.
LEMMA CallbackInv ==
    ASSUME IInv, NEW p \in Plugins, Callback(p)
    PROVE  IInv'
<1>1. /\ TypeOK /\ PostsInv /\ CycleInv /\ RoutersInv /\ answer[p] /= "none"
      /\ answer' = [answer EXCEPT ![p] = "none"]
      /\ UNCHANGED <<registration, ref, starts, request, routing, post, posted, fate, steady>>
  BY DEF IInv, Callback
<1>2. PICK s \in {"STARTED", "STOPPED"} : status' = [status EXCEPT ![p] = s]
  BY DEF Callback, StatusAfter
<1>3. status[p] \in {"STARTING", "STOPPING"} /\ p \in entries /\ request[p] = "none"
  BY <1>1 DEF CycleInv, TypeOK
<1>4. TypeOK'
  BY <1>1, <1>2 DEF TypeOK, routing
<1>5. PostsInv'
  BY <1>1, PostsKept
<1>6. CycleInv'
  BY <1>1, <1>2, <1>3 DEF CycleInv, entries, TypeOK
<1>7. RoutersInv'
  BY <1>1 DEF RoutersInv, routing
<1>8. QED
  BY <1>1, <1>4, <1>5, <1>6, <1>7, NoMessageMoves DEF routing

-----------------------------------------------------------------------------
(* A posting reaches the plugins which are started all along *)

\* While a plugin starts or is started, its references are to live routers.
LiveInv ==
    \A p \in Plugins, f \in Flows : status[p] \in {"STARTING", "STARTED"} =>
        /\ f \in InterfacesOf[p] => ref[p][f] /= None
        /\ ref[p][f] /= None => stage[ref[p][f]] = "live"

\* The plugins a posting has found started and that have not been stopped since.
SteadyInv == \A t \in Posters : \A p \in steady[t] : p \in entries /\ status[p] = "STARTED"

\* To such a plugin the event is told by way of live routers only, and it is, or
\* will be, unless the map has changed.
HeardInv(t) ==
    post[t] /= None =>
        \A p \in steady[t] :
            /\ fate[post[t].event][p] /= "dead"
            /\ (post[t].step = "read" /\ post[t].router.plugin = p) => stage[post[t].router] = "live"
            /\ ~post[t].stale /\ p \in AudienceOf[post[t].event]
                   /\ FlowOf[post[t].event] \in InterfacesOf[p] =>
                  \/ p \in post[t].todo
                  \/ (post[t].step = "started" /\ post[t].plugin = p)
                  \/ (post[t].step = "read" /\ post[t].router.plugin = p)
                  \/ fate[post[t].event][p] /= "none"
            /\ \A r \in RoutersOf(p) : \A i \in DOMAIN Pipeline(r) :
                  Pipeline(r)[i].event = post[t].event => stage[r] = "live"

HInv == LiveInv /\ SteadyInv /\ \A t \in Posters : HeardInv(t)

\* What is left to prove for a thread that stays where it is.
LEMMA HeardKept ==
    ASSUME TypeOK, NEW t \in Posters, HeardInv(t), steady'[t] \subseteq steady[t],
           post'[t] /= None =>
               /\ post[t] /= None /\ post'[t].event = post[t].event
               /\ post'[t].todo = post[t].todo /\ post'[t].step = post[t].step
               /\ post'[t].plugin = post[t].plugin /\ post'[t].router = post[t].router
               /\ post[t].stale => post'[t].stale
               /\ \A p \in steady'[t] :
                     /\ fate'[post[t].event][p] = "dead" => fate[post[t].event][p] = "dead"
                     /\ fate'[post[t].event][p] = "none" => fate[post[t].event][p] = "none"
                     /\ \A r \in RoutersOf(p) :
                           /\ stage[r] = "live" => stage'[r] = "live"
                           /\ \A i \in DOMAIN Pipeline(r)' :
                                 Pipeline(r)'[i].event = post[t].event =>
                                     \E j \in DOMAIN Pipeline(r) :
                                         Pipeline(r)[j].event = post[t].event,
           PostInv(t)
    PROVE  HeardInv(t)'
<1> SUFFICES ASSUME post'[t] /= None, NEW p \in steady'[t]
             PROVE  /\ fate'[post'[t].event][p] /= "dead"
                    /\ (post'[t].step = "read" /\ post'[t].router.plugin = p)
                           => stage'[post'[t].router] = "live"
                    /\ ~post'[t].stale /\ p \in AudienceOf[post'[t].event]
                           /\ FlowOf[post'[t].event] \in InterfacesOf[p] =>
                          \/ p \in post'[t].todo
                          \/ (post'[t].step = "started" /\ post'[t].plugin = p)
                          \/ (post'[t].step = "read" /\ post'[t].router.plugin = p)
                          \/ fate'[post'[t].event][p] /= "none"
                    /\ \A r \in RoutersOf(p) : \A i \in DOMAIN Pipeline(r)' :
                          Pipeline(r)'[i].event = post'[t].event => stage'[r] = "live"
  BY DEF HeardInv, RoutersOf
<1>1. p \in steady[t] /\ post[t] /= None
  OBVIOUS
<1>2. fate'[post'[t].event][p] /= "dead"
  BY <1>1 DEF HeardInv
<1>3. ASSUME post'[t].step = "read", post'[t].router.plugin = p
      PROVE  stage'[post'[t].router] = "live"
  <2>1. post[t].router \in RoutersOf(p)
    BY <1>1, <1>3 DEF PostInv, RoutersOf
  <2>2. stage[post[t].router] = "live"
    BY <1>1, <1>3 DEF HeardInv
  <2>3. QED
    BY <2>1, <2>2
<1>4. ~post'[t].stale /\ p \in AudienceOf[post'[t].event]
          /\ FlowOf[post'[t].event] \in InterfacesOf[p] =>
         \/ p \in post'[t].todo
         \/ (post'[t].step = "started" /\ post'[t].plugin = p)
         \/ (post'[t].step = "read" /\ post'[t].router.plugin = p)
         \/ fate'[post'[t].event][p] /= "none"
  BY <1>1 DEF HeardInv
<1>5. ASSUME NEW r \in RoutersOf(p), NEW i \in DOMAIN Pipeline(r)',
             Pipeline(r)'[i].event = post'[t].event
      PROVE  stage'[r] = "live"
  BY <1>1, <1>5 DEF HeardInv
<1>6. QED
  BY <1>2, <1>3, <1>4, <1>5

\* The life cycle of the plugins goes on.
LEMMA LifeCycleHeard ==
    ASSUME IInv, HInv, NEW p \in Plugins, LifeCycle(p)
    PROVE  HInv'
<1>1. /\ TypeOK /\ CycleInv /\ RoutersInv /\ PostsInv
      /\ UNCHANGED <<box, busy, fate, posted>>
      /\ \A r \in Routers : Pipeline(r)' = Pipeline(r)
  BY DEF IInv, LifeCycle, Register, Unregister, Start, Stop, RunnerStarts, RunnerFailsToStart,
         RunnerStops, Receive, Callback, routing, Pipeline
<1>2. \A t \in Posters : steady'[t] \subseteq steady[t]
  BY DEF LifeCycle, Register, Unregister, Start, Stop, RunnerStarts, RunnerFailsToStart,
         RunnerStops, Receive, Callback
<1>3. SteadyInv'
  <2>1. \A t \in Posters : \A q \in steady'[t] : q /= p => q \in entries' /\ status'[q] = "STARTED"
    BY <1>1, <1>2 DEF HInv, SteadyInv, TypeOK, entries, LifeCycle, Register, Unregister, Start,
           Stop, RunnerStarts, RunnerFailsToStart, RunnerStops, Receive, Callback
  <2>2. ASSUME NEW t \in Posters, p \in steady'[t]
        PROVE  p \in entries' /\ status'[p] = "STARTED"
    <3>1. p \in entries /\ status[p] = "STARTED" /\ registration[p] = "registered"
      BY <1>2, <2>2 DEF HInv, SteadyInv, entries
    <3>2. ~Register(p) /\ ~Unregister(p) /\ ~Start(p)
      BY <3>1 DEF Register, Unregister, Start
    <3>3. ~Stop(p)
      BY <2>2 DEF Stop
    <3>4. ~Callback(p)
      BY <1>1, <3>1 DEF Callback, CycleInv, TypeOK
    <3>5. UNCHANGED <<registration, status>>
      BY <3>2, <3>3, <3>4 DEF LifeCycle, RunnerStarts, RunnerFailsToStart, RunnerStops, Receive
    <3>6. QED
      BY <3>1, <3>5 DEF entries
  <2>3. QED
    BY <2>1, <2>2 DEF SteadyInv
<1>4. LiveInv' /\ \A t \in Posters : \A q \in steady'[t] : \A r \in RoutersOf(q) :
                      stage[r] = "live" => stage'[r] = "live"
  <2>1. CASE Start(p)
    <3>1. /\ starts'[p] \in 1..MaxStarts /\ starts' = [starts EXCEPT ![p] = @ + 1]
          /\ status' = [status EXCEPT ![p] = "STARTING"]
      BY <1>1, <2>1, EventsAssumption DEF Start, TypeOK
    <3>2. PICK n \in 1..MaxStarts : n = starts'[p]
      BY <3>1
    <3>3. \A f \in Flows : /\ Router(p, f, n) \in Routers /\ Router(p, f, n).plugin = p
                           /\ Router(p, f, n).flow = f /\ Router(p, f, n).start = n
                           /\ Router(p, f, n) /= None
      BY EventsAssumption DEF Router, Routers
    <3>4. ref' = [ref EXCEPT ![p] = [f \in Flows |->
                     IF f \in InterfacesOf[p] THEN Router(p, f, n) ELSE None]]
      BY <2>1, <3>2 DEF Start
    <3>5. \A r \in Routers : stage'[r] = IF r.plugin = p /\ r.start = n /\ r.flow \in InterfacesOf[p]
                                         THEN "live" ELSE stage[r]
      BY <2>1, <3>2 DEF Start
    <3>6. \A r \in Routers : stage[r] = "live" => stage'[r] = "live"
      BY <3>5
    <3>7. ASSUME NEW f \in Flows
          PROVE  /\ f \in InterfacesOf[p] => ref'[p][f] /= None
                 /\ ref'[p][f] /= None => stage'[ref'[p][f]] = "live"
      <4>1. ref'[p][f] = IF f \in InterfacesOf[p] THEN Router(p, f, n) ELSE None
        BY <1>1, <3>4 DEF TypeOK
      <4>2. QED
        BY <3>3, <3>5, <4>1
    <3>8. ASSUME NEW q \in Plugins, q /= p, NEW f \in Flows, status'[q] \in {"STARTING", "STARTED"}
          PROVE  /\ f \in InterfacesOf[q] => ref'[q][f] /= None
                 /\ ref'[q][f] /= None => stage'[ref'[q][f]] = "live"
      <4>1. ref'[q] = ref[q] /\ status'[q] = status[q] /\ ref[q][f] \in Routers \cup {None}
        BY <1>1, <3>1, <3>4, <3>8 DEF TypeOK
      <4>2. QED
        BY <3>6, <3>8, <4>1 DEF HInv, LiveInv
    <3>9. QED
      BY <3>6, <3>7, <3>8 DEF LiveInv, RoutersOf
  <2>2. CASE Stop(p)
    <3>1. /\ status' = [status EXCEPT ![p] = "STOPPING"] /\ UNCHANGED ref
          /\ \A t \in Posters : steady'[t] = steady[t] \ {p}
      BY <2>2 DEF Stop
    <3>2. \A r \in Routers : r.plugin /= p => stage'[r] = stage[r]
      <4>1. \A r \in Routers : stage'[r] = IF (\E f \in Flows : ref[p][f] = r) /\ stage[r] = "live"
                                           THEN "stopping" ELSE stage[r]
        BY <2>2 DEF Stop
      <4>2. \A r \in Routers, f \in Flows : ref[p][f] = r => r.plugin = p
        BY <1>1, EventsAssumption DEF RoutersInv
      <4>3. QED
        BY <4>1, <4>2
    <3>3. ASSUME NEW q \in Plugins, q /= p, NEW f \in Flows, status'[q] \in {"STARTING", "STARTED"}
          PROVE  /\ f \in InterfacesOf[q] => ref'[q][f] /= None
                 /\ ref'[q][f] /= None => stage'[ref'[q][f]] = "live"
      <4>1. /\ ref'[q] = ref[q] /\ status'[q] = status[q] /\ ref[q][f] \in Routers \cup {None}
            /\ ref[q][f] /= None => ref[q][f].plugin = q
        BY <1>1, <3>1, <3>3 DEF TypeOK, RoutersInv
      <4>2. QED
        BY <3>2, <3>3, <4>1 DEF HInv, LiveInv
    <3>4. status'[p] = "STOPPING"
      BY <1>1, <3>1 DEF TypeOK
    <3>5. QED
      BY <3>1, <3>2, <3>3, <3>4 DEF LiveInv, RoutersOf
  <2>3. CASE ~Start(p) /\ ~Stop(p)
    <3>1. UNCHANGED <<ref, stage>>
      BY <2>3 DEF LifeCycle, Register, Unregister, RunnerStarts, RunnerFailsToStart,
             RunnerStops, Receive, Callback, routing
    <3>2. \A q \in Plugins : status'[q] \in {"STARTING", "STARTED"}
                                 => status[q] \in {"STARTING", "STARTED"}
      <4>1. CASE Callback(p)
        BY <1>1, <4>1 DEF Callback, StatusAfter, CycleInv, TypeOK
      <4>2. CASE ~Callback(p)
        BY <2>3, <4>2 DEF LifeCycle, Register, Unregister, RunnerStarts, RunnerFailsToStart,
               RunnerStops, Receive
      <4>3. QED
        BY <4>1, <4>2
    <3>3. QED
      BY <3>1, <3>2 DEF HInv, LiveInv
  <2>4. QED
    BY <2>1, <2>2, <2>3
<1>5. ASSUME NEW t \in Posters
      PROVE  HeardInv(t)'
  <2>1. post'[t] /= None =>
           /\ post[t] /= None /\ post'[t].event = post[t].event
           /\ post'[t].todo = post[t].todo /\ post'[t].step = post[t].step
           /\ post'[t].plugin = post[t].plugin /\ post'[t].router = post[t].router
           /\ post[t].stale => post'[t].stale
    <3>1. CASE post'[t] = post[t]
      BY <3>1
    <3>2. CASE post[t] /= None /\ post'[t] = [post[t] EXCEPT !.stale = TRUE]
      <4>1. post[t] \in Posts
        BY <1>1, <3>2 DEF TypeOK
      <4>2. QED
        BY <3>2, <4>1 DEF Posts
    <3>3. post'[t] = post[t] \/ (post[t] /= None /\ post'[t] = [post[t] EXCEPT !.stale = TRUE])
      <4>1. UNCHANGED post \/ RegistryChanges
        BY DEF LifeCycle, Register, Unregister, Start, Stop, RunnerStarts, RunnerFailsToStart,
               RunnerStops, Receive, Callback
      <4>2. QED
        BY <4>1 DEF RegistryChanges
    <3>4. QED
      BY <3>1, <3>2, <3>3
  <2>2. HeardInv(t) /\ PostInv(t)
    BY <1>1 DEF HInv, PostsInv
  <2>3. \A q \in Plugins : RoutersOf(q) \subseteq Routers
    BY DEF RoutersOf
  <2>4. steady'[t] \subseteq Plugins
    BY <1>1, <1>2 DEF TypeOK
  <2>5. \A q \in steady'[t] : \A r \in RoutersOf(q) : Pipeline(r)' = Pipeline(r)
    BY <1>1, <2>3, <2>4
  <2>6. \A q \in steady'[t] : \A r \in RoutersOf(q) : stage[r] = "live" => stage'[r] = "live"
    BY <1>4
  <2>7. QED
    BY <1>1, <1>2, <2>1, <2>2, <2>5, <2>6, HeardKept
<1>6. QED
  BY <1>3, <1>4, <1>5 DEF HInv

\* A posting begins: the event is nowhere yet.
LEMMA PostMessageHeard ==
    ASSUME IInv, HInv, NEW t \in Posters, NEW e \in Events, PostMessage(t, e)
    PROVE  HInv'
<1>1. /\ TypeOK /\ PostsInv /\ EveryEventAccountedFor /\ e \notin posted
      /\ UNCHANGED <<registration, status, ref, stage, box, busy, fate>>
      /\ \A r \in Routers : Pipeline(r)' = Pipeline(r)
  BY DEF IInv, PostMessage, cycle, routing, Pipeline
<1>2. /\ steady'[t] = {p \in entries : status[p] = "STARTED"}
      /\ \A u \in Posters : u /= t => steady'[u] = steady[u] /\ post'[u] = post[u]
  BY <1>1 DEF PostMessage, TypeOK
<1>3. LiveInv' /\ SteadyInv'
  BY <1>1, <1>2 DEF HInv, LiveInv, SteadyInv, entries
<1>4. ASSUME NEW u \in Posters, u /= t
      PROVE  HeardInv(u)'
  <2>1. HeardInv(u) /\ PostInv(u) /\ steady'[u] = steady[u] /\ post'[u] = post[u]
    BY <1>1, <1>2, <1>4 DEF HInv, PostsInv
  <2>2. \A q \in steady'[u] : \A r \in RoutersOf(q) : Pipeline(r)' = Pipeline(r)
    BY <1>1 DEF RoutersOf
  <2>3. QED
    BY <1>1, <2>1, <2>2, HeardKept
<1>5. HeardInv(t)'
  <2>1. /\ post'[t].event = e /\ post'[t].step = "walk"
        /\ post'[t].todo = IF KindOf[e] = "custom" THEN entries \cap AudienceOf[e] ELSE entries
    BY <1>1 DEF PostMessage, TypeOK
  <2>2. \A p \in Plugins : fate[e][p] = "none"
    BY <1>1 DEF PostsInv
  <2>3. \A p \in steady'[t] : p \in entries /\ p \in Plugins
    BY <1>2 DEF entries
  <2>4. ASSUME NEW p \in steady'[t], NEW r \in RoutersOf(p), NEW i \in DOMAIN Pipeline(r)',
               Pipeline(r)'[i].event = e
        PROVE  FALSE
    <3>1. p \in Plugins /\ r \in Routers /\ fate[e][p] /= "told"
      BY <2>2, <2>3 DEF RoutersOf
    <3>2. i \in DOMAIN Pipeline(r) /\ Pipeline(r)[i].event = e
      BY <1>1, <2>4, <3>1
    <3>3. QED
      BY <1>1, <3>1, <3>2 DEF EveryEventAccountedFor
  <2>5. QED
    BY <1>1, <2>1, <2>2, <2>3, <2>4 DEF HeardInv, RoutersOf
<1>6. QED
  BY <1>3, <1>4, <1>5 DEF HInv

\* What is left to prove of a thread that goes on without telling anybody.
LEMMA WalkHeard ==
    ASSUME IInv, HInv, NEW t \in Posters, NEW w \in Posts, w = post[t], post[t] /= None,
           NEW v \in Posts \cup {None}, post' = [post EXCEPT ![t] = v],
           UNCHANGED <<cycle, routing, fate>>,
           \A u \in Posters : steady'[u] \subseteq steady[u],
           v /= None =>
               /\ v.event = w.event
               /\ \A p \in steady[t] :
                     /\ (v.step = "read" /\ v.router.plugin = p) => stage[v.router] = "live"
                     /\ ~v.stale /\ p \in AudienceOf[w.event] /\ FlowOf[w.event] \in InterfacesOf[p]
                           => /\ ~w.stale
                              /\ \/ p \in w.todo
                                 \/ (w.step = "started" /\ w.plugin = p)
                                 \/ (w.step = "read" /\ w.router.plugin = p)
                                 => \/ p \in v.todo
                                    \/ (v.step = "started" /\ v.plugin = p)
                                    \/ (v.step = "read" /\ v.router.plugin = p)
    PROVE  HInv'
<1>1. TypeOK /\ PostsInv /\ HeardInv(t) /\ w /= None
  BY DEF IInv, HInv
<1>2. /\ UNCHANGED <<registration, status, ref, stage, fate>>
      /\ \A r \in Routers : Pipeline(r)' = Pipeline(r)
  BY DEF cycle, routing, Pipeline
<1>3. post'[t] = v /\ \A u \in Posters : u /= t => post'[u] = post[u]
  BY <1>1 DEF TypeOK
<1>4. LiveInv' /\ SteadyInv'
  BY <1>2 DEF HInv, LiveInv, SteadyInv, entries
<1>5. ASSUME NEW u \in Posters, u /= t
      PROVE  HeardInv(u)'
  <2>1. HeardInv(u) /\ PostInv(u) /\ steady'[u] \subseteq steady[u] /\ post'[u] = post[u]
    BY <1>1, <1>3, <1>5 DEF HInv, PostsInv
  <2>2. \A q \in steady'[u] : \A r \in RoutersOf(q) : Pipeline(r)' = Pipeline(r)
    BY <1>2 DEF RoutersOf
  <2>3. QED
    BY <1>1, <1>2, <2>1, <2>2, HeardKept
<1>6. HeardInv(t)'
  <2>1. CASE v = None
    BY <1>3, <2>1 DEF HeardInv
  <2>2. CASE v /= None
    <3> SUFFICES ASSUME NEW p \in steady'[t]
                 PROVE  /\ fate[w.event][p] /= "dead"
                        /\ (v.step = "read" /\ v.router.plugin = p) => stage[v.router] = "live"
                        /\ ~v.stale /\ p \in AudienceOf[w.event]
                               /\ FlowOf[w.event] \in InterfacesOf[p] =>
                              \/ p \in v.todo
                              \/ (v.step = "started" /\ v.plugin = p)
                              \/ (v.step = "read" /\ v.router.plugin = p)
                              \/ fate[w.event][p] /= "none"
                        /\ \A r \in RoutersOf(p) : \A i \in DOMAIN Pipeline(r)' :
                              Pipeline(r)'[i].event = w.event => stage[r] = "live"
      BY <1>2, <1>3, <2>2 DEF HeardInv, RoutersOf
    <3>1. p \in steady[t]
      OBVIOUS
    <3>2. \A r \in RoutersOf(p) : Pipeline(r)' = Pipeline(r)
      BY <1>2 DEF RoutersOf
    <3>3. /\ fate[w.event][p] /= "dead"
          /\ ~w.stale /\ p \in AudienceOf[w.event] /\ FlowOf[w.event] \in InterfacesOf[p] =>
                \/ p \in w.todo
                \/ (w.step = "started" /\ w.plugin = p)
                \/ (w.step = "read" /\ w.router.plugin = p)
                \/ fate[w.event][p] /= "none"
          /\ \A r \in RoutersOf(p) : \A i \in DOMAIN Pipeline(r) :
                Pipeline(r)[i].event = w.event => stage[r] = "live"
      BY <1>1, <3>1 DEF HeardInv
    <3>4. QED
      BY <2>2, <3>1, <3>2, <3>3
  <2>3. QED
    BY <2>1, <2>2
<1>7. QED
  BY <1>4, <1>5, <1>6 DEF HInv

\* A posting comes to the end of its walk, or misses entries.
LEMMA WalkEndsHeard ==
    ASSUME IInv, HInv, NEW t \in Posters, IteratorFails(t) \/ PostDone(t) \/ IteratorMisses(t)
    PROVE  HInv'
<1>1. TypeOK /\ steady \in [Posters -> SUBSET Plugins]
  BY DEF IInv, TypeOK
<1>2. PICK w \in Posts : w = post[t] /\ post[t] /= None
  BY <1>1 DEF TypeOK, IteratorFails, PostDone, IteratorMisses, Posting
<1>3. CASE IteratorFails(t) \/ PostDone(t)
  <2>1. /\ post' = [post EXCEPT ![t] = None] /\ UNCHANGED <<cycle, routing, fate>>
        /\ steady' = [steady EXCEPT ![t] = {}]
    BY <1>3 DEF IteratorFails, PostDone
  <2>2. \A u \in Posters : steady'[u] \subseteq steady[u]
    BY <1>1, <2>1
  <2>3. QED
    BY <1>2, <2>1, <2>2, WalkHeard
<1>4. CASE IteratorMisses(t)
  <2>1. w.step = "walk" /\ w.stale /\ UNCHANGED <<cycle, routing, fate, steady>>
    BY <1>2, <1>4 DEF IteratorMisses, Posting
  <2>2. PICK seen \in SUBSET w.todo : post' = [post EXCEPT ![t].todo = seen]
    BY <1>2, <1>4 DEF IteratorMisses
  <2> DEFINE v == [w EXCEPT !.todo = seen]
  <2>3. v \in Posts /\ v.event = w.event /\ v.stale = w.stale /\ v.step = w.step
    BY DEF Posts
  <2>4. post' = [post EXCEPT ![t] = v]
    BY <1>2, <2>2
  <2> HIDE DEF v
  <2>5. QED
    BY <1>2, <2>1, <2>3, <2>4, WalkHeard
<1>5. QED
  BY <1>3, <1>4

\* A posting does not pass over a plugin that is started all along.
LEMMA CheckStatusHeard ==
    ASSUME IInv, HInv, NEW t \in Posters, NEW q \in Plugins, CheckStatus(t, q)
    PROVE  HInv'
<1>1. /\ TypeOK /\ post[t].step = "walk" /\ post[t] /= None
      /\ UNCHANGED <<cycle, routing, fate, steady>>
  BY DEF IInv, CheckStatus, Posting
<1>2. PICK w \in Posts : w = post[t]
  BY <1>1 DEF TypeOK
<1>3. PICK accepts \in BOOLEAN :
         accepts <=> (status[q] = "STARTED" /\ q \in AudienceOf[post[t].event])
  OBVIOUS
<1>4. PICK pl \in Plugins \cup {None}, st \in {"walk", "started"} :
         /\ pl = IF accepts THEN q ELSE None
         /\ st = IF accepts THEN "started" ELSE "walk"
  OBVIOUS
<1>5. PICK todo \in SUBSET Plugins : todo = post[t].todo \ {q}
  BY <1>1, PostType
<1> DEFINE v == [post[t] EXCEPT !.todo = todo, !.plugin = pl, !.step = st]
<1>6. /\ v \in Posts /\ v.event = w.event /\ v.stale = w.stale /\ v.todo = todo
      /\ v.plugin = pl /\ v.step = st
  BY <1>2 DEF Posts
<1>7. post' = [post EXCEPT ![t] = v]
  BY <1>3, <1>4, <1>5 DEF CheckStatus
<1> HIDE DEF v
<1>8. \A p \in steady[t] : status[p] = "STARTED"
  BY DEF HInv, SteadyInv
<1>9. \A p \in steady[t] : (p \in AudienceOf[w.event] /\ p \in w.todo) =>
          p \in v.todo \/ (v.step = "started" /\ v.plugin = p)
  <2> TAKE p \in steady[t]
  <2> HAVE p \in AudienceOf[w.event] /\ p \in w.todo
  <2>1. CASE p = q
    BY <1>2, <1>3, <1>4, <1>6, <1>8, <2>1
  <2>2. CASE p /= q
    BY <1>2, <1>5, <1>6, <2>2
  <2>3. QED
    BY <2>1, <2>2
<1>10. QED
  BY <1>1, <1>2, <1>4, <1>6, <1>7, <1>9, WalkHeard

\* The router of a plugin that is started all along is a live one.
LEMMA ReadReferenceHeard ==
    ASSUME IInv, HInv, NEW t \in Posters, ReadReference(t)
    PROVE  HInv'
<1>1. /\ TypeOK /\ RoutersInv /\ PostInv(t) /\ post[t].step = "started" /\ post[t] /= None
      /\ UNCHANGED <<cycle, routing, fate, steady>>
  BY DEF IInv, PostsInv, ReadReference, Posting
<1>2. PICK w \in Posts : w = post[t]
  BY <1>1 DEF TypeOK
<1>3. PICK p \in Plugins, f \in Flows : p = post[t].plugin /\ f = FlowOf[post[t].event]
  BY <1>1, PostType, EventsAssumption DEF PostInv
<1>4. PICK r \in Routers \cup {None} : r = ref[p][f]
  BY <1>1 DEF TypeOK
<1>5. PICK st \in {"walk", "read"} : st = IF r = None THEN "walk" ELSE "read"
  OBVIOUS
<1> DEFINE v == [post[t] EXCEPT !.router = r, !.plugin = None, !.step = st]
<1>6. /\ v \in Posts /\ v.event = w.event /\ v.stale = w.stale /\ v.todo = w.todo
      /\ v.router = r /\ v.step = st
  BY <1>2 DEF Posts
<1>7. post' = [post EXCEPT ![t] = v]
  BY <1>3, <1>4, <1>5 DEF ReadReference
<1> HIDE DEF v
<1>8. r /= None => r.plugin = p
  BY <1>1, <1>4 DEF RoutersInv
<1>9. p \in steady[t] => /\ f \in InterfacesOf[p] => r /= None
                         /\ r /= None => stage[r] = "live"
  BY <1>4 DEF HInv, SteadyInv, LiveInv
<1>10. \A x \in steady[t] : (v.step = "read" /\ v.router.plugin = x) => stage[v.router] = "live"
  BY <1>5, <1>6, <1>8, <1>9
<1>11. \A x \in steady[t] : (FlowOf[w.event] \in InterfacesOf[x] /\ w.plugin = x)
           => v.step = "read" /\ v.router.plugin = x
  BY <1>2, <1>3, <1>5, <1>6, <1>8, <1>9
<1>12. QED
  BY <1>1, <1>2, <1>6, <1>7, <1>10, <1>11, WalkHeard

\* The event is told to a plugin, by way of a live router if it is a steady one.
LEMMA TellHeard ==
    ASSUME IInv, HInv, NEW t \in Posters, Tell(t)
    PROVE  HInv'
<1>1. /\ TypeOK /\ PostsInv /\ PostInv(t) /\ HeardInv(t) /\ post[t] /= None
      /\ post[t].step = "read"
      /\ UNCHANGED <<registration, status, ref, stage, busy, steady>>
  BY DEF IInv, HInv, PostsInv, Tell, cycle, Posting
<1>2. PICK r \in Routers, e \in Events : r = post[t].router /\ e = post[t].event
  BY <1>1, PostType DEF PostInv
<1>3. r.plugin \in Plugins
  BY DEF Routers
<1>4. PICK outcome \in {"told", "dead"} :
         /\ outcome = IF stage[r] = "dead" THEN "dead" ELSE "told"
         /\ Settle(e, r.plugin, outcome)
  BY <1>2 DEF Tell
<1>5. \A x \in Events, q \in Plugins :
         fate'[x][q] = IF x = e /\ q = r.plugin THEN outcome ELSE fate[x][q]
  BY <1>1, <1>3, <1>4, SettleEffect DEF Fates
<1>6. LiveInv' /\ SteadyInv'
  BY <1>1 DEF HInv, LiveInv, SteadyInv, entries
<1>7. /\ \A s \in Routers \ {r} : Pipeline(s)' = Pipeline(s)
      /\ \A i \in DOMAIN Pipeline(r)' :
            \/ Pipeline(r)'[i].event = e
            \/ \E j \in DOMAIN Pipeline(r) : Pipeline(r)'[i].event = Pipeline(r)[j].event
  <2>1. PICK m \in Messages : m = [event |-> e, kind |-> KindOf[e]] /\ m.event = e
    <3>1. PICK k \in Kinds : k = KindOf[e]
      BY EventsAssumption
    <3>2. [event |-> e, kind |-> k] \in Messages /\ [event |-> e, kind |-> k].event = e
      BY DEF Messages
    <3>3. QED
      BY <3>1, <3>2
  <2>2. CASE UNCHANGED box
    BY <1>1, <2>2 DEF Pipeline
  <2>3. CASE box' = [box EXCEPT ![r] = Append(@, m)]
    <3>1. PICK b \in Seq(Messages), c \in Seq(Messages) : b = busy[r] /\ c = box[r]
      BY <1>1, PipelineType
    <3>2. Pipeline(r) = b \o c /\ Pipeline(r)' = b \o Append(c, m)
      BY <1>1, <2>3, <3>1 DEF Pipeline, TypeOK
    <3>3. Pipeline(r)' = Append(Pipeline(r), m) /\ Pipeline(r) \in Seq(Messages)
      BY <1>1, <3>2, AppendBehind, PipelineType
    <3>4. \A i \in DOMAIN Pipeline(r)' :
             \/ Pipeline(r)'[i] = m
             \/ i \in DOMAIN Pipeline(r) /\ Pipeline(r)'[i] = Pipeline(r)[i]
      <4>1. PICK s \in Seq(Messages) : s = Pipeline(r)
        BY <3>3
      <4>2. \A i \in DOMAIN Append(s, m) :
               Append(s, m)[i] = m \/ (i \in DOMAIN s /\ Append(s, m)[i] = s[i])
        BY AppendProperties, LenProperties
      <4>3. QED
        BY <3>3, <4>1, <4>2
    <3>5. \A s \in Routers \ {r} : Pipeline(s)' = Pipeline(s)
      BY <1>1, <2>3 DEF Pipeline, TypeOK
    <3>6. QED
      BY <2>1, <3>4, <3>5
  <2>4. QED
    BY <1>2, <2>1, <2>2, <2>3 DEF Tell
<1>8. ASSUME NEW u \in Posters, u /= t
      PROVE  HeardInv(u)'
  <2>1. HeardInv(u) /\ PostInv(u) /\ steady'[u] = steady[u] /\ post'[u] = post[u]
        /\ steady[u] \subseteq Plugins
    BY <1>1, <1>8 DEF HInv, PostsInv, Tell, TypeOK
  <2>2. CASE post[u] = None
    BY <2>1, <2>2 DEF HeardInv
  <2>3. CASE post[u] /= None
    <3>1. post[u].event \in Events /\ post[u].event /= e
      BY <1>1, <1>2, <1>8, <2>3, PostType DEF PostsInv
    <3>2. \A q \in Plugins : fate'[post[u].event][q] = fate[post[u].event][q]
      BY <1>5, <3>1
    <3>3. \A s \in Routers : \A i \in DOMAIN Pipeline(s)' :
             Pipeline(s)'[i].event = post[u].event =>
                 \E j \in DOMAIN Pipeline(s) : Pipeline(s)[j].event = post[u].event
      BY <1>7, <3>1
    <3>4. \A q \in Plugins : RoutersOf(q) \subseteq Routers
      BY DEF RoutersOf
    <3>5. \A q \in steady'[u] :
             /\ fate'[post[u].event][q] = fate[post[u].event][q]
             /\ \A s \in RoutersOf(q) :
                   /\ stage'[s] = stage[s]
                   /\ \A i \in DOMAIN Pipeline(s)' :
                         Pipeline(s)'[i].event = post[u].event =>
                             \E j \in DOMAIN Pipeline(s) : Pipeline(s)[j].event = post[u].event
      BY <1>1, <2>1, <3>2, <3>3, <3>4
    <3>6. QED
      BY <1>1, <2>1, <2>3, <3>5, HeardKept
  <2>4. QED
    BY <2>2, <2>3
<1>9. HeardInv(t)'
  <2> DEFINE w == [post[t] EXCEPT !.step = "walk", !.router = None]
  <2>1. post[t] \in Posts
    BY <1>1 DEF TypeOK
  <2>2. /\ w.event = e /\ w.todo = post[t].todo /\ w.stale = post[t].stale /\ w.step = "walk"
        /\ w.plugin = post[t].plugin
    BY <1>2, <2>1 DEF Posts
  <2>3. post'[t] = w
    BY <1>1 DEF Tell, TypeOK
  <2> HIDE DEF w
  <2> SUFFICES ASSUME NEW p \in steady[t]
               PROVE  /\ fate'[e][p] /= "dead"
                      /\ ~w.stale /\ p \in AudienceOf[e] /\ FlowOf[e] \in InterfacesOf[p] =>
                            p \in w.todo \/ fate'[e][p] /= "none"
                      /\ \A s \in RoutersOf(p) : \A i \in DOMAIN Pipeline(s)' :
                            Pipeline(s)'[i].event = e => stage[s] = "live"
    BY <1>1, <2>2, <2>3 DEF HeardInv, RoutersOf
  <2>4. p \in Plugins
    BY <1>1 DEF TypeOK
  <2>5. /\ fate[e][p] /= "dead" /\ (r.plugin = p => stage[r] = "live")
        /\ ~post[t].stale /\ p \in AudienceOf[e] /\ FlowOf[e] \in InterfacesOf[p] =>
              p \in post[t].todo \/ r.plugin = p \/ fate[e][p] /= "none"
        /\ \A s \in RoutersOf(p) : \A i \in DOMAIN Pipeline(s) :
              Pipeline(s)[i].event = e => stage[s] = "live"
    BY <1>1, <1>2 DEF HeardInv
  <2>6. fate'[e][p] = IF p = r.plugin THEN outcome ELSE fate[e][p]
    BY <1>5, <2>4
  <2>7. p = r.plugin => outcome = "told"
    BY <1>4, <2>5
  <2>8. ASSUME NEW s \in RoutersOf(p), NEW i \in DOMAIN Pipeline(s)', Pipeline(s)'[i].event = e
        PROVE  stage[s] = "live"
    <3>1. s \in Routers /\ s.plugin = p
      BY DEF RoutersOf
    <3>2. CASE s = r
      BY <2>5, <3>1, <3>2
    <3>3. CASE s /= r
      BY <1>7, <2>5, <2>8, <3>1, <3>3
    <3>4. QED
      BY <3>2, <3>3
  <2>9. QED
    BY <2>2, <2>5, <2>6, <2>7, <2>8
<1>10. QED
  BY <1>6, <1>8, <1>9 DEF HInv

\* What is left to prove of a step of a router.
LEMMA RouterHeard ==
    ASSUME IInv, HInv, UNCHANGED <<registration, status, ref, post, steady>>,
           NEW r \in Routers,
           \A s \in Routers : s /= r \/ stage[s] = "live" => stage'[s] = stage[s],
           \A s \in Routers : \A i \in DOMAIN Pipeline(s)' :
               \E j \in DOMAIN Pipeline(s) : Pipeline(s)'[i].event = Pipeline(s)[j].event,
           \A e \in Events, p \in Plugins :
               /\ fate'[e][p] = "none" => fate[e][p] = "none"
               /\ fate'[e][p] = "dead" =>
                     \/ fate[e][p] = "dead"
                     \/ /\ p = r.plugin /\ stage[r] /= "live"
                        /\ \E i \in DOMAIN Pipeline(r) : Pipeline(r)[i].event = e
    PROVE  HInv'
<1>1. TypeOK /\ PostsInv
  BY DEF IInv
<1>2. LiveInv'
  <2> SUFFICES ASSUME NEW p \in Plugins, NEW f \in Flows, status[p] \in {"STARTING", "STARTED"}
               PROVE  /\ f \in InterfacesOf[p] => ref[p][f] /= None
                      /\ ref[p][f] /= None => stage'[ref[p][f]] = "live"
    BY DEF LiveInv
  <2>1. ref[p][f] \in Routers \cup {None}
    BY <1>1 DEF TypeOK
  <2>2. QED
    BY <2>1 DEF HInv, LiveInv
<1>3. SteadyInv'
  BY DEF HInv, SteadyInv, entries
<1>4. ASSUME NEW t \in Posters
      PROVE  HeardInv(t)'
  <2>1. HeardInv(t) /\ PostInv(t) /\ steady'[t] = steady[t] /\ post'[t] = post[t]
    BY <1>1 DEF HInv, PostsInv
  <2>2. CASE post[t] = None
    BY <2>1, <2>2 DEF HeardInv
  <2>3. CASE post[t] /= None
    <3>1. PICK e \in Events : e = post[t].event
      BY <1>1, <2>3, PostType
    <3>2. ASSUME NEW p \in steady[t]
          PROVE  /\ fate'[e][p] = "dead" => fate[e][p] = "dead"
                 /\ fate'[e][p] = "none" => fate[e][p] = "none"
                 /\ \A s \in RoutersOf(p) :
                       /\ stage[s] = "live" => stage'[s] = "live"
                       /\ \A i \in DOMAIN Pipeline(s)' :
                             Pipeline(s)'[i].event = e =>
                                 \E j \in DOMAIN Pipeline(s) : Pipeline(s)[j].event = e
      <4>1. p \in Plugins /\ RoutersOf(p) \subseteq Routers
        BY <1>1 DEF TypeOK, RoutersOf
      <4>2. p = r.plugin /\ (\E i \in DOMAIN Pipeline(r) : Pipeline(r)[i].event = e)
                => stage[r] = "live"
        BY <2>1, <2>3, <3>1 DEF HeardInv, RoutersOf
      <4>3. QED
        BY <4>1, <4>2
    <3>3. QED
      BY <1>1, <2>1, <2>3, <3>1, <3>2, HeardKept
  <2>4. QED
    BY <2>2, <2>3
<1>5. QED
  BY <1>2, <1>3, <1>4 DEF HInv

\* A router takes a message, is done with one, or stops.
LEMMA RoutersHeard ==
    ASSUME IInv, HInv, NEW r \in Routers, Handle(r) \/ EndOfHandler(r) \/ RouterStops(r)
    PROVE  HInv'
<1>1. TypeOK /\ EveryEventAccountedFor /\ r.plugin \in Plugins
  BY DEF IInv, Routers
<1>2. UNCHANGED <<registration, status, ref, post, steady>>
  BY DEF Handle, EndOfHandler, HandleSucceeds, HandleFails, HandleCrashes, Finish, RouterStops,
         cycle
<1>3. CASE Handle(r)
  <2>1. UNCHANGED <<stage, fate>> /\ \A s \in Routers : Pipeline(s)' = Pipeline(s)
    BY <1>3, HandleInv DEF Handle
  <2>2. QED
    BY <1>2, <2>1, RouterHeard
<1>4. CASE EndOfHandler(r)
  <2>1. PICK i \in 1..Len(busy[r]) :
           HandleSucceeds(r, i) \/ HandleFails(r, i) \/ HandleCrashes(r, i)
    BY <1>4 DEF EndOfHandler
  <2>2. Finish(r, i) /\ UNCHANGED stage
    BY <2>1 DEF HandleSucceeds, HandleFails, HandleCrashes, Finish
  <2>3. PICK e \in Events : e = busy[r][i].event
    BY <2>2, FinishEffect
  <2>4. \/ /\ \E outcome \in {"handled", "failed"} : Settle(e, r.plugin, outcome)
           /\ UNCHANGED box
        \/ box' = [box EXCEPT ![r] = Append(@, Resync(busy[r][i]))] /\ UNCHANGED fate
    BY <2>1, <2>3 DEF HandleSucceeds, HandleFails, HandleCrashes
  <2>5. \A x \in Events, p \in Plugins :
           /\ fate'[x][p] = "none" => fate[x][p] = "none"
           /\ fate'[x][p] = "dead" => fate[x][p] = "dead"
    <3>1. CASE UNCHANGED fate
      BY <3>1
    <3>2. ASSUME NEW outcome \in {"handled", "failed"}, Settle(e, r.plugin, outcome)
          PROVE  \A x \in Events, p \in Plugins :
                    fate'[x][p] = IF x = e /\ p = r.plugin THEN outcome ELSE fate[x][p]
      BY <1>1, <3>2, SettleEffect DEF Fates
    <3>3. QED
      BY <2>4, <3>1, <3>2
  <2>6. /\ busy'[r] \o box[r] = RemoveAt(Pipeline(r), i)
        /\ i \in DOMAIN Pipeline(r) /\ Pipeline(r)[i] = busy[r][i]
        /\ \A s \in Routers \ {r} : busy'[s] = busy[s]
        /\ busy'[r] \in Seq(Messages)
    BY <2>2, FinishEffect
  <2>7. PICK q \in Seq(Messages) : q = Pipeline(r) /\ i \in 1..Len(q)
    BY <1>1, <2>6, PipelineType
  <2>8. RemoveAt(q, i) \in Seq(Messages)
        /\ \A k \in DOMAIN RemoveAt(q, i) : \E j \in DOMAIN q : RemoveAt(q, i)[k] = q[j]
    <3>1. q \in Seq(Messages) /\ i \in 1..Len(q)
      BY <2>7
    <3>2. \A k \in 1..Len(q) - 1 : \E j \in 1..Len(q) : RemoveAt(q, i)[k] = q[j]
      BY <3>1, RemovedPositions
    <3>3. RemoveAt(q, i) \in Seq(Messages) /\ Len(RemoveAt(q, i)) = Len(q) - 1
      BY <3>1, RemoveFacts
    <3>4. DOMAIN RemoveAt(q, i) = 1..Len(q) - 1 /\ DOMAIN q = 1..Len(q)
      BY <3>1, <3>3, LenProperties
    <3>5. QED
      BY <3>2, <3>3, <3>4
  <2>9. \A s \in Routers : \A k \in DOMAIN Pipeline(s)' :
           \E j \in DOMAIN Pipeline(s) : Pipeline(s)'[k].event = Pipeline(s)[j].event
    <3>1. CASE UNCHANGED box
      <4>1. Pipeline(r)' = RemoveAt(q, i) /\ \A s \in Routers \ {r} : Pipeline(s)' = Pipeline(s)
        BY <2>6, <2>7, <3>1 DEF Pipeline
      <4>2. QED
        BY <2>7, <2>8, <4>1
    <3>2. CASE box' = [box EXCEPT ![r] = Append(@, Resync(busy[r][i]))]
      <4>1. PICK m \in Messages : m = Resync(busy[r][i]) /\ m.event = e
        <5>1. /\ [event |-> e, kind |-> "resync"] \in Messages
              /\ [event |-> e, kind |-> "resync"].event = e
          BY DEF Messages, Kinds
        <5>2. QED
          BY <2>3, <5>1 DEF Resync
      <4>2. PICK b \in Seq(Messages), c \in Seq(Messages) : b = busy'[r] /\ c = box[r]
        BY <1>1, <2>6 DEF TypeOK
      <4>3. /\ box'[r] = Append(c, m) /\ \A s \in Routers \ {r} : box'[s] = box[s]
        BY <1>1, <3>2, <4>1, <4>2 DEF TypeOK
      <4>4. b \o Append(c, m) = Append(b \o c, m)
        BY AppendBehind
      <4>5. PICK d \in Seq(Messages) : d = RemoveAt(q, i)
        BY <2>8
      <4>6. Pipeline(r)' = Append(d, m) /\ \A s \in Routers \ {r} : Pipeline(s)' = Pipeline(s)
        BY <2>6, <2>7, <4>2, <4>3, <4>4, <4>5 DEF Pipeline
      <4>7. \A k \in DOMAIN Pipeline(r)' :
               \E j \in DOMAIN Pipeline(r) : Pipeline(r)'[k].event = Pipeline(r)[j].event
        <5>1. \A k \in DOMAIN Append(d, m) :
                 Append(d, m)[k] = m \/ (k \in DOMAIN d /\ Append(d, m)[k] = d[k])
          BY AppendProperties, LenProperties
        <5>2. i \in DOMAIN q /\ q[i].event = m.event
          BY <2>3, <2>6, <2>7, <4>1
        <5>3. \A k \in DOMAIN d : \E j \in DOMAIN q : d[k] = q[j]
          BY <2>8, <4>5
        <5>4. \A k \in DOMAIN Append(d, m) :
                 \E j \in DOMAIN q : Append(d, m)[k].event = q[j].event
          BY <5>1, <5>2, <5>3
        <5>5. QED
          BY <2>7, <4>6, <5>4
      <4>8. QED
        BY <4>6, <4>7
    <3>3. QED
      BY <2>4, <3>1, <3>2
  <2>10. QED
    BY <1>2, <2>2, <2>5, <2>9, RouterHeard
<1>5. CASE RouterStops(r)
  <2>1. /\ stage[r] = "stopping" /\ stage' = [stage EXCEPT ![r] = "dead"]
        /\ busy[r] = <<>> /\ UNCHANGED busy /\ box' = [box EXCEPT ![r] = <<>>]
    BY <1>5 DEF RouterStops
  <2>2. \A s \in Routers : s /= r \/ stage[s] = "live" => stage'[s] = stage[s]
    BY <1>1, <2>1 DEF TypeOK
  <2>3. Pipeline(r) = box[r] /\ Pipeline(r)' = <<>>
    <3>1. <<>> \o box[r] = box[r] /\ box'[r] = <<>>
      BY <1>1, <2>1, ConcatEmptySeq DEF TypeOK
    <3>2. <<>> \o <<>> = <<>>
      OBVIOUS
    <3>3. QED
      BY <2>1, <3>1, <3>2 DEF Pipeline
  <2>4. \A s \in Routers \ {r} : Pipeline(s)' = Pipeline(s)
    BY <1>1, <2>1 DEF Pipeline, TypeOK
  <2>5. \A s \in Routers : \A k \in DOMAIN Pipeline(s)' :
           \E j \in DOMAIN Pipeline(s) : Pipeline(s)'[k].event = Pipeline(s)[j].event
    <3>1. DOMAIN <<>> = {}
      BY EmptySeq
    <3>2. QED
      BY <2>3, <2>4, <3>1
  <2>6. \A e \in Events : fate'[e] = IF \E i \in DOMAIN Pipeline(r) : Pipeline(r)[i].event = e
                                    THEN [fate[e] EXCEPT ![r.plugin] = "dead"] ELSE fate[e]
    BY <1>5, <2>3 DEF RouterStops
  <2>7. \A e \in Events, p \in Plugins :
           /\ fate'[e][p] = "none" => fate[e][p] = "none"
           /\ fate'[e][p] = "dead" =>
                 \/ fate[e][p] = "dead"
                 \/ p = r.plugin /\ \E i \in DOMAIN Pipeline(r) : Pipeline(r)[i].event = e
    <3> TAKE e \in Events, p \in Plugins
    <3>1. fate[e] \in [Plugins -> Fates]
      BY <1>1 DEF TypeOK
    <3>2. QED
      BY <2>6, <3>1
  <2>8. QED
    BY <1>2, <2>1, <2>2, <2>5, <2>7, RouterHeard
<1>6. QED
  BY <1>3, <1>4, <1>5

-----------------------------------------------------------------------------
(* The invariant, and what follows from it *)

\* The invariant holds before anything is registered or posted.
LEMMA InitInv == Init => IInv
<1> SUFFICES ASSUME Init
             PROVE  IInv
  OBVIOUS
<1>1. <<>> \in Seq(Messages) /\ Len(<<>>) = 0 /\ <<>> \o <<>> = <<>> /\ DOMAIN <<>> = {}
  BY EmptySeq
<1>2. TypeOK
  BY <1>1, EventsAssumption DEF Init, TypeOK, Fates
<1>3. PostsInv
  BY DEF Init, PostsInv, PostInv
<1>4. CycleInv
  BY DEF Init, CycleInv
<1>5. RoutersInv
  BY <1>1 DEF Init, RoutersInv, PoolSize
<1>6. \A r \in Routers : DOMAIN Pipeline(r) = {}
  BY <1>1 DEF Init, Pipeline
<1>7. EveryEventAccountedFor
  BY <1>6 DEF Init, EveryEventAccountedFor, RoutersOf
<1>8. QED
  BY <1>2, <1>3, <1>4, <1>5, <1>7 DEF IInv

\* Every step preserves it.
LEMMA NextInv == IInv /\ [Next]_vars => IInv'
<1> SUFFICES ASSUME IInv, [Next]_vars
             PROVE  IInv'
  OBVIOUS
<1>1. CASE UNCHANGED vars
  <2>1. UNCHANGED <<registration, status, ref, starts, request, answer, stage, box, busy,
                    post, posted, fate, steady>>
    BY <1>1 DEF vars, cycle, routing
  <2>2. TypeOK' /\ CycleInv' /\ RoutersInv'
    BY <2>1 DEF IInv, TypeOK, CycleInv, RoutersInv, entries
  <2>3. PostsInv'
    BY <2>1, PostsKept DEF IInv
  <2>4. QED
    BY <2>1, <2>2, <2>3, NoMessageMoves
<1>2. ASSUME NEW p \in Plugins, LifeCycle(p)
      PROVE  IInv'
  BY <1>2, RegistersInv, StartInv, StopInv, RunnerInv, CallbackInv DEF LifeCycle
<1>3. ASSUME NEW t \in Posters, NEW e \in Events, PostMessage(t, e)
      PROVE  IInv'
  BY <1>3, PostMessageInv
<1>4. ASSUME NEW t \in Posters, Proceed(t)
      PROVE  IInv'
  BY <1>4, CheckStatusInv, WalkEndsInv, IteratorMissesInv, ReadReferenceInv, TellInv DEF Proceed
<1>5. ASSUME NEW r \in Routers, Handle(r) \/ EndOfHandler(r) \/ RouterStops(r)
      PROVE  IInv'
  BY <1>5, HandleInv, EndOfHandlerInv, RouterStopsInv
<1>6. QED
  BY <1>1, <1>2, <1>3, <1>4, <1>5 DEF Next

\* The invariant holds in every reachable state.
THEOREM InductiveInvariant == Spec => []IInv
  BY InitInv, NextInv, PTL DEF Spec

\* Every variable has its type.
THEOREM TypeCorrect == Spec => []TypeOK
<1>1. IInv => TypeOK
  BY DEF IInv
<1>2. QED
  BY <1>1, InductiveInvariant, PTL

\* An event told to a plugin is neither lost nor doubled on its way, through stops,
\* restarts and recoveries.
THEOREM NothingLostOrDoubled == Spec => []EveryEventAccountedFor
<1>1. IInv => EveryEventAccountedFor
  BY DEF IInv
<1>2. QED
  BY <1>1, InductiveInvariant, PTL

\* A posting reaches every plugin it is for that has been STARTED since it began,
\* whatever the other plugins and threads do, unless the map changes meanwhile.
THEOREM SteadyPluginsHear == Spec => []StartedPluginsHear
<1>1. Init => HInv
  BY DEF Init, HInv, LiveInv, SteadyInv, HeardInv
<1>2. IInv /\ HInv /\ [Next]_vars => HInv'
  <2> SUFFICES ASSUME IInv, HInv, [Next]_vars
               PROVE  HInv'
    OBVIOUS
  <2>1. CASE UNCHANGED vars
    <3>1. UNCHANGED <<registration, status, ref, stage, box, busy, post, fate, steady>>
      BY <2>1 DEF vars, cycle, routing
    <3>2. LiveInv' /\ SteadyInv'
      BY <3>1 DEF HInv, LiveInv, SteadyInv, entries
    <3>3. ASSUME NEW t \in Posters
          PROVE  HeardInv(t)'
      <4>1. HeardInv(t)
        BY DEF HInv
      <4>2. \A r \in Routers : Pipeline(r)' = Pipeline(r)
        BY <3>1 DEF Pipeline
      <4>3. \A p \in Plugins : \A r \in RoutersOf(p) : r \in Routers
        BY DEF RoutersOf
      <4>4. QED
        BY <3>1, <4>1, <4>2, <4>3 DEF HeardInv, RoutersOf
    <3>4. QED
      BY <3>2, <3>3 DEF HInv
  <2>2. ASSUME NEW p \in Plugins, LifeCycle(p)
        PROVE  HInv'
    BY <2>2, LifeCycleHeard
  <2>3. ASSUME NEW t \in Posters, NEW e \in Events, PostMessage(t, e)
        PROVE  HInv'
    BY <2>3, PostMessageHeard
  <2>4. ASSUME NEW t \in Posters, Proceed(t)
        PROVE  HInv'
    BY <2>4, CheckStatusHeard, WalkEndsHeard, ReadReferenceHeard, TellHeard DEF Proceed
  <2>5. ASSUME NEW r \in Routers, Handle(r) \/ EndOfHandler(r) \/ RouterStops(r)
        PROVE  HInv'
    BY <2>5, RoutersHeard
  <2>6. QED
    BY <2>1, <2>2, <2>3, <2>4, <2>5 DEF Next
<1>3. HInv => StartedPluginsHear
  <2> SUFFICES ASSUME HInv, NEW t \in Posters, Posting(t, "walk"), post[t].todo = {},
                      ~post[t].stale, NEW p \in steady[t] \cap AudienceOf[post[t].event],
                      FlowOf[post[t].event] \in InterfacesOf[p]
               PROVE  fate[post[t].event][p] \notin {"none", "dead"}
    BY DEF StartedPluginsHear
  <2>1. HeardInv(t) /\ post[t] /= None /\ post[t].step = "walk"
    BY DEF HInv, Posting
  <2>2. QED
    BY <2>1 DEF HeardInv
<1>4. QED
  BY <1>1, <1>2, <1>3, InductiveInvariant, PTL DEF Spec

-----------------------------------------------------------------------------
(* Refinement of the life cycle *)

\* What a client sees of the plugins.
View == [p \in Plugins |-> IF p \in entries THEN status[p] ELSE "ABSENT"]

\* One plugin moves.
ViewMove(p, from, to) == View[p] = from /\ View' = [View EXCEPT ![p] = to]

\* The plugin changes, and the others do not.
LEMMA ViewOfOne ==
    ASSUME NEW p \in Plugins,
           \A q \in Plugins \ {p} : (q \in entries' <=> q \in entries) /\ status'[q] = status[q]
    PROVE  View' = [View EXCEPT ![p] = IF p \in entries' THEN status'[p] ELSE "ABSENT"]
  BY DEF View

\* The moves of a plugin.
LEMMA LifeCycleView ==
    ASSUME IInv, NEW p \in Plugins, LifeCycle(p)
    PROVE  \/ UNCHANGED View
           \/ ViewMove(p, "ABSENT", "STOPPED") \/ ViewMove(p, "STOPPED", "ABSENT")
           \/ ViewMove(p, "STOPPED", "STARTING") \/ ViewMove(p, "STARTED", "STOPPING")
           \/ ViewMove(p, "STARTING", "STARTED") \/ ViewMove(p, "STARTING", "STOPPED")
           \/ ViewMove(p, "STOPPING", "STOPPED")
<1>1. TypeOK /\ CycleInv
  BY DEF IInv
<1>2. CASE Register(p)
  <2>1. /\ p \notin entries /\ p \in entries' /\ status'[p] = "STOPPED"
        /\ \A q \in Plugins \ {p} : (q \in entries' <=> q \in entries) /\ status'[q] = status[q]
    BY <1>1, <1>2 DEF Register, TypeOK, CycleInv, entries
  <2>2. View' = [View EXCEPT ![p] = "STOPPED"] /\ View[p] = "ABSENT"
    BY <2>1, ViewOfOne DEF View
  <2>3. QED
    BY <2>2 DEF ViewMove
<1>3. CASE Unregister(p)
  <2>1. /\ p \in entries /\ p \notin entries' /\ status[p] = "STOPPED"
        /\ \A q \in Plugins \ {p} : (q \in entries' <=> q \in entries) /\ status'[q] = status[q]
    BY <1>1, <1>3 DEF Unregister, TypeOK, entries
  <2>2. View' = [View EXCEPT ![p] = "ABSENT"] /\ View[p] = "STOPPED"
    BY <2>1, ViewOfOne DEF View
  <2>3. QED
    BY <2>2 DEF ViewMove
<1>4. ASSUME NEW s, status' = [status EXCEPT ![p] = s], UNCHANGED registration, p \in entries
      PROVE  ViewMove(p, status[p], s)
  <2>1. /\ p \in entries' /\ status'[p] = s
        /\ \A q \in Plugins \ {p} : (q \in entries' <=> q \in entries) /\ status'[q] = status[q]
    BY <1>1, <1>4 DEF TypeOK, entries
  <2>2. View' = [View EXCEPT ![p] = s] /\ View[p] = status[p]
    BY <1>4, <2>1, ViewOfOne DEF View
  <2>3. QED
    BY <2>2 DEF ViewMove
<1>5. CASE Start(p)
  BY <1>4, <1>5 DEF Start
<1>6. CASE Stop(p)
  BY <1>4, <1>6 DEF Stop, MayStop
<1>7. CASE RunnerStarts(p) \/ RunnerFailsToStart(p) \/ RunnerStops(p)
  BY <1>7 DEF RunnerStarts, RunnerFailsToStart, RunnerStops, Receive, View, entries
<1>8. CASE Callback(p)
  <2>1. /\ p \in entries
        /\ \/ status[p] = "STARTING" /\ StatusAfter(answer[p]) \in {"STARTED", "STOPPED"}
           \/ status[p] = "STOPPING" /\ StatusAfter(answer[p]) = "STOPPED"
    BY <1>1, <1>8 DEF Callback, CycleInv, TypeOK, StatusAfter
  <2>2. ViewMove(p, status[p], StatusAfter(answer[p]))
    BY <1>4, <1>8, <2>1 DEF Callback
  <2>3. QED
    BY <2>1, <2>2
<1>9. QED
  BY <1>2, <1>3, <1>5, <1>6, <1>7, <1>8 DEF LifeCycle

\* Every step is a step of the abstract life cycle, or invisible to a client.
LEMMA ViewStep ==
    ASSUME IInv, [Next]_vars
    PROVE  [Lifecycles!Next]_View
<1>1. ASSUME NEW p \in Plugins,
             \/ ViewMove(p, "ABSENT", "STOPPED") \/ ViewMove(p, "STOPPED", "ABSENT")
             \/ ViewMove(p, "STOPPED", "STARTING") \/ ViewMove(p, "STARTED", "STOPPING")
             \/ ViewMove(p, "STARTING", "STARTED") \/ ViewMove(p, "STARTING", "STOPPED")
             \/ ViewMove(p, "STOPPING", "STOPPED")
      PROVE  Lifecycles!Next
  BY <1>1
  DEF ViewMove, View, Lifecycles!Next, Lifecycles!Register, Lifecycles!Unregister,
      Lifecycles!Start, Lifecycles!Stop, Lifecycles!Answer, Lifecycles!Move
<1>2. UNCHANGED cycle => UNCHANGED View
  BY DEF View, cycle, entries
<1>3. CASE UNCHANGED vars
  BY <1>2, <1>3 DEF vars
<1>4. ASSUME NEW p \in Plugins, LifeCycle(p)
      PROVE  [Lifecycles!Next]_View
  BY <1>1, <1>4, LifeCycleView
<1>5. ASSUME NEW t \in Posters, (\E e \in Events : PostMessage(t, e)) \/ Proceed(t)
      PROVE  UNCHANGED cycle
  BY <1>5 DEF PostMessage, Proceed, CheckStatus, IteratorFails, IteratorMisses, PostDone,
         ReadReference, Tell
<1>6. ASSUME NEW r \in Routers, Handle(r) \/ EndOfHandler(r) \/ RouterStops(r)
      PROVE  UNCHANGED cycle
  BY <1>6 DEF Handle, EndOfHandler, HandleSucceeds, HandleFails, HandleCrashes, Finish, RouterStops
<1>7. QED
  BY <1>2, <1>3, <1>4, <1>5, <1>6 DEF Next

\* The life cycle that the events run against is the abstract one.
THEOREM LifecycleRefined == Spec => ImplementsLifecycle
<1>1. Init => Lifecycles!Init
  BY DEF Init, Lifecycles!Init, entries
<1>2. IInv /\ [Next]_vars => [Lifecycles!Next]_View
  BY ViewStep
<1>3. QED
  BY <1>1, <1>2, InductiveInvariant, PTL DEF Spec, ImplementsLifecycle, Lifecycles!Safety, View
=============================================================================
