------------------------ MODULE RegistriesProofs ------------------------
(***************************************************************************)
(* The invariants of the parts that keep registries and files: subagents,  *)
(* capacity, MCP servers, the event bus, a run's state, its checkpoints,   *)
(* approvals, and the git workflow; and that every step of these parts     *)
(* keeps them.                                                             *)
(***************************************************************************)
EXTENDS Records, TLAPS, FiniteSetTheorems, FunctionTheorems, SequenceTheorems, WellFoundedInduction

-----------------------------------------------------------------------------
(* Subagents. *)

\* A subagent that has run and is not over, paused or not, has its executor or never will.
IsAttended(a) == a \in unattended \/ \E e \in Executors : exec[e].agent = a /\ exec[e].phase \in {"running", "looping", "over"}
Attended == \A a \in Sub!Created : sub[a].status \in {"running", "paused"} => IsAttended(a)

\* What an executor without work holds, and that one with work works for a subagent there is.
Employed == \A e \in Executors : /\ exec[e].phase = "idle" => exec[e] = Sub!Idle
                                 /\ exec[e].phase # "idle" => exec[e].agent \in Sub!Created

\* The limits in b are those that subagents of the role were given, and a's own are among them.
Caused(b, r) == \A n \in DOMAIN b : b[n] \in Sub!AskedFor(r, n)
Kept(b, a) == \A n \in DOMAIN override[a] : n \in DOMAIN b /\ b[n] = override[a][n]
BudgetsAreDrawn ==
  /\ \A a \in Sub!Created : Caused(sub[a].budget, sub[a].role) /\ Kept(sub[a].budget, a)
  /\ \A e \in Executors : exec[e].phase \notin {"idle", "starting"} =>
       /\ DOMAIN exec[e].budget = Sub!Limits
       /\ Caused(exec[e].budget, sub[exec[e].agent].role) /\ Kept(exec[e].budget, exec[e].agent)
  /\ \A r \in Roles : Caused(limits[r], r)

SubagentInv ==
  Sub!TypeOK /\ Sub!StampsMatchStatus /\ Attended /\ Employed /\ BudgetsAreDrawn

\* What the invariant says of the subagents' and the executors' records.
Stamped(s) ==
  /\ s.ended <=> s.status \in Sub!Terminal
  /\ s.status \in {"created", "queued"} => ~s.started
  /\ s.status \notin {"created", "queued", "cancelled"} => s.started

\* The limits of subagents are numbers, and nobody is no subagent.
LEMMA SubagentConstants ==
  /\ Nobody \notin Agents /\ Nobody \notin Sub!SubagentObjects /\ Amounts \subseteq Nat /\ Executors \subseteq Nat
  /\ RoleDefaults \in [Roles -> [Sub!Limits -> Amounts]] /\ BudgetOverrides \subseteq Sub!Partial
  /\ Reports \subseteq {"completed", "failed", "blocked", "timed_out"}
BY RecordsAssumption DEF Sub!SubagentsAssumption

\* A partial function of limits, whatever part of them it has.
LEMMA PartialIs ==
  ASSUME NEW b
  PROVE  b \in Sub!Partial <=> DOMAIN b \subseteq Sub!Limits /\ b \in [DOMAIN b -> Amounts]
BY DEF Sub!Partial

\* No override at all is a partial set of limits.
LEMMA EmptyIs == <<>> \in Sub!Partial
<1>1. <<>> \in [{} -> Amounts] /\ {} \in SUBSET Sub!Limits
  OBVIOUS
<1> QED
  BY <1>1 DEF Sub!Partial

\* The dictionary that an update leaves has all limits.
LEMMA UpdateIs ==
  ASSUME NEW o \in Sub!Partial, NEW l \in [Sub!Limits -> Amounts]
  PROVE  /\ Sub!Updated(l, o) \in [Sub!Limits -> Amounts]
         /\ \A n \in Sub!Limits : Sub!Updated(l, o)[n] = IF n \in DOMAIN o THEN o[n] ELSE l[n]
BY PartialIs DEF Sub!Updated

\* What a status set with its stamps leaves as it was.
LEMMA MovedIs ==
  ASSUME NEW s \in Sub!SubagentObjects, NEW to \in Sub!Statuses
  PROVE  /\ Sub!Moved(s, to) \in Sub!SubagentObjects
         /\ Sub!Moved(s, to).role = s.role /\ Sub!Moved(s, to).budget = s.budget
         /\ Sub!Moved(s, to).status = to
         /\ Sub!Moved(s, to).started = (s.started \/ to = "running")
         /\ Sub!Moved(s, to).ended = (s.ended \/ to \in Sub!Terminal)
BY DEF Sub!SubagentObjects, Sub!Moved

\* The statuses that may follow one another keep the stamps true.
LEMMA StampsFollow ==
  ASSUME NEW s \in Sub!SubagentObjects, Stamped(s), NEW to \in Sub!Statuses,
         to \in Sub!Valid[s.status] \/ (s.status = "created" /\ to = "running")
  PROVE  Stamped(Sub!Moved(s, to))
<1>1. s.status \in Sub!Statuses /\ s.started \in BOOLEAN /\ s.ended \in BOOLEAN
  BY DEF Sub!SubagentObjects
<1>2. /\ s.status = "created" => to \in {"queued", "cancelled", "running"}
      /\ s.status = "queued" => to \in {"running", "cancelled"}
      /\ s.status = "running" => to \in {"paused"} \cup Sub!Terminal
      /\ s.status = "paused" => to \in {"running", "cancelled"}
      /\ s.status \in {"created", "queued", "running", "paused"}
  BY <1>1 DEF Sub!Valid, Sub!Statuses
<1> DEFINE m == Sub!Moved(s, to)
<1>3. m.status = to /\ m.started = (s.started \/ to = "running") /\ m.ended = (s.ended \/ to \in Sub!Terminal)
  BY MovedIs
<1>4. ~s.ended
  BY <1>2 DEF Stamped, Sub!Terminal
<1>5. to \in {"paused", "completed", "failed", "timed_out", "blocked"} => s.started
  BY <1>2 DEF Stamped, Sub!Terminal
<1> HIDE DEF m
<1>6. m.ended <=> to \in Sub!Terminal
  BY <1>3, <1>4
<1>7. to \in {"created", "queued"} => ~m.started
  BY <1>2, <1>3 DEF Stamped, Sub!Terminal
<1>8. to \notin {"created", "queued", "cancelled"} => m.started
  BY <1>2, <1>3, <1>5 DEF Sub!Terminal
<1> QED
  BY <1>3, <1>6, <1>7, <1>8 DEF Stamped, m

\* The types of the subagents' variables, one by one.
LEMMA SubagentFields ==
  Sub!TypeOK <=>
    /\ sub \in [Agents -> Sub!SubagentObjects \cup {Nobody}]
    /\ override \in [Agents -> Sub!Partial]
    /\ limits \in [Roles -> [Sub!Limits -> Amounts]]
    /\ exec \in [Executors -> [agent : Sub!Created \cup {Nobody}, phase : Sub!Phases, budget : Sub!Partial]]
    /\ known \subseteq Sub!Created /\ unattended \subseteq Sub!Created
BY DEF Sub!TypeOK

\* A subagent that was created is known by its record.
LEMMA CreatedIs ==
  ASSUME Sub!TypeOK, NEW a \in Sub!Created
  PROVE  a \in Agents /\ sub[a] \in Sub!SubagentObjects /\ a # Nobody
BY SubagentFields, SubagentConstants DEF Sub!Created

\* A step that changes no role leaves what was asked for.
LEMMA AskedStays ==
  ASSUME Sub!Created' = Sub!Created, UNCHANGED override, \A c \in Sub!Created : sub'[c].role = sub[c].role
  PROVE  \A r, n : Sub!AskedFor(r, n)' = Sub!AskedFor(r, n)
BY DEF Sub!AskedFor

\* The statuses follow one another: one subagent's changes, or none.
Follows == \/ sub' = sub
           \/ \E a \in Sub!Created, to \in Sub!Statuses :
                /\ to \in Sub!Valid[sub[a].status] \/ (sub[a].status = "created" /\ to = "running")
                /\ sub' = [sub EXCEPT ![a] = Sub!Moved(@, to)]
\* Where every status follows from the one before, stamps and families keep what they tell.
LEMMA StatusesFollow ==
  ASSUME SubagentInv, Follows
  PROVE  /\ Sub!Created' = Sub!Created /\ sub' \in [Agents -> Sub!SubagentObjects \cup {Nobody}]
         /\ \A c \in Sub!Created : /\ sub'[c].role = sub[c].role /\ sub'[c].budget = sub[c].budget
         /\ Sub!StampsMatchStatus'
<1>1. sub \in [Agents -> Sub!SubagentObjects \cup {Nobody}]
  BY SubagentFields DEF SubagentInv
<1>2. CASE sub' = sub
  BY <1>1, <1>2 DEF Sub!Created, Sub!StampsMatchStatus, SubagentInv
<1>3. ASSUME NEW a \in Sub!Created, NEW to \in Sub!Statuses,
             to \in Sub!Valid[sub[a].status] \/ (sub[a].status = "created" /\ to = "running"),
             sub' = [sub EXCEPT ![a] = Sub!Moved(@, to)]
      PROVE  /\ Sub!Created' = Sub!Created /\ sub' \in [Agents -> Sub!SubagentObjects \cup {Nobody}]
             /\ \A c \in Sub!Created : /\ sub'[c].role = sub[c].role /\ sub'[c].budget = sub[c].budget
             /\ Sub!StampsMatchStatus'
  <2>1. a \in Agents /\ sub[a] \in Sub!SubagentObjects
    BY CreatedIs DEF SubagentInv
  <2> DEFINE m == Sub!Moved(sub[a], to)
  <2>2. /\ m \in Sub!SubagentObjects /\ m # Nobody
        /\ m.role = sub[a].role /\ m.budget = sub[a].budget
    BY <2>1, MovedIs, SubagentConstants
  <2>3. Stamped(sub[a])
    BY DEF SubagentInv, Sub!StampsMatchStatus, Stamped
  <2>4. Stamped(m)
    BY <1>3, <2>1, <2>3, StampsFollow
  <2>5. sub' = [sub EXCEPT ![a] = m]
    BY <1>3
  <2> HIDE DEF m
  <2>6. sub'[a] = m /\ \A c \in Agents \ {a} : sub'[c] = sub[c]
    BY <1>1, <2>1, <2>5
  <2>7. Sub!Created' = Sub!Created /\ sub' \in [Agents -> Sub!SubagentObjects \cup {Nobody}]
    BY <1>1, <2>1, <2>2, <2>5, <2>6, SubagentConstants DEF Sub!Created
  <2>8. Sub!StampsMatchStatus'
    <3> SUFFICES ASSUME NEW c \in Sub!Created PROVE Stamped(sub'[c])
      BY <2>7 DEF Sub!StampsMatchStatus, Stamped
    <3>1. CASE c = a
      BY <2>4, <2>6, <3>1
    <3>2. CASE c # a
      <4>1. Stamped(sub[c])
        BY DEF SubagentInv, Sub!StampsMatchStatus, Stamped
      <4> QED
        BY <2>6, <3>2, <4>1 DEF Sub!Created
    <3> QED
      BY <3>1, <3>2
  <2>9. \A c \in Sub!Created : /\ sub'[c].role = sub[c].role /\ sub'[c].budget = sub[c].budget
    BY <2>2, <2>6 DEF Sub!Created
  <2> QED
    BY <2>7, <2>8, <2>9
<1> QED
  BY <1>2, <1>3 DEF Follows

\* A call of start for a new subagent goes on or ends, an execution goes to its next phase or
\* gives up, or none does.
Starting(a) == [agent |-> a, phase |-> "starting", budget |-> <<>>]
Proceeds == \/ exec' = exec
            \/ \E e \in Executors : exec' = [exec EXCEPT ![e] = Sub!Idle]
            \/ \E e \in Executors, a \in Sub!Created :
                 exec[e].phase = "idle" /\ exec' = [exec EXCEPT ![e] = Starting(a)]
            \/ \E e \in Executors, x \in Sub!Phases \ {"idle", "starting"} :
                 exec[e].phase \notin {"idle", "starting"} /\ exec' = [exec EXCEPT ![e].phase = x]
Workload == [agent : Sub!Created \cup {Nobody}, phase : Sub!Phases, budget : Sub!Partial]
\* Where every executor proceeds with the agent and the budget it has, executors stay typed and employed.
LEMMA ExecutorsProceed ==
  ASSUME SubagentInv, Proceeds
  PROVE  /\ exec' \in [Executors -> Workload]
         /\ \A e \in Executors : \/ exec'[e] = Sub!Idle
                                 \/ exec'[e].phase = "starting" /\ exec'[e].agent \in Sub!Created
                                 \/ /\ exec[e].phase \notin {"idle", "starting"}
                                    /\ exec'[e].phase \notin {"idle", "starting"}
                                    /\ exec'[e].agent = exec[e].agent /\ exec'[e].budget = exec[e].budget
<1>1. /\ exec \in [Executors -> Workload]
      /\ \A e \in Executors : /\ exec[e].phase = "idle" => exec[e] = Sub!Idle
                              /\ exec[e].phase # "idle" => exec[e].agent \in Sub!Created
  BY SubagentFields DEF SubagentInv, Workload, Employed
<1>2. Sub!Idle \in Workload
  <2>1. <<>> \in Sub!Partial
    BY EmptyIs
  <2> QED
    BY <2>1 DEF Sub!Idle, Workload, Sub!Phases
<1>4. ASSUME NEW e \in Executors, exec' = [exec EXCEPT ![e] = Sub!Idle]
      PROVE  /\ exec' \in [Executors -> Workload]
             /\ \A d \in Executors : exec'[d] = Sub!Idle \/ exec'[d] = exec[d]
  BY <1>1, <1>2, <1>4
<1>6. ASSUME NEW e \in Executors, NEW a \in Sub!Created, exec' = [exec EXCEPT ![e] = Starting(a)]
      PROVE  /\ exec' \in [Executors -> Workload] /\ exec'[e].phase = "starting" /\ exec'[e].agent = a
             /\ \A d \in Executors \ {e} : exec'[d] = exec[d]
  <2>1. Starting(a) \in Workload
    BY EmptyIs DEF Starting, Workload, Sub!Phases
  <2> QED
    BY <1>1, <1>6, <2>1 DEF Starting
<1>5. ASSUME NEW e \in Executors, NEW x \in Sub!Phases \ {"idle", "starting"}, exec[e].phase \notin {"idle", "starting"},
             exec' = [exec EXCEPT ![e].phase = x]
      PROVE  /\ exec' \in [Executors -> Workload]
             /\ exec'[e].phase = x /\ exec'[e].agent = exec[e].agent /\ exec'[e].budget = exec[e].budget
             /\ \A d \in Executors \ {e} : exec'[d] = exec[d]
  BY <1>1, <1>5 DEF Workload
<1>7. \A e \in Executors : \/ exec[e] = Sub!Idle
                           \/ exec[e].phase = "starting" /\ exec[e].agent \in Sub!Created
                           \/ exec[e].phase \notin {"idle", "starting"}
  <2> TAKE e \in Executors
  <2>1. (exec[e].phase = "idle" => exec[e] = Sub!Idle) /\ (exec[e].phase # "idle" => exec[e].agent \in Sub!Created)
    BY <1>1
  <2> QED
    BY <2>1
<1> DEFINE Good == \A e \in Executors : \/ exec'[e] = Sub!Idle
                                        \/ exec'[e].phase = "starting" /\ exec'[e].agent \in Sub!Created
                                        \/ /\ exec[e].phase \notin {"idle", "starting"}
                                           /\ exec'[e].phase \notin {"idle", "starting"}
                                           /\ exec'[e].agent = exec[e].agent /\ exec'[e].budget = exec[e].budget
<1> DEFINE Done == exec' \in [Executors -> Workload] /\ Good
<1>8. ASSUME exec' = exec PROVE Done
  BY <1>1, <1>7, <1>8
<1>9. ASSUME NEW e \in Executors, exec' = [exec EXCEPT ![e] = Sub!Idle] PROVE Done
  BY <1>4, <1>7, <1>9
<1>10. ASSUME NEW e \in Executors, NEW a \in Sub!Created, exec' = [exec EXCEPT ![e] = Starting(a)] PROVE Done
  <2>1. /\ exec' \in [Executors -> Workload] /\ exec'[e].phase = "starting" /\ exec'[e].agent = a
        /\ \A d \in Executors \ {e} : exec'[d] = exec[d]
    BY <1>6, <1>10
  <2> QED
    BY <1>7, <2>1
<1>11. ASSUME NEW e \in Executors, NEW x \in Sub!Phases \ {"idle", "starting"}, exec[e].phase \notin {"idle", "starting"},
              exec' = [exec EXCEPT ![e].phase = x]
       PROVE  Done
  <2>1. /\ exec' \in [Executors -> Workload]
        /\ exec'[e].phase = x /\ exec'[e].agent = exec[e].agent /\ exec'[e].budget = exec[e].budget
        /\ \A d \in Executors \ {e} : exec'[d] = exec[d]
    BY <1>5, <1>11
  <2> QED
    BY <1>7, <1>11, <2>1
<1> HIDE DEF Good, Done
<1>12. Done
  BY <1>8, <1>9, <1>10, <1>11 DEF Proceeds
<1> QED
  BY <1>12 DEF Done, Good

\* Who works for whom, and on which limits, when executors proceed.
LEMMA ExecutorsAgree ==
  ASSUME SubagentInv, Proceeds, Sub!Created' = Sub!Created
  PROVE  Employed' /\ exec' \in [Executors -> [agent : Sub!Created' \cup {Nobody}, phase : Sub!Phases, budget : Sub!Partial]]
<1>1. /\ exec' \in [Executors -> Workload]
      /\ \A e \in Executors : \/ exec'[e] = Sub!Idle
                              \/ exec'[e].phase = "starting" /\ exec'[e].agent \in Sub!Created
                              \/ /\ exec[e].phase \notin {"idle", "starting"}
                                 /\ exec'[e].phase \notin {"idle", "starting"}
                                 /\ exec'[e].agent = exec[e].agent /\ exec'[e].budget = exec[e].budget
  BY ExecutorsProceed
<1>2. Employed'
  BY <1>1 DEF Employed, SubagentInv, Sub!Idle
<1> QED
  BY <1>1, <1>2 DEF Workload

\* Whatever keeps subagents' families and budgets and the roles' dictionaries keeps every limit's cause.
LEMMA BudgetsStay ==
  ASSUME SubagentInv, Proceeds, Sub!Created' = Sub!Created, UNCHANGED <<override, limits>>,
         \A c \in Sub!Created : sub'[c].role = sub[c].role /\ sub'[c].budget = sub[c].budget,
         \A r, n : Sub!AskedFor(r, n)' = Sub!AskedFor(r, n)
  PROVE  BudgetsAreDrawn'
<1>1. \A e \in Executors : \/ exec'[e].phase \in {"idle", "starting"}
                          \/ /\ exec[e].phase \notin {"idle", "starting"}
                             /\ exec'[e].agent = exec[e].agent /\ exec'[e].budget = exec[e].budget
  BY ExecutorsProceed DEF Sub!Idle
<1>2. ASSUME NEW a \in Sub!Created
      PROVE  Caused(sub[a].budget, sub[a].role)' /\ Kept(sub[a].budget, a)'
  <2>1. Caused(sub[a].budget, sub[a].role) /\ Kept(sub[a].budget, a)
    BY DEF SubagentInv, BudgetsAreDrawn
  <2> QED
    BY <2>1 DEF Caused, Kept
<1>3. ASSUME NEW e \in Executors, exec'[e].phase \notin {"idle", "starting"}
      PROVE  /\ DOMAIN exec'[e].budget = Sub!Limits
             /\ Caused(exec[e].budget, sub[exec[e].agent].role)' /\ Kept(exec[e].budget, exec[e].agent)'
  <2>1. /\ exec[e].phase \notin {"idle", "starting"}
        /\ exec'[e].agent = exec[e].agent /\ exec'[e].budget = exec[e].budget
    BY <1>1, <1>3
  <2>2. /\ exec[e].agent \in Sub!Created /\ DOMAIN exec[e].budget = Sub!Limits
        /\ Caused(exec[e].budget, sub[exec[e].agent].role) /\ Kept(exec[e].budget, exec[e].agent)
    BY <2>1 DEF SubagentInv, Employed, BudgetsAreDrawn
  <2> QED
    BY <2>1, <2>2 DEF Caused, Kept
<1>4. ASSUME NEW r \in Roles PROVE Caused(limits[r], r)'
  <2>1. Caused(limits[r], r)
    BY DEF SubagentInv, BudgetsAreDrawn
  <2> QED
    BY <2>1 DEF Caused
<1> QED
  BY <1>2, <1>3, <1>4 DEF BudgetsAreDrawn

\* What the calls and the executors do to a subagent that is there already, its attendance apart.
SubagentHolds == Sub!TypeOK /\ Sub!StampsMatchStatus /\ Employed /\ BudgetsAreDrawn
\* A step that only changes statuses and phases in their order keeps the invariant of subagents.
LEMMA SubagentProceeds ==
  ASSUME SubagentInv, Follows, Proceeds, UNCHANGED <<override, limits>>,
         known' \subseteq Sub!Created, unattended' \subseteq Sub!Created
  PROVE  SubagentHolds' /\ Sub!Created' = Sub!Created
<1>1. /\ Sub!Created' = Sub!Created /\ sub' \in [Agents -> Sub!SubagentObjects \cup {Nobody}]
      /\ \A c \in Sub!Created : /\ sub'[c].role = sub[c].role /\ sub'[c].budget = sub[c].budget
      /\ Sub!StampsMatchStatus'
  BY StatusesFollow
<1>2. \A r, n : Sub!AskedFor(r, n)' = Sub!AskedFor(r, n)
  BY <1>1, AskedStays
<1>3. BudgetsAreDrawn'
  BY <1>1, <1>2, BudgetsStay
<1>4. Employed' /\ exec' \in [Executors -> [agent : Sub!Created' \cup {Nobody}, phase : Sub!Phases, budget : Sub!Partial]]
  BY <1>1, ExecutorsAgree
<1>5. override' \in [Agents -> Sub!Partial] /\ limits' \in [Roles -> [Sub!Limits -> Amounts]]
  BY SubagentFields DEF SubagentInv
<1>6. Sub!TypeOK'
  BY <1>1, <1>2, <1>4, <1>5 DEF Sub!TypeOK
<1> QED
  BY <1>1, <1>2, <1>3, <1>4, <1>6 DEF SubagentHolds

\* Attendance stays when executors that execute go on and nobody but the attended begins to run.
LEMMA AttendanceStays ==
  ASSUME SubagentInv, Sub!Created' = Sub!Created, unattended \subseteq unattended',
         \A e \in Executors : exec[e].phase \in {"running", "looping", "over"} =>
            \/ exec'[e].agent = exec[e].agent /\ exec'[e].phase \in {"running", "looping", "over"}
            \/ sub'[exec[e].agent].status \notin {"running", "paused"}
            \/ exec[e].agent \in unattended',
         \A a \in Sub!Created : sub'[a].status \in {"running", "paused"} =>
            \/ sub[a].status \in {"running", "paused"}
            \/ a \in unattended'
            \/ \E e \in Executors : exec'[e].agent = a /\ exec'[e].phase \in {"running", "looping", "over"}
  PROVE  Attended'
<1> SUFFICES ASSUME NEW a \in Sub!Created, sub'[a].status \in {"running", "paused"}
             PROVE  IsAttended(a)'
  BY DEF Attended
<1>1. CASE a \in unattended'
  BY <1>1 DEF IsAttended
<1>2. CASE \E e \in Executors : exec'[e].agent = a /\ exec'[e].phase \in {"running", "looping", "over"}
  BY <1>2 DEF IsAttended
<1>3. CASE sub[a].status \in {"running", "paused"}
  <2>1. IsAttended(a)
    BY <1>3 DEF SubagentInv, Attended
  <2> QED
    BY <2>1 DEF IsAttended
<1> QED
  BY <1>1, <1>2, <1>3

\* A status that is set, and what it is not set for.
LEMMA StatusSet ==
  ASSUME SubagentInv, NEW a \in Sub!Created, NEW to \in Sub!Statuses,
         sub' = [sub EXCEPT ![a] = Sub!Moved(@, to)]
  PROVE  sub'[a].status = to /\ \A c \in Agents \ {a} : sub'[c] = sub[c]
<1>1. sub \in [Agents -> Sub!SubagentObjects \cup {Nobody}] /\ a \in Agents /\ sub[a] \in Sub!SubagentObjects
  BY SubagentFields, CreatedIs DEF SubagentInv
<1> QED
  BY <1>1, MovedIs

\* What a valid change of status does to a record.
LEMMA StatusIs ==
  ASSUME SubagentInv, NEW a \in Sub!Created, NEW to, to \in Sub!Valid[sub[a].status]
  PROVE  /\ to \in Sub!Statuses
         /\ to = "running" => sub[a].status \in {"queued", "paused"}
         /\ to = "paused" => sub[a].status = "running"
<1>1. sub[a].status \in Sub!Statuses
  BY CreatedIs DEF SubagentInv, Sub!SubagentObjects
<1> QED
  BY <1>1 DEF Sub!Valid, Sub!Statuses, Sub!Terminal

\* Subagent.start keeps the invariant: one started without an executor is known to be unattended.
LEMMA StartKeeps == ASSUME SubagentInv, NEW a \in Agents, Sub!Start(a) PROVE SubagentInv'
<1>1. a \in Sub!Created /\ known \subseteq Sub!Created /\ unattended \subseteq Sub!Created
  BY SubagentFields DEF SubagentInv, Sub!Start
<1>2. /\ sub' = [sub EXCEPT ![a] = Sub!Moved(@, "running")]
      /\ "running" \in Sub!Valid[sub[a].status]
      /\ unattended' = IF sub[a].status = "paused" THEN unattended ELSE unattended \cup {a}
      /\ UNCHANGED <<known, override, limits, exec>>
  BY DEF Sub!Start
<1>3. Follows /\ Proceeds
  BY <1>1, <1>2 DEF Follows, Proceeds, Sub!Statuses
<1>4. SubagentHolds' /\ Sub!Created' = Sub!Created
  BY <1>1, <1>2, <1>3, SubagentProceeds
<1>5. sub'[a].status = "running" /\ \A c \in Agents \ {a} : sub'[c] = sub[c]
  BY <1>1, <1>2, StatusSet DEF Sub!Statuses
<1>6. Attended'
  BY <1>1, <1>2, <1>4, <1>5, AttendanceStays DEF Sub!Created
<1> QED
  BY <1>4, <1>6 DEF SubagentHolds, SubagentInv

\* pause, resume, cancel and the other calls from outside keep the invariant.
LEMMA CallKeeps ==
  ASSUME SubagentInv, NEW a \in Agents, NEW to, Sub!Call(a, to), to = "running" => sub[a].status = "paused"
  PROVE  SubagentInv'
<1>1. a \in Sub!Created /\ known \subseteq Sub!Created /\ unattended \subseteq Sub!Created
  BY SubagentFields DEF SubagentInv, Sub!Call
<1>2. /\ sub' = [sub EXCEPT ![a] = Sub!Moved(@, to)] /\ to \in Sub!Valid[sub[a].status]
      /\ UNCHANGED <<known, override, limits, exec, unattended>>
  BY DEF Sub!Call
<1>3. to \in Sub!Statuses /\ (to = "paused" => sub[a].status = "running")
  BY <1>1, <1>2, StatusIs
<1>4. Follows /\ Proceeds
  BY <1>1, <1>2, <1>3 DEF Follows, Proceeds
<1>5. SubagentHolds' /\ Sub!Created' = Sub!Created
  BY <1>1, <1>2, <1>4, SubagentProceeds
<1>6. sub'[a].status = to /\ \A c \in Agents \ {a} : sub'[c] = sub[c]
  BY <1>1, <1>2, <1>3, StatusSet
<1>7. Attended'
  BY <1>1, <1>2, <1>3, <1>5, <1>6, AttendanceStays DEF Sub!Created
<1> QED
  BY <1>5, <1>7 DEF SubagentHolds, SubagentInv

\* A call that changes no subagent and no executor that executes.
LEMMA RemoveKeeps == ASSUME SubagentInv, NEW a \in Agents, Sub!Remove(a) PROVE SubagentInv'
<1>1. /\ known' \subseteq Sub!Created /\ unattended' \subseteq Sub!Created
      /\ UNCHANGED <<sub, override, limits, exec, unattended>>
  BY SubagentFields DEF SubagentInv, Sub!Remove
<1>2. SubagentHolds' /\ Sub!Created' = Sub!Created
  BY <1>1, SubagentProceeds DEF Follows, Proceeds
<1>3. Attended'
  BY <1>1, <1>2, AttendanceStays
<1> QED
  BY <1>2, <1>3 DEF SubagentHolds, SubagentInv

\* The executor of a step, the subagent it works for, and the others.
LEMMA ExecutorIs ==
  ASSUME SubagentInv, NEW e \in Executors
  PROVE  /\ exec \in [Executors -> Workload] /\ known \subseteq Sub!Created /\ unattended \subseteq Sub!Created
         /\ exec[e].phase # "idle" => exec[e].agent \in Sub!Created
         /\ \A x : /\ [exec EXCEPT ![e].phase = x][e] = [exec[e] EXCEPT !.phase = x]
                  /\ [exec EXCEPT ![e].phase = x][e].phase = x
                  /\ [exec EXCEPT ![e].phase = x][e].agent = exec[e].agent
                  /\ \A d \in Executors \ {e} : [exec EXCEPT ![e].phase = x][d] = exec[d]
         /\ \A d \in Executors \ {e} : [exec EXCEPT ![e] = Sub!Idle][d] = exec[d]
<1>1. exec \in [Executors -> Workload] /\ known \subseteq Sub!Created /\ unattended \subseteq Sub!Created
  BY SubagentFields DEF SubagentInv, Workload
<1> QED
  BY <1>1 DEF SubagentInv, Employed, Workload

\* A start of a new subagent that stops at the event of being queued keeps the invariant.
LEMMA StartNewKeeps ==
  ASSUME SubagentInv, NEW e \in Executors, NEW a \in Agents, Sub!StartNew(e, a) PROVE SubagentInv'
<1>1. /\ a \in Sub!Created /\ UNCHANGED <<known, override, limits, unattended>> /\ exec[e].phase = "idle"
      /\ sub[a].status = "created" /\ sub' = [sub EXCEPT ![a] = Sub!Moved(@, "queued")]
      /\ exec' = [exec EXCEPT ![e] = Starting(a)]
  <2>1. exec[e] = Sub!Idle
    BY SubagentConstants DEF Sub!StartNew, Sub!Free
  <2> QED
    BY <2>1, ExecutorIs DEF Sub!StartNew, Starting, Sub!Idle
<1>2. Follows
  BY <1>1 DEF Follows, Sub!Valid, Sub!Statuses
<1>3. Proceeds
  BY <1>1 DEF Proceeds
<1>4. SubagentHolds' /\ Sub!Created' = Sub!Created
  BY <1>1, <1>2, <1>3, ExecutorIs, SubagentProceeds
<1>5. \A c \in Sub!Created : sub'[c].status \in {"running", "paused"} => sub[c].status \in {"running", "paused"}
  BY <1>1, StatusSet DEF Sub!Statuses, Sub!Created
<1>6. \A d \in Executors : exec[d].phase \in {"running", "looping", "over"} => exec'[d] = exec[d]
  BY <1>1, ExecutorIs
<1>7. Attended'
  BY <1>1, <1>4, <1>5, <1>6, AttendanceStays
<1> QED
  BY <1>4, <1>7 DEF SubagentHolds, SubagentInv

\* And its second half, which leaves a subagent unattended that was queued until then.
LEMMA StartNewEndsKeeps == ASSUME SubagentInv, NEW e \in Executors, Sub!StartNewEnds(e) PROVE SubagentInv'
<1> DEFINE a == exec[e].agent
<1>1. /\ a \in Sub!Created /\ UNCHANGED <<known, override, limits>> /\ exec[e].phase = "starting"
      /\ exec' = [exec EXCEPT ![e] = Sub!Idle]
      /\ unattended' = IF sub[a].status = "queued" THEN unattended \cup {a} ELSE unattended
  BY ExecutorIs DEF Sub!StartNewEnds
<1>2. \/ sub' = sub
      \/ "running" \in Sub!Valid[sub[a].status] /\ sub' = [sub EXCEPT ![a] = Sub!Moved(@, "running")]
  <2>1. sub \in [Agents -> Sub!SubagentObjects \cup {Nobody}]
    BY SubagentFields DEF SubagentInv
  <2>2. sub' = [sub EXCEPT ![a] = Sub!Transition(@, "running")]
    BY DEF Sub!StartNewEnds
  <2> QED
    BY <2>1, <2>2 DEF Sub!Transition
<1>3. Follows
  BY <1>1, <1>2 DEF Follows, Sub!Statuses
<1>4. Proceeds
  BY <1>1 DEF Proceeds
<1>10. unattended' \subseteq Sub!Created /\ known' \subseteq Sub!Created
  BY <1>1, ExecutorIs
<1>5. SubagentHolds' /\ Sub!Created' = Sub!Created
  BY <1>1, <1>3, <1>4, <1>10, SubagentProceeds
<1>6. \A c \in Sub!Created : sub'[c].status \in {"running", "paused"} =>
        sub[c].status \in {"running", "paused"} \/ c \in unattended'
  <2>1. CASE sub' = sub
    BY <2>1
  <2>2. CASE "running" \in Sub!Valid[sub[a].status] /\ sub' = [sub EXCEPT ![a] = Sub!Moved(@, "running")]
    <3>1. \A c \in Agents \ {a} : sub'[c] = sub[c]
      BY <1>1, <2>2, StatusSet DEF Sub!Statuses
    <3>2. sub[a].status \in {"queued", "paused"}
      BY <1>1, <2>2, StatusIs
    <3> QED
      BY <1>1, <3>1, <3>2 DEF Sub!Created
  <2> QED
    BY <1>2, <2>1, <2>2
<1>7. \A d \in Executors : exec[d].phase \in {"running", "looping", "over"} => exec'[d] = exec[d]
  BY <1>1, ExecutorIs
<1>8. unattended \subseteq unattended'
  BY <1>1
<1>9. Attended'
  BY <1>5, <1>6, <1>7, <1>8, AttendanceStays
<1> QED
  BY <1>5, <1>9 DEF SubagentHolds, SubagentInv

\* An executor that starts its subagent keeps the invariant.
LEMMA RunKeeps == ASSUME SubagentInv, NEW e \in Executors, Sub!Run(e) PROVE SubagentInv'
<1> DEFINE a == exec[e].agent
<1>1. a \in Sub!Created /\ UNCHANGED <<known, override, limits, unattended>> /\ exec[e].phase = "queued"
  BY ExecutorIs DEF Sub!Run
<1>2. \/ sub' = sub /\ exec' = [exec EXCEPT ![e] = Sub!Idle]
      \/ /\ "running" \in Sub!Valid[sub[a].status] /\ sub' = [sub EXCEPT ![a] = Sub!Moved(@, "running")]
         /\ exec' = [exec EXCEPT ![e].phase = "running"]
  BY ExecutorIs DEF Sub!Run, Sub!Begin
<1>3. Follows
  BY <1>1, <1>2 DEF Follows, Sub!Statuses
<1>4. Proceeds
  BY <1>1, <1>2 DEF Proceeds, Sub!Phases
<1>5. SubagentHolds' /\ Sub!Created' = Sub!Created
  BY <1>1, <1>3, <1>4, ExecutorIs, SubagentProceeds
<1>6. \A d \in Executors : exec[d].phase \in {"running", "looping", "over"} => exec'[d] = exec[d]
  BY <1>1, <1>2, ExecutorIs
<1>7. \A c \in Sub!Created : sub'[c].status \in {"running", "paused"} =>
        sub[c].status \in {"running", "paused"} \/ (exec'[e].agent = c /\ exec'[e].phase = "running")
  <2>1. CASE sub' = sub
    BY <2>1
  <2>2. CASE sub' = [sub EXCEPT ![a] = Sub!Moved(@, "running")] /\ exec' = [exec EXCEPT ![e].phase = "running"]
    <3>1. \A c \in Agents \ {a} : sub'[c] = sub[c]
      BY <1>1, <2>2, StatusSet DEF Sub!Statuses
    <3>2. exec'[e].agent = a /\ exec'[e].phase = "running"
      BY <2>2, ExecutorIs
    <3> QED
      BY <3>1, <3>2 DEF Sub!Created
  <2> QED
    BY <1>2, <2>1, <2>2
<1>8. Attended'
  BY <1>1, <1>5, <1>6, <1>7, AttendanceStays
<1> QED
  BY <1>5, <1>8 DEF SubagentHolds, SubagentInv

\* A loop that ends keeps the invariant.
LEMMA ExhaustKeeps == ASSUME SubagentInv, NEW e \in Executors, Sub!Exhaust(e) PROVE SubagentInv'
<1>1. /\ UNCHANGED <<known, sub, override, limits, unattended>> /\ exec[e].phase = "looping"
      /\ exec' = [exec EXCEPT ![e].phase = "over"]
  BY DEF Sub!Exhaust
<1>2. Follows /\ Proceeds
  BY <1>1 DEF Follows, Proceeds, Sub!Phases
<1>3. SubagentHolds' /\ Sub!Created' = Sub!Created
  BY <1>1, <1>2, ExecutorIs, SubagentProceeds
<1>4. \A d \in Executors : exec[d].phase \in {"running", "looping", "over"} =>
        exec'[d].agent = exec[d].agent /\ exec'[d].phase \in {"running", "looping", "over"}
  BY <1>1, ExecutorIs
<1>5. Attended'
  BY <1>1, <1>3, <1>4, AttendanceStays
<1> QED
  BY <1>3, <1>5 DEF SubagentHolds, SubagentInv

\* The report of an executor, taken or refused, keeps the invariant.
LEMMA ReportKeeps == ASSUME SubagentInv, NEW e \in Executors, Sub!Report(e) PROVE SubagentInv'
<1> DEFINE a == exec[e].agent
<1>1. /\ a \in Sub!Created /\ UNCHANGED <<known, override, limits>> /\ exec[e].phase = "over"
      /\ exec' = [exec EXCEPT ![e] = Sub!Idle]
      /\ unattended' = IF sub'[a].status \in Sub!Terminal THEN unattended ELSE unattended \cup {a}
  BY ExecutorIs DEF Sub!Report
<1>2. \/ sub' = sub
      \/ "timed_out" \in Sub!Valid[sub[a].status] /\ sub' = [sub EXCEPT ![a] = Sub!Moved(@, "timed_out")]
  <2>1. sub \in [Agents -> Sub!SubagentObjects \cup {Nobody}]
    BY SubagentFields DEF SubagentInv
  <2>2. sub' = IF a \in known THEN [sub EXCEPT ![a] = Sub!Transition(@, "timed_out")] ELSE sub
    BY DEF Sub!Report
  <2> QED
    BY <2>1, <2>2 DEF Sub!Transition
<1>3. Follows
  BY <1>1, <1>2 DEF Follows, Sub!Statuses
<1>4. Proceeds
  BY <1>1 DEF Proceeds
<1>5. SubagentHolds' /\ Sub!Created' = Sub!Created
  BY <1>1, <1>3, <1>4, ExecutorIs, SubagentProceeds
<1>6. \A c \in Sub!Created : sub'[c].status \in {"running", "paused"} => sub[c].status \in {"running", "paused"}
  BY <1>1, <1>2, StatusSet DEF Sub!Statuses, Sub!Created
<1>7. \A d \in Executors : exec[d].phase \in {"running", "looping", "over"} =>
        \/ exec'[d] = exec[d]
        \/ sub'[exec[d].agent].status \notin {"running", "paused"} \/ exec[d].agent \in unattended'
  <2> SUFFICES ASSUME NEW d \in Executors, d = e
               PROVE  sub'[a].status \notin {"running", "paused"} \/ a \in unattended'
    BY <1>1, ExecutorIs
  <2> QED
    BY <1>1 DEF Sub!Terminal
<1>8. unattended \subseteq unattended'
  BY <1>1
<1>9. Attended'
  BY <1>5, <1>6, <1>7, <1>8, AttendanceStays
<1> QED
  BY <1>5, <1>9 DEF SubagentHolds, SubagentInv

\* Taking a budget keeps the invariant: what is set on the role's policy was asked for.
LEMMA TakeBudgetKeeps == ASSUME SubagentInv, NEW e \in Executors, Sub!TakeBudget(e) PROVE SubagentInv'
<1> DEFINE a == exec[e].agent
<1> DEFINE b == exec[e].budget
<1> DEFINE s == [sub[a] EXCEPT !.budget = b]
<1>1. /\ a \in Sub!Created /\ UNCHANGED <<known, override, limits, unattended>> /\ exec[e].phase = "running"
      /\ sub' = [sub EXCEPT ![a].budget = b] /\ exec' = [exec EXCEPT ![e].phase = "looping"]
  BY ExecutorIs DEF Sub!TakeBudget
<1>2. sub \in [Agents -> Sub!SubagentObjects \cup {Nobody}] /\ a \in Agents /\ sub[a] \in Sub!SubagentObjects
  BY <1>1, SubagentFields, CreatedIs DEF SubagentInv
<1>3. b \in Sub!Partial
  BY ExecutorIs DEF Workload
<1>4. /\ s \in Sub!SubagentObjects /\ s.budget = b /\ s.role = sub[a].role /\ s.status = sub[a].status
      /\ s.started = sub[a].started /\ s.ended = sub[a].ended
  BY <1>2, <1>3 DEF Sub!SubagentObjects
<1>5. sub' = [sub EXCEPT ![a] = s]
  BY <1>1
<1> HIDE DEF s
<1>6. sub'[a] = s /\ \A c \in Agents \ {a} : sub'[c] = sub[c]
  BY <1>2, <1>5
<1>7. Sub!Created' = Sub!Created /\ sub' \in [Agents -> Sub!SubagentObjects \cup {Nobody}]
  BY <1>1, <1>2, <1>4, <1>5, <1>6, SubagentConstants DEF Sub!Created
<1>8. \A c \in Sub!Created : /\ sub'[c].role = sub[c].role /\ sub'[c].status = sub[c].status
                           /\ sub'[c].started = sub[c].started /\ sub'[c].ended = sub[c].ended
  BY <1>4, <1>6 DEF Sub!Created
<1>9. \A r, n : Sub!AskedFor(r, n)' = Sub!AskedFor(r, n)
  BY <1>1, <1>7, <1>8, AskedStays
<1>10. Proceeds
  BY <1>1 DEF Proceeds, Sub!Phases
<1>11. Employed' /\ exec' \in [Executors -> [agent : Sub!Created' \cup {Nobody}, phase : Sub!Phases, budget : Sub!Partial]]
  BY <1>7, <1>10, ExecutorsAgree
<1>12. Sub!TypeOK'
  BY <1>1, <1>7, <1>9, <1>11 DEF Sub!TypeOK, SubagentInv
<1>13. Sub!StampsMatchStatus'
  BY <1>7, <1>8 DEF Sub!StampsMatchStatus, SubagentInv
<1>14. Attended'
  <2>1. \A d \in Executors : exec[d].phase \in {"running", "looping", "over"} =>
          exec'[d].agent = exec[d].agent /\ exec'[d].phase \in {"running", "looping", "over"}
    BY <1>1, ExecutorIs
  <2> QED
    BY <1>1, <1>7, <1>8, <2>1, AttendanceStays
<1>15. BudgetsAreDrawn'
  <2>1. \A c \in Sub!Created : Caused(sub[c].budget, sub[c].role) /\ Kept(sub[c].budget, c)
    BY DEF SubagentInv, BudgetsAreDrawn
  <2>2. \A d \in Executors : exec[d].phase \notin {"idle", "starting"} =>
          /\ DOMAIN exec[d].budget = Sub!Limits
          /\ Caused(exec[d].budget, sub[exec[d].agent].role) /\ Kept(exec[d].budget, exec[d].agent)
    BY DEF SubagentInv, BudgetsAreDrawn
  <2>3. ASSUME NEW c \in Sub!Created PROVE Caused(sub[c].budget, sub[c].role)' /\ Kept(sub[c].budget, c)'
    <3>1. CASE c = a
      <4>1. Caused(b, sub[a].role) /\ Kept(b, a)
        BY <1>1, <2>2
      <4>2. sub'[a].budget = b /\ sub'[a].role = sub[a].role
        BY <1>4, <1>6
      <4> QED
        BY <1>1, <1>9, <3>1, <4>1, <4>2 DEF Caused, Kept
    <3>2. CASE c # a
      <4>1. sub'[c] = sub[c] /\ Caused(sub[c].budget, sub[c].role) /\ Kept(sub[c].budget, c)
        BY <1>6, <2>1, <3>2 DEF Sub!Created
      <4> QED
        BY <1>1, <1>9, <4>1 DEF Caused, Kept
    <3> QED
      BY <3>1, <3>2
  <2>4. ASSUME NEW d \in Executors, exec'[d].phase \notin {"idle", "starting"}
        PROVE  /\ DOMAIN exec'[d].budget = Sub!Limits
               /\ Caused(exec[d].budget, sub[exec[d].agent].role)' /\ Kept(exec[d].budget, exec[d].agent)'
    <3>1. /\ exec[d].phase \notin {"idle", "starting"}
          /\ exec'[d].agent = exec[d].agent /\ exec'[d].budget = exec[d].budget
      BY <1>10, <2>4, ExecutorsProceed DEF Sub!Idle
    <3>2. exec[d].agent \in Sub!Created
      BY <3>1, ExecutorIs
    <3>3. sub'[exec[d].agent].role = sub[exec[d].agent].role
      BY <1>8, <3>2
    <3>4. /\ DOMAIN exec[d].budget = Sub!Limits
          /\ Caused(exec[d].budget, sub[exec[d].agent].role) /\ Kept(exec[d].budget, exec[d].agent)
      BY <2>2, <3>1
    <3> QED
      BY <1>1, <1>9, <3>1, <3>3, <3>4 DEF Caused, Kept
  <2>5. ASSUME NEW r \in Roles PROVE Caused(limits[r], r)'
    <3>1. Caused(limits[r], r)
      BY DEF SubagentInv, BudgetsAreDrawn
    <3> QED
      BY <1>1, <1>9, <3>1 DEF Caused
  <2> QED
    BY <1>7, <2>3, <2>4, <2>5 DEF BudgetsAreDrawn
<1> QED
  BY <1>11, <1>12, <1>13, <1>14, <1>15 DEF SubagentInv

\* Taking up a subagent keeps the invariant: its budget has the cause its override and its role give it.
LEMMA ExecuteKeeps ==
  ASSUME SubagentInv, NEW e \in Executors, NEW a \in Agents, Sub!Execute(e, a) PROVE SubagentInv'
<1> DEFINE role == sub[a].role
<1> DEFINE l == Sub!Updated(limits[role], sub[a].budget)
<1> DEFINE X(phase) == [agent |-> a, phase |-> phase, budget |-> l]
<1>1. a \in Sub!Created /\ exec[e] = Sub!Idle /\ UNCHANGED <<known, override, unattended>>
  BY ExecutorIs, SubagentConstants DEF Sub!Execute, Sub!Free
<1>2. sub[a] \in Sub!SubagentObjects /\ role \in Roles /\ sub[a].budget \in Sub!Partial
  BY <1>1, CreatedIs DEF SubagentInv, Sub!SubagentObjects
<1>3. limits \in [Roles -> [Sub!Limits -> Amounts]]
  BY SubagentFields DEF SubagentInv
<1>4. /\ l \in [Sub!Limits -> Amounts]
      /\ \A n \in Sub!Limits : l[n] = IF n \in DOMAIN sub[a].budget THEN sub[a].budget[n] ELSE limits[role][n]
  BY <1>2, <1>3, UpdateIs
<1>5. limits' = [limits EXCEPT ![role] = l]
  BY DEF Sub!Execute, Sub!CreateBudget
<1>6. limits'[role] = l /\ (\A r \in Roles \ {role} : limits'[r] = limits[r]) /\ limits' \in [Roles -> [Sub!Limits -> Amounts]]
  <2> HIDE DEF l
  <2> QED
    BY <1>2, <1>3, <1>4, <1>5
<1>20. \/ /\ sub[a].status = "created" /\ sub' = [sub EXCEPT ![a] = Sub!Moved(@, "queued")]
          /\ exec' = [exec EXCEPT ![e] = X("queued")]
       \/ /\ "running" \in Sub!Valid[sub[a].status] /\ sub' = [sub EXCEPT ![a] = Sub!Moved(@, "running")]
          /\ exec' = [exec EXCEPT ![e] = X("running")]
       \/ sub' = sub /\ exec' = [exec EXCEPT ![e] = Sub!Idle]
  BY <1>6 DEF Sub!Execute, Sub!Begin
<1> HIDE DEF l
<1>7. l \in Sub!Partial
  BY <1>4 DEF Sub!Partial
<1>21. Follows
  BY <1>1, <1>20 DEF Follows, Sub!Valid, Sub!Statuses
<1>22. /\ Sub!Created' = Sub!Created /\ sub' \in [Agents -> Sub!SubagentObjects \cup {Nobody}]
       /\ \A c \in Sub!Created : sub'[c].role = sub[c].role /\ sub'[c].budget = sub[c].budget
       /\ Sub!StampsMatchStatus'
  BY <1>21, StatusesFollow
<1>8. /\ \/ exec'[e] = Sub!Idle
         \/ exec'[e].agent = a /\ exec'[e].phase \in {"queued", "running"} /\ exec'[e].budget = l
      /\ \A d \in Executors \ {e} : exec'[d] = exec[d]
  BY <1>20, ExecutorIs
<1>9. exec' \in [Executors -> Workload]
  <2>1. X("queued") \in Workload /\ X("running") \in Workload /\ Sub!Idle \in Workload
    BY <1>1, <1>7, EmptyIs DEF Workload, Sub!Phases, Sub!Idle
  <2> QED
    BY <1>20, <2>1, ExecutorIs
<1>11. \A r, n : Sub!AskedFor(r, n)' = Sub!AskedFor(r, n)
  BY <1>1, <1>22, AskedStays
<1>12. Sub!TypeOK'
  BY <1>1, <1>6, <1>9, <1>22 DEF Sub!TypeOK, SubagentInv, Workload
<1>14. Employed'
  <2>1. (exec'[e].phase = "idle" => exec'[e] = Sub!Idle) /\ (exec'[e].phase # "idle" => exec'[e].agent \in Sub!Created)
    BY <1>1, <1>8 DEF Sub!Idle
  <2> QED
    BY <1>8, <1>22, <2>1 DEF Employed, SubagentInv
<1>15. Attended'
  <2>1. \A d \in Executors : exec[d].phase \in {"running", "looping", "over"} => exec'[d] = exec[d]
    BY <1>1, <1>8 DEF Sub!Idle
  <2>2. \A c \in Sub!Created : sub'[c].status \in {"running", "paused"} =>
          sub[c].status \in {"running", "paused"} \/ (exec'[e].agent = c /\ exec'[e].phase = "running")
    <3>1. CASE sub[a].status = "created" /\ sub' = [sub EXCEPT ![a] = Sub!Moved(@, "queued")]
      BY <1>1, <3>1, StatusSet DEF Sub!Statuses, Sub!Created
    <3>2. CASE sub' = [sub EXCEPT ![a] = Sub!Moved(@, "running")] /\ exec' = [exec EXCEPT ![e] = X("running")]
      <4>1. \A c \in Agents \ {a} : sub'[c] = sub[c]
        BY <1>1, <3>2, StatusSet DEF Sub!Statuses
      <4>2. exec'[e].agent = a /\ exec'[e].phase = "running"
        BY <3>2, ExecutorIs
      <4> QED
        BY <4>1, <4>2 DEF Sub!Created
    <3>3. CASE sub' = sub
      BY <3>3
    <3> QED
      BY <1>20, <3>1, <3>2, <3>3
  <2> QED
    BY <1>1, <1>22, <2>1, <2>2, AttendanceStays
<1>16. Caused(l, role) /\ Kept(l, a)
  <2>1. Caused(sub[a].budget, role) /\ Kept(sub[a].budget, a) /\ Caused(limits[role], role)
    BY <1>1, <1>2 DEF SubagentInv, BudgetsAreDrawn
  <2>2. DOMAIN sub[a].budget \subseteq Sub!Limits
    BY <1>2, PartialIs
  <2> QED
    BY <1>3, <1>2, <1>4, <2>1, <2>2 DEF Caused, Kept
<1>17. BudgetsAreDrawn'
  <2>1. ASSUME NEW c \in Sub!Created PROVE Caused(sub[c].budget, sub[c].role)' /\ Kept(sub[c].budget, c)'
    <3>1. Caused(sub[c].budget, sub[c].role) /\ Kept(sub[c].budget, c)
      BY DEF SubagentInv, BudgetsAreDrawn
    <3> QED
      BY <1>1, <1>11, <1>22, <3>1 DEF Caused, Kept
  <2>2. ASSUME NEW d \in Executors, exec'[d].phase \notin {"idle", "starting"}
        PROVE  /\ DOMAIN exec'[d].budget = Sub!Limits
               /\ Caused(exec[d].budget, sub[exec[d].agent].role)' /\ Kept(exec[d].budget, exec[d].agent)'
    <3>1. CASE d = e
      <4>1. exec'[d].agent = a /\ exec'[d].budget = l
        BY <1>8, <2>2, <3>1 DEF Sub!Idle
      <4>2. sub'[a].role = role /\ DOMAIN l = Sub!Limits
        BY <1>1, <1>4, <1>22
      <4> QED
        BY <1>1, <1>11, <1>16, <4>1, <4>2 DEF Caused, Kept
    <3>2. CASE d # e
      <4>1. exec'[d] = exec[d]
        BY <1>8, <3>2
      <4>2. /\ DOMAIN exec[d].budget = Sub!Limits /\ exec[d].agent \in Sub!Created
            /\ Caused(exec[d].budget, sub[exec[d].agent].role) /\ Kept(exec[d].budget, exec[d].agent)
        BY <2>2, <4>1 DEF SubagentInv, BudgetsAreDrawn, Employed
      <4> QED
        BY <1>1, <1>11, <1>22, <4>1, <4>2 DEF Caused, Kept
    <3> QED
      BY <3>1, <3>2
  <2>3. ASSUME NEW r \in Roles PROVE Caused(limits[r], r)'
    <3>1. Caused(limits[r], r)
      BY DEF SubagentInv, BudgetsAreDrawn
    <3> QED
      BY <1>6, <1>11, <1>16, <3>1 DEF Caused
  <2> QED
    BY <1>22, <2>1, <2>2, <2>3 DEF BudgetsAreDrawn
<1> QED
  BY <1>12, <1>14, <1>15, <1>17, <1>22 DEF SubagentInv

\* Delegation keeps the invariant: a new subagent has not run, and its budget is what was asked for it.
LEMMA DelegateKeeps ==
  ASSUME SubagentInv, NEW a \in Agents, NEW r \in Roles, NEW o \in BudgetOverrides, Sub!Delegate(a, r, o)
  PROVE  SubagentInv'
<1> DEFINE new == Sub!NewSubagent(r, o)
<1>1. /\ sub[a] = Nobody /\ known' = known \cup {a} /\ sub' = [sub EXCEPT ![a] = new]
      /\ override' = [override EXCEPT ![a] = o] /\ UNCHANGED <<limits, exec, unattended>>
  BY DEF Sub!Delegate
<1>2. /\ sub \in [Agents -> Sub!SubagentObjects \cup {Nobody}]
      /\ override \in [Agents -> Sub!Partial] /\ known \subseteq Sub!Created /\ unattended \subseteq Sub!Created
      /\ limits \in [Roles -> [Sub!Limits -> Amounts]] /\ exec \in [Executors -> Workload]
  BY SubagentFields DEF SubagentInv, Workload
<1>4. a \notin Sub!Created /\ o \in Sub!Partial
  BY <1>1, SubagentConstants DEF Sub!Created
<1>5. /\ new \in Sub!SubagentObjects /\ new.role = r /\ new.status = "created" /\ new.budget = o
      /\ new.started = FALSE /\ new.ended = FALSE
  BY <1>4 DEF Sub!NewSubagent, Sub!SubagentObjects, Sub!Statuses
<1> HIDE DEF new
<1>8. /\ sub'[a] = new /\ (\A c \in Agents \ {a} : sub'[c] = sub[c])
      /\ sub' \in [Agents -> Sub!SubagentObjects \cup {Nobody}]
  BY <1>1, <1>2, <1>5
<1>9. Sub!Created' = Sub!Created \cup {a}
  BY <1>5, <1>8, SubagentConstants DEF Sub!Created
<1>10. \A c \in Sub!Created : sub'[c] = sub[c]
  BY <1>4, <1>8 DEF Sub!Created
<1>11. override'[a] = o /\ (\A c \in Agents \ {a} : override'[c] = override[c]) /\ override' \in [Agents -> Sub!Partial]
  BY <1>1, <1>2, <1>4
<1>13. \A q, n : Sub!AskedFor(q, n) \subseteq Sub!AskedFor(q, n)'
  <2> TAKE q, n
  <2>1. \A b \in Sub!Created : sub'[b].role = sub[b].role /\ override'[b] = override[b]
    BY <1>4, <1>10, <1>11, CreatedIs DEF SubagentInv
  <2> QED
    BY <1>9, <2>1 DEF Sub!AskedFor
<1>14. \A n \in DOMAIN o : o[n] \in Sub!AskedFor(r, n)'
  BY <1>5, <1>8, <1>9, <1>11 DEF Sub!AskedFor
<1>16. Sub!TypeOK'
  <2>2. exec' \in [Executors -> [agent : Sub!Created' \cup {Nobody}, phase : Sub!Phases, budget : Sub!Partial]]
    BY <1>1, <1>2, <1>9 DEF Workload
  <2>3. known' \subseteq Sub!Created' /\ unattended' \subseteq Sub!Created' /\ limits' \in [Roles -> [Sub!Limits -> Amounts]]
    BY <1>1, <1>2, <1>9
  <2> QED
    BY <1>8, <1>11, <2>2, <2>3 DEF Sub!TypeOK
<1>17. Sub!StampsMatchStatus'
  <2> SUFFICES ASSUME NEW c \in Sub!Created' PROVE Stamped(sub'[c])
    BY DEF Sub!StampsMatchStatus, Stamped
  <2>1. CASE c = a
    BY <1>5, <1>8, <2>1 DEF Stamped, Sub!Terminal
  <2>2. CASE c \in Sub!Created
    BY <1>10, <2>2 DEF Stamped, Sub!StampsMatchStatus, SubagentInv
  <2> QED
    BY <1>9, <2>1, <2>2
<1>18. Attended'
  <2> SUFFICES ASSUME NEW c \in Sub!Created', sub'[c].status \in {"running", "paused"} PROVE IsAttended(c)'
    BY DEF Attended
  <2>1. c \in Sub!Created /\ sub[c].status \in {"running", "paused"}
    BY <1>5, <1>8, <1>9, <1>10
  <2> QED
    BY <1>1, <2>1 DEF SubagentInv, Attended, IsAttended
<1>19. Employed'
  BY <1>1, <1>9 DEF Employed, SubagentInv
<1>20. BudgetsAreDrawn'
  <2>1. ASSUME NEW c \in Sub!Created' PROVE Caused(sub[c].budget, sub[c].role)' /\ Kept(sub[c].budget, c)'
    <3>1. CASE c = a
      BY <1>5, <1>8, <1>11, <1>14, <3>1 DEF Caused, Kept
    <3>2. CASE c \in Sub!Created
      <4>1. c \in Agents /\ c # a
        BY <1>4, <3>2 DEF Sub!Created
      <4>2. Caused(sub[c].budget, sub[c].role) /\ Kept(sub[c].budget, c)
        BY <3>2 DEF SubagentInv, BudgetsAreDrawn
      <4> QED
        BY <1>10, <1>11, <1>13, <3>2, <4>1, <4>2 DEF Caused, Kept
    <3> QED
      BY <1>9, <3>1, <3>2
  <2>2. ASSUME NEW d \in Executors, exec'[d].phase \notin {"idle", "starting"}
        PROVE  /\ DOMAIN exec'[d].budget = Sub!Limits
               /\ Caused(exec[d].budget, sub[exec[d].agent].role)' /\ Kept(exec[d].budget, exec[d].agent)'
    <3> DEFINE c == exec[d].agent
    <3>1. exec' = exec /\ c \in Sub!Created
      BY <1>1, <2>2 DEF SubagentInv, Employed
    <3>2. c \in Agents /\ c # a
      BY <1>4, <3>1 DEF Sub!Created
    <3>3. DOMAIN exec[d].budget = Sub!Limits /\ Caused(exec[d].budget, sub[c].role) /\ Kept(exec[d].budget, c)
      BY <2>2, <3>1 DEF SubagentInv, BudgetsAreDrawn
    <3>4. sub'[c].role = sub[c].role /\ override'[c] = override[c]
      BY <1>10, <1>11, <3>1, <3>2
    <3> QED
      BY <1>13, <3>1, <3>3, <3>4 DEF Caused, Kept
  <2>3. ASSUME NEW q \in Roles PROVE Caused(limits[q], q)'
    <3>1. Caused(limits[q], q)
      BY DEF SubagentInv, BudgetsAreDrawn
    <3> QED
      BY <1>1, <1>13, <3>1 DEF Caused
  <2> QED
    BY <2>1, <2>2, <2>3 DEF BudgetsAreDrawn
<1> QED
  BY <1>16, <1>17, <1>18, <1>19, <1>20 DEF SubagentInv

\* The invariant of subagents holds initially.
LEMMA SubagentInit == Sub!Init => SubagentInv
<1> SUFFICES ASSUME Sub!Init PROVE SubagentInv
  OBVIOUS
<1>1. Sub!Created = {}
  BY DEF Sub!Init, Sub!Created
<1>2. exec = [e \in Executors |-> Sub!Idle]
  BY DEF Sub!Init
<1>3. Sub!TypeOK
  <2>1. Sub!Idle \in [agent : Sub!Created \cup {Nobody}, phase : Sub!Phases, budget : Sub!Partial]
    BY EmptyIs DEF Sub!Idle, Sub!Phases
  <2>2. exec \in [Executors -> [agent : Sub!Created \cup {Nobody}, phase : Sub!Phases, budget : Sub!Partial]]
    BY <1>2, <2>1
  <2>3. override \in [Agents -> Sub!Partial]
    BY EmptyIs DEF Sub!Init
  <2> QED
    BY <1>1, <2>2, <2>3, SubagentConstants DEF Sub!Init, Sub!TypeOK
<1>4. Employed
  BY <1>2 DEF Employed, Sub!Idle
<1>5. BudgetsAreDrawn
  <2>1. \A r \in Roles : Caused(limits[r], r)
    BY DEF Sub!Init, Caused, Sub!AskedFor
  <2>2. \A e \in Executors : exec[e].phase = "idle"
    BY <1>2 DEF Sub!Idle
  <2> QED
    BY <1>1, <2>1, <2>2 DEF BudgetsAreDrawn
<1> QED
  BY <1>1, <1>3, <1>4, <1>5 DEF SubagentInv, Sub!StampsMatchStatus, Attended

\* Every step of subagents and executors keeps their invariant.
LEMMA SubagentSteps == SubagentInv /\ Sub!Next => SubagentInv'
<1> SUFFICES ASSUME SubagentInv, Sub!Next PROVE SubagentInv'
  OBVIOUS
<1>1. ASSUME NEW a \in Agents, NEW r \in Roles, NEW o \in BudgetOverrides, Sub!Delegate(a, r, o)
      PROVE  SubagentInv'
  BY <1>1, DelegateKeeps
<1>2. ASSUME NEW a \in Agents, Sub!Start(a) PROVE SubagentInv'
  BY <1>2, StartKeeps
<1>3. ASSUME NEW a \in Agents, Sub!Pause(a) \/ Sub!Resume(a) \/ Sub!Cancel(a) \/ Sub!Answer(a)
      PROVE  \E to : Sub!Call(a, to) /\ (to = "running" => sub[a].status = "paused")
  BY <1>3, SubagentConstants DEF Sub!Pause, Sub!Resume, Sub!Cancel, Sub!Answer
<1>4. ASSUME NEW a \in Agents, Sub!Pause(a) \/ Sub!Resume(a) \/ Sub!Cancel(a) \/ Sub!Answer(a) PROVE SubagentInv'
  BY <1>3, <1>4, CallKeeps
<1>5. ASSUME NEW a \in Agents, Sub!Remove(a) PROVE SubagentInv'
  BY <1>5, RemoveKeeps
<1>6. ASSUME NEW e \in Executors, Sub!Executing(e) PROVE SubagentInv'
  BY <1>6, StartNewEndsKeeps, RunKeeps, TakeBudgetKeeps, ExhaustKeeps, ReportKeeps DEF Sub!Executing
<1>7. ASSUME NEW e \in Executors, NEW a \in Agents, Sub!StartNew(e, a) \/ Sub!Execute(e, a) PROVE SubagentInv'
  BY <1>7, StartNewKeeps, ExecuteKeeps
<1> QED
  BY <1>1, <1>2, <1>3, <1>4, <1>5, <1>6, <1>7 DEF Sub!Next

\* Subagents that rest keep their invariant.
LEMMA SubagentRests == SubagentInv /\ UNCHANGED subagentVars => SubagentInv'
<1> SUFFICES ASSUME SubagentInv, UNCHANGED subagentVars PROVE SubagentInv'
  OBVIOUS
<1>1. UNCHANGED <<known, sub, override, limits, exec, unattended>>
  BY DEF subagentVars
<1>2. Sub!Created' = Sub!Created /\ Follows /\ Proceeds
  BY <1>1 DEF Sub!Created, Follows, Proceeds
<1>3. SubagentHolds'
  BY <1>1, <1>2, SubagentProceeds, SubagentFields DEF SubagentInv
<1>4. Attended'
  BY <1>1, <1>2 DEF SubagentInv, Attended, IsAttended
<1> QED
  BY <1>3, <1>4 DEF SubagentHolds, SubagentInv

\* What the runs check follows from the invariant.
LEMMA SubagentsOwe == SubagentInv => Sub!RunningIsExecuted /\ Sub!BudgetsHaveCause
<1> SUFFICES ASSUME SubagentInv PROVE Sub!RunningIsExecuted /\ Sub!BudgetsHaveCause
  OBVIOUS
<1>1. Sub!RunningIsExecuted
  BY DEF SubagentInv, Attended, IsAttended, Sub!RunningIsExecuted
<1>2. \A e \in Executors : exec[e].phase \notin {"idle", "starting"} => Kept(exec[e].budget, exec[e].agent)
  BY DEF SubagentInv, Employed, BudgetsAreDrawn
<1>3. \A r \in Roles, n \in Sub!Limits : limits[r][n] \in Sub!AskedFor(r, n)
  <2>1. limits \in [Roles -> [Sub!Limits -> Amounts]]
    BY SubagentFields DEF SubagentInv
  <2> QED
    BY <2>1 DEF SubagentInv, BudgetsAreDrawn, Caused
<1> QED
  BY <1>1, <1>2, <1>3 DEF Sub!BudgetsHaveCause, Kept

-----------------------------------------------------------------------------
(* Capacity. *)

\* Whoever holds a resource holds some of it.
CapacityInv ==
  /\ Cap!TypeOK /\ Cap!CapacityIsKept
  /\ \A w \in Workers : use[w].stage = "holding" => use[w].amount >= 1

\* What each thread may be doing.
Usages == [stage : {"idle", "waiting", "accepted", "holding"}, of : Resources, amount : 0..MostTaken]

\* Limits are numbers, there are finitely many threads, and they begin idle.
LEMMA CapacityConstants ==
  /\ LimitOf \in [Resources -> Nat] /\ MostTaken \in Nat \ {0} /\ IsFiniteSet(Workers)
  /\ Cap!Idle \in Usages /\ Cap!Idle.stage = "idle"
<1>1. LimitOf \in [Resources -> Nat] /\ MostTaken \in Nat \ {0} /\ Resources # {}
  BY RecordsAssumption DEF Cap!CapacityAssumption
<1>2. IsFiniteSet(Workers)
  BY RecordsAssumption DEF Cap!CapacityAssumption, Cap!IsFiniteSet, IsFiniteSet
<1>3. (CHOOSE r \in Resources : TRUE) \in Resources
  BY <1>1
<1> QED
  BY <1>1, <1>2, <1>3 DEF Cap!Idle, Usages

\* The instance counts as FiniteSets does.
LEMMA CapacityCounts == \A S : Cap!Cardinality(S) = Cardinality(S)
BY DEF Cap!Cardinality, Cardinality

\* The units that one thread holds are as many as it took.
LEMMA UnitsAre ==
  ASSUME NEW w, NEW n \in Nat
  PROVE  IsFiniteSet({w} \X (1..n)) /\ Cardinality({w} \X (1..n)) = n
<1>1. IsFiniteSet({w}) /\ Cardinality({w}) = 1
  BY FS_Singleton
<1>2. IsFiniteSet(1..n) /\ Cardinality(1..n) = n
  BY FS_Interval
<1>3. IsFiniteSet({w} \X (1..n)) /\ Cardinality({w} \X (1..n)) = Cardinality({w}) * Cardinality(1..n)
  BY <1>1, <1>2, FS_Product
<1> QED
  BY <1>1, <1>2, <1>3

\* The holders of a resource and what they hold of it can be counted, and what each of them
\* holds is part of it.
LEMMA HeldIs ==
  ASSUME CapacityInv, NEW r \in Resources
  PROVE  /\ IsFiniteSet(Cap!Holders(r)) /\ IsFiniteSet(Cap!Held(r)) /\ Cap!Holders(r) \subseteq Workers
         /\ usage[r] = Cardinality(Cap!Held(r)) /\ usage[r] \in Nat
         /\ Cardinality(Cap!Holders(r)) \in Nat /\ Cardinality(Cap!Holders(r)) <= LimitOf[r]
         /\ \A w \in Cap!Holders(r) : /\ use[w] \in Usages /\ use[w].amount \in 1..MostTaken
                                     /\ {w} \X (1..use[w].amount) \subseteq Cap!Held(r)
<1>1. use \in [Workers -> Usages] /\ usage \in [Resources -> Nat]
  BY DEF CapacityInv, Cap!TypeOK, Usages
<1>2. Cap!Holders(r) \subseteq Workers
  BY DEF Cap!Holders
<1>3. IsFiniteSet(Cap!Holders(r))
  BY <1>2, CapacityConstants, FS_Subset
<1>4. IsFiniteSet(Cap!Held(r))
  <2>1. IsFiniteSet(1..MostTaken)
    BY CapacityConstants, FS_Interval
  <2>2. IsFiniteSet(Workers \X (1..MostTaken))
    BY <2>1, CapacityConstants, FS_Product
  <2>3. Cap!Held(r) \in SUBSET (Workers \X (1..MostTaken))
    BY DEF Cap!Held
  <2> QED
    BY <2>2, <2>3, FS_Subset
<1>5. usage[r] = Cardinality(Cap!Held(r)) /\ Cardinality(Cap!Holders(r)) <= LimitOf[r]
  BY CapacityCounts DEF CapacityInv, Cap!CapacityIsKept
<1>6. Cardinality(Cap!Holders(r)) \in Nat
  BY <1>3, FS_CardinalityType
<1>7. ASSUME NEW w \in Cap!Holders(r)
      PROVE  /\ use[w] \in Usages /\ use[w].amount \in 1..MostTaken
             /\ {w} \X (1..use[w].amount) \subseteq Cap!Held(r)
  <2>1. w \in Workers /\ use[w].stage = "holding" /\ use[w] \in Usages
    BY <1>1 DEF Cap!Holders
  <2>2. use[w].amount \in 1..MostTaken
    BY <2>1, CapacityConstants DEF CapacityInv, Usages
  <2>3. {w} \X (1..use[w].amount) \subseteq Cap!Held(r)
    BY <2>1, <2>2, CapacityConstants DEF Cap!Held
  <2> QED
    BY <2>1, <2>2, <2>3
<1> QED
  BY <1>1, <1>2, <1>3, <1>4, <1>5, <1>6, <1>7

\* As long as there is capacity, fewer threads hold a resource than it has units.
LEMMA HoldersHaveUnits ==
  ASSUME CapacityInv, NEW r \in Resources
  PROVE  Cardinality(Cap!Holders(r)) <= usage[r]
<1> DEFINE first == {<<w, 1>> : w \in Cap!Holders(r)}
<1> DEFINE f == [w \in Cap!Holders(r) |-> <<w, 1>>]
<1>1. f \in Injection(Cap!Holders(r), Cap!Held(r))
  <2>1. \A w \in Cap!Holders(r) : f[w] \in Cap!Held(r)
    <3> TAKE w \in Cap!Holders(r)
    <3>1. use[w].amount \in 1..MostTaken /\ {w} \X (1..use[w].amount) \subseteq Cap!Held(r)
      BY HeldIs
    <3>2. 1 \in 1..use[w].amount
      BY <3>1, CapacityConstants
    <3> QED
      BY <3>1, <3>2
  <2>2. \A v, w \in Cap!Holders(r) : f[v] = f[w] => v = w
    OBVIOUS
  <2> QED
    BY <2>1, <2>2, Fun_IsInj
<1>2. Cardinality(Cap!Holders(r)) <= Cardinality(Cap!Held(r))
  BY <1>1, HeldIs, FS_Injection
<1> QED
  BY <1>2, HeldIs

\* A step that neither takes nor gives back.
LEMMA NothingTaken ==
  ASSUME CapacityInv, NEW w \in Workers, NEW u \in Usages, use[w].stage # "holding", u.stage # "holding",
         use' = [use EXCEPT ![w] = u], UNCHANGED usage
  PROVE  CapacityInv'
<1>1. use \in [Workers -> Usages] /\ usage \in [Resources -> Nat]
  BY DEF CapacityInv, Cap!TypeOK, Usages
<1>2. use' \in [Workers -> Usages] /\ use'[w] = u /\ \A v \in Workers \ {w} : use'[v] = use[v]
  BY <1>1
<1>3. \A r : Cap!Holders(r)' = Cap!Holders(r)
  BY <1>2 DEF Cap!Holders
<1>4. \A r : Cap!Held(r)' = Cap!Held(r)
  <2>1. \A r : \A v \in Cap!Holders(r) : use'[v] = use[v]
    BY <1>2 DEF Cap!Holders
  <2> QED
    BY <1>3, <2>1 DEF Cap!Held
<1>5. Cap!CapacityIsKept'
  BY <1>3, <1>4 DEF CapacityInv, Cap!CapacityIsKept
<1>6. Cap!TypeOK'
  BY <1>1, <1>2 DEF Cap!TypeOK, Usages
<1>7. \A v \in Workers : use'[v].stage = "holding" => use'[v].amount >= 1
  BY <1>2 DEF CapacityInv
<1> QED
  BY <1>5, <1>6, <1>7 DEF CapacityInv

\* Taking a resource keeps its sum and its limit.
LEMMA TakenIs ==
  ASSUME CapacityInv, NEW w \in Workers, NEW r \in Resources, NEW n \in 1..MostTaken, use[w].stage = "accepted",
         ~Cap!Exhausted(r), usage' = [usage EXCEPT ![r] = @ + n],
         use' = [use EXCEPT ![w] = [stage |-> "holding", of |-> r, amount |-> n]]
  PROVE  CapacityInv'
<1> DEFINE u == [stage |-> "holding", of |-> r, amount |-> n]
<1>1. use \in [Workers -> Usages] /\ usage \in [Resources -> Nat] /\ n \in Nat /\ n >= 1 /\ n <= MostTaken
  BY CapacityConstants DEF CapacityInv, Cap!TypeOK, Usages
<1>2. u \in Usages /\ u.stage = "holding" /\ u.of = r /\ u.amount = n
  BY <1>1 DEF Usages
<1> HIDE DEF u
<1>3. use' \in [Workers -> Usages] /\ use'[w] = u /\ \A v \in Workers \ {w} : use'[v] = use[v]
  BY <1>1, <1>2 DEF u
<1>4. usage' \in [Resources -> Nat] /\ usage'[r] = usage[r] + n /\ \A q \in Resources \ {r} : usage'[q] = usage[q]
  BY <1>1
<1>5. Cap!Holders(r)' = Cap!Holders(r) \cup {w} /\ w \notin Cap!Holders(r)
  BY <1>2, <1>3 DEF Cap!Holders
<1>6. \A q \in Resources \ {r} : Cap!Holders(q)' = Cap!Holders(q)
  BY <1>2, <1>3 DEF Cap!Holders
<1>7. \A q : \A v \in Cap!Holders(q) : use'[v] = use[v]
  BY <1>3 DEF Cap!Holders
<1>8. \A q \in Resources \ {r} : Cap!Held(q)' = Cap!Held(q)
  BY <1>6, <1>7 DEF Cap!Held
<1>9. Cap!Held(r)' = Cap!Held(r) \cup ({w} \X (1..n)) /\ Cap!Held(r) \cap ({w} \X (1..n)) = {}
  <2>1. ASSUME NEW v \in Workers, NEW k \in 1..MostTaken
        PROVE  <<v, k>> \in Cap!Held(r)' <=> <<v, k>> \in Cap!Held(r) \/ (v = w /\ k <= n)
    <3>1. <<v, k>> \in Cap!Held(r)' <=> v \in Cap!Holders(r)' /\ k <= use'[v].amount
      BY DEF Cap!Held
    <3>2. <<v, k>> \in Cap!Held(r) <=> v \in Cap!Holders(r) /\ k <= use[v].amount
      BY DEF Cap!Held
    <3> QED
      BY <1>2, <1>3, <1>5, <1>7, <3>1, <3>2
  <2>2. Cap!Held(r)' \subseteq Workers \X (1..MostTaken) /\ Cap!Held(r) \subseteq Workers \X (1..MostTaken)
    BY DEF Cap!Held
  <2>3. {w} \X (1..n) \subseteq Workers \X (1..MostTaken)
    BY <1>1, CapacityConstants
  <2>4. \A x \in Workers \X (1..MostTaken) : x \in {w} \X (1..n) <=> x[1] = w /\ x[2] <= n
    BY <1>1, CapacityConstants
  <2>5. \A x \in Cap!Held(r) : x[1] # w
    BY <1>5 DEF Cap!Held
  <2> QED
    BY <2>1, <2>2, <2>3, <2>4, <2>5
<1>10. Cardinality(Cap!Held(r)') = usage'[r]
  <2>1. IsFiniteSet(Cap!Held(r)) /\ usage[r] = Cardinality(Cap!Held(r))
    BY HeldIs
  <2>2. IsFiniteSet({w} \X (1..n)) /\ Cardinality({w} \X (1..n)) = n
    BY <1>1, UnitsAre
  <2>3. Cardinality(Cap!Held(r) \cup ({w} \X (1..n))) = Cardinality(Cap!Held(r)) + Cardinality({w} \X (1..n))
                                                      - Cardinality(Cap!Held(r) \cap ({w} \X (1..n)))
    BY <2>1, <2>2, FS_Union
  <2>4. Cardinality(Cap!Held(r) \cap ({w} \X (1..n))) = 0
    BY <1>9, FS_EmptySet
  <2> QED
    BY <1>1, <1>4, <1>9, <2>1, <2>2, <2>3, <2>4
<1>11. usage[r] < LimitOf[r] /\ LimitOf[r] \in Nat
  BY <1>1, CapacityConstants DEF Cap!Exhausted
<1>12. Cardinality(Cap!Holders(r)') <= LimitOf[r]
  <2>1. Cardinality(Cap!Holders(r)) <= usage[r] /\ Cardinality(Cap!Holders(r)) \in Nat
    BY HeldIs, HoldersHaveUnits
  <2>2. Cardinality(Cap!Holders(r)') = Cardinality(Cap!Holders(r)) + 1
    BY <1>5, HeldIs, FS_AddElement
  <2> QED
    BY <1>1, <1>11, <2>1, <2>2
<1>13. usage'[r] <= LimitOf[r] + MostTaken - 1
  BY <1>1, <1>4, <1>11, CapacityConstants
<1>14. Cap!CapacityIsKept'
  <2>1. ASSUME NEW q \in Resources
        PROVE  /\ usage'[q] = Cardinality(Cap!Held(q)') /\ Cardinality(Cap!Holders(q)') <= LimitOf[q]
               /\ usage'[q] <= LimitOf[q] + MostTaken - 1 \/ usage'[q] = 0
    <3>1. CASE q = r
      BY <1>10, <1>12, <1>13, <3>1
    <3>2. CASE q # r
      BY <1>4, <1>6, <1>8, <3>2, CapacityCounts DEF CapacityInv, Cap!CapacityIsKept
    <3> QED
      BY <3>1, <3>2
  <2> QED
    BY <2>1, CapacityCounts DEF Cap!CapacityIsKept
<1>15. Cap!TypeOK'
  BY <1>3, <1>4 DEF Cap!TypeOK, Usages
<1>16. \A v \in Workers : use'[v].stage = "holding" => use'[v].amount >= 1
  BY <1>1, <1>2, <1>3 DEF CapacityInv
<1> QED
  BY <1>14, <1>15, <1>16 DEF CapacityInv

\* Releasing a resource keeps its sum and its limit.
LEMMA ReleasedIs ==
  ASSUME CapacityInv, NEW w \in Workers, Cap!Release(w), NEW r, r = use[w].of, NEW n, n = use[w].amount
  PROVE  CapacityInv'
<1>1. use \in [Workers -> Usages] /\ usage \in [Resources -> Nat] /\ use[w].stage = "holding" /\ r \in Resources
  BY DEF CapacityInv, Cap!TypeOK, Usages, Cap!Release
<1>2. w \in Cap!Holders(r)
  BY <1>1 DEF Cap!Holders
<1>3. n \in 1..MostTaken /\ n \in Nat /\ {w} \X (1..n) \subseteq Cap!Held(r)
  BY <1>1, <1>2, HeldIs
<1>4. IsFiniteSet({w} \X (1..n)) /\ Cardinality({w} \X (1..n)) = n
  BY <1>3, UnitsAre
<1>5. IsFiniteSet(Cap!Held(r)) /\ usage[r] = Cardinality(Cap!Held(r)) /\ usage[r] \in Nat
  BY <1>1, HeldIs
<1>6. n <= usage[r]
  BY <1>3, <1>4, <1>5, FS_Subset
<1>7. Cardinality(Cap!Held(r) \ ({w} \X (1..n))) = usage[r] - n
  <2>1. Cap!Held(r) \cap ({w} \X (1..n)) = {w} \X (1..n)
    BY <1>3
  <2>2. Cardinality(Cap!Held(r) \ ({w} \X (1..n))) = Cardinality(Cap!Held(r)) - Cardinality(Cap!Held(r) \cap ({w} \X (1..n)))
    BY <1>5, FS_Difference
  <2> QED
    BY <1>4, <1>5, <2>1, <2>2
<1>8. use' = [use EXCEPT ![w] = Cap!Idle] /\ usage' = [usage EXCEPT ![r] = IF @ >= n THEN @ - n ELSE 0]
  BY DEF Cap!Release
<1>9. usage' = [usage EXCEPT ![r] = usage[r] - n] /\ usage[r] - n \in Nat
  BY <1>1, <1>3, <1>5, <1>6, <1>8
<1>10. usage' \in [Resources -> Nat] /\ usage'[r] = usage[r] - n /\ \A q \in Resources \ {r} : usage'[q] = usage[q]
  BY <1>1, <1>9
<1>11. use' \in [Workers -> Usages] /\ use'[w].stage = "idle" /\ \A v \in Workers \ {w} : use'[v] = use[v]
  BY <1>1, <1>8, CapacityConstants
<1>12. Cap!Holders(r)' = Cap!Holders(r) \ {w} /\ \A q \in Resources \ {r} : Cap!Holders(q)' = Cap!Holders(q)
  BY <1>1, <1>11 DEF Cap!Holders
<1>13. \A q \in Resources \ {r} : Cap!Held(q)' = Cap!Held(q)
  <2>1. \A q \in Resources \ {r} : \A v \in Cap!Holders(q) : use'[v] = use[v]
    BY <1>1, <1>11 DEF Cap!Holders
  <2> QED
    BY <1>12, <2>1 DEF Cap!Held
<1>14. Cap!Held(r)' = Cap!Held(r) \ ({w} \X (1..n))
  <2>1. ASSUME NEW v \in Workers, NEW k \in 1..MostTaken
        PROVE  <<v, k>> \in Cap!Held(r)' <=> <<v, k>> \in Cap!Held(r) /\ v # w
    <3>1. <<v, k>> \in Cap!Held(r)' <=> v \in Cap!Holders(r)' /\ k <= use'[v].amount
      BY DEF Cap!Held
    <3>2. <<v, k>> \in Cap!Held(r) <=> v \in Cap!Holders(r) /\ k <= use[v].amount
      BY DEF Cap!Held
    <3> QED
      BY <1>11, <1>12, <3>1, <3>2
  <2>2. Cap!Held(r)' \subseteq Workers \X (1..MostTaken) /\ Cap!Held(r) \subseteq Workers \X (1..MostTaken)
    BY DEF Cap!Held
  <2>3. \A x \in Cap!Held(r) : x \in {w} \X (1..n) <=> x[1] = w
    BY <1>3 DEF Cap!Held
  <2> QED
    BY <2>1, <2>2, <2>3
<1>15. Cap!CapacityIsKept'
  <2>1. ASSUME NEW q \in Resources
        PROVE  /\ usage'[q] = Cardinality(Cap!Held(q)') /\ Cardinality(Cap!Holders(q)') <= LimitOf[q]
               /\ usage'[q] <= LimitOf[q] + MostTaken - 1 \/ usage'[q] = 0
    <3>1. CASE q = r
      <4>1. usage'[r] = Cardinality(Cap!Held(r)')
        BY <1>7, <1>10, <1>14
      <4>2. Cardinality(Cap!Holders(r)') <= LimitOf[r]
        <5>1. Cardinality(Cap!Holders(r) \ {w}) = Cardinality(Cap!Holders(r)) - 1
          BY <1>1, <1>2, HeldIs, FS_RemoveElement
        <5>2. Cardinality(Cap!Holders(r)) \in Nat /\ Cardinality(Cap!Holders(r)) <= LimitOf[r] /\ LimitOf[r] \in Nat
          BY <1>1, HeldIs, CapacityConstants
        <5> QED
          BY <1>12, <5>1, <5>2
      <4>3. usage[r] <= LimitOf[r] + MostTaken - 1 \/ usage[r] = 0
        BY <1>1 DEF CapacityInv, Cap!CapacityIsKept
      <4>4. usage'[r] <= LimitOf[r] + MostTaken - 1 \/ usage'[r] = 0
        BY <1>1, <1>3, <1>5, <1>6, <1>10, <4>3, CapacityConstants
      <4> QED
        BY <3>1, <4>1, <4>2, <4>4
    <3>2. CASE q # r
      BY <1>10, <1>12, <1>13, <3>2, CapacityCounts DEF CapacityInv, Cap!CapacityIsKept
    <3> QED
      BY <3>1, <3>2
  <2> QED
    BY <2>1, CapacityCounts DEF Cap!CapacityIsKept
<1>16. Cap!TypeOK'
  BY <1>10, <1>11 DEF Cap!TypeOK, Usages
<1>17. \A v \in Workers : use'[v].stage = "holding" => use'[v].amount >= 1
  BY <1>11 DEF CapacityInv
<1> QED
  BY <1>15, <1>16, <1>17 DEF CapacityInv

\* The invariant of capacity holds initially.
LEMMA CapacityInit == Cap!Init => CapacityInv
<1> SUFFICES ASSUME Cap!Init PROVE CapacityInv
  OBVIOUS
<1>1. use = [w \in Workers |-> Cap!Idle] /\ usage = [r \in Resources |-> 0]
  BY DEF Cap!Init
<1>2. \A r : Cap!Holders(r) = {}
  BY <1>1, CapacityConstants DEF Cap!Holders
<1>3. \A r : Cap!Held(r) = {}
  BY <1>2 DEF Cap!Held
<1>4. Cap!Cardinality({}) = 0
  BY CapacityCounts, FS_EmptySet
<1>5. Cap!CapacityIsKept
  BY <1>1, <1>2, <1>3, <1>4, CapacityConstants DEF Cap!CapacityIsKept
<1> QED
  BY <1>1, <1>5, CapacityConstants DEF CapacityInv, Cap!TypeOK, Usages

\* Every step of a thread that asks, waits, takes or releases keeps the invariant of capacity.
LEMMA CapacitySteps == CapacityInv /\ Cap!Next => CapacityInv'
<1> SUFFICES ASSUME CapacityInv, NEW w \in Workers,
                    Cap!CheckCapacity(w) \/ Cap!WaitForCapacity(w) \/ Cap!Acquire(w) \/ Cap!Release(w)
             PROVE  CapacityInv'
  BY DEF Cap!Next
<1>1. use \in [Workers -> Usages] /\ use[w] \in Usages /\ usage \in [Resources -> Nat]
  BY DEF CapacityInv, Cap!TypeOK, Usages
<1>2. \A s \in {"idle", "waiting", "accepted"} : [use[w] EXCEPT !.stage = s] \in Usages /\ [use[w] EXCEPT !.stage = s].stage = s
  BY <1>1 DEF Usages
<1>3. ASSUME NEW s \in {"idle", "waiting", "accepted"}, Cap!Stage(w, s), UNCHANGED usage, use[w].stage # "holding"
      PROVE  CapacityInv'
  <2>1. use' = [use EXCEPT ![w] = [use[w] EXCEPT !.stage = s]]
    BY <1>1, <1>3 DEF Cap!Stage
  <2> QED
    BY <1>2, <1>3, <2>1, NothingTaken
<1>4. CASE Cap!CheckCapacity(w)
  <2>1. PICK r \in Resources, refusal \in Cap!Refusals :
          use' = [use EXCEPT ![w] = [Cap!Idle EXCEPT !.of = r, !.stage = IF ~Cap!Exhausted(r) THEN "accepted"
                                                                          ELSE IF refusal = "queue" THEN "waiting" ELSE "idle"]]
    BY <1>4 DEF Cap!CheckCapacity
  <2> DEFINE u == [Cap!Idle EXCEPT !.of = r, !.stage = IF ~Cap!Exhausted(r) THEN "accepted"
                                                       ELSE IF refusal = "queue" THEN "waiting" ELSE "idle"]
  <2>2. u \in Usages /\ u.stage # "holding"
    BY CapacityConstants DEF Usages
  <2>3. use' = [use EXCEPT ![w] = u] /\ UNCHANGED usage /\ use[w].stage # "holding"
    BY <1>4, <2>1 DEF Cap!CheckCapacity
  <2> HIDE DEF u
  <2> QED
    BY <2>2, <2>3, NothingTaken
<1>5. CASE Cap!WaitForCapacity(w)
  BY <1>3, <1>5 DEF Cap!WaitForCapacity
<1>6. CASE Cap!Acquire(w)
  <2>1. use[w].stage = "accepted" /\ use[w].of \in Resources
    BY <1>1, <1>6 DEF Cap!Acquire, Usages
  <2>2. CASE Cap!MayTake(use[w].of)
    <3>1. PICK n \in 1..MostTaken :
            /\ usage' = [usage EXCEPT ![use[w].of] = @ + n]
            /\ use' = [use EXCEPT ![w] = [stage |-> "holding", of |-> use[w].of, amount |-> n]]
      BY <1>6, <2>2 DEF Cap!Acquire
    <3> QED
      BY <2>1, <2>2, <3>1, TakenIs DEF Cap!MayTake
  <2>3. CASE ~Cap!MayTake(use[w].of)
    BY <1>3, <1>6, <2>1, <2>3 DEF Cap!Acquire
  <2> QED
    BY <2>2, <2>3
<1>7. CASE Cap!Release(w)
  BY <1>7, ReleasedIs
<1> QED
  BY <1>4, <1>5, <1>6, <1>7

\* Capacity that rests keeps its invariant.
LEMMA CapacityRests == CapacityInv /\ UNCHANGED capacityVars => CapacityInv'
<1> SUFFICES ASSUME CapacityInv, UNCHANGED capacityVars PROVE CapacityInv'
  OBVIOUS
<1>1. UNCHANGED <<usage, use>>
  BY DEF capacityVars
<1> QED
  BY <1>1 DEF CapacityInv, Cap!TypeOK, Cap!CapacityIsKept, Cap!Holders, Cap!Held

-----------------------------------------------------------------------------
(* MCP. *)

\* The tables agree, somebody waits for every start, and what is barred is blocked.
McpInv ==
  /\ Mcp!TypeOK /\ Mcp!RegistryAgrees /\ Mcp!InitializingIsWaitedFor
  /\ barred \subseteq blocked

\* No server is called nothing, and policies are permissions.
LEMMA McpConstants ==
  /\ Nothing \notin RemoteServers /\ Nothing \notin Mcp!Entries /\ MaxProcesses \in Nat
  /\ McpPolicies \subseteq Mcp!Permissions
BY RecordsAssumption DEF Mcp!McpAssumption

\* The fields of the MCP manager, as its type invariant has them.
LEMMA McpTypes ==
  ASSUME McpInv
  PROVE  /\ entry \in [RemoteServers -> Mcp!Entries \cup {Nothing}] /\ tools \in [McpIds -> RemoteServers \cup {Nothing}]
         /\ task \in [StartTasks -> RemoteServers \cup {Nothing}] /\ processes \in [RemoteServers -> 0..MaxProcesses]
         /\ blocked \subseteq Mcp!FullIds /\ permitted \subseteq Mcp!FullIds /\ barred \subseteq Mcp!FullIds
         /\ policy \in [RemoteServers -> Mcp!Permissions]
         /\ contested \subseteq McpIds /\ cancelled \subseteq RemoteServers
         /\ \A s \in RemoteServers : Mcp!Known(s) =>
              /\ entry[s] \in Mcp!Entries /\ entry[s].status \in Mcp!Statuses /\ entry[s].tools \subseteq McpIds
BY DEF McpInv, Mcp!TypeOK, Mcp!Known, Mcp!Entries

\* The server has an entry that lists the id, now and in the next state.
Offers(s, id) == Mcp!Known(s) /\ id \in entry[s].tools
OffersNext(s, id) == entry'[s] # Nothing /\ id \in entry'[s].tools

\* What it means that the registry agrees, server by server.
LEMMA RegistryIs ==
  Mcp!RegistryAgrees <=>
    \A id \in McpIds : /\ tools[id] # Nothing => tools[id] \in RemoteServers /\ Offers(tools[id], id)
                       /\ id \in contested \/ \A s \in RemoteServers : Offers(s, id) => tools[id] = s
BY DEF Mcp!RegistryAgrees, Mcp!Offering, Offers, Mcp!Known

\* The same of the next state.
LEMMA RegistryIsNext ==
  Mcp!RegistryAgrees' <=>
    \A id \in McpIds : /\ tools'[id] # Nothing => tools'[id] \in RemoteServers /\ OffersNext(tools'[id], id)
                       /\ id \in contested' \/ \A s \in RemoteServers : OffersNext(s, id) => tools'[id] = s
BY DEF Mcp!RegistryAgrees, Mcp!Offering, OffersNext, Mcp!Known

\* As long as the tables and what the servers offer stay, they agree.
LEMMA RegistryStays ==
  ASSUME McpInv, UNCHANGED <<tools, contested>>,
         \A s \in RemoteServers : \A id : OffersNext(s, id) <=> Offers(s, id)
  PROVE  Mcp!RegistryAgrees'
<1>1. \A id \in McpIds : /\ tools[id] # Nothing => tools[id] \in RemoteServers /\ Offers(tools[id], id)
                         /\ id \in contested \/ \A s \in RemoteServers : Offers(s, id) => tools[id] = s
  BY RegistryIs DEF McpInv
<1> QED
  BY <1>1, RegistryIsNext

\* What a permission is set to touches neither the registry nor the tasks.
LEMMA PermissionsKeep ==
  ASSUME McpInv, UNCHANGED <<entry, tools, contested, cancelled, task, processes>>,
         blocked' \subseteq Mcp!FullIds, permitted' \subseteq Mcp!FullIds, barred' \subseteq blocked',
         policy' \in [RemoteServers -> Mcp!Permissions]
  PROVE  McpInv'
<1>1. Mcp!TypeOK'
  BY DEF McpInv, Mcp!TypeOK
<1>2. Mcp!RegistryAgrees'
  BY RegistryStays DEF Offers, OffersNext, Mcp!Known
<1>3. Mcp!InitializingIsWaitedFor'
  BY DEF McpInv, Mcp!InitializingIsWaitedFor, Mcp!Known
<1> QED
  BY <1>1, <1>2, <1>3 DEF McpInv

\* One server's entry is changed: what is left to show is about that one, and that the tables agree.
LEMMA EntryKeeps ==
  ASSUME McpInv, NEW s \in RemoteServers, NEW e \in Mcp!Entries \cup {Nothing}, entry' = [entry EXCEPT ![s] = e],
         UNCHANGED <<blocked, permitted, policy, barred>>, contested' \subseteq McpIds, cancelled' \subseteq RemoteServers,
         tools' \in [McpIds -> RemoteServers \cup {Nothing}], Mcp!RegistryAgrees',
         task' \in [StartTasks -> RemoteServers \cup {Nothing}], processes' \in [RemoteServers -> 0..MaxProcesses],
         e # Nothing /\ e.status = "initializing" => s \in cancelled' \/ \E t \in StartTasks : task'[t] = s,
         \A t \in StartTasks : task[t] # Nothing /\ task'[t] # task[t] => task[t] = s,
         cancelled \ cancelled' \subseteq {s}
  PROVE  McpInv'
<1>1. /\ entry' \in [RemoteServers -> Mcp!Entries \cup {Nothing}] /\ entry'[s] = e
      /\ \A o \in RemoteServers \ {s} : entry'[o] = entry[o]
  BY McpTypes
<1>2. Mcp!TypeOK'
  BY <1>1 DEF McpInv, Mcp!TypeOK
<1>3. Mcp!InitializingIsWaitedFor'
  <2> SUFFICES ASSUME NEW o \in RemoteServers, entry'[o] # Nothing, entry'[o].status = "initializing"
               PROVE  o \in cancelled' \/ \E t \in StartTasks : task'[t] = o
    BY DEF Mcp!InitializingIsWaitedFor, Mcp!Known
  <2>1. CASE o = s
    BY <1>1, <2>1
  <2>2. CASE o # s
    <3>1. o \in cancelled \/ \E t \in StartTasks : task[t] = o
      BY <1>1, <2>2 DEF McpInv, Mcp!InitializingIsWaitedFor, Mcp!Known
    <3> QED
      BY <2>2, <3>1, McpConstants
  <2> QED
    BY <2>1, <2>2
<1> QED
  BY <1>2, <1>3 DEF McpInv

\* A server's entry gets a status and keeps its tools.
LEMMA StatusKeeps ==
  ASSUME McpInv, NEW s \in RemoteServers, Mcp!Known(s), NEW x \in Mcp!Statuses \ {"initializing"},
         entry' = [entry EXCEPT ![s].status = x],
         UNCHANGED <<tools, contested, cancelled, processes, blocked, permitted, policy, barred>>,
         task' \in [StartTasks -> RemoteServers \cup {Nothing}],
         \A t \in StartTasks : task[t] # Nothing /\ task'[t] # task[t] => task[t] = s
  PROVE  McpInv'
<1> DEFINE e == [entry[s] EXCEPT !.status = x]
<1>1. entry[s] \in Mcp!Entries
  BY McpTypes
<1>2. e \in Mcp!Entries /\ e # Nothing /\ e.tools = entry[s].tools /\ e.status = x
  BY <1>1, McpConstants DEF Mcp!Entries
<1>3. entry' = [entry EXCEPT ![s] = e]
  OBVIOUS
<1> HIDE DEF e
<1>4. \A o \in RemoteServers : \A id : OffersNext(o, id) <=> Offers(o, id)
  BY <1>2, <1>3, McpTypes DEF OffersNext, Offers, Mcp!Known
<1>5. Mcp!RegistryAgrees'
  BY <1>4, RegistryStays
<1>6. /\ processes' \in [RemoteServers -> 0..MaxProcesses] /\ tools' \in [McpIds -> RemoteServers \cup {Nothing}]
      /\ contested' \subseteq McpIds /\ cancelled' \subseteq RemoteServers
  BY McpTypes
<1> QED
  BY <1>2, <1>3, <1>5, <1>6, EntryKeeps

\* Registering a server that is not known keeps the invariant.
LEMMA RegisteredKeeps ==
  ASSUME McpInv, NEW s \in RemoteServers, NEW x \in Mcp!Statuses, Mcp!Registered(s, x),
         task' \in [StartTasks -> RemoteServers \cup {Nothing}], processes' \in [RemoteServers -> 0..MaxProcesses],
         \A t \in StartTasks : task[t] # Nothing => task'[t] = task[t],
         x = "initializing" => \E t \in StartTasks : task'[t] = s
  PROVE  McpInv'
<1> DEFINE e == [status |-> x, tools |-> {}]
<1>1. e \in Mcp!Entries /\ e # Nothing /\ e.tools = {} /\ e.status = x
  BY McpConstants DEF Mcp!Entries
<1>2. /\ entry' = [entry EXCEPT ![s] = e] /\ cancelled' = cancelled \ {s} /\ ~Mcp!Known(s)
      /\ UNCHANGED <<tools, contested, blocked, permitted, policy, barred>>
  BY DEF Mcp!Registered, Mcp!permissions
<1> HIDE DEF e
<1>3. \A o \in RemoteServers : \A id : OffersNext(o, id) <=> Offers(o, id)
  BY <1>1, <1>2, McpTypes DEF OffersNext, Offers, Mcp!Known
<1>4. Mcp!RegistryAgrees'
  BY <1>2, <1>3, RegistryStays
<1>5. /\ tools' \in [McpIds -> RemoteServers \cup {Nothing}] /\ contested' \subseteq McpIds /\ cancelled' \subseteq RemoteServers
  BY <1>2, McpTypes
<1> QED
  BY <1>1, <1>2, <1>4, <1>5, EntryKeeps

\* Every step of the MCP manager and its start tasks keeps their invariant.
LEMMA McpSteps == McpInv /\ Mcp!Next => McpInv'
<1> SUFFICES ASSUME McpInv, Mcp!Next PROVE McpInv'
  OBVIOUS
<1> USE DEF Mcp!registry, Mcp!permissions
<1>1. ASSUME NEW t \in StartTasks, NEW s \in RemoteServers, Mcp!Start(t, s) PROVE McpInv'
  <2>1. /\ task' = [task EXCEPT ![t] = s] /\ task[t] = Nothing /\ processes' = [processes EXCEPT ![s] = @ + 1]
        /\ processes[s] < MaxProcesses /\ Mcp!Registered(s, "initializing")
    BY <1>1 DEF Mcp!Start, Mcp!Initialize, Mcp!Request
  <2>2. task' \in [StartTasks -> RemoteServers \cup {Nothing}] /\ task'[t] = s /\ \A u \in StartTasks \ {t} : task'[u] = task[u]
    BY <2>1, McpTypes
  <2>3. processes' \in [RemoteServers -> 0..MaxProcesses]
    <3>1. processes[s] \in 0..MaxProcesses /\ processes \in [RemoteServers -> 0..MaxProcesses]
      BY McpTypes
    <3>2. processes[s] + 1 \in 0..MaxProcesses
      BY <2>1, <3>1, McpConstants
    <3> QED
      BY <2>1, <3>1, <3>2
  <2>4. \A u \in StartTasks : task[u] # Nothing => task'[u] = task[u]
    BY <2>1, <2>2
  <2> QED
    BY <2>1, <2>2, <2>3, <2>4, RegisteredKeeps DEF Mcp!Statuses
<1>2. ASSUME NEW s \in RemoteServers, Mcp!StartFails(s) PROVE McpInv'
  BY <1>2, McpTypes, RegisteredKeeps DEF Mcp!StartFails, Mcp!Statuses
<1>3. ASSUME NEW t \in StartTasks, Mcp!TimeOut(t) PROVE McpInv'
  <2> DEFINE s == task[t]
  <2>1. /\ s \in RemoteServers /\ task' = [task EXCEPT ![t] = Nothing] /\ entry' = Mcp!WithStatus(s, "error")
        /\ UNCHANGED <<tools, contested, cancelled, processes, blocked, permitted, policy, barred>>
    BY <1>3, McpTypes DEF Mcp!TimeOut
  <2>2. task' \in [StartTasks -> RemoteServers \cup {Nothing}] /\ \A u \in StartTasks \ {t} : task'[u] = task[u]
    BY <2>1, McpTypes
  <2>3. CASE Mcp!Known(s)
    <3>1. entry' = [entry EXCEPT ![s].status = "error"]
      BY <2>1, <2>3 DEF Mcp!WithStatus
    <3> QED
      BY <2>1, <2>2, <2>3, <3>1, StatusKeeps DEF Mcp!Statuses
  <2>4. CASE ~Mcp!Known(s)
    <3>1. entry' = entry
      BY <2>1, <2>4 DEF Mcp!WithStatus
    <3>2. Mcp!TypeOK'
      BY <2>1, <2>2, <3>1 DEF McpInv, Mcp!TypeOK
    <3>3. Mcp!RegistryAgrees'
      BY <2>1, <3>1, RegistryStays DEF Offers, OffersNext, Mcp!Known
    <3>4. Mcp!InitializingIsWaitedFor'
      <4> SUFFICES ASSUME NEW o \in RemoteServers, entry[o] # Nothing, entry[o].status = "initializing"
                   PROVE  o \in cancelled \/ \E u \in StartTasks : task'[u] = o
        BY <2>1, <3>1 DEF Mcp!InitializingIsWaitedFor, Mcp!Known
      <4>1. o \in cancelled \/ \E u \in StartTasks : task[u] = o
        BY DEF McpInv, Mcp!InitializingIsWaitedFor, Mcp!Known
      <4> QED
        BY <2>2, <2>4, <4>1 DEF Mcp!Known
    <3> QED
      BY <2>1, <3>2, <3>3, <3>4 DEF McpInv
  <2> QED
    BY <2>3, <2>4
<1>4. ASSUME NEW t \in StartTasks, Mcp!Cancel(t) PROVE McpInv'
  <2> DEFINE s == task[t]
  <2>1. /\ s \in RemoteServers /\ task' = [task EXCEPT ![t] = Nothing]
        /\ cancelled' = IF Mcp!Known(s) THEN cancelled \cup {s} ELSE cancelled
        /\ UNCHANGED <<entry, tools, contested, processes, blocked, permitted, policy, barred>>
    BY <1>4, McpTypes DEF Mcp!Cancel
  <2>2. task' \in [StartTasks -> RemoteServers \cup {Nothing}] /\ \A u \in StartTasks \ {t} : task'[u] = task[u]
    BY <2>1, McpTypes
  <2>3. Mcp!TypeOK'
    BY <2>1, <2>2 DEF McpInv, Mcp!TypeOK
  <2>4. Mcp!RegistryAgrees'
    BY <2>1, RegistryStays DEF Offers, OffersNext, Mcp!Known
  <2>5. Mcp!InitializingIsWaitedFor'
    <3> SUFFICES ASSUME NEW o \in RemoteServers, entry[o] # Nothing, entry[o].status = "initializing"
                 PROVE  o \in cancelled' \/ \E u \in StartTasks : task'[u] = o
      BY <2>1 DEF Mcp!InitializingIsWaitedFor, Mcp!Known
    <3>1. o \in cancelled \/ \E u \in StartTasks : task[u] = o
      BY DEF McpInv, Mcp!InitializingIsWaitedFor, Mcp!Known
    <3> QED
      BY <2>1, <2>2, <3>1 DEF Mcp!Known
  <2> QED
    BY <2>1, <2>3, <2>4, <2>5 DEF McpInv
<1>5. ASSUME NEW s \in RemoteServers, Mcp!Stop(s) PROVE McpInv'
  <2>1. Mcp!Known(s) /\ entry' = [entry EXCEPT ![s].status = "disconnected"]
    BY <1>5 DEF Mcp!Stop, Mcp!WithStatus
  <2> QED
    BY <1>5, <2>1, McpTypes, StatusKeeps DEF Mcp!Stop, Mcp!Statuses
<1>6. ASSUME NEW s \in RemoteServers, Mcp!Unregister(s) PROVE McpInv'
  <2>1. /\ entry' = [entry EXCEPT ![s] = Nothing] /\ Mcp!Known(s)
        /\ tools' = [id \in McpIds |-> IF id \in entry[s].tools THEN Nothing ELSE tools[id]]
        /\ UNCHANGED <<contested, cancelled, task, processes, blocked, permitted, policy, barred>>
    BY <1>6 DEF Mcp!Unregister
  <2>2. \A id : /\ ~OffersNext(s, id)
                /\ \A o \in RemoteServers \ {s} : OffersNext(o, id) <=> Offers(o, id)
    BY <2>1, McpTypes DEF Offers, OffersNext, Mcp!Known
  <2>3. Mcp!RegistryAgrees'
    <3> SUFFICES ASSUME NEW id \in McpIds
                 PROVE  /\ tools'[id] # Nothing => tools'[id] \in RemoteServers /\ OffersNext(tools'[id], id)
                        /\ id \in contested' \/ \A o \in RemoteServers : OffersNext(o, id) => tools'[id] = o
      BY RegistryIsNext
    <3>1. /\ tools[id] # Nothing => tools[id] \in RemoteServers /\ Offers(tools[id], id)
          /\ id \in contested \/ \A o \in RemoteServers : Offers(o, id) => tools[id] = o
      BY RegistryIs DEF McpInv
    <3>2. CASE id \in entry[s].tools
      BY <2>1, <2>2, <3>1, <3>2 DEF Offers
    <3>3. CASE id \notin entry[s].tools
      BY <2>1, <2>2, <3>1, <3>3 DEF Offers
    <3> QED
      BY <3>2, <3>3
  <2> DEFINE e == Nothing
  <2>4. e \in Mcp!Entries \cup {Nothing} /\ entry' = [entry EXCEPT ![s] = e] /\ tools' \in [McpIds -> RemoteServers \cup {Nothing}]
    BY <2>1, McpTypes
  <2> QED
    BY <2>1, <2>3, <2>4, McpTypes, EntryKeeps
<1>7. ASSUME NEW s \in RemoteServers, NEW x \in McpIds, Mcp!RegisterCapability(s, x) PROVE McpInv'
  <2> DEFINE e == [entry[s] EXCEPT !.tools = @ \cup {x}]
  <2>1. /\ Mcp!Known(s) /\ entry' = [entry EXCEPT ![s].tools = @ \cup {x}] /\ tools' = [tools EXCEPT ![x] = s]
        /\ contested' = IF Mcp!Offering(x) \subseteq {s} THEN contested ELSE contested \cup {x}
        /\ UNCHANGED <<cancelled, task, processes, blocked, permitted, policy, barred>>
    BY <1>7 DEF Mcp!RegisterCapability
  <2>2. entry[s] \in Mcp!Entries
    BY <2>1, McpTypes
  <2>3. /\ e \in Mcp!Entries /\ e # Nothing /\ e.tools = entry[s].tools \cup {x} /\ e.status = entry[s].status
        /\ entry' = [entry EXCEPT ![s] = e]
    BY <2>1, <2>2, McpConstants DEF Mcp!Entries
  <2> HIDE DEF e
  <2>4. /\ OffersNext(s, x)
        /\ \A o \in RemoteServers : \A id : (o # s \/ id # x) => (OffersNext(o, id) <=> Offers(o, id))
    <3>1. entry'[s] = e /\ \A o \in RemoteServers \ {s} : entry'[o] = entry[o]
      BY <2>3, McpTypes
    <3>2. entry[s] # Nothing /\ e # Nothing /\ e.tools = entry[s].tools \cup {x}
      BY <2>1, <2>3 DEF Mcp!Known
    <3> QED
      BY <3>1, <3>2 DEF Offers, OffersNext, Mcp!Known
  <2>5. tools' \in [McpIds -> RemoteServers \cup {Nothing}] /\ tools'[x] = s /\ \A id \in McpIds \ {x} : tools'[id] = tools[id]
    <3>1. tools \in [McpIds -> RemoteServers \cup {Nothing}] /\ tools' = [tools EXCEPT ![x] = s]
      BY <2>1, McpTypes
    <3> QED
      BY <3>1
  <2>6. /\ contested' \subseteq McpIds /\ contested \subseteq contested'
        /\ x \in contested' \/ \A o \in RemoteServers : Offers(o, x) => o = s
    BY <2>1, McpTypes DEF Mcp!Offering, Offers
  <2>7. Mcp!RegistryAgrees'
    <3> SUFFICES ASSUME NEW id \in McpIds
                 PROVE  /\ tools'[id] # Nothing => tools'[id] \in RemoteServers /\ OffersNext(tools'[id], id)
                        /\ id \in contested' \/ \A o \in RemoteServers : OffersNext(o, id) => tools'[id] = o
      BY RegistryIsNext
    <3>1. /\ tools[id] # Nothing => tools[id] \in RemoteServers /\ Offers(tools[id], id)
          /\ id \in contested \/ \A o \in RemoteServers : Offers(o, id) => tools[id] = o
      BY RegistryIs DEF McpInv
    <3>2. CASE id = x
      BY <2>4, <2>5, <2>6, <3>2
    <3>3. CASE id # x
      BY <2>4, <2>5, <2>6, <3>1, <3>3
    <3> QED
      BY <3>2, <3>3
  <2>8. e.status = "initializing" => s \in cancelled' \/ \E t \in StartTasks : task'[t] = s
    BY <2>1, <2>3 DEF McpInv, Mcp!InitializingIsWaitedFor
  <2>9. /\ task' \in [StartTasks -> RemoteServers \cup {Nothing}] /\ processes' \in [RemoteServers -> 0..MaxProcesses]
        /\ cancelled' \subseteq RemoteServers
    BY <2>1, McpTypes
  <2> QED
    BY <2>1, <2>3, <2>5, <2>6, <2>7, <2>8, <2>9, EntryKeeps
<1>8. ASSUME NEW x \in McpIds, Mcp!UnregisterCapability(x) PROVE McpInv'
  <2>1. /\ tools' = [tools EXCEPT ![x] = Nothing] /\ tools[x] # Nothing
        /\ UNCHANGED <<contested, cancelled, task, processes, blocked, permitted, policy, barred>>
    BY <1>8 DEF Mcp!UnregisterCapability
  <2>2. PICK s \in RemoteServers : Offers(s, x) /\ entry' = [entry EXCEPT ![s].tools = @ \ {x}]
    BY <1>8 DEF Mcp!UnregisterCapability, Mcp!Offering, Offers
  <2> DEFINE e == [entry[s] EXCEPT !.tools = @ \ {x}]
  <2>3. entry[s] \in Mcp!Entries /\ Mcp!Known(s)
    BY <2>2, McpTypes DEF Offers
  <2>4. /\ e \in Mcp!Entries /\ e # Nothing /\ e.tools = entry[s].tools \ {x} /\ e.status = entry[s].status
        /\ entry' = [entry EXCEPT ![s] = e]
    BY <2>2, <2>3, McpConstants DEF Mcp!Entries
  <2> HIDE DEF e
  <2>5. /\ ~OffersNext(s, x)
        /\ \A o \in RemoteServers : \A id : (o # s \/ id # x) => (OffersNext(o, id) <=> Offers(o, id))
    BY <2>3, <2>4, McpTypes DEF Offers, OffersNext, Mcp!Known
  <2>6. tools' \in [McpIds -> RemoteServers \cup {Nothing}] /\ tools'[x] = Nothing /\ \A id \in McpIds \ {x} : tools'[id] = tools[id]
    BY <2>1, McpTypes
  <2>7. Mcp!RegistryAgrees'
    <3> SUFFICES ASSUME NEW id \in McpIds
                 PROVE  /\ tools'[id] # Nothing => tools'[id] \in RemoteServers /\ OffersNext(tools'[id], id)
                        /\ id \in contested' \/ \A o \in RemoteServers : OffersNext(o, id) => tools'[id] = o
      BY RegistryIsNext
    <3>1. /\ tools[id] # Nothing => tools[id] \in RemoteServers /\ Offers(tools[id], id)
          /\ id \in contested \/ \A o \in RemoteServers : Offers(o, id) => tools[id] = o
      BY RegistryIs DEF McpInv
    <3>2. CASE id = x
      BY <2>1, <2>2, <2>5, <2>6, <3>1, <3>2
    <3>3. CASE id # x
      BY <2>1, <2>5, <2>6, <3>1, <3>3
    <3> QED
      BY <3>2, <3>3
  <2>8. e.status = "initializing" => s \in cancelled' \/ \E t \in StartTasks : task'[t] = s
    BY <2>1, <2>3, <2>4 DEF McpInv, Mcp!InitializingIsWaitedFor
  <2>9. /\ task' \in [StartTasks -> RemoteServers \cup {Nothing}] /\ processes' \in [RemoteServers -> 0..MaxProcesses]
        /\ contested' \subseteq McpIds /\ cancelled' \subseteq RemoteServers
    BY <2>1, McpTypes
  <2> QED
    BY <2>1, <2>4, <2>6, <2>7, <2>8, <2>9, EntryKeeps
<1>9. ASSUME NEW s \in RemoteServers, NEW x \in McpTools,
             Mcp!Block(s, x) \/ Mcp!Allow(s, x) \/ Mcp!Unblock(s, x) \/ Mcp!Unallow(s, x)
      PROVE  McpInv'
  <2>1. Mcp!FullId(s, x) \in Mcp!FullIds
    BY DEF Mcp!FullIds
  <2>2. /\ UNCHANGED <<entry, tools, contested, cancelled, task, processes, policy>>
        /\ blocked' \subseteq Mcp!FullIds /\ permitted' \subseteq Mcp!FullIds /\ barred' \subseteq blocked'
    BY <1>9, <2>1, McpTypes DEF Mcp!Block, Mcp!Allow, Mcp!Unblock, Mcp!Unallow, McpInv
  <2> QED
    BY <2>2, McpTypes, PermissionsKeep
<1>10. ASSUME NEW s \in RemoteServers, NEW p \in McpPolicies, Mcp!SetPolicy(s, p) PROVE McpInv'
  <2>1. /\ UNCHANGED <<entry, tools, contested, cancelled, task, processes, blocked, permitted, barred>>
        /\ policy' \in [RemoteServers -> Mcp!Permissions]
    BY <1>10, McpTypes, McpConstants DEF Mcp!SetPolicy
  <2> QED
    BY <2>1, McpTypes, PermissionsKeep DEF McpInv
<1> QED
  BY <1>1, <1>2, <1>3, <1>4, <1>5, <1>6, <1>7, <1>8, <1>9, <1>10 DEF Mcp!Next, Mcp!Restart

\* The invariant of MCP holds initially.
LEMMA McpInit == Mcp!Init => McpInv
<1> SUFFICES ASSUME Mcp!Init PROVE McpInv
  OBVIOUS
<1>1. Mcp!TypeOK
  <2>1. 0 \in 0..MaxProcesses /\ "ask" \in Mcp!Permissions
    BY McpConstants DEF Mcp!Permissions
  <2> QED
    BY <2>1 DEF Mcp!Init, Mcp!TypeOK
<1>2. \A s \in RemoteServers : ~Mcp!Known(s)
  BY DEF Mcp!Init, Mcp!Known
<1>3. Mcp!RegistryAgrees
  BY <1>2, RegistryIs DEF Offers, Mcp!Init
<1> QED
  BY <1>1, <1>2, <1>3 DEF McpInv, Mcp!Init, Mcp!InitializingIsWaitedFor

\* MCP that rests keeps its invariant.
LEMMA McpRests == McpInv /\ UNCHANGED mcpVars => McpInv'
<1> SUFFICES ASSUME McpInv, UNCHANGED mcpVars PROVE McpInv'
  OBVIOUS
<1>1. UNCHANGED <<entry, tools, contested, cancelled, task, processes, blocked, permitted, policy, barred>>
  BY DEF mcpVars
<1> QED
  BY <1>1, McpTypes, PermissionsKeep DEF McpInv

\* What the runs check follows from the invariant.
LEMMA McpOwes == McpInv => Mcp!BlockedIsDenied
BY DEF McpInv, Mcp!BlockedIsDenied, Mcp!ToolPermission

-----------------------------------------------------------------------------
(* The event bus. *)

BusEvents == [id : Nat, type : EventTypes]
Subscriptions == [id : Nat \X Callbacks, callback : Callbacks, types : SUBSET EventTypes]
Publications == {Bus!Idle} \cup [pc : {"publish", "copy"}, event : BusEvents]
                \cup [pc : {"deliver"}, event : BusEvents, todo : Seq(Subscriptions), owed : Seq(Subscriptions)]

\* k holds the last elements of r, in their order.
EndsWith(r, k) == Len(k) <= Len(r) /\ \A i \in 1..Len(k) : k[i] = r[Len(r) - Len(k) + i]

\* What a publication has still to do is the end of what it owes; the rest has been done.
Owes(t) ==
  /\ EndsWith(pub[t].owed, pub[t].todo)
  /\ \A i \in 1..(Len(pub[t].owed) - Len(pub[t].todo)) :
       pub[t].event.type \in pub[t].owed[i].types => pub[t].event \in Bus!Range(received[pub[t].owed[i].callback])

\* What a thread may be doing in a collector, and the collectors in which one does something.
Work == {Bus!Outside} \cup [pc : {"check", "copy"}, at : Callbacks \ Faulty]
        \cup [pc : {"assign"}, at : Callbacks \ Faulty, last : Seq(Nat)]
At(t, c) == collecting[t].pc # "outside" /\ collecting[t].at = c

\* The list of a collector that kept the newest, before it is cut to its length.
Full(n) == Append(Bus!Newest(n - 1), n)

\* What a collector holds, when no thread is in it, and what one that is in it has to do.
Ordered(c) == Bus!InOrder(kept[c], Len(received[c]))
Rests(c) == \/ \E t \in Emitters : At(t, c)
            \/ Len(kept[c]) <= MaxKept /\ (c \in met \/ kept[c] = Bus!Newest(Len(received[c])))
Serves(t) ==
  collecting[t].pc # "outside" =>
    LET c == collecting[t].at  n == Len(received[collecting[t].at]) IN
    /\ collecting[t].pc = "assign" => Bus!InOrder(collecting[t].last, n) /\ Len(collecting[t].last) <= MaxKept
    /\ c \notin met => /\ \A u \in Emitters : At(u, c) => u = t
                       /\ collecting[t].pc \in {"check", "copy"} => n # 0 /\ kept[c] = Full(n)
                       /\ collecting[t].pc = "assign" => collecting[t].last = Bus!Newest(n)

CollectorInv ==
  /\ kept \in [Callbacks -> Seq(Nat)] /\ collecting \in [Emitters -> Work]
  /\ \A c \in Callbacks \ Faulty : Ordered(c) /\ Rests(c)
  /\ \A t \in Emitters : Serves(t)

SubscribersAreDistinct == \A i, j \in DOMAIN subscribers : subscribers[i].id = subscribers[j].id => i = j

BusInv ==
  /\ subscribers \in Seq(Subscriptions) /\ Len(subscribers) <= MaxSubscribers /\ SubscribersAreDistinct
  /\ tracked \in Seq(BusEvents) /\ pub \in [Emitters -> Publications]
  /\ received \in [Callbacks -> Seq(BusEvents)]
  /\ \A t \in Emitters : pub[t].pc # "idle" => pub[t].event \in Bus!Range(tracked)
  /\ \A t \in Emitters : pub[t].pc = "deliver" => Owes(t)
  /\ \A c \in Callbacks : Bus!Range(received[c]) \subseteq Bus!Range(tracked)
  /\ CollectorInv

\* The bounds of the bus are numbers, and filters are sets of event types.
LEMMA BusConstants == MaxSubscribers \in Nat /\ MaxKept \in Nat \ {0} /\ Faulty \subseteq Callbacks /\ Filters \subseteq SUBSET EventTypes
BY RecordsAssumption DEF Bus!EventBusAssumption

\* The last m elements of a sequence.
LEMMA LastOf ==
  ASSUME NEW S, NEW s \in Seq(S), NEW m \in Nat, m <= Len(s)
  PROVE  LET k == SubSeq(s, Len(s) - m + 1, Len(s)) IN k \in Seq(S) /\ Len(k) = m /\ EndsWith(s, k)
<1> DEFINE k == SubSeq(s, Len(s) - m + 1, Len(s))
<1>1. Len(s) \in Nat /\ \A i \in 1..Len(s) : s[i] \in S
  BY LenProperties
<1>2. Len(s) - m + 1 \in Int /\ \A i \in (Len(s) - m + 1)..Len(s) : s[i] \in S
  BY <1>1
<1>3. /\ k \in Seq(S) /\ Len(k) = IF Len(s) - m + 1 <= Len(s) THEN Len(s) - (Len(s) - m + 1) + 1 ELSE 0
      /\ \A i \in 1..(Len(s) - (Len(s) - m + 1) + 1) : k[i] = s[Len(s) - m + 1 + i - 1]
  BY <1>1, <1>2, SubSeqProperties
<1> HIDE DEF k
<1>4. Len(k) = m
  BY <1>1, <1>3
<1>5. \A i \in 1..m : k[i] = s[Len(s) - m + i]
  <2> TAKE i \in 1..m
  <2>1. i \in 1..(Len(s) - (Len(s) - m + 1) + 1) /\ Len(s) - m + 1 + i - 1 = Len(s) - m + i
    BY <1>1
  <2> QED
    BY <1>3, <2>1
<1> QED
  BY <1>3, <1>4, <1>5 DEF k, EndsWith

\* Whatever is appended joins the range.
LEMMA RangeOfAppend ==
  ASSUME NEW S, NEW s \in Seq(S), NEW e \in S
  PROVE  /\ Append(s, e) \in Seq(S) /\ Len(Append(s, e)) = Len(s) + 1
         /\ Bus!Range(Append(s, e)) = Bus!Range(s) \cup {e}
<1>1. /\ Append(s, e) \in Seq(S) /\ Len(Append(s, e)) = Len(s) + 1 /\ Append(s, e)[Len(s) + 1] = e
      /\ \A i \in 1..Len(s) : Append(s, e)[i] = s[i]
  BY AppendProperties
<1>2. DOMAIN s = 1..Len(s) /\ DOMAIN Append(s, e) = 1..(Len(s) + 1) /\ Len(s) \in Nat
  BY <1>1, LenProperties
<1>3. 1..(Len(s) + 1) = 1..Len(s) \cup {Len(s) + 1}
  BY <1>2
<1>4. Bus!Range(Append(s, e)) \subseteq Bus!Range(s) \cup {e}
  BY <1>1, <1>2, <1>3 DEF Bus!Range
<1>5. Bus!Range(s) \cup {e} \subseteq Bus!Range(Append(s, e))
  BY <1>1, <1>2, <1>3 DEF Bus!Range
<1> QED
  BY <1>1, <1>4, <1>5

\* The newest of n events, as positions.
LEMMA NewestIs ==
  ASSUME NEW n \in Nat
  PROVE  LET k == Bus!Newest(n) IN
         /\ k \in Seq(Nat) /\ Len(k) = IF n <= MaxKept THEN n ELSE MaxKept
         /\ \A i \in 1..Len(k) : k[i] = n - Len(k) + i
<1> DEFINE m == IF n <= MaxKept THEN n ELSE MaxKept
<1> DEFINE k == [i \in 1..m |-> n - m + i]
<1>1. m \in Nat /\ m <= n
  BY BusConstants
<1>2. Bus!Newest(n) = k
  <2>1. CASE n <= MaxKept
    <3>1. m = n /\ \A i \in 1..n : n - m + i = i
      BY <2>1
    <3>2. k = [i \in 1..n |-> i]
      BY <3>1
    <3> HIDE DEF k
    <3> QED
      BY <2>1, <3>2 DEF Bus!Newest
  <2>2. CASE ~(n <= MaxKept)
    BY <2>2 DEF Bus!Newest
  <2> QED
    BY <2>1, <2>2
<1> HIDE DEF m
<1>3. k \in [1..m -> Nat]
  BY <1>1
<1>4. k \in Seq(Nat) /\ Len(k) = m
  BY <1>1, <1>3, SeqDef, LenProperties
<1> QED
  BY <1>1, <1>2, <1>4 DEF m

\* A sequence of positions in order, one more appended.
LEMMA AppendInOrder ==
  ASSUME NEW n \in Nat, NEW s \in Seq(Nat), Bus!InOrder(s, n)
  PROVE  Append(s, n + 1) \in Seq(Nat) /\ Bus!InOrder(Append(s, n + 1), n + 1)
<1> DEFINE a == Append(s, n + 1)
<1>1. /\ a \in Seq(Nat) /\ Len(a) = Len(s) + 1 /\ a[Len(s) + 1] = n + 1
      /\ \A i \in 1..Len(s) : a[i] = s[i]
  BY AppendProperties
<1>2. Len(s) \in Nat /\ DOMAIN s = 1..Len(s) /\ DOMAIN a = 1..(Len(s) + 1)
  BY <1>1, LenProperties
<1> HIDE DEF a
<1>3. \A i \in 1..Len(s) : s[i] \in 1..n /\ \A j \in 1..Len(s) : i < j => s[i] < s[j]
  BY <1>2 DEF Bus!InOrder
<1>4. ASSUME NEW i \in 1..(Len(s) + 1)
      PROVE  a[i] \in 1..(n + 1) /\ \A j \in 1..(Len(s) + 1) : i < j => a[i] < a[j]
  <2>1. CASE i = Len(s) + 1
    BY <1>1, <1>2, <2>1
  <2>2. CASE i \in 1..Len(s)
    <3>1. a[i] = s[i] /\ s[i] \in 1..n
      BY <1>1, <1>3, <2>2
    <3>2. a[i] \in 1..(n + 1) /\ a[i] < n + 1
      BY <3>1
    <3>3. ASSUME NEW j \in 1..(Len(s) + 1), i < j PROVE a[i] < a[j]
      <4>1. CASE j = Len(s) + 1
        BY <1>1, <3>2, <4>1
      <4>2. CASE j \in 1..Len(s)
        <5>1. a[j] = s[j]
          BY <1>1, <4>2
        <5>2. s[i] < s[j]
          BY <1>3, <2>2, <3>3, <4>2
        <5> QED
          BY <3>1, <5>1, <5>2
      <4> QED
        BY <1>2, <4>1, <4>2
    <3> QED
      BY <3>2, <3>3
  <2> QED
    BY <1>2, <2>1, <2>2
<1>5. Bus!InOrder(a, n + 1)
  BY <1>2, <1>4 DEF Bus!InOrder
<1> QED
  BY <1>1, <1>5 DEF a

\* The end of a sequence of positions in order.
LEMMA LastInOrder ==
  ASSUME NEW n \in Nat, NEW s \in Seq(Nat), Bus!InOrder(s, n)
  PROVE  LET k == Bus!KeepLast(s) IN k \in Seq(Nat) /\ Len(k) <= MaxKept /\ Bus!InOrder(k, n) /\ EndsWith(s, k)
<1> DEFINE k == Bus!KeepLast(s)
<1>1. Len(s) \in Nat /\ DOMAIN s = 1..Len(s) /\ MaxKept \in Nat
  BY LenProperties, BusConstants
<1>2. k \in Seq(Nat) /\ Len(k) <= MaxKept /\ EndsWith(s, k)
  <2>1. CASE Len(s) > MaxKept
    <3>1. k = SubSeq(s, Len(s) - MaxKept + 1, Len(s)) /\ MaxKept <= Len(s)
      BY <1>1, <2>1 DEF Bus!KeepLast
    <3>2. k \in Seq(Nat) /\ Len(k) = MaxKept /\ EndsWith(s, k)
      BY <1>1, <3>1, LastOf
    <3> QED
      BY <1>1, <3>2
  <2>2. CASE ~(Len(s) > MaxKept)
    BY <1>1, <2>2 DEF Bus!KeepLast, EndsWith
  <2> QED
    BY <2>1, <2>2
<1>3. Len(k) \in Nat /\ DOMAIN k = 1..Len(k)
  BY <1>2, LenProperties
<1> HIDE DEF k
<1>4. \A i \in 1..Len(s) : s[i] \in 1..n /\ \A j \in 1..Len(s) : i < j => s[i] < s[j]
  BY <1>1 DEF Bus!InOrder
<1> DEFINE d == Len(s) - Len(k)
<1>5. d \in Nat /\ \A i \in 1..Len(k) : d + i \in 1..Len(s) /\ k[i] = s[d + i]
  <2>1. Len(k) <= Len(s) /\ \A i \in 1..Len(k) : k[i] = s[Len(s) - Len(k) + i]
    BY <1>2 DEF EndsWith
  <2>2. d \in Nat
    BY <1>1, <1>3, <2>1
  <2>3. ASSUME NEW i \in 1..Len(k) PROVE d + i \in 1..Len(s) /\ k[i] = s[d + i]
    <3>1. k[i] = s[d + i]
      BY <2>1
    <3>2. d + i \in 1..Len(s)
      BY <1>1, <1>3, <2>1
    <3> QED
      BY <3>1, <3>2
  <2> QED
    BY <2>2, <2>3
<1> HIDE DEF d
<1>6. ASSUME NEW i \in 1..Len(k) PROVE k[i] \in 1..n /\ \A j \in 1..Len(k) : i < j => k[i] < k[j]
  <2> SUFFICES ASSUME NEW j \in 1..Len(k) PROVE k[i] \in 1..n /\ (i < j => k[i] < k[j])
    BY <1>6
  <2>1. d + i \in 1..Len(s) /\ d + j \in 1..Len(s) /\ k[i] = s[d + i] /\ k[j] = s[d + j]
    BY <1>5, <1>6
  <2>2. i < j => d + i < d + j
    BY <1>3, <1>5
  <2> QED
    BY <1>4, <2>1, <2>2
<1>7. Bus!InOrder(k, n)
  BY <1>3, <1>6 DEF Bus!InOrder
<1> QED
  BY <1>2, <1>7 DEF k

\* A collector that kept the newest and was given one more event keeps the newest.
LEMMA FullIs ==
  ASSUME NEW n \in Nat, n # 0
  PROVE  Bus!KeepLast(Full(n)) = Bus!Newest(n) /\ (Len(Full(n)) <= MaxKept => Full(n) = Bus!Newest(n))
<1> DEFINE k == Bus!Newest(n - 1)
<1> DEFINE a == Full(n)
<1> DEFINE b == Bus!Newest(n)
<1>1. n - 1 \in Nat /\ MaxKept \in Nat /\ MaxKept # 0
  BY BusConstants
<1>2. /\ k \in Seq(Nat) /\ Len(k) = (IF n - 1 <= MaxKept THEN n - 1 ELSE MaxKept)
      /\ \A i \in 1..Len(k) : k[i] = n - 1 - Len(k) + i
  BY <1>1, NewestIs
<1>3. /\ b \in Seq(Nat) /\ Len(b) = (IF n <= MaxKept THEN n ELSE MaxKept)
      /\ \A i \in 1..Len(b) : b[i] = n - Len(b) + i
  BY NewestIs
<1>4. /\ a \in Seq(Nat) /\ Len(a) = Len(k) + 1 /\ a[Len(k) + 1] = n
      /\ \A i \in 1..Len(k) : a[i] = k[i]
  BY <1>2, AppendProperties DEF Full
<1>5. Len(k) \in Nat /\ Len(a) \in Nat /\ Len(b) \in Nat
  BY <1>2, <1>3, <1>4, LenProperties
<1> HIDE DEF k, a, b
<1>6. \A i \in 1..Len(a) : a[i] = n - Len(a) + i
  <2> TAKE i \in 1..Len(a)
  <2>1. CASE i = Len(k) + 1
    BY <1>4, <1>5, <2>1
  <2>2. CASE i \in 1..Len(k)
    BY <1>2, <1>4, <1>5, <2>2
  <2> QED
    BY <1>4, <1>5, <2>1, <2>2
<1>7. CASE Len(a) > MaxKept
  <2> DEFINE c == Bus!KeepLast(a)
  <2>1. c = SubSeq(a, Len(a) - MaxKept + 1, Len(a)) /\ MaxKept <= Len(a)
    BY <1>1, <1>5, <1>7 DEF Bus!KeepLast
  <2>2. c \in Seq(Nat) /\ Len(c) = MaxKept /\ EndsWith(a, c)
    BY <1>1, <1>4, <2>1, LastOf
  <2> HIDE DEF c
  <2>3. Len(b) = MaxKept
    BY <1>1, <1>2, <1>3, <1>4, <1>7
  <2>4. \A i \in 1..MaxKept : c[i] = b[i]
    <3> TAKE i \in 1..MaxKept
    <3>1. Len(a) - MaxKept + i \in 1..Len(a) /\ c[i] = a[Len(a) - MaxKept + i]
      BY <1>1, <1>5, <1>7, <2>2 DEF EndsWith
    <3>2. a[Len(a) - MaxKept + i] = n - Len(a) + (Len(a) - MaxKept + i)
      BY <1>6, <3>1
    <3>3. n - Len(a) + (Len(a) - MaxKept + i) = n - MaxKept + i
      BY <1>1, <1>5
    <3> QED
      BY <1>3, <2>3, <3>1, <3>2, <3>3
  <2>5. c = b
    BY <1>3, <2>2, <2>3, <2>4, SeqEqual
  <2> QED
    BY <1>1, <1>5, <1>7, <2>5 DEF a, b, c
<1>8. CASE ~(Len(a) > MaxKept)
  <2>1. Len(a) = n /\ Len(b) = n
    BY <1>1, <1>2, <1>3, <1>4, <1>5, <1>8
  <2>2. \A i \in 1..n : a[i] = b[i]
    BY <1>3, <1>6, <2>1
  <2>3. a = b
    BY <1>3, <1>4, <2>1, <2>2, SeqEqual
  <2>4. Bus!KeepLast(a) = a
    BY <1>8 DEF Bus!KeepLast
  <2> QED
    BY <2>3, <2>4 DEF a, b
<1> QED
  BY <1>7, <1>8

\* What each work in a collector is.
LEMMA WorkIs ==
  ASSUME NEW w \in Work
  PROVE  /\ w.pc \in {"outside", "check", "copy", "assign"} /\ (w.pc = "outside" => w = Bus!Outside)
         /\ w.pc # "outside" => w.at \in Callbacks /\ w.at \notin Faulty
         /\ w.pc = "assign" => w.last \in Seq(Nat)
BY DEF Work, Bus!Outside

\* A thread that appends to a collector keeps what holds of it.
LEMMA CollectKeeps ==
  ASSUME CollectorInv, received \in [Callbacks -> Seq(BusEvents)], NEW t \in Emitters, NEW c \in Callbacks \ Faulty,
         collecting[t] = Bus!Outside, Bus!Collect(t, c), received' \in [Callbacks -> Seq(BusEvents)],
         Len(received'[c]) = Len(received[c]) + 1, \A d \in Callbacks \ {c} : received'[d] = received[d]
  PROVE  CollectorInv'
<1> DEFINE n == Len(received[c])
<1> DEFINE a == Append(kept[c], n + 1)
<1> DEFINE w == [pc |-> "check", at |-> c]
<1>1. /\ kept \in [Callbacks -> Seq(Nat)] /\ collecting \in [Emitters -> Work] /\ n \in Nat /\ c \in Callbacks
      /\ Ordered(c) /\ Rests(c) /\ \A u \in Emitters : Serves(u)
  BY LenProperties DEF CollectorInv
<1>2. a \in Seq(Nat) /\ Bus!InOrder(a, n + 1)
  BY <1>1, AppendInOrder DEF Ordered
<1>3. w \in Work /\ w.pc = "check" /\ w.at = c
  BY DEF Work
<1>4. /\ kept' = [kept EXCEPT ![c] = a] /\ collecting' = [collecting EXCEPT ![t] = w]
      /\ met' = IF Bus!Inside(c) = {} THEN met ELSE met \cup {c}
  BY DEF Bus!Collect
<1> HIDE DEF a, w
<1>5. /\ kept' \in [Callbacks -> Seq(Nat)] /\ collecting' \in [Emitters -> Work] /\ kept'[c] = a /\ collecting'[t] = w
      /\ \A d \in Callbacks \ {c} : kept'[d] = kept[d]
      /\ \A u \in Emitters \ {t} : collecting'[u] = collecting[u]
  BY <1>1, <1>2, <1>3, <1>4
<1>6. collecting[t].pc = "outside"
  BY DEF Bus!Outside
<1>7. /\ \A u \in Emitters : \A d : At(u, d)' <=> At(u, d) \/ (u = t /\ d = c)
      /\ met \subseteq met' /\ \A d : d # c => (d \in met' <=> d \in met)
      /\ c \notin met' => \A u \in Emitters : ~At(u, c)
  <2>1. \A u \in Emitters : \A d : At(u, d)' <=> At(u, d) \/ (u = t /\ d = c)
    BY <1>3, <1>5, <1>6 DEF At
  <2>2. Bus!Inside(c) = {u \in Emitters : At(u, c)}
    BY DEF Bus!Inside, At
  <2> QED
    BY <1>4, <2>1, <2>2
<1>8. ASSUME NEW d \in Callbacks \ Faulty PROVE (Ordered(d) /\ Rests(d))'
  <2>1. CASE d = c
    BY <1>2, <1>5, <1>7, <2>1 DEF Ordered, Rests
  <2>2. CASE d # c
    <3>1. kept'[d] = kept[d] /\ received'[d] = received[d] /\ (d \in met' <=> d \in met) /\ Ordered(d) /\ Rests(d)
      BY <1>5, <1>7, <2>2 DEF CollectorInv
    <3> QED
      BY <1>7, <2>2, <3>1 DEF Ordered, Rests
  <2> QED
    BY <2>1, <2>2
<1>9. ASSUME NEW u \in Emitters PROVE Serves(u)'
  <2>1. CASE u = t
    <3> SUFFICES ASSUME c \notin met' PROVE /\ \A v \in Emitters : (At(v, c))' => v = t
                                            /\ Len(received'[c]) # 0 /\ kept'[c] = Full(Len(received'[c]))
      BY <1>3, <1>5, <2>1 DEF Serves
    <3>1. kept[c] = Bus!Newest(n)
      BY <1>1, <1>7 DEF Rests
    <3>2. n + 1 - 1 = n /\ n + 1 # 0
      BY <1>1
    <3>3. kept'[c] = Full(n + 1)
      BY <1>5, <3>1, <3>2 DEF a, Full
    <3> QED
      BY <1>7, <3>2, <3>3
  <2>2. CASE u # t /\ collecting[u].pc # "outside" /\ collecting[u].at = c
    <3>1. At(u, c) /\ collecting'[u] = collecting[u] /\ c \in met' /\ Serves(u)
      BY <1>1, <1>5, <1>7, <2>2 DEF At
    <3>2. CASE collecting[u].pc = "assign"
      <4>1. collecting[u].last \in Seq(Nat) /\ Bus!InOrder(collecting[u].last, n) /\ Len(collecting[u].last) <= MaxKept
        BY <1>1, <2>2, <3>1, <3>2, WorkIs DEF Serves
      <4>2. Bus!InOrder(collecting[u].last, n + 1)
        BY <1>1, <4>1 DEF Bus!InOrder
      <4> QED
        BY <2>2, <3>1, <3>2, <4>1, <4>2 DEF Serves
    <3> QED
      BY <2>2, <3>1, <3>2 DEF Serves
  <2>3. CASE u # t /\ collecting[u].pc # "outside" /\ collecting[u].at # c
    <3> DEFINE d == collecting[u].at
    <3>1. /\ d \in Callbacks /\ collecting'[u] = collecting[u] /\ kept'[d] = kept[d] /\ received'[d] = received[d]
          /\ (d \in met' <=> d \in met) /\ Serves(u) /\ \A v \in Emitters : At(v, d)' <=> At(v, d)
      BY <1>1, <1>5, <1>7, <2>3, WorkIs
    <3> QED
      BY <2>3, <3>1 DEF Serves
  <2>4. CASE u # t /\ collecting[u].pc = "outside"
    BY <1>5, <2>4 DEF Serves
  <2> QED
    BY <2>1, <2>2, <2>3, <2>4
<1> QED
  BY <1>5, <1>8, <1>9 DEF CollectorInv

\* What is received by a callback that collects nothing is no matter of the collectors.
LEMMA CollectorsRest ==
  ASSUME CollectorInv, UNCHANGED <<kept, collecting, met>>, \A c \in Callbacks \ Faulty : received'[c] = received[c]
  PROVE  CollectorInv'
<1>1. /\ collecting \in [Emitters -> Work] /\ \A t \in Emitters : Serves(t)
      /\ \A c \in Callbacks \ Faulty : Ordered(c) /\ Rests(c)
  BY DEF CollectorInv
<1>2. \A c \in Callbacks \ Faulty : (Ordered(c) /\ Rests(c))'
  BY <1>1 DEF Ordered, Rests, At
<1>3. \A t \in Emitters : Serves(t)'
  <2> TAKE t \in Emitters
  <2>1. CASE collecting[t].pc # "outside"
    <3>1. collecting[t].at \in Callbacks \ Faulty /\ Serves(t)
      BY <1>1, <2>1, WorkIs
    <3> QED
      BY <3>1 DEF Serves, At
  <2>2. CASE collecting[t].pc = "outside"
    BY <2>2 DEF Serves
  <2> QED
    BY <2>1, <2>2
<1> QED
  BY <1>2, <1>3 DEF CollectorInv

\* A thread that goes on in a collector: what is left to show is about that collector and it.
LEMMA WorkKeeps ==
  ASSUME CollectorInv, NEW t \in Emitters, NEW w \in Work, collecting' = [collecting EXCEPT ![t] = w],
         NEW k \in Seq(Nat), NEW c \in Callbacks \ Faulty, kept' = [kept EXCEPT ![c] = k],
         UNCHANGED <<received, met>>, collecting[t].pc # "outside", collecting[t].at = c,
         Bus!InOrder(k, Len(received[c])), k = kept[c] \/ w.pc = "outside",
         w.pc = "outside" => Len(k) <= MaxKept /\ (c \in met \/ k = Bus!Newest(Len(received[c]))),
         w.pc # "outside" => /\ w.at = c
                             /\ w.pc = "assign" => Bus!InOrder(w.last, Len(received[c])) /\ Len(w.last) <= MaxKept
                             /\ c \notin met => /\ w.pc \in {"check", "copy"} => Len(received[c]) # 0 /\ k = Full(Len(received[c]))
                                                /\ w.pc = "assign" => w.last = Bus!Newest(Len(received[c]))
  PROVE  CollectorInv'
<1>1. /\ kept \in [Callbacks -> Seq(Nat)] /\ collecting \in [Emitters -> Work] /\ \A u \in Emitters : Serves(u)
      /\ \A d \in Callbacks \ Faulty : Ordered(d) /\ Rests(d)
  BY DEF CollectorInv
<1>2. /\ kept' \in [Callbacks -> Seq(Nat)] /\ collecting' \in [Emitters -> Work] /\ kept'[c] = k /\ collecting'[t] = w
      /\ \A d \in Callbacks \ {c} : kept'[d] = kept[d]
      /\ \A u \in Emitters \ {t} : collecting'[u] = collecting[u]
  BY <1>1
<1>3. At(t, c) /\ \A u \in Emitters : \A d : At(u, d)' => At(u, d)
  BY <1>2 DEF At
<1>4. \A u \in Emitters : \A d : At(u, d) /\ d # c => At(u, d)'
  BY <1>2 DEF At
<1>5. ASSUME NEW d \in Callbacks \ Faulty PROVE (Ordered(d) /\ Rests(d))'
  <2>1. CASE d # c
    BY <1>1, <1>2, <1>4, <2>1 DEF Ordered, Rests
  <2>2. CASE d = c /\ w.pc = "outside"
    BY <1>2, <2>2 DEF Ordered, Rests
  <2>3. CASE d = c /\ w.pc # "outside"
    <3>1. At(t, c)'
      BY <1>2, <2>3 DEF At
    <3> QED
      BY <1>2, <2>3, <3>1 DEF Ordered, Rests
  <2> QED
    BY <2>1, <2>2, <2>3
<1>6. ASSUME NEW u \in Emitters PROVE Serves(u)'
  <2>1. CASE u = t
    <3>1. c \notin met => \A v \in Emitters : At(v, c) => v = t
      BY <1>1 DEF Serves
    <3> QED
      BY <1>2, <1>3, <2>1, <3>1 DEF Serves
  <2>2. CASE u # t
    <3> SUFFICES ASSUME collecting[u].pc # "outside" PROVE Serves(u)'
      BY <1>2, <2>2 DEF Serves
    <3> DEFINE d == collecting[u].at
    <3>1. collecting'[u] = collecting[u] /\ Serves(u) /\ d \in Callbacks
      BY <1>1, <1>2, <2>2, WorkIs
    <3>2. d \notin met /\ d = c => FALSE
      BY <1>1, <2>2, <3>1 DEF Serves, At
    <3>3. d \notin met => kept'[d] = kept[d] /\ \A v \in Emitters : At(v, d)' => At(v, d)
      BY <1>2, <1>3, <3>1, <3>2
    <3> QED
      BY <3>1, <3>3 DEF Serves
  <2> QED
    BY <2>1, <2>2
<1> QED
  BY <1>2, <1>5, <1>6 DEF CollectorInv

\* The steps of a collector after it appended.
LEMMA CollectorSteps ==
  ASSUME CollectorInv, received \in [Callbacks -> Seq(BusEvents)], NEW t \in Emitters,
         Bus!CheckLength(t) \/ Bus!CopyLast(t) \/ Bus!Assign(t)
  PROVE  CollectorInv'
<1> DEFINE c == collecting[t].at
<1> DEFINE n == Len(received[c])
<1>1. /\ kept \in [Callbacks -> Seq(Nat)] /\ collecting \in [Emitters -> Work] /\ UNCHANGED <<received, met>>
      /\ collecting[t].pc # "outside" /\ Serves(t) /\ \A d \in Callbacks \ Faulty : Ordered(d)
  BY DEF CollectorInv, Bus!CheckLength, Bus!CopyLast, Bus!Assign
<1>2. c \in Callbacks \ Faulty
  BY <1>1, WorkIs
<1>3. n \in Nat /\ kept[c] \in Seq(Nat) /\ Bus!InOrder(kept[c], n) /\ Len(kept[c]) \in Nat /\ MaxKept \in Nat
  BY <1>1, <1>2, LenProperties, BusConstants DEF Ordered
<1>4. kept = [kept EXCEPT ![c] = kept[c]]
  BY <1>1, <1>2
<1>5. Bus!Outside \in Work /\ Bus!Outside.pc = "outside"
  BY DEF Work, Bus!Outside
<1>6. CASE Bus!CheckLength(t)
  <2>1. /\ collecting[t].pc = "check" /\ kept' = kept
        /\ collecting' = [collecting EXCEPT ![t] = IF Len(kept[c]) > MaxKept THEN [pc |-> "copy", at |-> c] ELSE Bus!Outside]
    BY <1>6 DEF Bus!CheckLength
  <2>2. c \notin met => n # 0 /\ kept[c] = Full(n)
    BY <1>1, <2>1 DEF Serves
  <2>3. CASE Len(kept[c]) > MaxKept
    <3> DEFINE w == [pc |-> "copy", at |-> c]
    <3>1. w \in Work /\ w.pc = "copy" /\ w.at = c /\ collecting' = [collecting EXCEPT ![t] = w]
      BY <1>2, <2>1, <2>3 DEF Work
    <3>2. kept' = [kept EXCEPT ![c] = kept[c]]
      BY <1>4, <2>1
    <3> HIDE DEF w
    <3> QED
      BY <1>1, <1>2, <1>3, <2>2, <3>1, <3>2, WorkKeeps
  <2>4. CASE ~(Len(kept[c]) > MaxKept)
    <3>1. Len(kept[c]) <= MaxKept /\ collecting' = [collecting EXCEPT ![t] = Bus!Outside]
      <4> DEFINE l == Len(kept[c])
      <4> HIDE DEF l
      <4>1. l \in Nat /\ ~(l > MaxKept)
        BY <1>3, <2>4 DEF l
      <4>2. l <= MaxKept
        BY <1>3, <4>1
      <4>3. (IF l > MaxKept THEN [pc |-> "copy", at |-> c] ELSE Bus!Outside) = Bus!Outside
        BY <4>1
      <4> QED
        BY <2>1, <4>2, <4>3 DEF l
    <3>2. ASSUME c \notin met PROVE kept[c] = Bus!Newest(n)
      <4>1. n # 0 /\ kept[c] = Full(n)
        BY <2>2, <3>2
      <4> HIDE DEF n
      <4>2. Bus!KeepLast(Full(n)) = Bus!Newest(n)
        BY <1>3, <4>1, FullIs
      <4>3. Bus!KeepLast(kept[c]) = kept[c]
        BY <1>3, <2>4 DEF Bus!KeepLast
      <4> QED
        BY <4>1, <4>2, <4>3
    <3>3. kept' = [kept EXCEPT ![c] = kept[c]]
      BY <1>4, <2>1
    <3> QED
      BY <1>1, <1>2, <1>3, <1>5, <3>1, <3>2, <3>3, WorkKeeps
  <2> QED
    BY <2>3, <2>4
<1>7. CASE Bus!CopyLast(t)
  <2> DEFINE k == Bus!KeepLast(kept[c])
  <2> DEFINE w == [pc |-> "assign", at |-> c, last |-> k]
  <2>1. collecting[t].pc = "copy" /\ kept' = kept /\ collecting' = [collecting EXCEPT ![t] = w]
    BY <1>7 DEF Bus!CopyLast
  <2>2. k \in Seq(Nat) /\ Len(k) <= MaxKept /\ Bus!InOrder(k, n)
    BY <1>3, LastInOrder
  <2>3. c \notin met => k = Bus!Newest(n)
    <3>1. c \notin met => n # 0 /\ kept[c] = Full(n)
      BY <1>1, <2>1 DEF Serves
    <3> QED
      BY <1>3, <3>1, FullIs
  <2> HIDE DEF k
  <2>4. w \in Work /\ w.pc = "assign" /\ w.at = c /\ w.last = k
    BY <1>2, <2>2 DEF Work
  <2>5. kept' = [kept EXCEPT ![c] = kept[c]]
    BY <1>4, <2>1
  <2> HIDE DEF w
  <2> QED
    BY <1>1, <1>2, <1>3, <2>1, <2>2, <2>3, <2>4, <2>5, WorkKeeps
<1>8. CASE Bus!Assign(t)
  <2> DEFINE k == collecting[t].last
  <2>1. collecting[t].pc = "assign" /\ kept' = [kept EXCEPT ![c] = k] /\ collecting' = [collecting EXCEPT ![t] = Bus!Outside]
    BY <1>8 DEF Bus!Assign
  <2>2. k \in Seq(Nat) /\ Bus!InOrder(k, n) /\ Len(k) <= MaxKept /\ (c \notin met => k = Bus!Newest(n))
    BY <1>1, <2>1, WorkIs DEF Serves
  <2> QED
    BY <1>1, <1>2, <1>5, <2>1, <2>2, WorkKeeps
<1> QED
  BY <1>6, <1>7, <1>8

\* What each publication is.
LEMMA PublicationIs ==
  ASSUME NEW p \in Publications
  PROVE  /\ p.pc \in {"idle", "publish", "copy", "deliver"}
         /\ p.pc = "idle" => p = Bus!Idle
         /\ p.pc \in {"publish", "copy"} => p \in [pc : {"publish", "copy"}, event : BusEvents]
         /\ p.pc = "deliver" => p \in [pc : {"deliver"}, event : BusEvents, todo : Seq(Subscriptions), owed : Seq(Subscriptions)]
BY DEF Publications, Bus!Idle

\* A step of one publication that delivers nothing.
LEMMA PublicationKeeps ==
  ASSUME BusInv, NEW t \in Emitters, NEW p \in Publications, pub' = [pub EXCEPT ![t] = p],
         UNCHANGED <<subscribers, received, kept, collecting, met>>,
         tracked' \in Seq(BusEvents), Bus!Range(tracked) \subseteq Bus!Range(tracked'),
         p.pc # "idle" => p.event \in Bus!Range(tracked'),
         p.pc = "deliver" => p.todo = p.owed
  PROVE  BusInv'
<1>1. pub' \in [Emitters -> Publications] /\ pub'[t] = p /\ \A u \in Emitters \ {t} : pub'[u] = pub[u]
  BY DEF BusInv
<1>2. /\ \A u \in Emitters : (pub[u].pc # "idle" => pub[u].event \in Bus!Range(tracked))'
      /\ \A c \in Callbacks : Bus!Range(received[c])' \subseteq Bus!Range(tracked)'
  BY <1>1 DEF BusInv, Bus!Range
<1>3. \A u \in Emitters : (pub[u].pc = "deliver" => Owes(u))'
  <2> SUFFICES ASSUME NEW u \in Emitters, pub'[u].pc = "deliver" PROVE Owes(u)'
    OBVIOUS
  <2>1. CASE u = t
    <3>1. p.owed \in Seq(Subscriptions) /\ p.todo = p.owed
      BY <1>1, <2>1, PublicationIs
    <3>2. Len(p.owed) \in Nat
      BY <3>1, LenProperties
    <3>3. 1..(Len(p.owed) - Len(p.todo)) = {}
      BY <3>1, <3>2
    <3>4. EndsWith(p.owed, p.todo)
      BY <3>1, <3>2 DEF EndsWith
    <3> QED
      BY <1>1, <2>1, <3>3, <3>4 DEF Owes
  <2>2. CASE u # t
    <3>1. Owes(u) /\ pub'[u] = pub[u] /\ received' = received
      BY <1>1, <2>2 DEF BusInv
    <3> QED
      BY <3>1 DEF Owes
  <2> QED
    BY <2>1, <2>2
<1>4. SubscribersAreDistinct' /\ CollectorInv'
  BY CollectorsRest DEF BusInv, SubscribersAreDistinct
<1> QED
  BY <1>1, <1>2, <1>3, <1>4 DEF BusInv

\* Subscriptions change under no publication.
LEMMA SubscribersKeep ==
  ASSUME BusInv, UNCHANGED <<pub, tracked, received, kept, collecting, met>>, subscribers' \in Seq(Subscriptions),
         Len(subscribers') <= MaxSubscribers, SubscribersAreDistinct'
  PROVE  BusInv'
<1>1. CollectorInv'
  BY CollectorsRest DEF BusInv
<1> QED
  BY <1>1 DEF BusInv, Owes

\* The arithmetic of taking the first of what is left.
LEMMA OneLess ==
  ASSUME NEW a \in Nat, NEW b \in Nat, NEW c, c = b - 1, b >= 1, b <= a
  PROVE  /\ c \in Nat /\ c <= a
         /\ \A i \in 1..c : i \in 1..(b - 1) /\ i + 1 \in 1..b /\ a - c + i = a - b + (i + 1)
         /\ \A i \in 1..(a - c) : i \in 1..(a - b) \/ i = a - b + 1
         /\ 1..(a - b) \subseteq 1..a
OBVIOUS

\* Delivering to the next subscriber keeps the invariant, whether it raises or not.
LEMMA DeliverKeeps == ASSUME BusInv, NEW t \in Emitters, Bus!Deliver(t) PROVE BusInv'
<1> DEFINE p == pub[t]
<1> DEFINE s == Head(p.todo)
<1> DEFINE e == p.event
<1> DEFINE matches == e.type \in s.types
<1> DEFINE q == [p EXCEPT !.todo = Tail(p.todo)]
<1>1. pub \in [Emitters -> Publications] /\ p \in Publications /\ p.pc = "deliver" /\ p.todo # <<>>
  BY DEF BusInv, Bus!Deliver
<1>2. p \in [pc : {"deliver"}, event : BusEvents, todo : Seq(Subscriptions), owed : Seq(Subscriptions)]
  BY <1>1, PublicationIs
<1>3. e \in BusEvents /\ p.todo \in Seq(Subscriptions) /\ p.owed \in Seq(Subscriptions) /\ e \in Bus!Range(tracked) /\ Owes(t)
  BY <1>1, <1>2 DEF BusInv
<1>4. /\ s \in Subscriptions /\ Tail(p.todo) \in Seq(Subscriptions) /\ Len(Tail(p.todo)) = Len(p.todo) - 1
      /\ \A i \in 1..(Len(p.todo) - 1) : Tail(p.todo)[i] = p.todo[i + 1]
  BY <1>1, <1>3, HeadTailProperties
<1>5. s.callback \in Callbacks /\ s = p.todo[1] /\ Len(p.todo) \in Nat /\ Len(p.todo) >= 1 /\ Len(p.owed) \in Nat
  <2>1. Len(p.todo) \in Nat /\ Len(p.owed) \in Nat /\ Len(p.todo) # 0
    BY <1>1, <1>3, LenProperties, EmptySeq
  <2> QED
    BY <1>3, <1>4, <2>1 DEF Subscriptions
<1>6. PICK raises \in BOOLEAN :
        /\ received' = IF matches THEN [received EXCEPT ![s.callback] = Append(@, e)] ELSE received
        /\ IF matches /\ s.callback \notin Faulty THEN Bus!Collect(t, s.callback) ELSE UNCHANGED <<kept, collecting, met>>
        /\ pub' = [pub EXCEPT ![t].todo = Bus!AfterDelivery(t, raises)]
        /\ UNCHANGED <<subscribers, tracked>> /\ collecting[t] = Bus!Outside
  BY DEF Bus!Deliver, Bus!collectors
<1>7. pub' = [pub EXCEPT ![t] = q]
  BY <1>6 DEF Bus!AfterDelivery, Bus!Rest
<1>8. /\ q \in [pc : {"deliver"}, event : BusEvents, todo : Seq(Subscriptions), owed : Seq(Subscriptions)]
      /\ q \in Publications /\ q.pc = "deliver" /\ q.event = e /\ q.owed = p.owed /\ q.todo = Tail(p.todo)
  BY <1>2, <1>4 DEF Publications
<1> HIDE DEF q
<1>9. pub' \in [Emitters -> Publications] /\ pub'[t] = q /\ \A u \in Emitters \ {t} : pub'[u] = pub[u]
  BY <1>1, <1>7, <1>8
<1>10. received \in [Callbacks -> Seq(BusEvents)]
  BY DEF BusInv
<1>11. /\ received' \in [Callbacks -> Seq(BusEvents)]
       /\ \A c \in Callbacks : Bus!Range(received[c]) \subseteq Bus!Range(received'[c])
                              /\ Bus!Range(received'[c]) \subseteq Bus!Range(received[c]) \cup {e}
       /\ matches => e \in Bus!Range(received'[s.callback])
  <2>1. CASE matches
    <3>1. Append(received[s.callback], e) \in Seq(BusEvents)
          /\ Bus!Range(Append(received[s.callback], e)) = Bus!Range(received[s.callback]) \cup {e}
      BY <1>3, <1>5, <1>10, RangeOfAppend
    <3>2. received' = [received EXCEPT ![s.callback] = Append(received[s.callback], e)]
      BY <1>6, <2>1
    <3> QED
      BY <1>5, <1>10, <3>1, <3>2
  <2>2. CASE ~matches
    BY <1>6, <1>10, <2>2
  <2> QED
    BY <2>1, <2>2
<1>12. \A c \in Callbacks : Bus!Range(received[c])' \subseteq Bus!Range(tracked)'
  <2>1. \A c \in Callbacks : Bus!Range(received[c]) \subseteq Bus!Range(tracked)
    BY DEF BusInv
  <2>2. tracked' = tracked
    BY <1>6
  <2>3. e \in Bus!Range(tracked) /\ \A c \in Callbacks : Bus!Range(received'[c]) \subseteq Bus!Range(received[c]) \cup {e}
    BY <1>3, <1>11
  <2>4. \A c \in Callbacks : Bus!Range(received'[c]) \subseteq Bus!Range(tracked)
    BY <2>1, <2>3
  <2> QED
    BY <2>2, <2>4 DEF Bus!Range
<1>13. CollectorInv'
  <2>1. CASE matches /\ s.callback \notin Faulty
    <3> DEFINE c == s.callback
    <3>1. received' = [received EXCEPT ![c] = Append(received[c], e)] /\ Bus!Collect(t, c) /\ c \in Callbacks \ Faulty
      BY <1>5, <1>6, <2>1
    <3>2. Len(Append(received[c], e)) = Len(received[c]) + 1
      BY <1>3, <1>5, <1>10, AppendProperties
    <3> HIDE DEF c
    <3>3. Len(received'[c]) = Len(received[c]) + 1 /\ \A d \in Callbacks \ {c} : received'[d] = received[d]
      BY <1>10, <3>1, <3>2
    <3>4. CollectorInv /\ collecting[t] = Bus!Outside
      BY <1>6 DEF BusInv
    <3> QED
      BY <1>10, <1>11, <3>1, <3>3, <3>4, CollectKeeps
  <2>2. CASE ~(matches /\ s.callback \notin Faulty)
    <3>1. UNCHANGED <<kept, collecting, met>> /\ \A c \in Callbacks \ Faulty : received'[c] = received[c]
      BY <1>6, <1>10, <2>2
    <3> QED
      BY <3>1, CollectorsRest DEF BusInv
  <2> QED
    BY <2>1, <2>2
<1>15. \A u \in Emitters : (pub[u].pc # "idle" => pub[u].event \in Bus!Range(tracked))'
  BY <1>1, <1>3, <1>6, <1>8, <1>9 DEF BusInv, Bus!Range
<1>16. \A u \in Emitters : (pub[u].pc = "deliver" => Owes(u))'
  <2> SUFFICES ASSUME NEW u \in Emitters, pub'[u].pc = "deliver" PROVE Owes(u)'
    OBVIOUS
  <2>1. CASE u = t
    <3>1. EndsWith(p.owed, p.todo)
      BY <1>3 DEF Owes
    <3>4. Len(q.todo) = Len(p.todo) - 1 /\ Len(p.todo) <= Len(p.owed)
      BY <1>4, <1>8, <3>1 DEF EndsWith
    <3>5. /\ Len(q.todo) \in Nat /\ Len(q.todo) <= Len(p.owed)
          /\ \A i \in 1..Len(q.todo) : i \in 1..(Len(p.todo) - 1) /\ i + 1 \in 1..Len(p.todo)
                                       /\ Len(p.owed) - Len(q.todo) + i = Len(p.owed) - Len(p.todo) + (i + 1)
          /\ \A i \in 1..(Len(p.owed) - Len(q.todo)) :
               i \in 1..(Len(p.owed) - Len(p.todo)) \/ i = Len(p.owed) - Len(p.todo) + 1
          /\ 1..(Len(p.owed) - Len(p.todo)) \subseteq 1..Len(p.owed)
      <4> DEFINE a == Len(p.owed)
      <4> DEFINE b == Len(p.todo)
      <4> DEFINE c == Len(q.todo)
      <4>1. a \in Nat /\ b \in Nat /\ b >= 1 /\ c = b - 1 /\ b <= a
        BY <1>5, <3>4
      <4> HIDE DEF a, b, c
      <4>2. /\ c \in Nat /\ c <= a
            /\ \A i \in 1..c : i \in 1..(b - 1) /\ i + 1 \in 1..b /\ a - c + i = a - b + (i + 1)
            /\ \A i \in 1..(a - c) : i \in 1..(a - b) \/ i = a - b + 1
            /\ 1..(a - b) \subseteq 1..a
        BY <4>1, OneLess
      <4> QED
        BY <4>2 DEF a, b, c
    <3>2. EndsWith(p.owed, q.todo)
      <4>1. Len(q.todo) <= Len(p.owed)
        BY <3>5
      <4>2. ASSUME NEW i \in 1..Len(q.todo) PROVE q.todo[i] = p.owed[Len(p.owed) - Len(q.todo) + i]
        <5>1. i \in 1..(Len(p.todo) - 1) /\ i + 1 \in 1..Len(p.todo)
              /\ Len(p.owed) - Len(q.todo) + i = Len(p.owed) - Len(p.todo) + (i + 1)
          BY <3>5, <4>2
        <5>2. q.todo[i] = p.todo[i + 1]
          BY <1>4, <1>8, <5>1
        <5>3. p.todo[i + 1] = p.owed[Len(p.owed) - Len(p.todo) + (i + 1)]
          BY <3>1, <5>1 DEF EndsWith
        <5> QED
          BY <5>1, <5>2, <5>3
      <4> QED
        BY <4>1, <4>2 DEF EndsWith
    <3>3. ASSUME NEW i \in 1..(Len(p.owed) - Len(q.todo)), e.type \in p.owed[i].types
          PROVE  e \in Bus!Range(received'[p.owed[i].callback])
      <4>1. CASE i \in 1..(Len(p.owed) - Len(p.todo))
        <5>1. p.owed[i] \in Subscriptions
          <6>1. i \in 1..Len(p.owed)
            BY <3>5, <4>1
          <6> QED
            BY <1>3, <6>1, LenProperties
        <5>2. e \in Bus!Range(received[p.owed[i].callback])
          BY <1>3, <3>3, <4>1 DEF Owes
        <5> QED
          BY <1>11, <5>1, <5>2 DEF Subscriptions
      <4>2. CASE i = Len(p.owed) - Len(p.todo) + 1
        <5>1. 1 \in 1..Len(p.todo)
          BY <1>5
        <5>2. p.todo[1] = p.owed[Len(p.owed) - Len(p.todo) + 1]
          BY <3>1, <5>1 DEF EndsWith
        <5>3. p.owed[i] = s
          BY <1>5, <4>2, <5>2
        <5> QED
          BY <1>11, <3>3, <5>3
      <4>3. i \in 1..(Len(p.owed) - Len(p.todo)) \/ i = Len(p.owed) - Len(p.todo) + 1
        BY <3>3, <3>5
      <4> QED
        BY <4>1, <4>2, <4>3
    <3>6. pub'[u] = q /\ q.event = e /\ q.owed = p.owed
      BY <1>8, <1>9, <2>1
    <3>7. EndsWith(q.owed, q.todo)
      BY <3>2, <3>6
    <3>8. \A i \in 1..(Len(q.owed) - Len(q.todo)) :
            q.event.type \in q.owed[i].types => q.event \in Bus!Range(received'[q.owed[i].callback])
      BY <3>3, <3>6
    <3> HIDE DEF p, e, s
    <3> QED
      BY <3>6, <3>7, <3>8 DEF Owes, Bus!Range
  <2>2. CASE u # t
    <3>1. Owes(u) /\ pub'[u] = pub[u] /\ pub[u] \in Publications /\ pub[u].pc = "deliver"
      BY <1>1, <1>9, <2>2 DEF BusInv
    <3>2. pub[u].owed \in Seq(Subscriptions) /\ pub[u].todo \in Seq(Subscriptions)
      BY <3>1, PublicationIs
    <3>3. ASSUME NEW i \in 1..(Len(pub[u].owed) - Len(pub[u].todo)), pub[u].event.type \in pub[u].owed[i].types
          PROVE  pub[u].event \in Bus!Range(received'[pub[u].owed[i].callback])
      <4>1. pub[u].event \in Bus!Range(received[pub[u].owed[i].callback])
        BY <3>1, <3>3 DEF Owes
      <4>4. Len(pub[u].owed) \in Nat /\ Len(pub[u].todo) \in Nat
        BY <3>2, LenProperties
      <4>2. i \in 1..Len(pub[u].owed)
        BY <3>3, <4>4
      <4>3. pub[u].owed[i].callback \in Callbacks
        <5>1. pub[u].owed[i] \in Subscriptions
          BY <3>2, <4>2, ElementOfSeq
        <5> QED
          BY <5>1 DEF Subscriptions
      <4> QED
        BY <1>11, <4>1, <4>3
    <3>4. EndsWith(pub[u].owed, pub[u].todo) /\ pub'[u] = pub[u]
      BY <3>1 DEF Owes
    <3> QED
      BY <3>3, <3>4 DEF Owes, Bus!Range
  <2> QED
    BY <2>1, <2>2
<1>17. SubscribersAreDistinct'
  BY <1>6 DEF BusInv, SubscribersAreDistinct
<1> QED
  BY <1>6, <1>9, <1>11, <1>12, <1>13, <1>15, <1>16, <1>17 DEF BusInv

\* The invariant of the bus holds initially.
LEMMA BusInit == Bus!Init => BusInv
<1> SUFFICES ASSUME Bus!Init PROVE BusInv
  OBVIOUS
<1>1. subscribers = <<>> /\ tracked = <<>> /\ pub = [t \in Emitters |-> Bus!Idle]
      /\ received = [c \in Callbacks |-> <<>>] /\ kept = [c \in Callbacks |-> <<>>]
      /\ collecting = [t \in Emitters |-> Bus!Outside]
  BY DEF Bus!Init
<1>2. subscribers \in Seq(Subscriptions) /\ Len(subscribers) = 0 /\ tracked \in Seq(BusEvents) /\ DOMAIN subscribers = {}
  BY <1>1, EmptySeq
<1>3. Len(subscribers) <= MaxSubscribers /\ SubscribersAreDistinct
  BY <1>2, BusConstants DEF SubscribersAreDistinct
<1>4. pub \in [Emitters -> Publications] /\ \A t \in Emitters : pub[t].pc = "idle"
  BY <1>1 DEF Publications, Bus!Idle
<1>5. received \in [Callbacks -> Seq(BusEvents)] /\ kept \in [Callbacks -> Seq(Nat)]
      /\ \A c \in Callbacks : received[c] = <<>> /\ kept[c] = <<>>
  BY <1>1, EmptySeq
<1>6. \A c \in Callbacks : Bus!Range(received[c]) \subseteq Bus!Range(tracked)
  BY <1>5 DEF Bus!Range
<1>7. collecting \in [Emitters -> Work] /\ \A t \in Emitters : collecting[t].pc = "outside"
  BY <1>1 DEF Work, Bus!Outside
<1>8. ASSUME NEW c \in Callbacks PROVE Ordered(c) /\ Rests(c)
  <2>1. kept[c] = <<>> /\ Len(kept[c]) = 0 /\ DOMAIN kept[c] = {} /\ Len(received[c]) = 0
    BY <1>5, EmptySeq
  <2>2. Bus!Newest(0) \in Seq(Nat) /\ Len(Bus!Newest(0)) = 0
    BY NewestIs, BusConstants
  <2>3. Bus!Newest(0) = <<>>
    BY <2>2, EmptySeq
  <2> QED
    BY <2>1, <2>3, BusConstants DEF Ordered, Rests, Bus!InOrder
<1> QED
  BY <1>2, <1>3, <1>4, <1>5, <1>6, <1>7, <1>8 DEF BusInv, CollectorInv, Serves

\* Emitting an event keeps the invariant.
LEMMA EmitKeeps == ASSUME BusInv, NEW t \in Emitters, Bus!Emit(t) PROVE BusInv'
<1>1. PICK kind \in EventTypes :
        /\ tracked' = Append(tracked, Bus!Event(Len(tracked) + 1, kind))
        /\ pub' = [pub EXCEPT ![t] = [pc |-> "publish", event |-> Bus!Event(Len(tracked) + 1, kind)]]
        /\ UNCHANGED <<subscribers, received, kept, collecting, met>>
  BY DEF Bus!Emit, Bus!collectors
<1> DEFINE e == Bus!Event(Len(tracked) + 1, kind)
<1> DEFINE p == [pc |-> "publish", event |-> e]
<1>2. tracked \in Seq(BusEvents)
  BY DEF BusInv
<1>3. e \in BusEvents
  BY <1>2, LenProperties DEF Bus!Event, BusEvents
<1> HIDE DEF e
<1>4. tracked' \in Seq(BusEvents) /\ Bus!Range(tracked') = Bus!Range(tracked) \cup {e}
  <2>1. tracked' = Append(tracked, e)
    BY <1>1 DEF e
  <2>2. Append(tracked, e) \in Seq(BusEvents) /\ Bus!Range(Append(tracked, e)) = Bus!Range(tracked) \cup {e}
    BY <1>2, <1>3, RangeOfAppend
  <2> QED
    BY <2>1, <2>2
<1>5. p \in Publications /\ p.event = e /\ p.pc = "publish" /\ pub' = [pub EXCEPT ![t] = p]
  BY <1>1, <1>3 DEF Publications, e
<1> HIDE DEF p
<1> QED
  BY <1>1, <1>4, <1>5, PublicationKeeps

\* The steps of a publication before and after its deliveries keep the invariant.
LEMMA PublishKeeps ==
  ASSUME BusInv, NEW t \in Emitters, Bus!PublishInactive(t) \/ Bus!PublishActive(t) \/ Bus!CopySubscribers(t) \/ Bus!Published(t)
  PROVE  BusInv'
<1> DEFINE p == pub'[t]
<1>1. pub \in [Emitters -> Publications] /\ pub[t] \in Publications /\ subscribers \in Seq(Subscriptions)
      /\ (pub[t].pc # "idle" => pub[t].event \in Bus!Range(tracked)) /\ tracked \in Seq(BusEvents)
  BY DEF BusInv
<1>2. UNCHANGED <<subscribers, received, kept, collecting, met, tracked>>
  BY DEF Bus!collectors, Bus!PublishInactive, Bus!PublishActive, Bus!CopySubscribers, Bus!Published
<1>3. pub' = [pub EXCEPT ![t] = p]
  BY <1>1 DEF Bus!PublishInactive, Bus!PublishActive, Bus!CopySubscribers, Bus!Published
<1>4. CASE Bus!PublishInactive(t) \/ Bus!Published(t)
  <2>1. p = Bus!Idle
    BY <1>1, <1>4 DEF Bus!PublishInactive, Bus!Published
  <2>2. p \in Publications /\ p.pc = "idle"
    BY <2>1 DEF Publications, Bus!Idle
  <2> HIDE DEF p
  <2> QED
    BY <1>1, <1>2, <1>3, <2>2, PublicationKeeps
<1>5. CASE Bus!PublishActive(t)
  <2>1. p = [pub[t] EXCEPT !.pc = "copy"] /\ pub[t].pc = "publish"
    BY <1>1, <1>5 DEF Bus!PublishActive
  <2>2. pub[t] \in [pc : {"publish", "copy"}, event : BusEvents]
    BY <1>1, <2>1, PublicationIs
  <2>3. p \in Publications /\ p.pc = "copy" /\ p.event = pub[t].event
    BY <2>1, <2>2 DEF Publications
  <2> HIDE DEF p
  <2> QED
    BY <1>1, <1>2, <1>3, <2>1, <2>3, PublicationKeeps
<1>6. CASE Bus!CopySubscribers(t)
  <2>1. p = [pc |-> "deliver", event |-> pub[t].event, todo |-> subscribers, owed |-> subscribers] /\ pub[t].pc = "copy"
    BY <1>1, <1>6 DEF Bus!CopySubscribers
  <2>2. pub[t] \in [pc : {"publish", "copy"}, event : BusEvents]
    BY <1>1, <2>1, PublicationIs
  <2>3. pub[t].event \in BusEvents
    BY <2>2
  <2>4. p \in Publications /\ p.pc = "deliver" /\ p.event = pub[t].event /\ p.todo = p.owed
    BY <1>1, <2>1, <2>3 DEF Publications
  <2> HIDE DEF p
  <2> QED
    BY <1>1, <1>2, <1>3, <2>1, <2>4, PublicationKeeps
<1> QED
  BY <1>4, <1>5, <1>6

\* Subscribing keeps the invariant: a new id differs from all that are subscribed.
LEMMA SubscribeKeeps ==
  ASSUME BusInv, NEW c \in Callbacks, NEW types \in Filters, Len(subscribers) < MaxSubscribers, Bus!Subscribe(c, types)
  PROVE  BusInv'
<1> DEFINE s == [id |-> Bus!DefaultId(c), callback |-> c, types |-> types]
<1>1. subscribers \in Seq(Subscriptions) /\ Len(subscribers) \in Nat /\ DOMAIN subscribers = 1..Len(subscribers)
      /\ SubscribersAreDistinct
  BY LenProperties DEF BusInv
<1>2. s \in Subscriptions
  BY <1>1, BusConstants DEF Subscriptions, Bus!DefaultId
<1>3. UNCHANGED <<pub, tracked, received, kept, collecting, met>> /\ subscribers' = Bus!Put(s)
  BY DEF Bus!Subscribe, Bus!collectors
<1> HIDE DEF s
<1>4. CASE s.id \in Bus!Ids
  <2>1. subscribers' = [i \in DOMAIN subscribers |-> IF subscribers[i].id = s.id THEN s ELSE subscribers[i]]
    BY <1>3, <1>4 DEF Bus!Put
  <2>2. \A i \in 1..Len(subscribers) : subscribers[i] \in Subscriptions
    BY <1>1, ElementOfSeq
  <2>3. subscribers' \in [1..Len(subscribers) -> Subscriptions]
    BY <1>1, <1>2, <2>1, <2>2
  <2>4. subscribers' \in Seq(Subscriptions) /\ Len(subscribers') = Len(subscribers)
    BY <1>1, <2>3, SeqDef, LenProperties
  <2>5. \A i \in DOMAIN subscribers : subscribers'[i].id = subscribers[i].id
    BY <2>1
  <2>6. SubscribersAreDistinct'
    BY <1>1, <2>1, <2>5 DEF SubscribersAreDistinct
  <2> QED
    BY <1>1, <1>3, <2>4, <2>6, BusConstants, SubscribersKeep
<1>5. CASE s.id \notin Bus!Ids
  <2>1. subscribers' = Append(subscribers, s)
    BY <1>3, <1>5 DEF Bus!Put
  <2>2. /\ subscribers' \in Seq(Subscriptions) /\ Len(subscribers') = Len(subscribers) + 1 /\ subscribers'[Len(subscribers) + 1] = s
        /\ \A i \in 1..Len(subscribers) : subscribers'[i] = subscribers[i]
    BY <1>1, <1>2, <2>1, AppendProperties
  <2>3. \A i \in 1..Len(subscribers) : subscribers[i].id # s.id
    BY <1>1, <1>5 DEF Bus!Ids, Bus!Range
  <2>4. DOMAIN subscribers' = 1..Len(subscribers) \cup {Len(subscribers) + 1}
    <3>1. DOMAIN subscribers' = 1..(Len(subscribers) + 1)
      BY <2>2, LenProperties
    <3> QED
      BY <1>1, <3>1
  <2>5. SubscribersAreDistinct'
    BY <1>1, <2>2, <2>3, <2>4 DEF SubscribersAreDistinct
  <2>6. Len(subscribers') <= MaxSubscribers
    BY <1>1, <2>2, BusConstants
  <2> QED
    BY <1>3, <2>2, <2>5, <2>6, SubscribersKeep
<1> QED
  BY <1>4, <1>5

\* Unsubscribing keeps the invariant: what is owed to running publications stays owed.
LEMMA UnsubscribeKeeps == ASSUME BusInv, NEW id, Bus!Unsubscribe(id) PROVE BusInv'
<1> DEFINE n == Len(subscribers)
<1>1. subscribers \in Seq(Subscriptions) /\ n \in Nat /\ DOMAIN subscribers = 1..n /\ SubscribersAreDistinct /\ n <= MaxSubscribers
  BY LenProperties DEF BusInv
<1>2. PICK i \in DOMAIN subscribers : subscribers' = SubSeq(subscribers, 1, i - 1) \o SubSeq(subscribers, i + 1, Len(subscribers))
  BY DEF Bus!Unsubscribe
<1>3. UNCHANGED <<pub, tracked, received, kept, collecting, met>>
  BY DEF Bus!Unsubscribe, Bus!collectors
<1>4. subscribers' = SubSeq(subscribers, 1, i - 1) \o SubSeq(subscribers, i + 1, n)
  BY <1>2
<1>5. i \in 1..n
  BY <1>1, <1>2
<1> DEFINE l == SubSeq(subscribers, 1, i - 1)
<1> DEFINE r == SubSeq(subscribers, i + 1, n)
<1>6. /\ l \in Seq(Subscriptions) /\ Len(l) = i - 1 /\ \A j \in 1..(i - 1) : l[j] = subscribers[j]
  <2>1. \A j \in 1..(i - 1) : subscribers[j] \in Subscriptions
    <3> TAKE j \in 1..(i - 1)
    <3>1. j \in 1..n
      BY <1>1, <1>5
    <3> QED
      BY <1>1, <3>1, ElementOfSeq
  <2>2. /\ l \in Seq(Subscriptions) /\ Len(l) = (IF 1 <= i - 1 THEN i - 1 - 1 + 1 ELSE 0)
        /\ \A j \in 1..(i - 1 - 1 + 1) : l[j] = subscribers[1 + j - 1]
    BY <1>1, <1>5, <2>1, SubSeqProperties
  <2>3. i \in Nat /\ i >= 1
    BY <1>1, <1>5
  <2> HIDE DEF l
  <2>4. Len(l) = i - 1
    BY <2>2, <2>3
  <2>5. \A j \in 1..(i - 1) : j \in 1..(i - 1 - 1 + 1) /\ 1 + j - 1 = j
    BY <2>3
  <2> QED
    BY <2>2, <2>4, <2>5
<1>7. /\ r \in Seq(Subscriptions) /\ Len(r) = n - i /\ \A j \in 1..(n - i) : r[j] = subscribers[i + j]
  <2>1. \A j \in (i + 1)..n : subscribers[j] \in Subscriptions
    <3> TAKE j \in (i + 1)..n
    <3>1. j \in 1..n
      BY <1>1, <1>5
    <3> QED
      BY <1>1, <3>1, ElementOfSeq
  <2>2. /\ r \in Seq(Subscriptions) /\ Len(r) = (IF i + 1 <= n THEN n - (i + 1) + 1 ELSE 0)
        /\ \A j \in 1..(n - (i + 1) + 1) : r[j] = subscribers[i + 1 + j - 1]
    <3>1. i + 1 \in Int /\ n \in Int
      BY <1>1, <1>5
    <3> QED
      BY <1>1, <2>1, <3>1, SubSeqProperties
  <2>3. i \in Nat /\ i <= n /\ n \in Nat
    BY <1>1, <1>5
  <2> HIDE DEF r, n
  <2>4. Len(r) = n - i
    BY <2>2, <2>3
  <2>5. \A j \in 1..(n - i) : j \in 1..(n - (i + 1) + 1) /\ i + 1 + j - 1 = i + j
    BY <2>3
  <2> QED
    BY <2>2, <2>4, <2>5
<1> HIDE DEF l, r, n
<1>8. /\ subscribers' \in Seq(Subscriptions) /\ Len(subscribers') = (i - 1) + (n - i)
      /\ \A j \in 1..((i - 1) + (n - i)) : subscribers'[j] = IF j <= i - 1 THEN l[j] ELSE r[j - (i - 1)]
  <2>1. subscribers' = l \o r
    BY <1>4 DEF l, r, n
  <2> QED
    BY <1>6, <1>7, <2>1, ConcatProperties
<1>9. Len(subscribers') = n - 1 /\ DOMAIN subscribers' = 1..(n - 1)
  <2>1. Len(subscribers') = n - 1
    BY <1>1, <1>5, <1>8
  <2> QED
    BY <1>8, <2>1, LenProperties
\* Each of the others moves up by one at most.
<1>10. \A j \in 1..(n - 1) : /\ j < i => subscribers'[j] = subscribers[j]
                             /\ j >= i => subscribers'[j] = subscribers[j + 1]
  <2> TAKE j \in 1..(n - 1)
  <2>1. j \in 1..((i - 1) + (n - i))
    BY <1>1, <1>5
  <2>2. CASE j < i
    <3>1. j <= i - 1 /\ j \in 1..(i - 1) /\ ~(j >= i)
      BY <1>1, <1>5, <2>2
    <3> QED
      BY <1>6, <1>8, <2>1, <3>1
  <2>3. CASE j >= i
    <3>1. ~(j <= i - 1) /\ j - (i - 1) \in 1..(n - i) /\ i + (j - (i - 1)) = j + 1 /\ ~(j < i)
      BY <1>1, <1>5, <2>3
    <3> QED
      BY <1>7, <1>8, <2>1, <3>1
  <2> QED
    BY <1>1, <1>5, <2>2, <2>3
<1>11. SubscribersAreDistinct'
  <2> SUFFICES ASSUME NEW j \in 1..(n - 1), NEW k \in 1..(n - 1), subscribers'[j].id = subscribers'[k].id PROVE j = k
    BY <1>9 DEF SubscribersAreDistinct
  <2>1. \E a \in 1..n : subscribers'[j] = subscribers[a] /\ ((j < i /\ a = j) \/ (j >= i /\ a = j + 1))
    <3>1. CASE j < i
      BY <1>1, <1>5, <1>10, <3>1
    <3>2. CASE j >= i
      <4>1. j + 1 \in 1..n
        BY <1>1
      <4> QED
        BY <1>10, <3>2, <4>1
    <3> QED
      BY <1>1, <1>5, <3>1, <3>2
  <2>2. PICK a \in 1..n : subscribers'[j] = subscribers[a] /\ ((j < i /\ a = j) \/ (j >= i /\ a = j + 1))
    BY <2>1
  <2>3. \E b \in 1..n : subscribers'[k] = subscribers[b] /\ ((k < i /\ b = k) \/ (k >= i /\ b = k + 1))
    <3>1. CASE k < i
      BY <1>1, <1>5, <1>10, <3>1
    <3>2. CASE k >= i
      <4>1. k + 1 \in 1..n
        BY <1>1
      <4> QED
        BY <1>10, <3>2, <4>1
    <3> QED
      BY <1>1, <1>5, <3>1, <3>2
  <2>4. PICK b \in 1..n : subscribers'[k] = subscribers[b] /\ ((k < i /\ b = k) \/ (k >= i /\ b = k + 1))
    BY <2>3
  <2>5. a = b
    BY <1>1, <2>2, <2>4 DEF SubscribersAreDistinct
  <2> QED
    BY <1>1, <1>5, <2>2, <2>4, <2>5
<1>12. Len(subscribers') <= MaxSubscribers
  BY <1>1, <1>9, BusConstants
<1> QED
  BY <1>3, <1>8, <1>11, <1>12, SubscribersKeep

\* Deactivating the bus and clearing its subscribers keep the invariant.
LEMMA ShutdownKeeps == ASSUME BusInv, Bus!Deactivate \/ Bus!ClearSubscribers PROVE BusInv'
<1>1. UNCHANGED <<pub, tracked, received, kept, collecting, met>>
  BY DEF Bus!Deactivate, Bus!ClearSubscribers, Bus!collectors
<1>2. CASE Bus!Deactivate
  BY <1>1, <1>2, SubscribersKeep DEF Bus!Deactivate, BusInv, SubscribersAreDistinct
<1>3. CASE Bus!ClearSubscribers
  <2>1. subscribers' = <<>>
    BY <1>3 DEF Bus!ClearSubscribers
  <2>2. subscribers' \in Seq(Subscriptions) /\ Len(subscribers') = 0 /\ DOMAIN subscribers' = {}
    BY <2>1, EmptySeq
  <2>3. Len(subscribers') <= MaxSubscribers /\ SubscribersAreDistinct'
    BY <2>2, BusConstants DEF SubscribersAreDistinct
  <2> QED
    BY <1>1, <2>2, <2>3, SubscribersKeep
<1> QED
  BY <1>2, <1>3

\* What a thread does in a collector touches no publication.
LEMMA CollectingKeeps ==
  ASSUME BusInv, NEW t \in Emitters, Bus!CheckLength(t) \/ Bus!CopyLast(t) \/ Bus!Assign(t)
  PROVE  BusInv'
<1>1. UNCHANGED <<subscribers, pub, tracked, received>>
  BY DEF Bus!CheckLength, Bus!CopyLast, Bus!Assign
<1>2. CollectorInv'
  BY CollectorSteps DEF BusInv
<1> QED
  BY <1>1, <1>2 DEF BusInv, Owes, SubscribersAreDistinct

\* Every step of the bus keeps its invariant.
LEMMA BusSteps == BusInv /\ Bus!Next => BusInv'
BY CollectingKeeps, EmitKeeps, PublishKeeps, DeliverKeeps, SubscribeKeeps, UnsubscribeKeeps, ShutdownKeeps DEF Bus!Next

\* A bus that rests keeps its invariant.
LEMMA BusRests == BusInv /\ UNCHANGED eventVars => BusInv'
BY SubscribersKeep DEF BusInv, eventVars, SubscribersAreDistinct

\* The invariant gives the types, and collectors the newest events.
LEMMA BusOwes == BusInv => Bus!TypeOK /\ Bus!CollectorKeepsNewest
<1> SUFFICES ASSUME BusInv PROVE Bus!TypeOK /\ Bus!CollectorKeepsNewest
  OBVIOUS
<1>1. Bus!TypeOK
  <2>1. Bus!IsInjective([i \in DOMAIN subscribers |-> subscribers[i].id])
    BY DEF BusInv, SubscribersAreDistinct, Bus!IsInjective
  <2>2. \A t \in Emitters : pub[t].pc \in {"idle", "publish", "copy", "deliver"}
    BY PublicationIs DEF BusInv
  <2>3. \A t \in Emitters : collecting[t].pc \in {"outside", "check", "copy", "assign"}
    BY WorkIs DEF BusInv, CollectorInv
  <2> QED
    BY <2>1, <2>2, <2>3 DEF BusInv, Bus!TypeOK
<1>2. Bus!CollectorKeepsNewest
  BY DEF BusInv, CollectorInv, Ordered, Rests, At, Bus!CollectorKeepsNewest, Bus!Inside
<1> QED
  BY <1>1, <1>2

\* A publication that ends has delivered everything it owes.
LEMMA PublishedMissesNobody ==
  ASSUME BusInv, NEW t \in Emitters, Bus!Published(t)
  PROVE  \A s \in Bus!Range(pub[t].owed) : pub[t].event.type \in s.types => pub[t].event \in Bus!Range(received[s.callback])
<1>1. pub[t] \in Publications /\ pub[t].pc = "deliver" /\ pub[t].todo = <<>> /\ Owes(t)
  BY DEF BusInv, Bus!Published
<1>2. pub[t].owed \in Seq(Subscriptions) /\ Len(pub[t].todo) = 0
  BY <1>1, PublicationIs, EmptySeq
<1>3. Len(pub[t].owed) \in Nat /\ DOMAIN pub[t].owed = 1..Len(pub[t].owed)
  BY <1>2, LenProperties
<1>4. Len(pub[t].owed) - Len(pub[t].todo) = Len(pub[t].owed)
  BY <1>2, <1>3
<1>5. \A i \in 1..Len(pub[t].owed) :
        pub[t].event.type \in pub[t].owed[i].types => pub[t].event \in Bus!Range(received[pub[t].owed[i].callback])
  BY <1>1, <1>4 DEF Owes
<1>6. \A s \in Bus!Range(pub[t].owed) : \E i \in 1..Len(pub[t].owed) : s = pub[t].owed[i]
  BY <1>3 DEF Bus!Range
<1> QED
  BY <1>5, <1>6

-----------------------------------------------------------------------------
(* The state of a run, its checkpoints, the approvals and the audit trail. *)

\* A set of naturals has a least element.
LEMMA LeastNatural ==
  ASSUME NEW S \in SUBSET Nat, S # {}
  PROVE  \E n \in S : \A m \in S : n <= m
<1>1. PICK n \in S : \A m \in S : ~ (<<m, n>> \in OpToRel(<, Nat))
  BY WFMin, NatLessThanWellFounded
<1>2. \A m \in S : ~ (m < n)
  BY <1>1 DEF OpToRel
<1> QED
  BY <1>2

RunStates == [marked : SUBSET Run!Steps, status : Run!RunStatuses, phase : {"starting", "working", "resuming"}, current : 0..PlanLength,
              plan : [Run!Steps -> Run!StepStatuses]]
SoundStates == {s \in RunStates : \A i \in Run!Steps : s.plan[i] = "active" => i = s.current \/ i \in s.marked}

RunInv ==
  /\ cached \in {Run!NoState} \cup SoundStates /\ saved \subseteq SoundStates /\ snapshots \in Seq(SoundStates)
  /\ Len(snapshots) <= MaxSnapshots /\ updates \in Nat /\ IsFiniteSet(saved) /\ Cardinality(saved) <= updates

\* The bounds of a run's state are numbers.
LEMMA RunConstants == PlanLength \in Nat /\ MaxUpdates \in Nat /\ MaxSnapshots \in Nat \ {0} /\ HasStore \in BOOLEAN
BY RecordsAssumption DEF Run!StateRunAssumption

\* The instance counts as FiniteSets does.
LEMMA RunCardinality == \A S : Run!Cardinality(S) = Cardinality(S)
BY DEF Run!Cardinality, Cardinality

\* A sound state whose plan and current step stay is sound.
LEMMA RetoldIsSound ==
  ASSUME NEW s \in SoundStates, NEW status \in Run!RunStatuses
  PROVE  [s EXCEPT !.status = status] \in SoundStates
BY DEF SoundStates, RunStates

\* A sound state that is resumed is sound.
Resumed(s) == [s EXCEPT !.status = "running", !.phase = "resuming"]
LEMMA ResumedIsSound == ASSUME NEW s \in SoundStates PROVE Resumed(s) \in SoundStates
BY DEF SoundStates, RunStates, Run!RunStatuses, Resumed

\* A new state has no active step.
LEMMA NewStateIsSound == Run!NewState \in SoundStates
<1>1. PlanLength \in Nat
  BY RunConstants
<1>2. [i \in Run!Steps |-> IF i = 1 THEN "active" ELSE "pending"] \in [Run!Steps -> Run!StepStatuses]
  BY DEF Run!StepStatuses
<1>3. Run!NewState \in RunStates
  BY <1>1, <1>2 DEF RunStates, Run!NewState, Run!RunStatuses
<1>4. \A i \in Run!Steps : i = 1 => Run!NewState.current = i
  BY <1>1 DEF Run!Steps, Run!NewState
<1> QED
  BY <1>3, <1>4 DEF SoundStates, Run!NewState

\* A state in which a step is given a status is sound: one set active is marked.
LEMMA StepSetIsSound ==
  ASSUME NEW s \in SoundStates, NEW i \in Run!Steps, NEW status \in Run!StepStatuses
  PROVE  Run!SetStep(s, i, status) \in SoundStates
<1> DEFINE plan == [s.plan EXCEPT ![i] = status]
<1> DEFINE marked == IF status = "active" THEN s.marked \cup {i} ELSE s.marked \ {i}
<1>1. s \in RunStates /\ s.plan \in [Run!Steps -> Run!StepStatuses] /\ s.marked \in SUBSET Run!Steps
      /\ \A j \in Run!Steps : s.plan[j] = "active" => j = s.current \/ j \in s.marked
  BY DEF SoundStates, RunStates
<1>2. plan \in [Run!Steps -> Run!StepStatuses] /\ marked \in SUBSET Run!Steps
  BY <1>1
<1>3. \A j \in Run!Steps : plan[j] = "active" => j = s.current \/ j \in marked
  BY <1>1
<1>4. Run!SetStep(s, i, status) = [s EXCEPT !.plan = plan, !.marked = marked]
  BY <1>1 DEF Run!SetStep, RunStates
<1> HIDE DEF plan, marked
<1>5. /\ Run!SetStep(s, i, status) \in RunStates /\ Run!SetStep(s, i, status).plan = plan
      /\ Run!SetStep(s, i, status).marked = marked /\ Run!SetStep(s, i, status).current = s.current
  BY <1>1, <1>2, <1>4 DEF RunStates
<1> QED
  BY <1>3, <1>5 DEF SoundStates

\* Advancing completes an active step and makes the first pending one active.
LEMMA AdvancedIsSound == ASSUME NEW s \in SoundStates PROVE Run!Advanced(s) \in SoundStates
<1> DEFINE done == Run!Finished(s)
<1> DEFINE pending == {i \in Run!Steps : done.plan[i] = "pending"}
<1> DEFINE next_ == CHOOSE i \in pending : \A j \in pending : i <= j
<1>1. done \in RunStates /\ \A i \in Run!Steps : done.plan[i] = "active" => i \in done.marked
  <2>1. s \in RunStates /\ \A i \in Run!Steps : s.plan[i] = "active" => i = s.current \/ i \in s.marked
    BY DEF SoundStates
  <2>2. CASE s.current # 0 /\ s.plan[s.current] = "active"
    <3>1. done = [s EXCEPT !.plan[s.current] = "completed"]
      BY <2>2 DEF Run!Finished
    <3>2. s.current \in Run!Steps
      BY <2>1, <2>2, RunConstants DEF Run!Steps, RunStates
    <3> QED
      BY <2>1, <3>1, <3>2 DEF RunStates, Run!StepStatuses
  <2>3. CASE ~(s.current # 0 /\ s.plan[s.current] = "active")
    <3>1. done = s
      BY <2>3 DEF Run!Finished
    <3>2. \A i \in Run!Steps : i # 0
      BY RunConstants DEF Run!Steps
    <3> QED
      BY <2>1, <2>3, <3>1, <3>2
  <2> QED
    BY <2>2, <2>3
<1> HIDE DEF done
<1>2. Run!Advanced(s) = IF pending = {} THEN [done EXCEPT !.current = 0, !.status = "completed"]
                        ELSE [done EXCEPT !.plan[next_] = "active", !.current = next_]
  BY DEF Run!Advanced, done
<1>3. CASE pending = {}
  <2>1. Run!Advanced(s) = [done EXCEPT !.current = 0, !.status = "completed"] /\ 0 \in 0..PlanLength
    BY <1>2, <1>3, RunConstants
  <2>2. /\ Run!Advanced(s) \in RunStates /\ Run!Advanced(s).plan = done.plan
        /\ Run!Advanced(s).marked = done.marked
    BY <1>1, <2>1 DEF RunStates, Run!RunStatuses
  <2> QED
    BY <1>1, <2>2 DEF SoundStates
<1>4. CASE pending # {}
  <2>1. pending \in SUBSET Nat /\ pending \subseteq Run!Steps
    BY RunConstants DEF Run!Steps
  <2>2. \E i \in pending : \A j \in pending : i <= j
    <3> HIDE DEF pending
    <3> QED
      BY <1>4, <2>1, LeastNatural
  <2>3. next_ \in pending
    BY <2>2
  <2>4. next_ \in Run!Steps /\ next_ \in 0..PlanLength
    BY <2>1, <2>3, RunConstants DEF Run!Steps
  <2>5. Run!Advanced(s) = [done EXCEPT !.plan[next_] = "active", !.current = next_]
    BY <1>2, <1>4
  <2> HIDE DEF next_, pending
  <2>6. /\ Run!Advanced(s) \in RunStates /\ Run!Advanced(s).current = next_
        /\ Run!Advanced(s).marked = done.marked
        /\ \A i \in Run!Steps : i # next_ => Run!Advanced(s).plan[i] = done.plan[i]
    <3> DEFINE plan == [done.plan EXCEPT ![next_] = "active"]
    <3>1. done.plan \in [Run!Steps -> Run!StepStatuses]
      BY <1>1 DEF RunStates
    <3>2. plan \in [Run!Steps -> Run!StepStatuses] /\ \A i \in Run!Steps : i # next_ => plan[i] = done.plan[i]
      BY <2>4, <3>1 DEF Run!StepStatuses
    <3>3. Run!Advanced(s) = [done EXCEPT !.plan = plan, !.current = next_]
      BY <2>5
    <3> HIDE DEF plan
    <3>4. /\ Run!Advanced(s).plan = plan /\ Run!Advanced(s) \in RunStates /\ Run!Advanced(s).current = next_
          /\ Run!Advanced(s).marked = done.marked
      BY <1>1, <2>4, <3>2, <3>3 DEF RunStates
    <3> QED
      BY <3>2, <3>4
  <2> QED
    BY <1>1, <2>6 DEF SoundStates
<1> QED
  BY <1>3, <1>4

\* One more record.
LEMMA UpdateKeeps ==
  ASSUME RunInv, NEW s \in SoundStates, Run!Update(s) \/ Run!UpdateAndForget(s)
  PROVE  RunInv'
<1>1. cached' \in {Run!NoState} \cup SoundStates /\ snapshots' = snapshots /\ updates' = updates + 1
      /\ saved' = IF HasStore THEN saved \cup {s} ELSE saved
  BY DEF Run!Update, Run!UpdateAndForget, Run!Persist
<1>2. saved' \subseteq SoundStates
  BY <1>1 DEF RunInv
<1>3. IsFiniteSet(saved') /\ Cardinality(saved') <= updates'
  <2>1. IsFiniteSet(saved) /\ Cardinality(saved) \in Nat /\ Cardinality(saved) <= updates /\ updates \in Nat
    BY FS_CardinalityType DEF RunInv
  <2>2. IsFiniteSet(saved \cup {s}) /\ (Cardinality(saved \cup {s}) = Cardinality(saved) \/ Cardinality(saved \cup {s}) = Cardinality(saved) + 1)
    BY <2>1, FS_AddElement
  <2>3. CASE HasStore
    BY <1>1, <2>1, <2>2, <2>3
  <2>4. CASE ~HasStore
    BY <1>1, <2>1, <2>4
  <2> QED
    BY <2>3, <2>4
<1> QED
  BY <1>1, <1>2, <1>3 DEF RunInv

\* A snapshot of the cached state keeps the invariant, also when it pushes out the oldest.
LEMMA CaptureKeeps == ASSUME RunInv, Run!Capture PROVE RunInv'
<1> DEFINE all == Append(snapshots, cached)
<1>1. cached \in SoundStates /\ snapshots \in Seq(SoundStates) /\ Len(snapshots) <= MaxSnapshots
  BY DEF RunInv, Run!Capture
<1>2. all \in Seq(SoundStates) /\ Len(all) = Len(snapshots) + 1 /\ Len(snapshots) \in Nat
  BY <1>1, AppendProperties, LenProperties
<1>3. snapshots' = IF Len(all) > MaxSnapshots THEN Tail(all) ELSE all
  BY DEF Run!Capture
<1> HIDE DEF all
<1>4. snapshots' \in Seq(SoundStates) /\ Len(snapshots') <= MaxSnapshots
  <2>1. CASE Len(all) > MaxSnapshots
    <3>1. all # <<>>
      BY <1>2, EmptySeq
    <3>2. Tail(all) \in Seq(SoundStates) /\ Len(Tail(all)) = Len(all) - 1
      BY <1>2, <3>1, HeadTailProperties
    <3> QED
      BY <1>1, <1>2, <1>3, <2>1, <3>2, RunConstants
  <2>2. CASE ~(Len(all) > MaxSnapshots)
    BY <1>2, <1>3, <2>2, RunConstants
  <2> QED
    BY <2>1, <2>2
<1> QED
  BY <1>4 DEF RunInv, Run!Capture

\* Every step of a run's state keeps its invariant.
LEMMA RunSteps == RunInv /\ Run!Next => RunInv'
<1> SUFFICES ASSUME RunInv, Run!Next PROVE RunInv'
  OBVIOUS
<1>1. Run!GetState \subseteq SoundStates
  BY DEF Run!GetState, RunInv
<1>2. CASE Run!CreateState
  BY <1>2, NewStateIsSound, UpdateKeeps DEF Run!CreateState
<1>3. CASE Run!SetPhase
  <2>1. PICK s \in SoundStates : Run!Update([s EXCEPT !.phase = "working"])
    BY <1>1, <1>3 DEF Run!SetPhase
  <2>2. [s EXCEPT !.phase = "working"] \in SoundStates
    BY DEF SoundStates, RunStates
  <2> QED
    BY <2>1, <2>2, UpdateKeeps
<1>4. CASE Run!SetStepStatus
  BY <1>1, <1>4, StepSetIsSound, UpdateKeeps DEF Run!SetStepStatus
<1>5. CASE Run!AdvanceStep
  BY <1>1, <1>5, AdvancedIsSound, UpdateKeeps DEF Run!AdvanceStep
<1>6. CASE Run!CompleteRun
  <2>1. PICK s \in SoundStates : Run!UpdateAndForget([s EXCEPT !.status = "completed"])
    BY <1>1, <1>6 DEF Run!CompleteRun
  <2>2. [s EXCEPT !.status = "completed"] \in SoundStates
    <3>1. "completed" \in Run!RunStatuses
      BY DEF Run!RunStatuses
    <3> QED
      BY <3>1, RetoldIsSound
  <2> QED
    BY <2>1, <2>2, UpdateKeeps
<1>7. CASE Run!FailRun
  <2>1. PICK s \in SoundStates : Run!UpdateAndForget([s EXCEPT !.status = "failed"])
    BY <1>1, <1>7 DEF Run!FailRun
  <2>2. [s EXCEPT !.status = "failed"] \in SoundStates
    <3>1. "failed" \in Run!RunStatuses
      BY DEF Run!RunStatuses
    <3> QED
      BY <3>1, RetoldIsSound
  <2> QED
    BY <2>1, <2>2, UpdateKeeps
<1>8. CASE Run!PauseRun
  <2>1. PICK s \in SoundStates : Run!Update([s EXCEPT !.status = "paused"])
    BY <1>1, <1>8 DEF Run!PauseRun
  <2>2. [s EXCEPT !.status = "paused"] \in SoundStates
    <3>1. "paused" \in Run!RunStatuses
      BY DEF Run!RunStatuses
    <3> QED
      BY <3>1, RetoldIsSound
  <2> QED
    BY <2>1, <2>2, UpdateKeeps
<1>9. CASE Run!ResumeRun
  <2>1. PICK s \in SoundStates : Run!Update(Resumed(s))
    BY <1>1, <1>9 DEF Run!ResumeRun, Resumed
  <2>2. Resumed(s) \in SoundStates
    BY ResumedIsSound
  <2> QED
    BY <2>1, <2>2, UpdateKeeps
<1>10. CASE Run!Capture
  BY <1>10, CaptureKeeps
<1>11. CASE Run!LookUp
  <2>1. cached' \in SoundStates /\ UNCHANGED <<saved, updates, snapshots>>
    BY <1>1, <1>11 DEF Run!LookUp
  <2> QED
    BY <2>1 DEF RunInv
<1> QED
  BY <1>2, <1>3, <1>4, <1>5, <1>6, <1>7, <1>8, <1>9, <1>10, <1>11 DEF Run!Next

\* The invariant of a run's state holds initially.
LEMMA RunInit == Run!Init => RunInv
<1> SUFFICES ASSUME Run!Init PROVE RunInv
  OBVIOUS
<1>1. snapshots \in Seq(SoundStates) /\ Len(snapshots) = 0 /\ IsFiniteSet(saved) /\ Cardinality(saved) = 0
  BY EmptySeq, FS_EmptySet DEF Run!Init
<1> QED
  BY <1>1, RunConstants DEF RunInv, Run!Init

\* A state that rests keeps its invariant.
LEMMA RunRests == RunInv /\ UNCHANGED stateVars => RunInv'
BY DEF RunInv, stateVars

\* The invariant gives the types, and one active step at most in every record.
LEMMA RunOwes == RunInv => Run!TypeOK /\ Run!OneActiveStep
<1> SUFFICES ASSUME RunInv PROVE Run!TypeOK /\ Run!OneActiveStep
  OBVIOUS
<1>1. Run!Known \subseteq SoundStates
  <2>1. \A i \in DOMAIN snapshots : snapshots[i] \in SoundStates
    BY LenProperties, ElementOfSeq DEF RunInv
  <2> QED
    BY <2>1 DEF Run!Known, RunInv
<1>2. Run!OneActiveStep
  BY <1>1 DEF Run!OneActiveStep, SoundStates
<1>3. \A s \in Run!Known : s.status \in Run!RunStatuses /\ s.current \in 0..PlanLength /\ \A i \in Run!Steps : s.plan[i] \in Run!StepStatuses
  BY <1>1 DEF SoundStates, RunStates
<1> QED
  BY <1>2, <1>3, RunCardinality DEF RunInv, Run!TypeOK

-----------------------------------------------------------------------------
\* A file that can be read was written for a checkpoint that was made, and its hash is of that.
MadeAt(i) == [id : {i}, run : RunIds, op : Operations, snapshot : Saved!Snapshots]
FileOf(i, c) == [kind : {"file"}, id : {i}, run : RunIds, op : Operations, snapshot : Saved!Readable,
                 hash : {Saved!ComputeHash(c)}]
CheckpointIs(i) ==
  \/ /\ files[i] \in {Saved!Absent, Saved!Torn}
     /\ made[i] = Saved!Absent \/ made[i] \in MadeAt(i)
     /\ i > next => files[i] = Saved!Absent /\ made[i] = Saved!Absent
  \/ made[i] \in MadeAt(i) /\ files[i] \in FileOf(i, made[i]) /\ ~(i > next)
CheckpointInv ==
  /\ next \in 0..MaxCheckpoints /\ DOMAIN files = Saved!Ids /\ DOMAIN made = Saved!Ids
  /\ files = [i \in Saved!Ids |-> files[i]] /\ made = [i \in Saved!Ids |-> made[i]]
  /\ \A i \in Saved!Ids : CheckpointIs(i)

\* The invariant of checkpoints holds initially.
LEMMA CheckpointInit == Saved!Init => CheckpointInv
BY RecordsAssumption DEF Saved!Init, CheckpointInv, CheckpointIs, Saved!CheckpointsAssumption

\* Checkpoints that rest keep their invariant.
LEMMA CheckpointRests == CheckpointInv /\ UNCHANGED checkpointVars => CheckpointInv'
BY DEF CheckpointInv, CheckpointIs, checkpointVars

\* One checkpoint or its file changes.
LEMMA CheckpointKeeps ==
  ASSUME CheckpointInv, NEW i \in Saved!Ids, NEW f, NEW m, files' = [files EXCEPT ![i] = f], made' = [made EXCEPT ![i] = m],
         next' \in 0..MaxCheckpoints, next <= next', CheckpointIs(i)'
  PROVE  CheckpointInv'
<1>1. \A j \in Saved!Ids \ {i} : files'[j] = files[j] /\ made'[j] = made[j]
  BY DEF CheckpointInv
<1>2. DOMAIN files' = Saved!Ids /\ DOMAIN made' = Saved!Ids
      /\ files' = [j \in Saved!Ids |-> files'[j]] /\ made' = [j \in Saved!Ids |-> made'[j]]
  BY DEF CheckpointInv
<1>3. \A j \in Saved!Ids \ {i} : CheckpointIs(j)'
  <2> TAKE j \in Saved!Ids \ {i}
  <2>1. CheckpointIs(j) /\ files'[j] = files[j] /\ made'[j] = made[j]
    BY <1>1 DEF CheckpointInv
  <2>2. j > next' => j > next
    BY RecordsAssumption DEF CheckpointInv, Saved!Ids, Saved!CheckpointsAssumption
  <2> QED
    BY <2>1, <2>2 DEF CheckpointIs
<1> QED
  BY <1>2, <1>3 DEF CheckpointInv

\* Creating a checkpoint, whole or torn by a crash, keeps the invariant.
LEMMA CreateCheckpointKeeps == ASSUME CheckpointInv, Saved!CreateCheckpoint PROVE CheckpointInv'
<1>0. next + 1 \in Saved!Ids /\ next' = next + 1 /\ next <= next' /\ next' \in 0..MaxCheckpoints
  BY RecordsAssumption DEF CheckpointInv, Saved!CreateCheckpoint, Saved!Ids, Saved!CheckpointsAssumption
<1>1. PICK i \in Saved!Ids : i = next + 1 /\ next' = i /\ next <= next' /\ next' \in 0..MaxCheckpoints
  BY <1>0
<1>2. PICK run \in RunIds, op \in Operations, s \in Saved!Snapshots :
       LET c == [id |-> next', run |-> run, op |-> op, snapshot |-> s]
           hash == Saved!ComputeHash(c)
           file == [kind |-> "file", id |-> c.id, run |-> run, op |-> op,
                    snapshot |-> Saved!FromJson(s), hash |-> hash] IN
       \/ /\ files' = [files EXCEPT ![c.id] = file]
          /\ made' = [made EXCEPT ![c.id] = c]
       \/ files' = [files EXCEPT ![c.id] = Saved!Torn] /\ UNCHANGED made
  BY DEF Saved!CreateCheckpoint
<1> DEFINE c == [id |-> i, run |-> run, op |-> op, snapshot |-> s]
<1> DEFINE file == [kind |-> "file", id |-> i, run |-> run, op |-> op,
                    snapshot |-> Saved!FromJson(s), hash |-> Saved!ComputeHash(c)]
<1>3. \/ files' = [files EXCEPT ![i] = file] /\ made' = [made EXCEPT ![i] = c]
      \/ files' = [files EXCEPT ![i] = Saved!Torn] /\ UNCHANGED made
  BY <1>1, <1>2
<1>4. c \in MadeAt(i) /\ file \in FileOf(i, c)
  <2>1. Saved!FromJson(s) \in Saved!Readable
    BY DEF Saved!FromJson, Saved!Snapshots, Saved!Readable
  <2>2. c \in MadeAt(i)
    BY DEF MadeAt
  <2> HIDE DEF c
  <2> QED
    BY <2>1, <2>2 DEF FileOf
<1>5. ~(i > next')
  BY <1>0, <1>1
<1> HIDE DEF c, file
<1>6. CASE files' = [files EXCEPT ![i] = file] /\ made' = [made EXCEPT ![i] = c]
  <2>1. files'[i] = file /\ made'[i] = c
    BY <1>1, <1>6 DEF CheckpointInv
  <2>2. CheckpointIs(i)'
    BY <1>4, <1>5, <2>1 DEF CheckpointIs
  <2> QED
    BY <1>1, <1>6, <2>2, CheckpointKeeps
<1>7. CASE files' = [files EXCEPT ![i] = Saved!Torn] /\ UNCHANGED made
  <2>1. files'[i] = Saved!Torn /\ made' = [made EXCEPT ![i] = made[i]] /\ (made[i] = Saved!Absent \/ made[i] \in MadeAt(i))
    BY <1>1, <1>7 DEF CheckpointInv, CheckpointIs
  <2>2. CheckpointIs(i)'
    BY <1>5, <1>7, <2>1 DEF CheckpointIs
  <2> QED
    BY <1>1, <1>7, <2>1, <2>2, CheckpointKeeps
<1> QED
  BY <1>3, <1>6, <1>7

\* A file that is not torn is of its checkpoint.
LEMMA FileIs ==
  ASSUME CheckpointInv, NEW i \in Saved!Ids, files[i].kind = "file"
  PROVE  made[i] \in MadeAt(i) /\ files[i] \in FileOf(i, made[i]) /\ ~(i > next)
BY DEF CheckpointInv, CheckpointIs, Saved!Absent, Saved!Torn

\* Damage to a file keeps the invariant: its checksum tells.
LEMMA DamageKeeps == ASSUME CheckpointInv, NEW i \in Saved!Ids, Saved!Damage(i) \/ Saved!Alter(i) PROVE CheckpointInv'
<1>1. files[i].kind = "file" /\ made' = made /\ next' = next /\ next \in 0..MaxCheckpoints
  BY DEF Saved!Damage, Saved!Alter, CheckpointInv
<1>2. made[i] \in MadeAt(i) /\ files[i] \in FileOf(i, made[i]) /\ ~(i > next) /\ made' = [made EXCEPT ![i] = made[i]]
  BY <1>1, FileIs DEF CheckpointInv
<1>3. \E f \in FileOf(i, made[i]) \cup {Saved!Torn} : files' = [files EXCEPT ![i] = f]
  <2>1. CASE Saved!Damage(i)
    BY <2>1 DEF Saved!Damage
  <2>2. CASE \E r \in RunIds : files' = [files EXCEPT ![i].run = r]
    <3>1. PICK r \in RunIds : files' = [files EXCEPT ![i].run = r]
      BY <2>2
    <3>2. [files[i] EXCEPT !.run = r] \in FileOf(i, made[i])
      BY <1>2 DEF FileOf
    <3> QED
      BY <3>1, <3>2
  <2>3. CASE \E o \in Operations : files' = [files EXCEPT ![i].op = o]
    <3>1. PICK o \in Operations : files' = [files EXCEPT ![i].op = o]
      BY <2>3
    <3>2. [files[i] EXCEPT !.op = o] \in FileOf(i, made[i])
      BY <1>2 DEF FileOf
    <3> QED
      BY <3>1, <3>2
  <2>4. CASE \E s \in Saved!Readable : files' = [files EXCEPT ![i].snapshot = s]
    <3>1. PICK s \in Saved!Readable : files' = [files EXCEPT ![i].snapshot = s]
      BY <2>4
    <3>2. [files[i] EXCEPT !.snapshot = s] \in FileOf(i, made[i])
      BY <1>2 DEF FileOf
    <3> QED
      BY <3>1, <3>2
  <2> QED
    BY <2>1, <2>2, <2>3, <2>4 DEF Saved!Alter
<1>4. PICK f \in FileOf(i, made[i]) \cup {Saved!Torn} : files' = [files EXCEPT ![i] = f]
  BY <1>3
<1>5. files'[i] = f
  BY <1>4 DEF CheckpointInv
<1>6. CheckpointIs(i)'
  BY <1>1, <1>2, <1>4, <1>5 DEF CheckpointIs
<1>7. next <= next'
  BY <1>1
<1> QED
  BY <1>1, <1>2, <1>4, <1>6, <1>7, CheckpointKeeps

\* Deleting the checkpoints of a run keeps the invariant.
LEMMA DeleteKeeps == ASSUME CheckpointInv, NEW run, Saved!DeleteCheckpoints(run) PROVE CheckpointInv'
<1>1. made' = made /\ next' = next /\ \A i \in Saved!Ids : files'[i] = files[i] \/ files'[i] = Saved!Absent
  BY DEF Saved!DeleteCheckpoints
<1>2. DOMAIN files' = Saved!Ids /\ files' = [i \in Saved!Ids |-> files'[i]]
  BY DEF Saved!DeleteCheckpoints
<1>3. ASSUME NEW i \in Saved!Ids PROVE CheckpointIs(i)'
  <2>1. CheckpointIs(i)
    BY DEF CheckpointInv
  <2> QED
    BY <1>1, <2>1 DEF CheckpointIs
<1> QED
  BY <1>1, <1>2, <1>3 DEF CheckpointInv

\* Every step of checkpoints keeps their invariant.
LEMMA CheckpointSteps == CheckpointInv /\ Saved!Next => CheckpointInv'
BY CreateCheckpointKeeps, DamageKeeps, DeleteKeeps DEF Saved!Next

\* What was read and has the text of a snapshot is what JSON makes of that snapshot.
LEMMA TextTells ==
  ASSUME NEW r \in Saved!Readable, NEW s \in Saved!Snapshots, Saved!TextOf(r) = Saved!TextOf(s)
  PROVE  r = Saved!FromJson(s)
<1>1. Saved!TextOf(r) = r
  BY DEF Saved!Readable, Saved!TextOf, Saved!FromJson
<1>2. r # "keys 9 10"
  BY DEF Saved!Readable
<1>3. s # "keys 9 10"
  BY <1>1, <1>2 DEF Saved!TextOf
<1> QED
  BY <1>1, <1>3 DEF Saved!TextOf

\* The invariant gives the types, and what is loaded was saved.
LEMMA CheckpointsOwe == CheckpointInv => Saved!TypeOK /\ Saved!LoadedIsSaved
<1> SUFFICES ASSUME CheckpointInv PROVE Saved!TypeOK /\ Saved!LoadedIsSaved
  OBVIOUS
<1>1. Saved!TypeOK
  <2>1. ASSUME NEW i \in Saved!Ids
        PROVE  files[i].kind \in {"absent", "torn", "file"} /\ (i > next => files[i] = Saved!Absent /\ made[i] = Saved!Absent)
    BY DEF CheckpointInv, CheckpointIs, Saved!Absent, Saved!Torn, FileOf
  <2> QED
    BY <2>1 DEF Saved!TypeOK, CheckpointInv
<1>2. Saved!LoadedIsSaved
  <2> SUFFICES ASSUME NEW i \in Saved!Ids, Saved!GetCheckpoint(i) # Saved!Absent
               PROVE  /\ made[i] # Saved!Absent
                      /\ files[i].id = i /\ files[i].run = made[i].run /\ files[i].op = made[i].op
                      /\ files[i].snapshot = Saved!FromJson(made[i].snapshot)
                      /\ Saved!GetCheckpoint(i) = files[i]
    BY DEF Saved!LoadedIsSaved
  <2>1. files[i].kind = "file" /\ files[i].hash = Saved!ComputeHash(files[i]) /\ Saved!GetCheckpoint(i) = files[i]
    BY DEF Saved!GetCheckpoint, Saved!VerifyIntegrity
  <2>2. made[i] \in MadeAt(i) /\ files[i] \in FileOf(i, made[i])
    BY <2>1, FileIs
  <2>3. Saved!ComputeHash(files[i]) = Saved!ComputeHash(made[i]) /\ files[i].id = i
    BY <2>1, <2>2 DEF FileOf
  <2>4. /\ files[i].run = made[i].run /\ files[i].op = made[i].op
        /\ Saved!TextOf(files[i].snapshot) = Saved!TextOf(made[i].snapshot)
    BY <2>3 DEF Saved!ComputeHash
  <2>6. files[i].snapshot \in Saved!Readable /\ made[i].snapshot \in Saved!Snapshots
    BY <2>2 DEF FileOf, MadeAt
  <2>7. files[i].snapshot = Saved!FromJson(made[i].snapshot)
    BY <2>4, <2>6, TextTells
  <2>5. made[i] # Saved!Absent
    BY <2>2 DEF MadeAt, Saved!Absent
  <2> QED
    BY <2>1, <2>3, <2>4, <2>5, <2>7
<1> QED
  BY <1>1, <1>2

-----------------------------------------------------------------------------
\* The requests for approval and the answers they were given.
ApprovalRequests == [ask : ApprovalAsks, status : {"pending", "granted", "denied"}]
ApprovalAnswers == {"none", "granted", "denied", "withdrawn"}
Tables(n) == [pending : SUBSET (1..n), approvals : SUBSET (1..n), denied : SUBSET (1..n)]
Resolutions(n) == [request : 1..n, granted : BOOLEAN, step : {"status", "store"}]

\* Where a request is, and what is known of it there: it is in one table, or being resolved, or
\* in none.
Placed(i) ==
  /\ i \in stored.pending => answers[i] = "none" /\ i \notin stored.approvals /\ i \notin stored.denied
                             /\ \A r \in resolving : r.request # i
  /\ i \in stored.approvals => App!Stands(i, "granted") /\ i \notin stored.denied /\ \A r \in resolving : r.request # i
  /\ i \in stored.denied => App!Stands(i, "denied") /\ \A r \in resolving : r.request # i
  /\ \A r \in resolving : r.request = i => /\ App!Answered(i, App!Status(r.granted))
                                           /\ r.step = "store" => requested[i].status = App!Status(r.granted)
  /\ \A q, r \in resolving : q.request = i /\ r.request = i => q = r

RequestsAreTyped ==
  /\ requested \in Seq(ApprovalRequests) /\ answers \in Seq(ApprovalAnswers)
  /\ Len(answers) = Len(requested) /\ Len(requested) <= MaxRequests
  /\ stored \in Tables(Len(requested)) /\ resolving \subseteq Resolutions(Len(requested))
  /\ prompted \subseteq 1..Len(requested) /\ outlived \subseteq 1..Len(requested)

ApprovalInv == RequestsAreTyped /\ \A i \in 1..Len(requested) : Placed(i)

\* The bound of requests is a number.
LEMMA ApprovalConstants == MaxRequests \in Nat
BY RecordsAssumption DEF App!ApprovalsAssumption

\* What is known of a request.
LEMMA RequestIs ==
  ASSUME RequestsAreTyped
  PROVE  /\ Len(requested) \in Nat /\ DOMAIN requested = 1..Len(requested) /\ DOMAIN answers = 1..Len(requested)
         /\ \A i \in 1..Len(requested) : requested[i] \in ApprovalRequests /\ answers[i] \in ApprovalAnswers
BY LenProperties, ElementOfSeq DEF RequestsAreTyped

\* A step that touches one request leaves what is known of the others.
LEMMA OthersAreKept ==
  ASSUME ApprovalInv, NEW i, Len(requested') = Len(requested), outlived' = outlived,
         \A j \in 1..Len(requested) : j # i => requested'[j] = requested[j] /\ answers'[j] = answers[j],
         \A j : j # i => /\ j \in stored'.pending <=> j \in stored.pending
                         /\ j \in stored'.approvals <=> j \in stored.approvals
                         /\ j \in stored'.denied <=> j \in stored.denied,
         \A r : r.request # i => (r \in resolving' <=> r \in resolving),
         RequestsAreTyped', Placed(i)'
  PROVE  ApprovalInv'
<1>1. ASSUME NEW j \in 1..Len(requested), j # i PROVE Placed(j)'
  <2>1. Placed(j) /\ requested'[j] = requested[j] /\ answers'[j] = answers[j] /\ outlived' = outlived
    BY <1>1 DEF ApprovalInv
  <2>2. \A a : App!Answered(j, a)' <=> App!Answered(j, a)
    BY <2>1 DEF App!Answered
  <2>3. \A a : App!Stands(j, a)' <=> App!Stands(j, a)
    BY <2>1, <2>2 DEF App!Stands
  <2>4. \A r : r.request = j => (r \in resolving' <=> r \in resolving)
    BY <1>1
  <2>5. /\ j \in stored'.pending <=> j \in stored.pending
        /\ j \in stored'.approvals <=> j \in stored.approvals
        /\ j \in stored'.denied <=> j \in stored.denied
    BY <1>1
  <2>6. \A r \in resolving' : r.request = j => /\ App!Answered(j, App!Status(r.granted))'
                                               /\ r.step = "store" => requested'[j].status = App!Status(r.granted)
    BY <2>1, <2>2, <2>4 DEF Placed
  <2>7. \A q, r \in resolving' : q.request = j /\ r.request = j => q = r
    BY <2>1, <2>4 DEF Placed
  <2>8. (\A r \in resolving : r.request # j) => \A r \in resolving' : r.request # j
    BY <2>4
  <2>9. /\ j \in stored.pending => answers[j] = "none" /\ j \notin stored.approvals /\ j \notin stored.denied
                                  /\ \A r \in resolving : r.request # j
        /\ j \in stored.approvals => App!Stands(j, "granted") /\ j \notin stored.denied /\ \A r \in resolving : r.request # j
        /\ j \in stored.denied => App!Stands(j, "denied") /\ \A r \in resolving : r.request # j
    BY <2>1 DEF Placed
  <2>10. App!Status(TRUE) = "granted" /\ App!Status(FALSE) = "denied"
    BY DEF App!Status
  <2> QED
    BY <2>1, <2>3, <2>5, <2>6, <2>7, <2>8, <2>9 DEF Placed
<1> QED
  BY <1>1 DEF ApprovalInv

\* A request that is taken out to be resolved.
LEMMA TakeOutKeeps ==
  ASSUME ApprovalInv, NEW i \in 1..Len(requested), NEW granted \in BOOLEAN, App!TakeOut(i, granted),
         prompted' \subseteq 1..Len(requested)
  PROVE  ApprovalInv'
<1> DEFINE n == Len(requested)
<1>0. /\ n \in Nat /\ DOMAIN requested = 1..n /\ DOMAIN answers = 1..n /\ Len(answers) = n /\ Placed(i)
      /\ requested \in Seq(ApprovalRequests) /\ answers \in Seq(ApprovalAnswers) /\ n <= MaxRequests
      /\ stored \in Tables(n) /\ resolving \subseteq Resolutions(n) /\ outlived \subseteq 1..n
      /\ requested' = requested /\ outlived' = outlived
  BY RequestIs DEF ApprovalInv, RequestsAreTyped, App!TakeOut
<1>1. CASE ~App!IsPending(i)
  <2>1. UNCHANGED <<stored, resolving, answers>>
    BY <1>1 DEF App!TakeOut
  <2> QED
    BY <1>0, <2>1 DEF ApprovalInv, RequestsAreTyped, Placed, App!Stands, App!Answered
<1>2. CASE App!IsPending(i)
  <2> DEFINE r == [request |-> i, granted |-> granted, step |-> "status"]
  <2> DEFINE s == App!Status(granted)
  <2>1. /\ i \in stored.pending /\ answers[i] = "none" /\ i \notin stored.approvals /\ i \notin stored.denied
        /\ \A q \in resolving : q.request # i
    BY <1>0, <1>2 DEF App!IsPending, Placed
  <2>2. /\ stored' = [stored EXCEPT !.pending = stored.pending \ {i}] /\ resolving' = resolving \cup {r}
        /\ answers' = [answers EXCEPT ![i] = s]
    BY <1>2, <2>1 DEF App!TakeOut
  <2>3. s \in ApprovalAnswers /\ r \in Resolutions(n) /\ r.request = i /\ r.granted = granted /\ r.step = "status"
    BY DEF App!Status, ApprovalAnswers, Resolutions
  <2>9. s = App!Status(r.granted)
    BY <2>3
  <2> HIDE DEF r, s
  <2>4. answers' \in Seq(ApprovalAnswers) /\ Len(answers') = n /\ answers'[i] = s
        /\ \A j \in 1..n : j # i => answers'[j] = answers[j]
    <3>1. i \in 1..Len(answers)
      BY <1>0
    <3>2. answers' \in Seq(ApprovalAnswers) /\ Len(answers') = Len(answers)
      BY <1>0, <2>2, <2>3, <3>1, ExceptSeq
    <3> QED
      BY <1>0, <2>2, <3>2
  <2>5. /\ stored'.pending = stored.pending \ {i} /\ stored'.approvals = stored.approvals /\ stored'.denied = stored.denied
        /\ stored' \in Tables(n)
    BY <1>0, <2>2 DEF Tables
  <2>6. RequestsAreTyped'
    BY <1>0, <2>2, <2>3, <2>4, <2>5 DEF RequestsAreTyped
  <2>7. App!Answered(i, s)'
    BY <2>4 DEF App!Answered
  <2>8. Placed(i)'
    <3>1. \A q \in resolving' : q.request = i => q = r
      BY <2>1, <2>2
    <3> QED
      BY <2>1, <2>3, <2>5, <2>7, <2>9, <3>1 DEF Placed
  <2>10. \A q : q.request # i => (q \in resolving' <=> q \in resolving)
    BY <2>2, <2>3
  <2> QED
    BY <1>0, <2>4, <2>5, <2>6, <2>8, <2>10, OthersAreKept
<1> QED
  BY <1>1, <1>2

\* The status of a request that is being resolved.
LEMMA SetStatusKeeps == ASSUME ApprovalInv, NEW r \in resolving, App!SetStatus(r) PROVE ApprovalInv'
<1> DEFINE n == Len(requested)
<1> DEFINE i == r.request
<1> DEFINE q == [r EXCEPT !.step = "store"]
<1> DEFINE s == App!Status(r.granted)
<1> DEFINE a == [requested[i] EXCEPT !.status = s]
<1>0. /\ n \in Nat /\ DOMAIN requested = 1..n /\ DOMAIN answers = 1..n /\ Len(answers) = n
      /\ requested \in Seq(ApprovalRequests) /\ answers \in Seq(ApprovalAnswers) /\ n <= MaxRequests
      /\ stored \in Tables(n) /\ resolving \subseteq Resolutions(n) /\ outlived \subseteq 1..n /\ prompted \subseteq 1..n
      /\ UNCHANGED <<stored, prompted, answers, outlived>>
      /\ \A j \in 1..n : requested[j] \in ApprovalRequests
  BY RequestIs DEF ApprovalInv, RequestsAreTyped, App!SetStatus
<1>1. r \in Resolutions(n) /\ i \in 1..n /\ Placed(i) /\ r.step = "status"
  BY <1>0 DEF Resolutions, ApprovalInv, App!SetStatus
<1>2. q \in Resolutions(n) /\ q.request = i /\ q.granted = r.granted /\ q.step = "store"
  BY <1>1 DEF Resolutions
<1>3. a \in ApprovalRequests /\ a.status = s
  BY <1>0, <1>1 DEF ApprovalRequests, App!Status
<1>4. requested' = [requested EXCEPT ![i] = a] /\ resolving' = (resolving \ {r}) \cup {q}
  BY DEF App!SetStatus
<1>5. /\ i \notin stored.pending /\ i \notin stored.approvals /\ i \notin stored.denied /\ App!Answered(i, s)
      /\ \A p \in resolving : p.request = i => p = r
  BY <1>1 DEF Placed
<1> HIDE DEF q, s, a
<1>6. requested' \in Seq(ApprovalRequests) /\ Len(requested') = n /\ requested'[i] = a
      /\ \A j \in 1..n : j # i => requested'[j] = requested[j]
  BY <1>0, <1>1, <1>3, <1>4, ExceptSeq
<1>7. RequestsAreTyped'
  BY <1>0, <1>2, <1>4, <1>6 DEF RequestsAreTyped
<1>8. App!Answered(i, s)'
  BY <1>0, <1>5 DEF App!Answered
<1>9. Placed(i)'
  <2>1. \A p \in resolving' : p.request = i => p = q
    BY <1>4, <1>5
  <2>2. App!Status(q.granted) = s
    BY <1>2 DEF s
  <2>3. requested'[i].status = s
    BY <1>3, <1>6
  <2> QED
    BY <1>0, <1>2, <1>5, <1>8, <2>1, <2>2, <2>3 DEF Placed
<1>10. \A p : p.request # i => (p \in resolving' <=> p \in resolving)
  BY <1>2, <1>4
<1> QED
  BY <1>0, <1>6, <1>7, <1>9, <1>10, OthersAreKept

\* A request that was resolved is stored among the grants or the denials.
LEMMA StoreKeeps == ASSUME ApprovalInv, NEW r \in resolving, App!Store(r) PROVE ApprovalInv'
<1> DEFINE n == Len(requested)
<1> DEFINE i == r.request
<1>0. /\ n \in Nat /\ RequestsAreTyped /\ stored \in Tables(n) /\ resolving \subseteq Resolutions(n)
      /\ UNCHANGED <<requested, prompted, answers, outlived>> /\ resolving' = resolving \ {r} /\ r.step = "store"
  BY RequestIs DEF ApprovalInv, RequestsAreTyped, App!Store
<1>1. r \in Resolutions(n) /\ i \in 1..n /\ Placed(i) /\ r.granted \in BOOLEAN
  BY <1>0 DEF Resolutions, ApprovalInv
<1>2. /\ i \notin stored.pending /\ i \notin stored.approvals /\ i \notin stored.denied
      /\ App!Stands(i, App!Status(r.granted)) /\ \A p \in resolving : p.request = i => p = r
  BY <1>0, <1>1 DEF Placed, App!Stands
<1>3. \A p \in resolving' : p.request # i
  BY <1>0, <1>2
<1>4. \A p : p.request # i => (p \in resolving' <=> p \in resolving)
  BY <1>0
<1>5. App!Stands(i, App!Status(r.granted))'
  BY <1>0, <1>2 DEF App!Stands, App!Answered
<1>6. CASE r.granted
  <2>1. /\ stored'.pending = stored.pending /\ stored'.approvals = stored.approvals \cup {i} /\ stored'.denied = stored.denied
        /\ stored' \in Tables(n)
    BY <1>0, <1>1, <1>6 DEF App!Store, Tables
  <2>2. App!Stands(i, "granted")'
    BY <1>5, <1>6 DEF App!Status
  <2>3. Placed(i)'
    BY <1>2, <1>3, <2>1, <2>2 DEF Placed
  <2>4. RequestsAreTyped'
    BY <1>0, <2>1 DEF RequestsAreTyped
  <2> QED
    BY <1>0, <1>4, <2>1, <2>3, <2>4, OthersAreKept
<1>7. CASE ~r.granted
  <2>1. /\ stored'.pending = stored.pending /\ stored'.denied = stored.denied \cup {i} /\ stored'.approvals = stored.approvals
        /\ stored' \in Tables(n)
    BY <1>0, <1>1, <1>7 DEF App!Store, Tables
  <2>2. App!Stands(i, "denied")'
    BY <1>5, <1>7 DEF App!Status
  <2>3. Placed(i)'
    BY <1>2, <1>3, <2>1, <2>2 DEF Placed
  <2>4. RequestsAreTyped'
    BY <1>0, <2>1 DEF RequestsAreTyped
  <2> QED
    BY <1>0, <1>4, <2>1, <2>3, <2>4, OthersAreKept
<1> QED
  BY <1>6, <1>7

\* A new request is pending and nothing else.
LEMMA RequestKeeps == ASSUME ApprovalInv, App!RequestApproval PROVE ApprovalInv'
<1>15. PICK n \in Nat : n = Len(requested)
  BY RequestIs DEF ApprovalInv
<1>0. /\ n \in Nat /\ n = Len(requested) /\ DOMAIN requested = 1..n /\ DOMAIN answers = 1..n /\ Len(answers) = n
      /\ requested \in Seq(ApprovalRequests) /\ answers \in Seq(ApprovalAnswers)
      /\ stored \in Tables(n) /\ resolving \subseteq Resolutions(n) /\ outlived \subseteq 1..n /\ prompted \subseteq 1..n
      /\ UNCHANGED <<prompted, resolving, outlived>>
  BY <1>15, RequestIs DEF ApprovalInv, RequestsAreTyped, App!RequestApproval
<1>1. PICK ask \in ApprovalAsks : requested' = Append(requested, [ask |-> ask, status |-> "pending"])
  BY DEF App!RequestApproval
<1>2. stored' = [stored EXCEPT !.pending = stored.pending \cup {n + 1}] /\ answers' = Append(answers, "none") /\ n < MaxRequests
  BY <1>0 DEF App!RequestApproval
<1> DEFINE r == [ask |-> ask, status |-> "pending"]
<1>3. r \in ApprovalRequests /\ "none" \in ApprovalAnswers
  BY DEF ApprovalRequests, ApprovalAnswers
<1> HIDE DEF r
<1>4. /\ requested' \in Seq(ApprovalRequests) /\ Len(requested') = n + 1
      /\ \A j \in 1..n : requested'[j] = requested[j]
  BY <1>0, <1>1, <1>3, AppendProperties DEF r
<1>5. /\ answers' \in Seq(ApprovalAnswers) /\ Len(answers') = n + 1 /\ answers'[n + 1] = "none"
      /\ \A j \in 1..n : answers'[j] = answers[j]
  BY <1>0, <1>2, <1>3, AppendProperties
<1>6. 1..n \subseteq 1..(n + 1) /\ n + 1 \notin 1..n /\ n + 1 \in 1..(n + 1) /\ n + 1 <= MaxRequests
  BY <1>0, <1>2, ApprovalConstants
<1>7. \A j \in 1..n : Placed(j)
  BY <1>0 DEF ApprovalInv
<1>8. /\ stored'.pending = stored.pending \cup {n + 1} /\ stored'.approvals = stored.approvals /\ stored'.denied = stored.denied
      /\ stored' \in Tables(n + 1) /\ stored.pending \subseteq 1..n /\ stored.approvals \subseteq 1..n /\ stored.denied \subseteq 1..n
  BY <1>0, <1>2, <1>6 DEF Tables
<1>9. resolving' \subseteq Resolutions(n + 1) /\ \A p \in resolving' : p.request # n + 1
  <2>1. Resolutions(n) \subseteq Resolutions(n + 1)
    BY <1>6 DEF Resolutions
  <2>2. \A p \in Resolutions(n) : p.request # n + 1
    BY <1>6 DEF Resolutions
  <2> QED
    BY <1>0, <2>1, <2>2
<1>10. RequestsAreTyped'
  BY <1>0, <1>4, <1>5, <1>6, <1>8, <1>9 DEF RequestsAreTyped
<1>11. Placed(n + 1)'
  <2>3. PICK m \in Nat : m = n + 1
    BY <1>0
  <2>1. m \notin stored'.approvals /\ m \notin stored'.denied /\ answers'[m] = "none" /\ \A p \in resolving' : p.request # m
    BY <1>5, <1>6, <1>8, <1>9, <2>3
  <2>2. Placed(m)'
    BY <2>1 DEF Placed
  <2> QED
    BY <2>2, <2>3
<1>12. ASSUME NEW j \in 1..n PROVE Placed(j)'
  <2>1. /\ Placed(j) /\ requested'[j] = requested[j] /\ answers'[j] = answers[j] /\ outlived' = outlived /\ resolving' = resolving
        /\ j \in stored'.pending <=> j \in stored.pending
    BY <1>0, <1>4, <1>5, <1>6, <1>7, <1>8
  <2> QED
    BY <1>8, <2>1 DEF Placed, App!Stands, App!Answered
<1>13. \A j \in 1..(n + 1) : j \in 1..n \/ j = n + 1
  BY <1>0
<1>14. \A j \in 1..(n + 1) : Placed(j)'
  BY <1>11, <1>12, <1>13
<1> QED
  BY <1>4, <1>10, <1>14 DEF ApprovalInv

\* A grant that is revoked is in no table any more.
LEMMA RevokeKeeps == ASSUME ApprovalInv, App!RevokeApproval PROVE ApprovalInv'
<1> DEFINE n == Len(requested)
<1>0. /\ n \in Nat /\ DOMAIN answers = 1..n /\ answers \in Seq(ApprovalAnswers) /\ Len(answers) = n
      /\ RequestsAreTyped /\ stored \in Tables(n) /\ UNCHANGED <<requested, prompted, resolving, outlived>>
  BY RequestIs DEF ApprovalInv, RequestsAreTyped, App!RevokeApproval
<1>1. PICK i \in stored.approvals : stored' = [stored EXCEPT !.approvals = @ \ {i}] /\ answers' = [answers EXCEPT ![i] = "withdrawn"]
  BY DEF App!RevokeApproval
<1>2. i \in 1..n /\ Placed(i) /\ i \in 1..Len(answers) /\ "withdrawn" \in ApprovalAnswers
  BY <1>0, <1>1 DEF Tables, ApprovalInv, ApprovalAnswers
<1>3. i \notin stored.pending /\ i \notin stored.denied /\ \A r \in resolving : r.request # i
  BY <1>1, <1>2 DEF Placed
<1>4. answers' \in Seq(ApprovalAnswers) /\ Len(answers') = n /\ \A j \in 1..n : j # i => answers'[j] = answers[j]
  BY <1>0, <1>1, <1>2, ExceptSeq
<1>5. /\ stored'.approvals = stored.approvals \ {i} /\ stored'.pending = stored.pending /\ stored'.denied = stored.denied
      /\ stored' \in Tables(n)
  BY <1>0, <1>1 DEF Tables
<1>6. RequestsAreTyped'
  BY <1>0, <1>4, <1>5 DEF RequestsAreTyped
<1>7. Placed(i)'
  BY <1>0, <1>3, <1>5 DEF Placed
<1> QED
  BY <1>0, <1>4, <1>5, <1>6, <1>7, OthersAreKept

\* Clearing all approvals leaves those that are being resolved.
LEMMA ClearAllKeeps == ASSUME ApprovalInv, App!ClearAll PROVE ApprovalInv'
<1> DEFINE n == Len(requested)
<1>1. /\ DOMAIN answers = 1..n /\ n \in Nat /\ RequestsAreTyped /\ resolving \subseteq Resolutions(n) /\ outlived \subseteq 1..n
      /\ \A i \in 1..n : Placed(i)
  BY RequestIs DEF ApprovalInv, RequestsAreTyped
<1>2. /\ stored' = App!Empty /\ answers' = [i \in 1..n |-> "withdrawn"] /\ UNCHANGED <<requested, prompted, resolving>>
      /\ outlived' = outlived \cup {r.request : r \in resolving}
  BY <1>1 DEF App!ClearAll
<1>3. answers' \in [1..n -> ApprovalAnswers]
  BY <1>2 DEF ApprovalAnswers
<1>4. answers' \in Seq(ApprovalAnswers) /\ Len(answers') = n
  BY <1>1, <1>3, SeqDef, LenProperties
<1>5. outlived' \subseteq 1..n
  BY <1>1, <1>2 DEF Resolutions
<1>6. stored' \in Tables(n) /\ stored'.pending = {} /\ stored'.approvals = {} /\ stored'.denied = {}
  BY <1>2 DEF Tables, App!Empty
<1>7. RequestsAreTyped'
  BY <1>1, <1>2, <1>4, <1>5, <1>6 DEF RequestsAreTyped
<1>8. ASSUME NEW i \in 1..n PROVE Placed(i)'
  <2>1. \A r \in resolving : r.request = i => answers'[i] = "withdrawn" /\ i \in outlived'
    BY <1>2
  <2>2. \A r \in resolving : r.request = i => App!Answered(i, App!Status(r.granted))'
    BY <2>1 DEF App!Answered
  <2>3. /\ \A r \in resolving : r.request = i => (r.step = "store" => requested[i].status = App!Status(r.granted))
        /\ \A q, r \in resolving : q.request = i /\ r.request = i => q = r
    BY <1>1 DEF Placed
  <2> QED
    BY <1>2, <1>6, <2>2, <2>3 DEF Placed
<1> QED
  BY <1>2, <1>7, <1>8 DEF ApprovalInv

\* Every step of approvals keeps their invariant.
LEMMA ApprovalSteps == ApprovalInv /\ App!Next => ApprovalInv'
<1> SUFFICES ASSUME ApprovalInv, App!Next PROVE ApprovalInv'
  OBVIOUS
<1>1. RequestsAreTyped /\ DOMAIN requested = 1..Len(requested)
  BY RequestIs DEF ApprovalInv
<1>2. CASE App!RequestApproval
  BY <1>2, RequestKeeps
<1>3. CASE App!ResolveApproval
  <2>1. PICK i \in 1..Len(requested), granted \in BOOLEAN : App!TakeOut(i, granted)
    BY <1>1, <1>3 DEF App!ResolveApproval
  <2>2. prompted' \subseteq 1..Len(requested)
    BY <1>1, <1>3 DEF App!ResolveApproval, RequestsAreTyped
  <2> QED
    BY <2>1, <2>2, TakeOutKeeps
<1>4. CASE \E r \in resolving : App!SetStatus(r) \/ App!Store(r)
  BY <1>4, SetStatusKeeps, StoreKeeps
<1>5. CASE App!Prompt
  <2>1. prompted' \subseteq 1..Len(requested) /\ UNCHANGED <<requested, stored, resolving, answers, outlived>>
    BY <1>1, <1>5 DEF App!Prompt, RequestsAreTyped
  <2> QED
    BY <2>1 DEF ApprovalInv, RequestsAreTyped, Placed, App!Stands, App!Answered
<1>6. CASE App!PromptReturns
  <2>1. PICK i \in prompted, granted \in BOOLEAN : App!TakeOut(i, granted) /\ prompted' = prompted \ {i}
    BY <1>6 DEF App!PromptReturns
  <2>2. i \in 1..Len(requested) /\ prompted' \subseteq 1..Len(requested)
    BY <1>1, <2>1 DEF RequestsAreTyped
  <2> QED
    BY <2>1, <2>2, TakeOutKeeps
<1>7. CASE App!RevokeApproval
  BY <1>7, RevokeKeeps
<1>8. CASE App!ClearAll
  BY <1>8, ClearAllKeeps
<1> QED
  BY <1>2, <1>3, <1>4, <1>5, <1>6, <1>7, <1>8 DEF App!Next

\* The invariant of approvals holds initially.
LEMMA ApprovalInit == App!Init => ApprovalInv
<1> SUFFICES ASSUME App!Init PROVE ApprovalInv
  OBVIOUS
<1>1. requested \in Seq(ApprovalRequests) /\ answers \in Seq(ApprovalAnswers) /\ Len(requested) = 0 /\ Len(answers) = 0
  BY EmptySeq DEF App!Init
<1>2. stored \in Tables(Len(requested)) /\ resolving = {} /\ prompted = {} /\ outlived = {}
  BY DEF App!Init, App!Empty, Tables
<1>3. RequestsAreTyped
  BY <1>1, <1>2, ApprovalConstants DEF RequestsAreTyped
<1> QED
  BY <1>1, <1>3 DEF ApprovalInv

\* Approvals that rest keep their invariant.
LEMMA ApprovalRests == ApprovalInv /\ UNCHANGED approvalVars => ApprovalInv'
BY DEF ApprovalInv, RequestsAreTyped, Placed, App!Stands, App!Answered, approvalVars

\* The invariant gives the types and the first answer of every request.
LEMMA ApprovalsOwe == ApprovalInv => App!TypeOK /\ App!FirstAnswerStands
<1> SUFFICES ASSUME ApprovalInv PROVE App!TypeOK /\ App!FirstAnswerStands
  OBVIOUS
<1>1. RequestsAreTyped /\ \A i \in 1..Len(requested) : Placed(i)
  BY DEF ApprovalInv
<1>2. /\ stored.pending \subseteq 1..Len(requested) /\ stored.approvals \subseteq 1..Len(requested)
      /\ stored.denied \subseteq 1..Len(requested) /\ prompted \subseteq 1..Len(requested)
      /\ outlived \subseteq 1..Len(requested) /\ resolving \subseteq Resolutions(Len(requested))
  BY <1>1 DEF RequestsAreTyped, Tables
<1>3. 1..Len(requested) \subseteq 1..MaxRequests
  BY <1>1, RequestIs, ApprovalConstants DEF RequestsAreTyped
<1>4. resolving \subseteq [request : 1..MaxRequests, granted : BOOLEAN, step : {"status", "store"}]
  BY <1>2, <1>3 DEF Resolutions
<1>5. App!TypeOK
  BY <1>1, <1>2, <1>3, <1>4 DEF RequestsAreTyped, App!TypeOK, ApprovalRequests, ApprovalAnswers
<1>6. App!FirstAnswerStands
  BY <1>1, <1>2 DEF Placed, App!FirstAnswerStands, App!CheckApproval
<1> QED
  BY <1>5, <1>6

-----------------------------------------------------------------------------
\* The git workflow.
GitInv == Git!TypeOK /\ Git!ReportedIsCommitted

\* The invariant of the git workflow holds initially.
LEMMA GitInit == Git!Init => GitInv
<1> SUFFICES ASSUME Git!Init PROVE GitInv
  OBVIOUS
<1>1. diff \in [taken : BOOLEAN, files : SUBSET Files] /\ approved \in BOOLEAN /\ report = {}
  BY DEF Git!Init
<1>2. {head, index, work} \subseteq Git!Trees
  BY DEF Git!Init, Git!Trees, Git!Contents
<1> QED
  BY <1>1, <1>2 DEF GitInv, Git!TypeOK, Git!ReportedIsCommitted

\* A git workflow that rests keeps its invariant.
LEMMA GitRests == GitInv /\ UNCHANGED gitVars => GitInv'
BY DEF GitInv, Git!TypeOK, Git!ReportedIsCommitted, Git!Trees, Git!Contents, gitVars

\* A file that is added is in the tree as the worktree has it.
LEMMA AddedAsInWork ==
  ASSUME Git!TypeOK, NEW fs \in SUBSET Files
  PROVE  Git!Added(fs) \in Git!Trees /\ \A f \in fs : Git!Added(fs)[f] = work[f]
BY DEF Git!TypeOK, Git!Trees, Git!Added

\* Every step of the git workflow keeps its invariant.
LEMMA GitSteps == GitInv /\ Git!Next => GitInv'
<1> SUFFICES ASSUME GitInv, Git!Next PROVE GitInv'
  OBVIOUS
<1>1. Git!TypeOK /\ {head, index, work} \subseteq Git!Trees /\ approved \in BOOLEAN /\ report \subseteq Files
      /\ diff \in [taken : BOOLEAN, files : SUBSET Files]
  BY DEF GitInv, Git!TypeOK
\* A step that reports nothing has only to keep the types.
<1>2. ASSUME report' = {}, {head', index', work'} \subseteq Git!Trees, approved' \in BOOLEAN,
             diff' \in [taken : BOOLEAN, files : SUBSET Files]
      PROVE  GitInv'
  <2>1. Git!Trees' = Git!Trees
    BY DEF Git!Trees, Git!Contents
  <2> QED
    BY <1>2, <2>1 DEF GitInv, Git!TypeOK, Git!ReportedIsCommitted
<1>3. ASSUME NEW f \in Files, Git!Edit(f) PROVE GitInv'
  <2>1. work' \in Git!Trees
    BY <1>1, <1>3 DEF Git!Edit, Git!Trees
  <2> QED
    BY <1>1, <1>2, <1>3, <2>1 DEF Git!Edit
<1>4. ASSUME NEW f \in Files, Git!GitAdd(f) PROVE GitInv'
  BY <1>1, <1>2, <1>4, AddedAsInWork DEF Git!GitAdd
<1>5. CASE Git!Show
  <2>1. diff' \in [taken : BOOLEAN, files : SUBSET Files]
    BY <1>1, <1>5 DEF Git!Show, Git!Diff, Git!Changed
  <2> QED
    BY <1>1, <1>2, <1>5, <2>1 DEF Git!Show, Git!repository
<1>6. CASE Git!SetApproved
  BY <1>1, <1>2, <1>6 DEF Git!SetApproved, Git!repository
<1>7. ASSUME NEW named \in SUBSET Files, NEW used \in SUBSET Files, Git!Commit(named, used) PROVE GitInv'
  <2> DEFINE relevant == Git!Relevant(named, used)
  <2>1. relevant \in SUBSET Files
    BY DEF Git!Relevant, Git!AllChanges, Git!Changed
  <2>2. Git!Refused \/ Git!AddFails \/ Git!CommitFails(relevant) \/ Git!CommitWorks(relevant)
    BY <1>7 DEF Git!Commit
  <2> HIDE DEF relevant
  <2>3. CASE Git!Refused \/ Git!AddFails
    BY <1>1, <1>2, <2>3 DEF Git!Refused, Git!AddFails, Git!repository
  <2>4. CASE Git!CommitFails(relevant)
    BY <1>1, <1>2, <2>1, <2>4, AddedAsInWork DEF Git!CommitFails
  <2>5. CASE Git!CommitWorks(relevant)
    <3>1. head' = Git!Added(relevant) /\ index' = head' /\ report' = relevant /\ UNCHANGED <<work, diff, approved>>
      BY <2>5 DEF Git!CommitWorks, Git!Committed
    <3>2. head' \in Git!Trees /\ \A f \in relevant : head'[f] = work[f]
      BY <1>1, <2>1, <3>1, AddedAsInWork
    <3>3. Git!Trees' = Git!Trees
      BY DEF Git!Trees, Git!Contents
    <3>4. Git!ReportedIsCommitted'
      BY <3>1, <3>2 DEF Git!ReportedIsCommitted
    <3> QED
      BY <1>1, <2>1, <3>1, <3>2, <3>3, <3>4 DEF GitInv, Git!TypeOK
  <2> QED
    BY <2>2, <2>3, <2>4, <2>5
<1> QED
  BY <1>3, <1>4, <1>5, <1>6, <1>7 DEF Git!Next
=============================================================================
