------------------------------ MODULE StateRun ------------------------------
(***************************************************************************)
(* The recorded state of one agent run (argus/state): the manager with its *)
(* cache of active states, the store behind it, which keeps one record per *)
(* update and answers a search with one of them, and the snapshots.        *)
(***************************************************************************)
EXTENDS Naturals, Sequences, FiniteSets

CONSTANTS PlanLength,   \* steps of the plan
          HasStore,     \* a memory manager and a project are configured
          MaxUpdates,   \* bound on records saved
          MaxSnapshots  \* max_snapshots_per_run

StateRunAssumption == /\ PlanLength \in Nat /\ MaxUpdates \in Nat /\ MaxSnapshots \in Nat \ {0}
                             /\ HasStore \in BOOLEAN

VARIABLES cached,     \* the state in _active_states, or NoState
          saved,      \* the records in the store
          updates,    \* how often a state was persisted
          snapshots   \* sequence of captured states

vars == <<cached, saved, updates, snapshots>>

RunStatuses == {"pending", "running", "paused", "completed", "failed", "recovering"}
StepStatuses == {"pending", "active", "completed", "failed"}
NoState == [status |-> "none"]
Steps == 1..PlanLength

Init == cached = NoState /\ saved = {} /\ updates = 0 /\ snapshots = <<>>

\* get_state: the cached state, or whichever record of the run the search ranks first, which
\* is then the cached one.
GetState == IF cached # NoState THEN {cached} ELSE saved
LookUp == /\ cached = NoState /\ \E s \in GetState : cached' = s
          /\ UNCHANGED <<saved, updates, snapshots>>

Persist(s) == /\ updates < MaxUpdates /\ updates' = updates + 1
              /\ saved' = IF HasStore THEN saved \cup {s} ELSE saved
Update(s) == Persist(s) /\ cached' = s /\ UNCHANGED snapshots
UpdateAndForget(s) == Persist(s) /\ cached' = NoState /\ UNCHANGED snapshots

\* marked is history: the steps whose last status set_step_status set, to active.
NewState == [marked  |-> {},
             status  |-> "running", phase |-> "starting", current |-> IF PlanLength = 0 THEN 0 ELSE 1,
             plan    |-> [i \in Steps |-> IF i = 1 THEN "active" ELSE "pending"]]
CreateState == updates = 0 /\ Update(NewState)

SetPhase == \E s \in GetState : Update([s EXCEPT !.phase = "working"])

\* set_step_status takes any status for any step and leaves the current step alone.
SetStep(s, i, status) ==
  [s EXCEPT !.plan[i] = status, !.marked = IF status = "active" THEN @ \cup {i} ELSE @ \ {i}]
SetStepStatus == \E s \in GetState, i \in Steps, status \in StepStatuses : Update(SetStep(s, i, status))

\* advance_step: an active current step is completed, then the first pending one is next;
\* without a pending step the run is completed, whatever became of its steps.
Unfinished(s) == s
Finished(s) == IF s.current # 0 /\ s.plan[s.current] = "active" THEN [s EXCEPT !.plan[s.current] = "completed"] ELSE s
Advanced(s) == LET done == Finished(s)
                   pending == {i \in Steps : done.plan[i] = "pending"}
                   next == CHOOSE i \in pending : \A j \in pending : i <= j
               IN IF pending = {} THEN [done EXCEPT !.current = 0, !.status = "completed"]
                  ELSE [done EXCEPT !.plan[next] = "active", !.current = next]
AdvanceStep == \E s \in GetState : Update(Advanced(s))

CompleteRun == \E s \in GetState : UpdateAndForget([s EXCEPT !.status = "completed"])
FailRun == \E s \in GetState : UpdateAndForget([s EXCEPT !.status = "failed"])
PauseRun == \E s \in GetState : Update([s EXCEPT !.status = "paused"])
ResumeRun == \E s \in GetState : /\ s.status = "paused"
                                 /\ Update([s EXCEPT !.status = "running", !.phase = "resuming"])

\* SnapshotManager.capture keeps the newest snapshots of the run.
Capture == /\ cached # NoState
           /\ LET all == Append(snapshots, cached)
              IN snapshots' = IF Len(all) > MaxSnapshots THEN Tail(all) ELSE all
           /\ UNCHANGED <<cached, saved, updates>>

Next == CreateState \/ LookUp \/ SetPhase \/ SetStepStatus \/ AdvanceStep \/ CompleteRun \/ FailRun \/ PauseRun \/ ResumeRun \/ Capture
Spec == Init /\ [][Next]_vars

----------------------------------------------------------------------------
Known == saved \cup ({cached} \ {NoState}) \cup {snapshots[i] : i \in DOMAIN snapshots}

TypeOK == /\ \A s \in Known : /\ s.status \in RunStatuses /\ s.current \in 0..PlanLength
                              /\ \A i \in Steps : s.plan[i] \in StepStatuses
          /\ Len(snapshots) <= MaxSnapshots /\ Cardinality(saved) <= updates

\* In every recorded state, whichever of them a later search brings back, a step that is
\* active is the current one, unless a caller set it active over the manager's head.
OneActiveStep == \A s \in Known : \A i \in Steps : s.plan[i] = "active" => i = s.current \/ i \in s.marked
=============================================================================
