---------------------------- MODULE AgentsProofs ----------------------------
(***************************************************************************)
(* The invariants of the agent's loop, of the loop of agentcore and of the *)
(* recovery engine, and that every step of these components keeps them.    *)
(***************************************************************************)
EXTENDS Requests, TLAPS, WellFoundedInduction, SequenceTheorems, FiniteSetTheorems

\* Every set of naturals that has an element has a least one.
LEMMA LeastNatural ==
  ASSUME NEW S \in SUBSET Nat, S # {}
  PROVE  \E n \in S : \A m \in S : n <= m
<1>1. PICK n \in S : \A m \in S : ~ (<<m, n>> \in OpToRel(<, Nat))
  BY WFMin, NatLessThanWellFounded
<1>2. \A m \in S : ~ (m < n)
  BY <1>1 DEF OpToRel
<1> QED
  BY <1>2

\* The limits of the agent are numbers, and a request may begin.
LEMMA AgentConstants ==
  /\ MaxIterations \in Nat \ {0} /\ MaxToolCalls \in Nat \ {0} /\ MaxConsecutiveFailures \in Nat \ {0}
  /\ MaxNoProgress \in Nat \ {0} /\ RepeatWindow \in Nat \ {0} /\ MaxBatch \in Nat \ {0}
  /\ MaxRepairAttempts \in Nat /\ MaxPlanRevisions \in Nat /\ Commands \in Nat /\ MaxRuns \in Nat
  /\ Engineering \in BOOLEAN /\ HasModel \in BOOLEAN
  BY RequestsAssumption DEF Agent!AgentRunAssumption

-----------------------------------------------------------------------------
\* A batch runs below the iterations and with a call it may make; a plan is revised while
\* revisions are left; a change that is reviewed, or whose round passed, has not been edited since.
AgentRounds ==
  /\ pc = "tools" => /\ run.iterations < MaxIterations
                     /\ batch.done # <<>> \/ Agent!MayCall
  /\ pc = "replan" => eng.revisions < MaxPlanRevisions
  /\ eng.final # "none" => pc \in {"ended", "idle"}
  /\ pc = "ended" => eng.final # "none"
  /\ pc = "round" /\ Commands > 0 /\ eng.left = 0 /\ ~eng.failed => ~eng.dirty
  /\ pc = "review" /\ Commands > 0 /\ ~cancelled => ~eng.dirty

AgentInv == Agent!TypeOK /\ Agent!LimitsHold /\ AgentRounds /\ Agent!CompletedIsVerified

\* A run that begins has its types and has counted nothing, whatever its plan.
LEMMA AgentNewRun ==
  ASSUME NEW plan \in Agent!Plans \cup {<<>>}
  PROVE  /\ Agent!NewRun(plan) \in Agent!RunStates
         /\ Agent!NewRun(plan).iterations = 0 /\ Agent!NewRun(plan).tools = 0
<1>1. <<>> \in Seq(Agent!Tools) /\ 0 \in 0..(MaxToolCalls + 1) /\ "RUNNING" \in Agent!Statuses
  BY AgentConstants DEF Agent!Statuses
<1> QED
  BY <1>1 DEF Agent!NewRun, Agent!RunStates

\* An agent that was not asked anything satisfies its invariant.
LEMMA AgentInit == Agent!Init => AgentInv
<1> SUFFICES ASSUME Agent!Init PROVE AgentInv
  OBVIOUS
<1>1. run \in Agent!RunStates
  BY AgentConstants, AgentNewRun DEF Agent!Init
<1>2. batch \in Agent!BatchStates
  BY DEF Agent!Init, Agent!NewBatch, Agent!BatchStates
<1>3. eng \in Agent!EngineeringStates
  BY AgentConstants DEF Agent!Init, Agent!NewEngineering, Agent!EngineeringStates
<1>4. /\ run.iterations = 0 /\ run.tools = 0
      /\ eng.revisions = 0 /\ eng.repairs = 0 /\ eng.final = "none"
  BY AgentNewRun DEF Agent!Init, Agent!NewEngineering
<1>5. pc = "idle" /\ cancelled = FALSE /\ recent = [tool |-> "none", count |-> 0] /\ runs = 0
  BY DEF Agent!Init
<1>6. runs \in 0..MaxRuns /\ recent \in [tool : Agent!Tools \cup {"none"}, count : 0..RepeatWindow]
  BY <1>5, AgentConstants
<1>7. Agent!TypeOK
  BY <1>1, <1>2, <1>3, <1>5, <1>6 DEF Agent!TypeOK
<1>8. Agent!LimitsHold
  BY <1>4, <1>5, AgentConstants DEF Agent!LimitsHold
<1>9. AgentRounds /\ Agent!CompletedIsVerified
  BY <1>4, <1>5 DEF AgentRounds, Agent!CompletedIsVerified
<1> QED
  BY <1>7, <1>8, <1>9 DEF AgentInv

\* The types of the fields that the limits and the verdict are about.
LEMMA AgentFields ==
  ASSUME Agent!TypeOK
  PROVE  /\ run.tools \in 0..(MaxToolCalls + 1) /\ run.iterations \in Nat
         /\ run.modified \in BOOLEAN /\ run.changed \in BOOLEAN
         /\ eng.revisions \in Nat /\ eng.repairs \in Nat /\ eng.left \in 0..Commands /\ eng.execution \in Nat
         /\ eng.failed \in BOOLEAN /\ eng.dirty \in BOOLEAN
         /\ batch.failed \in BOOLEAN /\ batch.readOk \in BOOLEAN
         /\ batch.todo \in Seq(Agent!Tools) /\ batch.done \in Seq(Agent!Tools)
  BY DEF Agent!TypeOK, Agent!RunStates, Agent!BatchStates, Agent!EngineeringStates

\* One tool call more is at most one beyond the limit.
LEMMA AgentUsed ==
  ASSUME NEW n \in 0..(MaxToolCalls + 1)
  PROVE  /\ Agent!Used(n) \in 0..(MaxToolCalls + 1)
         /\ n < MaxToolCalls => Agent!Used(n) <= MaxToolCalls
  BY AgentConstants DEF Agent!Used

\* The loop is left with a status and without any other change.
LEMMA AgentLeaves ==
  ASSUME AgentInv, pc = "check", NEW s \in Agent!Statuses, NEW b \in BOOLEAN, Agent!Leave(s, b)
  PROVE  AgentInv'
<1>1. run' \in Agent!RunStates
  BY DEF AgentInv, Agent!TypeOK, Agent!Leave, Agent!RunStates
<1>2. run'.iterations = run.iterations /\ run'.tools = run.tools /\ run'.modified = run.modified
  BY DEF AgentInv, Agent!TypeOK, Agent!Leave, Agent!RunStates
<1>3. /\ UNCHANGED <<cancelled, batch, eng, recent, runs>> /\ pc' = "left"
  BY DEF Agent!Leave
<1> QED
  <2>1. Agent!TypeOK'
    BY <1>1, <1>2, <1>3 DEF AgentInv, Agent!TypeOK
  <2>2. Agent!LimitsHold'
    BY <1>1, <1>2, <1>3, AgentFields DEF AgentInv, Agent!LimitsHold
  <2>3. AgentRounds' /\ Agent!CompletedIsVerified'
    BY <1>1, <1>2, <1>3 DEF AgentInv, AgentRounds, Agent!CompletedIsVerified
  <2> QED
    BY <2>1, <2>2, <2>3 DEF AgentInv

\* A request begins, with nothing counted and nothing verified.
LEMMA AgentExecutes ==
  ASSUME AgentInv, Agent!Execute
  PROVE  AgentInv'
<1>1. run' \in Agent!RunStates
  BY AgentNewRun DEF Agent!Execute
<1>2. batch' \in Agent!BatchStates
  BY DEF Agent!Execute, Agent!NewBatch, Agent!BatchStates
<1>3. eng' \in Agent!EngineeringStates
  BY AgentConstants DEF Agent!Execute, Agent!NewEngineering, Agent!EngineeringStates
<1>4. /\ run'.iterations = 0 /\ run'.tools = 0
      /\ eng'.revisions = 0 /\ eng'.repairs = 0 /\ eng'.final = "none"
  BY AgentNewRun DEF Agent!Execute, Agent!NewEngineering
<1>5. runs \in 0..MaxRuns /\ runs < MaxRuns /\ runs' = runs + 1
  BY DEF AgentInv, Agent!TypeOK, Agent!Execute
<1>6. runs' \in 0..MaxRuns
  BY <1>5, AgentConstants
<1>7. pc' = "check" /\ cancelled' = FALSE /\ recent' = recent
  BY DEF Agent!Execute
<1>8. Agent!TypeOK'
  BY <1>1, <1>2, <1>3, <1>6, <1>7 DEF AgentInv, Agent!TypeOK
<1>9. Agent!LimitsHold'
  BY <1>4, <1>7, AgentConstants DEF Agent!LimitsHold
<1>10. AgentRounds' /\ Agent!CompletedIsVerified'
  BY <1>4, <1>7, AgentConstants DEF AgentRounds, Agent!CompletedIsVerified
<1> QED
  BY <1>8, <1>9, <1>10 DEF AgentInv

\* The model answers with a text, or asks for a batch of tools below every limit.
LEMMA AgentReasons ==
  ASSUME AgentInv, Agent!ReasonText \/ Agent!ReasonCalls
  PROVE  AgentInv'
<1> USE AgentConstants
<1>1. CASE Agent!ReasonText
  <2> DEFINE one == run.iterations + 1
  <2>0. run \in Agent!RunStates /\ run' = [run EXCEPT !.iterations = one]
    BY <1>1 DEF AgentInv, Agent!TypeOK, Agent!ReasonText
  <2>b. one \in Nat
    BY AgentFields DEF AgentInv
  <2> HIDE DEF one
  <2>1. run' \in Agent!RunStates
    BY <2>0, <2>b DEF Agent!RunStates
  <2>a. run'.iterations = one /\ run'.tools = run.tools /\ run'.modified = run.modified
    BY <2>0 DEF Agent!RunStates
  <2>2. run'.iterations = run.iterations + 1 /\ run'.tools = run.tools /\ run'.modified = run.modified
    BY <2>a DEF one
  <2>3. /\ UNCHANGED <<cancelled, batch, eng, recent, runs>> /\ pc = "check" /\ pc' = "left"
        /\ run.iterations < MaxIterations
    BY <1>1 DEF Agent!ReasonText, Agent!MayReason
  <2> QED
    <3>1. Agent!TypeOK'
      BY <2>1, <2>2, <2>3 DEF AgentInv, Agent!TypeOK
    <3>2. Agent!LimitsHold'
      BY <2>1, <2>2, <2>3, AgentFields DEF AgentInv, Agent!LimitsHold
    <3>3. AgentRounds' /\ Agent!CompletedIsVerified'
      BY <2>1, <2>2, <2>3 DEF AgentInv, AgentRounds, Agent!CompletedIsVerified
    <3> QED
      BY <3>1, <3>2, <3>3 DEF AgentInv
<1>2. CASE Agent!ReasonCalls
  <2>a. PICK n \in 1..MaxBatch : \E c \in [1..n -> Agent!Tools] : batch' = [Agent!NewBatch EXCEPT !.todo = c]
    BY <1>2 DEF Agent!ReasonCalls
  <2>1. PICK asked \in [1..n -> Agent!Tools] : batch' = [Agent!NewBatch EXCEPT !.todo = asked]
    BY <2>a
  <2>2. batch' = [todo |-> asked, done |-> <<>>, failed |-> FALSE, readOk |-> FALSE]
    BY <2>1 DEF Agent!NewBatch
  <2>3. asked \in Seq(Agent!Tools) /\ asked # <<>>
    BY <2>1
  <2>4. batch' \in Agent!BatchStates /\ batch'.todo # <<>>
    BY <2>2, <2>3 DEF Agent!BatchStates
  <2>b. /\ UNCHANGED <<cancelled, run, eng, recent, runs>> /\ pc = "check" /\ pc' = "tools"
        /\ run.iterations < MaxIterations /\ ~(run.tools >= MaxToolCalls)
    BY <1>2 DEF Agent!ReasonCalls, Agent!MayReason, Agent!StopReason
  <2>c. run.tools < MaxToolCalls
    BY <2>b, AgentFields DEF AgentInv
  <2>5. /\ UNCHANGED <<cancelled, run, eng, recent, runs>> /\ pc = "check" /\ pc' = "tools"
        /\ run.iterations < MaxIterations /\ run.tools < MaxToolCalls
    BY <2>b, <2>c
  <2> QED
    BY <2>4, <2>5
    DEF AgentInv, Agent!TypeOK, Agent!LimitsHold, AgentRounds, Agent!CompletedIsVerified, Agent!MayCall
<1> QED
  BY <1>1, <1>2

\* A tool call: the batch moves on by one, the counter of the run is at most at its limit.
LEMMA AgentCalls ==
  ASSUME AgentInv, Agent!CallTool
  PROVE  AgentInv'
<1> USE AgentConstants
<1> DEFINE tool == Head(batch.todo)
<1>1. /\ pc = "tools" /\ pc' = "tools" /\ UNCHANGED <<cancelled, recent, runs>>
      /\ batch.todo # <<>> /\ run.tools < MaxToolCalls /\ run.iterations < MaxIterations
  BY DEF AgentInv, AgentRounds, Agent!CallTool, Agent!MayCall
<1>2. PICK ok \in BOOLEAN :
        /\ batch' = [batch EXCEPT !.todo = Tail(@), !.done = Append(@, tool), !.failed = @ \/ ~ok,
                                  !.readOk = @ \/ (ok /\ tool = "read_file")]
        /\ run' = [run EXCEPT !.tools = Agent!Used(@), !.changed = @ \/ (ok /\ tool # "read_file"),
                              !.modified = @ \/ (ok /\ tool = "write_file")]
        /\ eng' = IF ok /\ tool = "write_file" THEN [eng EXCEPT !.dirty = TRUE] ELSE eng
  BY DEF Agent!CallTool
<1>3. /\ batch \in Agent!BatchStates /\ run \in Agent!RunStates /\ eng \in Agent!EngineeringStates
      /\ batch.todo \in Seq(Agent!Tools) /\ batch.done \in Seq(Agent!Tools) /\ run.tools \in 0..(MaxToolCalls + 1)
  BY AgentFields DEF AgentInv, Agent!TypeOK
<1>4. tool \in Agent!Tools /\ Tail(batch.todo) \in Seq(Agent!Tools)
  BY <1>1, <1>3
<1>5. Append(batch.done, tool) \in Seq(Agent!Tools) /\ Append(batch.done, tool) # <<>>
  BY <1>3, <1>4, AppendProperties
<1>6. batch' \in Agent!BatchStates /\ batch'.done # <<>>
  BY <1>2, <1>3, <1>4, <1>5 DEF Agent!BatchStates
<1>7. Agent!Used(run.tools) \in 0..(MaxToolCalls + 1) /\ Agent!Used(run.tools) <= MaxToolCalls
  BY <1>1, <1>3, AgentUsed
<1>8. run' \in Agent!RunStates /\ run'.tools <= MaxToolCalls /\ run'.iterations = run.iterations
  BY <1>2, <1>3, <1>7 DEF Agent!RunStates
<1>9. /\ eng' \in Agent!EngineeringStates
      /\ eng'.final = eng.final /\ eng'.revisions = eng.revisions /\ eng'.repairs = eng.repairs
  BY <1>2, <1>3 DEF Agent!EngineeringStates
<1> QED
  <2>1. Agent!TypeOK'
    BY <1>1, <1>6, <1>8, <1>9 DEF AgentInv, Agent!TypeOK
  <2>2. Agent!LimitsHold'
    BY <1>1, <1>6, <1>8, <1>9, AgentFields DEF AgentInv, Agent!LimitsHold
  <2>3. AgentRounds' /\ Agent!CompletedIsVerified'
    BY <1>1, <1>6, <1>8, <1>9 DEF AgentInv, AgentRounds, Agent!CompletedIsVerified
  <2> QED
    BY <2>1, <2>2, <2>3 DEF AgentInv

\* The calls that end a history are counted, to the window of repeats at most.
LEMMA AgentRecent ==
  ASSUME NEW r, r \in [tool : Agent!Tools \cup {"none"}, count : 0..RepeatWindow],
         NEW done \in Seq(Agent!Tools), done # <<>>
  PROVE  Agent!Recent(r, done) \in [tool : Agent!Tools \cup {"none"}, count : 0..RepeatWindow]
<1> USE AgentConstants
<1> DEFINE final == done[Len(done)]
           Same(n) == \A i \in (Len(done) - n + 1)..Len(done) : done[i] = final
           Breaks == {n \in 1..Len(done) : n = Len(done) \/ done[Len(done) - n] # final}
<1>1. Len(done) \in Nat /\ Len(done) >= 1 /\ final \in Agent!Tools
  OBVIOUS
<1>2. Len(done) \in Breaks /\ Breaks \in SUBSET Nat
  BY <1>1
<1>3. PICK k \in Breaks : \A m \in Breaks : k <= m
  BY <1>2, LeastNatural
<1>4. Same(k)
  <2> SUFFICES ASSUME NEW i \in (Len(done) - k + 1)..Len(done) PROVE done[i] = final
    OBVIOUS
  <2>1. CASE i = Len(done)
    BY <2>1
  <2>2. CASE i # Len(done)
    <3>1. Len(done) - i \in 1..Len(done) /\ Len(done) - i < k /\ Len(done) - (Len(done) - i) = i
      BY <1>1, <2>2, <1>3
    <3> QED
      BY <3>1, <1>3, <1>1
  <2> QED
    BY <2>1, <2>2
<1> DEFINE IsTail(n) == /\ \A i \in (Len(done) - n + 1)..Len(done) : done[i] = done[Len(done)]
                        /\ n = Len(done) \/ done[Len(done) - n] # done[Len(done)]
           tail == CHOOSE n \in 1..Len(done) : IsTail(n)
           same == \A i \in DOMAIN done : done[i] = done[Len(done)]
           count == IF same /\ r.tool = done[Len(done)] THEN r.count + Len(done) ELSE tail
<1>5. \E n \in 1..Len(done) : IsTail(n)
  BY <1>3, <1>4
<1>6. Agent!Recent(r, done) = [tool |-> done[Len(done)], count |-> IF count > RepeatWindow THEN RepeatWindow ELSE count]
  BY Zenon DEF Agent!Recent
<1>7. tail \in 1..Len(done)
  <2> HIDE DEF IsTail
  <2> QED
    BY <1>5
<1>8. count \in Nat
  <2>1. r.count \in Nat
    OBVIOUS
  <2>2. r.count + Len(done) \in Nat /\ tail \in Nat
    BY <2>1, <1>1, <1>7
  <2> HIDE DEF same, tail
  <2> QED
    BY <2>2
<1> HIDE DEF count
<1> QED
  BY <1>1, <1>6, <1>8

\* The batch is over: what it repeated and what failed is counted against the limits.
LEMMA AgentObserves ==
  ASSUME AgentInv, Agent!Observe
  PROVE  AgentInv'
<1> USE AgentConstants
<1> DEFINE history == Agent!Recent(recent, batch.done)
           same == batch.done = run.last
           counted == Agent!Counted(same)
<1>1. /\ pc = "tools" /\ ~Agent!MayCall /\ batch' = Agent!NewBatch /\ UNCHANGED <<cancelled, eng, runs>>
      /\ IF counted.noProgress >= MaxNoProgress
         THEN /\ run' = [counted EXCEPT !.status = "FAILED"] /\ pc' = "left" /\ UNCHANGED recent
         ELSE /\ recent' = history
              /\ IF Agent!StopAfterObservation(history)
                 THEN run' = [counted EXCEPT !.status = "COMPLETED", !.success = TRUE] /\ pc' = "left"
                 ELSE run' = [counted EXCEPT !.step = IF @ <= Len(run.plan) THEN @ + 1 ELSE @, !.iterations = @ + 1]
                      /\ pc' = "check"
  BY DEF Agent!Observe
<1>2. /\ run \in Agent!RunStates /\ batch \in Agent!BatchStates
      /\ recent \in [tool : Agent!Tools \cup {"none"}, count : 0..RepeatWindow]
      /\ batch.done \in Seq(Agent!Tools) /\ batch.done # <<>> /\ batch.failed \in BOOLEAN
  BY <1>1, AgentFields DEF AgentInv, Agent!TypeOK, AgentRounds
<1>a. /\ run.iterations \in Nat /\ run.iterations + 1 <= MaxIterations /\ run.iterations <= MaxIterations
      /\ run.tools <= MaxToolCalls
  <2>1. run.iterations \in Nat
    BY AgentFields DEF AgentInv
  <2>2. run.iterations < MaxIterations
    BY <1>1 DEF AgentInv, AgentRounds
  <2>3. Agent!LimitsHold
    BY DEF AgentInv
  <2>4. run.iterations <= MaxIterations /\ run.tools <= MaxToolCalls
    BY <1>1, <2>3 DEF Agent!LimitsHold
  <2> QED
    BY <2>1, <2>2, <2>4
<1>3. history \in [tool : Agent!Tools \cup {"none"}, count : 0..RepeatWindow]
  BY <1>2, AgentRecent
<1>4. /\ counted \in Agent!RunStates
      /\ counted.iterations = run.iterations /\ counted.tools = run.tools /\ counted.modified = run.modified
  <2>1. counted = [run EXCEPT !.failures = IF batch.failed THEN @ + 1 ELSE 0,
                              !.noProgress = IF same THEN @ + 1 ELSE 0, !.last = batch.done]
    BY DEF Agent!Counted
  <2>2. run.failures \in Nat /\ run.noProgress \in Nat
    BY <1>2 DEF Agent!RunStates
  <2> DEFINE f == IF batch.failed THEN run.failures + 1 ELSE 0
             p == IF same THEN run.noProgress + 1 ELSE 0
  <2>3. f \in Nat /\ p \in Nat
    BY <1>2, <2>2
  <2>4. counted = [run EXCEPT !.failures = f, !.noProgress = p, !.last = batch.done]
    BY <2>1
  <2> HIDE DEF f, p, counted
  <2> QED
    BY <1>2, <2>3, <2>4 DEF Agent!RunStates
<1>5. recent' \in [tool : Agent!Tools \cup {"none"}, count : 0..RepeatWindow]
  BY <1>1, <1>2, <1>3
<1> HIDE DEF counted, history, same
<1>6. /\ run' \in Agent!RunStates /\ run'.iterations <= MaxIterations /\ run'.tools <= MaxToolCalls
      /\ run'.modified = run.modified /\ pc' \in {"left", "check"}
  <2>1. CASE run' = [counted EXCEPT !.status = "FAILED"] /\ pc' = "left"
    <3>1. run' \in Agent!RunStates
      BY <2>1, <1>4 DEF Agent!RunStates, Agent!Statuses, Agent!Stops
    <3>2. run'.iterations = run.iterations /\ run'.tools = run.tools /\ run'.modified = run.modified
      BY <2>1, <1>4 DEF Agent!RunStates
    <3> QED
      BY <2>1, <1>a, <3>1, <3>2
  <2>2. CASE run' = [counted EXCEPT !.status = "COMPLETED", !.success = TRUE] /\ pc' = "left"
    <3>1. run' \in Agent!RunStates
      BY <2>2, <1>4 DEF Agent!RunStates, Agent!Statuses
    <3>2. run'.iterations = run.iterations /\ run'.tools = run.tools /\ run'.modified = run.modified
      BY <2>2, <1>4 DEF Agent!RunStates
    <3> QED
      BY <2>2, <1>a, <3>1, <3>2
  <2>3. CASE /\ run' = [counted EXCEPT !.step = IF @ <= Len(run.plan) THEN @ + 1 ELSE @, !.iterations = @ + 1]
             /\ pc' = "check"
    <3> DEFINE s == IF counted.step <= Len(run.plan) THEN counted.step + 1 ELSE counted.step
               n == counted.iterations + 1
    <3>1. s \in Nat /\ n \in Nat
      BY <1>4 DEF Agent!RunStates
    <3>2. run' = [counted EXCEPT !.step = s, !.iterations = n]
      BY <2>3
    <3>3. n <= MaxIterations
      BY <1>a, <1>4
    <3> HIDE DEF s, n
    <3>4. run' \in Agent!RunStates
      BY <3>1, <3>2, <1>4 DEF Agent!RunStates
    <3>5. run'.iterations = n /\ run'.tools = run.tools /\ run'.modified = run.modified
      BY <3>2, <1>4 DEF Agent!RunStates
    <3> QED
      BY <2>3, <3>3, <3>4, <3>5, <1>a
  <2> QED
    BY <1>1, <2>1, <2>2, <2>3
<1>7. batch' \in Agent!BatchStates
  BY <1>1 DEF Agent!NewBatch, Agent!BatchStates
<1> QED
  <2>1. Agent!TypeOK'
    BY <1>1, <1>5, <1>6, <1>7 DEF AgentInv, Agent!TypeOK
  <2>2. Agent!LimitsHold'
    BY <1>1, <1>5, <1>6, <1>7, AgentFields DEF AgentInv, Agent!LimitsHold
  <2>3. AgentRounds' /\ Agent!CompletedIsVerified'
    BY <1>1, <1>5, <1>6, <1>7 DEF AgentInv, AgentRounds, Agent!CompletedIsVerified
  <2> QED
    BY <2>1, <2>2, <2>3 DEF AgentInv

-----------------------------------------------------------------------------
\* What the model does with tools in the engineering loop leaves the limits alone.
LEMMA AgentActs ==
  ASSUME AgentInv, NEW changes \in BOOLEAN, Agent!ModelActs(changes)
  PROVE  /\ run' \in Agent!RunStates /\ run'.iterations = run.iterations
         /\ run'.modified = (run.modified \/ changes)
<1>1. run \in Agent!RunStates /\ run.tools \in 0..(MaxToolCalls + 1)
  BY AgentFields DEF AgentInv, Agent!TypeOK
<1>2. Agent!Used(run.tools) \in 0..(MaxToolCalls + 1)
  BY <1>1, AgentUsed
<1> QED
  BY <1>1, <1>2 DEF Agent!ModelActs, Agent!RunStates

\* A round of verification begins with every command to run.
LEMMA AgentBegins ==
  ASSUME NEW e \in Agent!EngineeringStates, NEW round \in {"first", "replanned", "repaired"},
         Agent!BeginRound(round, e)
  PROVE  /\ eng' \in Agent!EngineeringStates /\ pc' = "round" /\ eng'.left = Commands /\ eng'.failed = FALSE
         /\ eng'.revisions = e.revisions /\ eng'.repairs = e.repairs /\ eng'.final = e.final /\ eng'.dirty = e.dirty
<1>1. pc' = "round" /\ eng' = [e EXCEPT !.round = round, !.left = Commands, !.failed = FALSE]
  BY DEF Agent!BeginRound
<1>a. Commands \in 0..Commands
  BY AgentConstants
<1>2. eng' \in Agent!EngineeringStates
  BY <1>1, <1>a DEF Agent!EngineeringStates
<1>3. /\ eng'.left = Commands /\ eng'.revisions = e.revisions /\ eng'.repairs = e.repairs /\ eng'.final = e.final
  BY <1>1 DEF Agent!EngineeringStates
<1>4. eng'.failed = FALSE /\ eng'.dirty = e.dirty
  BY <1>1 DEF Agent!EngineeringStates
<1> QED
  BY <1>1, <1>2, <1>3, <1>4

\* The request ends, with the verdict of the engineering loop or without one.
LEMMA AgentSkips ==
  ASSUME AgentInv, Agent!SkipEngineering \/ Agent!EndEngineering
  PROVE  AgentInv'
<1>1. run \in Agent!RunStates /\ eng \in Agent!EngineeringStates
  BY DEF AgentInv, Agent!TypeOK
<1>2. /\ run' \in Agent!RunStates /\ run'.iterations = run.iterations /\ run'.modified = run.modified
  <2>1. CASE Agent!SkipEngineering
    BY <1>1, <2>1 DEF Agent!SkipEngineering, Agent!Finish, Agent!RunStates, Agent!Statuses
  <2>2. CASE Agent!EndEngineering
    <3>1. eng.final \in Agent!Statuses
      BY <1>1, <2>2 DEF AgentInv, AgentRounds, Agent!EndEngineering, Agent!EngineeringStates, Agent!Statuses, Agent!Stops
    <3>2. run' = [run EXCEPT !.status = eng.final, !.success = eng.final = "COMPLETED"]
      BY <2>2 DEF Agent!EndEngineering, Agent!Finish
    <3>3. run' \in Agent!RunStates
      BY <1>1, <3>1, <3>2 DEF Agent!RunStates
    <3> QED
      BY <1>1, <3>2, <3>3 DEF Agent!RunStates
  <2> QED
    BY <2>1, <2>2
<1>3. /\ pc \in {"left", "ended"} /\ pc' = "idle" /\ UNCHANGED <<cancelled, batch, recent, runs, eng>>
  BY DEF Agent!SkipEngineering, Agent!EndEngineering, Agent!Finish
<1> QED
  <2>1. Agent!TypeOK'
    BY <1>1, <1>2, <1>3 DEF AgentInv, Agent!TypeOK
  <2>2. Agent!LimitsHold'
    BY <1>1, <1>2, <1>3, AgentFields DEF AgentInv, Agent!LimitsHold
  <2>3. AgentRounds' /\ Agent!CompletedIsVerified'
    BY <1>1, <1>2, <1>3 DEF AgentInv, AgentRounds, Agent!CompletedIsVerified
  <2> QED
    BY <2>1, <2>2, <2>3 DEF AgentInv

\* A plan is revised while revisions are left.
LEMMA AgentReplans ==
  ASSUME AgentInv, Agent!EnterEngineering \/ Agent!ReplanDuringExecution
  PROVE  AgentInv'
<1> USE AgentConstants
<1>1. /\ eng \in Agent!EngineeringStates /\ eng.revisions \in Nat /\ eng.execution \in Nat
  BY AgentFields DEF AgentInv, Agent!TypeOK
<1>2. CASE Agent!EnterEngineering
  <2>1. PICK acts \in BOOLEAN, writes \in BOOLEAN, replan \in BOOLEAN :
          LET ends == replan /\ ~(eng.revisions < MaxPlanRevisions)
          IN /\ pc' = IF ends THEN "ended" ELSE IF replan THEN "replan" ELSE "verify"
             /\ run' = Agent!Investigated(acts)
             /\ eng' = [eng EXCEPT !.dirty = @ \/ (acts /\ writes), !.final = IF ends THEN "FAILED" ELSE @]
    BY <1>2 DEF Agent!EnterEngineering, Agent!Acted, Agent!Judgements
  <2>2. pc = "left" /\ UNCHANGED <<cancelled, batch, recent, runs>>
    BY <1>2 DEF Agent!EnterEngineering
  <2>3. /\ run' \in Agent!RunStates /\ run'.iterations = run.iterations /\ run'.modified = run.modified
    <3>1. Agent!Used(run.tools) \in 0..(MaxToolCalls + 1)
      BY AgentFields, AgentUsed DEF AgentInv
    <3> QED
      BY <2>1, <3>1 DEF Agent!Investigated, Agent!RunStates, AgentInv, Agent!TypeOK
  <2> DEFINE ends == replan /\ ~(eng.revisions < MaxPlanRevisions)
             dirty == eng.dirty \/ (acts /\ writes)
             final == IF ends THEN "FAILED" ELSE eng.final
  <2>4. pc' = (IF ends THEN "ended" ELSE IF replan THEN "replan" ELSE "verify")
    BY <2>1
  <2>5. eng' = [eng EXCEPT !.dirty = dirty, !.final = final]
    BY <2>1
  <2>6. dirty \in BOOLEAN /\ final \in {"none", "FAILED", "COMPLETED"} /\ final \in {"FAILED", eng.final}
    BY <1>1 DEF Agent!EngineeringStates
  <2>7. /\ (pc' \in {"verify", "replan"} /\ final = eng.final) \/ (pc' = "ended" /\ final = "FAILED")
        /\ pc' = "replan" => eng.revisions < MaxPlanRevisions
    <3>1. CASE ends
      BY <2>4, <3>1
    <3>2. CASE ~ends
      BY <2>4, <3>2
    <3> QED
      BY <3>1, <3>2
  <2> HIDE DEF dirty, final
  <2>8. /\ eng' \in Agent!EngineeringStates /\ eng'.final = final
        /\ eng'.revisions = eng.revisions /\ eng'.repairs = eng.repairs
    BY <1>1, <2>5, <2>6 DEF Agent!EngineeringStates
  <2> QED
    <3>1. Agent!TypeOK'
      BY <2>2, <2>3, <2>7, <2>8 DEF AgentInv, Agent!TypeOK
    <3>2. Agent!LimitsHold'
      BY <2>2, <2>3, <2>7, <2>8, AgentFields DEF AgentInv, Agent!LimitsHold
    <3>3. AgentRounds' /\ Agent!CompletedIsVerified'
      BY <2>2, <2>3, <2>7, <2>8 DEF AgentInv, AgentRounds, Agent!CompletedIsVerified
    <3> QED
      BY <3>1, <3>2, <3>3 DEF AgentInv
<1>3. CASE Agent!ReplanDuringExecution
  <2>1. /\ pc = "replan" /\ pc' = "revised" /\ UNCHANGED <<cancelled, run, batch, recent, runs>>
        /\ eng.revisions < MaxPlanRevisions
    BY <1>3 DEF Agent!ReplanDuringExecution, AgentInv, AgentRounds
  <2>2. PICK n \in Agent!Revisions : eng' = [eng EXCEPT !.revisions = n, !.execution = @ + 1]
    BY <1>3 DEF Agent!ReplanDuringExecution
  <2>3. n \in Nat /\ n <= MaxPlanRevisions
    BY <1>1, <2>1, <2>2 DEF Agent!Revisions, Agent!Revised
  <2> DEFINE executed == eng.execution + 1
  <2>a. eng' = [eng EXCEPT !.revisions = n, !.execution = executed] /\ executed \in Nat
    BY <1>1, <2>2
  <2> HIDE DEF executed
  <2>4. /\ eng' \in Agent!EngineeringStates /\ eng'.revisions = n /\ eng'.repairs = eng.repairs
        /\ eng'.final = eng.final
    BY <1>1, <2>a, <2>3 DEF Agent!EngineeringStates
  <2> QED
    <3>1. Agent!TypeOK'
      BY <2>1, <2>3, <2>4 DEF AgentInv, Agent!TypeOK
    <3>2. Agent!LimitsHold'
      BY <2>1, <2>3, <2>4, AgentFields DEF AgentInv, Agent!LimitsHold
    <3>3. AgentRounds' /\ Agent!CompletedIsVerified'
      BY <2>1, <2>3, <2>4 DEF AgentInv, AgentRounds, Agent!CompletedIsVerified
    <3> QED
      BY <3>1, <3>2, <3>3 DEF AgentInv
<1> QED
  BY <1>2, <1>3

\* The revised plan is followed; another revision begins only while revisions are left.
LEMMA AgentFollowsPlan ==
  ASSUME AgentInv, Agent!ExecuteRevisedPlan
  PROVE  AgentInv'
<1> USE AgentConstants
<1>1. PICK changes \in BOOLEAN, failed \in BOOLEAN :
        /\ Agent!ModelActs(changes)
        /\ LET e == [eng EXCEPT !.dirty = @ \/ changes] IN
           IF failed /\ eng.execution = 1
           THEN IF Agent!MayReplanAgain THEN pc' = "replan" /\ eng' = e
                ELSE pc' = "ended" /\ eng' = [e EXCEPT !.final = "FAILED"]
           ELSE pc' = "verify" /\ eng' = e
  BY DEF Agent!ExecuteRevisedPlan, Agent!Acted
<1>2. /\ run' \in Agent!RunStates /\ run'.iterations = run.iterations
  BY <1>1, AgentActs
<1>3. eng \in Agent!EngineeringStates
  BY DEF AgentInv, Agent!TypeOK
<1> DEFINE e == [eng EXCEPT !.dirty = @ \/ changes]
<1>4. /\ e \in Agent!EngineeringStates /\ e.revisions = eng.revisions /\ e.repairs = eng.repairs
      /\ e.final = eng.final
  BY <1>3 DEF Agent!EngineeringStates
<1>5. \/ eng' = e /\ pc' \in {"replan", "verify"} /\ (pc' = "replan" => eng.revisions < MaxPlanRevisions)
      \/ eng' = [e EXCEPT !.final = "FAILED"] /\ pc' = "ended"
  BY <1>1 DEF Agent!MayReplanAgain
<1> HIDE DEF e
<1>6. /\ eng' \in Agent!EngineeringStates /\ eng'.revisions = eng.revisions /\ eng'.repairs = eng.repairs
      /\ (eng'.final = eng.final /\ pc' # "ended") \/ (eng'.final = "FAILED" /\ pc' = "ended")
  <2>1. CASE eng' = e /\ pc' \in {"replan", "verify"}
    BY <1>4, <2>1
  <2>2. CASE eng' = [e EXCEPT !.final = "FAILED"] /\ pc' = "ended"
    BY <1>4, <2>2 DEF Agent!EngineeringStates
  <2> QED
    BY <1>5, <2>1, <2>2
<1>7. pc = "revised" /\ UNCHANGED <<cancelled, batch, recent, runs>>
  BY DEF Agent!ExecuteRevisedPlan
<1>8. pc' \in {"replan", "verify", "ended"} /\ (pc' = "replan" => eng.revisions < MaxPlanRevisions)
  BY <1>5
<1> QED
  <2>1. Agent!TypeOK'
    BY <1>2, <1>6, <1>7, <1>8 DEF AgentInv, Agent!TypeOK
  <2>2. Agent!LimitsHold'
    BY <1>2, <1>6, <1>7, <1>8, AgentFields DEF AgentInv, Agent!LimitsHold
  <2>3. AgentRounds' /\ Agent!CompletedIsVerified'
    BY <1>2, <1>6, <1>7, <1>8 DEF AgentInv, AgentRounds, Agent!CompletedIsVerified
  <2> QED
    BY <2>1, <2>2, <2>3 DEF AgentInv

\* A round of commands begins, each still to run; or repairs are exhausted, and it is a failure.
LEMMA AgentVerifies ==
  ASSUME AgentInv, Agent!Verify \/ Agent!RepairsExhausted
  PROVE  AgentInv'
<1> USE AgentConstants
<1>1. eng \in Agent!EngineeringStates
  BY DEF AgentInv, Agent!TypeOK
<1>2. /\ pc \in {"verify", "repair"} /\ UNCHANGED <<cancelled, run, batch, recent, runs>>
  BY DEF Agent!Verify, Agent!RepairsExhausted
<1>3. CASE Agent!BeginRound("first", eng)
  <2>1. /\ eng' \in Agent!EngineeringStates /\ pc' = "round" /\ eng'.left = Commands
        /\ eng'.revisions = eng.revisions /\ eng'.repairs = eng.repairs /\ eng'.final = eng.final
    BY <1>1, <1>3, AgentBegins
  <2> QED
    <3>1. Agent!TypeOK'
      BY <1>2, <2>1 DEF AgentInv, Agent!TypeOK
    <3>2. Agent!LimitsHold'
      BY <1>2, <2>1, AgentFields DEF AgentInv, Agent!LimitsHold
    <3>3. AgentRounds' /\ Agent!CompletedIsVerified'
      BY <1>2, <2>1 DEF AgentInv, AgentRounds, Agent!CompletedIsVerified
    <3> QED
      BY <3>1, <3>2, <3>3 DEF AgentInv
<1>4. CASE /\ pc' = "ended" /\ (~run.modified \/ eng'.final = "FAILED")
           /\ \E verdict \in {"FAILED", "COMPLETED"} : eng' = [eng EXCEPT !.final = verdict]
  <2>1. /\ eng' \in Agent!EngineeringStates /\ eng'.revisions = eng.revisions /\ eng'.repairs = eng.repairs
        /\ eng'.final # "none"
    BY <1>1, <1>4 DEF Agent!EngineeringStates
  <2> QED
    <3>1. Agent!TypeOK'
      BY <1>2, <1>4, <2>1 DEF AgentInv, Agent!TypeOK
    <3>2. Agent!LimitsHold'
      BY <1>2, <1>4, <2>1, AgentFields DEF AgentInv, Agent!LimitsHold
    <3>3. AgentRounds' /\ Agent!CompletedIsVerified'
      BY <1>2, <1>4, <2>1 DEF AgentInv, AgentRounds, Agent!CompletedIsVerified
    <3> QED
      BY <3>1, <3>2, <3>3 DEF AgentInv
<1>5. CASE Agent!Verify
  BY <1>3, <1>4, <1>5 DEF Agent!Verify
<1>6. CASE Agent!RepairsExhausted
  <2>1. eng' = [eng EXCEPT !.final = "FAILED"] /\ pc' = "ended"
    BY <1>6 DEF Agent!RepairsExhausted
  <2>2. eng'.final = "FAILED"
    BY <1>1, <2>1 DEF Agent!EngineeringStates
  <2> QED
    BY <1>4, <2>1, <2>2
<1> QED
  BY <1>5, <1>6

\* Only a round that ended without a failure leaves the files clean.
LEMMA AgentRunsCommand ==
  ASSUME AgentInv, Agent!RunCommand
  PROVE  AgentInv'
<1> USE AgentConstants
<1>1. /\ run \in Agent!RunStates /\ eng \in Agent!EngineeringStates /\ run.tools \in 0..(MaxToolCalls + 1)
  BY AgentFields DEF AgentInv, Agent!TypeOK
<1>2. /\ pc = "round" /\ pc' = "round" /\ UNCHANGED <<cancelled, batch, recent, runs>>
      /\ eng.left > 0 /\ run' = [run EXCEPT !.tools = Agent!Used(@)]
  BY DEF Agent!RunCommand
<1>3. PICK ok \in BOOLEAN :
        eng' = [eng EXCEPT !.left = @ - 1, !.failed = ~ok, !.dirty = @ /\ ~(ok /\ eng.left = 1)]
  BY DEF Agent!RunCommand
<1>4. Agent!Used(run.tools) \in 0..(MaxToolCalls + 1)
  BY <1>1, AgentUsed
<1>5. run' \in Agent!RunStates /\ run'.iterations = run.iterations
  BY <1>1, <1>2, <1>4 DEF Agent!RunStates
<1>6. eng.left \in 0..Commands
  BY <1>1 DEF Agent!EngineeringStates
<1> DEFINE left == eng.left - 1
           final == ok /\ eng.left = 1
<1>a. left \in 0..Commands
  BY <1>2, <1>6
<1>b. final \in BOOLEAN /\ (left = 0 /\ ok => final)
  BY <1>2, <1>6
<1>c. eng' = [eng EXCEPT !.left = left, !.failed = ~ok, !.dirty = @ /\ ~final]
  BY <1>3
<1> HIDE DEF left, final
<1>7. eng' \in Agent!EngineeringStates
  BY <1>1, <1>a, <1>b, <1>c DEF Agent!EngineeringStates
<1>8. /\ eng'.left = left
      /\ eng'.revisions = eng.revisions /\ eng'.repairs = eng.repairs /\ eng'.final = eng.final
  BY <1>1, <1>c DEF Agent!EngineeringStates
<1>d. eng'.failed = ~ok /\ eng'.dirty = (eng.dirty /\ ~final)
  BY <1>1, <1>c DEF Agent!EngineeringStates
<1>9. eng'.left = 0 /\ ~eng'.failed => ~eng'.dirty
  BY <1>b, <1>8, <1>d
<1> QED
  <2>1. Agent!TypeOK'
    BY <1>2, <1>5, <1>7, <1>8, <1>9 DEF AgentInv, Agent!TypeOK
  <2>2. Agent!LimitsHold'
    BY <1>2, <1>5, <1>7, <1>8, <1>9, AgentFields DEF AgentInv, Agent!LimitsHold
  <2>3. AgentRounds' /\ Agent!CompletedIsVerified'
    BY <1>2, <1>5, <1>7, <1>8, <1>9 DEF AgentInv, AgentRounds, Agent!CompletedIsVerified
  <2> QED
    BY <2>1, <2>2, <2>3 DEF AgentInv

\* A round that passed left no command to run, or was cancelled.
LEMMA AgentPasses ==
  ASSUME AgentInv, Agent!Pass \/ Agent!GiveUpRound
  PROVE  AgentInv'
<1>1. eng.left \in 0..Commands /\ eng.failed \in BOOLEAN
  BY AgentFields DEF AgentInv
<1>2. /\ pc = "round" /\ pc' \in {"review", "repair"} /\ UNCHANGED <<cancelled, run, batch, eng, recent, runs>>
      /\ pc' = "review" /\ ~cancelled => ~eng.failed /\ eng.left = 0
  BY DEF Agent!Pass, Agent!GiveUpRound, Agent!RoundEnds, Agent!Passed
<1> QED
  <2>1. Agent!TypeOK'
    BY <1>1, <1>2 DEF AgentInv, Agent!TypeOK
  <2>2. Agent!LimitsHold'
    BY <1>1, <1>2, AgentFields DEF AgentInv, Agent!LimitsHold
  <2>3. AgentRounds' /\ Agent!CompletedIsVerified'
    BY <1>1, <1>2 DEF AgentInv, AgentRounds, Agent!CompletedIsVerified
  <2> QED
    BY <2>1, <2>2, <2>3 DEF AgentInv

\* A round that failed is repaired or replanned within the limits, and every command runs again.
LEMMA AgentRepairs ==
  ASSUME AgentInv, Agent!Repair \/ Agent!ReplanAfterFailure
  PROVE  AgentInv'
<1> USE AgentConstants
<1>1. /\ eng \in Agent!EngineeringStates /\ eng.revisions \in Nat /\ eng.repairs \in Nat
  BY AgentFields DEF AgentInv, Agent!TypeOK
<1>2. CASE Agent!Repair
  <2>1. /\ pc = "repair" /\ eng.repairs < MaxRepairAttempts /\ UNCHANGED <<cancelled, batch, recent, runs>>
    BY <1>2 DEF Agent!Repair
  <2>2. PICK changes \in BOOLEAN :
          /\ Agent!ModelActs(changes)
          /\ Agent!BeginRound("repaired", [eng EXCEPT !.repairs = Agent!CountRepair(@), !.dirty = @ \/ changes])
    BY <1>2 DEF Agent!Repair
  <2> DEFINE e == [eng EXCEPT !.repairs = Agent!CountRepair(@), !.dirty = @ \/ changes]
  <2>a. Agent!CountRepair(eng.repairs) = eng.repairs + 1 /\ Agent!CountRepair(eng.repairs) \in Nat
    BY <1>1 DEF Agent!CountRepair
  <2>3. /\ e \in Agent!EngineeringStates /\ e.repairs = Agent!CountRepair(eng.repairs)
        /\ e.revisions = eng.revisions /\ e.final = eng.final
    BY <1>1, <2>a DEF Agent!EngineeringStates
  <2>4. run' \in Agent!RunStates /\ run'.iterations = run.iterations
    BY <2>2, AgentActs
  <2> HIDE DEF e
  <2>5. /\ eng' \in Agent!EngineeringStates /\ pc' = "round" /\ eng'.left = Commands
        /\ eng'.revisions = e.revisions /\ eng'.repairs = e.repairs /\ eng'.final = e.final
    BY <2>2, <2>3, AgentBegins DEF e
  <2> QED
    <3>1. Agent!TypeOK'
      BY <1>1, <2>1, <2>a, <2>3, <2>4, <2>5 DEF AgentInv, Agent!TypeOK
    <3>2. Agent!LimitsHold'
      BY <1>1, <2>1, <2>a, <2>3, <2>4, <2>5, AgentFields DEF AgentInv, Agent!LimitsHold
    <3>3. AgentRounds' /\ Agent!CompletedIsVerified'
      BY <1>1, <2>1, <2>a, <2>3, <2>4, <2>5 DEF AgentInv, AgentRounds, Agent!CompletedIsVerified
    <3> QED
      BY <3>1, <3>2, <3>3 DEF AgentInv
<1>3. CASE Agent!ReplanAfterFailure
  <2>1. /\ pc = "round" /\ eng.revisions < MaxPlanRevisions /\ UNCHANGED <<cancelled, run, batch, recent, runs>>
    BY <1>3 DEF Agent!ReplanAfterFailure, Agent!RoundEnds, Agent!ShouldReplan
  <2>2. PICK n \in Agent!Revisions : LET e == [eng EXCEPT !.revisions = n] IN
          IF n < MaxPlanRevisions THEN Agent!BeginRound("replanned", e) ELSE pc' = "repair" /\ eng' = e
    BY <1>3 DEF Agent!ReplanAfterFailure
  <2>3. n \in Nat /\ n <= MaxPlanRevisions
    BY <1>1, <2>1, <2>2 DEF Agent!Revisions, Agent!Revised
  <2> DEFINE e == [eng EXCEPT !.revisions = n]
  <2>4. /\ e \in Agent!EngineeringStates /\ e.revisions = n /\ e.repairs = eng.repairs /\ e.final = eng.final
    BY <1>1, <2>3 DEF Agent!EngineeringStates
  <2>5. \/ Agent!BeginRound("replanned", e)
        \/ pc' = "repair" /\ eng' = e
    BY <2>2
  <2> HIDE DEF e
  <2>6. /\ eng' \in Agent!EngineeringStates /\ eng'.revisions = n /\ eng'.repairs = eng.repairs
        /\ eng'.final = eng.final /\ pc' \in {"round", "repair"} /\ (pc' = "round" => eng'.left = Commands)
    BY <2>4, <2>5, AgentBegins
  <2> QED
    <3>1. Agent!TypeOK'
      BY <2>1, <2>3, <2>6 DEF AgentInv, Agent!TypeOK
    <3>2. Agent!LimitsHold'
      BY <2>1, <2>3, <2>6, AgentFields DEF AgentInv, Agent!LimitsHold
    <3>3. AgentRounds' /\ Agent!CompletedIsVerified'
      BY <2>1, <2>3, <2>6 DEF AgentInv, AgentRounds, Agent!CompletedIsVerified
    <3> QED
      BY <3>1, <3>2, <3>3 DEF AgentInv
<1> QED
  BY <1>2, <1>3

\* The change is COMPLETED after its review.
LEMMA AgentReviews ==
  ASSUME AgentInv, Agent!Review
  PROVE  AgentInv'
<1>1. /\ run \in Agent!RunStates /\ eng \in Agent!EngineeringStates /\ run.tools \in 0..(MaxToolCalls + 1)
  BY AgentFields DEF AgentInv, Agent!TypeOK
<1>2. /\ pc = "review" /\ pc' = "ended" /\ UNCHANGED <<cancelled, batch, recent, runs>>
      /\ run' = [run EXCEPT !.tools = Agent!Used(@)] /\ eng' = [eng EXCEPT !.final = "COMPLETED"]
  BY DEF Agent!Review
<1>3. Agent!Used(run.tools) \in 0..(MaxToolCalls + 1)
  BY <1>1, AgentUsed
<1>4. run' \in Agent!RunStates /\ run'.iterations = run.iterations
  BY <1>1, <1>2, <1>3 DEF Agent!RunStates
<1>5. /\ eng' \in Agent!EngineeringStates /\ eng'.dirty = eng.dirty
      /\ eng'.revisions = eng.revisions /\ eng'.repairs = eng.repairs
  BY <1>1, <1>2 DEF Agent!EngineeringStates
<1> QED
  <2>1. Agent!TypeOK'
    BY <1>2, <1>4, <1>5 DEF AgentInv, Agent!TypeOK
  <2>2. Agent!LimitsHold'
    BY <1>2, <1>4, <1>5, AgentFields DEF AgentInv, Agent!LimitsHold
  <2>3. AgentRounds' /\ Agent!CompletedIsVerified'
    BY <1>2, <1>4, <1>5 DEF AgentInv, AgentRounds, Agent!CompletedIsVerified
  <2> QED
    BY <2>1, <2>2, <2>3 DEF AgentInv

\* Another thread cancels: what was verified is not asked for any more.
LEMMA AgentCancels ==
  ASSUME AgentInv, Agent!Cancel \/ UNCHANGED agentVars
  PROVE  AgentInv'
  BY DEF Agent!Cancel, agentVars, AgentInv, Agent!TypeOK, Agent!LimitsHold, AgentRounds, Agent!MayCall, Agent!CompletedIsVerified

\* An interrupt ends the request where it was: only the status is another.
LEMMA AgentInterrupted ==
  ASSUME AgentInv, Agent!Interrupt
  PROVE  AgentInv'
<1>1. run \in Agent!RunStates
  BY DEF AgentInv, Agent!TypeOK
<1>2. PICK status \in {"CANCELLED", "FAILED"} : run' = [run EXCEPT !.status = status]
  BY DEF Agent!Interrupt, Agent!Finish
<1>3. pc # "idle" /\ pc' = "idle" /\ UNCHANGED <<cancelled, batch, eng, recent, runs>>
  BY DEF Agent!Interrupt, Agent!Finish
<1>4. /\ run' \in Agent!RunStates /\ run'.iterations = run.iterations /\ run'.modified = run.modified
  BY <1>1, <1>2 DEF Agent!RunStates, Agent!Statuses, Agent!Stops
<1>5. Agent!TypeOK'
  BY <1>3, <1>4 DEF AgentInv, Agent!TypeOK
<1>6. Agent!LimitsHold'
  BY <1>3, <1>4 DEF AgentInv, Agent!LimitsHold
<1>7. AgentRounds' /\ Agent!CompletedIsVerified'
  BY <1>3, <1>4 DEF AgentInv, AgentRounds, Agent!CompletedIsVerified
<1> QED
  BY <1>5, <1>6, <1>7 DEF AgentInv

\* Every step of the agent keeps its invariant.
LEMMA AgentSteps ==
  ASSUME AgentInv, Agent!Next
  PROVE  AgentInv'
<1>1. CASE Agent!ExhaustIterations \/ Agent!TimeOut \/ Agent!StopAtLimit \/ Agent!ReasonFails \/ Agent!ReasonEnds
  <2>1. pc = "check" /\ \E s \in Agent!Statuses, b \in BOOLEAN : Agent!Leave(s, b)
    BY <1>1 DEF Agent!ExhaustIterations, Agent!TimeOut, Agent!StopAtLimit, Agent!StopReason, Agent!ReasonFails,
                Agent!ReasonEnds, Agent!MayReason, Agent!Statuses, Agent!Stops
  <2> QED
    BY <2>1, AgentLeaves
<1> QED
  BY <1>1, AgentExecutes, AgentReasons, AgentCalls, AgentObserves, AgentSkips, AgentReplans, AgentFollowsPlan,
     AgentVerifies, AgentRunsCommand, AgentPasses, AgentRepairs, AgentReviews, AgentCancels, AgentInterrupted
  DEF Agent!Next, Agent!Step, Agent!LoopStep, Agent!EngineeringStep

-----------------------------------------------------------------------------
\* agentcore: the constants, and what holds inside a turn of the loop.
LEMMA CoreConstants ==
  /\ MaxIterations \in Nat \ {0} /\ MaxToolCalls \in Nat \ {0} /\ MaxConsecutiveFailures \in Nat \ {0}
  /\ MaxNoProgress \in Nat \ {0} /\ MaxBatch \in Nat \ {0}
  BY RequestsAssumption DEF Core!AgentCoreAssumption

\* A turn begins below every limit; the reason of a hopeless request comes with its status.
CoreRounds ==
  /\ corePc \in {"loop", "act", "observe"} => stuck < MaxNoProgress
  /\ corePc \in {"act", "observe"} => iterations < MaxIterations /\ coreFailures < MaxConsecutiveFailures
  /\ coreResult.reason \in {"consecutive_tool_failures", "no_progress"} => coreResult.status = "FAILED"

CoreInv == Core!TypeOK /\ Core!LimitsHold /\ CoreRounds /\ Core!HopelessTaskFails

Results == [status : {"RUNNING", "COMPLETED", "TIMEOUT", "TOOL_LIMIT", "FAILED", "CANCELLED", "RUNTIME_ERROR"},
            reason : {"none", "timeout", "tool_limit", "consecutive_tool_failures", "user_cancellation",
                      "runtime_error", "no_progress"},
            success : BOOLEAN]

\* The types of the variables, in the form the steps below use.
LEMMA CoreFields ==
  Core!TypeOK <=>
    /\ corePc \in {"idle", "loop", "act", "observe", "verify", "raised"}
    /\ coreState \in {"CREATED", "IMPLEMENTING", "BLOCKED", "FAILED", "COMPLETED"}
    /\ iterations \in Nat /\ used \in Nat /\ coreFailures \in Nat /\ stuck \in Nat /\ tasks \in Nat
    /\ anyFailed \in BOOLEAN /\ coreCancelled \in BOOLEAN /\ coreLate \in BOOLEAN
    /\ coreResult \in Results
    /\ calls \in [bound : BOOLEAN, seq : Seq(CoreTools)] /\ coreBatch \in Seq([tool : CoreTools, ok : BOOLEAN])
  BY DEF Core!TypeOK, Results

\* The same of the next state.
LEMMA CoreFieldsNext ==
  ASSUME corePc' \in {"idle", "loop", "act", "observe", "verify", "raised"},
         coreState' \in {"CREATED", "IMPLEMENTING", "BLOCKED", "FAILED", "COMPLETED"},
         iterations' \in Nat, used' \in Nat, coreFailures' \in Nat, stuck' \in Nat, tasks' \in Nat,
         anyFailed' \in BOOLEAN, coreCancelled' \in BOOLEAN, coreLate' \in BOOLEAN, coreResult' \in Results,
         calls' \in [bound : BOOLEAN, seq : Seq(CoreTools)], coreBatch' \in Seq([tool : CoreTools, ok : BOOLEAN])
  PROVE  Core!TypeOK'
  BY DEF Core!TypeOK, Results

\* A task of agentcore that has not begun satisfies the invariant.
LEMMA CoreInit == Core!Init => CoreInv
<1> SUFFICES ASSUME Core!Init PROVE CoreInv
  OBVIOUS
<1>1. coreResult \in Results
  BY DEF Core!Init, Core!None, Results
<1>2. coreResult.reason = "none"
  BY DEF Core!Init, Core!None
<1>3. calls \in [bound : BOOLEAN, seq : Seq(CoreTools)] /\ coreBatch \in Seq([tool : CoreTools, ok : BOOLEAN])
  BY DEF Core!Init, Core!Unbound
<1>4. Core!TypeOK
  BY <1>1, <1>3, CoreFields DEF Core!Init
<1>5. Core!LimitsHold
  BY CoreConstants DEF Core!Init, Core!LimitsHold
<1>6. CoreRounds /\ Core!HopelessTaskFails
  BY <1>2, CoreConstants DEF Core!Init, CoreRounds, Core!HopelessTaskFails
<1> QED
  BY <1>4, <1>5, <1>6 DEF CoreInv

\* A task begins with nothing counted.
LEMMA CoreExecutes ==
  ASSUME CoreInv, Core!Execute
  PROVE  CoreInv'
<1>1. coreResult' \in Results
  BY DEF Core!Execute, Core!None, Results
<1>2. coreResult'.reason = "none"
  BY DEF Core!Execute, Core!None
<1>3. calls' \in [bound : BOOLEAN, seq : Seq(CoreTools)] /\ coreBatch' \in Seq([tool : CoreTools, ok : BOOLEAN])
  BY DEF Core!Execute, Core!Unbound
<1>4. tasks' \in Nat
  BY CoreFields DEF CoreInv, Core!Execute
<1>5. Core!TypeOK'
  BY <1>1, <1>3, <1>4, CoreFields, CoreFieldsNext DEF Core!Execute
<1>6. Core!LimitsHold'
  BY CoreConstants DEF Core!Execute, Core!LimitsHold
<1>7. CoreRounds' /\ Core!HopelessTaskFails'
  BY <1>2, CoreConstants DEF Core!Execute, CoreRounds, Core!HopelessTaskFails
<1> QED
  BY <1>5, <1>6, <1>7 DEF CoreInv

\* The counters and the batch are left alone while the loop is left or goes on.
LEMMA CoreGoesOn ==
  ASSUME CoreInv,
         UNCHANGED <<iterations, used, coreFailures, stuck, anyFailed, coreBatch, tasks>>,
         coreCancelled' \in BOOLEAN, coreLate' \in BOOLEAN,
         corePc' \in {"idle", "loop", "act", "observe", "verify", "raised"},
         coreState' \in {"CREATED", "IMPLEMENTING", "BLOCKED", "FAILED", "COMPLETED"},
         coreResult' \in Results, calls' \in [bound : BOOLEAN, seq : Seq(CoreTools)],
         CoreRounds', Core!HopelessTaskFails'
  PROVE  CoreInv'
<1>1. Core!TypeOK'
  BY CoreFields, CoreFieldsNext DEF CoreInv
<1>2. Core!LimitsHold'
  BY DEF CoreInv, Core!LimitsHold
<1> QED
  BY <1>1, <1>2 DEF CoreInv

\* What Stop finds is a status, its reason and a state.
LEMMA CoreStops ==
  ASSUME Core!TypeOK
  PROVE  /\ Core!Stop.status \in {"RUNNING", "COMPLETED", "TIMEOUT", "TOOL_LIMIT", "FAILED", "CANCELLED", "RUNTIME_ERROR"}
         /\ Core!Stop.reason \in {"none", "timeout", "tool_limit", "consecutive_tool_failures", "user_cancellation",
                                  "runtime_error", "no_progress"}
         /\ Core!Stop.state \in {"CREATED", "IMPLEMENTING", "BLOCKED", "FAILED", "COMPLETED"}
         /\ Core!Stop.reason \in {"consecutive_tool_failures", "no_progress"} => Core!Stop.status = "FAILED"
         /\ Core!Stop.status = "RUNNING" => ~(coreFailures >= MaxConsecutiveFailures)
  BY CoreFields DEF Core!Stop, Core!Stopped

\* The loop is left for a limit or an end of the task, and the result says which.
LEMMA CoreLeaves ==
  ASSUME Core!TypeOK,
         NEW status \in {"RUNNING", "COMPLETED", "TIMEOUT", "TOOL_LIMIT", "FAILED", "CANCELLED", "RUNTIME_ERROR"},
         NEW reason \in {"none", "timeout", "tool_limit", "consecutive_tool_failures", "user_cancellation",
                         "runtime_error", "no_progress"},
         Core!Leave(status, reason)
  PROVE  /\ corePc' = "verify" /\ coreResult' \in Results
         /\ coreResult'.status = status /\ coreResult'.reason = reason
  BY CoreFields DEF Core!Leave, Results

\* It is left before a turn only.
LEMMA CoreLimits ==
  ASSUME CoreInv, Core!StopAtLimit
  PROVE  CoreInv'
<1>1. /\ UNCHANGED <<iterations, used, coreFailures, stuck, anyFailed, coreBatch, tasks, calls>>
      /\ coreCancelled' = coreCancelled /\ coreLate' = coreLate
  BY DEF Core!StopAtLimit, Core!counters
<1>2. PICK status \in {"RUNNING", "COMPLETED", "TIMEOUT", "TOOL_LIMIT", "FAILED", "CANCELLED", "RUNTIME_ERROR"},
           reason \in {"none", "timeout", "tool_limit", "consecutive_tool_failures", "user_cancellation",
                       "runtime_error", "no_progress"} :
        /\ Core!Leave(status, reason)
        /\ coreState' \in {"CREATED", "IMPLEMENTING", "BLOCKED", "FAILED", "COMPLETED"}
        /\ reason \in {"consecutive_tool_failures", "no_progress"} => status = "FAILED"
  <2>1. CASE Core!Complete
    BY <2>1, CoreFields DEF CoreInv, Core!Complete
  <2>2. CASE Core!Leave(Core!Stop.status, Core!Stop.reason) /\ coreState' = Core!Stop.state
    BY <2>2, CoreStops DEF CoreInv
  <2> QED
    BY <2>1, <2>2 DEF Core!StopAtLimit
<1>3. /\ corePc' = "verify" /\ coreResult' \in Results
      /\ coreResult'.status = status /\ coreResult'.reason = reason
  BY <1>2, CoreLeaves DEF CoreInv
<1>4. CoreRounds' /\ Core!HopelessTaskFails'
  BY <1>2, <1>3 DEF CoreRounds, Core!HopelessTaskFails
<1>5. calls' \in [bound : BOOLEAN, seq : Seq(CoreTools)] /\ coreCancelled' \in BOOLEAN /\ coreLate' \in BOOLEAN
  BY <1>1, CoreFields DEF CoreInv
<1> QED
  BY <1>1, <1>2, <1>3, <1>4, <1>5, CoreGoesOn

\* The model asks for tools, answers, sends nothing, or fails.
LEMMA CoreResponds ==
  ASSUME CoreInv, Core!Respond
  PROVE  CoreInv'
<1> DEFINE Calls == [bound : BOOLEAN, seq : Seq(CoreTools)]
<1>1. /\ corePc = "loop" /\ iterations < MaxIterations /\ ~(coreFailures >= MaxConsecutiveFailures)
  BY CoreStops DEF CoreInv, Core!Respond, Core!MayRespond
<1>2. coreFailures < MaxConsecutiveFailures /\ stuck < MaxNoProgress
  BY <1>1, CoreFields, CoreConstants DEF CoreInv, CoreRounds
<1>3. /\ UNCHANGED <<iterations, used, coreFailures, stuck, anyFailed, coreBatch, tasks>>
      /\ coreCancelled' = coreCancelled /\ coreLate' = coreLate
  BY DEF Core!Respond, Core!counters
<1>4. calls' \in Calls
  <2>1. calls \in Calls
    BY CoreFields DEF CoreInv
  <2>2. ASSUME NEW s \in Core!Batches, calls' = Core!Bound(s) PROVE calls' \in Calls
    <3>1. PICK n \in 1..MaxBatch : s \in [1..n -> CoreTools]
      BY DEF Core!Batches
    <3>2. s \in Seq(CoreTools)
      BY <3>1, CoreConstants
    <3> QED
      BY <2>2, <3>2 DEF Core!Bound
  <2>3. ASSUME calls' = Core!Bound(<<>>) PROVE calls' \in Calls
    BY <2>3 DEF Core!Bound
  <2> QED
    BY <2>1, <2>2, <2>3 DEF Core!Respond, Core!Complete
<1>5. /\ corePc' \in {"verify", "act", "loop"} /\ coreResult' \in Results
      /\ coreState' \in {"CREATED", "IMPLEMENTING", "BLOCKED", "FAILED", "COMPLETED"}
      /\ coreResult'.reason \in {"consecutive_tool_failures", "no_progress"} => coreResult'.status = "FAILED"
  <2>1. CASE Core!Leave("RUNTIME_ERROR", "runtime_error") /\ coreState' = "FAILED"
    <3>1. corePc' = "verify" /\ coreResult' \in Results /\ coreResult'.reason = "runtime_error"
      BY <2>1, CoreLeaves DEF CoreInv
    <3> QED
      BY <2>1, <3>1
  <2>2. CASE Core!Complete
    <3>1. corePc' = "verify" /\ coreResult' \in Results /\ coreResult'.reason = "none"
      BY <2>2, CoreLeaves DEF CoreInv, Core!Complete
    <3> QED
      BY <2>2, <3>1, CoreFields DEF CoreInv, Core!Complete
  <2>3. CASE corePc' \in {"act", "loop"} /\ UNCHANGED <<coreState, coreResult>>
    BY <2>3, CoreFields DEF CoreInv, CoreRounds
  <2> QED
    BY <2>1, <2>2, <2>3 DEF Core!Respond
<1>6. CoreRounds' /\ Core!HopelessTaskFails'
  BY <1>1, <1>2, <1>3, <1>5 DEF CoreRounds, Core!HopelessTaskFails
<1>7. coreCancelled' \in BOOLEAN /\ coreLate' \in BOOLEAN
  BY <1>3, CoreFields DEF CoreInv
<1> QED
  BY <1>3, <1>4, <1>5, <1>6, <1>7, CoreGoesOn

\* The calls that are run leave the counter within its limit.
LEMMA CoreRuns ==
  ASSUME CoreInv, NEW s \in Seq(CoreTools), Core!Run(Core!Allowed(s))
  PROVE  /\ coreBatch' \in Seq([tool : CoreTools, ok : BOOLEAN])
         /\ used' \in Nat /\ used' <= MaxToolCalls
         /\ anyFailed' \in BOOLEAN
<1> DEFINE room == MaxToolCalls - used
           n == IF Len(s) <= room THEN Len(s) ELSE room
           a == SubSeq(s, 1, n)
<1>1. used \in Nat /\ used <= MaxToolCalls /\ Len(s) \in Nat
  BY CoreFields DEF CoreInv, Core!LimitsHold
<1>2. n \in Nat /\ n <= Len(s) /\ n <= room
  BY <1>1, CoreConstants
<1>3. Core!Allowed(s) = a
  BY DEF Core!Allowed
<1>a. used + n \in Nat /\ used + n <= MaxToolCalls
  BY <1>1, <1>2, CoreConstants
<1> HIDE DEF n
<1>4. a \in Seq(CoreTools) /\ Len(a) = n
  <2>1. \A i \in 1..n : s[i] \in CoreTools
    BY <1>2
  <2>2. a \in Seq(CoreTools) /\ Len(a) = IF 1 <= n THEN n - 1 + 1 ELSE 0
    BY <2>1, <1>2, SubSeqProperties
  <2> QED
    BY <2>2, <1>2
<1> HIDE DEF a
<1>5. PICK ok \in [1..Len(a) -> BOOLEAN] :
        /\ coreBatch' = [i \in 1..Len(a) |-> [tool |-> a[i], ok |-> ok[i]]]
        /\ used' = used + Len(a)
        /\ anyFailed' = (anyFailed \/ \E i \in 1..Len(a) : ~ok[i])
  BY <1>3 DEF Core!Run, Core!Outcomes
<1>6. coreBatch' \in [1..n -> [tool : CoreTools, ok : BOOLEAN]]
  BY <1>4, <1>5
<1>7. coreBatch' \in Seq([tool : CoreTools, ok : BOOLEAN])
  <2> DEFINE Call == [tool : CoreTools, ok : BOOLEAN]
  <2>1. coreBatch' \in [1..n -> Call]
    BY <1>6
  <2> HIDE DEF Call
  <2>2. coreBatch' \in Seq(Call)
    BY <1>2, <2>1
  <2> QED
    BY <2>2 DEF Call
<1>8. used' \in Nat /\ used' <= MaxToolCalls
  BY <1>a, <1>4, <1>5
<1>9. anyFailed' \in BOOLEAN
  BY <1>5, CoreFields DEF CoreInv
<1> QED
  BY <1>7, <1>8, <1>9

\* A batch of tools runs as far as the tool calls reach.
LEMMA CoreActs ==
  ASSUME CoreInv, Core!ExecuteToolCalls
  PROVE  CoreInv'
<1>1. /\ corePc = "act" /\ UNCHANGED <<coreState, coreResult, iterations, coreFailures, stuck, calls, coreCancelled,
                                      coreLate, tasks>>
      /\ corePc' \in {"observe", "raised"}
  BY DEF Core!ExecuteToolCalls
<1>2. /\ coreBatch' \in Seq([tool : CoreTools, ok : BOOLEAN])
      /\ used' \in Nat /\ used' <= MaxToolCalls
      /\ anyFailed' \in BOOLEAN
  <2>1. ASSUME NEW p \in Core!Pending, Core!Run(Core!Allowed(p)) PROVE <1>2!:
    <3>1. p \in Seq(CoreTools)
      <4>1. PICK t \in CoreTools : p = <<t>>
        BY <2>1 DEF Core!Pending
      <4> QED
        BY <4>1
    <3> QED
      BY <2>1, <3>1, CoreRuns
  <2>2. ASSUME Core!Run(Core!Allowed(calls.seq)) PROVE <1>2!:
    <3>1. calls.seq \in Seq(CoreTools)
      BY CoreFields DEF CoreInv
    <3> QED
      BY <2>2, <3>1, CoreRuns
  <2>3. ASSUME UNCHANGED <<coreBatch, used, anyFailed>> PROVE <1>2!:
    <3>1. used' \in Nat /\ used' <= MaxToolCalls
      BY <2>3, CoreFields DEF CoreInv, Core!LimitsHold
    <3> QED
      BY <2>3, <3>1, CoreFields DEF CoreInv
  <2> QED
    BY <2>1, <2>2, <2>3 DEF Core!ExecuteToolCalls
<1>3. Core!TypeOK'
  BY <1>1, <1>2, CoreFields, CoreFieldsNext DEF CoreInv
<1>4. Core!LimitsHold'
  BY <1>1, <1>2 DEF CoreInv, Core!LimitsHold
<1>5. CoreRounds' /\ Core!HopelessTaskFails'
  BY <1>1 DEF CoreInv, CoreRounds, Core!HopelessTaskFails
<1> QED
  BY <1>3, <1>4, <1>5 DEF CoreInv

\* Failures in a row and turns without progress are counted against their limits.
LEMMA CoreObserves ==
  ASSUME CoreInv, Core!Observe
  PROVE  CoreInv'
<1>1. /\ corePc = "observe" /\ UNCHANGED <<used, anyFailed, calls, coreBatch, coreCancelled, coreLate, tasks>>
  BY DEF Core!Observe
<1>2. /\ iterations < MaxIterations /\ coreFailures < MaxConsecutiveFailures /\ stuck < MaxNoProgress
      /\ iterations \in Nat /\ coreFailures \in Nat /\ stuck \in Nat
  BY <1>1, CoreFields DEF CoreInv, CoreRounds
<1>3. CASE Core!Complete /\ UNCHANGED <<coreFailures, stuck, coreLast, iterations>>
  <2>1. corePc' = "verify" /\ coreResult' \in Results /\ coreResult'.reason = "none" /\ coreState' = coreState
    BY <1>3, CoreLeaves DEF CoreInv, Core!Complete
  <2>2. CoreRounds' /\ Core!HopelessTaskFails'
    BY <2>1 DEF CoreRounds, Core!HopelessTaskFails
  <2>3. Core!TypeOK'
    BY <1>1, <1>3, <2>1, CoreFields, CoreFieldsNext DEF CoreInv
  <2>4. Core!LimitsHold'
    BY <1>1, <1>3 DEF CoreInv, Core!LimitsHold
  <2> QED
    BY <2>2, <2>3, <2>4 DEF CoreInv
<1>4. CASE /\ Core!CountFailures /\ Core!CountProgress
           /\ IF stuck' >= MaxNoProgress
              THEN Core!Leave("FAILED", "no_progress") /\ coreState' = "FAILED" /\ UNCHANGED iterations
              ELSE corePc' = "loop" /\ iterations' = iterations + 1 /\ UNCHANGED <<coreState, coreResult>>
  <2>1. coreFailures' \in {0, coreFailures + 1} /\ stuck' \in {0, stuck + 1}
    BY <1>4 DEF Core!CountFailures, Core!CountProgress
  <2>2. /\ coreFailures' \in Nat /\ coreFailures' <= MaxConsecutiveFailures
        /\ stuck' \in Nat /\ stuck' <= MaxNoProgress
    BY <1>2, <2>1, CoreConstants
  <2>3. CASE Core!Leave("FAILED", "no_progress") /\ coreState' = "FAILED" /\ UNCHANGED iterations
    <3>1. /\ corePc' = "verify" /\ coreResult' \in Results
          /\ coreResult'.reason = "no_progress" /\ coreResult'.status = "FAILED"
      BY <2>3, CoreLeaves DEF CoreInv
    <3>2. CoreRounds' /\ Core!HopelessTaskFails'
      BY <3>1 DEF CoreRounds, Core!HopelessTaskFails
    <3>3. Core!TypeOK'
      BY <1>1, <2>2, <2>3, <3>1, CoreFields, CoreFieldsNext DEF CoreInv
    <3>4. Core!LimitsHold'
      BY <1>1, <2>2, <2>3 DEF CoreInv, Core!LimitsHold
    <3> QED
      BY <3>2, <3>3, <3>4 DEF CoreInv
  <2>4. CASE /\ ~(stuck' >= MaxNoProgress) /\ corePc' = "loop" /\ iterations' = iterations + 1
             /\ UNCHANGED <<coreState, coreResult>>
    <3>1. stuck' < MaxNoProgress /\ iterations' \in Nat /\ iterations' <= MaxIterations
      BY <2>2, <2>4, <1>2, CoreConstants
    <3>2. CoreRounds' /\ Core!HopelessTaskFails'
      BY <2>4, <3>1 DEF CoreInv, CoreRounds, Core!HopelessTaskFails
    <3>3. Core!TypeOK'
      BY <1>1, <2>2, <2>4, <3>1, CoreFields, CoreFieldsNext DEF CoreInv
    <3>4. Core!LimitsHold'
      BY <1>1, <2>2, <3>1 DEF CoreInv, Core!LimitsHold
    <3> QED
      BY <3>2, <3>3, <3>4 DEF CoreInv
  <2> QED
    BY <1>4, <2>3, <2>4
<1> QED
  BY <1>3, <1>4 DEF Core!Observe

\* A verification that passed does not make a success of a failure.
LEMMA CoreVerifies ==
  ASSUME CoreInv, Core!RunVerification
  PROVE  CoreInv'
<1>1. /\ corePc = "verify" /\ corePc' = "idle"
      /\ UNCHANGED <<iterations, used, coreFailures, stuck, anyFailed, calls, coreBatch, coreCancelled, coreLate, tasks>>
  BY DEF Core!RunVerification, Core!counters
<1>2. PICK passed \in {TRUE} \cup Core!Verdicts :
        /\ coreResult' = [coreResult EXCEPT !.success = Core!Success(passed)]
        /\ coreState' = IF Core!Success(passed) THEN "COMPLETED" ELSE "FAILED"
  BY DEF Core!RunVerification
<1>3. passed \in BOOLEAN
  BY <1>2 DEF Core!Verdicts
<1>4. Core!Success(passed) \in BOOLEAN /\ (coreResult.status = "FAILED" => ~Core!Success(passed))
  BY <1>3 DEF Core!Success
<1> DEFINE ok == Core!Success(passed)
<1> HIDE DEF ok
<1>5. /\ coreResult' \in Results /\ coreResult'.status = coreResult.status
      /\ coreResult'.reason = coreResult.reason /\ coreResult'.success = ok
  BY <1>2, <1>4, CoreFields DEF CoreInv, Results, ok
<1>6. coreState' = (IF ok THEN "COMPLETED" ELSE "FAILED") /\ ok \in BOOLEAN /\ (coreResult.status = "FAILED" => ~ok)
  BY <1>2, <1>4 DEF ok
<1>7. coreState' \in {"CREATED", "IMPLEMENTING", "BLOCKED", "FAILED", "COMPLETED"}
  BY <1>6
<1>8. CoreRounds' /\ Core!HopelessTaskFails'
  BY <1>1, <1>5, <1>6 DEF CoreInv, CoreRounds, Core!HopelessTaskFails
<1>9. calls' \in [bound : BOOLEAN, seq : Seq(CoreTools)] /\ coreCancelled' \in BOOLEAN /\ coreLate' \in BOOLEAN
  BY <1>1, CoreFields DEF CoreInv
<1> QED
  BY <1>1, <1>5, <1>7, <1>8, <1>9, CoreGoesOn

\* The user cancels, time passes, or nothing happens.
LEMMA CoreWaits ==
  ASSUME CoreInv, Core!Cancel \/ Core!TimePasses \/ UNCHANGED coreVars
  PROVE  CoreInv'
<1>1. UNCHANGED <<corePc, coreState, coreResult, iterations, used, coreFailures, stuck, anyFailed, calls, coreBatch, tasks>>
  BY DEF Core!Cancel, Core!TimePasses, coreVars, Core!control, Core!counters
<1>2. coreCancelled' \in BOOLEAN /\ coreLate' \in BOOLEAN
  BY CoreFields DEF CoreInv, Core!Cancel, Core!TimePasses, coreVars
<1>3. CoreRounds' /\ Core!HopelessTaskFails'
  BY <1>1 DEF CoreInv, CoreRounds, Core!HopelessTaskFails
<1>4. coreResult' \in Results /\ calls' \in [bound : BOOLEAN, seq : Seq(CoreTools)]
      /\ corePc' \in {"idle", "loop", "act", "observe", "verify", "raised"}
      /\ coreState' \in {"CREATED", "IMPLEMENTING", "BLOCKED", "FAILED", "COMPLETED"}
  BY <1>1, CoreFields DEF CoreInv
<1> QED
  BY <1>1, <1>2, <1>3, <1>4, CoreGoesOn

\* Every step of agentcore keeps its invariant.
LEMMA CoreSteps ==
  ASSUME CoreInv, Core!Next
  PROVE  CoreInv'
  BY CoreExecutes, CoreLimits, CoreResponds, CoreActs, CoreObserves, CoreVerifies, CoreWaits
  DEF Core!Next, Core!Step

-----------------------------------------------------------------------------
\* The recovery engine: its constants and its invariant, which needs no strengthening.
LEMMA EngineConstants ==
  /\ StrategyLimit \in [Engine!Paid -> Nat]
  /\ RecoveryAttempts \in Nat /\ MaxCycles \in Nat /\ MaxRecoveries \in Nat
  BY RequestsAssumption DEF Engine!RecoveryAssumption

EngineInv == Engine!TypeOK /\ Engine!BudgetNeverOverdrawn

States == [class : Engine!Classes, cycle : Nat, plans : Nat, left : Nat, tried : Nat, replans : Nat]
Outcomes == [status : {"none", "success", "failed", "exhausted", "escalated"}, worked : BOOLEAN]

\* The types of the recovery engine, in the form the steps below use.
LEMMA EngineFields ==
  Engine!TypeOK <=>
    /\ recoveryPc \in {"idle", "cycle", "option"} /\ attempts \in Nat /\ spent \in [Engine!Paid -> Nat] /\ late \in BOOLEAN
    /\ state \in States /\ result \in Outcomes /\ recoveries \in 0..MaxRecoveries
  BY DEF Engine!TypeOK, States, Outcomes

\* The same of the next state.
LEMMA EngineFieldsNext ==
  ASSUME recoveryPc' \in {"idle", "cycle", "option"}, attempts' \in Nat, spent' \in [Engine!Paid -> Nat], late' \in BOOLEAN,
         state' \in States, result' \in Outcomes, recoveries' \in 0..MaxRecoveries
  PROVE  Engine!TypeOK'
  BY DEF Engine!TypeOK, States, Outcomes

\* An engine that no failure was given satisfies the invariant.
LEMMA EngineInit == Engine!Init => EngineInv
<1> SUFFICES ASSUME Engine!Init PROVE EngineInv
  OBVIOUS
<1>1. state \in States
  BY DEF Engine!Init, States, Engine!Classes
<1>2. result \in Outcomes
  BY DEF Engine!Init, Outcomes
<1>3. spent \in [Engine!Paid -> Nat] /\ \A s \in Engine!Paid : spent[s] = 0
  BY DEF Engine!Init
<1>4. recoveries \in 0..MaxRecoveries
  BY EngineConstants DEF Engine!Init
<1>5. Engine!TypeOK
  BY <1>1, <1>2, <1>3, <1>4, EngineFields DEF Engine!Init
<1>6. Engine!BudgetNeverOverdrawn
  BY <1>3, EngineConstants DEF Engine!Init, Engine!BudgetNeverOverdrawn, Engine!Paid
<1> QED
  BY <1>5, <1>6 DEF EngineInv

\* The instance counts as this module does.
LEMMA EngineCounts ==
  ASSUME NEW S
  PROVE  Engine!Cardinality(S) = Cardinality(S)
  BY DEF Engine!Cardinality, Cardinality

\* The strategies that are open are finitely many.
LEMMA EngineOptions ==
  ASSUME NEW class \in Engine!Classes, NEW open
  PROVE  Engine!Cardinality(Engine!Strategies(class, open)) \in Nat
<1> DEFINE S == Engine!Strategies(class, open)
<1>1. DOMAIN Engine!Preference(class) \subseteq 1..3
  BY DEF Engine!Preference, Engine!Classes
<1>2. S \in SUBSET (1..3)
  BY <1>1 DEF Engine!Strategies
<1>b. 1 \in Int /\ 3 \in Int
  OBVIOUS
<1>a. IsFiniteSet(1..3)
  BY <1>b, FS_Interval, Zenon
<1> HIDE DEF S
<1>3. IsFiniteSet(S)
  BY <1>2, <1>a, FS_Subset
<1> QED
  BY <1>3, FS_CardinalityType, EngineCounts DEF S

\* Of the patterns found in a text some class has most, and the first of those is taken.
LEMMA EngineClass ==
  ASSUME NEW score \in [DOMAIN Engine!Order -> 0..1]
  PROVE  Engine!ClassOf(score) \in Engine!Classes
<1>1. DOMAIN Engine!Order = 1..7 /\ \A i \in 1..7 : Engine!Order[i] \in Engine!Classes
  BY DEF Engine!Order, Engine!Classes
<1> DEFINE Best(i) == \A j \in DOMAIN Engine!Order : score[i] > score[j] \/ (score[i] = score[j] /\ i <= j)
           Found == {i \in DOMAIN Engine!Order : score[i] = 1}
<1>2. CASE \A i \in DOMAIN Engine!Order : score[i] = 0
  BY <1>2 DEF Engine!ClassOf, Engine!Classes
<1>3. CASE ~ \A i \in DOMAIN Engine!Order : score[i] = 0
  <2>1. Found # {} /\ Found \in SUBSET Nat
    BY <1>1, <1>3
  <2>2. PICK n \in Found : \A m \in Found : n <= m
    BY <2>1, LeastNatural
  <2>3. Best(n)
    BY <2>2, <1>1
  <2>4. \E i \in DOMAIN Engine!Order : Best(i)
    BY <2>2, <2>3
  <2> DEFINE best == CHOOSE i \in DOMAIN Engine!Order : Best(i)
  <2>5. Engine!ClassOf(score) = Engine!Order[best]
    BY <1>3, Zenon DEF Engine!ClassOf
  <2>6. best \in DOMAIN Engine!Order
    <3> HIDE DEF Best
    <3> QED
      BY <2>4
  <2> HIDE DEF best
  <2> QED
    BY <2>5, <2>6, <1>1
<1> QED
  BY <1>2, <1>3

\* A failure is classified; the budget is what earlier failures left of it.
LEMMA EngineClassifies ==
  ASSUME EngineInv, Engine!Classify
  PROVE  EngineInv'
<1>1. recoveries < MaxRecoveries /\ recoveries' = recoveries + 1 /\ UNCHANGED <<late, attempts, spent>>
  BY DEF Engine!Classify
<1>2. PICK score \in [DOMAIN Engine!Order -> 0..1] :
        LET class == Engine!ClassOf(score)
            n == Engine!Cardinality(Engine!Strategies(class, Engine!Affordable)) IN
        /\ state' = [class |-> class, cycle |-> 0, plans |-> n, left |-> n, tried |-> 0, replans |-> 0]
        /\ IF Engine!Exhausted THEN recoveryPc' = "idle" /\ result' = [status |-> "exhausted", worked |-> FALSE]
           ELSE IF n = 0 THEN recoveryPc' = "idle" /\ result' = [status |-> "failed", worked |-> FALSE]
           ELSE recoveryPc' = "option" /\ result' = [status |-> "none", worked |-> FALSE]
  BY Zenon DEF Engine!Classify
<1> DEFINE class == Engine!ClassOf(score)
           n == Engine!Cardinality(Engine!Strategies(class, Engine!Affordable))
<1>3. class \in Engine!Classes
  BY EngineClass
<1>4. n \in Nat
  BY <1>3, EngineOptions
<1>5. state' = [class |-> class, cycle |-> 0, plans |-> n, left |-> n, tried |-> 0, replans |-> 0]
  BY <1>2
<1>6. recoveryPc' \in {"idle", "option"} /\ result' \in Outcomes
  <2>1. /\ recoveryPc' \in {"idle", "option"}
        /\ \E status \in {"exhausted", "failed", "none"} : result' = [status |-> status, worked |-> FALSE]
    BY <1>2
  <2> QED
    BY <2>1 DEF Outcomes
<1> HIDE DEF class, n
<1>7. state' \in States
  BY <1>3, <1>4, <1>5 DEF States
<1>8. recoveries' \in 0..MaxRecoveries
  BY <1>1, EngineFields, EngineConstants DEF EngineInv
<1>9. Engine!TypeOK'
  BY <1>1, <1>6, <1>7, <1>8, EngineFields, EngineFieldsNext DEF EngineInv
<1> QED
  BY <1>1, <1>9 DEF EngineInv, Engine!BudgetNeverOverdrawn

\* What is paid for is within the limit of its strategy and of all attempts.
LEMMA EnginePays ==
  ASSUME EngineInv, NEW s \in Engine!Paid, Engine!Can(s), Engine!Pay(s)
  PROVE  attempts' \in Nat /\ spent' \in [Engine!Paid -> Nat] /\ Engine!BudgetNeverOverdrawn'
<1>1. /\ attempts \in Nat /\ spent \in [Engine!Paid -> Nat] /\ StrategyLimit \in [Engine!Paid -> Nat]
      /\ RecoveryAttempts \in Nat
  BY EngineFields, EngineConstants DEF EngineInv
<1>2. spent[s] < StrategyLimit[s] /\ ~(attempts >= RecoveryAttempts)
  BY DEF Engine!Can, Engine!Exhausted
<1>3. attempts' = attempts + 1 /\ spent' = [spent EXCEPT ![s] = @ + 1]
  BY DEF Engine!Pay
<1>4. attempts' \in Nat /\ spent' \in [Engine!Paid -> Nat]
  BY <1>1, <1>3
<1>5. attempts' <= RecoveryAttempts
  BY <1>1, <1>2, <1>3
<1>6. ASSUME NEW p \in Engine!Paid PROVE spent'[p] <= StrategyLimit[p]
  BY <1>1, <1>2, <1>3 DEF EngineInv, Engine!BudgetNeverOverdrawn
<1>7. attempts' = spent'["retry"] + spent'["replan"] + spent'["backend_switch"] + spent'["repair"]
  BY <1>1, <1>3 DEF EngineInv, Engine!BudgetNeverOverdrawn, Engine!Paid
<1> QED
  BY <1>4, <1>5, <1>6, <1>7 DEF Engine!BudgetNeverOverdrawn

\* An action is recorded while options are left.
LEMMA EngineRecords ==
  ASSUME EngineInv, state.left > 0, NEW s, NEW ran \in BOOLEAN
  PROVE  Engine!Recorded(s, ran) \in States
<1> DEFINE left == state.left - 1
           tried == IF ran THEN state.tried + 1 ELSE state.tried
           replans == IF s = "replan" THEN state.replans + 1 ELSE state.replans
<1>1. state \in States /\ state.left \in Nat /\ state.tried \in Nat /\ state.replans \in Nat
  BY EngineFields DEF EngineInv, States
<1>2. left \in Nat /\ replans \in Nat
  BY <1>1
<1>3. tried \in Nat
  BY <1>1
<1>4. Engine!Recorded(s, ran) = [state EXCEPT !.left = left, !.tried = tried, !.replans = replans]
  BY DEF Engine!Recorded
<1> HIDE DEF left, tried, replans
<1> QED
  BY <1>1, <1>2, <1>3, <1>4 DEF States

\* A strategy is paid for before it runs, and not chosen again once its limit is reached.
LEMMA EngineActs ==
  ASSUME EngineInv, Engine!RefuseAction \/ Engine!RunAction
  PROVE  EngineInv'
<1>1. CASE Engine!RefuseAction
  <2>1. state' \in States
    BY <1>1, EngineRecords DEF Engine!RefuseAction
  <2>2. UNCHANGED <<recoveryPc, late, attempts, spent, result, recoveries>>
    BY <1>1 DEF Engine!RefuseAction
  <2>3. Engine!TypeOK'
    BY <2>1, <2>2, EngineFields, EngineFieldsNext DEF EngineInv
  <2> QED
    BY <2>2, <2>3 DEF EngineInv, Engine!BudgetNeverOverdrawn
<1>2. CASE Engine!RunAction
  <2>1. state' \in States
    BY <1>2, EngineRecords DEF Engine!RunAction
  <2>2. /\ recoveryPc' \in {"idle", "option"} /\ UNCHANGED <<late, recoveries>>
    BY <1>2 DEF Engine!RunAction
  <2>3. result' \in Outcomes
    BY <1>2 DEF Engine!RunAction, Outcomes
  <2>4. attempts' \in Nat /\ spent' \in [Engine!Paid -> Nat] /\ Engine!BudgetNeverOverdrawn'
    <3>1. CASE Engine!SelectStrategy \in Engine!Paid
      BY <1>2, <3>1, EnginePays DEF Engine!RunAction, Engine!MayPay
    <3>2. CASE Engine!SelectStrategy \notin Engine!Paid
      BY <1>2, <3>2, EngineFields DEF EngineInv, Engine!RunAction, Engine!Free, Engine!BudgetNeverOverdrawn
    <3> QED
      BY <3>1, <3>2
  <2>5. Engine!TypeOK'
    BY <2>1, <2>2, <2>3, <2>4, EngineFields, EngineFieldsNext DEF EngineInv
  <2> QED
    BY <2>4, <2>5 DEF EngineInv
<1> QED
  BY <1>1, <1>2

\* A cycle ends with a replan the budget covers or with none, and another begins.
LEMMA EngineCycles ==
  ASSUME EngineInv, Engine!CycleEnds \/ Engine!BeginCycle
  PROVE  EngineInv'
<1>1. state \in States /\ state.class \in Engine!Classes /\ state.cycle \in Nat /\ state.plans \in Nat
  BY EngineFields DEF EngineInv, States
<1>2. CASE Engine!CycleEnds
  <2>1. recoveryPc' = "cycle" /\ UNCHANGED <<late, result, recoveries>>
    BY <1>2 DEF Engine!CycleEnds
  <2> DEFINE n == Engine!Cardinality(Engine!Strategies(state.class, Engine!Affordable'))
  <2>2. n \in Nat
    BY <1>1, EngineOptions
  <2>3. state' = [state EXCEPT !.plans = n] \/ state' = state
    BY <1>2, Zenon DEF Engine!CycleEnds
  <2> HIDE DEF n
  <2>4. state' \in States
    BY <1>1, <2>2, <2>3 DEF States
  <2>5. attempts' \in Nat /\ spent' \in [Engine!Paid -> Nat] /\ Engine!BudgetNeverOverdrawn'
    <3>1. CASE Engine!Can("replan")
      BY <1>2, <3>1, EnginePays DEF Engine!CycleEnds, Engine!Paid
    <3>2. CASE ~Engine!Can("replan")
      BY <1>2, <3>2, EngineFields DEF EngineInv, Engine!CycleEnds, Engine!Free, Engine!BudgetNeverOverdrawn
    <3> QED
      BY <3>1, <3>2
  <2>6. Engine!TypeOK'
    BY <2>1, <2>4, <2>5, EngineFields, EngineFieldsNext DEF EngineInv
  <2> QED
    BY <2>5, <2>6 DEF EngineInv
<1>3. CASE Engine!BeginCycle
  <2> DEFINE c == Engine!NextCycle(state.cycle)
  <2>1. c \in Nat
    BY <1>1 DEF Engine!NextCycle
  <2>2. state' = [state EXCEPT !.cycle = c, !.left = state.plans]
    BY <1>3 DEF Engine!BeginCycle
  <2> HIDE DEF c
  <2>3. state' \in States
    BY <1>1, <2>1, <2>2 DEF States
  <2>4. recoveryPc' = "option" /\ UNCHANGED <<late, attempts, spent, result, recoveries>>
    BY <1>3 DEF Engine!BeginCycle
  <2>5. Engine!TypeOK'
    BY <2>3, <2>4, EngineFields, EngineFieldsNext DEF EngineInv
  <2> QED
    BY <2>4, <2>5 DEF EngineInv, Engine!BudgetNeverOverdrawn
<1> QED
  BY <1>2, <1>3

\* The recovery gives up, its time runs out, or nothing happens: no budget is used.
LEMMA EngineGivesUp ==
  ASSUME EngineInv, Engine!GiveUp \/ Engine!TimeRunsOut \/ UNCHANGED recoveryVars
  PROVE  EngineInv'
<1>1. UNCHANGED <<attempts, spent, state, recoveries>> /\ recoveryPc' \in {"idle", recoveryPc} /\ late' \in {late, TRUE}
  BY DEF Engine!GiveUp, Engine!TimeRunsOut, recoveryVars
<1>2. result' \in Outcomes
  BY EngineFields DEF EngineInv, Engine!GiveUp, Engine!TimeRunsOut, recoveryVars, Outcomes
<1>3. Engine!TypeOK'
  BY <1>1, <1>2, EngineFields, EngineFieldsNext DEF EngineInv
<1> QED
  BY <1>1, <1>3 DEF EngineInv, Engine!BudgetNeverOverdrawn

\* Every step of the recovery engine keeps its budget.
LEMMA EngineSteps ==
  ASSUME EngineInv, Engine!Next
  PROVE  EngineInv'
  BY EngineClassifies, EngineActs, EngineCycles, EngineGivesUp DEF Engine!Next, Engine!EngineStep
=============================================================================
