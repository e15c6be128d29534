----------------------------- MODULE Approvals -----------------------------
(***************************************************************************)
(* ApprovalManager (argus/security): a request is created, answered by the *)
(* function that asks the user or by a direct call, and its grant is       *)
(* checked until it is revoked.  The function runs in the middle of        *)
(* prompt_and_resolve, and whatever it or another caller does meanwhile    *)
(* may answer the same request.  Nothing is locked: resolve_approval takes *)
(* a request out, sets its status and stores it in three steps, between    *)
(* which everything may be cleared.                                        *)
(***************************************************************************)
EXTENDS Naturals, Sequences

CONSTANTS Asks,        \* the capability and command a request may be for
          MaxRequests  \* bound on the requests made

ApprovalsAssumption == MaxRequests \in Nat

VARIABLES requested,   \* the requests so far, in their order: what for, and the status of each
          stored,      \* _pending, _approvals and _denied
          prompted,    \* requests that wait for the approval function
          resolving,   \* requests taken out and not yet stored: how each is answered, and the next step
          answers,     \* the first answer of each, or that it was withdrawn (history)
          outlived     \* requests that were being resolved when everything was cleared (history)

approvalVars == <<requested, stored, prompted, resolving, answers, outlived>>

Empty == [pending |-> {}, approvals |-> {}, denied |-> {}]
Init == requested = <<>> /\ stored = Empty /\ prompted = {} /\ resolving = {} /\ answers = <<>> /\ outlived = {}

Status(granted) == IF granted THEN "granted" ELSE "denied"

RequestApproval ==
  /\ Len(requested) < MaxRequests
  /\ \E ask \in Asks : requested' = Append(requested, [ask |-> ask, status |-> "pending"])
  /\ stored' = [stored EXCEPT !.pending = @ \cup {Len(requested) + 1}]
  /\ answers' = Append(answers, "none")
  /\ UNCHANGED <<prompted, resolving, outlived>>

\* resolve_approval: only a request that is pending is answered; it is pending no more.
IsRequested(i) == i \in DOMAIN requested
IsPending(i) == i \in stored.pending
TakeOut(i, granted) ==
  /\ IF ~IsPending(i) THEN UNCHANGED <<stored, resolving, answers>>
     ELSE /\ stored' = [stored EXCEPT !.pending = @ \ {i}]
          /\ resolving' = resolving \cup {[request |-> i, granted |-> granted, step |-> "status"]}
          /\ answers' = [answers EXCEPT ![i] = IF @ = "none" THEN Status(granted) ELSE @]
  /\ UNCHANGED <<requested, outlived>>
ResolveApproval == (\E i \in DOMAIN requested, granted \in BOOLEAN : TakeOut(i, granted)) /\ UNCHANGED prompted

SetStatus(r) ==
  /\ r.step = "status"
  /\ requested' = [requested EXCEPT ![r.request].status = Status(r.granted)]
  /\ resolving' = (resolving \ {r}) \cup {[r EXCEPT !.step = "store"]}
  /\ UNCHANGED <<stored, prompted, answers, outlived>>
Store(r) ==
  /\ r.step = "store" /\ resolving' = resolving \ {r}
  /\ stored' = IF r.granted THEN [stored EXCEPT !.approvals = @ \cup {r.request}] ELSE [stored EXCEPT !.denied = @ \cup {r.request}]
  /\ UNCHANGED <<requested, prompted, answers, outlived>>

\* prompt_and_resolve: the function is asked, and then its answer counts; it takes the request
\* as it was given and does not look whether it is still pending.
Prompt == /\ \E i \in (DOMAIN requested) \ prompted : prompted' = prompted \cup {i}
          /\ UNCHANGED <<requested, stored, resolving, answers, outlived>>
PromptReturns == \E i \in prompted, granted \in BOOLEAN : TakeOut(i, granted) /\ prompted' = prompted \ {i}

RevokeApproval == /\ \E i \in stored.approvals : /\ stored' = [stored EXCEPT !.approvals = @ \ {i}]
                                                 /\ answers' = [answers EXCEPT ![i] = "withdrawn"]
                  /\ UNCHANGED <<requested, prompted, resolving, outlived>>
\* clear_all empties the three tables; what is being resolved is in none of them.
ClearAll == /\ stored' = Empty /\ answers' = [i \in DOMAIN answers |-> "withdrawn"]
            /\ outlived' = outlived \cup {r.request : r \in resolving}
            /\ UNCHANGED <<requested, prompted, resolving>>

\* check_approval: a grant for the capability whose command, if both have one, is found in the command.
Covers(granted, asked) ==
  /\ granted.capability = asked.capability
  /\ granted.command = "none" \/ asked.command = "none" \/ granted.command = asked.command
CheckApproval(ask) == {i \in stored.approvals : Covers(requested[i].ask, ask)}

Next == \/ RequestApproval \/ ResolveApproval \/ (\E r \in resolving : SetStatus(r) \/ Store(r))
        \/ Prompt \/ PromptReturns \/ RevokeApproval \/ ClearAll

----------------------------------------------------------------------------
TypeOK ==
  /\ requested \in Seq([ask : Asks, status : {"pending", "granted", "denied"}])
  /\ {stored.pending, stored.approvals, stored.denied, prompted, outlived} \subseteq SUBSET (1..MaxRequests)
  /\ resolving \subseteq [request : 1..MaxRequests, granted : BOOLEAN, step : {"status", "store"}]
  /\ answers \in Seq({"none", "granted", "denied", "withdrawn"})

\* Whatever answers race for a request, the first one stands: what passes a check was granted by
\* it, what was refused never passes, and no request is in two tables.  A grant that was revoked,
\* or cleared with everything, passes no more, save one that was just being resolved when
\* everything was cleared (approval.py:146-160).
Answered(i, answer) == answers[i] = answer \/ (answers[i] = "withdrawn" /\ i \in outlived)
Stands(i, answer) == requested[i].status = answer /\ Answered(i, answer)
FirstAnswerStands ==
  /\ \A ask \in Asks : \A i \in CheckApproval(ask) : Stands(i, "granted")
  /\ \A i \in stored.denied : Stands(i, "denied")
  /\ stored.pending \cap stored.approvals = {} /\ stored.denied \cap (stored.pending \cup stored.approvals) = {}
=============================================================================
