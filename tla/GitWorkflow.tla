----------------------------- MODULE GitWorkflow -----------------------------
(***************************************************************************)
(* The git_workflow tool (argus/tools/git.py, argus/git_workflow.py):      *)
(* review and approve show a diff and sort the changes into relevant and   *)
(* unrelated ones, commit adds the relevant ones and commits.  One         *)
(* workflow object serves a repository for the whole session; its files    *)
(* are edited and staged between the stages.                               *)
(***************************************************************************)
EXTENDS FiniteSets

CONSTANTS Files,
          Code,        \* those with the suffix of a programming language
          Alike        \* <<f, g>>: a part of g's stem longer than three letters occurs in f's

GitAssumption == Code \subseteq Files /\ Alike \subseteq Files \X Files

VARIABLES head,      \* file -> its content in the last commit
          index,     \* file -> its content in the index
          work,      \* file -> its content in the worktree
          diff,      \* _cached_diff: the files of the first diff taken, kept for ever
          approved,  \* _approved
          report     \* committed_files of the last answer

repository == <<head, index, work>>
vars == <<repository, diff, approved, report>>

Contents == {"absent", "old", "new"}
Trees == [Files -> Contents]
Changed(old, new) == {f \in Files : old[f] # new[f]}

\* An empty repository, or one with everything committed.
Init == /\ head \in {[f \in Files |-> c] : c \in {"absent", "old"}} /\ index = head /\ work = head
        /\ diff = [taken |-> FALSE, files |-> {}] /\ approved = FALSE /\ report = {}

\* The agent's other tools.  git add refuses a path it finds neither in the worktree nor in the
\* index; a file added as HEAD has it is no change any more.
Edit(f) == /\ \E c \in Contents : work' = [work EXCEPT ![f] = c]
           /\ report' = {} /\ UNCHANGED <<head, index, diff, approved>>
Addable(fs) == \A f \in fs : work[f] # "absent" \/ index[f] # "absent"
Added(fs) == [f \in Files |-> IF f \in fs THEN work[f] ELSE index[f]]
GitAdd(f) == Addable({f}) /\ index' = Added({f}) /\ report' = {} /\ UNCHANGED <<head, work, diff, approved>>

\* inspect: what git status lists, staged or not; and the changes that have to do with the
\* request: named in it, alike to a file a tool used, or code that a tool used.
AllChanges == Changed(head, index) \cup Changed(index, work)
Relevant(named, used) ==
  {f \in AllChanges : f \in named \/ (\E g \in used : <<f, g>> \in Alike) \/ f \in Code \cap used}

Diff == IF diff.taken THEN diff
        ELSE [taken |-> TRUE, files |-> {f \in Changed(index, work) : index[f] # "absent"}]
Show == diff' = Diff /\ report' = {} /\ UNCHANGED <<repository, approved>>     \* review; approve says the same
SetApproved == approved' \in BOOLEAN /\ report' = {} /\ UNCHANGED <<repository, diff>>

\* The tree of a git add followed by a commit of the index; git refuses an empty commit.
CommittedBefore(relevant) == index
Committed(relevant) == Added(relevant)
Refused == report' = {} /\ UNCHANGED <<repository, diff, approved>>
AddFails == Refused
CommitFails(relevant) == /\ Addable(relevant) /\ index' = Added(relevant)
                         /\ report' = {} /\ UNCHANGED <<head, work, diff, approved>>
CommitWorks(relevant) ==
  /\ Addable(relevant) /\ Committed(relevant) # head
  /\ head' = Committed(relevant) /\ index' = Committed(relevant) /\ report' = relevant
  /\ UNCHANGED <<work, diff, approved>>
Commit(named, used) ==
  LET relevant == Relevant(named, used) IN
  IF ~approved \/ relevant = {} THEN Refused
  ELSE AddFails \/ CommitFails(relevant) \/ CommitWorks(relevant)

Next == \/ \E f \in Files : Edit(f) \/ GitAdd(f)
        \/ Show \/ SetApproved
        \/ \E named, used \in SUBSET Files : Commit(named, used)
Spec == Init /\ [][Next]_vars

(***************************************************************************)
(* Properties                                                              *)
(***************************************************************************)
TypeOK == /\ {head, index, work} \subseteq Trees /\ approved \in BOOLEAN /\ report \subseteq Files
          /\ diff \in [taken : BOOLEAN, files : SUBSET Files]

\* When the tool reports files as committed, HEAD has each of them as the worktree has it,
\* whatever was edited, staged and reverted, or left staged by a commit that failed, before.
ReportedIsCommitted == \A f \in report : head[f] = work[f]
==============================================================================
