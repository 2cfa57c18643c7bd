------------------------------- MODULE Agents -------------------------------
(***************************************************************************)
(* The developer and the reviewer agent (agents/): two processes that take *)
(* turns over the tasks of PLAN.md.  They share files only: the last       *)
(* STATUS line of WORKLOG.md says whose turn it is, PLAN.md which tasks    *)
(* are done, and the working tree holds the changes until the reviewer     *)
(* commits them.                                                           *)
(*                                                                         *)
(* An action is one file operation, or one run of Claude Code, of a poll.  *)
(* A definition no action uses (OneRoundMore, RevTellsFirst, ...) is a     *)
(* mistake the properties must notice.                                     *)
(***************************************************************************)
EXTENDS Naturals, Sequences

CONSTANTS
    Texts,        \* the tasks
    Tasks,        \* PLAN.md at the start, in order
    NoTask,       \* of a STATUS line without a task
    MaxRounds,    \* MAX_ROUNDS
    MaxFailures,  \* MAX_FAILURES
    AutoCommit,   \* AUTO_COMMIT
    MaxCrashes,   \* bound: agents that are stopped in the middle
    MaxUnblocks,  \* bound: times a human removes the BLOCKED line
    MaxEdits      \* bound: tasks a human removes from PLAN.md

ASSUME PlanAssumption == Tasks \in Seq(Texts) /\ NoTask \notin Nat
ASSUME LimitAssumption == MaxRounds \in Nat \ {0} /\ MaxFailures \in Nat \ {0}
ASSUME SwitchAssumption == AutoCommit \in BOOLEAN
ASSUME BoundAssumption == MaxCrashes \in Nat /\ MaxUnblocks \in Nat /\ MaxEdits \in Nat

VARIABLES
    status,     \* the last STATUS line that is not BLOCKED
    blocked,    \* a BLOCKED line stands after it
    plan,       \* PLAN.md: the tasks and whether they are marked
    tree,       \* the working tree: "clean", or changes a reviewer approved or not
    dev, rev,   \* the processes: pc, and their local variables
    unseen,     \* history: a commit took changes no reviewer approved
    approved,   \* history: the tasks a reviewer approved
    skipped,    \* history: a commit failed
    crashes, unblocks, edits

files == <<status, blocked, plan, tree>>
history == <<unseen, approved, skipped>>
bounds == <<crashes, unblocks, edits>>
vars == <<files, dev, rev, history, bounds>>

-----------------------------------------------------------------------------
(* The files.                                                              *)

Line(state, task, round) == [state |-> state, task |-> task, round |-> round]

\* readStatus and writeStatus: the last line counts.
ReadStatus == IF blocked THEN [status EXCEPT !.state = "BLOCKED"] ELSE status
WriteStatus(line) == /\ blocked' = (line.state = "BLOCKED")
                     /\ status' = IF line.state = "BLOCKED" THEN status ELSE line

InPlan(n) == n \in DOMAIN plan
Open == {n \in DOMAIN plan : ~plan[n].done}
FirstOpen == {n \in Open : \A m \in Open : n <= m}

-----------------------------------------------------------------------------
(* A poll of either agent.                                                 *)

\* An agent between two polls; failures counts the runs that failed in a row.
Waiting(a) == [a EXCEPT !.pc = "idle"]
Writing(a, line) == [a EXCEPT !.pc = "write", !.to = line]
Reporting(a, line) == [a EXCEPT !.pc = "report", !.to = line, !.failures = 0]
Stop(a) == [a EXCEPT !.pc = "stopped"]
Ended(st) == st.state \in {"ALL_DONE", "BLOCKED"}

RetryForEver(a) == Waiting(a)
\* A run failed: once too often, and the agent is about to write BLOCKED.
AfterFailure(a) ==
    IF a.failures + 1 >= MaxFailures
    THEN [a EXCEPT !.pc = "report", !.to = Line("BLOCKED", a.to.task, a.to.round),
                   !.failures = MaxFailures]
    ELSE [Waiting(a) EXCEPT !.failures = @ + 1]

DevLooks == /\ dev.pc = "idle"
            /\ dev' = [dev EXCEPT !.pc = "looked", !.st = ReadStatus]
            /\ UNCHANGED <<files, rev, history, bounds>>

OneRoundMore(st) == st.round > MaxRounds
TooManyRounds(st) == st.round >= MaxRounds

OfTask == {"DEV_WORKING", "DEV_DONE", "REVIEW_WORKING", "REVIEW_CHANGES"}

\* What the developer does about the status it read, and the plan as it is now.
DevNext(st) ==
    CASE Ended(st) -> {Stop(dev)}
      [] st.state \in {"NONE", "REVIEW_APPROVED"} ->
            {Writing(dev, line) : line \in
                IF Open = {} THEN {Line("ALL_DONE", NoTask, 0)}
                ELSE {Line("DEV_WORKING", n, 1) : n \in FirstOpen}}
      [] st.state \in OfTask /\ ~InPlan(st.task) ->
            {Writing(dev, Line("BLOCKED", st.task, st.round))}
      [] st.state = "REVIEW_CHANGES" /\ InPlan(st.task) ->
            {Writing(dev, IF TooManyRounds(st) THEN Line("BLOCKED", st.task, st.round)
                          ELSE Line("DEV_WORKING", st.task, st.round + 1))}
      [] st.state = "DEV_WORKING" /\ InPlan(st.task) ->
            {Writing(dev, Line("DEV_WORKING", st.task, st.round))}
      [] OTHER -> {Waiting(dev)}

DevDecides == /\ dev.pc = "looked"
              /\ dev' \in DevNext(dev.st)
              /\ UNCHANGED <<files, rev, history, bounds>>

DevWrites == /\ dev.pc = "write"
             /\ WriteStatus(dev.to)
             /\ dev' = IF dev.to.state = "DEV_WORKING" THEN [dev EXCEPT !.pc = "run"]
                       ELSE Stop(dev)
             /\ UNCHANGED <<plan, tree, rev, history, bounds>>

DevRuns == /\ dev.pc = "run"
           /\ tree' = "draft"
           /\ dev' = Reporting(dev, Line("DEV_DONE", dev.to.task, dev.to.round))
           /\ UNCHANGED <<status, blocked, plan, rev, history, bounds>>

\* It may have changed files before it failed.
DevRunFails == /\ dev.pc = "run"
               /\ tree' \in {tree, "draft"}
               /\ dev' = AfterFailure(dev)
               /\ UNCHANGED <<status, blocked, plan, rev, history, bounds>>

DevReports == /\ dev.pc = "report"
              /\ WriteStatus(dev.to)
              /\ dev' = Waiting(dev)
              /\ UNCHANGED <<plan, tree, rev, history, bounds>>

-----------------------------------------------------------------------------
RevLooks == /\ rev.pc = "idle"
            /\ rev' = [rev EXCEPT !.pc = "looked", !.st = ReadStatus]
            /\ UNCHANGED <<files, dev, history, bounds>>

AnyTurn(st) == st.state # "NONE"
ReviewersTurn(st) == st.state \in {"DEV_DONE", "REVIEW_WORKING"}

\* A task that is not in the plan any more is left to the developer.
RevDecides == /\ rev.pc = "looked"
              /\ rev' = IF Ended(rev.st) THEN Stop(rev)
                        ELSE IF ReviewersTurn(rev.st) /\ InPlan(rev.st.task)
                        THEN Writing(rev, Line("REVIEW_WORKING", rev.st.task, rev.st.round))
                        ELSE Waiting(rev)
              /\ UNCHANGED <<files, dev, history, bounds>>

RevWrites == /\ rev.pc = "write"
             /\ WriteStatus(rev.to)
             /\ rev' = [rev EXCEPT !.pc = "run"]
             /\ UNCHANGED <<plan, tree, dev, history, bounds>>

RevRunFails == /\ rev.pc = "run"
               /\ rev' = AfterFailure(rev)
               /\ UNCHANGED <<files, dev, history, bounds>>

NotRejected(verdict) == verdict # "CHANGES_REQUESTED"
Approves(verdict) == verdict = "APPROVED"

\* The reply: its last line is a verdict, or is missing.  approved has what
\* the reviewer said itself.
RevRuns ==
    /\ rev.pc = "run"
    /\ \E verdict \in {"APPROVED", "CHANGES_REQUESTED", "none"} :
          /\ rev' = IF Approves(verdict)
                    THEN [rev EXCEPT !.pc = "mark", !.failures = 0]
                    ELSE Reporting(rev, Line("REVIEW_CHANGES", rev.to.task, rev.to.round))
          /\ IF verdict = "APPROVED"
             THEN /\ tree' = IF tree = "draft" THEN "approved" ELSE tree
                  /\ approved' = approved \cup {plan[n].text : n \in {rev.to.task} \cap DOMAIN plan}
             ELSE UNCHANGED <<tree, approved>>
    /\ UNCHANGED <<status, blocked, plan, dev, unseen, skipped, bounds>>

\* markTaskDone finds the task by its number again.
Marked == IF InPlan(rev.to.task) THEN [plan EXCEPT ![rev.to.task].done = TRUE] ELSE plan

RevTellsFirst ==
    /\ rev.pc = "mark"
    /\ plan' = Marked
    /\ WriteStatus(Line("REVIEW_APPROVED", rev.to.task, rev.to.round))
    /\ rev' = [rev EXCEPT !.pc = "commit"]
    /\ UNCHANGED <<tree, dev, history, bounds>>

RevMarks == /\ rev.pc = "mark"
            /\ plan' = Marked
            /\ rev' = [rev EXCEPT !.pc = "commit"]
            /\ UNCHANGED <<status, blocked, tree, dev, history, bounds>>

NewFilesStay == IF tree = "clean" THEN tree ELSE "draft"
\* git add -A takes them all.
AfterCommit == "clean"

\* A commit that fails is skipped: it has nothing to take, or git refuses it.
RevCommits ==
    /\ rev.pc = "commit"
    /\ \/ /\ AutoCommit /\ tree # "clean"
          /\ tree' = AfterCommit
          /\ unseen' = (unseen \/ tree = "draft")
          /\ UNCHANGED skipped
       \/ /\ skipped' = (skipped \/ tree # "clean")
          /\ UNCHANGED <<tree, unseen>>
    /\ rev' = Reporting(rev, Line("REVIEW_APPROVED", rev.to.task, rev.to.round))
    /\ UNCHANGED <<status, blocked, plan, dev, approved, bounds>>

RevReports == /\ rev.pc = "report"
              /\ WriteStatus(rev.to)
              /\ rev' = Waiting(rev)
              /\ UNCHANGED <<plan, tree, dev, history, bounds>>

-----------------------------------------------------------------------------
(* Crashes, restarts and the human.                                        *)

Fresh == [pc |-> "idle", st |-> Line("NONE", NoTask, 0), to |-> Line("NONE", NoTask, 0),
          failures |-> 0]
Dead == [Fresh EXCEPT !.pc = "dead"]
Runs(a) == a.pc \notin {"stopped", "dead"}

\* Ctrl+C, or the machine goes down: the run of Claude Code ends with it.
DevCrashes == /\ Runs(dev) /\ crashes < MaxCrashes
              /\ dev' = Dead /\ crashes' = crashes + 1
              /\ tree' \in IF dev.pc = "run" THEN {tree, "draft"} ELSE {tree}
              /\ UNCHANGED <<status, blocked, plan, rev, history, unblocks, edits>>

RevCrashes == /\ Runs(rev) /\ crashes < MaxCrashes
              /\ rev' = Dead /\ crashes' = crashes + 1
              /\ UNCHANGED <<files, dev, history, unblocks, edits>>

DevRestarts == /\ dev.pc = "dead" /\ dev' = Fresh
               /\ UNCHANGED <<files, rev, history, bounds>>
RevRestarts == /\ rev.pc = "dead" /\ rev' = Fresh
               /\ UNCHANGED <<files, dev, history, bounds>>

Leaves(a) == ~Runs(a) \/ (a.pc = "looked" /\ Ended(a.st))

\* A human deletes the BLOCKED line and starts the agents that have stopped,
\* or are just about to.
Unblock == /\ blocked /\ unblocks < MaxUnblocks
           /\ blocked' = FALSE /\ unblocks' = unblocks + 1
           /\ dev' = (IF Leaves(dev) THEN Fresh ELSE dev)
           /\ rev' = (IF Leaves(rev) THEN Fresh ELSE rev)
           /\ UNCHANGED <<status, plan, tree, history, crashes, edits>>

\* A task is removed from PLAN.md: those after it get new numbers.
EditPlan == /\ edits < MaxEdits
            /\ \E n \in DOMAIN plan :
                  plan' = SubSeq(plan, 1, n - 1) \o SubSeq(plan, n + 1, Len(plan))
            /\ edits' = edits + 1
            /\ UNCHANGED <<status, blocked, tree, dev, rev, history, crashes, unblocks>>

-----------------------------------------------------------------------------
Init == /\ status = Line("NONE", NoTask, 0) /\ blocked = FALSE
        /\ plan = [n \in DOMAIN Tasks |-> [text |-> Tasks[n], done |-> FALSE]]
        /\ tree = "clean" /\ dev = Fresh /\ rev = Fresh
        /\ unseen = FALSE /\ approved = {} /\ skipped = FALSE
        /\ crashes = 0 /\ unblocks = 0 /\ edits = 0

DevStep == \/ DevLooks \/ DevDecides \/ DevWrites \/ DevRuns \/ DevRunFails
           \/ DevReports \/ DevRestarts
RevStep == \/ RevLooks \/ RevDecides \/ RevWrites \/ RevRuns \/ RevRunFails
           \/ RevMarks \/ RevCommits \/ RevReports \/ RevRestarts
Next == DevStep \/ RevStep \/ DevCrashes \/ RevCrashes \/ Unblock \/ EditPlan

Spec == Init /\ [][Next]_vars

\* Both are started again after a crash, go on polling, and a run of Claude
\* Code ends (RUN_TIMEOUT_MS).
FairSpec == Spec /\ WF_vars(DevStep) /\ WF_vars(RevStep)

-----------------------------------------------------------------------------
(* What must hold.                                                         *)

States == {"NONE", "DEV_WORKING", "DEV_DONE", "REVIEW_WORKING", "REVIEW_CHANGES",
           "REVIEW_APPROVED", "ALL_DONE", "BLOCKED"}
Lines == [state : States, task : DOMAIN Tasks \cup {NoTask}, round : 0..MaxRounds]
Pcs == {"idle", "looked", "write", "run", "mark", "commit", "report", "stopped", "dead"}
Agent == [pc : Pcs, st : Lines, to : Lines, failures : 0..MaxFailures]

TypeOK == /\ status \in Lines /\ status.state # "BLOCKED" /\ blocked \in BOOLEAN
          /\ plan \in Seq([text : Texts, done : BOOLEAN]) /\ Len(plan) <= Len(Tasks)
          /\ tree \in {"clean", "draft", "approved"}
          /\ dev \in Agent /\ rev \in Agent
          /\ unseen \in BOOLEAN /\ skipped \in BOOLEAN /\ approved \subseteq Texts
          /\ edits \in 0..MaxEdits

\* The developer and the reviewer never run Claude Code at the same time,
\* though nothing but the last line of WORKLOG.md keeps them apart, through
\* crashes, BLOCKED lines put and taken away, and edits of the plan.
OneAtWork == ~(dev.pc = "run" /\ rev.pc = "run")

\* Every commit has only changes that the reviewer approved (README.md of the
\* agents, step 4: the commit follows the review).
CommittedIsReviewed == ~unseen

\* While nobody edits the plan, a task is marked only after the reviewer has
\* approved it: a crash, a missing verdict and a run that failed do not count.
MarkedIsApproved ==
    edits = 0 => \A n \in DOMAIN plan : plan[n].done => plan[n].text \in approved

\* The developer begins a task in a clean working tree, unless a commit was
\* skipped: nothing of the task before is left behind, whatever crashed.
Begins == status'.state = "DEV_WORKING" /\ status.state \in {"NONE", "REVIEW_APPROVED"}
FreshStart == [][Begins => tree = "clean" \/ skipped]_vars

\* Without edits of the plan the agents come to an end, with everything done
\* or BLOCKED, and both see it: none keeps running, waits for one that has
\* stopped, or tries again for ever.
AgentsStop == <>[](edits > 0 \/ (dev.pc = "stopped" /\ rev.pc = "stopped"))
=============================================================================
