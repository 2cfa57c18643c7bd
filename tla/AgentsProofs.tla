---------------------------- MODULE AgentsProofs ----------------------------
(***************************************************************************)
(* The agents take turns, whatever the plan, the limits and the number of  *)
(* crashes: proved from one inductive invariant, which says what the last  *)
(* STATUS line must be while an agent is in the middle of a poll.          *)
(***************************************************************************)
EXTENDS Agents, TLAPS, SequenceTheorems

(* Type correctness. *)

LEMMA LineTyped ==
    ASSUME NEW s \in States, NEW t \in DOMAIN Tasks \cup {NoTask}, NEW r \in 0..MaxRounds
    PROVE  /\ Line(s, t, r) \in Lines
           /\ Line(s, t, r).state = s /\ Line(s, t, r).task = t /\ Line(s, t, r).round = r
  BY DEF Line, Lines

LEMMA AgentFields ==
    ASSUME NEW a \in Agent
    PROVE  /\ a.pc \in Pcs /\ a.st \in Lines /\ a.to \in Lines /\ a.failures \in 0..MaxFailures
           /\ a.st.state \in States /\ a.to.state \in States
           /\ a.st.task \in DOMAIN Tasks \cup {NoTask} /\ a.to.task \in DOMAIN Tasks \cup {NoTask}
           /\ a.st.round \in 0..MaxRounds /\ a.to.round \in 0..MaxRounds
  BY DEF Agent, Lines

LEMMA FreshTyped == /\ Fresh \in Agent /\ Dead \in Agent
                    /\ Fresh.pc = "idle" /\ Dead.pc = "dead"
<1>1. Line("NONE", NoTask, 0) \in Lines
  BY LineTyped, LimitAssumption DEF States
<1> QED
  BY <1>1, LimitAssumption DEF Fresh, Dead, Agent, Pcs

\* The changes of an agent keep its type; what they change is as it says.
LEMMA WaitingTyped ==
    ASSUME NEW a \in Agent
    PROVE  Waiting(a) \in Agent /\ Waiting(a).pc = "idle"
  BY DEF Waiting, Agent, Pcs

LEMMA StopTyped ==
    ASSUME NEW a \in Agent
    PROVE  Stop(a) \in Agent /\ Stop(a).pc = "stopped"
  BY DEF Stop, Agent, Pcs

LEMMA PcTyped ==
    ASSUME NEW a \in Agent, NEW pc \in Pcs
    PROVE  /\ [a EXCEPT !.pc = pc] \in Agent
           /\ [a EXCEPT !.pc = pc].pc = pc
           /\ [a EXCEPT !.pc = pc].st = a.st /\ [a EXCEPT !.pc = pc].to = a.to
  BY DEF Agent, Pcs

LEMMA LookedTyped ==
    ASSUME NEW a \in Agent, NEW st \in Lines
    PROVE  /\ [a EXCEPT !.pc = "looked", !.st = st] \in Agent
           /\ [a EXCEPT !.pc = "looked", !.st = st].pc = "looked"
           /\ [a EXCEPT !.pc = "looked", !.st = st].st = st
  BY DEF Agent, Pcs

LEMMA WritingTyped ==
    ASSUME NEW a \in Agent, NEW line \in Lines
    PROVE  /\ Writing(a, line) \in Agent
           /\ Writing(a, line).pc = "write" /\ Writing(a, line).to = line
  BY DEF Writing, Agent, Pcs

LEMMA ReportingTyped ==
    ASSUME NEW a \in Agent, NEW line \in Lines
    PROVE  /\ Reporting(a, line) \in Agent
           /\ Reporting(a, line).pc = "report" /\ Reporting(a, line).to = line
<1>1. PICK n \in 0..MaxFailures : n = 0
  BY LimitAssumption
<1>2. Reporting(a, line) = [a EXCEPT !.pc = "report", !.to = line, !.failures = n]
  BY <1>1 DEF Reporting
<1> QED
  BY <1>2 DEF Agent, Pcs

LEMMA FailureTyped ==
    ASSUME NEW a \in Agent
    PROVE  /\ AfterFailure(a) \in Agent
           /\ \/ AfterFailure(a).pc = "idle"
              \/ AfterFailure(a).pc = "report" /\ AfterFailure(a).to.state = "BLOCKED"
<1>1. a.failures \in 0..MaxFailures /\ a.to.task \in DOMAIN Tasks \cup {NoTask}
      /\ a.to.round \in 0..MaxRounds
  BY AgentFields
<1> DEFINE line == Line("BLOCKED", a.to.task, a.to.round)
<1>2. line \in Lines /\ line.state = "BLOCKED"
  BY SMTT(30), <1>1, LineTyped DEF States
<1> HIDE DEF line
<1>3. CASE a.failures + 1 >= MaxFailures
  <2>1. PICK n \in 0..MaxFailures : n = MaxFailures
    BY LimitAssumption
  <2>2. AfterFailure(a) = [a EXCEPT !.pc = "report", !.to = line, !.failures = n]
    BY <2>1, <1>3 DEF AfterFailure, line
  <2> QED
    BY <2>2, <1>2 DEF Agent, Pcs
<1>4. CASE ~(a.failures + 1 >= MaxFailures)
  <2>1. AfterFailure(a) = [Waiting(a) EXCEPT !.failures = @ + 1]
    BY <1>4 DEF AfterFailure
  <2>2. a.failures + 1 \in 0..MaxFailures
    BY <1>1, <1>4, LimitAssumption
  <2> QED
    BY <2>1, <2>2 DEF Waiting, Agent, Pcs
<1> QED
  BY <1>3, <1>4

LEMMA ReadTyped ==
    ASSUME TypeOK
    PROVE  /\ ReadStatus \in Lines
           /\ ReadStatus.state = status.state \/ ReadStatus.state = "BLOCKED"
  BY DEF TypeOK, ReadStatus, Lines, States

LEMMA WriteTyped ==
    ASSUME TypeOK, NEW line \in Lines, WriteStatus(line)
    PROVE  /\ status' \in Lines /\ status'.state # "BLOCKED" /\ blocked' \in BOOLEAN
           /\ line.state = "BLOCKED" => status' = status
           /\ line.state # "BLOCKED" => status' = line
  BY DEF TypeOK, WriteStatus

LEMMA PlanDomain ==
    ASSUME TypeOK
    PROVE  DOMAIN plan \subseteq DOMAIN Tasks /\ DOMAIN plan \subseteq Nat
<1>1. DOMAIN plan = 1..Len(plan) /\ Len(plan) \in Nat
  BY LenProperties DEF TypeOK
<1>2. DOMAIN Tasks = 1..Len(Tasks) /\ Len(Tasks) \in Nat
  BY LenProperties, PlanAssumption
<1> QED
  BY <1>1, <1>2 DEF TypeOK

\* Marking a task keeps the plan but for its mark.
LEMMA MarkedTyped ==
    ASSUME TypeOK
    PROVE  /\ Marked \in Seq([text : Texts, done : BOOLEAN]) /\ Len(Marked) = Len(plan)
           /\ DOMAIN Marked = DOMAIN plan
           /\ \A n \in DOMAIN plan :
                 /\ Marked[n].text = plan[n].text
                 /\ Marked[n].done = (plan[n].done \/ n = rev.to.task)
<1> DEFINE S == [text : Texts, done : BOOLEAN]
           k == rev.to.task
<1>1. plan \in Seq(S)
  BY DEF TypeOK
<1>2. \A n \in DOMAIN plan : plan[n] \in S
  BY ZenonT(60), <1>1, LenProperties
<1>3. CASE InPlan(k)
  <2>1. Marked = [plan EXCEPT ![k] = [plan[k] EXCEPT !.done = TRUE]]
    BY <1>3 DEF Marked
  <2>2. [plan[k] EXCEPT !.done = TRUE] \in S
    BY <1>2, <1>3 DEF InPlan
  <2>3. DOMAIN Marked = DOMAIN plan /\ \A n \in DOMAIN plan :
           Marked[n] = IF n = k THEN [plan[k] EXCEPT !.done = TRUE] ELSE plan[n]
    BY <2>1, <1>3 DEF InPlan
  <2>4. DOMAIN plan = 1..Len(plan) /\ Len(plan) \in Nat
    BY <1>1, LenProperties
  <2>5. Marked \in [1..Len(plan) -> S]
    <3>1. plan \in [1..Len(plan) -> S] /\ k \in 1..Len(plan)
      BY <1>1, <1>3, <2>4, LenProperties DEF InPlan
    <3> QED
      BY <3>1, <2>1, <2>2
  <2> HIDE DEF S
  <2>6. Marked \in Seq(S) /\ Len(Marked) = Len(plan)
    BY <2>5, <2>4, SeqDef
  <2> USE DEF S
  <2> QED
    BY <2>2, <2>3, <2>6, <1>2
<1>4. CASE ~InPlan(k)
  BY <1>4, <1>1, <1>2 DEF Marked, InPlan, TypeOK
<1> QED
  BY <1>3, <1>4

\* Removing a task leaves a plan.
LEMMA EditTyped ==
    ASSUME TypeOK, EditPlan
    PROVE  plan' \in Seq([text : Texts, done : BOOLEAN]) /\ Len(plan)' <= Len(Tasks)
<1> DEFINE S == [text : Texts, done : BOOLEAN]
<1>1. plan \in Seq(S) /\ Len(plan) \in Nat /\ DOMAIN plan = 1..Len(plan)
      /\ \A i \in 1..Len(plan) : plan[i] \in S
  BY LenProperties DEF TypeOK
<1>2. PICK n \in DOMAIN plan :
         plan' = SubSeq(plan, 1, n - 1) \o SubSeq(plan, n + 1, Len(plan))
  BY DEF EditPlan
<1> DEFINE s == SubSeq(plan, 1, n - 1)
           t == SubSeq(plan, n + 1, Len(plan))
<1>3. s \in Seq(S) /\ Len(s) = IF 1 <= n - 1 THEN n - 1 - 1 + 1 ELSE 0
  BY <1>1, <1>2, SubSeqProperties
<1>4. t \in Seq(S) /\ Len(t) = IF n + 1 <= Len(plan) THEN Len(plan) - (n + 1) + 1 ELSE 0
  BY <1>1, <1>2, SubSeqProperties
<1>5. s \o t \in Seq(S) /\ Len(s \o t) = Len(s) + Len(t)
  BY <1>3, <1>4, ConcatProperties
<1>6. Len(Tasks) \in Nat
  BY PlanAssumption, LenProperties
<1>7. Len(s) + Len(t) <= Len(plan)
  BY <1>1, <1>2, <1>3, <1>4
<1> QED
  BY <1>1, <1>2, <1>5, <1>6, <1>7 DEF TypeOK

-----------------------------------------------------------------------------
(* What a poll of the developer leads to.                                  *)

DevStates == {"NONE", "DEV_WORKING", "REVIEW_CHANGES", "REVIEW_APPROVED"}
RevStates == {"DEV_DONE", "REVIEW_WORKING"}

LEMMA DevNextTyped ==
    ASSUME TypeOK, dev' \in DevNext(dev.st)
    PROVE  /\ dev' \in Agent
           /\ \/ dev'.pc \in {"stopped", "idle"}
              \/ dev'.pc = "write" /\ dev'.to.state = "BLOCKED"
              \/ /\ dev'.pc = "write" /\ dev'.to.state \in {"DEV_WORKING", "ALL_DONE"}
                 /\ dev.st.state \in DevStates
<1> DEFINE st == dev.st
           S == DOMAIN Tasks \cup {NoTask}
<1>1. /\ dev \in Agent /\ st.task \in S /\ st.round \in 0..MaxRounds
      /\ st.state \in States /\ MaxRounds \in Nat \ {0}
  BY AgentFields, LimitAssumption DEF TypeOK
<1>2. /\ "DEV_WORKING" \in States /\ "ALL_DONE" \in States /\ "BLOCKED" \in States
  BY DEF States
<1> DEFINE Writes(line) == /\ dev' = Writing(dev, line) /\ line \in Lines
                           /\ \/ line.state = "BLOCKED"
                              \/ /\ line.state \in {"DEV_WORKING", "ALL_DONE"}
                                 /\ st.state \in DevStates
<1>w. ASSUME NEW line, Writes(line)
      PROVE  /\ dev' \in Agent
             /\ \/ dev'.pc = "write" /\ dev'.to.state = "BLOCKED"
                \/ /\ dev'.pc = "write" /\ dev'.to.state \in {"DEV_WORKING", "ALL_DONE"}
                   /\ dev.st.state \in DevStates
  BY <1>w, <1>1, WritingTyped
<1>b. Line("BLOCKED", st.task, st.round) \in Lines
      /\ Line("BLOCKED", st.task, st.round).state = "BLOCKED"
  BY <1>1, <1>2, LineTyped
<1>3. CASE Ended(st)
  <2>1. st.state \notin {"NONE", "REVIEW_APPROVED"} /\ st.state \notin OfTask
        /\ st.state # "REVIEW_CHANGES" /\ st.state # "DEV_WORKING"
    BY <1>3 DEF Ended, OfTask
  <2>2. DevNext(st) = {Stop(dev)}
    BY <1>3, <2>1, Zenon DEF DevNext
  <2> QED
    BY <2>2, <1>1, StopTyped
<1>4. CASE st.state \in {"NONE", "REVIEW_APPROVED"}
  <2>1. ~Ended(st) /\ st.state \notin OfTask /\ st.state # "REVIEW_CHANGES"
        /\ st.state # "DEV_WORKING"
    BY <1>4 DEF Ended, OfTask
  <2>2. DevNext(st) = {Writing(dev, line) : line \in
                IF Open = {} THEN {Line("ALL_DONE", NoTask, 0)}
                ELSE {Line("DEV_WORKING", n, 1) : n \in FirstOpen}}
    BY <1>4, <2>1, Zenon DEF DevNext
  <2>3. PICK line \in IF Open = {} THEN {Line("ALL_DONE", NoTask, 0)}
                      ELSE {Line("DEV_WORKING", n, 1) : n \in FirstOpen} :
           dev' = Writing(dev, line)
    BY <2>2
  <2>4. line \in Lines /\ line.state \in {"DEV_WORKING", "ALL_DONE"}
    <3>1. CASE Open = {}
      <4>1. line = Line("ALL_DONE", NoTask, 0)
        BY <3>1, <2>3
      <4>2. 0 \in 0..MaxRounds /\ NoTask \in S
        BY <1>1
      <4>3. Line("ALL_DONE", NoTask, 0) \in Lines /\ Line("ALL_DONE", NoTask, 0).state = "ALL_DONE"
        BY <4>2, <1>2, LineTyped
      <4> QED
        BY <4>1, <4>3
    <3>2. CASE Open # {}
      <4>1. PICK n \in FirstOpen : line = Line("DEV_WORKING", n, 1)
        BY <3>2, <2>3
      <4>2. n \in S /\ 1 \in 0..MaxRounds
        BY <4>1, <1>1, PlanDomain DEF FirstOpen, Open
      <4> QED
        BY <4>1, <4>2, <1>2, LineTyped
    <3> QED
      BY <3>1, <3>2
  <2> QED
    <3>1. st.state \in DevStates
      BY <1>4 DEF DevStates
    <3> QED
      BY <2>3, <2>4, <3>1, <1>w
<1>5. CASE st.state \in OfTask /\ ~InPlan(st.task)
  <2>1. ~Ended(st) /\ st.state \notin {"NONE", "REVIEW_APPROVED"}
    BY <1>5 DEF Ended, OfTask
  <2>2. DevNext(st) = {Writing(dev, Line("BLOCKED", st.task, st.round))}
    BY <1>5, <2>1, Zenon DEF DevNext
  <2> QED
    BY <2>2, <1>b, <1>w
<1>6. CASE st.state = "REVIEW_CHANGES" /\ InPlan(st.task)
  <2>1. ~Ended(st) /\ st.state \notin {"NONE", "REVIEW_APPROVED"} /\ st.state # "DEV_WORKING"
    BY <1>6 DEF Ended
  <2>2. DevNext(st) = {Writing(dev, IF TooManyRounds(st) THEN Line("BLOCKED", st.task, st.round)
                          ELSE Line("DEV_WORKING", st.task, st.round + 1))}
    BY <1>6, <2>1, Zenon DEF DevNext
  <2>3. CASE TooManyRounds(st)
    BY <2>2, <2>3, <1>b, <1>w
  <2>4. CASE ~TooManyRounds(st)
    <3>1. PICK k \in 0..MaxRounds : k = st.round + 1
      BY <2>4, <1>1 DEF TooManyRounds
    <3>a. \A t \in S, n \in 0..MaxRounds : /\ Line("DEV_WORKING", t, n) \in Lines
                                           /\ Line("DEV_WORKING", t, n).state = "DEV_WORKING"
      BY <1>2, LineTyped
    <3>2. PICK l \in Lines : l = Line("DEV_WORKING", st.task, k) /\ l.state = "DEV_WORKING"
      BY <3>a, <1>1
    <3>3. dev' = Writing(dev, l) /\ st.state \in DevStates
      BY <3>1, <3>2, <2>2, <2>4, <1>6 DEF DevStates
    <3>4. Writes(l)
      BY <3>2, <3>3
    <3> QED
      BY <3>4, <1>w
  <2> QED
    BY <2>3, <2>4
<1>7. CASE st.state = "DEV_WORKING" /\ InPlan(st.task)
  <2>1. ~Ended(st) /\ st.state \notin {"NONE", "REVIEW_APPROVED"} /\ st.state # "REVIEW_CHANGES"
    BY <1>7 DEF Ended
  <2>2. DevNext(st) = {Writing(dev, Line("DEV_WORKING", st.task, st.round))}
    BY <1>7, <2>1, Zenon DEF DevNext
  <2> QED
    <3>2. PICK l \in Lines : l = Line("DEV_WORKING", st.task, st.round) /\ l.state = "DEV_WORKING"
      BY <1>1, <1>2, LineTyped
    <3>3. dev' = Writing(dev, l) /\ st.state \in DevStates
      BY <3>2, <2>2, <1>7 DEF DevStates
    <3>4. Writes(l)
      BY <3>2, <3>3
    <3> QED
      BY <3>4, <1>w
<1>8. CASE st.state \in RevStates /\ InPlan(st.task)
  <2>1. ~Ended(st) /\ st.state \notin {"NONE", "REVIEW_APPROVED", "REVIEW_CHANGES", "DEV_WORKING"}
    BY <1>8 DEF Ended, RevStates
  <2>2. DevNext(st) = {Waiting(dev)}
    BY <1>8, <2>1, Zenon DEF DevNext
  <2> QED
    BY <2>2, <1>1, WaitingTyped
<1>9. \/ Ended(st) \/ st.state \in {"NONE", "REVIEW_APPROVED"} \/ st.state \in OfTask
  BY <1>1 DEF States, Ended, OfTask
<1> QED
  BY <1>3, <1>4, <1>5, <1>6, <1>7, <1>8, <1>9 DEF OfTask, RevStates

LEMMA RevNextTyped ==
    ASSUME TypeOK, RevDecides
    PROVE  /\ rev' \in Agent
           /\ \/ rev'.pc \in {"stopped", "idle"}
              \/ rev'.pc = "write" /\ rev'.to.state = "REVIEW_WORKING" /\ rev.st.state \in RevStates
<1>1. rev \in Agent /\ rev.st.task \in DOMAIN Tasks \cup {NoTask} /\ rev.st.round \in 0..MaxRounds
  BY AgentFields DEF TypeOK
<1>2. PICK l \in Lines : l = Line("REVIEW_WORKING", rev.st.task, rev.st.round)
                         /\ l.state = "REVIEW_WORKING"
  <2>1. "REVIEW_WORKING" \in States
    BY DEF States
  <2>2. /\ Line("REVIEW_WORKING", rev.st.task, rev.st.round) \in Lines
        /\ Line("REVIEW_WORKING", rev.st.task, rev.st.round).state = "REVIEW_WORKING"
    BY <1>1, <2>1, LineTyped
  <2> QED
    BY <2>2
<1>3. \/ rev' = Stop(rev) \/ rev' = Waiting(rev)
      \/ rev' = Writing(rev, l) /\ rev.st.state \in RevStates
  BY <1>2 DEF RevDecides, ReviewersTurn, RevStates
<1> QED
  BY <1>1, <1>2, <1>3, StopTyped, WaitingTyped, WritingTyped

\* The report of a run: a line that says so, with the task it was about.
LEMMA ReportTyped ==
    ASSUME NEW a \in Agent, NEW s \in States
    PROVE  /\ Reporting(a, Line(s, a.to.task, a.to.round)) \in Agent
           /\ Reporting(a, Line(s, a.to.task, a.to.round)).pc = "report"
           /\ Reporting(a, Line(s, a.to.task, a.to.round)).to.state = s
<1>1. a.to.task \in DOMAIN Tasks \cup {NoTask} /\ a.to.round \in 0..MaxRounds
  BY AgentFields
<1>2. Line(s, a.to.task, a.to.round) \in Lines /\ Line(s, a.to.task, a.to.round).state = s
  BY <1>1, LineTyped
<1> QED
  BY <1>2, ReportingTyped

LEMMA MarkFields ==
    ASSUME NEW a \in Agent
    PROVE  /\ [a EXCEPT !.pc = "mark", !.failures = 0] \in Agent
           /\ [a EXCEPT !.pc = "mark", !.failures = 0].pc = "mark"
           /\ [a EXCEPT !.pc = "mark", !.failures = 0].to = a.to
<1>1. PICK n \in 0..MaxFailures : n = 0
  BY LimitAssumption
<1>2. /\ [a EXCEPT !.pc = "mark", !.failures = n] \in Agent
      /\ [a EXCEPT !.pc = "mark", !.failures = n].pc = "mark"
      /\ [a EXCEPT !.pc = "mark", !.failures = n].to = a.to
  BY DEF Agent, Pcs
<1> QED
  BY <1>1, <1>2

-----------------------------------------------------------------------------
(* The inductive invariant.                                                *)

\* Who is in the middle of a poll, and what the last STATUS line is then.
DevTurns == /\ dev.pc = "looked" /\ dev.st.state \in DevStates => status.state \in DevStates
            /\ dev.pc = "write" => \/ dev.to.state = "BLOCKED"
                                   \/ /\ dev.to.state \in {"DEV_WORKING", "ALL_DONE"}
                                      /\ status.state \in DevStates
            /\ dev.pc = "run" => status.state = "DEV_WORKING"
            /\ dev.pc = "report" => /\ status.state = "DEV_WORKING"
                                    /\ dev.to.state \in {"DEV_DONE", "BLOCKED"}

RevTurns == /\ rev.pc = "looked" /\ rev.st.state \in RevStates => status.state \in RevStates
            /\ rev.pc = "write" => rev.to.state = "REVIEW_WORKING"
            /\ rev.pc = "report" =>
                  rev.to.state \in {"REVIEW_CHANGES", "REVIEW_APPROVED", "BLOCKED"}
            /\ rev.pc \in {"write", "run", "mark", "commit", "report"} =>
                  status.state \in RevStates

Trees == /\ rev.pc \in {"mark", "commit"} => tree # "draft"
         /\ rev.pc = "report" /\ rev.to.state = "REVIEW_APPROVED" => tree = "clean" \/ skipped
         /\ status.state \in {"NONE", "REVIEW_APPROVED"} => tree = "clean" \/ skipped
         /\ ~unseen

Marks == edits = 0 => /\ rev.pc = "mark" /\ InPlan(rev.to.task) =>
                            plan[rev.to.task].text \in approved
                      /\ \A n \in DOMAIN plan : plan[n].done => plan[n].text \in approved

IInv == TypeOK /\ DevTurns /\ RevTurns /\ Trees /\ Marks

LEMMA InitInv == Init => IInv
<1> SUFFICES ASSUME Init PROVE IInv
  OBVIOUS
<1>1. status \in Lines /\ status.state = "NONE" /\ status.state # "BLOCKED"
  <2>1. "NONE" \in States /\ 0 \in 0..MaxRounds
    BY LimitAssumption DEF States
  <2> QED
    BY <2>1, LineTyped DEF Init
<1>2. plan \in Seq([text : Texts, done : BOOLEAN]) /\ Len(plan) = Len(Tasks)
      /\ \A n \in DOMAIN plan : ~plan[n].done
  <2>1. Len(Tasks) \in Nat /\ DOMAIN Tasks = 1..Len(Tasks)
        /\ \A n \in 1..Len(Tasks) : Tasks[n] \in Texts
    BY PlanAssumption, LenProperties, ElementOfSeq
  <2> DEFINE S == [text : Texts, done : BOOLEAN]
  <2>2. plan = [n \in DOMAIN Tasks |-> [text |-> Tasks[n], done |-> FALSE]]
    BY DEF Init
  <2>3. plan \in [1..Len(Tasks) -> S] /\ \A n \in DOMAIN plan : ~plan[n].done
    BY <2>1, <2>2
  <2> HIDE DEF S
  <2>4. plan \in Seq(S) /\ Len(plan) = Len(Tasks)
    BY <2>1, <2>3, SeqDef
  <2> QED
    BY <2>3, <2>4 DEF S
<1>3. TypeOK
  <2>1. Len(Tasks) \in Nat
    BY PlanAssumption, LenProperties
  <2>2. dev \in Agent /\ rev \in Agent
    BY FreshTyped DEF Init
  <2>3. edits \in 0..MaxEdits
    BY BoundAssumption DEF Init
  <2>4. approved \subseteq Texts /\ unseen \in BOOLEAN /\ skipped \in BOOLEAN
        /\ blocked \in BOOLEAN /\ tree \in {"clean", "draft", "approved"}
    BY DEF Init
  <2> QED
    BY <1>1, <1>2, <2>1, <2>2, <2>3, <2>4 DEF TypeOK
<1>4. dev.pc = "idle" /\ rev.pc = "idle"
  BY FreshTyped DEF Init
<1>5. tree = "clean" /\ ~unseen
  BY DEF Init
<1> QED
  BY <1>1, <1>2, <1>3, <1>4, <1>5 DEF IInv, DevTurns, RevTurns, Trees, Marks

\* What a step leaves alone that the reviewer's part of the invariant is about.
LEMMA DevFrame ==
    ASSUME IInv, UNCHANGED <<status, blocked, plan, tree, rev, history, bounds>>,
           dev' \in Agent, DevTurns'
    PROVE  IInv'
<1>1. TypeOK'
  BY DEF IInv, TypeOK, history, bounds
<1>2. RevTurns'
  BY DEF IInv, RevTurns
<1>3. Trees'
  BY DEF IInv, Trees, history
<1>4. Marks'
  BY DEF IInv, Marks, InPlan, history, bounds
<1> QED
  BY <1>1, <1>2, <1>3, <1>4 DEF IInv

LEMMA RevFrame ==
    ASSUME IInv, UNCHANGED <<status, blocked, plan, tree, dev, history, bounds>>,
           rev' \in Agent, RevTurns',
           \/ rev'.pc \in {"idle", "looked", "write", "run", "stopped", "dead"}
           \/ rev'.pc = "report" /\ rev'.to.state = "BLOCKED"
    PROVE  IInv'
<1>1. TypeOK'
  BY DEF IInv, TypeOK, history, bounds
<1>2. DevTurns'
  BY DEF IInv, DevTurns
<1>3. Trees'
  BY DEF IInv, Trees, history
<1>4. Marks'
  BY DEF IInv, Marks, InPlan, history, bounds
<1> QED
  BY <1>1, <1>2, <1>3, <1>4 DEF IInv

\* Steps of the developer that write no file.
LEMMA DevLocalSteps ==
    ASSUME IInv, DevLooks \/ DevDecides \/ DevRestarts
    PROVE  IInv'
<1>t. TypeOK /\ dev \in Agent
  BY DEF IInv, TypeOK
<1>1. CASE DevLooks
  <2>1. dev' \in Agent /\ dev'.pc = "looked" /\ dev'.st = ReadStatus
    BY <1>1, <1>t, LookedTyped, ReadTyped DEF DevLooks
  <2>2. ReadStatus.state \in DevStates => status.state \in DevStates
    BY <1>t, ReadTyped DEF DevStates
  <2>3. DevTurns'
    BY <2>1, <2>2, <1>1 DEF DevTurns, DevLooks, files
  <2> QED
    BY <2>1, <2>3, <1>1, DevFrame DEF DevLooks, files
<1>2. CASE DevDecides
  <2>1. /\ dev' \in Agent
        /\ \/ dev'.pc \in {"stopped", "idle"}
           \/ dev'.pc = "write" /\ dev'.to.state = "BLOCKED"
           \/ /\ dev'.pc = "write" /\ dev'.to.state \in {"DEV_WORKING", "ALL_DONE"}
              /\ dev.st.state \in DevStates
    BY <1>2, <1>t, DevNextTyped DEF DevDecides
  <2>2. dev.st.state \in DevStates => status.state \in DevStates
    BY <1>2 DEF DevDecides, IInv, DevTurns
  <2>3. DevTurns'
    BY <2>1, <2>2, <1>2 DEF DevTurns, DevDecides, files
  <2> QED
    BY <2>1, <2>3, <1>2, DevFrame DEF DevDecides, files
<1>3. CASE DevRestarts
  <2>1. dev' \in Agent /\ dev'.pc = "idle"
    BY <1>3, FreshTyped DEF DevRestarts
  <2>2. DevTurns'
    BY <2>1 DEF DevTurns
  <2> QED
    BY <2>1, <2>2, <1>3, DevFrame DEF DevRestarts, files
<1> QED
  BY <1>1, <1>2, <1>3

\* The run of the developer: it changes the tree, while it is its turn.
LEMMA DevRunSteps ==
    ASSUME IInv, DevRuns \/ DevRunFails
    PROVE  IInv'
<1>t. TypeOK /\ dev \in Agent /\ dev.pc = "run" /\ status.state = "DEV_WORKING"
  BY DEF IInv, TypeOK, DevTurns, DevRuns, DevRunFails
<1>1. /\ dev' \in Agent
      /\ \/ dev'.pc = "idle"
         \/ dev'.pc = "report" /\ dev'.to.state \in {"DEV_DONE", "BLOCKED"}
  <2>1. CASE DevRuns
    <3>1. "DEV_DONE" \in States
      BY DEF States
    <3> QED
      BY <3>1, <2>1, <1>t, ReportTyped DEF DevRuns
  <2>2. CASE DevRunFails
    BY <2>2, <1>t, FailureTyped DEF DevRunFails
  <2> QED
    BY <2>1, <2>2
<1>2. /\ UNCHANGED <<status, blocked, plan, rev, history, bounds>>
      /\ tree' \in {tree, "draft"}
  BY DEF DevRuns, DevRunFails
<1>3. TypeOK'
  BY <1>1, <1>2 DEF IInv, TypeOK, history, bounds
<1>4. DevTurns'
  BY <1>1, <1>2, <1>t DEF DevTurns
<1>5. RevTurns'
  BY <1>2 DEF IInv, RevTurns
<1>6. Trees'
  BY <1>2, <1>t DEF IInv, Trees, RevTurns, RevStates, history
<1>7. Marks'
  BY <1>2 DEF IInv, Marks, InPlan, history, bounds
<1> QED
  BY <1>3, <1>4, <1>5, <1>6, <1>7 DEF IInv

\* The two lines the developer writes: as it starts a run, or stops, and as
\* its run is over.
LEMMA DevWriteSteps ==
    ASSUME IInv, DevWrites \/ DevReports
    PROVE  IInv'
<1>t. TypeOK /\ dev \in Agent /\ dev.to \in Lines
  BY AgentFields DEF IInv, TypeOK
<1>1. UNCHANGED <<plan, tree, rev, history, bounds>> /\ WriteStatus(dev.to)
  BY DEF DevWrites, DevReports
<1>2. /\ status' \in Lines /\ status'.state # "BLOCKED" /\ blocked' \in BOOLEAN
      /\ dev.to.state = "BLOCKED" => status' = status
      /\ dev.to.state # "BLOCKED" => status' = dev.to
  BY <1>1, <1>t, WriteTyped
<1>3. /\ dev' \in Agent
      /\ \/ dev'.pc \in {"idle", "stopped"}
         \/ dev'.pc = "run" /\ dev.to.state = "DEV_WORKING"
  <2>1. CASE DevWrites
    <3>1. "run" \in Pcs
      BY DEF Pcs
    <3> QED
      BY <3>1, <2>1, <1>t, PcTyped, StopTyped DEF DevWrites
  <2>2. CASE DevReports
    BY <2>2, <1>t, WaitingTyped DEF DevReports
  <2> QED
    BY <2>1, <2>2
\* A line that counts is written in the developer's turn.
<1>4. dev.to.state # "BLOCKED" => /\ status.state \in DevStates
                                  /\ dev.to.state \in {"DEV_WORKING", "ALL_DONE", "DEV_DONE"}
  BY DEF IInv, DevTurns, DevStates, DevWrites, DevReports
<1>5. TypeOK'
  BY <1>1, <1>2, <1>3 DEF IInv, TypeOK, history, bounds
<1>6. DevTurns'
  BY <1>2, <1>3 DEF DevTurns
<1>7. RevTurns'
  <2>1. CASE dev.to.state = "BLOCKED"
    BY <2>1, <1>1, <1>2 DEF IInv, RevTurns
  <2>2. CASE dev.to.state # "BLOCKED"
    <3>1. status.state \notin RevStates
      BY <2>2, <1>4 DEF DevStates, RevStates
    <3> QED
      BY <3>1, <1>1 DEF IInv, RevTurns
  <2> QED
    BY <2>1, <2>2
<1>8. Trees'
  <2>1. CASE dev.to.state = "BLOCKED"
    BY <2>1, <1>1, <1>2 DEF IInv, Trees, history
  <2>2. CASE dev.to.state # "BLOCKED"
    BY <2>2, <1>1, <1>2, <1>4 DEF IInv, Trees, history
  <2> QED
    BY <2>1, <2>2
<1>9. Marks'
  BY <1>1 DEF IInv, Marks, InPlan, history, bounds
<1> QED
  BY <1>5, <1>6, <1>7, <1>8, <1>9 DEF IInv

-----------------------------------------------------------------------------
\* Steps of the reviewer that write no file.
LEMMA RevLocalSteps ==
    ASSUME IInv, RevLooks \/ RevDecides \/ RevRunFails \/ RevRestarts
    PROVE  IInv'
<1>t. TypeOK /\ rev \in Agent
  BY DEF IInv, TypeOK
<1>1. CASE RevLooks
  <2>1. rev' \in Agent /\ rev'.pc = "looked" /\ rev'.st = ReadStatus
    BY <1>1, <1>t, LookedTyped, ReadTyped DEF RevLooks
  <2>2. ReadStatus.state \in RevStates => status.state \in RevStates
    BY <1>t, ReadTyped DEF RevStates
  <2>3. RevTurns'
    BY <2>1, <2>2, <1>1 DEF RevTurns, RevLooks, files
  <2> QED
    BY <2>1, <2>3, <1>1, RevFrame DEF RevLooks, files
<1>2. CASE RevDecides
  <2>1. /\ rev' \in Agent
        /\ \/ rev'.pc \in {"stopped", "idle"}
           \/ rev'.pc = "write" /\ rev'.to.state = "REVIEW_WORKING" /\ rev.st.state \in RevStates
    BY <1>2, <1>t, RevNextTyped
  <2>2. rev.st.state \in RevStates => status.state \in RevStates
    BY <1>2 DEF RevDecides, IInv, RevTurns
  <2>3. RevTurns'
    BY <2>1, <2>2, <1>2 DEF RevTurns, RevDecides, files
  <2> QED
    BY <2>1, <2>3, <1>2, RevFrame DEF RevDecides, files
<1>3. CASE RevRunFails
  <2>1. /\ rev' \in Agent
        /\ \/ rev'.pc = "idle"
           \/ rev'.pc = "report" /\ rev'.to.state = "BLOCKED"
    BY <1>3, <1>t, FailureTyped DEF RevRunFails
  <2>2. status.state \in RevStates
    BY <1>3 DEF RevRunFails, IInv, RevTurns
  <2>3. RevTurns'
    BY <2>1, <2>2, <1>3 DEF RevTurns, RevRunFails, files
  <2> QED
    BY <2>1, <2>3, <1>3, RevFrame DEF RevRunFails, files
<1>4. CASE RevRestarts
  <2>1. rev' \in Agent /\ rev'.pc = "idle"
    BY <1>4, FreshTyped DEF RevRestarts
  <2>2. RevTurns'
    BY <2>1 DEF RevTurns
  <2> QED
    BY <2>1, <2>2, <1>4, RevFrame DEF RevRestarts, files
<1> QED
  BY <1>1, <1>2, <1>3, <1>4

\* The lines the reviewer writes: its turn begins, or goes back.
LEMMA RevWriteSteps ==
    ASSUME IInv, RevWrites \/ RevReports
    PROVE  IInv'
<1>t. TypeOK /\ rev \in Agent /\ rev.to \in Lines
  BY AgentFields DEF IInv, TypeOK
<1>1. UNCHANGED <<plan, tree, dev, history, bounds>> /\ WriteStatus(rev.to)
  BY DEF RevWrites, RevReports
<1>2. /\ status' \in Lines /\ status'.state # "BLOCKED" /\ blocked' \in BOOLEAN
      /\ rev.to.state = "BLOCKED" => status' = status
      /\ rev.to.state # "BLOCKED" => status' = rev.to
  BY <1>1, <1>t, WriteTyped
<1>3. /\ rev' \in Agent
      /\ \/ rev'.pc = "idle"
         \/ rev'.pc = "run" /\ rev.to.state = "REVIEW_WORKING"
  <2>1. CASE RevWrites
    <3>1. "run" \in Pcs
      BY DEF Pcs
    <3>2. rev.to.state = "REVIEW_WORKING"
      BY <2>1 DEF RevWrites, IInv, RevTurns
    <3> QED
      BY <3>1, <3>2, <2>1, <1>t, PcTyped DEF RevWrites
  <2>2. CASE RevReports
    BY <2>2, <1>t, WaitingTyped DEF RevReports
  <2> QED
    BY <2>1, <2>2
<1>4. /\ status.state \in RevStates
      /\ rev.to.state \in {"REVIEW_WORKING", "REVIEW_CHANGES", "REVIEW_APPROVED", "BLOCKED"}
      /\ rev.to.state = "REVIEW_APPROVED" => tree = "clean" \/ skipped
  BY DEF IInv, RevTurns, Trees, RevWrites, RevReports
<1>5. TypeOK'
  BY <1>1, <1>2, <1>3 DEF IInv, TypeOK, history, bounds
<1>6. DevTurns'
  <2>1. status.state \notin DevStates
    BY <1>4 DEF DevStates, RevStates
  <2> QED
    BY <2>1, <1>1 DEF IInv, DevTurns, DevStates
<1>7. RevTurns'
  BY <1>2, <1>3 DEF RevTurns, RevStates
<1>8. Trees'
  <2>1. status'.state \in {"NONE", "REVIEW_APPROVED"} => tree = "clean" \/ skipped
    BY <1>2, <1>4 DEF RevStates
  <2> QED
    BY <2>1, <1>1, <1>3 DEF IInv, Trees, history
<1>9. Marks'
  BY <1>1, <1>3 DEF IInv, Marks, InPlan, history, bounds
<1> QED
  BY <1>5, <1>6, <1>7, <1>8, <1>9 DEF IInv

\* The verdict: only an approval leads to a mark and a commit, and it is the
\* reviewer's turn until then.
LEMMA RevRunSteps ==
    ASSUME IInv, RevRuns
    PROVE  IInv'
<1>t. TypeOK /\ rev \in Agent /\ rev.pc = "run" /\ status.state \in RevStates
  BY DEF IInv, TypeOK, RevTurns, RevRuns
<1>1. UNCHANGED <<status, blocked, plan, dev, unseen, skipped, bounds>>
  BY DEF RevRuns
<1>2. /\ rev' \in Agent
      /\ \/ /\ rev'.pc = "mark" /\ rev'.to = rev.to
            /\ tree' # "draft"
            /\ approved' = approved \cup {plan[n].text : n \in {rev.to.task} \cap DOMAIN plan}
         \/ rev'.pc = "report" /\ rev'.to.state = "REVIEW_CHANGES"
      /\ tree' \in {tree, "approved"}
      /\ approved \subseteq approved' /\ approved' \subseteq Texts
  <2>1. PICK verdict \in {"APPROVED", "CHANGES_REQUESTED", "none"} :
          /\ rev' = IF Approves(verdict)
                    THEN [rev EXCEPT !.pc = "mark", !.failures = 0]
                    ELSE Reporting(rev, Line("REVIEW_CHANGES", rev.to.task, rev.to.round))
          /\ IF verdict = "APPROVED"
             THEN /\ tree' = IF tree = "draft" THEN "approved" ELSE tree
                  /\ approved' = approved \cup {plan[n].text : n \in {rev.to.task} \cap DOMAIN plan}
             ELSE UNCHANGED <<tree, approved>>
    BY DEF RevRuns
  <2>2. CASE verdict = "APPROVED"
    <3>1. rev' = [rev EXCEPT !.pc = "mark", !.failures = 0]
      BY <2>1, <2>2 DEF Approves
    <3>2. rev' \in Agent /\ rev'.pc = "mark" /\ rev'.to = rev.to
      BY <3>1, <1>t, MarkFields
    <3>3. tree' = IF tree = "draft" THEN "approved" ELSE tree
      BY <2>1, <2>2
    <3>4. approved' = approved \cup {plan[n].text : n \in {rev.to.task} \cap DOMAIN plan}
      BY <2>1, <2>2
    <3>5. approved \subseteq Texts /\ \A n \in DOMAIN plan : plan[n].text \in Texts
      <4>1. \A n \in DOMAIN plan : plan[n] \in [text : Texts, done : BOOLEAN]
        BY <1>t, LenProperties, ElementOfSeq DEF TypeOK
      <4> QED
        BY <4>1, <1>t DEF TypeOK
    <3>6. approved \subseteq approved' /\ approved' \subseteq Texts
      BY <3>4, <3>5
    <3> QED
      BY <3>2, <3>3, <3>4, <3>6
  <2>3. CASE verdict # "APPROVED"
    <3>1. "REVIEW_CHANGES" \in States
      BY DEF States
    <3>2. rev' = Reporting(rev, Line("REVIEW_CHANGES", rev.to.task, rev.to.round))
      BY <2>1, <2>3 DEF Approves
    <3>3. rev' \in Agent /\ rev'.pc = "report" /\ rev'.to.state = "REVIEW_CHANGES"
      BY <3>1, <3>2, <1>t, ReportTyped
    <3> QED
      BY <2>1, <2>3, <3>3, <1>t DEF TypeOK
  <2> QED
    BY <2>2, <2>3
<1>3. TypeOK'
  BY <1>1, <1>2 DEF IInv, TypeOK, bounds
<1>4. DevTurns'
  BY <1>1 DEF IInv, DevTurns
<1>5. RevTurns'
  BY <1>1, <1>2, <1>t DEF RevTurns
<1>6. Trees'
  BY <1>1, <1>2, <1>t DEF IInv, Trees, RevStates
<1>7. Marks'
  <2>1. rev'.pc = "mark" /\ InPlan(rev.to.task) => plan[rev.to.task].text \in approved'
    BY <1>2 DEF InPlan
  <2> QED
    BY <2>1, <1>1, <1>2 DEF IInv, Marks, InPlan, bounds
<1> QED
  BY <1>3, <1>4, <1>5, <1>6, <1>7 DEF IInv

LEMMA RevMarkSteps ==
    ASSUME IInv, RevMarks
    PROVE  IInv'
<1>t. TypeOK /\ rev \in Agent /\ rev.pc = "mark" /\ status.state \in RevStates
      /\ tree # "draft"
  BY DEF IInv, TypeOK, RevTurns, Trees, RevMarks
<1>1. plan' = Marked /\ UNCHANGED <<status, blocked, tree, dev, history, bounds>>
  BY DEF RevMarks
<1>2. rev' \in Agent /\ rev'.pc = "commit" /\ rev'.to = rev.to
  <2>1. "commit" \in Pcs
    BY DEF Pcs
  <2> QED
    BY <2>1, <1>t, PcTyped DEF RevMarks
<1>3. TypeOK'
  BY <1>1, <1>2, <1>t, MarkedTyped DEF TypeOK, history, bounds
<1>4. DevTurns'
  BY <1>1 DEF IInv, DevTurns
<1>5. RevTurns'
  BY <1>1, <1>2, <1>t DEF RevTurns
<1>6. Trees'
  BY <1>1, <1>2, <1>t DEF IInv, Trees, history
<1>7. Marks'
  <2> SUFFICES ASSUME edits = 0, NEW n \in DOMAIN plan, Marked[n].done
               PROVE  Marked[n].text \in approved
    BY <1>1, <1>2, <1>t, MarkedTyped DEF Marks, history, bounds
  <2>1. Marked[n].text = plan[n].text /\ (plan[n].done \/ n = rev.to.task)
    BY <1>t, MarkedTyped
  <2>2. plan[n].done => plan[n].text \in approved
    BY DEF IInv, Marks
  <2>3. n = rev.to.task => plan[n].text \in approved
    BY <1>t DEF IInv, Marks, InPlan
  <2> QED
    BY <2>1, <2>2, <2>3
<1> QED
  BY <1>3, <1>4, <1>5, <1>6, <1>7 DEF IInv

LEMMA RevCommitSteps ==
    ASSUME IInv, RevCommits
    PROVE  IInv'
<1>t. TypeOK /\ rev \in Agent /\ status.state \in RevStates /\ tree # "draft"
  BY DEF IInv, TypeOK, RevTurns, Trees, RevCommits
<1>1. UNCHANGED <<status, blocked, plan, dev, approved, bounds>>
  BY DEF RevCommits
<1>2. rev' \in Agent /\ rev'.pc = "report" /\ rev'.to.state = "REVIEW_APPROVED"
  <2>1. "REVIEW_APPROVED" \in States
    BY DEF States
  <2> QED
    BY <2>1, <1>t, ReportTyped DEF RevCommits
\* The commit takes it all, or is skipped with something in the tree.
<1>3. /\ tree' \in {tree, "clean"} /\ skipped' \in BOOLEAN
      /\ unseen' \in BOOLEAN /\ ~unseen'
      /\ tree' = "clean" \/ skipped'
  <2>1. ~unseen /\ unseen \in BOOLEAN /\ skipped \in BOOLEAN
    BY <1>t DEF IInv, Trees, TypeOK
  <2>2. CASE /\ tree' = AfterCommit
             /\ unseen' = (unseen \/ tree = "draft")
             /\ UNCHANGED skipped
    <3>1. tree' = "clean" /\ skipped' \in BOOLEAN
      BY <2>1, <2>2 DEF AfterCommit
    <3>2. ~unseen' /\ unseen' \in BOOLEAN
      BY <2>1, <2>2, <1>t, Zenon
    <3> QED
      BY <3>1, <3>2
  <2>3. CASE /\ skipped' = (skipped \/ tree # "clean")
             /\ UNCHANGED <<tree, unseen>>
    <3>1. skipped' \in BOOLEAN /\ (tree = "clean" \/ skipped')
      BY <2>1, <2>3, Zenon
    <3> QED
      BY <2>1, <2>3, <3>1
  <2> QED
    BY <2>2, <2>3 DEF RevCommits
<1>4. TypeOK'
  BY <1>1, <1>2, <1>3 DEF IInv, TypeOK, bounds
<1>5. DevTurns'
  BY <1>1 DEF IInv, DevTurns
<1>6. RevTurns'
  BY <1>1, <1>2, <1>t DEF RevTurns
<1>7. Trees'
  BY <1>2, <1>3 DEF Trees
<1>8. Marks'
  BY <1>1, <1>2 DEF IInv, Marks, InPlan, bounds
<1> QED
  BY <1>4, <1>5, <1>6, <1>7, <1>8 DEF IInv

-----------------------------------------------------------------------------
\* A crash, at whatever point of a poll.
LEMMA CrashSteps ==
    ASSUME IInv, DevCrashes \/ RevCrashes
    PROVE  IInv'
<1>1. CASE DevCrashes
  <2>1. dev' \in Agent /\ dev'.pc = "dead"
    BY <1>1, FreshTyped DEF DevCrashes
  <2>2. /\ UNCHANGED <<status, blocked, plan, rev, history, edits>>
        /\ tree' \in {tree, "draft"}
        /\ tree' = tree \/ status.state = "DEV_WORKING"
    BY <1>1 DEF DevCrashes, IInv, DevTurns
  <2>3. TypeOK'
    BY <2>1, <2>2 DEF IInv, TypeOK, history
  <2>4. DevTurns'
    BY <2>1 DEF DevTurns
  <2>5. RevTurns'
    BY <2>2 DEF IInv, RevTurns
  <2>6. Trees'
    BY <2>2 DEF IInv, Trees, RevTurns, RevStates, history
  <2>7. Marks'
    BY <2>2 DEF IInv, Marks, InPlan, history
  <2> QED
    BY <2>3, <2>4, <2>5, <2>6, <2>7 DEF IInv
<1>2. CASE RevCrashes
  <2>1. rev' \in Agent /\ rev'.pc = "dead"
    BY <1>2, FreshTyped DEF RevCrashes
  <2>2. UNCHANGED <<status, blocked, plan, tree, dev, history, edits>>
    BY <1>2 DEF RevCrashes, files
  <2>3. TypeOK'
    BY <2>1, <2>2 DEF IInv, TypeOK, history
  <2>4. DevTurns' /\ RevTurns'
    BY <2>1, <2>2 DEF IInv, DevTurns, RevTurns
  <2>5. Trees'
    BY <2>1, <2>2 DEF IInv, Trees, history
  <2>6. Marks'
    BY <2>1, <2>2 DEF IInv, Marks, InPlan, history
  <2> QED
    BY <2>3, <2>4, <2>5, <2>6 DEF IInv
<1> QED
  BY <1>1, <1>2

LEMMA HumanSteps ==
    ASSUME IInv, Unblock \/ EditPlan
    PROVE  IInv'
<1>1. CASE Unblock
  <2>1. /\ dev' \in Agent /\ (dev' = dev \/ dev'.pc = "idle")
        /\ rev' \in Agent /\ (rev' = rev \/ rev'.pc = "idle")
    BY <1>1, FreshTyped DEF Unblock, IInv, TypeOK
  <2>2. UNCHANGED <<status, plan, tree, history, edits>> /\ blocked' = FALSE
    BY <1>1 DEF Unblock
  <2>3. TypeOK'
    BY <2>1, <2>2 DEF IInv, TypeOK, history
  <2>4. DevTurns' /\ RevTurns'
    BY <2>1, <2>2 DEF IInv, DevTurns, RevTurns
  <2>5. Trees'
    BY <2>1, <2>2 DEF IInv, Trees, history
  <2>6. Marks'
    BY <2>1, <2>2 DEF IInv, Marks, InPlan, history
  <2> QED
    BY <2>3, <2>4, <2>5, <2>6 DEF IInv
<1>2. CASE EditPlan
  <2>1. plan' \in Seq([text : Texts, done : BOOLEAN]) /\ Len(plan)' <= Len(Tasks)
    BY <1>2, EditTyped DEF IInv
  <2>2. UNCHANGED <<status, blocked, tree, dev, rev, history>>
    BY <1>2 DEF EditPlan
  <2>3. edits' \in 0..MaxEdits /\ edits' # 0
    BY <1>2, BoundAssumption DEF EditPlan, IInv, TypeOK
  <2>4. TypeOK'
    BY <2>1, <2>2, <2>3 DEF IInv, TypeOK, history
  <2>5. DevTurns' /\ RevTurns' /\ Trees'
    BY <2>2 DEF IInv, DevTurns, RevTurns, Trees, history
  <2>6. Marks'
    BY <2>3 DEF Marks
  <2> QED
    BY <2>4, <2>5, <2>6 DEF IInv
<1> QED
  BY <1>1, <1>2

LEMMA StepInv == IInv /\ [Next]_vars => IInv'
<1> SUFFICES ASSUME IInv, [Next]_vars PROVE IInv'
  OBVIOUS
<1>1. CASE DevStep
  BY <1>1, DevLocalSteps, DevRunSteps, DevWriteSteps DEF DevStep
<1>2. CASE RevStep
  BY <1>2, RevLocalSteps, RevWriteSteps, RevRunSteps, RevMarkSteps, RevCommitSteps DEF RevStep
<1>3. CASE DevCrashes \/ RevCrashes
  BY <1>3, CrashSteps
<1>4. CASE Unblock \/ EditPlan
  BY <1>4, HumanSteps
<1>5. CASE UNCHANGED vars
  BY <1>5 DEF vars, files, history, bounds, IInv, TypeOK, DevTurns, RevTurns, Trees, Marks, InPlan
<1> QED
  BY <1>1, <1>2, <1>3, <1>4, <1>5 DEF Next

LEMMA Inductive == Spec => []IInv
  BY InitInv, StepInv, PTL DEF Spec

-----------------------------------------------------------------------------
\* The files and the processes have the values their code gives them: no round
\* beyond MAX_ROUNDS, no task number outside the plan there was.
THEOREM TypeCorrect == Spec => []TypeOK
<1>1. IInv => TypeOK
  BY DEF IInv
<1> QED
  BY <1>1, Inductive, PTL

\* The developer and the reviewer never run at the same time.
THEOREM TakeTurns == Spec => []OneAtWork
<1>1. IInv => OneAtWork
  BY DEF IInv, DevTurns, RevTurns, OneAtWork, RevStates
<1> QED
  BY <1>1, Inductive, PTL

\* A commit has only changes the reviewer approved.
THEOREM CommitsReviewed == Spec => []CommittedIsReviewed
<1>1. IInv => CommittedIsReviewed
  BY DEF IInv, Trees, CommittedIsReviewed
<1> QED
  BY <1>1, Inductive, PTL

\* A task marked done was approved, as long as nobody edits the plan.
THEOREM MarksApproved == Spec => []MarkedIsApproved
<1>1. IInv => MarkedIsApproved
  BY DEF IInv, Marks, MarkedIsApproved
<1> QED
  BY <1>1, Inductive, PTL

\* A task begins in a clean working tree, unless a commit was skipped.
THEOREM StartsFresh == Spec => FreshStart
<1>1. IInv /\ [Next]_vars => [Begins => tree = "clean" \/ skipped]_vars
  BY DEF IInv, Trees, Begins
<1> QED
  BY <1>1, Inductive, PTL DEF Spec, FreshStart
=============================================================================
