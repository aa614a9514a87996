------------------------------ MODULE TitleReport ------------------------------
(***************************************************************************)
(* One title investigation report kept in Postgres                         *)
(* (title-reports.service.ts, title-reports.ai.service.ts): its status,    *)
(* the defects that the advocate and the analyses find, the runs of the    *)
(* language model, and the opinion.  An analysis goes on after its request *)
(* has been answered.  All runs fall into one day.                         *)
(***************************************************************************)
EXTENDS Naturals, Sequences, FiniteSets

CONSTANTS
    Handlers,              \* requests, and analyses that go on behind them
    DEFECTS_RUNS_PER_24H,  \* analyses a user may ask for in a day (10)
    MaxAiRuns              \* bound: runs of the day

VARIABLES
    status, verdict, \* of the header
    has,        \* what else a transition asks for: the "parts", a "pdf"
    defects,    \* records [from: its run or 0, blocker, settled]
    aiRuns,     \* title_report_ai_runs, oldest first: [type, status]
    task,       \* what each handler does and keeps
    answered,   \* history: the model gave an opinion
    byHand,     \* history: the advocate entered a defect
    overlapped, failed  \* history: two analyses overlapped; a step failed

headerVars == <<status, verdict, has>>
pastVars   == <<answered, byHand, overlapped, failed>>
reportVars == <<headerVars, defects, aiRuns, task, pastVars>>

-----------------------------------------------------------------------------
\* Its run, whether the run has failed, the rows its delete saw, whether an
\* opinion follows, and the status it may set.
Idle == [pc |-> "idle", run |-> 0, spoilt |-> FALSE, seen |-> {}, opines |-> FALSE, to |-> "draft"]

Verdicts == {"clear", "not_clear"}

\* create
Init ==
    /\ status = "draft" /\ verdict = "pending" /\ has = {}
    /\ defects = {} /\ aiRuns = <<>>
    /\ task = [h \in Handlers |-> Idle]
    /\ answered = FALSE /\ byHand = FALSE /\ overlapped = FALSE /\ failed = FALSE

Goto(h, l) == task' = [task EXCEPT ![h].pc = l]
Return(h)  == task' = [task EXCEPT ![h] = Idle]

-----------------------------------------------------------------------------
(* The advocate *)

\* upsertProperty, addChainLink, addEncumbrance, addSearch; recordExport
Fill(p) ==
    /\ has' = has \cup {p}
    /\ UNCHANGED <<status, verdict, defects, aiRuns, task, pastVars>>

\* deleteChainLink, deleteEncumbrance
Clear ==
    /\ has' = has \ {"parts"}
    /\ UNCHANGED <<status, verdict, defects, aiRuns, task, pastVars>>

addManualDefect(b) ==
    /\ ~byHand /\ byHand' = TRUE
    /\ defects' = defects \cup {[from |-> 0, blocker |-> b, settled |-> FALSE]}
    /\ UNCHANGED <<headerVars, aiRuns, task, answered, overlapped, failed>>

\* Acknowledged, dismissed, or given another severity.
applyDefectAck(d) ==
    /\ \/ defects' = (defects \ {d}) \cup {[d EXCEPT !.settled = TRUE]}
       \/ defects' = (defects \ {d}) \cup {[d EXCEPT !.blocker = ~d.blocker]}
    /\ UNCHANGED <<headerVars, aiRuns, task, pastVars>>

\* The statement of update sets bank_name to "... then ... else ... end" without
\* a "case when": Postgres cannot parse it and refuses every update of a header.
Parses == FALSE
update(v) == verdict' = IF Parses THEN v ELSE verdict

\* The advocate writes the verdict, PATCH of the report.
Patch(v) == update(v) /\ UNCHANGED <<status, has, defects, aiRuns, task, pastVars>>

-----------------------------------------------------------------------------
(* The status *)

VALID_TRANSITIONS ==
    [draft     |-> {"in_review", "withdrawn"},
     in_review |-> {"draft", "finalised", "withdrawn"},
     finalised |-> {"in_review", "issued", "withdrawn"},
     issued    |-> {"withdrawn"},
     withdrawn |-> {}]

\* checkInReviewReadiness, checkFinaliseReadiness, checkIssueReadiness; update
\* writes the summary with the verdict.
Ready(s) ==
    /\ s = "in_review" => "parts" \in has /\ verdict # "pending"
    /\ s = "finalised" => verdict # "pending" /\ ~\E d \in defects : d.blocker /\ ~d.settled
    /\ s = "issued" => "pdf" \in has

BeginTransition(h, s) ==
    /\ task[h].pc = "idle"
    /\ s \in VALID_TRANSITIONS[status] /\ Ready(s)
    /\ task' = [task EXCEPT ![h].pc = "transition", ![h].to = s]
    /\ UNCHANGED <<headerVars, defects, aiRuns, pastVars>>

Transition(h) ==
    /\ task[h].pc = "transition"
    /\ status' = task[h].to
    /\ Return(h)
    /\ UNCHANGED <<verdict, has, defects, aiRuns, pastVars>>

-----------------------------------------------------------------------------
(* The analyses *)

Runs(t) == {i \in DOMAIN aiRuns : aiRuns[i].type = t}
startAiRun(t) == aiRuns' = Append(aiRuns, [type |-> t, status |-> "running"])
EndRun(i, s)  == aiRuns' = [aiRuns EXCEPT ![i].status = s]

Analysing == {h \in Handlers : task[h].pc \in {"analyse", "replace", "commit", "finish"}}

\* enqueueDefectsAnalysis counts the runs, and starts one after it has read the
\* report.
Enqueue(h) ==
    /\ task[h].pc = "idle"
    /\ Cardinality(Runs("defects")) < DEFECTS_RUNS_PER_24H
    /\ Goto(h, "start")
    /\ UNCHANGED <<headerVars, defects, aiRuns, pastVars>>

StartAnalysis(h) ==
    /\ task[h].pc = "start" /\ Len(aiRuns) < MaxAiRuns
    /\ startAiRun("defects")
    /\ task' = [task EXCEPT ![h].pc = "analyse", ![h].run = Len(aiRuns) + 1]
    /\ overlapped' = (overlapped \/ Analysing # {})
    /\ UNCHANGED <<headerVars, defects, answered, byHand, failed>>

\* The model answers, if only nonsense, and the template stands in for it; or
\* the call throws, the run fails, and the template is stored all the same.
Analyse(h) ==
    /\ task[h].pc = "analyse"
    /\ \/ Goto(h, "replace") /\ UNCHANGED aiRuns
       \/ /\ EndRun(task[h].run, "failed")
          /\ task' = [task EXCEPT ![h].pc = "replace", ![h].spoilt = TRUE]
    /\ UNCHANGED <<headerVars, defects, pastVars>>

Wiped_All == defects  \* mutant: without source = 'ai'
\* What the delete of replaceAiDefects takes away.
Wiped == {d \in defects : d.from # 0}

\* The delete sees the rows of before it; a transaction that commits meanwhile
\* adds rows it has not seen.
Replace(h) ==
    /\ task[h].pc = "replace"
    /\ task' = [task EXCEPT ![h].pc = "commit", ![h].seen = {d.from : d \in Wiped}]
    /\ UNCHANGED <<headerVars, defects, aiRuns, pastVars>>

\* The analysis is over; an opinion may follow.
Analysed(h) ==
    IF task[h].opines
    THEN task' = [task EXCEPT ![h] = [Idle EXCEPT !.pc = "opine", !.opines = TRUE]]
    ELSE Return(h)

\* Then it inserts what the analysis found (here one defect at most) and commits.
\* A run that has failed ends with it.
Commit(h) ==
    /\ task[h].pc = "commit"
    /\ \E found \in SUBSET {[from |-> task[h].run, blocker |-> b, settled |-> FALSE] : b \in BOOLEAN} :
          /\ Cardinality(found) <= 1
          /\ defects' = {d \in defects : d.from \notin task[h].seen} \cup found
    /\ IF task[h].spoilt THEN Analysed(h) ELSE Goto(h, "finish")
    /\ UNCHANGED <<headerVars, aiRuns, pastVars>>

FinishAnalysis(h) ==
    /\ task[h].pc = "finish"
    /\ EndRun(task[h].run, "done")
    /\ Analysed(h)
    /\ UNCHANGED <<headerVars, defects, pastVars>>

\* The database fails once: the run fails and the template is stored, unless the
\* template was what could not be stored.
StoreFails(h) ==
    /\ ~failed /\ task[h].pc \in {"commit", "finish"}
    /\ failed' = TRUE
    /\ EndRun(task[h].run, "failed")
    /\ IF task[h].spoilt
       THEN Return(h)
       ELSE task' = [task EXCEPT ![h].pc = "replace", ![h].spoilt = TRUE]
    /\ UNCHANGED <<headerVars, defects, answered, byHand, overlapped>>

\* The process dies: its run stays "running".
Crash(h) ==
    /\ ~failed /\ task[h].pc # "idle"
    /\ failed' = TRUE
    /\ Return(h)
    /\ UNCHANGED <<headerVars, defects, aiRuns, answered, byHand, overlapped>>

-----------------------------------------------------------------------------
(* The opinion *)

\* synthesiseOpinion works on the latest analysis that is done, and makes one
\* first, without counting, when there is none.
BeginOpinion(h) ==
    /\ task[h].pc = "idle"
    /\ LET l == IF \E i \in Runs("defects") : aiRuns[i].status = "done" THEN "opine" ELSE "start"
       IN task' = [task EXCEPT ![h].pc = l, ![h].opines = TRUE]
    /\ UNCHANGED <<headerVars, defects, aiRuns, pastVars>>

StartOpinion(h) ==
    /\ task[h].pc = "opine" /\ Len(aiRuns) < MaxAiRuns
    /\ startAiRun("opinion")
    /\ task' = [task EXCEPT ![h].pc = "mirror", ![h].run = Len(aiRuns) + 1]
    /\ UNCHANGED <<headerVars, defects, pastVars>>

\* The opinion is mirrored onto the header.  When the model cannot be asked, or the
\* update throws, the run fails and the answer is the template's opinion.
Mirror(h) ==
    /\ task[h].pc = "mirror"
    /\ \/ /\ \E v \in Verdicts : update(v)
          /\ EndRun(task[h].run, IF Parses THEN "done" ELSE "failed")
          /\ answered' = TRUE
       \/ EndRun(task[h].run, "failed") /\ UNCHANGED <<verdict, answered>>
    /\ Return(h)
    /\ UNCHANGED <<status, has, defects, byHand, overlapped, failed>>

-----------------------------------------------------------------------------
Advocate ==
    \/ \E p \in {"parts", "pdf"} : Fill(p)
    \/ Clear
    \/ \E v \in Verdicts : Patch(v)
    \/ \E b \in BOOLEAN : addManualDefect(b)
    \/ \E d \in defects : applyDefectAck(d)

Handler(h) ==
    \/ \E s \in DOMAIN VALID_TRANSITIONS : BeginTransition(h, s)
    \/ Transition(h)
    \/ Enqueue(h) \/ StartAnalysis(h) \/ Analyse(h)
    \/ Replace(h) \/ Commit(h) \/ FinishAnalysis(h)
    \/ StoreFails(h) \/ Crash(h)
    \/ BeginOpinion(h) \/ StartOpinion(h) \/ Mirror(h)

Next == Advocate \/ \E h \in Handlers : Handler(h)

Spec == Init /\ [][Next]_reportVars

-----------------------------------------------------------------------------
(* Properties *)

TypeOK ==
    /\ status \in DOMAIN VALID_TRANSITIONS
    /\ verdict \in Verdicts \cup {"pending"} /\ has \subseteq {"parts", "pdf"}
    /\ defects \subseteq [from : 0 .. MaxAiRuns, blocker : BOOLEAN, settled : BOOLEAN]
    /\ aiRuns \in Seq([type : {"defects", "opinion"}, status : {"running", "done", "failed"}])
    /\ task \in [Handlers -> [pc : {"idle", "transition", "start", "analyse", "replace", "commit",
                                    "finish", "opine", "mirror"},
                              run : 0 .. MaxAiRuns, spoilt : BOOLEAN, seen : SUBSET (0 .. MaxAiRuns),
                              opines : BOOLEAN, to : DOMAIN VALID_TRANSITIONS]]
    /\ {answered, byHand, overlapped, failed} \subseteq BOOLEAN

\* Analyses whose result is stored, or should have been.
Stored == Runs("defects") \ {task[h].run : h \in Analysing}

\* Whatever analyses and edits interleave (replaceAiDefects), what the advocate
\* entered stays on the report, and an AI defect that nobody settled is one of the
\* last analysis: "the AI-flagged rows are wiped and re-inserted so re-runs don't
\* accumulate duplicates"; unless two analyses overlapped or a step of one failed.
\* Nothing is said of AI defects that were acknowledged or dismissed.  The same
\* comment has "manual / acknowledged defects are preserved", but the delete tells
\* them from no other AI row: the next analysis takes the acknowledgement away.
DefectsAreOfLastRun ==
    /\ byHand => \E d \in defects : d.from = 0
    /\ overlapped \/ failed
         \/ \A d \in defects : d.from # 0 /\ ~d.settled => \A i \in Stored : i <= d.from

\* "Mirror the verdict + a short summary onto the header so the list view can
\* render the opinion without joining ai_runs" (synthesiseOpinion): an opinion that
\* the model has given is on the report.
OpinionIsMirrored == answered => verdict # "pending"

=============================================================================
