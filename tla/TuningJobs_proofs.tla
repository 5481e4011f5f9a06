------------------------- MODULE TuningJobs_proofs -------------------------
(***************************************************************************)
(* Proofs about TuningJobs, for any number of jobs and workers, all values *)
(* of the parameters and every outcome of the validation.                  *)
(***************************************************************************)
EXTENDS TuningJobs, TLAPS

\* The main processes are records throughout.
Fields == {"phase", "minimum", "pending", "results", "base", "chosen", "verdict"}

Shape == /\ DOMAIN proc = Jobs
         /\ \A j \in Jobs : DOMAIN proc[j] = Fields
         /\ DOMAIN thread = Jobs

\* A verdict is the last thing that a process decides on ...
Decided == {"exporting", "ok", "failed", "killed"}
VerdictLast == \A j \in Jobs : proc[j].verdict # Nothing => proc[j].phase \in Decided

\* ... and what it exports is not blocked by it.
ExportJudged ==
    \A j \in Jobs : proc[j].phase = "exporting" =>
        proc[j].verdict \in VerdictStatus \ BlockingVerdicts

\* A job whose thread has not begun has no process.
NotBegun == \A j \in Jobs : thread[j] \in {"none", "started"} => proc[j].phase = "none"

EarnedByAny == UNION {Earned(j) : j \in Jobs}

\* The file holds what was shipped or earned, as far as it holds anything.
BestEarned == best # Torn => best.params \in {Shipped} \cup EarnedByAny

ProcInv == Shape /\ VerdictLast /\ ExportJudged /\ NotBegun

ApprovedInv == ProcInv /\ BestEarned /\ OnlyApprovedTrade

-----------------------------------------------------------------------------
(* What a step does to the processes.                                      *)

\* The process of one job moves, with its verdict and its choice as they
\* were, and only on.
MovesOn(j) ==
    /\ \A i \in Jobs : DOMAIN proc'[i] = Fields
    /\ \A i \in Jobs \ {j} : proc'[i] = proc[i]
    /\ proc'[j].verdict = proc[j].verdict
    /\ proc'[j].chosen = proc[j].chosen

\* A process that is begun, or that chooses or judges, has earned nothing yet.
Decides(j) ==
    /\ \A i \in Jobs : DOMAIN proc'[i] = Fields
    /\ \A i \in Jobs \ {j} : proc'[i] = proc[i]
    /\ proc[j].phase \notin Decided

LEMMA EarnedKept ==
    ASSUME ProcInv, NEW j \in Jobs, MovesOn(j) \/ Decides(j)
    PROVE  EarnedByAny \subseteq EarnedByAny'
<1> USE DEF Earned
<1>1. ASSUME NEW i \in Jobs PROVE Earned(i) \subseteq Earned(i)'
    <2>1. CASE i # j
        <3>1. proc'[i] = proc[i]
            BY <2>1 DEF MovesOn, Decides
        <3> QED
            BY <3>1
    <2>2. CASE i = j /\ MovesOn(j)
        BY <2>2 DEF MovesOn
    <2>3. CASE i = j /\ Decides(j)
        <3>1. proc[j].verdict = Nothing
            BY <2>3 DEF Decides, ProcInv, VerdictLast
        <3>2. Nothing \notin VerdictStatus
            BY OptimizerAssumption
        <3> QED
            BY <2>3, <3>1, <3>2
    <2> QED
        BY <2>1, <2>2, <2>3
<1> QED
    BY <1>1 DEF EarnedByAny

\* A record of a process with some of its fields replaced.
LEMMA EndedShape ==
    ASSUME Shape, NEW j \in Jobs, NEW phase
    PROVE  /\ DOMAIN Ended(j, phase) = Fields
           /\ Ended(j, phase).phase = phase
           /\ Ended(j, phase).verdict = proc[j].verdict
           /\ Ended(j, phase).chosen = proc[j].chosen
           /\ Ended(j, phase).pending = proc[j].pending
BY DEF Shape, Ended, Fields

\* No thread is taken back before its begin.
Forward == /\ DOMAIN proc' = Jobs /\ DOMAIN thread' = Jobs
           /\ \A i \in Jobs : thread'[i] \in {"none", "started"} => thread[i] \in {"none", "started"}

LEMMA MovesOnKeeps ==
    ASSUME ProcInv, NEW j \in Jobs, MovesOn(j), Forward,
           \/ proc'[j].phase = proc[j].phase
           \/ proc[j].phase # "none" /\ proc'[j].phase \in {"ok", "failed", "killed"}
           \/ proc[j].phase = "resetting" /\ proc'[j].phase = "replaying"
    PROVE  ProcInv'
<1> USE DEF ProcInv
<1>1. Shape'
    BY DEF Shape, MovesOn, Forward
<1>2. \A i \in Jobs \ {j} : proc'[i] = proc[i]
    BY DEF MovesOn
<1>3. VerdictLast'
    <2>1. proc'[j].verdict # Nothing => proc'[j].phase \in Decided
        BY DEF VerdictLast, Decided, MovesOn
    <2> QED
        BY <1>2, <2>1 DEF VerdictLast
<1>4. ExportJudged'
    <2>1. proc'[j].phase = "exporting" => proc'[j].verdict \in VerdictStatus \ BlockingVerdicts
        BY DEF ExportJudged, MovesOn
    <2> QED
        BY <1>2, <2>1 DEF ExportJudged
<1>5. NotBegun'
    <2>1. thread'[j] \in {"none", "started"} => proc'[j].phase = "none"
        BY DEF NotBegun, Forward
    <2> QED
        BY <1>2, <2>1 DEF NotBegun, Forward
<1> QED
    BY <1>1, <1>3, <1>4, <1>5

LEMMA DecidesKeeps ==
    ASSUME ProcInv, NEW j \in Jobs, Decides(j), Forward,
           proc'[j].verdict # Nothing => proc'[j].phase \in Decided,
           proc'[j].phase = "exporting" => proc'[j].verdict \in VerdictStatus \ BlockingVerdicts,
           thread'[j] \notin {"none", "started"}
    PROVE  ProcInv'
<1> USE DEF ProcInv
<1>1. Shape'
    BY DEF Shape, Decides, Forward
<1>2. \A i \in Jobs \ {j} : proc'[i] = proc[i]
    BY DEF Decides
<1>3. VerdictLast'
    BY <1>2 DEF VerdictLast
<1>4. ExportJudged'
    BY <1>2 DEF ExportJudged
<1>5. NotBegun'
    BY <1>2 DEF NotBegun, Forward
<1> QED
    BY <1>1, <1>3, <1>4, <1>5

\* The file and the Runner may follow what has been earned.
Follows ==
    /\ best' = best \/ best' = Torn \/ best'.params \in EarnedByAny
    /\ runner' = runner \/ runner' = NotRunning \/ (best # Torn /\ runner' = best.params)

LEMMA ApprovedKept ==
    ASSUME ApprovedInv, ProcInv', EarnedByAny \subseteq EarnedByAny', Follows
    PROVE  ApprovedInv'
<1>1. BestEarned'
    BY DEF ApprovedInv, BestEarned, Follows
<1>2. OnlyApprovedTrade'
    BY DEF ApprovedInv, BestEarned, OnlyApprovedTrade, Follows, EarnedByAny
<1> QED
    BY <1>1, <1>2 DEF ApprovedInv

-----------------------------------------------------------------------------
(* The steps of the processes.                                             *)

Effect(j) == /\ ProcInv'
             /\ MovesOn(j) \/ Decides(j)

\* What the steps of a process leave alone.
ThreadsSame == UNCHANGED <<thread, runner>>

LEMMA SameForward == ASSUME Shape, DOMAIN proc' = Jobs, ThreadsSame PROVE Forward
BY DEF Shape, ThreadsSame, Forward

LEMMA TakeTaskEffect ==
    ASSUME ProcInv, NEW j \in Jobs, TakeTask(j), ThreadsSame
    PROVE  Effect(j) /\ Follows
<1>1. PICK c \in proc[j].pending : proc' = [proc EXCEPT ![j].pending = @ \ {c}]
    BY DEF TakeTask
<1>2. MovesOn(j) /\ proc'[j].phase = proc[j].phase /\ DOMAIN proc' = Jobs
    BY <1>1 DEF ProcInv, Shape, MovesOn, Fields
<1> QED
    BY <1>2, SameForward, MovesOnKeeps DEF Effect, ProcInv, Follows, ThreadsSame, TakeTask

LEMMA EvaluateEffect ==
    ASSUME ProcInv, NEW j \in Jobs, NEW task \in pool[j], Evaluate(j, task), ThreadsSame
    PROVE  Effect(j) /\ Follows
<1>1. proc' = proc \/ \E results : proc' = [proc EXCEPT ![j].results = results]
    BY DEF Evaluate, Collect
<1>2. MovesOn(j) /\ proc'[j].phase = proc[j].phase /\ DOMAIN proc' = Jobs
    <2>1. CASE proc' = proc
        BY <2>1 DEF ProcInv, Shape, MovesOn
    <2>2. ASSUME NEW results, proc' = [proc EXCEPT ![j].results = results]
          PROVE  MovesOn(j) /\ proc'[j].phase = proc[j].phase /\ DOMAIN proc' = Jobs
        BY <2>2 DEF ProcInv, Shape, MovesOn, Fields
    <2> QED
        BY <1>1, <2>1, <2>2
<1> QED
    BY <1>2, SameForward, MovesOnKeeps DEF Effect, ProcInv, Follows, ThreadsSame, Evaluate

\* A process that ends keeps its verdict.
LEMMA EndEffect ==
    ASSUME ProcInv, NEW j \in Jobs, NEW phase \in {"ok", "failed"}, proc[j].phase # "none",
           proc' = [proc EXCEPT ![j] = Ended(j, phase)], ThreadsSame
    PROVE  Effect(j)
<1>1. MovesOn(j) /\ proc'[j].phase = phase /\ DOMAIN proc' = Jobs
    BY EndedShape DEF ProcInv, Shape, MovesOn
<1> QED
    BY <1>1, SameForward, MovesOnKeeps DEF Effect, ProcInv

LEMMA RankEffect ==
    ASSUME ProcInv, NEW j \in Jobs, Rank(j), ThreadsSame
    PROVE  Effect(j) /\ Follows
<1>1. PICK r \in proc[j].results :
          proc' = [proc EXCEPT ![j].phase = "validating", ![j].chosen = r.combo]
    BY DEF Rank
<1>2. proc[j].phase = "evaluating" /\ proc[j].verdict = Nothing
    BY DEF Rank, Evaluated, ProcInv, VerdictLast, Decided
<1>3. /\ Decides(j) /\ DOMAIN proc' = Jobs
      /\ proc'[j].phase = "validating" /\ proc'[j].verdict = proc[j].verdict
    BY <1>1, <1>2 DEF ProcInv, Shape, Decides, Fields, Decided
<1>4. thread'[j] \notin {"none", "started"}
    BY <1>2 DEF ProcInv, NotBegun, ThreadsSame
<1> QED
    BY <1>2, <1>3, <1>4, SameForward, DecidesKeeps DEF Effect, ProcInv, Follows, ThreadsSame, Rank

LEMMA JudgeEffect ==
    ASSUME ProcInv, NEW j \in Jobs, Judge(j), ThreadsSame
    PROVE  Effect(j) /\ Follows
<1>1. PICK m \in Measures :
          IF Verdict(m) \in BlockingVerdicts
          THEN /\ proc' = [proc EXCEPT ![j] = [Ended(j, "ok") EXCEPT !.verdict = Verdict(m)]]
               /\ UNCHANGED best
          ELSE /\ proc' = [proc EXCEPT ![j].verdict = Verdict(m), ![j].phase = "exporting"]
               /\ best' = Torn
    BY DEF Judge
<1>2. proc[j].phase = "validating"
    BY DEF Judge
<1>3. thread'[j] \notin {"none", "started"}
    BY <1>2 DEF ProcInv, NotBegun, ThreadsSame
<1>4. CASE Verdict(m) \in BlockingVerdicts
    <2>1. Decides(j) /\ DOMAIN proc' = Jobs /\ proc'[j].phase = "ok"
        BY <1>1, <1>2, <1>4, EndedShape DEF ProcInv, Shape, Decides, Decided, Fields
    <2> QED
        BY <1>1, <1>3, <1>4, <2>1, SameForward, DecidesKeeps
        DEF Effect, ProcInv, Follows, ThreadsSame, Decided
<1>5. CASE Verdict(m) \notin BlockingVerdicts
    <2>1. /\ Decides(j) /\ DOMAIN proc' = Jobs
          /\ proc'[j].phase = "exporting" /\ proc'[j].verdict = Verdict(m)
        BY <1>1, <1>2, <1>5 DEF ProcInv, Shape, Decides, Decided, Fields
    <2>2. Verdict(m) \in VerdictStatus
        BY DEF Verdict, VerdictStatus
    <2> QED
        BY <1>1, <1>3, <1>5, <2>1, <2>2, SameForward, DecidesKeeps
        DEF Effect, ProcInv, Follows, ThreadsSame, Decided
<1> QED
    BY <1>4, <1>5

LEMMA ExportEffect ==
    ASSUME ProcInv, NEW j \in Jobs, Export(j), ThreadsSame
    PROVE  Effect(j) /\ Follows
<1>1. proc[j].phase = "exporting" /\ proc[j].verdict \in VerdictStatus \ BlockingVerdicts
    BY DEF Export, ProcInv, ExportJudged
<1>2. best'.params \in EarnedByAny
    BY <1>1 DEF Export, File, EarnedByAny, Earned
<1> QED
    BY <1>1, <1>2, EndEffect DEF Export, Follows, ThreadsSame

LEMMA BacktestEffect ==
    ASSUME ProcInv, NEW j \in Jobs, BacktestResets(j) \/ BacktestReports(j), ThreadsSame
    PROVE  Effect(j) /\ Follows
<1>1. PICK phase \in {"replaying", "ok"} :
          /\ proc' = [proc EXCEPT ![j].phase = phase]
          /\ phase = "replaying" => proc[j].phase = "resetting"
    BY DEF BacktestResets, BacktestReports
<1>2. proc[j].phase # "none" /\ UNCHANGED best
    BY DEF BacktestResets, BacktestReports
<1>3. MovesOn(j) /\ proc'[j].phase = phase /\ DOMAIN proc' = Jobs
    BY <1>1 DEF ProcInv, Shape, MovesOn, Fields
<1> QED
    BY <1>1, <1>2, <1>3, SameForward, MovesOnKeeps DEF Effect, ProcInv, Follows, ThreadsSame

\* A subprocess that raises ends like one that has found nothing.
LEMMA EndsEffect ==
    ASSUME ProcInv, NEW j \in Jobs, FindNothing(j) \/ Fail(j), ThreadsSame
    PROVE  Effect(j) /\ Follows
<1>1. PICK phase \in {"ok", "failed"} : proc' = [proc EXCEPT ![j] = Ended(j, phase)]
    BY DEF FindNothing, Fail
<1>2. proc[j].phase # "none" /\ UNCHANGED best
    BY DEF FindNothing, Fail, Evaluated, Alive, Active
<1> QED
    BY <1>1, <1>2, EndEffect DEF Follows, ThreadsSame

-----------------------------------------------------------------------------
(* The steps of the API, of its users and of the Runner.                   *)

\* Steps that touch no process.
LEMMA ProcSame ==
    ASSUME ProcInv, UNCHANGED proc, Forward
    PROVE  ProcInv' /\ EarnedByAny' = EarnedByAny
<1>1. ProcInv'
    BY DEF ProcInv, Shape, VerdictLast, ExportJudged, NotBegun, Forward
<1>2. EarnedByAny' = EarnedByAny
    BY DEF EarnedByAny, Earned
<1> QED
    BY <1>1, <1>2

LEMMA StartJobEffect ==
    ASSUME ProcInv, NEW kind, StartJob(kind)
    PROVE  UNCHANGED proc /\ Forward /\ Follows
<1>1. PICK j \in Jobs : thread[j] = "none" /\ thread' = [thread EXCEPT ![j] = "started"]
    BY DEF StartJob
<1>2. UNCHANGED <<proc, best, runner>>
    BY DEF StartJob, optimizerVars, userVars
<1>3. Forward
    BY <1>1, <1>2 DEF ProcInv, Shape, Forward
<1> QED
    BY <1>2, <1>3 DEF Follows

LEMMA ThreadBeginsEffect ==
    ASSUME ProcInv, NEW j \in Jobs, ThreadBegins(j)
    PROVE  Effect(j) /\ Follows
<1>1. proc[j].phase = "none" /\ UNCHANGED <<best, runner>>
    BY DEF ThreadBegins, userVars, ProcInv, NotBegun
<1>2. DOMAIN proc' = Jobs /\ Forward /\ thread'[j] = "waiting"
    BY DEF ThreadBegins, ProcInv, Shape, Forward
<1>3. PICK minimum \in Minimums :
          proc' = [proc EXCEPT ![j] = Begun(kinds[j], Loaded(env), minimum)]
    BY DEF ThreadBegins
<1> DEFINE P == Begun(kinds[j], Loaded(env), minimum)
<1>4. DOMAIN P = Fields /\ P.verdict = Nothing /\ P.phase \in {"evaluating", "resetting"}
    BY DEF Begun, NotStarted, Fields
<1>5. /\ Decides(j)
      /\ proc'[j].verdict = Nothing
      /\ proc'[j].phase \in {"evaluating", "resetting"}
    BY <1>1, <1>3, <1>4 DEF ProcInv, Shape, Decides, Decided
<1> QED
    BY <1>1, <1>2, <1>5, DecidesKeeps DEF Effect, Follows

LEMMA TimesOutEffect ==
    ASSUME ProcInv, NEW j \in Jobs, TimesOut(j)
    PROVE  Effect(j) /\ Follows
<1>1. proc[j].phase # "none" /\ UNCHANGED <<best, runner>>
    BY DEF TimesOut, userVars, Alive, Active
<1>2. PICK pending :
          proc' = [proc EXCEPT ![j] = [Ended(j, "killed") EXCEPT !.pending = pending]]
    BY DEF TimesOut, Kill
<1>3. MovesOn(j) /\ proc'[j].phase = "killed" /\ DOMAIN proc' = Jobs
    BY <1>2, EndedShape DEF ProcInv, Shape, MovesOn, Fields
<1>4. Forward
    BY <1>3 DEF TimesOut, Finish, ProcInv, Shape, Forward
<1> QED
    BY <1>1, <1>3, <1>4, MovesOnKeeps DEF Effect, Follows

LEMMA ThreadOnlyEffect ==
    ASSUME ProcInv, NEW j \in Jobs,
           ProcessReturns(j) \/ HistoryEmptied(j) \/ HistoryWritten(j)
    PROVE  UNCHANGED proc /\ Forward /\ Follows
<1>1. UNCHANGED <<proc, best, runner>>
    BY DEF ProcessReturns, HistoryEmptied, HistoryWritten, optimizerVars, userVars
<1>2. \E phase \in {"saving", "writing", "over"} : thread' = [thread EXCEPT ![j] = phase]
    BY DEF ProcessReturns, Finish, HistoryEmptied, HistoryWritten
<1>3. Forward
    BY <1>1, <1>2 DEF ProcInv, Shape, Forward
<1> QED
    BY <1>1, <1>3 DEF Follows

LEMMA ApiDiesEffect ==
    ASSUME ProcInv, ApiDies
    PROVE  UNCHANGED proc /\ Forward /\ Follows
<1>1. UNCHANGED <<proc, best, runner>>
    BY DEF ApiDies, optimizerVars, userVars
<1>2. thread' = [j \in Jobs |-> IF ThreadAlive(j) THEN "over" ELSE thread[j]]
    BY DEF ApiDies
<1>3. Forward
    BY <1>1, <1>2 DEF ProcInv, Shape, Forward
<1> QED
    BY <1>1, <1>3 DEF Follows

LEMMA UserEffect ==
    ASSUME ProcInv, UserNext
    PROVE  UNCHANGED proc /\ Forward /\ Follows
<1>1. UNCHANGED <<proc, best, thread>>
    BY DEF UserNext, ApplyBestConfig, SaveSettings, StartRunner, optimizerVars, jobVars
<1>2. runner' = runner \/ (best # Torn /\ runner' = best.params)
    BY DEF UserNext, ApplyBestConfig, SaveSettings, StartRunner
<1>3. Forward
    BY <1>1 DEF ProcInv, Shape, Forward
<1> QED
    BY <1>1, <1>2, <1>3 DEF Follows

-----------------------------------------------------------------------------
LEMMA ProcessStep ==
    ASSUME ProcInv, ProcessNext, ThreadsSame
    PROVE  \E j \in Jobs : Effect(j) /\ Follows
<1>1. CASE WorkerNext
    BY <1>1, TakeTaskEffect, EvaluateEffect DEF WorkerNext
<1>2. CASE ~WorkerNext
    <2>1. PICK j \in Jobs :
              \/ FindNothing(j) \/ Rank(j) \/ Judge(j) \/ Export(j)
              \/ BacktestResets(j) \/ BacktestReports(j) \/ Fail(j)
        BY <1>2 DEF ProcessNext
    <2> QED
        BY <2>1, EndsEffect, RankEffect, JudgeEffect, ExportEffect, BacktestEffect
<1> QED
    BY <1>1, <1>2

LEMMA ApprovedStep == ApprovedInv /\ [Next]_vars => ApprovedInv'
<1> SUFFICES ASSUME ApprovedInv, [Next]_vars PROVE ApprovedInv'
    OBVIOUS
<1> ProcInv
    BY DEF ApprovedInv
<1>1. ASSUME NEW j \in Jobs, Effect(j), Follows
      PROVE  ApprovedInv'
    BY <1>1, EarnedKept, ApprovedKept DEF Effect
<1>2. ASSUME UNCHANGED proc, Forward, Follows
      PROVE  ApprovedInv'
    BY <1>2, ProcSame, ApprovedKept
<1>3. CASE ProcessNext /\ UNCHANGED <<jobVars, userVars, excuses>>
    <2>1. ThreadsSame
        BY <1>3 DEF ThreadsSame, jobVars, userVars
    <2> QED
        BY <1>1, <1>3, <2>1, ProcessStep
<1>4. CASE \E kind \in Kinds : StartJob(kind)
    BY <1>2, <1>4, StartJobEffect
<1>5. ASSUME NEW j \in Jobs, ThreadStep(j)
      PROVE  ApprovedInv'
    <2>1. CASE ThreadBegins(j)
        BY <1>1, <2>1, ThreadBeginsEffect
    <2>2. CASE TimesOut(j)
        BY <1>1, <2>2, TimesOutEffect
    <2>3. CASE ProcessReturns(j) \/ HistoryEmptied(j) \/ HistoryWritten(j)
        BY <1>2, <2>3, ThreadOnlyEffect
    <2> QED
        BY <1>5, <2>1, <2>2, <2>3 DEF ThreadStep
<1>6. CASE ApiDies
    BY <1>2, <1>6, ApiDiesEffect
<1>7. CASE UserNext
    BY <1>2, <1>7, UserEffect
<1>8. CASE UNCHANGED vars
    <2>1. UNCHANGED proc /\ Forward /\ Follows
        BY <1>8 DEF vars, ProcInv, Shape, Forward, Follows
    <2> QED
        BY <1>2, <2>1
<1> QED
    BY <1>3, <1>4, <1>5, <1>6, <1>7, <1>8 DEF Next

\* The Runner trades with what was shipped, saved by a person, or found by a
\* run whose validation does not block it, whatever was killed when, for any
\* number of jobs and any outcome of the validation.
THEOREM OnlyApprovedEver == Spec => []OnlyApprovedTrade
<1>1. Init => ApprovedInv
    <2> SUFFICES ASSUME Init PROVE ApprovedInv
        OBVIOUS
    <2>1. ProcInv
        BY DEF Init, NotStarted, ProcInv, Shape, Fields, VerdictLast, ExportJudged, NotBegun
    <2>2. BestEarned /\ OnlyApprovedTrade
        BY DEF Init, File, BestEarned, OnlyApprovedTrade
    <2> QED
        BY <2>1, <2>2 DEF ApprovedInv
<1>2. ApprovedInv => OnlyApprovedTrade
    BY DEF ApprovedInv
<1> QED
    BY <1>1, <1>2, ApprovedStep, PTL DEF Spec
=============================================================================
