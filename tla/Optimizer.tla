----------------------------- MODULE Optimizer ------------------------------
(***************************************************************************)
(* The processes that a job starts: backtest/optimizer/optimizer_engine.py *)
(* (a main process and a pool of workers, one combination of parameters at *)
(* a time each) and backtest/runner.py, with the files they leave behind.  *)
(* Several of them may be alive at once: a killed main process leaves its  *)
(* workers, a dead API leaves its subprocess.                              *)
(* Whether a replay earns anything is chosen freely; what matters is under *)
(* which parameters, and for which job, the trades were made that are      *)
(* measured.                                                               *)
(***************************************************************************)
EXTENDS ValidationInterpreter, FiniteSetsExt

CONSTANTS
    Params,       \* values of the three multipliers that are tuned together
    RiskReward,   \* of each: take profit over stop, in tenths
    Position,     \* of each: its place in the order of product()
    Minimums,     \* what MINIMUM_RISK_REWARD_RATIO may be set to, in tenths
    Workers,      \* worker processes of a pool
    Score,        \* of each: what a profitable replay with it scores
    Measures,     \* what the walk-forward validation may come to
    MaxJobs,      \* bound: jobs ever started
    Nothing,      \* no parameters, no verdict, no entry
    Torn          \* a file that open(..., "w") has emptied and nobody has filled

BlockingVerdicts == {"PROMISING_BUT_SUSPICIOUS", "INSUFFICIENT_DATA"}

ASSUME OptimizerAssumption ==
    /\ IsFiniteSet(Params) /\ RiskReward \in [Params -> Nat] /\ Minimums \subseteq Nat
    /\ Position \in Injection(Params, Nat)
    /\ Score \in [Params -> Nat] /\ MaxJobs \in Nat /\ Workers \in Nat
    /\ Measures \subseteq Measure
    /\ Nothing \notin Params \cup VerdictStatus /\ Torn # Nothing

VARIABLES
    proc,      \* of each job: its main process
    pool,      \* of each job: the tasks that its workers are at
    rows,      \* of each sandbox user: who traded, under which parameters
    report,    \* of each kind of job: the job whose report is on disk, or 0
    progress,  \* the job whose progress is on disk, or 0
    best,      \* core/config/best_config.json
    clock      \* time stamps handed out

optimizerVars == <<proc, pool, rows, report, progress, best, clock>>

Jobs == 1..MaxJobs
Kinds == {"optimizer", "backtest"}

\* generate_combinations: what RiskAgent would refuse is not replayed.
Combinations(minimum) == {p \in Params : RiskReward[p] >= minimum}

\* The sandbox users, counted from WORKER_USER_ID_BASE; 0 is USER_ID, which
\* the walk-forward validation and a backtest use.
Users == 0..Cardinality(Params)
Single == 0

Evidence == Jobs \X Params
Outcome == [combo : Params, measured : SUBSET Evidence]

NotStarted == [phase |-> "none", minimum |-> 0, pending |-> {}, results |-> {},
               base |-> Nothing, chosen |-> Nothing, verdict |-> Nothing]

\* A single combination is evaluated by the main process itself.
Pooled(j) == Cardinality(Combinations(proc[j].minimum)) > 1

\* A process that ends takes its variables along.
Ended(j, phase) == [proc[j] EXCEPT !.phase = phase, !.results = {}]

Phase == {"none", "evaluating", "validating", "exporting",
          "resetting", "replaying", "ok", "failed", "killed"}
Active == Phase \ {"none", "ok", "failed", "killed"}

Task == [combo : Params, config : Params]

Alive(j) == proc[j].phase \in Active
Idle(j) == proc[j].pending = {} /\ pool[j] = {}

File(p, j, t) == [params |-> p, job |-> j, at |-> t]

OptimizerTypeOK ==
    /\ \A j \in Jobs :
          /\ proc[j].phase \in Phase
          /\ proc[j].minimum \in Minimums \cup {0}
          /\ proc[j].pending \subseteq Combinations(proc[j].minimum)
          /\ proc[j].results \subseteq Outcome
          /\ {proc[j].base, proc[j].chosen} \subseteq Params \cup {Nothing}
          /\ proc[j].verdict \in VerdictStatus \cup {Nothing}
    /\ \A j \in Jobs : pool[j] \subseteq Task /\ Cardinality(pool[j]) <= Workers
    /\ rows \in [Users -> SUBSET Evidence]
    /\ report \in [Kinds -> 0..MaxJobs] /\ progress \in 0..MaxJobs
    /\ best \in {Torn} \cup [params : Params, job : 0..MaxJobs, at : Nat]
    /\ clock \in 0..(2 * MaxJobs)

-----------------------------------------------------------------------------
\* The workers: _evaluate_combination.

\* Mutant: every worker trades as USER_ID.
SandboxShared(j, c) == Single

\* WORKER_USER_ID_BASE + index: the place among the combinations of the job.
Sandbox(j, c) ==
    Cardinality({p \in Combinations(proc[j].minimum) : Position[p] <= Position[c]})

\* A task is taken up: apply_config, and the sandbox is emptied.  A worker
\* of a dead main process goes on with what its queue holds.
TakeTask(j) ==
    /\ Cardinality(pool[j]) < Workers
    /\ \E c \in proc[j].pending :
          /\ proc' = [proc EXCEPT ![j].pending = @ \ {c}]
          /\ pool' = [pool EXCEPT ![j] = @ \cup {[combo |-> c, config |-> c]}]
          /\ rows' = [rows EXCEPT ![Sandbox(j, c)] = {}]
    /\ UNCHANGED <<report, progress, best, clock>>

\* What the main process does with a completed future: _process_outcome,
\* write_progress, and a checkpoint of the report once there is a result.
\* Too few trades, no profit and an exception are one outcome: not valid.
Collect(j, outcome, valid) ==
    LET results == proc[j].results \cup (IF valid THEN {outcome} ELSE {}) IN
    /\ proc' = [proc EXCEPT ![j].results = results]
    /\ report' = [report EXCEPT !["optimizer"] = IF results = {} THEN @ ELSE j]
    /\ progress' = j

\* ReplayEngine.replay over the training datasets, MetricsEngine over the
\* trades of the sandbox, restore_config.  The trades of a replay are seen
\* at its end: of two that share a sandbox the later one measures both.
Evaluate(j, task) ==
    LET user == Sandbox(j, task.combo) IN
    /\ pool' = [pool EXCEPT ![j] = @ \ {task}]
    /\ rows' = [rows EXCEPT ![user] = @ \cup {<<j, task.config>>}]
    /\ \/ /\ Alive(j)
          /\ \E valid \in BOOLEAN :
                Collect(j, [combo |-> task.combo, measured |-> rows'[user]], valid)
       \/ /\ ~Alive(j)
          /\ UNCHANGED <<proc, report, progress>>
    /\ UNCHANGED <<best, clock>>

-----------------------------------------------------------------------------
\* The main process of the optimizer: optimize.

Evaluated(j) == proc[j].phase = "evaluating" /\ Idle(j)

\* NO_EDGE_FOUND: neither the report nor the progress is touched.
FindNothing(j) ==
    /\ Evaluated(j) /\ proc[j].results = {}
    /\ proc' = [proc EXCEPT ![j] = Ended(j, "ok")]
    /\ UNCHANGED <<pool, rows, report, progress, best, clock>>

\* Ranking, the final report, and the walk-forward validation of the first
\* begins: its parameters are applied, the trades of USER_ID are reset.
Rank(j) ==
    /\ Evaluated(j)
    /\ \E r \in proc[j].results :
          /\ \A other \in proc[j].results : Score[other.combo] <= Score[r.combo]
          /\ proc' = [proc EXCEPT ![j].phase = "validating", ![j].chosen = r.combo]
    /\ report' = [report EXCEPT !["optimizer"] = j]
    /\ progress' = j
    /\ rows' = [rows EXCEPT ![Single] = {}]
    /\ UNCHANGED <<pool, best, clock>>

\* Mutant: the configuration is saved whatever the validation says.
JudgeKindly(j) ==
    /\ proc[j].phase = "validating"
    /\ rows' = [rows EXCEPT ![Single] = @ \cup {<<j, proc[j].chosen>>}]
    /\ \E m \in Measures :
          /\ proc' = [proc EXCEPT ![j].verdict = Verdict(m), ![j].phase = "exporting"]
          /\ best' = Torn
    /\ UNCHANGED <<pool, report, progress, clock>>

\* The validation is replayed, and validation_interpreter.analyze judges it:
\* a blocking verdict leaves the file alone.
Judge(j) ==
    /\ proc[j].phase = "validating"
    /\ rows' = [rows EXCEPT ![Single] = @ \cup {<<j, proc[j].chosen>>}]
    /\ \E m \in Measures :
          LET v == Verdict(m) IN
          IF v \in BlockingVerdicts
          THEN /\ proc' = [proc EXCEPT ![j] = [Ended(j, "ok") EXCEPT !.verdict = v]]
               /\ progress' = 0
               /\ UNCHANGED best
          ELSE /\ proc' = [proc EXCEPT ![j].verdict = v, ![j].phase = "exporting"]
               /\ best' = Torn
               /\ UNCHANGED progress
    /\ UNCHANGED <<pool, report, clock>>

\* CONFIG EXPORT, restore_config, clear_progress.
Export(j) ==
    /\ proc[j].phase = "exporting"
    /\ proc' = [proc EXCEPT ![j] = Ended(j, "ok")]
    /\ clock' = clock + 1
    /\ best' = File(proc[j].chosen, j, clock')
    /\ progress' = 0
    /\ UNCHANGED <<pool, rows, report>>

-----------------------------------------------------------------------------
\* backtest/runner.py: the parameters of .env, not those of the file.
BacktestResets(j) ==
    /\ proc[j].phase = "resetting"
    /\ proc' = [proc EXCEPT ![j].phase = "replaying"]
    /\ rows' = [rows EXCEPT ![Single] = {}]
    /\ progress' = j
    /\ UNCHANGED <<pool, report, best, clock>>

BacktestReports(j) ==
    /\ proc[j].phase = "replaying"
    /\ proc' = [proc EXCEPT ![j].phase = "ok"]
    /\ rows' = [rows EXCEPT ![Single] = @ \cup {<<j, proc[j].base>>}]
    /\ report' = [report EXCEPT !["backtest"] = j]
    /\ progress' = 0
    /\ UNCHANGED <<pool, best, clock>>

\* An exception ends the main process; leaving the block of the pool waits
\* for every task first.
Fail(j) ==
    /\ Alive(j) /\ (proc[j].phase = "evaluating" => Idle(j))
    /\ proc' = [proc EXCEPT ![j] = Ended(j, "failed")]
    /\ UNCHANGED <<pool, rows, report, progress, best, clock>>

\* The process that the job starts: _prepare_datasets falls back to the
\* synthetic datasets when the download fails, which is no matter here.
Begun(kind, base, minimum) ==
    [NotStarted EXCEPT
        !.phase = IF kind = "optimizer" THEN "evaluating" ELSE "resetting",
        !.minimum = minimum,
        !.pending = IF kind = "optimizer" THEN Combinations(minimum) ELSE {},
        !.base = base]

\* SIGKILL ends the main process only; without a pool it was the worker too.
Kill(j) ==
    /\ proc' = [proc EXCEPT ![j] = [Ended(j, "killed") EXCEPT
                                      !.pending = IF Pooled(j) THEN @ ELSE {}]]
    /\ pool' = IF Pooled(j) THEN pool ELSE [pool EXCEPT ![j] = {}]

WorkerNext ==
    \E j \in Jobs : TakeTask(j) \/ \E task \in pool[j] : Evaluate(j, task)

ProcessNext ==
    \/ WorkerNext
    \/ \E j \in Jobs :
          \/ FindNothing(j) \/ Rank(j) \/ Judge(j) \/ Export(j)
          \/ BacktestResets(j) \/ BacktestReports(j) \/ Fail(j)
=============================================================================
