----------------------------- MODULE TuningJobs -----------------------------
(***************************************************************************)
(* The jobs of apps/api/main.py around the processes of Optimizer: the     *)
(* thread of a job, the memory of the current one, the history file, and   *)
(* the settings and the Runner that the tuned parameters reach.            *)
(***************************************************************************)
EXTENDS Optimizer, Sequences

CONSTANTS
    Shipped,      \* best_config.json as the repository holds it
    Default,      \* what an unusable value in .env is replaced by
    Unusable,     \* a value of .env that is not a positive number
    Savable,      \* what a person saves in the settings panel
    MaxHistory,   \* MAX_HISTORY
    MaxFaults,    \* bound: kinds of trouble in one behaviour
    Overlapping   \* bound: kinds of job that are started beside another

ASSUME JobsAssumption ==
    /\ Shipped \in Params /\ Default \in Params /\ Unusable \notin Params
    /\ Savable \subseteq Params
    /\ MaxHistory \in Nat \ {0} /\ MaxFaults \in Nat /\ Overlapping \subseteq Kinds

VARIABLES
    thread,    \* of each job: how far its thread is
    kinds,     \* of each job: optimizer or backtest
    job,       \* _current_job
    entry,     \* of each job: what its thread gives to the history
    draft,     \* of each job: the history that its thread is writing
    history,   \* backtest/reports/jobs_history.json
    env,       \* the parameters in .env
    runner,    \* the parameters that the Runner trades with
    excuses    \* history variable: what has happened beside the normal course

jobVars == <<thread, kinds, job, entry, draft, history>>
userVars == <<env, runner>>
vars == <<proc, pool, rows, report, progress, best, clock,
          thread, kinds, job, entry, draft, history,
          env, runner, excuses>>

ThreadState == {"none", "started", "waiting", "saving", "writing", "over"}
Excuse == {"overlap", "timeout", "api"}

Entry == [job : Jobs, kind : Kinds, done : BOOLEAN, at : Nat]
ASSUME EntryAssumption == Nothing \notin Entry /\ Torn \notin Seq(Entry)

NoJob == [status |-> "idle", result |-> 0]
NotRunning == "stopped"

ThreadAlive(j) == thread[j] \in {"started", "waiting", "saving", "writing"}
Trouble(kind) ==
    /\ excuses' = excuses \cup {kind}
    /\ Cardinality(excuses') <= MaxFaults
LastJob == Max({0} \cup {j \in Jobs : thread[j] # "none"})

TypeOK ==
    /\ OptimizerTypeOK
    /\ thread \in [Jobs -> ThreadState] /\ kinds \in [Jobs -> Kinds]
    /\ job.status \in {"idle", "running", "done", "error"} /\ job.result \in 0..MaxJobs
    /\ \A j \in Jobs : entry[j] \in {Nothing} \cup Entry
    /\ history = Torn \/ history \in Seq(Entry)
    /\ env \in Params \cup {Unusable} /\ runner \in Params \cup {NotRunning}
    /\ excuses \subseteq Excuse

Init ==
    /\ proc = [j \in Jobs |-> NotStarted]
    /\ pool = [j \in Jobs |-> {}]
    /\ rows = [u \in Users |-> {}]
    /\ report = [k \in Kinds |-> 0] /\ progress = 0
    /\ best = File(Shipped, 0, 0)
    /\ clock = 0
    /\ thread = [j \in Jobs |-> "none"]
    /\ kinds = [j \in Jobs |-> "optimizer"]
    /\ job = NoJob
    /\ entry = [j \in Jobs |-> Nothing]
    /\ draft = [j \in Jobs |-> << >>]
    /\ history = << >>
    /\ env = Unusable
    /\ runner = NotRunning
    /\ excuses = {}

-----------------------------------------------------------------------------
\* Mutant: os.environ is taken at its word.
LoadedRaw(value) == value

\* positive_float around the value that settings has read from .env.
Loaded(value) == IF value \in Params THEN value ELSE Default

\* _start_job, for the job that is the next one; the memory says "running"
\* only once the thread does.
StartJob(kind) == \E j \in Jobs :
    /\ thread[j] = "none" /\ LastJob = j - 1
    /\ job.status = "running" => LastJob = 0 \/ ~ThreadAlive(LastJob)
    /\ runner = NotRunning
    /\ thread' = [thread EXCEPT ![j] = "started"]
    /\ kinds' = [kinds EXCEPT ![j] = kind]
    /\ job' = IF job.status = "running" THEN [job EXCEPT !.status = "error"] ELSE job
    /\ IF \E i \in Jobs : ThreadAlive(i)
       THEN Trouble("overlap") /\ kind \in Overlapping
       ELSE UNCHANGED excuses
    /\ UNCHANGED <<optimizerVars, entry, draft, history, userVars>>

\* Mutant: an older report is not removed.
ThreadBeginsOnOldReport(j) ==
    /\ thread[j] = "started"
    /\ thread' = [thread EXCEPT ![j] = "waiting"]
    /\ job' = [status |-> "running", result |-> 0]
    /\ progress' = 0
    /\ \E minimum \in Minimums :
          proc' = [proc EXCEPT ![j] = Begun(kinds[j], Loaded(env), minimum)]
    /\ UNCHANGED <<pool, rows, report, best, clock, kinds, entry, draft, history,
                   userVars, excuses>>

\* _run_job_subprocess, and its inner part up to the subprocess, which reads
\* .env.  The minimum may be saved at any time and matters at this one only:
\* it is whatever it has been set to by now.
ThreadBegins(j) ==
    /\ thread[j] = "started"
    /\ thread' = [thread EXCEPT ![j] = "waiting"]
    /\ job' = [status |-> "running", result |-> 0]
    /\ progress' = 0
    /\ report' = [report EXCEPT ![kinds[j]] = 0]
    /\ \E minimum \in Minimums :
          proc' = [proc EXCEPT ![j] = Begun(kinds[j], Loaded(env), minimum)]
    /\ UNCHANGED <<pool, rows, best, clock, kinds, entry, draft, history, userVars, excuses>>

\* The end of a job in the memory, whichever job that describes by now, and
\* what the history is going to be told.
Finish(j, status, result) ==
    /\ thread' = [thread EXCEPT ![j] = "saving"]
    /\ clock' = clock + 1
    /\ job' = [job EXCEPT !.status = status, !.result = result]
    /\ entry' = [entry EXCEPT ![j] =
          [job |-> j, kind |-> kinds[j], done |-> status = "done", at |-> clock']]

\* The subprocess has ended: its report, if it has written one, or an error.
ProcessReturns(j) ==
    /\ thread[j] = "waiting"
    /\ \/ proc[j].phase = "ok" /\ Finish(j, "done", report[kinds[j]])
       \/ proc[j].phase = "failed" /\ Finish(j, "error", 0)
    /\ UNCHANGED <<proc, pool, rows, report, progress, best, kinds, draft, history,
                   userVars, excuses>>

\* Mutant: subprocess.run without a timeout waits for as long as it takes.
NeverTimesOut(j) == FALSE /\ UNCHANGED vars

\* subprocess.run runs into _compute_job_timeout_seconds.
TimesOut(j) ==
    /\ thread[j] = "waiting" /\ Alive(j)
    /\ Kill(j)
    /\ Finish(j, "error", 0)
    /\ excuses' = excuses \cup {"timeout"}
    /\ UNCHANGED <<rows, report, progress, best, kinds, draft, history, userVars>>

-----------------------------------------------------------------------------
\* The history.

\* _load_history: what cannot be read counts as empty.
Readable == IF history = Torn THEN << >> ELSE history

\* Mutant: the newest entries of all kinds together.
KeptMixed(seq) == SubSeq(seq, 1, Min({Len(seq), MaxHistory}))

\* The newest entries of each kind.
Kept(seq) ==
    LET Older(i) == Cardinality({k \in 1..i : seq[k].kind = seq[i].kind})
        keep == {i \in 1..Len(seq) : Older(i) <= MaxHistory}
    IN [i \in 1..Cardinality(keep) |->
           seq[CHOOSE k \in keep : Cardinality({n \in keep : n <= k}) = i]]

\* _save_history reads the file, and write_text empties it ...
HistoryEmptied(j) ==
    /\ thread[j] = "saving"
    /\ thread' = [thread EXCEPT ![j] = "writing"]
    /\ draft' = [draft EXCEPT ![j] = Kept(<<entry[j]>> \o Readable)]
    /\ history' = Torn
    /\ UNCHANGED <<optimizerVars, kinds, job, entry, userVars, excuses>>

\* ... before it writes; the thread removes the progress file and ends.
HistoryWritten(j) ==
    /\ thread[j] = "writing"
    /\ thread' = [thread EXCEPT ![j] = "over"]
    /\ history' = draft[j]
    /\ draft' = [draft EXCEPT ![j] = << >>]
    /\ progress' = 0
    /\ UNCHANGED <<proc, pool, rows, report, best, clock, kinds, job, entry, userVars, excuses>>

\* The API dies: its threads and its memory are gone, its subprocesses stay.
ApiDies ==
    /\ \E j \in Jobs : ThreadAlive(j)
    /\ thread' = [j \in Jobs |-> IF ThreadAlive(j) THEN "over" ELSE thread[j]]
    /\ entry' = [j \in Jobs |-> IF ThreadAlive(j) THEN Nothing ELSE entry[j]]
    /\ draft' = [j \in Jobs |-> << >>]
    /\ job' = NoJob
    /\ Trouble("api")
    /\ UNCHANGED <<optimizerVars, kinds, history, userVars>>

-----------------------------------------------------------------------------
\* The tuned parameters on their way to the Runner.

\* Where the history tells of a completed run of the optimizer.
Completed == {i \in DOMAIN Readable : Readable[i].kind = "optimizer" /\ Readable[i].done}

\* Mutant: only the newest job counts, completed or not.
WarnAfterNewest(file) ==
    Readable # << >> /\ Readable[1].done /\ Readable[1].kind = "optimizer"
       /\ file.at < Readable[1].at

\* _best_config_staleness_warning asks the first of them.
StalenessWarning(file) == Completed # {} /\ file.at < Readable[Min(Completed)].at

\* POST /jobs/apply: update_settings writes .env and os.environ.
ApplyBestConfig ==
    /\ best # Torn
    /\ env' = best.params
    /\ UNCHANGED <<optimizerVars, jobVars, runner, excuses>>

\* PUT /settings with the multipliers only: the Runner is not restarted.
SaveSettings ==
    /\ env' \in Savable
    /\ UNCHANGED <<optimizerVars, jobVars, runner, excuses>>

\* The Runner starts: load_best_config overrides what .env says.  A torn
\* file raises in main() and nothing is started.  A Runner that stops leaves
\* nothing behind that this module knows of: its end is left out.
StartRunner ==
    /\ runner = NotRunning /\ job.status # "running"
    /\ best # Torn
    /\ runner' = best.params
    /\ UNCHANGED <<optimizerVars, jobVars, env, excuses>>

-----------------------------------------------------------------------------
ThreadStep(j) ==
    \/ ThreadBegins(j) \/ ProcessReturns(j) \/ TimesOut(j)
    \/ HistoryEmptied(j) \/ HistoryWritten(j)

UserNext == ApplyBestConfig \/ SaveSettings \/ StartRunner

Next ==
    \/ ProcessNext /\ UNCHANGED <<jobVars, userVars, excuses>>
    \/ \E kind \in Kinds : StartJob(kind)
    \/ \E j \in Jobs : ThreadStep(j)
    \/ ApiDies
    \/ UserNext

\* The threads of the API run, and time passes: a timeout comes.
Spec == Init /\ [][Next]_vars /\ \A j \in Jobs : WF_vars(ThreadStep(j))

-----------------------------------------------------------------------------
\* Every job that has begun comes to an end in the memory of the API, even
\* when its subprocess never returns.
JobEnds == job.status = "running" ~> job.status # "running"

\* What is scored for a combination was earned by it alone, unless workers
\* survive a timeout, jobs overlap or subprocesses survive the API.  Even then
\* it was earned by its own parameters as far as its own job goes, and any job
\* that had the same list of combinations.
MeasuredAlone ==
    \A j \in Jobs : \A r \in proc[j].results :
        /\ excuses = {} => r.measured = {<<j, r.combo>>}
        /\ \A e \in r.measured : proc[e[1]].minimum = proc[j].minimum => e[2] = r.combo

\* The sandbox users keep combinations that run concurrently from colliding,
\* as the comment on WORKER_USER_ID_BASE has it: what is scored was earned by
\* no other parameters.  A worker that survives keeps its place in the list of
\* its own job, and the next job may have a shorter list.
NeverCollide ==
    \A j \in Jobs : \A r \in proc[j].results : \A e \in r.measured : e[2] = r.combo

\* A completed job shows its own report or none, never that of another run.
ResultIsOfThisJob ==
    excuses \cap {"overlap", "api"} = {} /\ job.status = "done" =>
        job.result \in {0, Max({j \in Jobs : entry[j] # Nothing})}

\* What a job has chosen after a validation that does not block it.
Earned(j) == IF proc[j].verdict \in VerdictStatus \ BlockingVerdicts THEN {proc[j].chosen} ELSE {}

\* The Runner never trades with parameters that nobody has answered for:
\* they were shipped, saved by a person, or the best of a run whose
\* walk-forward validation does not block them, whatever was killed when.
OnlyApprovedTrade ==
    runner \in {NotRunning, Shipped, Default} \cup Savable \cup UNION {Earned(j) : j \in Jobs}

\* The history holds the newest jobs of each kind, newest first: a kind that
\* runs often does not push out the other.
HistoryKept ==
    excuses \cap {"overlap", "api"} = {} /\ history # Torn =>
        \A kind \in Kinds :
            LET saved == {j \in Jobs : thread[j] = "over" /\ kinds[j] = kind}
                listed == {i \in DOMAIN history : history[i].kind = kind}
            IN /\ Cardinality(listed) = Min({MaxHistory, Cardinality(saved)})
               /\ \A i \in listed :
                     /\ history[i].job \in saved
                     /\ Cardinality({j \in saved : j >= history[i].job})
                           = Cardinality({k \in listed : k <= i})

\* The runs of the optimizer that have completed, the newest of them, and
\* whether the history still tells of it.
CompletedRuns == {j \in Jobs : entry[j] # Nothing /\ entry[j].kind = "optimizer" /\ entry[j].done}
NewestRun == Max({0} \cup CompletedRuns)
Remembered == \E i \in Completed : Readable[i].job = NewestRun

CanApply == best # Torn

\* Applying a configuration that a later completed run did not confirm is
\* answered with a warning, as long as the history remembers that run.
StaleIsWarned ==
    excuses \cap {"overlap", "api"} = {} /\ CanApply /\ Remembered /\ best.job < NewestRun
        => StalenessWarning(best)

\* What the newest completed run has written is applied without a warning.
FreshIsNotWarned ==
    CanApply /\ best.job # 0 /\ best.job = NewestRun => ~StalenessWarning(best)
=============================================================================
