----------------------------- MODULE JobThreads -----------------------------
(***************************************************************************)
(* The jobs of apps/api/main.py: the memory of the current job, and the    *)
(* thread that runs the optimizer or the backtest as a subprocess.         *)
(* _start_job returns when the thread has been started; it is the thread   *)
(* that writes "running" into _current_job, and a global name rebound by   *)
(* one thread is what the other one writes its result into.                *)
(***************************************************************************)
EXTENDS ProcessManager

CONSTANTS
    Threads,    \* bound: jobs that exist at the same time
    NoThread

ASSUME ThreadAssumption == NoThread \notin Threads

VARIABLES
    thread,        \* of each job thread: how far it is
    activeThread,  \* _active_thread
    jobStatus      \* _current_job["status"]

jobVars == <<thread, activeThread, jobStatus>>

\* Not existing; started, nothing executed yet; the subprocess runs; the
\* subprocess outlives the API that started it; the subprocess is dead, but
\* workers of its pool still replay combinations.
ThreadState == {"none", "started", "running", "orphan", "survivors"}

\* The handlers only ask whether the status is "running": "idle", "done" and
\* "error" are one value here.
JobStatus == {"over", "running"}

JobTypeOK ==
    /\ thread \in [Threads -> ThreadState]
    /\ activeThread \in Threads \cup {NoThread}
    /\ jobStatus \in JobStatus

ThreadAlive(t) == t # NoThread /\ thread[t] \in {"started", "running"}

JobsRunning == {t \in Threads : thread[t] \in {"running", "orphan"}}

JobsReplaying == JobsRunning \cup {t \in Threads : thread[t] = "survivors"}

-----------------------------------------------------------------------------
\* _run_job_subprocess; starting its subprocess reaps dead children.
JobBegins(t) ==
    /\ thread[t] = "started"
    /\ thread' = [thread EXCEPT ![t] = "running"]
    /\ jobStatus' = "running"
    /\ runner' = Reaped(Pids \ {handle})
    /\ children' = children \ (Zombies \ {handle})
    /\ UNCHANGED <<pidFile, env, environ, open, managerVars, activeThread>>

\* The subprocess ends or fails; it has waited for the workers of its pool.
JobEnds(t) ==
    /\ thread[t] = "running"
    /\ thread' = [thread EXCEPT ![t] = "none"]
    /\ jobStatus' = "over"
    /\ UNCHANGED <<runnerVars, managerVars, activeThread>>

\* subprocess.run kills the subprocess and nothing else: a backtest is gone,
\* but the pool of an optimizer is not.
JobTimesOut(t) ==
    /\ thread[t] = "running"
    /\ \E rest \in {"none", "survivors"} : thread' = [thread EXCEPT ![t] = rest]
    /\ jobStatus' = "over"
    /\ UNCHANGED <<runnerVars, managerVars, activeThread>>

\* A subprocess without its API writes its report and ends; workers without
\* their subprocess end with the combinations that they have.
OrphanEnds(t) ==
    /\ thread[t] \in {"orphan", "survivors"}
    /\ thread' = [thread EXCEPT ![t] = "none"]
    /\ UNCHANGED <<runnerVars, managerVars, activeThread, jobStatus>>

ThreadNext ==
    \E t \in Threads : JobBegins(t) \/ JobEnds(t) \/ JobTimesOut(t) \/ OrphanEnds(t)
=============================================================================
