------------------------ MODULE RunnerControl_proofs ------------------------
(***************************************************************************)
(* Proofs about RunnerControl: what the checks of the API guarantee as     *)
(* long as requests do not overlap, for any number of processes, threads,  *)
(* modes and suspended starts.                                             *)
(***************************************************************************)
EXTENDS RunnerControl, TLAPS

Calm == "overlap" \notin excuses

\* Two Runners at a time, and a Runner that the PID file does not name, are
\* the first two parts of the inductive invariant.
OneRunner == \A p, q \in Living : p = q
Named == \A p \in Living \ Starting : pidFile = p

\* A start that waits for its report waits alone, and no Runner lives.
AwaitingAlone == awaiting > 0 => awaiting = 1 /\ Living = {} /\ Free

\* A handler that keeps the event loop has begun with no Runner booting.
BusySettled == ~Free => Starting = {}

\* stop_runner waits for the only Runner there is.
StopsTheOne == loop \in {"terminated", "killed"} => Living \subseteq {target}

\* restart_runner starts a Runner where there is none.
StartsAlone == loop = "start" => Living = {}

\* A child of the API, alive or dead, is the one whose handle it holds.
Handled == Zombies \cup (Living \cap children) \subseteq {handle}

CalmInv ==
    Calm => /\ OneRunner /\ Named
            /\ AwaitingAlone /\ BusySettled
            /\ StopsTheOne /\ StartsAlone /\ Handled

\* A restart that must still happen excuses the mode of the old Runner.
Restarting ==
    \/ loop = "recheck"
    \/ loop \in {"read", "terminated", "killed"} /\ caller = "restart"

FollowInv ==
    excuses = {} =>
        /\ environ = env
        /\ \A p \in Living : Restarting \/ runner[p].mode = env
        /\ loop = "save" => Living = {}

\* The thread of a job has begun and is not over.
Busy(t) == thread[t] \notin {"none", "survivors"}

\* A job is alone: no Runner, no start and no restart under way.
JobInv ==
    excuses \cap {"overlap", "api"} = {} =>
        \A t \in Threads : Busy(t) =>
            /\ activeThread = t
            /\ thread[t] \in {"started", "running"}
            /\ thread[t] = "running" => jobStatus = "running"
            /\ Living = {} /\ awaiting = 0
            /\ loop # "start" /\ caller # "restart"

\* stop_runner has a caller only while it runs.
CallerInv == caller # "none" => loop \in {"read", "terminated", "killed"}

IInv == TypeOK /\ CallerInv /\ CalmInv /\ FollowInv /\ JobInv

-----------------------------------------------------------------------------
(* What the operators on the process table do to the sets of processes.    *)

RunnerTable == runner \in [Pids -> [st: RunnerState, mode: Modes \cup {"unknown"}]]

\* Nothing starts, nothing is forgotten, and who dies is a child of the API
\* or leaves no trace.
Shrinks ==
    /\ Living' \subseteq Living
    /\ Starting' \subseteq Starting
    /\ Living' \ Starting' \subseteq Living \ Starting
    /\ Zombies' \subseteq Zombies \cup (Living \cap children)
    /\ \A q \in Living' : runner'[q].mode = runner[q].mode
    /\ RunnerTable'

\* A dead child stays, any other dead process is gone (Gone).
LEMMA GoneEffect ==
    ASSUME RunnerTable, NEW p \in Living, Gone(p)
    PROVE  Shrinks /\ Living' = Living \ {p}
BY DEF RunnerTable, Gone, Shrinks, Living, Starting, Zombies, RunnerState, NoRunner

\* Waiting for children removes zombies and nothing else (Reaped).
LEMMA ReapedEffect ==
    ASSUME RunnerTable, NEW S, runner' = Reaped(S)
    PROVE  /\ Shrinks
           /\ Living' = Living /\ Starting' = Starting
           /\ Zombies' = Zombies \ S
BY DEF RunnerTable, Reaped, Shrinks, Living, Starting, Zombies, RunnerState, NoRunner

\* SIGTERM may end the process or not, and starts nothing (Terminate).
LEMMA TerminateEffect ==
    ASSUME RunnerTable, NEW p \in Pids, Terminate(p)
    PROVE  Shrinks
<1>1. CASE runner[p].st = "up" /\ runner' = [runner EXCEPT ![p].st = "exiting"]
  BY <1>1 DEF RunnerTable, Shrinks, Living, Starting, Zombies, RunnerState
<1>2. CASE p \in Living /\ Gone(p)
  BY <1>2, GoneEffect
<1>3. CASE UNCHANGED runner
  BY <1>3 DEF RunnerTable, Shrinks, Living, Starting, Zombies
<1> QED
  BY <1>1, <1>2, <1>3 DEF Terminate

\* start_runner adds one process, which boots in the mode of the API's
\* environment, and leaves no zombie behind (Popen).
LEMMA PopenEffect ==
    ASSUME RunnerTable, environ \in Modes, NEW p \in Pids, Popen(p)
    PROVE  /\ Living' = Living \cup {p}
           /\ Starting' = Starting \cup {p}
           /\ Zombies' = {}
           /\ handle' = p
           /\ children' \subseteq children \cup {p}
           /\ runner'[p].mode = environ
           /\ \A q \in Living : runner'[q].mode = runner[q].mode
           /\ RunnerTable'
BY DEF RunnerTable, Popen, Booting, Reaped, Living, Starting, Zombies, RunnerState,
       NoRunner

-----------------------------------------------------------------------------
(* Type correctness.                                                       *)

\* The parts of TypeOK that only one kind of step touches.
ManagerStep == ManagerNext /\ UNCHANGED <<jobVars, awaiting, payload>>
RunnerStep == RunnerNext /\ UNCHANGED <<managerVars, jobVars, awaiting, payload>>
ThreadStep == ThreadNext /\ UNCHANGED <<awaiting, payload>>

\* Stopped clears the file, drops the handle and returns (stop_runner).
LEMMA StoppedEffect ==
    ASSUME TypeOK, Stopped
    PROVE  /\ Shrinks /\ Living' = Living /\ Starting' = Starting
           /\ Zombies' = Zombies \ {handle}
           /\ pidFile' = NoPid /\ handle' = NoPid /\ target' = NoPid
           /\ caller' = "none" /\ children' \subseteq children
           /\ loop' = IF caller = "restart" THEN "start" ELSE "free"
<1>1. RunnerTable
  BY DEF TypeOK, RunnerTypeOK, RunnerTable
<1>2. runner' = Reaped({handle})
  BY DEF Stopped, DropHandle
<1>3. Shrinks /\ Living' = Living /\ Starting' = Starting /\ Zombies' = Zombies \ {handle}
  BY <1>1, <1>2, ReapedEffect
<1> QED
  BY <1>3 DEF Stopped, DropHandle, Return

\* Every state is well typed: process table, manager, jobs and the rest.
LEMMA TypeStep ==
    ASSUME TypeOK, [Next]_vars
    PROVE  TypeOK'
<1> USE DEF TypeOK
<1>0. RunnerTable /\ environ \in Modes
  BY DEF RunnerTypeOK, RunnerTable
<1>1. CASE RunnerStart
  BY <1>1, StartsAssumption DEF RunnerStart, Request, Free, Unsettled, Excuse, runnerVars, jobVars,
     RunnerTypeOK, ManagerTypeOK, JobTypeOK
<1>2. CASE BalanceReported
  <2>1. RunnerTable' /\ children' \subseteq Pids /\ handle' \in Pids \cup {NoPid}
    <3>1. CASE UNCHANGED <<runner, handle, children>>
      BY <1>0, <3>1 DEF RunnerTable, RunnerTypeOK, ManagerTypeOK
    <3>2. ASSUME NEW p \in Pids, Popen(p)
          PROVE  RunnerTable' /\ children' \subseteq Pids /\ handle' \in Pids \cup {NoPid}
      BY <1>0, <3>2, PopenEffect DEF RunnerTypeOK
    <3> QED
      BY <1>2, <3>1, <3>2 DEF BalanceReported
  <2>2. awaiting' \in 0..MaxStarts
    BY <1>2, StartsAssumption DEF BalanceReported
  <2> QED
    BY <1>2, <2>1, <2>2 DEF BalanceReported, jobVars, RunnerTable, RunnerTypeOK,
       ManagerTypeOK, JobTypeOK
<1>3. CASE RunnerStop
  BY <1>3 DEF RunnerStop, Request, Free, Unsettled, Excuse, LoopStep, Caller, runnerVars, jobVars,
     RunnerTypeOK, ManagerTypeOK, JobTypeOK
<1>4. CASE UpdateSettings
  BY <1>4 DEF UpdateSettings, Request, Free, Unsettled, Excuse, LoopStep, runnerVars, jobVars,
     RunnerTypeOK, ManagerTypeOK, JobTypeOK
<1>5. CASE SaveSettings
  BY <1>5 DEF SaveSettings, SetMode, LoopStep, jobVars, RunnerTypeOK, ManagerTypeOK, JobTypeOK
<1>6. CASE RecheckRunner
  BY <1>6 DEF RecheckRunner, LoopStep, Caller, runnerVars, jobVars,
     RunnerTypeOK, ManagerTypeOK, JobTypeOK
<1>7. CASE StartJob
  BY <1>7 DEF StartJob, Request, Free, Unsettled, Excuse, runnerVars, ThreadState, JobStatus,
     RunnerTypeOK, ManagerTypeOK, JobTypeOK
<1>8. CASE ResetJob
  BY <1>8 DEF ResetJob, Request, Free, Unsettled, Excuse, runnerVars, JobStatus,
     RunnerTypeOK, ManagerTypeOK, JobTypeOK
<1>9. CASE ApiDies
  <2>1. RunnerTable'
    BY <1>0, <1>9, ReapedEffect DEF ApiDies, Shrinks
  <2> QED
    BY <1>9, <2>1, StartsAssumption DEF ApiDies, RunnerTable, RunnerTypeOK, ManagerTypeOK, JobTypeOK,
       LoopStep, Caller, Excuse, ThreadState, JobStatus
<1>10. CASE EnvEdited
  BY <1>10 DEF EnvEdited, EditEnv, Excuse, jobVars, RunnerTypeOK, ManagerTypeOK, JobTypeOK
<1>11. CASE ManagerStep
  <2>1. CASE StopRead
    <3>1. CASE Stopped
      BY <1>11, <2>1, <3>1, StoppedEffect DEF ManagerStep, StopRead, Shrinks, RunnerTable, LoopStep,
         Caller, jobVars, RunnerTypeOK, ManagerTypeOK, JobTypeOK
    <3>2. CASE pidFile = NoPid /\ Return /\ UNCHANGED <<runner, pidFile, children, handle>>
      BY <1>11, <2>1, <3>2 DEF ManagerStep, StopRead, Return, LoopStep,
         Caller, jobVars, RunnerTypeOK, ManagerTypeOK, JobTypeOK
    <3>3. CASE /\ SeesAlive(pidFile) /\ Terminate(pidFile)
               /\ target' = pidFile /\ loop' = "terminated"
               /\ UNCHANGED <<pidFile, handle, children, caller>>
      <4>1. RunnerTable'
        BY <1>0, <3>3, TerminateEffect DEF SeesAlive, RunnerTypeOK, Shrinks
      <4> QED
        BY <1>11, <2>1, <3>3, <4>1 DEF ManagerStep, StopRead, RunnerTable, LoopStep,
           jobVars, RunnerTypeOK, ManagerTypeOK, JobTypeOK
    <3> QED
      BY <2>1, <3>1, <3>2, <3>3 DEF StopRead
  <2>2. CASE StopTerminated
    <3>1. CASE Stopped
      BY <1>11, <2>2, <3>1, StoppedEffect DEF ManagerStep, StopTerminated, Shrinks, RunnerTable,
         LoopStep, Caller, jobVars, RunnerTypeOK, ManagerTypeOK, JobTypeOK
    <3>2. CASE /\ loop' = "killed"
               /\ (target \in Living /\ Gone(target)) \/ UNCHANGED runner
               /\ UNCHANGED <<pidFile, children, target, handle, caller>>
      <4>1. RunnerTable'
        BY <1>0, <3>2, GoneEffect DEF Shrinks, RunnerTable
      <4> QED
        BY <1>11, <2>2, <3>2, <4>1 DEF ManagerStep, StopTerminated, RunnerTable, LoopStep,
           jobVars, RunnerTypeOK, ManagerTypeOK, JobTypeOK
    <3> QED
      BY <2>2, <3>1, <3>2 DEF StopTerminated
  <2>3. CASE StopKilled
    <3>1. CASE Stopped
      BY <1>11, <2>3, <3>1, StoppedEffect DEF ManagerStep, StopKilled, Shrinks, RunnerTable,
         LoopStep, Caller, jobVars, RunnerTypeOK, ManagerTypeOK, JobTypeOK, Excuse
    <3>2. CASE ~Stopped
      BY <1>11, <2>3, <3>2 DEF ManagerStep, StopKilled, LoopStep, Caller, Excuse,
         jobVars, RunnerTypeOK, ManagerTypeOK, JobTypeOK
    <3> QED
      BY <3>1, <3>2
  <2>4. CASE RestartStart
    <3>1. RunnerTable' /\ children' \subseteq Pids /\ handle' \in Pids
      BY <1>0, <2>4, PopenEffect DEF RestartStart, RunnerTypeOK
    <3> QED
      BY <1>11, <2>4, <3>1 DEF ManagerStep, RestartStart, RunnerTable, LoopStep, jobVars,
         RunnerTypeOK, ManagerTypeOK, JobTypeOK
  <2> QED
    BY <1>11, <2>1, <2>2, <2>3, <2>4 DEF ManagerStep, ManagerNext
<1>12. CASE RunnerStep
  <2> SUFFICES ASSUME NEW p \in Pids,
                      WritePid(p) \/ Trades(p) \/ Ends(p) \/ Exits(p) \/ Dies(p)
               PROVE  RunnerTypeOK'
    BY <1>12 DEF RunnerStep, RunnerNext, managerVars, jobVars, ManagerTypeOK, JobTypeOK
  <2>1. CASE WritePid(p)
    BY <2>1 DEF WritePid, RunnerTypeOK, RunnerState
  <2>2. CASE Trades(p)
    BY <2>2 DEF Trades, RunnerTypeOK
  <2>3. CASE Ends(p)
    BY <2>3 DEF Ends, RunnerTypeOK, RunnerState
  <2>4. CASE Exits(p)
    <3>1. p \in Living
      BY <2>4 DEF Exits, Living
    <3> QED
      BY <1>0, <2>4, <3>1, GoneEffect DEF Exits, Shrinks, RunnerTable, RunnerTypeOK
  <2>5. CASE Dies(p)
    BY <1>0, <2>5, GoneEffect DEF Dies, Shrinks, RunnerTable, RunnerTypeOK
  <2> QED
    BY <2>1, <2>2, <2>3, <2>4, <2>5
<1>13. CASE ThreadStep
  <2> SUFFICES ASSUME NEW t \in Threads,
                      JobBegins(t) \/ JobEnds(t) \/ JobTimesOut(t) \/ OrphanEnds(t)
               PROVE  TypeOK'
    BY <1>13 DEF ThreadStep, ThreadNext
  <2>1. CASE JobBegins(t)
    <3>1. RunnerTable'
      BY <1>0, <2>1, ReapedEffect DEF JobBegins, Shrinks
    <3> QED
      BY <1>13, <2>1, <3>1 DEF ThreadStep, JobBegins, RunnerTable, managerVars, ThreadState, JobStatus,
         RunnerTypeOK, ManagerTypeOK, JobTypeOK
  <2>2. CASE JobEnds(t) \/ JobTimesOut(t) \/ OrphanEnds(t)
    BY <1>13, <2>2 DEF ThreadStep, JobEnds, JobTimesOut, OrphanEnds, runnerVars, managerVars,
       ThreadState, JobStatus, RunnerTypeOK, ManagerTypeOK, JobTypeOK
  <2> QED
    BY <2>1, <2>2
<1>14. CASE UNCHANGED vars
  BY <1>14 DEF vars, RunnerTypeOK, ManagerTypeOK, JobTypeOK
<1> QED
  BY <1>1, <1>2, <1>3, <1>4, <1>5, <1>6, <1>7, <1>8, <1>9, <1>10, <1>11, <1>12, <1>13, <1>14
     DEF Next, HandlerNext, ManagerStep, RunnerStep, ThreadStep

-----------------------------------------------------------------------------
(* What the checks of the handlers see.                                    *)

\* A step that leaves the process table alone leaves its sets alone.
LEMMA SameTable ==
    ASSUME UNCHANGED runner
    PROVE  Living' = Living /\ Starting' = Starting /\ Zombies' = Zombies
BY DEF Living, Starting, Zombies

\* A request that overlaps nothing finds nothing under way (Request).
LEMMA CalmRequest ==
    ASSUME TypeOK, Request, Calm'
    PROVE  /\ Calm /\ awaiting = 0 /\ Starting = {}
           /\ \A t \in Threads : thread[t] # "started"
BY StartsAssumption DEF Request, Calm, Unsettled, TypeOK

\* When no Runner is booting and the PID file shows none, there is none.
LEMMA NoneSeen ==
    ASSUME Named, Starting = {}, ~SeesAlive(pidFile)
    PROVE  Living = {}
BY ProcessAssumption DEF Named, SeesAlive, Living

\* What the PID file shows is a living Runner and no zombie, while the
\* handle of the only possible zombie is held.
LEMMA SeenLives ==
    ASSUME Handled, SeesAlive(pidFile)
    PROVE  pidFile \in Living
BY DEF Handled, SeesAlive

\* A wait of stop_runner that ends well has seen the only Runner dead.
LEMMA WaitedFor ==
    ASSUME Living \subseteq {target}, ~SeesAlive(target)
    PROVE  Living = {}
BY ProcessAssumption DEF SeesAlive, Living

\* A Runner alone leaves, and what the invariant says of handles and of the
\* PID file still holds.
LEMMA ShrinkKeeps ==
    ASSUME Shrinks, UNCHANGED handle, children' \subseteq children,
           OneRunner, Handled
    PROVE  /\ OneRunner' /\ Handled'
           /\ UNCHANGED pidFile /\ Named => Named'
BY DEF Shrinks, OneRunner, Handled, Named

-----------------------------------------------------------------------------
(* Preservation, one part of the invariant at a time.                      *)

\* stop_runner forgets its caller when it returns, fails or dies.
LEMMA CallerStep ==
    ASSUME TypeOK, CallerInv, [Next]_vars
    PROVE  CallerInv'
<1> USE DEF CallerInv
<1>1. CASE HandlerNext
  BY <1>1 DEF HandlerNext, RunnerStart, BalanceReported, RunnerStop, UpdateSettings,
     SaveSettings, RecheckRunner, StartJob, ResetJob, Request, Free
<1>2. CASE ApiDies \/ EnvEdited
  BY <1>2 DEF ApiDies, EnvEdited
<1>3. CASE ManagerStep
  BY <1>3 DEF ManagerStep, ManagerNext, StopRead, StopTerminated, StopKilled, RestartStart,
     Stopped, Return
<1>4. CASE RunnerStep \/ ThreadStep \/ UNCHANGED vars
  BY <1>4 DEF RunnerStep, ThreadStep, ThreadNext, JobBegins, JobEnds, JobTimesOut, OrphanEnds,
     managerVars, vars
<1> QED
  BY <1>1, <1>2, <1>3, <1>4 DEF Next, ManagerStep, RunnerStep, ThreadStep

\* As long as no request overlaps another, at most one Runner lives, the
\* PID file names it and the handle of a dead one is held.
LEMMA CalmStep ==
    ASSUME IInv, [Next]_vars
    PROVE  CalmInv'
<1> SUFFICES ASSUME Calm'
             PROVE  /\ OneRunner' /\ Named'
                    /\ AwaitingAlone' /\ BusySettled'
                    /\ StopsTheOne' /\ StartsAlone' /\ Handled'
  BY DEF CalmInv
<1>0. TypeOK /\ RunnerTable /\ environ \in Modes
  BY DEF IInv, TypeOK, RunnerTypeOK, RunnerTable
<1>a. Calm
  BY DEF Calm, Next, HandlerNext, RunnerStart, BalanceReported, RunnerStop, UpdateSettings,
     SaveSettings, RecheckRunner, StartJob, ResetJob, Request, ApiDies, EnvEdited,
     ManagerNext, StopRead, StopTerminated, StopKilled, RestartStart, managerVars,
     ThreadNext, JobBegins, JobEnds, JobTimesOut, OrphanEnds, vars
<1>b. /\ OneRunner /\ Named /\ AwaitingAlone /\ BusySettled
      /\ StopsTheOne /\ StartsAlone /\ Handled
  BY <1>a DEF IInv, CalmInv
<1>c. ASSUME UNCHANGED <<runner, handle, children, pidFile>>
      PROVE  /\ OneRunner' /\ Named' /\ Handled'
             /\ Living' = Living /\ Starting' = Starting
  BY <1>b, <1>c, SameTable DEF OneRunner, Named, Handled
<1>d. ASSUME Living = {}, NEW p \in Pids, Popen(p), UNCHANGED pidFile
      PROVE  OneRunner' /\ Named' /\ Handled'
  BY <1>0, <1>d, PopenEffect DEF OneRunner, Named, Handled
<1>e. ASSUME Living = {}, Stopped
      PROVE  OneRunner' /\ Named' /\ Handled' /\ Living' = {} /\ Starting' = {}
  <2>1. Living' = {} /\ Zombies' = {}
    BY <1>0, <1>b, <1>e, StoppedEffect DEF Handled
  <2> QED
    BY <2>1 DEF OneRunner, Named, Handled, Living, Starting
<1> USE DEF AwaitingAlone, BusySettled, StopsTheOne, StartsAlone, Free
<1>1. CASE RunnerStart
  <2>1. awaiting = 0 /\ Starting = {}
    BY <1>0, <1>1, CalmRequest DEF RunnerStart
  <2>2. Living = {}
    BY <1>1, <1>b, <2>1, NoneSeen DEF RunnerStart
  <2> QED
    BY <1>1, <1>b, <1>c, <2>1, <2>2 DEF RunnerStart, Request, runnerVars
<1>2. CASE BalanceReported
  <2>1. Living = {} /\ awaiting' = 0 /\ loop' = "free" /\ UNCHANGED pidFile
    BY <1>2, <1>b, <1>0, StartsAssumption DEF BalanceReported, TypeOK
  <2>2. CASE UNCHANGED <<runner, handle, children>>
    BY <1>c, <2>1, <2>2
  <2>3. CASE \E p \in Pids : Popen(p)
    BY <1>d, <2>1, <2>3
  <2> QED
    BY <1>2, <2>2, <2>3 DEF BalanceReported
<1>3. CASE RunnerStop \/ UpdateSettings
  <2>1. awaiting = 0 /\ Starting = {}
    BY <1>0, <1>3, CalmRequest DEF RunnerStop, UpdateSettings
  <2> QED
    BY <1>3, <1>c, <2>1 DEF RunnerStop, UpdateSettings, runnerVars
<1>4. CASE SaveSettings \/ RecheckRunner
  BY <1>4, <1>b, <1>c DEF SaveSettings, RecheckRunner, runnerVars
<1>5. CASE StartJob \/ ResetJob
  BY <1>5, <1>b, <1>c DEF StartJob, ResetJob, Request, runnerVars
<1>6. CASE ApiDies
  <2>1. Living' = Living /\ Starting' = Starting /\ Zombies' = {}
    BY <1>0, <1>6, ReapedEffect DEF ApiDies, Zombies
  <2> QED
    BY <1>6, <1>b, <2>1 DEF ApiDies, OneRunner, Named, Handled
<1>7. CASE EnvEdited
  BY <1>7, <1>b, <1>c DEF EnvEdited, EditEnv
<1>8. CASE ManagerStep
  <2>1. CASE StopRead
    <3>0. Starting = {} /\ awaiting = 0 /\ UNCHANGED awaiting
      BY <1>8, <2>1, <1>b, <1>0, StartsAssumption DEF StopRead, ManagerStep, TypeOK
    <3>1. CASE pidFile # NoPid /\ ~SeesAlive(pidFile) /\ Stopped
      <4>1. Living = {}
        BY <1>b, <3>0, <3>1, NoneSeen
      <4> QED
        BY <1>e, <3>0, <3>1, <4>1 DEF Stopped, Return
    <3>2. CASE /\ pidFile = NoPid /\ Return
               /\ UNCHANGED <<runner, pidFile, children, handle>>
      <4>1. Living = {}
        BY <1>b, <3>0, <3>2, NoneSeen DEF SeesAlive
      <4> QED
        BY <1>c, <3>0, <3>2, <4>1 DEF Return
    <3>3. CASE /\ SeesAlive(pidFile) /\ Terminate(pidFile)
               /\ target' = pidFile /\ loop' = "terminated"
               /\ UNCHANGED <<pidFile, handle, children, caller>>
      <4>1. pidFile \in Living
        BY <1>b, <3>3, SeenLives
      <4>2. Shrinks
        BY <1>0, <3>3, <4>1, TerminateEffect DEF Living
      <4>3. Living \subseteq {pidFile}
        BY <1>b, <4>1 DEF OneRunner
      <4> QED
        BY <1>b, <3>0, <3>3, <4>2, <4>3, ShrinkKeeps DEF Shrinks
    <3> QED
      BY <2>1, <3>1, <3>2, <3>3 DEF StopRead
  <2>2. CASE StopTerminated
    <3>0. Starting = {} /\ awaiting = 0 /\ UNCHANGED awaiting /\ Living \subseteq {target}
      BY <1>8, <2>2, <1>b, <1>0, StartsAssumption DEF StopTerminated, ManagerStep, TypeOK
    <3>1. CASE ~SeesAlive(target) /\ Stopped
      <4>1. Living = {}
        BY <3>0, <3>1, WaitedFor
      <4> QED
        BY <1>e, <3>0, <3>1, <4>1 DEF Stopped, Return
    <3>2. CASE /\ loop' = "killed"
               /\ (target \in Living /\ Gone(target)) \/ UNCHANGED runner
               /\ UNCHANGED <<pidFile, children, target, handle, caller>>
      <4>1. CASE target \in Living /\ Gone(target)
        <5>1. Shrinks
          BY <1>0, <4>1, GoneEffect
        <5> QED
          BY <1>b, <3>0, <3>2, <5>1, ShrinkKeeps DEF Shrinks
      <4>2. CASE UNCHANGED runner
        BY <1>c, <3>0, <3>2, <4>2
      <4> QED
        BY <3>2, <4>1, <4>2
    <3> QED
      BY <2>2, <3>1, <3>2 DEF StopTerminated
  <2>3. CASE StopKilled
    <3>0. Starting = {} /\ awaiting = 0 /\ UNCHANGED awaiting /\ Living \subseteq {target}
      BY <1>8, <2>3, <1>b, <1>0, StartsAssumption DEF StopKilled, ManagerStep, TypeOK
    <3>1. CASE ~SeesAlive(target) /\ Stopped
      <4>1. Living = {}
        BY <3>0, <3>1, WaitedFor
      <4> QED
        BY <1>e, <3>0, <3>1, <4>1 DEF Stopped, Return
    <3>2. CASE loop' = "free" /\ UNCHANGED <<runner, pidFile, children, handle>>
      BY <1>c, <3>0, <3>2
    <3> QED
      BY <2>3, <3>1, <3>2 DEF StopKilled
  <2>4. CASE RestartStart
    <3>1. Living = {} /\ awaiting = 0 /\ UNCHANGED awaiting
      BY <1>8, <2>4, <1>b, <1>0, StartsAssumption DEF RestartStart, ManagerStep, TypeOK
    <3> QED
      BY <1>d, <2>4, <3>1 DEF RestartStart
  <2> QED
    BY <1>8, <2>1, <2>2, <2>3, <2>4 DEF ManagerStep, ManagerNext
<1>9. CASE RunnerStep
  <2>0. UNCHANGED <<managerVars, awaiting>>
    BY <1>9 DEF RunnerStep
  <2>1. ASSUME NEW p \in Pids, WritePid(p)
        PROVE  /\ OneRunner' /\ Named' /\ Handled'
               /\ Living' = Living /\ Starting' \subseteq Starting
    <3>1. /\ p \in Living /\ Living' = Living /\ Starting' \subseteq Starting
          /\ Zombies' = Zombies /\ pidFile' = p /\ UNCHANGED children
      BY <1>0, <2>1 DEF WritePid, RunnerTable, Living, Starting, Zombies
    <3> QED
      BY <1>b, <2>0, <3>1 DEF OneRunner, Named, Handled, managerVars
  <2>2. ASSUME NEW p \in Pids, Trades(p)
        PROVE  /\ OneRunner' /\ Named' /\ Handled'
               /\ Living' = Living /\ Starting' \subseteq Starting
    BY <1>c, <2>0, <2>2 DEF Trades, managerVars
  <2>3. ASSUME NEW p \in Pids, Ends(p)
        PROVE  /\ OneRunner' /\ Named' /\ Handled'
               /\ Living' = Living /\ Starting' \subseteq Starting
    <3>1. /\ Living' = Living /\ Starting' = Starting /\ Zombies' = Zombies
          /\ UNCHANGED <<pidFile, children>>
      BY <1>0, <2>3 DEF Ends, RunnerTable, Living, Starting, Zombies
    <3> QED
      BY <1>b, <2>0, <3>1 DEF OneRunner, Named, Handled, managerVars
  <2>4. ASSUME NEW p \in Pids, Exits(p)
        PROVE  /\ OneRunner' /\ Named' /\ Handled'
               /\ Living' = {} /\ Starting' \subseteq Starting
    <3>1. p \in Living
      BY <2>4 DEF Exits, Living
    <3>2. Shrinks /\ Living' = {}
      BY <1>0, <1>b, <2>4, <3>1, GoneEffect DEF Exits, OneRunner
    <3> QED
      BY <1>b, <2>0, <2>4, <3>2 DEF Exits, Shrinks, OneRunner, Named, Handled, managerVars
  <2>5. ASSUME NEW p \in Pids, Dies(p)
        PROVE  /\ OneRunner' /\ Named' /\ Handled'
               /\ Living' \subseteq Living /\ Starting' \subseteq Starting
    <3>1. Shrinks
      BY <1>0, <2>5, GoneEffect DEF Dies
    <3> QED
      BY <1>b, <2>0, <2>5, <3>1, ShrinkKeeps DEF Dies, Shrinks, managerVars
  <2>6. /\ OneRunner' /\ Named' /\ Handled'
        /\ Living' \subseteq Living /\ Starting' \subseteq Starting
    BY <1>9, <2>1, <2>2, <2>3, <2>4, <2>5 DEF RunnerStep, RunnerNext
  <2> QED
    BY <1>b, <2>0, <2>6 DEF managerVars
<1>10. CASE ThreadStep
  <2>0. UNCHANGED awaiting
    BY <1>10 DEF ThreadStep
  <2>1. ASSUME NEW t \in Threads, JobBegins(t)
        PROVE  /\ OneRunner' /\ Named' /\ Handled' /\ UNCHANGED managerVars
               /\ Living' = Living /\ Starting' = Starting
    <3>1. /\ Living' = Living /\ Starting' = Starting /\ Zombies' \subseteq Zombies
      BY <1>0, <2>1, ReapedEffect DEF JobBegins
    <3> QED
      BY <1>b, <2>1, <3>1 DEF JobBegins, OneRunner, Named, Handled, managerVars
  <2>2. ASSUME NEW t \in Threads, JobEnds(t) \/ JobTimesOut(t) \/ OrphanEnds(t)
        PROVE  /\ OneRunner' /\ Named' /\ Handled' /\ UNCHANGED managerVars
               /\ Living' = Living /\ Starting' = Starting
    BY <1>c, <2>2 DEF JobEnds, JobTimesOut, OrphanEnds, runnerVars, managerVars
  <2> QED
    BY <1>10, <1>b, <2>0, <2>1, <2>2 DEF ThreadStep, ThreadNext, managerVars
<1>11. CASE UNCHANGED vars
  BY <1>11, <1>b, <1>c DEF vars
<1> QED
  BY <1>1, <1>2, <1>3, <1>4, <1>5, <1>6, <1>7, <1>8, <1>9, <1>10, <1>11
     DEF Next, HandlerNext, ManagerStep, RunnerStep, ThreadStep

\* A step of a Runner starts none and changes no mode (RunnerNext).
LEMMA RunnerStepEffect ==
    ASSUME TypeOK, RunnerStep
    PROVE  /\ Living' \subseteq Living
           /\ \A q \in Living' : runner'[q].mode = runner[q].mode
<1>0. RunnerTable
  BY DEF TypeOK, RunnerTypeOK, RunnerTable
<1> SUFFICES ASSUME NEW p \in Pids,
                    WritePid(p) \/ Trades(p) \/ Ends(p) \/ Exits(p) \/ Dies(p)
             PROVE  /\ Living' \subseteq Living
                    /\ \A q \in Living' : runner'[q].mode = runner[q].mode
  BY DEF RunnerStep, RunnerNext
<1>1. CASE WritePid(p) \/ Trades(p) \/ Ends(p)
  BY <1>0, <1>1 DEF WritePid, Trades, Ends, RunnerTable, Living
<1>2. CASE Exits(p) \/ Dies(p)
  <2>1. p \in Living /\ Gone(p)
    BY <1>2 DEF Exits, Dies, Living
  <2> QED
    BY <1>0, <2>1, GoneEffect DEF Shrinks
<1> QED
  BY <1>1, <1>2

\* A step of a job thread starts no Runner and ends none (ThreadNext).
LEMMA ThreadStepEffect ==
    ASSUME TypeOK, ThreadStep
    PROVE  /\ Living' = Living
           /\ \A q \in Living' : runner'[q].mode = runner[q].mode
<1>0. RunnerTable
  BY DEF TypeOK, RunnerTypeOK, RunnerTable
<1>1. (\E t \in Threads : JobBegins(t)) \/ UNCHANGED runner
  BY DEF ThreadStep, ThreadNext, JobEnds, JobTimesOut, OrphanEnds, runnerVars
<1>2. CASE \E t \in Threads : JobBegins(t)
  BY <1>0, <1>2, ReapedEffect DEF JobBegins, Shrinks
<1>3. CASE UNCHANGED runner
  BY <1>3, SameTable
<1> QED
  BY <1>1, <1>2, <1>3

\* A step of stop_runner starts no Runner and changes no mode.
LEMMA StopStepEffect ==
    ASSUME TypeOK, StopRead \/ StopTerminated \/ StopKilled
    PROVE  /\ Living' \subseteq Living
           /\ \A q \in Living' : runner'[q].mode = runner[q].mode
<1>0. RunnerTable /\ pidFile \in Pids \cup {NoPid}
  BY DEF TypeOK, RunnerTypeOK, RunnerTable
<1>1. CASE Stopped
  BY <1>1, StoppedEffect DEF Shrinks
<1>2. CASE SeesAlive(pidFile) /\ Terminate(pidFile)
  BY <1>0, <1>2, TerminateEffect DEF SeesAlive, Shrinks
<1>3. CASE target \in Living /\ Gone(target)
  BY <1>0, <1>3, GoneEffect DEF Shrinks
<1>4. CASE UNCHANGED runner
  BY <1>4, SameTable
<1> QED
  BY <1>1, <1>2, <1>3, <1>4 DEF StopRead, StopTerminated, StopKilled

\* As long as nothing excuses it, a Runner trades in the mode of .env or is
\* about to be replaced.
LEMMA FollowStep ==
    ASSUME IInv, [Next]_vars
    PROVE  FollowInv'
<1> SUFFICES ASSUME excuses' = {}
             PROVE  /\ environ' = env'
                    /\ \A p \in Living' : Restarting' \/ runner'[p].mode = env'
                    /\ loop' = "save" => Living' = {}
  BY DEF FollowInv
<1>0. TypeOK /\ RunnerTable /\ environ \in Modes
  BY DEF IInv, TypeOK, RunnerTypeOK, RunnerTable
<1>a. Calm' /\ excuses = {}
  BY DEF Calm, Next, HandlerNext, RunnerStart, BalanceReported, RunnerStop, UpdateSettings,
     SaveSettings, RecheckRunner, StartJob, ResetJob, Request, ApiDies, EnvEdited,
     ManagerNext, StopRead, StopTerminated, StopKilled, RestartStart, managerVars,
     ThreadNext, JobBegins, JobEnds, JobTimesOut, OrphanEnds, vars
<1>b. /\ Calm
      /\ Named /\ BusySettled /\ StartsAlone
      /\ environ = env
      /\ \A p \in Living : Restarting \/ runner[p].mode = env
      /\ loop = "save" => Living = {}
  BY <1>a DEF Calm, IInv, CalmInv, FollowInv
<1>c. ASSUME UNCHANGED runner
      PROVE  Living' = Living /\ \A q \in Living' : runner'[q].mode = runner[q].mode
  BY <1>c, SameTable
<1> USE DEF Restarting, Free
<1>1. CASE RunnerStart \/ RunnerStop \/ StartJob \/ ResetJob
  BY <1>1, <1>b, <1>c DEF RunnerStart, RunnerStop, StartJob, ResetJob, Request, runnerVars
<1>2. CASE BalanceReported
  <2>1. CASE UNCHANGED <<runner, handle, children>>
    BY <1>2, <1>b, <1>c, <2>1 DEF BalanceReported
  <2>2. CASE \E p \in Pids : Popen(p)
    <3>1. \A q \in Living' : runner'[q].mode = environ \/ (q \in Living /\ runner'[q].mode = runner[q].mode)
      BY <1>0, <2>2, PopenEffect
    <3> QED
      BY <1>2, <1>b, <3>1 DEF BalanceReported
  <2> QED
    BY <1>2, <2>1, <2>2 DEF BalanceReported
<1>3. CASE UpdateSettings
  <2>1. CASE SeesAlive(pidFile)
    BY <1>3, <1>b, <1>c, <2>1 DEF UpdateSettings, Request, runnerVars
  <2>2. CASE ~SeesAlive(pidFile)
    <3>1. Starting = {}
      BY <1>0, <1>3, <1>a, CalmRequest DEF UpdateSettings
    <3>2. Living = {}
      BY <1>b, <2>2, <3>1, NoneSeen
    <3> QED
      BY <1>3, <1>b, <1>c, <3>2 DEF UpdateSettings, Request, runnerVars
  <2> QED
    BY <2>1, <2>2
<1>4. CASE SaveSettings
  <2>1. environ' = env' /\ Living' = Living /\ loop' # "save"
    BY <1>4, <1>b, <1>c DEF SaveSettings, SetMode
  <2>2. CASE loop' = "recheck"
    BY <2>1, <2>2
  <2>3. CASE loop = "save"
    BY <1>b, <2>1, <2>3
  <2>4. CASE loop = "save_running" /\ loop' = "free"
    BY <1>4, <1>b, <1>c, <2>1, <2>4 DEF SaveSettings
  <2> QED
    BY <1>4, <2>2, <2>3, <2>4 DEF SaveSettings
<1>5. CASE RecheckRunner
  <2>1. CASE SeesAlive(pidFile)
    BY <1>5, <1>b, <1>c, <2>1 DEF RecheckRunner, runnerVars
  <2>2. CASE ~SeesAlive(pidFile)
    <3>1. Living = {}
      BY <1>5, <1>b, <2>2, NoneSeen DEF RecheckRunner, BusySettled
    <3> QED
      BY <1>5, <1>b, <1>c, <2>2, <3>1 DEF RecheckRunner, runnerVars
  <2> QED
    BY <2>1, <2>2
<1>6. CASE ApiDies \/ EnvEdited
  BY <1>6 DEF ApiDies, EnvEdited
<1>7. CASE ManagerStep
  <2>1. CASE StopRead
    <3>1. Living' \subseteq Living /\ \A q \in Living' : runner'[q].mode = runner[q].mode
      BY <1>0, <2>1, StopStepEffect
    <3>2. CASE SeesAlive(pidFile)
      <4>1. /\ loop = "read" /\ loop' = "terminated"
            /\ UNCHANGED <<env, environ, caller>>
        BY <2>1, <3>2 DEF StopRead, SeesAlive
      <4> QED
        BY <1>b, <3>1, <4>1
    <3>3. CASE ~SeesAlive(pidFile)
      <4>1. Living = {}
        BY <1>b, <2>1, <3>3, NoneSeen DEF BusySettled, StopRead
      <4> QED
        BY <1>7, <1>b, <2>1, <3>1, <4>1 DEF StopRead, Stopped, Return
    <3> QED
      BY <3>2, <3>3
  <2>2. CASE StopTerminated \/ StopKilled
    <3>1. Living' \subseteq Living /\ \A q \in Living' : runner'[q].mode = runner[q].mode
      BY <1>0, <2>2, StopStepEffect
    <3>2. CASE Stopped
      <4>1. ~SeesAlive(target) /\ Living \subseteq {target}
        <5>1. CASE SeesAlive(target)
          BY <1>b, <2>2, <3>2, <5>1 DEF StopTerminated, StopKilled, Stopped, Return
        <5> QED
          BY <1>a, <5>1, <2>2 DEF IInv, CalmInv, Calm, StopsTheOne, StopTerminated, StopKilled
      <4>2. Living = {}
        BY <4>1, WaitedFor
      <4> QED
        BY <1>b, <2>2, <3>1, <3>2, <4>2 DEF StopTerminated, StopKilled, Stopped, Return
    <3>3. CASE ~Stopped
      BY <1>b, <1>a, <2>2, <3>1, <3>3 DEF StopTerminated, StopKilled
    <3> QED
      BY <3>2, <3>3
  <2>3. CASE RestartStart
    <3>1. \A q \in Living' : runner'[q].mode = environ
      BY <1>0, <1>b, <2>3, PopenEffect DEF RestartStart, StartsAlone
    <3> QED
      BY <1>b, <2>3, <3>1 DEF RestartStart
  <2> QED
    BY <1>7, <2>1, <2>2, <2>3 DEF ManagerStep, ManagerNext
<1>8. CASE RunnerStep
  <2>1. Living' \subseteq Living /\ \A q \in Living' : runner'[q].mode = runner[q].mode
    BY <1>0, <1>8, RunnerStepEffect
  <2>2. UNCHANGED <<env, environ, managerVars>>
    BY <1>8 DEF RunnerStep, RunnerNext, WritePid, Trades, Ends, Exits, Dies
  <2> QED
    BY <1>b, <2>1, <2>2 DEF managerVars
<1>9. CASE ThreadStep
  <2>1. Living' = Living /\ \A q \in Living' : runner'[q].mode = runner[q].mode
    BY <1>0, <1>9, ThreadStepEffect
  <2>2. UNCHANGED <<env, environ, managerVars>>
    BY <1>9 DEF ThreadStep, ThreadNext, JobBegins, JobEnds, JobTimesOut, OrphanEnds,
       runnerVars, managerVars
  <2> QED
    BY <1>b, <2>1, <2>2 DEF managerVars
<1>10. CASE UNCHANGED vars
  BY <1>10, <1>b, <1>c DEF vars
<1> QED
  BY <1>1, <1>2, <1>3, <1>4, <1>5, <1>6, <1>7, <1>8, <1>9, <1>10
     DEF Next, HandlerNext, ManagerStep, RunnerStep, ThreadStep

\* As long as nothing overlaps and the API lives, a job has no Runner
\* beside it, no start and no restart on its way.
LEMMA JobStep ==
    ASSUME IInv, [Next]_vars
    PROVE  JobInv'
<1> DEFINE Alone(t) ==
             /\ activeThread = t
             /\ thread[t] \in {"started", "running"}
             /\ thread[t] = "running" => jobStatus = "running"
             /\ Living = {} /\ awaiting = 0
             /\ loop # "start" /\ caller # "restart"
<1> SUFFICES ASSUME excuses' \cap {"overlap", "api"} = {},
                    NEW t \in Threads, Busy(t)'
             PROVE  Alone(t)'
  BY DEF JobInv
<1>0. TypeOK /\ CallerInv /\ thread \in [Threads -> ThreadState]
  BY DEF IInv, TypeOK, JobTypeOK
<1>a. Calm' /\ excuses \cap {"overlap", "api"} = {}
  BY DEF Calm, Next, HandlerNext, RunnerStart, BalanceReported, RunnerStop, UpdateSettings,
     SaveSettings, RecheckRunner, StartJob, ResetJob, Request, ApiDies, EnvEdited,
     ManagerNext, StopRead, StopTerminated, StopKilled, RestartStart, managerVars,
     ThreadNext, JobBegins, JobEnds, JobTimesOut, OrphanEnds, vars
<1>b. /\ Calm /\ Named /\ AwaitingAlone /\ BusySettled /\ StartsAlone /\ Handled
      /\ \A u \in Threads : Busy(u) => Alone(u)
  BY <1>a DEF Calm, IInv, CalmInv, JobInv
<1>1. ASSUME UNCHANGED <<thread, activeThread, jobStatus>>
      PROVE  Busy(t) /\ Alone(t)
  BY <1>b, <1>1 DEF Busy
<1>2. CASE RunnerStart
  <2>1. awaiting = 0 /\ thread[t] # "started"
    BY <1>0, <1>2, <1>a, CalmRequest DEF RunnerStart
  <2> QED
    BY <1>1, <1>2, <2>1 DEF RunnerStart, jobVars
<1>3. CASE BalanceReported
  BY <1>1, <1>3, <1>0, StartsAssumption DEF BalanceReported, jobVars, TypeOK
<1>4. CASE RunnerStop \/ UpdateSettings \/ SaveSettings
  BY <1>1, <1>4, SameTable DEF RunnerStop, UpdateSettings, SaveSettings, runnerVars, jobVars
<1>5. CASE RecheckRunner
  <2>1. ~SeesAlive(pidFile)
    BY <1>1, <1>5, <1>b, SeenLives DEF RecheckRunner, jobVars
  <2> QED
    BY <1>1, <1>5, <2>1, SameTable DEF RecheckRunner, runnerVars, jobVars
<1>6. CASE StartJob
  <2>0. Starting = {} /\ awaiting = 0 /\ \A u \in Threads : thread[u] # "started"
    BY <1>0, <1>6, <1>a, CalmRequest DEF StartJob
  <2>1. \A u \in Threads : ~Busy(u)
    <3> SUFFICES ASSUME NEW u \in Threads, Busy(u)
                 PROVE  FALSE
      OBVIOUS
    <3>1. thread[u] = "running" /\ jobStatus = "running" /\ activeThread = u
      BY <1>b, <2>0
    <3>2. u # NoThread
      BY ThreadAssumption
    <3> QED
      BY <1>6, <3>1, <3>2 DEF StartJob, JobForgotten, ThreadAlive
  <2>2. PICK u \in Threads : /\ thread' = [thread EXCEPT ![u] = "started"]
                             /\ activeThread' = u
                             /\ ~SeesAlive(pidFile)
    BY <1>6, <2>1 DEF StartJob, Busy
  <2>3. t = u /\ thread'[t] = "started"
    BY <1>0, <2>1, <2>2 DEF Busy
  <2>4. Living = {} /\ Living' = Living
    BY <1>b, <1>6, <2>0, <2>2, NoneSeen, SameTable DEF StartJob, runnerVars
  <2>5. loop = "free" /\ caller = "none"
    BY <1>0, <1>6 DEF StartJob, Request, Free, CallerInv
  <2> QED
    BY <1>6, <2>0, <2>2, <2>3, <2>4, <2>5 DEF StartJob
<1>7. CASE ResetJob
  <2>1. Busy(t) /\ Alone(t)
    BY <1>b, <1>7 DEF ResetJob, Busy
  <2>2. thread[t] # "running"
    BY <1>7, <2>1, ThreadAssumption DEF ResetJob, JobForgotten, ThreadAlive
  <2> QED
    BY <1>7, <2>1, <2>2, SameTable DEF ResetJob, runnerVars
<1>8. CASE ApiDies
  BY <1>8 DEF ApiDies
<1>9. CASE EnvEdited
  BY <1>1, <1>9, SameTable DEF EnvEdited, EditEnv, jobVars
<1>10. CASE ManagerStep
  <2>1. Busy(t) /\ Alone(t) /\ UNCHANGED <<jobVars, awaiting>>
    BY <1>1, <1>10 DEF ManagerStep, jobVars
  <2>2. CASE StopRead \/ StopTerminated \/ StopKilled
    <3>1. Living' = {}
      BY <1>0, <2>1, <2>2, StopStepEffect
    <3>2. loop' # "start" /\ caller' # "restart"
      BY <2>1, <2>2 DEF StopRead, StopTerminated, StopKilled, Stopped, Return
    <3> QED
      BY <2>1, <3>1, <3>2 DEF jobVars
  <2>3. CASE RestartStart
    BY <2>1, <2>3 DEF RestartStart
  <2> QED
    BY <1>10, <2>2, <2>3 DEF ManagerStep, ManagerNext
<1>11. CASE RunnerStep
  <2>1. Living' \subseteq Living /\ UNCHANGED <<jobVars, managerVars, awaiting>>
    BY <1>0, <1>11, RunnerStepEffect DEF RunnerStep
  <2> QED
    BY <1>1, <2>1 DEF jobVars, managerVars
<1>12. CASE ThreadStep
  <2>1. Living' = Living /\ UNCHANGED awaiting
    BY <1>0, <1>12, ThreadStepEffect DEF ThreadStep
  <2>2. PICK u \in Threads : JobBegins(u) \/ JobEnds(u) \/ JobTimesOut(u) \/ OrphanEnds(u)
    BY <1>12 DEF ThreadStep, ThreadNext
  <2>3. Busy(t) /\ Alone(t)
    BY <1>0, <1>b, <2>2 DEF JobBegins, JobEnds, JobTimesOut, OrphanEnds, Busy
  <2>4. CASE t = u
    <3>1. JobBegins(t)
      BY <1>0, <2>2, <2>3, <2>4 DEF JobEnds, JobTimesOut, OrphanEnds, Busy
    <3> QED
      BY <1>0, <2>1, <2>3, <3>1 DEF JobBegins, managerVars
  <2>5. CASE t # u
    <3>1. ~Busy(u)
      BY <1>b, <2>3, <2>5
    <3>2. thread'[t] = thread[t] /\ UNCHANGED <<activeThread, jobStatus, managerVars>>
      BY <1>0, <2>2, <2>5, <3>1 DEF JobBegins, JobEnds, JobTimesOut, OrphanEnds, Busy
    <3> QED
      BY <2>1, <2>3, <3>2 DEF managerVars
  <2> QED
    BY <2>4, <2>5
<1>13. CASE UNCHANGED vars
  BY <1>1, <1>13, SameTable DEF vars
<1> QED
  BY <1>2, <1>3, <1>4, <1>5, <1>6, <1>7, <1>8, <1>9, <1>10, <1>11, <1>12, <1>13
     DEF Next, HandlerNext, ManagerStep, RunnerStep, ThreadStep

-----------------------------------------------------------------------------
(* The invariant and what follows from it.                                 *)

\* Before the first request there is no Runner, no job and no handle.
LEMMA InitInv ==
    ASSUME Init
    PROVE  IInv
<1>1. TypeOK
  <2>1. RunnerTypeOK
    BY DEF Init, RunnerTypeOK, RunnerState, NoRunner
  <2>2. ManagerTypeOK
    BY DEF Init, ManagerTypeOK, LoopStep, Caller, Excuse
  <2>3. JobTypeOK
    BY DEF Init, JobTypeOK, ThreadState, JobStatus
  <2> QED
    BY <2>1, <2>2, <2>3, StartsAssumption DEF Init, TypeOK
<1>2. Living = {} /\ Zombies = {}
  BY DEF Init, NoRunner, Living, Zombies
<1> QED
  BY <1>1, <1>2 DEF Init, IInv, CallerInv, CalmInv, OneRunner, Named, AwaitingAlone,
     BusySettled, StopsTheOne, StartsAlone, Handled, Free, FollowInv, JobInv, Busy

\* No step of a handler, of the process manager, of a job or of a Runner
\* breaks the inductive invariant.
THEOREM ControlInvariant == Spec => []IInv
<1>1. IInv /\ [Next]_vars => IInv'
  <2> SUFFICES ASSUME IInv, [Next]_vars
               PROVE  IInv'
    OBVIOUS
  <2>1. TypeOK' /\ CallerInv'
    BY TypeStep, CallerStep DEF IInv
  <2>2. CalmInv' /\ FollowInv' /\ JobInv'
    BY CalmStep, FollowStep, JobStep
  <2> QED
    BY <2>1, <2>2 DEF IInv
<1> QED
  BY InitInv, <1>1, PTL DEF Spec

\* Every variable keeps its type.
THEOREM ControlTypeCorrect == Spec => []TypeOK
<1>1. IInv => TypeOK
  BY DEF IInv
<1> QED
  BY <1>1, ControlInvariant, PTL

\* Two Runners never trade the same account, unless a request came while an
\* earlier one was still taking effect: not after a crash of the API or of
\* a Runner, a stop that failed or an edit of .env.
THEOREM OnlyOneRunner == Spec => []AtMostOneRunner
<1>1. IInv => AtMostOneRunner
  BY DEF IInv, CalmInv, Calm, OneRunner, AtMostOneRunner, Excused
<1> QED
  BY <1>1, ControlInvariant, PTL

\* Under the same condition the PID file names the Runner that trades, so
\* that it can be stopped.
THEOREM RunnerStaysKnown == Spec => []RunnerIsKnown
<1>1. IInv => RunnerIsKnown
  BY DEF IInv, CalmInv, Calm, Named, RunnerIsKnown, Excused
<1> QED
  BY <1>1, ControlInvariant, PTL

\* A dead Runner named by the PID file is a child whose handle the API
\* holds, so that poll() tells it from a living one.
THEOREM ZombieStaysRecognized == Spec => []ZombieIsRecognized
<1>1. IInv => ZombieIsRecognized
  BY DEF IInv, CalmInv, Calm, Handled, ZombieIsRecognized, Excused
<1> QED
  BY <1>1, ControlInvariant, PTL

\* When update_settings has answered, no Runner trades in a mode that .env
\* has left, unless something excuses it.
THEOREM ModeFollowsEnv == Spec => []RunnerFollowsEnv
<1>1. IInv => RunnerFollowsEnv
  BY DEF IInv, FollowInv, Restarting, RunnerFollowsEnv, Excused, TypeOK, ManagerTypeOK, Free
<1> QED
  BY <1>1, ControlInvariant, PTL

\* No process that a job has started runs beside a Runner, unless requests
\* overlap or the API dies.  What a timeout leaves of the pool of an optimizer
\* may (JobAndBotApart, which counts it, fails).
THEOREM JobsStayApart == Spec => []JobAndBotApartIfCalm
<1>1. IInv => JobAndBotApartIfCalm
  BY DEF IInv, JobInv, Busy, JobAndBotApartIfCalm, JobsRunning, Excused
<1> QED
  BY <1>1, ControlInvariant, PTL

\* restart_runner goes on to start a Runner only when the one it has waited
\* for is dead, whatever the requests, the jobs and the Runners do.
THEOREM RestartAlwaysReplaces == Spec => RestartReplaces
<1>1. TypeOK /\ [Next]_vars =>
        [loop = "terminated" \/ loop = "killed"
            => (loop' = "start" => target \notin Living)]_vars
  <2> SUFFICES ASSUME TypeOK, [Next]_vars, loop \in {"terminated", "killed"}, loop' = "start"
               PROVE  target \notin Living
    OBVIOUS
  <2>1. StopTerminated \/ StopKilled
    BY DEF Next, HandlerNext, RunnerStart, BalanceReported, RunnerStop, UpdateSettings,
       SaveSettings, RecheckRunner, StartJob, ResetJob, Request, Free, ApiDies, EnvEdited,
       ManagerNext, StopRead, RestartStart, RunnerNext, ThreadNext, JobBegins, JobEnds,
       JobTimesOut, OrphanEnds, managerVars, vars
  <2>2. ~SeesAlive(target)
    BY <2>1 DEF StopTerminated, StopKilled
  <2> QED
    BY <2>2, ProcessAssumption DEF SeesAlive, Living
<1> QED
  BY <1>1, ControlTypeCorrect, PTL DEF Spec, RestartReplaces
=============================================================================
