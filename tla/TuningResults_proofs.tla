------------------------ MODULE TuningResults_proofs ------------------------
(***************************************************************************)
(* What the jobs tell their user: the type invariant of TuningJobs, whose  *)
(* trades a combination is scored by, whose report a job shows, what the   *)
(* history lists and when a stale configuration is warned of; for any      *)
(* number of jobs, workers and parameters and any length of the history.   *)
(***************************************************************************)
EXTENDS TuningJobs_proofs, FiniteSetTheorems, SequenceTheorems

Outdone == {"ok", "failed", "killed"}

\* The main process of a job, whatever it has got to.
Process == [phase : Phase, minimum : Minimums \cup {0}, pending : SUBSET Params,
            results : SUBSET Outcome, base : Params \cup {Nothing},
            chosen : Params \cup {Nothing}, verdict : VerdictStatus \cup {Nothing}]

Shapes ==
    /\ proc \in [Jobs -> Process]
    /\ pool \in [Jobs -> SUBSET Task]
    /\ rows \in [Users -> SUBSET Evidence]
    /\ thread \in [Jobs -> ThreadState] /\ kinds \in [Jobs -> Kinds]
    /\ entry \in [Jobs -> {Nothing} \cup Entry]

\* The kind of a job is that of its process, and only an evaluation has
\* tasks: a killed one may leave some to its workers.
Phases(kind) ==
    Outdone \cup IF kind = "optimizer" THEN {"evaluating", "validating", "exporting"}
                                       ELSE {"resetting", "replaying"}

LifeOf(j) ==
    /\ thread[j] \in {"none", "started"} => proc[j].phase = "none"
    /\ proc[j].phase # "none" => proc[j].phase \in Phases(kinds[j])
    /\ ~Idle(j) => proc[j].phase \in {"evaluating", "killed"} /\ kinds[j] = "optimizer"
    /\ proc[j].results # {} => proc[j].phase \in {"evaluating", "validating", "exporting"}
    /\ proc[j].phase \in {"validating", "exporting"} => proc[j].chosen \in Params
    /\ proc[j].phase \in {"resetting", "replaying"} => proc[j].base \in Params

\* A thread knows of a process until it has an entry for the history.
ThreadOf(j) ==
    /\ thread[j] = "waiting" => proc[j].phase # "none"
    /\ thread[j] \in {"saving", "writing"} => ~Alive(j)
    /\ thread[j] \in {"none", "started", "waiting"} => entry[j] = Nothing
    /\ thread[j] \in {"saving", "writing"} => entry[j] # Nothing
    /\ entry[j] # Nothing => entry[j].job = j /\ entry[j].kind = kinds[j] /\ entry[j].at <= clock

LifeInv == Shapes /\ \A j \in Jobs : LifeOf(j) /\ ThreadOf(j)

\* Neither have jobs overlapped nor has the API died.
Orderly == excuses \cap {"overlap", "api"} = {}

\* Then the newest job is the only one that may be alive, in the API as among
\* the processes, and every job that is over is told to the history.
OneAtATime ==
    Orderly => \A j \in Jobs :
        /\ ThreadAlive(j) => \A k \in Jobs : k > j => thread[k] = "none"
        /\ Alive(j) => thread[j] = "waiting"
        /\ thread[j] = "over" => entry[j] # Nothing

\* Every time stamp is handed out once: by a thread at its end or by an export.
Stamped == {j \in Jobs : thread[j] \in {"saving", "writing", "over"}}
Exported == {j \in Jobs : proc[j].phase \in Outdone}
ClockCounts == clock \in Nat /\ clock <= Cardinality(Stamped) + Cardinality(Exported)

FilesTyped ==
    /\ \A j \in Jobs : IsFiniteSet(pool[j]) /\ Cardinality(pool[j]) <= Workers
    /\ report \in [Kinds -> 0..MaxJobs] /\ progress \in 0..MaxJobs
    /\ best \in {Torn} \cup [params : Params, job : 0..MaxJobs, at : Nat]
    /\ job \in [status : {"idle", "running", "done", "error"}, result : 0..MaxJobs]
    /\ draft \in [Jobs -> Seq(Entry)]
    /\ history = Torn \/ history \in Seq(Entry)
    /\ env \in Params \cup {Unusable} /\ runner \in Params \cup {NotRunning}
    /\ excuses \subseteq Excuse

-----------------------------------------------------------------------------
\* What waits for a worker is on the list of its job.
Listed == \A j \in Jobs : proc[j].pending \subseteq Combinations(proc[j].minimum)

\* Whose trades a sandbox holds: of jobs that have begun, each in its place on
\* its own list.
OwnRows == \A u \in Users \ {Single} : \A e \in rows[u] :
    /\ proc[e[1]].phase # "none"
    /\ e[2] \in Combinations(proc[e[1]].minimum)
    /\ Sandbox(e[1], e[2]) = u

OwnTasks == \A j \in Jobs : \A task \in pool[j] :
    /\ task.config = task.combo /\ task.combo \notin proc[j].pending
    /\ task.combo \in Combinations(proc[j].minimum)

OwnResults ==
    \A j \in Jobs : \A r \in proc[j].results : \A e \in r.measured : proc[e[1]].phase # "none"

\* Without trouble only the job that is waited for has tasks, and the sandbox
\* of a task is empty until its replay ends.
Undisturbed ==
    excuses = {} => \A j \in Jobs :
        /\ ~Idle(j) => thread[j] = "waiting"
        /\ \A task \in pool[j] : rows[Sandbox(j, task.combo)] = {}

EvidenceInv == OwnRows /\ OwnTasks /\ OwnResults /\ Undisturbed /\ MeasuredAlone

\* Whose report is on disk when its job is waited for.
OwnReport ==
    Orderly => \A j \in Jobs : thread[j] = "waiting" => report[kinds[j]] \in {0, j}

LastShown ==
    Orderly /\ job.status = "done" =>
        \/ job.result = 0
        \/ /\ entry[job.result] # Nothing
           /\ \A k \in Jobs : k > job.result => entry[k] = Nothing

ReportInv == OwnReport /\ LastShown

\* The file is older than what a later job has told.
FileBefore ==
    best # Torn =>
        /\ best.at <= clock
        /\ Orderly => \A k \in Jobs : entry[k] # Nothing /\ best.job < k => best.at < entry[k].at

-----------------------------------------------------------------------------
\* The saved jobs of the kind of j that are not older than j.
Newer(saved, kind, j) == {k \in saved : kind[k] = kind[j] /\ k >= j}

\* A list of what was told, newest first, of the newest jobs of each kind.
Tells(list, saved, told, kind) ==
    /\ \A i, k \in DOMAIN list : i < k => list[i].job > list[k].job
    /\ \A i \in DOMAIN list : list[i].job \in saved /\ list[i] = told[list[i].job]
    /\ \A j \in saved :
          (\E i \in DOMAIN list : list[i].job = j)
              <=> Cardinality(Newer(saved, kind, j)) <= MaxHistory

Over == {j \in Jobs : thread[j] = "over"}

\* The file, or what is being written into it.
HistoryTells ==
    Orderly =>
        /\ (\A j \in Jobs : thread[j] # "writing") => history # Torn
        /\ history # Torn => Tells(history, Over, entry, kinds)
        /\ \A j \in Jobs :
              thread[j] = "writing" => Tells(draft[j], Over \cup {j}, entry, kinds)

-----------------------------------------------------------------------------
(* Finite sets of numbers.                                                 *)

LEMMA Least ==
    ASSUME NEW T, T \subseteq Nat, T # {}
    PROVE  \E x \in T : \A y \in T : x <= y
<1>1. PICK x \in T : \A y \in T : ~(<<y, x>> \in OpToRel(<, Nat))
    BY NatLessThanWellFounded, WFMin
<1>2. ASSUME NEW y \in T PROVE x <= y
    <2>1. x \in Nat /\ y \in Nat
        OBVIOUS
    <2>2. ~(y < x)
        BY <1>1, <2>1 DEF OpToRel
    <2> QED
        BY <2>1, <2>2
<1> QED
    BY <1>2

\* How many members are not above k, as f orders them.
Standing(f, A, k) == Cardinality({n \in A : f[n] <= f[k]})

LEMMA StandingIsNat ==
    ASSUME NEW A, IsFiniteSet(A), NEW f, NEW k \in A, f[k] \in Int
    PROVE  Standing(f, A, k) \in 1..Cardinality(A)
<1> DEFINE B == {n \in A : f[n] <= f[k]}
<1>1. IsFiniteSet(B) /\ Cardinality(B) <= Cardinality(A)
    BY FS_Subset
<1>2. k \in B
    OBVIOUS
<1>3. Cardinality(B) # 0
    BY <1>1, <1>2, FS_EmptySet
<1>4. Cardinality(B) \in Nat /\ Cardinality(A) \in Nat
    BY <1>1, FS_CardinalityType
<1> HIDE DEF B
<1>5. Cardinality(B) \in 1..Cardinality(A)
    BY <1>1, <1>3, <1>4
<1> QED
    BY <1>5 DEF B, Standing

LEMMA StandingRises ==
    ASSUME NEW A, IsFiniteSet(A), NEW f \in [A -> Int], NEW k \in A, NEW l \in A, f[k] < f[l]
    PROVE  Standing(f, A, k) < Standing(f, A, l)
<1> DEFINE B == {n \in A : f[n] <= f[k]}
           C == {n \in A : f[n] <= f[l]}
<1>1. B \subseteq C /\ l \in C /\ l \notin B
    OBVIOUS
<1>2. IsFiniteSet(C)
    BY FS_Subset
<1>3. Cardinality(B) <= Cardinality(C) /\ Cardinality(B) # Cardinality(C) /\ IsFiniteSet(B)
    BY <1>1, <1>2, FS_Subset
<1>4. Cardinality(B) \in Nat /\ Cardinality(C) \in Nat
    BY <1>2, <1>3, FS_CardinalityType
<1> HIDE DEF B, C
<1>5. Cardinality(B) < Cardinality(C)
    BY <1>3, <1>4
<1> QED
    BY <1>5 DEF B, C, Standing

LEMMA Highest ==
    ASSUME NEW A, IsFiniteSet(A), A # {}, NEW f \in [A -> Int]
    PROVE  \E m \in A : \A n \in A : f[n] <= f[m]
<1> DEFINE T == {Cardinality(A) - Standing(f, A, n) : n \in A}
<1>0. Cardinality(A) \in Nat
    BY FS_CardinalityType
<1>1. T \subseteq Nat
    BY <1>0, StandingIsNat
<1>2. PICK x \in T : \A y \in T : x <= y
    <2>1. T # {}
        OBVIOUS
    <2> QED
        BY <1>1, <2>1, Least
<1>3. PICK m \in A : x = Cardinality(A) - Standing(f, A, m)
    OBVIOUS
<1>4. ASSUME NEW n \in A PROVE f[n] <= f[m]
    <2>1. Cardinality(A) - Standing(f, A, m) <= Cardinality(A) - Standing(f, A, n)
        BY <1>2, <1>3
    <2>2. Standing(f, A, m) \in Nat /\ Standing(f, A, n) \in Nat
        BY StandingIsNat, <1>0
    <2>3. ~(Standing(f, A, m) < Standing(f, A, n))
        BY <1>0, <2>1, <2>2
    <2>4. ~(f[m] < f[n])
        BY <2>3, StandingRises
    <2> QED
        BY <2>4
<1> QED
    BY <1>4

\* Every rank is taken.
LEMMA StandingTaken ==
    ASSUME NEW A, IsFiniteSet(A), NEW f \in [A -> Int],
           \A k, l \in A : f[k] = f[l] => k = l,
           NEW i \in 1..Cardinality(A)
    PROVE  \E k \in A : Standing(f, A, k) = i
<1> DEFINE H == {k \in A : Standing(f, A, k) >= i}
           g == [k \in H |-> -f[k]]
<1>0. Cardinality(A) \in Nat
    BY FS_CardinalityType
<1>1. H # {}
    <2>1. A # {}
        BY <1>0, FS_EmptySet
    <2>2. PICK m \in A : \A n \in A : f[n] <= f[m]
        BY <2>1, Highest
    <2>3. {n \in A : f[n] <= f[m]} = A
        BY <2>2
    <2>4. Standing(f, A, m) >= i
        BY <1>0, <2>3 DEF Standing
    <2> QED
        BY <2>4
<1>2. IsFiniteSet(H) /\ g \in [H -> Int]
    BY FS_Subset
<1>3. PICK k \in H : \A n \in H : g[n] <= g[k]
    BY <1>1, <1>2, Highest
<1>4. \A n \in H : f[k] <= f[n]
    BY <1>3
<1> HIDE DEF g
<1> DEFINE B == {n \in A : f[n] <= f[k]}
           D == B \ {k}
<1>5. k \in A /\ IsFiniteSet(B) /\ k \in B
    BY FS_Subset
<1>6. IsFiniteSet(D) /\ Cardinality(D) = Cardinality(B) - 1
    BY <1>5, FS_RemoveElement
<1>7. Cardinality(B) \in Nat /\ Cardinality(B) >= i /\ Cardinality(B) = Standing(f, A, k)
    BY <1>5, FS_CardinalityType DEF Standing
<1>8. CASE Cardinality(B) # i
    <2>1. Cardinality(D) >= i /\ Cardinality(D) # 0 /\ Cardinality(D) \in Nat
        BY <1>6, <1>7, <1>8
    <2>2. D # {}
        BY <2>1, FS_EmptySet
    <2> DEFINE h == [n \in D |-> f[n]]
    <2>3. h \in [D -> Int]
        OBVIOUS
    <2>4. PICK p \in D : \A n \in D : h[n] <= h[p]
        BY <1>6, <2>2, <2>3, Highest
    <2>5. \A n \in D : f[n] <= f[p]
        BY <2>4
    <2>6. p \in A /\ f[p] <= f[k] /\ f[p] # f[k]
        BY <1>5
    <2>7. {n \in A : f[n] <= f[p]} = D
        <3>1. ASSUME NEW n \in A, f[n] <= f[p] PROVE n \in D
            BY <1>5, <2>6, <3>1
        <3> QED
            BY <2>5, <3>1
    <2>8. p \in H
        BY <2>1, <2>6, <2>7 DEF Standing
    <2> QED
        BY <1>4, <1>5, <2>6, <2>8
<1> QED
    BY <1>5, <1>7, <1>8

LEMMA HighestNumber ==
    ASSUME NEW A, IsFiniteSet(A), A # {}, A \subseteq Int
    PROVE  Max(A) \in A /\ \A n \in A : n <= Max(A)
<1> DEFINE f == [n \in A |-> n]
<1>1. PICK m \in A : \A n \in A : f[n] <= f[m]
    BY Highest
<1>2. \E x \in A : \A n \in A : x >= n
    BY <1>1
<1> QED
    BY <1>2, Zenon DEF Max

LEMMA LowestNumber ==
    ASSUME NEW A, A # {}, A \subseteq Nat
    PROVE  Min(A) \in A /\ \A n \in A : Min(A) <= n
<1>1. \E m \in A : \A n \in A : m <= n
    BY Least
<1> QED
    BY <1>1, Zenon DEF Min

-----------------------------------------------------------------------------
(* What Kept leaves of a list.                                             *)

Older(seq, i) == Cardinality({k \in 1..i : seq[k].kind = seq[i].kind})
KeptAt(seq) == {i \in 1..Len(seq) : Older(seq, i) <= MaxHistory}

\* It is the list of what stands at the kept positions, in their order.
InOrder(seq, at) ==
    /\ at \in [DOMAIN Kept(seq) -> KeptAt(seq)]
    /\ DOMAIN Kept(seq) = 1..Cardinality(KeptAt(seq))
    /\ Cardinality(KeptAt(seq)) \in Nat
    /\ \A i \in DOMAIN Kept(seq) : Kept(seq)[i] = seq[at[i]]
    /\ \A i, k \in DOMAIN Kept(seq) : i < k => at[i] < at[k]
    /\ \A p \in KeptAt(seq) : \E i \in DOMAIN Kept(seq) : at[i] = p

LEMMA KeptPositions ==
    ASSUME NEW seq, Len(seq) \in Nat
    PROVE  \E at : InOrder(seq, at)
<1> DEFINE A == KeptAt(seq)
           N == Cardinality(A)
           f == [n \in A |-> n]
           before(k) == Standing(f, A, k)
           at == [i \in 1..N |-> CHOOSE k \in A : before(k) = i]
<1>1. Kept(seq) = [i \in 1..N |-> seq[at[i]]]
    <2>1. \A k \in A : Cardinality({n \in A : n <= k}) = before(k)
        BY DEF Standing
    <2>2. \A i : (CHOOSE k \in A : Cardinality({n \in A : n <= k}) = i)
                 = CHOOSE k \in A : before(k) = i
        <3> HIDE DEF before, A
        <3> QED
            BY <2>1
    <2>3. Kept(seq) = [i \in 1..N |-> seq[CHOOSE k \in A : Cardinality({n \in A : n <= k}) = i]]
        BY DEF Kept, KeptAt, Older
    <2> HIDE DEF before, A, N
    <2>4. \A i \in 1..N : seq[at[i]] = seq[CHOOSE k \in A : Cardinality({n \in A : n <= k}) = i]
        BY <2>2
    <2> HIDE DEF at
    <2> QED
        BY <2>3, <2>4
<1>2. A \subseteq 1..Len(seq) /\ IsFiniteSet(A)
    <2>1. A \subseteq 1..Len(seq)
        BY DEF KeptAt
    <2>2. IsFiniteSet(1..Len(seq))
        BY FS_Interval
    <2> QED
        BY <2>1, <2>2, FS_Subset
<1>3. N \in Nat
    BY <1>2, FS_CardinalityType
<1>4. /\ f \in [A -> Int] /\ \A k, l \in A : f[k] = f[l] => k = l
      /\ \A k \in A : f[k] = k /\ k \in Nat
    BY <1>2
<1> HIDE DEF A, N, f
<1>5. \A i \in 1..N : \E k \in A : before(k) = i
    BY <1>2, <1>4, StandingTaken DEF N
<1>6. \A k \in A : before(k) \in 1..N
    BY <1>2, <1>4, StandingIsNat DEF N
<1>7. \A k, l \in A : k < l => before(k) < before(l)
    BY <1>2, <1>4, StandingRises
<1> HIDE DEF before
<1>8. at \in [1..N -> A] /\ \A i \in 1..N : before(at[i]) = i
    BY <1>5
<1> HIDE DEF at
<1>9. ASSUME NEW k \in A, NEW l \in A
      PROVE  /\ before(k) = before(l) => k = l
             /\ before(k) < before(l) => k < l
    <2>1. /\ k \in Nat /\ l \in Nat /\ before(k) \in Nat /\ before(l) \in Nat
          /\ (k < l => before(k) < before(l)) /\ (l < k => before(l) < before(k))
        BY <1>3, <1>4, <1>6, <1>7
    <2> QED
        BY <2>1
<1>10. \A i, k \in 1..N : i < k => at[i] < at[k]
    BY <1>8, <1>9
<1>11. ASSUME NEW p \in A PROVE \E i \in 1..N : at[i] = p
    BY <1>6, <1>8, <1>9
<1>12. DOMAIN Kept(seq) = 1..N /\ \A i \in 1..N : Kept(seq)[i] = seq[at[i]]
    BY <1>1
<1>13. InOrder(seq, at)
    BY <1>3, <1>8, <1>10, <1>11, <1>12 DEF A, N, InOrder
<1> QED
    BY <1>13

LEMMA KeptIsAList ==
    ASSUME NEW S, NEW seq \in Seq(S)
    PROVE  Kept(seq) \in Seq(S)
<1>1. Len(seq) \in Nat /\ \A p \in 1..Len(seq) : seq[p] \in S
    OBVIOUS
<1>2. PICK at : InOrder(seq, at)
    BY <1>1, KeptPositions
<1>3. \A i \in DOMAIN Kept(seq) : Kept(seq)[i] \in S
    BY <1>1, <1>2 DEF KeptAt, InOrder
<1>4. Kept(seq) = [i \in 1..Cardinality(KeptAt(seq)) |-> Kept(seq)[i]]
    BY <1>2, Zenon DEF Kept, InOrder
<1> QED
    BY <1>2, <1>3, <1>4, SeqDef DEF InOrder
-----------------------------------------------------------------------------
(* The kinds of jobs and the life of their processes.                      *)

\* The process of one job moves.
Moved(j) == proc' \in [Jobs -> Process] /\ \A i \in Jobs \ {j} : proc'[i] = proc[i]

LEMMA ProcessFields ==
    ASSUME NEW P \in Process
    PROVE  /\ P.phase \in Phase /\ P.minimum \in Minimums \cup {0}
           /\ P.pending \subseteq Params /\ P.results \subseteq Outcome
           /\ P.base \in Params \cup {Nothing} /\ P.chosen \in Params \cup {Nothing}
           /\ P.verdict \in VerdictStatus \cup {Nothing}
           /\ DOMAIN P = Fields
BY DEF Process, Fields

LEMMA LifeKept ==
    ASSUME LifeInv, NEW j \in Jobs, Moved(j), clock \in Nat, clock' \in Nat, clock' >= clock,
           pool' \in [Jobs -> SUBSET Task], \A i \in Jobs \ {j} : pool'[i] = pool[i],
           rows' \in [Users -> SUBSET Evidence],
           thread' \in [Jobs -> ThreadState], \A i \in Jobs \ {j} : thread'[i] = thread[i],
           kinds' \in [Jobs -> Kinds], \A i \in Jobs \ {j} : kinds'[i] = kinds[i],
           entry' \in [Jobs -> {Nothing} \cup Entry], \A i \in Jobs \ {j} : entry'[i] = entry[i],
           LifeOf(j)', ThreadOf(j)'
    PROVE  LifeInv'
<1>1. Shapes'
    BY DEF Shapes, Moved
<1>2. ASSUME NEW i \in Jobs \ {j} PROVE LifeOf(i)' /\ ThreadOf(i)'
    <2>1. LifeOf(i) /\ ThreadOf(i)
        BY DEF LifeInv
    <2>2. /\ proc'[i] = proc[i] /\ pool'[i] = pool[i] /\ thread'[i] = thread[i]
          /\ kinds'[i] = kinds[i] /\ entry'[i] = entry[i]
        BY DEF Moved
    <2>3. LifeOf(i)'
        BY <2>1, <2>2 DEF LifeOf, Idle, Alive
    <2>4. ThreadOf(i)'
        <3>1. entry[i] # Nothing => entry[i].at \in Nat
            BY DEF LifeInv, Shapes, Entry
        <3> QED
            BY <2>1, <2>2, <3>1 DEF ThreadOf, Alive
    <2> QED
        BY <2>3, <2>4
<1> QED
    BY <1>1, <1>2 DEF LifeInv

\* A step of the processes that leaves the threads alone.
LEMMA ProcessLife ==
    ASSUME LifeInv, NEW j \in Jobs, Moved(j), clock \in Nat, clock' \in Nat, clock' >= clock,
           pool' \in [Jobs -> SUBSET Task], \A i \in Jobs \ {j} : pool'[i] = pool[i],
           rows' \in [Users -> SUBSET Evidence], UNCHANGED <<thread, kinds, entry>>,
           proc[j].phase # "none", proc'[j].phase # "none",
           Alive(j)' => Alive(j),
           LifeOf(j)'
    PROVE  LifeInv'
<1>1. ThreadOf(j)'
    <2>1. ThreadOf(j) /\ (entry[j] # Nothing => entry[j].at \in Nat)
        BY DEF LifeInv, Shapes, Entry
    <2> QED
        BY <2>1 DEF ThreadOf
<1> QED
    BY <1>1, LifeKept DEF LifeInv, Shapes

\* Every place on a list is the number of a sandbox user.
LEMMA SandboxIsUser ==
    ASSUME NEW j, NEW c
    PROVE  Sandbox(j, c) \in Users
<1> DEFINE A == {p \in Combinations(proc[j].minimum) : Position[p] <= Position[c]}
<1>1. A \in SUBSET Params
    BY DEF Combinations
<1>2. IsFiniteSet(Params)
    BY OptimizerAssumption
<1> HIDE DEF A
<1>3. IsFiniteSet(A) /\ Cardinality(A) <= Cardinality(Params)
    BY <1>1, <1>2, FS_Subset
<1>4. Cardinality(A) \in Nat /\ Cardinality(Params) \in Nat
    BY <1>2, <1>3, FS_CardinalityType
<1>5. Cardinality(A) \in Users
    BY <1>3, <1>4 DEF Users
<1> QED
    BY <1>5 DEF Sandbox, A

LEMMA SingleIsUser == Single \in Users
<1>1. Cardinality(Params) \in Nat
    BY OptimizerAssumption, FS_CardinalityType
<1> QED
    BY <1>1 DEF Single, Users

LEMMA TakeTaskSteps ==
    ASSUME LifeInv, NEW j \in Jobs, TakeTask(j)
    PROVE  \E c \in proc[j].pending :
              /\ Moved(j)
              /\ proc'[j].phase = proc[j].phase
              /\ proc'[j].pending = proc[j].pending \ {c}
              /\ proc'[j].results = proc[j].results
              /\ proc'[j].base = proc[j].base
              /\ proc'[j].chosen = proc[j].chosen
              /\ c \in Params /\ [combo |-> c, config |-> c] \in Task
              /\ pool' = [pool EXCEPT ![j] = @ \cup {[combo |-> c, config |-> c]}]
              /\ rows' = [rows EXCEPT ![Sandbox(j, c)] = {}]
<1>1. PICK c \in proc[j].pending :
          /\ proc' = [proc EXCEPT ![j].pending = @ \ {c}]
          /\ pool' = [pool EXCEPT ![j] = @ \cup {[combo |-> c, config |-> c]}]
          /\ rows' = [rows EXCEPT ![Sandbox(j, c)] = {}]
    BY DEF TakeTask
<1>2. proc \in [Jobs -> Process] /\ proc[j] \in Process
    BY DEF LifeInv, Shapes
<1>3. c \in Params
    BY <1>2 DEF Process
<1>4. Moved(j)
    BY <1>1, <1>2 DEF Moved, Process
<1>5. /\ proc'[j].phase = proc[j].phase /\ proc'[j].pending = proc[j].pending \ {c}
      /\ proc'[j].results = proc[j].results /\ proc'[j].base = proc[j].base
      /\ proc'[j].chosen = proc[j].chosen
    BY <1>1, <1>2 DEF Process
<1> QED
    BY <1>1, <1>3, <1>4, <1>5 DEF Task

LEMMA EvaluateSteps ==
    ASSUME LifeInv, report \in [Kinds -> 0..MaxJobs],
           NEW j \in Jobs, NEW task \in pool[j], Evaluate(j, task)
    PROVE  LET user == Sandbox(j, task.combo)
               measured == rows[user] \cup {<<j, task.config>>}
               outcome == [combo |-> task.combo, measured |-> measured] IN
           /\ task \in Task /\ outcome \in Outcome
           /\ pool' = [pool EXCEPT ![j] = @ \ {task}]
           /\ rows' = [rows EXCEPT ![user] = measured]
           /\ Moved(j)
           /\ proc'[j].phase = proc[j].phase
           /\ proc'[j].pending = proc[j].pending
           /\ proc'[j].base = proc[j].base
           /\ proc'[j].chosen = proc[j].chosen
           /\ proc'[j].results \in {proc[j].results, proc[j].results \cup {outcome}}
           /\ proc'[j].results # proc[j].results => Alive(j)
           /\ \/ UNCHANGED <<report, progress>>
              \/ /\ Alive(j) /\ progress' = j
                 /\ report' \in {report, [report EXCEPT !["optimizer"] = j]}
<1> DEFINE user == Sandbox(j, task.combo)
           measured == rows[user] \cup {<<j, task.config>>}
           outcome == [combo |-> task.combo, measured |-> measured]
<1>0. user \in Users
    BY SandboxIsUser
<1>3. /\ pool' = [pool EXCEPT ![j] = @ \ {task}]
      /\ rows' = [rows EXCEPT ![user] = measured]
      /\ \/ proc' = proc /\ UNCHANGED <<report, progress>>
         \/ /\ Alive(j)
            /\ \E valid \in BOOLEAN :
                  Collect(j, [combo |-> task.combo, measured |-> rows'[user]], valid)
    BY DEF Evaluate
<1> HIDE DEF user
<1>1. /\ proc \in [Jobs -> Process] /\ proc[j] \in Process /\ rows \in [Users -> SUBSET Evidence]
      /\ task \in Task
    BY DEF LifeInv, Shapes
<1>2. measured \in SUBSET Evidence /\ outcome \in Outcome
    BY <1>0, <1>1 DEF Evidence, Task, Outcome
<1>4. rows'[user] = measured
    BY <1>0, <1>1, <1>3
<1>5. \/ proc' = proc /\ UNCHANGED <<report, progress>>
      \/ /\ Alive(j)
         /\ \E valid \in BOOLEAN : Collect(j, outcome, valid)
    BY <1>3, <1>4
<1>6. CASE proc' = proc /\ UNCHANGED <<report, progress>>
    BY <1>1, <1>2, <1>3, <1>6 DEF Moved, user
<1>7. ASSUME NEW valid \in BOOLEAN, Alive(j), Collect(j, outcome, valid)
      PROVE  /\ Moved(j)
             /\ proc'[j].phase = proc[j].phase /\ proc'[j].pending = proc[j].pending
             /\ proc'[j].base = proc[j].base /\ proc'[j].chosen = proc[j].chosen
             /\ proc'[j].results \in {proc[j].results, proc[j].results \cup {outcome}}
             /\ progress' = j /\ report' \in {report, [report EXCEPT !["optimizer"] = j]}
    <2> DEFINE results == proc[j].results \cup (IF valid THEN {outcome} ELSE {})
    <2>1. results \in {proc[j].results, proc[j].results \cup {outcome}}
        OBVIOUS
    <2>2. results \in SUBSET Outcome
        BY <1>1, <1>2 DEF Process
    <2>3. /\ proc' = [proc EXCEPT ![j].results = results]
          /\ report' = [report EXCEPT !["optimizer"] = IF results = {} THEN @ ELSE j]
          /\ progress' = j
        BY <1>7 DEF Collect
    <2>4. report' \in {report, [report EXCEPT !["optimizer"] = j]}
        <3> HIDE DEF results
        <3>1. CASE results = {}
            BY <2>3, <3>1, [report EXCEPT !["optimizer"] = @] = report
        <3>2. CASE results # {}
            BY <2>3, <3>2
        <3> QED
            BY <3>1, <3>2
    <2> HIDE DEF results
    <2>5. Moved(j)
        BY <1>1, <2>2, <2>3 DEF Moved, Process
    <2>6. /\ proc'[j].phase = proc[j].phase /\ proc'[j].pending = proc[j].pending
          /\ proc'[j].base = proc[j].base /\ proc'[j].chosen = proc[j].chosen
          /\ proc'[j].results = results
        BY <1>1, <2>3 DEF Process
    <2> QED
        BY <2>1, <2>3, <2>4, <2>5, <2>6
<1> QED
    BY <1>1, <1>2, <1>3, <1>5, <1>6, <1>7 DEF user

\* A process that ends takes its results along.
LEMMA EndSteps ==
    ASSUME LifeInv, NEW j \in Jobs, NEW phase \in Phase, proc' = [proc EXCEPT ![j] = Ended(j, phase)]
    PROVE  /\ Moved(j) /\ proc'[j].phase = phase /\ proc'[j].results = {}
           /\ proc'[j].pending = proc[j].pending
<1>1. proc \in [Jobs -> Process] /\ proc[j] \in Process
    BY DEF LifeInv, Shapes
<1>2. Ended(j, phase) \in Process
    BY <1>1 DEF Ended, Process
<1>3. /\ Ended(j, phase).phase = phase /\ Ended(j, phase).results = {}
      /\ Ended(j, phase).pending = proc[j].pending
    BY <1>1 DEF Ended, Process
<1> QED
    BY <1>1, <1>2, <1>3 DEF Moved

-----------------------------------------------------------------------------
(* The time stamps.                                                        *)

LEMMA JobsCounted ==
    ASSUME NEW S \in SUBSET Jobs
    PROVE  IsFiniteSet(S) /\ Cardinality(S) \in Nat /\ Cardinality(S) <= MaxJobs
<1>1. IsFiniteSet(Jobs) /\ Cardinality(Jobs) = MaxJobs
    BY OptimizerAssumption, FS_Interval DEF Jobs
<1> QED
    BY <1>1, FS_Subset, FS_CardinalityType

LEMMA ClockKept ==
    ASSUME ClockCounts, Stamped \subseteq Stamped', Exported \subseteq Exported',
           \/ clock' = clock
           \/ clock' = clock + 1 /\ Stamped # Stamped'
           \/ clock' = clock + 1 /\ Exported # Exported'
    PROVE  ClockCounts'
<1> DEFINE s == Cardinality(Stamped)
           e == Cardinality(Exported)
<1>0. Stamped \in SUBSET Jobs /\ Exported \in SUBSET Jobs
      /\ Stamped' \in SUBSET Jobs /\ Exported' \in SUBSET Jobs
    BY DEF Stamped, Exported
<1>1. s \in Nat /\ e \in Nat /\ s' \in Nat /\ e' \in Nat
    BY <1>0, JobsCounted
<1>2. s <= s' /\ (s = s' => Stamped = Stamped')
    BY <1>0, JobsCounted, FS_Subset
<1>3. e <= e' /\ (e = e' => Exported = Exported')
    BY <1>0, JobsCounted, FS_Subset
<1>4. clock \in Nat /\ clock <= s + e
    BY DEF ClockCounts
<1> HIDE DEF s, e
<1>5. clock' \in Nat /\ clock' <= s' + e'
    BY <1>1, <1>2, <1>3, <1>4
<1> QED
    BY <1>5 DEF ClockCounts, s, e

-----------------------------------------------------------------------------
(* The type invariant is kept by the processes.                            *)

TypeInv == LifeInv /\ FilesTyped /\ ClockCounts

\* What the steps of the processes leave alone.
JobsSame == UNCHANGED <<thread, kinds, job, entry, draft, history, env, runner, excuses>>

LEMMA ProcessExported ==
    ASSUME NEW j \in Jobs, Moved(j), proc[j].phase \in Outdone => proc'[j].phase \in Outdone,
           ClockCounts, JobsSame,
           \/ clock' = clock
           \/ clock' = clock + 1 /\ proc[j].phase \notin Outdone /\ proc'[j].phase \in Outdone
    PROVE  ClockCounts'
<1>1. Stamped' = Stamped
    BY DEF Stamped, JobsSame
<1>2. Exported \subseteq Exported'
    BY DEF Exported, Moved
<1>3. clock' = clock \/ (clock' = clock + 1 /\ Exported # Exported')
    BY DEF Exported
<1> QED
    BY <1>1, <1>2, <1>3, ClockKept

LEMMA TakeTaskTyped ==
    ASSUME TypeInv, JobsSame, NEW j \in Jobs, TakeTask(j)
    PROVE  TypeInv'
<1> USE DEF TypeInv
<1>1. PICK c \in proc[j].pending :
              /\ Moved(j)
              /\ proc'[j].phase = proc[j].phase
              /\ proc'[j].pending = proc[j].pending \ {c}
              /\ proc'[j].results = proc[j].results
              /\ proc'[j].base = proc[j].base
              /\ proc'[j].chosen = proc[j].chosen
              /\ [combo |-> c, config |-> c] \in Task
              /\ pool' = [pool EXCEPT ![j] = @ \cup {[combo |-> c, config |-> c]}]
              /\ rows' = [rows EXCEPT ![Sandbox(j, c)] = {}]
    BY TakeTaskSteps
<1>2. /\ Cardinality(pool[j]) < Workers
      /\ UNCHANGED <<report, progress, best, clock>>
    BY DEF TakeTask
<1>3. /\ pool \in [Jobs -> SUBSET Task] /\ rows \in [Users -> SUBSET Evidence]
      /\ proc \in [Jobs -> Process] /\ LifeOf(j) /\ clock \in Nat
    BY DEF LifeInv, Shapes, ClockCounts
<1> DEFINE task == [combo |-> c, config |-> c]
<1> HIDE DEF task
<1>4. pool'[j] = pool[j] \cup {task} /\ \A i \in Jobs \ {j} : pool'[i] = pool[i]
    BY <1>1, <1>3 DEF task
<1>5. pool' \in [Jobs -> SUBSET Task] /\ rows' \in [Users -> SUBSET Evidence]
    BY <1>1, <1>3 DEF task
<1>6. ~Idle(j)
    BY <1>1 DEF Idle
<1>7. proc[j].phase # "none" /\ LifeOf(j)'
    <2>1. /\ proc[j].phase # "none" /\ kinds'[j] = kinds[j] /\ thread'[j] = thread[j]
          /\ proc[j].phase \in {"evaluating", "killed"} /\ kinds[j] = "optimizer"
        BY <1>3, <1>6 DEF LifeOf, JobsSame
    <2>2. /\ proc'[j].phase = proc[j].phase /\ proc'[j].results = proc[j].results
          /\ proc'[j].base = proc[j].base /\ proc'[j].chosen = proc[j].chosen
        BY <1>1
    <2> QED
        BY <1>3, <2>1, <2>2 DEF LifeOf, Alive, Phases, Outdone
<1>8. LifeInv'
    BY <1>1, <1>2, <1>3, <1>4, <1>5, <1>7, ProcessLife DEF JobsSame, Alive
<1>9. FilesTyped'
    <2>1. IsFiniteSet(pool[j]) /\ Workers \in Nat
        BY OptimizerAssumption DEF FilesTyped
    <2>2. IsFiniteSet(pool'[j]) /\ Cardinality(pool'[j]) <= Cardinality(pool[j]) + 1
          /\ Cardinality(pool[j]) \in Nat
        <3>1. Cardinality(pool[j]) \in Nat
            BY <2>1, FS_CardinalityType
        <3>2. /\ IsFiniteSet(pool[j] \cup {task})
              /\ Cardinality(pool[j] \cup {task}) \in {Cardinality(pool[j]), Cardinality(pool[j]) + 1}
            BY <2>1, FS_AddElement
        <3> QED
            BY <1>4, <3>1, <3>2
    <2>3. Cardinality(pool'[j]) \in Nat
        BY <2>2, FS_CardinalityType
    <2>4. Cardinality(pool'[j]) <= Workers
        BY <1>2, <2>1, <2>2, <2>3
    <2> QED
        BY <1>2, <1>4, <2>2, <2>4 DEF FilesTyped, JobsSame
<1>10. ClockCounts'
    BY <1>1, <1>2, ProcessExported
<1> QED
    BY <1>8, <1>9, <1>10

LEMMA EvaluateTyped ==
    ASSUME TypeInv, JobsSame, NEW j \in Jobs, NEW task \in pool[j], Evaluate(j, task)
    PROVE  TypeInv'
<1> USE DEF TypeInv
<1>1. report \in [Kinds -> 0..MaxJobs]
    BY DEF FilesTyped
<1> DEFINE user == Sandbox(j, task.combo)
           measured == rows[user] \cup {<<j, task.config>>}
           outcome == [combo |-> task.combo, measured |-> measured]
<1>2.      /\ task \in Task /\ outcome \in Outcome
           /\ pool' = [pool EXCEPT ![j] = @ \ {task}]
           /\ rows' = [rows EXCEPT ![user] = measured]
           /\ Moved(j)
           /\ proc'[j].phase = proc[j].phase
           /\ proc'[j].pending = proc[j].pending
           /\ proc'[j].base = proc[j].base
           /\ proc'[j].chosen = proc[j].chosen
           /\ proc'[j].results \in {proc[j].results, proc[j].results \cup {outcome}}
           /\ proc'[j].results # proc[j].results => Alive(j)
           /\ \/ UNCHANGED <<report, progress>>
              \/ /\ Alive(j) /\ progress' = j
                 /\ report' \in {report, [report EXCEPT !["optimizer"] = j]}
    BY <1>1, EvaluateSteps
<1>3. UNCHANGED <<best, clock>>
    BY DEF Evaluate
<1>4. /\ pool \in [Jobs -> SUBSET Task] /\ rows \in [Users -> SUBSET Evidence]
      /\ proc \in [Jobs -> Process] /\ LifeOf(j) /\ clock \in Nat
    BY DEF LifeInv, Shapes, ClockCounts
<1>5. measured \in SUBSET Evidence
    BY <1>2 DEF Outcome
<1> HIDE DEF user, measured, outcome
<1>6. pool'[j] = pool[j] \ {task} /\ \A i \in Jobs \ {j} : pool'[i] = pool[i]
    BY <1>2, <1>4
<1>7. pool' \in [Jobs -> SUBSET Task] /\ rows' \in [Users -> SUBSET Evidence]
    BY <1>2, <1>4, <1>5
<1>8. ~Idle(j)
    BY DEF Idle
<1>9. proc[j].phase # "none" /\ LifeOf(j)'
    <2>1. /\ proc[j].phase \in {"evaluating", "killed"} /\ kinds[j] = "optimizer"
          /\ kinds'[j] = kinds[j] /\ thread'[j] = thread[j]
        BY <1>4, <1>8 DEF LifeOf, JobsSame
    <2>2. proc'[j].results # {} => proc[j].phase = "evaluating"
        BY <1>2, <1>4, <2>1 DEF LifeOf, Alive, Active, Phase
    <2>3. /\ proc'[j].phase = proc[j].phase
          /\ proc'[j].base = proc[j].base /\ proc'[j].chosen = proc[j].chosen
        BY <1>2
    <2> QED
        BY <1>4, <2>1, <2>2, <2>3 DEF LifeOf
<1>10. LifeInv'
    BY <1>2, <1>3, <1>4, <1>6, <1>7, <1>9, ProcessLife DEF JobsSame, Alive
<1>11. FilesTyped'
    <2>1. IsFiniteSet(pool[j]) /\ Cardinality(pool[j]) <= Workers /\ Workers \in Nat
        BY OptimizerAssumption DEF FilesTyped
    <2>2. IsFiniteSet(pool'[j]) /\ Cardinality(pool'[j]) <= Cardinality(pool[j])
        BY <1>6, <2>1, FS_Subset
    <2>3. Cardinality(pool'[j]) \in Nat /\ Cardinality(pool[j]) \in Nat
        BY <2>1, <2>2, FS_CardinalityType
    <2>4. Cardinality(pool'[j]) <= Workers
        BY <2>1, <2>2, <2>3
    <2>5. report' \in [Kinds -> 0..MaxJobs] /\ progress' \in 0..MaxJobs
        <3>1. /\ report' \in {report, [report EXCEPT !["optimizer"] = j]}
              /\ progress' \in {progress, j}
            BY <1>2
        <3>2. progress \in 0..MaxJobs /\ j \in 0..MaxJobs
            BY OptimizerAssumption DEF FilesTyped, Jobs
        <3> QED
            BY <1>1, <3>1, <3>2
    <2> QED
        BY <1>3, <1>6, <2>2, <2>4, <2>5 DEF FilesTyped, JobsSame
<1>12. ClockCounts'
    BY <1>2, <1>3, ProcessExported
<1> QED
    BY <1>10, <1>11, <1>12

\* The steps of a main process with no tasks at work.
LEMMA MainTyped ==
    ASSUME TypeInv, JobsSame, NEW j \in Jobs, Moved(j), UNCHANGED pool, Alive(j),
           \/ UNCHANGED rows
           \/ \E e \in SUBSET Evidence : rows' = [rows EXCEPT ![Single] = e],
           report' \in [Kinds -> 0..MaxJobs], progress' \in 0..MaxJobs,
           best' \in {Torn} \cup [params : Params, job : 0..MaxJobs, at : Nat],
           \/ clock' = clock
           \/ clock' = clock + 1 /\ proc'[j].phase \in Outdone,
           proc'[j].phase # "none", LifeOf(j)'
    PROVE  TypeInv'
<1> USE DEF TypeInv
<1>1. clock \in Nat /\ clock' \in Nat /\ clock' >= clock
    BY DEF ClockCounts
<1>2. rows' \in [Users -> SUBSET Evidence] /\ pool' \in [Jobs -> SUBSET Task]
    BY DEF LifeInv, Shapes, Users
<1>3. proc[j].phase \notin Outdone /\ proc[j].phase # "none"
    BY DEF Alive, Active, Outdone
<1>4. LifeInv'
    BY <1>1, <1>2, <1>3, ProcessLife DEF JobsSame
<1>5. FilesTyped'
    BY DEF FilesTyped, JobsSame
<1>6. ClockCounts'
    BY <1>3, ProcessExported
<1> QED
    BY <1>4, <1>5, <1>6

LEMMA EndsTyped ==
    ASSUME TypeInv, JobsSame, NEW j \in Jobs, FindNothing(j) \/ Fail(j)
    PROVE  /\ TypeInv' /\ Moved(j) /\ proc'[j].results = {}
           /\ proc'[j].pending = proc[j].pending
<1>1. PICK phase \in {"ok", "failed"} : proc' = [proc EXCEPT ![j] = Ended(j, phase)]
    BY DEF FindNothing, Fail
<1>2. /\ UNCHANGED <<pool, rows, report, progress, best, clock>>
      /\ Alive(j) /\ (proc[j].phase = "evaluating" => Idle(j))
    BY DEF FindNothing, Fail, Evaluated, Alive, Active, Phase
<1>3. LifeInv /\ LifeOf(j) /\ phase \in Phase
    BY DEF TypeInv, LifeInv, Phase
<1>4. Moved(j) /\ proc'[j].phase = phase /\ proc'[j].results = {} /\ proc'[j].pending = proc[j].pending
    BY <1>1, <1>3, EndSteps
<1>5. Idle(j) /\ Idle(j)'
    BY <1>2, <1>3, <1>4 DEF LifeOf, Alive, Active, Idle
<1>6. LifeOf(j)'
    BY <1>2, <1>3, <1>4, <1>5 DEF LifeOf, JobsSame, Phases, Outdone, Alive, Active
<1>7. /\ report \in [Kinds -> 0..MaxJobs] /\ progress \in 0..MaxJobs
      /\ best \in {Torn} \cup [params : Params, job : 0..MaxJobs, at : Nat]
    BY DEF TypeInv, FilesTyped
<1> QED
    BY <1>2, <1>4, <1>6, <1>7, MainTyped

LEMMA RankTyped ==
    ASSUME TypeInv, JobsSame, NEW j \in Jobs, Rank(j)
    PROVE  /\ TypeInv' /\ Moved(j) /\ proc'[j].results = proc[j].results
           /\ proc'[j].pending = proc[j].pending
<1>1. PICK r \in proc[j].results :
          proc' = [proc EXCEPT ![j].phase = "validating", ![j].chosen = r.combo]
    BY DEF Rank
<1>2. /\ report' = [report EXCEPT !["optimizer"] = j] /\ progress' = j
      /\ rows' = [rows EXCEPT ![Single] = {}]
      /\ UNCHANGED <<pool, best, clock>>
      /\ proc[j].phase = "evaluating" /\ Idle(j) /\ Alive(j)
    BY DEF Rank, Evaluated, Alive, Active, Phase
<1>3. /\ LifeOf(j) /\ proc \in [Jobs -> Process] /\ proc[j] \in Process
      /\ thread[j] \notin {"none", "started"}
    BY <1>2 DEF TypeInv, LifeInv, Shapes, LifeOf
<1>4. r.combo \in Params
    BY <1>3 DEF Process, Outcome
<1>5. Moved(j)
    <2>1. "validating" \in Phase
        BY DEF Phase
    <2> QED
        BY <1>1, <1>3, <1>4, <2>1 DEF Moved, Process
<1>6. /\ proc'[j].phase = "validating" /\ proc'[j].chosen = r.combo
      /\ proc'[j].results = proc[j].results /\ proc'[j].pending = proc[j].pending
    BY <1>1, <1>3 DEF Process
<1>7. Idle(j)' /\ Alive(j)'
    BY <1>2, <1>6 DEF Idle, Alive, Active, Phase
<1>8. LifeOf(j)'
    <2>1. "evaluating" \in Phases(kinds[j]) => "validating" \in Phases(kinds[j])
        BY DEF Phases, Outdone
    <2>2. "validating" \in Phases(kinds'[j]) /\ thread'[j] = thread[j]
        BY <1>2, <1>3, <2>1 DEF LifeOf, JobsSame
    <2> QED
        BY <1>3, <1>4, <1>6, <1>7, <2>2 DEF LifeOf
<1>9. /\ report' \in [Kinds -> 0..MaxJobs] /\ progress' \in 0..MaxJobs
      /\ best \in {Torn} \cup [params : Params, job : 0..MaxJobs, at : Nat]
    <2>1. /\ report \in [Kinds -> 0..MaxJobs] /\ j \in 0..MaxJobs
          /\ best \in {Torn} \cup [params : Params, job : 0..MaxJobs, at : Nat]
        BY OptimizerAssumption DEF TypeInv, FilesTyped, Jobs
    <2> QED
        BY <1>2, <2>1
<1>10. \E e \in SUBSET Evidence : rows' = [rows EXCEPT ![Single] = e]
    <2>1. {} \in SUBSET Evidence
        OBVIOUS
    <2> QED
        BY <1>2, <2>1
<1> QED
    BY <1>2, <1>5, <1>6, <1>8, <1>9, <1>10, MainTyped

LEMMA JudgeTyped ==
    ASSUME TypeInv, JobsSame, NEW j \in Jobs, Judge(j)
    PROVE  /\ TypeInv' /\ Moved(j) /\ proc'[j].results \in {{}, proc[j].results}
           /\ proc'[j].pending = proc[j].pending
<1>1. PICK m \in Measures :
          IF Verdict(m) \in BlockingVerdicts
          THEN /\ proc' = [proc EXCEPT ![j] = [Ended(j, "ok") EXCEPT !.verdict = Verdict(m)]]
               /\ progress' = 0
               /\ UNCHANGED best
          ELSE /\ proc' = [proc EXCEPT ![j].verdict = Verdict(m), ![j].phase = "exporting"]
               /\ best' = Torn
               /\ UNCHANGED progress
    BY DEF Judge
<1>2. /\ rows' = [rows EXCEPT ![Single] = @ \cup {<<j, proc[j].chosen>>}]
      /\ UNCHANGED <<pool, report, clock>>
      /\ proc[j].phase = "validating" /\ Alive(j)
    BY DEF Judge, Alive, Active, Phase
<1>3. /\ LifeOf(j) /\ proc \in [Jobs -> Process] /\ proc[j] \in Process
      /\ rows \in [Users -> SUBSET Evidence]
    BY <1>2 DEF TypeInv, LifeInv, Shapes
<1>4. Idle(j) /\ proc[j].chosen \in Params /\ thread[j] \notin {"none", "started"}
      /\ kinds[j] = "optimizer"
    BY <1>2, <1>3, OptimizerAssumption DEF LifeOf, Phases, Outdone, TypeInv, LifeInv, Shapes, Kinds
<1>5. Verdict(m) \in VerdictStatus
    BY DEF Verdict, VerdictStatus
<1>6. /\ Moved(j)
      /\ proc'[j].phase \in {"ok", "exporting"}
      /\ proc'[j].results = IF proc'[j].phase = "ok" THEN {} ELSE proc[j].results
      /\ proc'[j].pending = proc[j].pending /\ proc'[j].chosen = proc[j].chosen
    <2>0. "ok" \in Phase /\ "exporting" \in Phase
        BY DEF Phase
    <2>1. CASE Verdict(m) \in BlockingVerdicts
        <3> DEFINE P == [Ended(j, "ok") EXCEPT !.verdict = Verdict(m)]
        <3>1. /\ P \in Process /\ P.phase = "ok" /\ P.results = {}
              /\ P.pending = proc[j].pending /\ P.chosen = proc[j].chosen
            BY <1>3, <1>5, <2>0 DEF Ended, Process
        <3>2. proc' = [proc EXCEPT ![j] = P]
            BY <1>1, <2>1
        <3> HIDE DEF P
        <3> QED
            BY <1>3, <3>1, <3>2 DEF Moved
    <2>2. CASE Verdict(m) \notin BlockingVerdicts
        <3>1. Moved(j)
            BY <1>1, <1>3, <1>5, <2>0, <2>2 DEF Moved, Process
        <3>2. /\ proc'[j].phase = "exporting" /\ proc'[j].results = proc[j].results
              /\ proc'[j].pending = proc[j].pending /\ proc'[j].chosen = proc[j].chosen
            BY <1>1, <1>3, <2>2 DEF Process
        <3> QED
            BY <3>1, <3>2
    <2> QED
        BY <2>1, <2>2
<1>7. Idle(j)' /\ (Alive(j)' \/ proc'[j].results = {})
    BY <1>2, <1>4, <1>6 DEF Idle, Alive, Active, Phase
<1>8. LifeOf(j)'
    BY <1>2, <1>4, <1>6, <1>7 DEF LifeOf, JobsSame, Phases, Outdone
<1>9. /\ report' \in [Kinds -> 0..MaxJobs] /\ progress' \in 0..MaxJobs
      /\ best' \in {Torn} \cup [params : Params, job : 0..MaxJobs, at : Nat]
    BY <1>1, <1>2, OptimizerAssumption DEF TypeInv, FilesTyped
<1>10. \E e \in SUBSET Evidence : rows' = [rows EXCEPT ![Single] = e]
    <2>1. rows[Single] \cup {<<j, proc[j].chosen>>} \in SUBSET Evidence
        BY <1>3, <1>4, SingleIsUser DEF Evidence
    <2> QED
        BY <1>2, <2>1
<1>11. proc'[j].phase # "none" /\ proc'[j].results \in {{}, proc[j].results}
    BY <1>6
<1> QED
    BY <1>2, <1>6, <1>8, <1>9, <1>10, <1>11, MainTyped

LEMMA ExportTyped ==
    ASSUME TypeInv, JobsSame, NEW j \in Jobs, Export(j)
    PROVE  /\ TypeInv' /\ Moved(j) /\ proc'[j].results = {}
           /\ proc'[j].pending = proc[j].pending
<1>1. /\ proc' = [proc EXCEPT ![j] = Ended(j, "ok")]
      /\ clock' = clock + 1 /\ best' = File(proc[j].chosen, j, clock') /\ progress' = 0
      /\ UNCHANGED <<pool, rows, report>>
      /\ proc[j].phase = "exporting" /\ Alive(j)
    BY DEF Export, Alive, Active, Phase
<1>2. LifeInv /\ LifeOf(j) /\ "ok" \in Phase /\ clock \in Nat
    BY DEF TypeInv, LifeInv, Phase, ClockCounts
<1>3. Moved(j) /\ proc'[j].phase = "ok" /\ proc'[j].results = {} /\ proc'[j].pending = proc[j].pending
    BY <1>1, <1>2, EndSteps
<1>4. Idle(j) /\ Idle(j)' /\ proc[j].chosen \in Params
    BY <1>1, <1>2, <1>3 DEF LifeOf, Idle
<1>5. LifeOf(j)'
    BY <1>1, <1>2, <1>3, <1>4 DEF LifeOf, JobsSame, Phases, Outdone, Alive, Active
<1>6. /\ report' \in [Kinds -> 0..MaxJobs] /\ progress' \in 0..MaxJobs
    BY <1>1, OptimizerAssumption DEF TypeInv, FilesTyped
<1>7. best' \in [params : Params, job : 0..MaxJobs, at : Nat]
    BY <1>1, <1>2, <1>4 DEF File, Jobs
<1>8. proc'[j].phase \in Outdone /\ proc'[j].phase # "none"
    BY <1>3 DEF Outdone
<1> QED
    BY <1>1, <1>3, <1>5, <1>6, <1>7, <1>8, MainTyped

LEMMA BacktestTyped ==
    ASSUME TypeInv, JobsSame, NEW j \in Jobs, BacktestResets(j) \/ BacktestReports(j)
    PROVE  /\ TypeInv' /\ Moved(j) /\ proc'[j].results = proc[j].results
           /\ proc'[j].pending = proc[j].pending
<1>1. PICK phase \in {"replaying", "ok"} :
          /\ proc' = [proc EXCEPT ![j].phase = phase]
          /\ proc[j].phase = IF phase = "ok" THEN "replaying" ELSE "resetting"
    BY DEF BacktestResets, BacktestReports
<1>2. UNCHANGED <<pool, best, clock>> /\ Alive(j) /\ phase \in Phase
    BY <1>1 DEF BacktestResets, BacktestReports, Alive, Active, Phase
<1>3. /\ LifeOf(j) /\ proc \in [Jobs -> Process] /\ proc[j] \in Process
      /\ rows \in [Users -> SUBSET Evidence]
    BY DEF TypeInv, LifeInv, Shapes
<1>4. /\ Idle(j) /\ proc[j].base \in Params /\ thread[j] \notin {"none", "started"}
      /\ kinds[j] = "backtest"
    BY <1>1, <1>3 DEF LifeOf, Phases, Outdone, TypeInv, LifeInv, Shapes, Kinds
<1>5. Moved(j)
    BY <1>1, <1>2, <1>3 DEF Moved, Process
<1>6. /\ proc'[j].phase = phase /\ proc'[j].results = proc[j].results
      /\ proc'[j].pending = proc[j].pending /\ proc'[j].base = proc[j].base
    BY <1>1, <1>3 DEF Process
<1>7. proc[j].results = {}
    BY <1>1, <1>3 DEF LifeOf
<1>8. LifeOf(j)'
    BY <1>1, <1>2, <1>3, <1>4, <1>6, <1>7 DEF LifeOf, JobsSame, Phases, Outdone, Idle
<1>9. /\ report' \in [Kinds -> 0..MaxJobs] /\ progress' \in 0..MaxJobs
      /\ best \in {Torn} \cup [params : Params, job : 0..MaxJobs, at : Nat]
    <2>1. /\ report \in [Kinds -> 0..MaxJobs] /\ j \in 0..MaxJobs /\ 0 \in 0..MaxJobs
          /\ best \in {Torn} \cup [params : Params, job : 0..MaxJobs, at : Nat]
        BY OptimizerAssumption DEF TypeInv, FilesTyped, Jobs
    <2> QED
        BY <2>1 DEF BacktestResets, BacktestReports
<1>10. \E e \in SUBSET Evidence : rows' = [rows EXCEPT ![Single] = e]
    <2>1. rows[Single] \cup {<<j, proc[j].base>>} \in SUBSET Evidence /\ {} \in SUBSET Evidence
        BY <1>3, <1>4, SingleIsUser DEF Evidence
    <2> QED
        BY <2>1 DEF BacktestResets, BacktestReports
<1> QED
    BY <1>2, <1>5, <1>6, <1>8, <1>9, <1>10, MainTyped

LEMMA ProcessTyped ==
    ASSUME TypeInv, JobsSame, ProcessNext
    PROVE  TypeInv'
<1>1. CASE WorkerNext
    BY <1>1, TakeTaskTyped, EvaluateTyped DEF WorkerNext
<1>2. CASE ~WorkerNext
    <2>1. PICK j \in Jobs :
              \/ FindNothing(j) \/ Rank(j) \/ Judge(j) \/ Export(j)
              \/ BacktestResets(j) \/ BacktestReports(j) \/ Fail(j)
        BY <1>2 DEF ProcessNext
    <2> QED
        BY <2>1, EndsTyped, RankTyped, JudgeTyped, ExportTyped, BacktestTyped
<1> QED
    BY <1>1, <1>2

-----------------------------------------------------------------------------
(* The type invariant is kept by the threads of the API and by its users.  *)

\* A step of one thread that leaves its process alone.
LEMMA ThreadLife ==
    ASSUME LifeInv, NEW j \in Jobs, UNCHANGED <<proc, pool, rows>>,
           clock \in Nat, clock' \in Nat, clock' >= clock,
           NEW state \in ThreadState, thread' = [thread EXCEPT ![j] = state],
           kinds' \in [Jobs -> Kinds], \A i \in Jobs \ {j} : kinds'[i] = kinds[i],
           entry' \in [Jobs -> {Nothing} \cup Entry], \A i \in Jobs \ {j} : entry'[i] = entry[i],
           LifeOf(j)', ThreadOf(j)'
    PROVE  LifeInv'
<1>1. thread' \in [Jobs -> ThreadState] /\ \A i \in Jobs \ {j} : thread'[i] = thread[i]
    BY DEF LifeInv, Shapes
<1>2. Moved(j) /\ rows' \in [Users -> SUBSET Evidence] /\ pool' \in [Jobs -> SUBSET Task]
    BY DEF LifeInv, Shapes, Moved
<1> QED
    BY <1>1, <1>2, LifeKept

LEMMA StartJobTyped ==
    ASSUME TypeInv, NEW kind \in Kinds, StartJob(kind)
    PROVE  TypeInv'
<1>1. PICK j \in Jobs :
          /\ thread[j] = "none"
          /\ thread' = [thread EXCEPT ![j] = "started"]
          /\ kinds' = [kinds EXCEPT ![j] = kind]
          /\ job' = IF job.status = "running" THEN [job EXCEPT !.status = "error"] ELSE job
          /\ UNCHANGED excuses \/ Trouble("overlap")
    BY DEF StartJob
<1>2. UNCHANGED <<proc, pool, rows, report, progress, best, clock, entry, draft, history, env, runner>>
    BY DEF StartJob, optimizerVars, userVars
<1>3. LifeInv /\ FilesTyped /\ ClockCounts /\ LifeOf(j) /\ ThreadOf(j) /\ Shapes
    BY DEF TypeInv, LifeInv
<1>4. thread'[j] = "started" /\ "started" \in ThreadState
    BY <1>1, <1>3 DEF Shapes, ThreadState
<1>5. proc[j].phase = "none" /\ entry[j] = Nothing
    BY <1>1, <1>3 DEF LifeOf, ThreadOf
<1>6. LifeOf(j)'
    <2>1. Idle(j) /\ proc[j].results = {}
        BY <1>3, <1>5 DEF LifeOf
    <2>2. Idle(j)' /\ proc'[j].results = {} /\ proc'[j].phase = "none"
        BY <1>2, <1>5, <2>1 DEF Idle
    <2> QED
        BY <1>5, <2>2 DEF LifeOf
<1>7. ThreadOf(j)'
    BY <1>2, <1>4, <1>5 DEF ThreadOf
<1>8. LifeInv'
    <2>1. /\ kinds' \in [Jobs -> Kinds] /\ \A i \in Jobs \ {j} : kinds'[i] = kinds[i]
          /\ entry' \in [Jobs -> {Nothing} \cup Entry] /\ \A i \in Jobs \ {j} : entry'[i] = entry[i]
        BY <1>1, <1>2, <1>3 DEF Shapes
    <2>2. clock \in Nat /\ clock' \in Nat /\ clock' >= clock
        BY <1>2, <1>3 DEF ClockCounts
    <2> QED
        BY <1>1, <1>2, <1>3, <1>4, <1>6, <1>7, <2>1, <2>2, ThreadLife
<1>9. FilesTyped'
    <2>1. excuses' \subseteq Excuse
        BY <1>1, <1>3 DEF FilesTyped, Trouble, Excuse
    <2>2. job' \in [status : {"idle", "running", "done", "error"}, result : 0..MaxJobs]
        BY <1>1, <1>3 DEF FilesTyped
    <2> QED
        BY <1>2, <1>3, <2>1, <2>2 DEF FilesTyped
<1>10. ClockCounts'
    <2>1. Exported' = Exported
        BY <1>2 DEF Exported
    <2>2. Stamped \subseteq Stamped'
        BY <1>1, <1>3 DEF Stamped, Shapes
    <2> QED
        BY <1>2, <1>3, <2>1, <2>2, ClockKept
<1> QED
    BY <1>8, <1>9, <1>10 DEF TypeInv

LEMMA ThreadBeginsTyped ==
    ASSUME TypeInv, NEW j \in Jobs, ThreadBegins(j)
    PROVE  TypeInv' /\ Moved(j) /\ proc'[j].results = {} /\ Alive(j)'
<1>1. PICK minimum \in Minimums :
      /\ thread[j] = "started"
      /\ thread' = [thread EXCEPT ![j] = "waiting"]
      /\ job' = [status |-> "running", result |-> 0]
      /\ progress' = 0
      /\ report' = [report EXCEPT ![kinds[j]] = 0]
      /\ proc' = [proc EXCEPT ![j] = Begun(kinds[j], Loaded(env), minimum)]
      /\ UNCHANGED <<pool, rows, best, clock, kinds, entry, draft, history, env, runner, excuses>>
    BY DEF ThreadBegins, userVars
<1>2. LifeInv /\ FilesTyped /\ ClockCounts /\ LifeOf(j) /\ ThreadOf(j) /\ Shapes
    BY DEF TypeInv, LifeInv
<1> DEFINE P == Begun(kinds[j], Loaded(env), minimum)
<1>3. Loaded(env) \in Params
    BY JobsAssumption DEF Loaded
<1>4. /\ P \in Process /\ P.results = {} /\ P.base \in Params
      /\ P.phase = IF kinds[j] = "optimizer" THEN "evaluating" ELSE "resetting"
      /\ P.pending = IF kinds[j] = "optimizer" THEN Combinations(minimum) ELSE {}
    BY <1>3 DEF Begun, NotStarted, Process, Phase, Outcome, Combinations
<1> HIDE DEF P
<1>5. proc' = [proc EXCEPT ![j] = P]
    BY <1>1 DEF P
<1>6. Moved(j) /\ proc'[j] = P
    BY <1>2, <1>4, <1>5 DEF Moved, Shapes
<1>7. Alive(j)' /\ P.phase # "none"
    BY <1>4, <1>6 DEF Alive, Active, Phase
<1>8. pool[j] = {} /\ entry[j] = Nothing /\ kinds[j] \in Kinds
    BY <1>1, <1>2 DEF LifeOf, Idle, ThreadOf, Shapes
<1>9. thread' \in [Jobs -> ThreadState] /\ thread'[j] = "waiting"
      /\ \A i \in Jobs \ {j} : thread'[i] = thread[i]
    BY <1>1, <1>2 DEF Shapes, ThreadState
<1>10. LifeOf(j)'
    BY <1>1, <1>4, <1>6, <1>8, <1>9 DEF LifeOf, Idle, Phases, Outdone, Kinds
<1>11. ThreadOf(j)'
    BY <1>1, <1>6, <1>7, <1>8, <1>9 DEF ThreadOf
<1>12. LifeInv'
    <2>1. clock \in Nat /\ clock' \in Nat /\ clock' >= clock
        BY <1>1, <1>2 DEF ClockCounts
    <2>2. /\ pool' \in [Jobs -> SUBSET Task] /\ rows' \in [Users -> SUBSET Evidence]
          /\ kinds' \in [Jobs -> Kinds] /\ entry' \in [Jobs -> {Nothing} \cup Entry]
        BY <1>1, <1>2 DEF Shapes
    <2> QED
        BY <1>1, <1>2, <1>6, <1>9, <1>10, <1>11, <2>1, <2>2, LifeKept
<1>13. FilesTyped'
    <2>1. report' \in [Kinds -> 0..MaxJobs] /\ 0 \in 0..MaxJobs
        BY <1>1, <1>2, <1>8, OptimizerAssumption DEF FilesTyped
    <2> QED
        BY <1>1, <1>2, <2>1 DEF FilesTyped
<1>14. ClockCounts'
    <2>1. Stamped \subseteq Stamped'
        BY <1>1, <1>9 DEF Stamped
    <2>2. Exported \subseteq Exported'
        BY <1>1, <1>2, <1>6 DEF Exported, Moved, LifeOf, Outdone
    <2> QED
        BY <1>1, <1>2, <2>1, <2>2, ClockKept
<1> QED
    BY <1>4, <1>6, <1>7, <1>12, <1>13, <1>14 DEF TypeInv

\* A thread that ends its waiting, with its process dead or killed.
LEMMA FinishTyped ==
    ASSUME TypeInv, NEW j \in Jobs, NEW status \in {"done", "error"}, NEW result \in 0..MaxJobs,
           thread[j] = "waiting", Finish(j, status, result),
           Moved(j), ~Alive(j)', proc'[j].phase # "none", LifeOf(j)',
           proc[j].phase \in Outdone => proc'[j].phase \in Outdone,
           pool' \in [Jobs -> SUBSET Task], \A i \in Jobs \ {j} : pool'[i] = pool[i],
           IsFiniteSet(pool'[j]), Cardinality(pool'[j]) <= Workers,
           excuses' \subseteq Excuse,
           UNCHANGED <<rows, report, progress, best, kinds, draft, history, env, runner>>
    PROVE  /\ TypeInv'
           /\ clock' = clock + 1 /\ clock' \in Nat /\ entry'[j] # Nothing
           /\ entry'[j].at = clock' /\ entry'[j].job = j /\ entry'[j].kind = kinds[j]
           /\ entry'[j].done = (status = "done")
           /\ \A i \in Jobs \ {j} : entry'[i] = entry[i] /\ thread'[i] = thread[i]
           /\ thread'[j] = "saving" /\ entry[j] = Nothing
<1>1. LifeInv /\ FilesTyped /\ ClockCounts /\ LifeOf(j) /\ ThreadOf(j) /\ Shapes
    BY DEF TypeInv, LifeInv
<1>2. clock \in Nat /\ clock' = clock + 1 /\ clock' \in Nat /\ clock' >= clock
    BY <1>1 DEF Finish, ClockCounts
<1> DEFINE e == [job |-> j, kind |-> kinds[j], done |-> status = "done", at |-> clock']
<1>3. e \in Entry /\ e # Nothing
    <2>1. (status = "done") \in BOOLEAN /\ kinds[j] \in Kinds
        BY <1>1 DEF Shapes
    <2>2. \A b \in BOOLEAN : [job |-> j, kind |-> kinds[j], done |-> b, at |-> clock'] \in Entry
        BY <1>2, <2>1 DEF Entry
    <2>3. e \in Entry
        BY <2>1, <2>2, Zenon
    <2> QED
        BY <2>3, EntryAssumption, Zenon
<1>4. /\ entry' = [entry EXCEPT ![j] = e]
      /\ thread' = [thread EXCEPT ![j] = "saving"]
      /\ job' = [job EXCEPT !.status = status, !.result = result]
    BY DEF Finish
<1>5. e.at = clock' /\ e.job = j /\ e.kind = kinds[j] /\ e.done = (status = "done")
    OBVIOUS
<1> HIDE DEF e
<1>6. /\ entry'[j] = e /\ \A i \in Jobs \ {j} : entry'[i] = entry[i]
      /\ entry' \in [Jobs -> {Nothing} \cup Entry]
    BY <1>1, <1>3, <1>4 DEF Shapes
<1>7. /\ thread'[j] = "saving" /\ \A i \in Jobs \ {j} : thread'[i] = thread[i]
      /\ thread' \in [Jobs -> ThreadState]
    BY <1>1, <1>4 DEF Shapes, ThreadState
<1>8. ThreadOf(j)'
    BY <1>2, <1>3, <1>5, <1>6, <1>7 DEF ThreadOf
<1>9. LifeInv'
    BY <1>1, <1>2, <1>6, <1>7, <1>8, LifeKept DEF Shapes
<1>10. FilesTyped'
    <2>1. job' \in [status : {"idle", "running", "done", "error"}, result : 0..MaxJobs]
        BY <1>1, <1>4 DEF FilesTyped
    <2>2. \A i \in Jobs : IsFiniteSet(pool'[i]) /\ Cardinality(pool'[i]) <= Workers
        BY <1>1 DEF FilesTyped
    <2> QED
        BY <1>1, <2>1, <2>2 DEF FilesTyped
<1>11. ClockCounts'
    <2>1. Stamped \subseteq Stamped' /\ Stamped # Stamped'
        BY <1>7 DEF Stamped
    <2>2. Exported \subseteq Exported'
        BY DEF Exported, Moved
    <2> QED
        BY <1>1, <1>2, <2>1, <2>2, ClockKept
<1>12. entry[j] = Nothing
    BY <1>1 DEF ThreadOf
<1> QED
    BY <1>2, <1>3, <1>5, <1>6, <1>7, <1>9, <1>10, <1>11, <1>12 DEF TypeInv

\* How a thread comes to finish its job.
Finishes(j) ==
    \E status \in {"done", "error"}, result \in 0..MaxJobs :
        /\ thread[j] = "waiting" /\ Finish(j, status, result)
        /\ status = "done" => result = report[kinds[j]]
        /\ Moved(j) /\ proc'[j].results \in {{}, proc[j].results}

LEMMA ProcessReturnsTyped ==
    ASSUME TypeInv, NEW j \in Jobs, ProcessReturns(j)
    PROVE  TypeInv' /\ Finishes(j)
<1>1. /\ thread[j] = "waiting" /\ proc[j].phase \in {"ok", "failed"}
      /\ UNCHANGED <<proc, pool, rows, report, progress, best, kinds, draft, history,
                     env, runner, excuses>>
    BY DEF ProcessReturns, userVars
<1>2. LifeInv /\ FilesTyped /\ LifeOf(j) /\ Shapes /\ kinds[j] \in Kinds
    BY DEF TypeInv, LifeInv, Shapes
<1>3. PICK status \in {"done", "error"}, result \in 0..MaxJobs :
          Finish(j, status, result) /\ (status = "done" => result = report[kinds[j]])
    <2>1. report[kinds[j]] \in 0..MaxJobs /\ 0 \in 0..MaxJobs
        BY <1>2, OptimizerAssumption DEF FilesTyped
    <2> QED
        BY <2>1 DEF ProcessReturns
<1>4. Moved(j) /\ ~Alive(j)' /\ proc'[j].phase # "none"
    BY <1>1, <1>2 DEF Moved, Shapes, Alive, Active
<1>5. LifeOf(j)'
    <2>1. thread'[j] = "saving" /\ proc[j].phase # "none"
        BY <1>1, <1>2, <1>3 DEF Finish, Shapes
    <2> QED
        BY <1>1, <1>2, <2>1 DEF LifeOf, Idle
<1>6. TypeInv'
    <2>1. /\ pool' \in [Jobs -> SUBSET Task]
          /\ IsFiniteSet(pool'[j]) /\ Cardinality(pool'[j]) <= Workers /\ excuses' \subseteq Excuse
        BY <1>1, <1>2 DEF Shapes, FilesTyped
    <2> QED
        BY <1>1, <1>3, <1>4, <1>5, <2>1, FinishTyped
<1>7. proc'[j].results \in {{}, proc[j].results}
    BY <1>1
<1> QED
    BY <1>1, <1>3, <1>4, <1>6, <1>7 DEF Finishes

LEMMA TimesOutTyped ==
    ASSUME TypeInv, NEW j \in Jobs, TimesOut(j)
    PROVE  /\ TypeInv' /\ Finishes(j)
           /\ pool'[j] \in {pool[j], {}} /\ proc'[j].pending \in {proc[j].pending, {}}
           /\ \A i \in Jobs \ {j} : pool'[i] = pool[i]
<1>1. /\ thread[j] = "waiting" /\ Alive(j) /\ Kill(j) /\ Finish(j, "error", 0)
      /\ excuses' = excuses \cup {"timeout"}
      /\ UNCHANGED <<rows, report, progress, best, kinds, draft, history, env, runner>>
    BY DEF TimesOut, userVars
<1>2. LifeInv /\ FilesTyped /\ LifeOf(j) /\ Shapes /\ proc[j] \in Process
    BY DEF TypeInv, LifeInv, Shapes
<1>3. PICK pending \in {proc[j].pending, {}} :
          /\ proc' = [proc EXCEPT ![j] = [Ended(j, "killed") EXCEPT !.pending = pending]]
          /\ pool' = pool \/ pool' = [pool EXCEPT ![j] = {}]
    <2>1. CASE Pooled(j)
        BY <1>1, <2>1 DEF Kill, Ended
    <2>2. CASE ~Pooled(j)
        BY <1>1, <2>2 DEF Kill, Ended
    <2> QED
        BY <2>1, <2>2
<1> DEFINE P == [Ended(j, "killed") EXCEPT !.pending = pending]
<1>4. P \in Process /\ P.phase = "killed" /\ P.results = {} /\ P.pending = pending
    <2>1. pending \in SUBSET Params /\ "killed" \in Phase
        BY <1>2 DEF Process, Phase
    <2> QED
        BY <1>2, <2>1 DEF Ended, Process
<1> HIDE DEF P
<1>5. proc' = [proc EXCEPT ![j] = P]
    BY <1>3 DEF P
<1>6. Moved(j) /\ proc'[j] = P
    BY <1>2, <1>4, <1>5 DEF Moved, Shapes
<1>7. /\ pool' \in [Jobs -> SUBSET Task] /\ \A i \in Jobs \ {j} : pool'[i] = pool[i]
      /\ pool'[j] \in {pool[j], {}}
    BY <1>2, <1>3 DEF Shapes
<1>8. ~Alive(j)' /\ proc'[j].phase = "killed"
    BY <1>4, <1>6 DEF Alive, Active
<1>9. LifeOf(j)'
    <2>1. thread'[j] = "saving" /\ kinds'[j] = kinds[j] /\ proc[j].phase # "none"
        BY <1>1, <1>2 DEF Finish, Shapes, Alive, Active
    <2>2. Idle(j) => Idle(j)'
        BY <1>3, <1>4, <1>6, <1>7 DEF Idle
    <2>3. "killed" \in Phases(kinds[j])
        BY DEF Phases, Outdone
    <2> QED
        BY <1>2, <1>4, <1>6, <2>1, <2>2, <2>3 DEF LifeOf
<1>10. TypeInv'
    <2>1. IsFiniteSet(pool'[j]) /\ Cardinality(pool'[j]) <= Workers
        <3>1. IsFiniteSet({}) /\ Cardinality({}) = 0 /\ Workers \in Nat
            BY FS_EmptySet, OptimizerAssumption
        <3>2. IsFiniteSet(pool[j]) /\ Cardinality(pool[j]) <= Workers
            BY <1>2 DEF FilesTyped
        <3> QED
            BY <1>7, <3>1, <3>2
    <2>2. excuses' \subseteq Excuse /\ 0 \in 0..MaxJobs
        BY <1>1, <1>2, OptimizerAssumption DEF FilesTyped, Excuse
    <2>3. proc'[j].phase \in Outdone /\ proc'[j].phase # "none"
        BY <1>8 DEF Outdone
    <2> QED
        BY <1>1, <1>6, <1>7, <1>8, <1>9, <2>1, <2>2, <2>3, FinishTyped
<1>11. /\ 0 \in 0..MaxJobs /\ proc'[j].results \in {{}, proc[j].results}
       /\ proc'[j].pending \in {proc[j].pending, {}}
    BY <1>4, <1>6, OptimizerAssumption
<1> QED
    BY <1>1, <1>6, <1>7, <1>8, <1>10, <1>11 DEF Finishes

LEMMA HistoryTyped ==
    ASSUME TypeInv, NEW j \in Jobs, HistoryEmptied(j) \/ HistoryWritten(j)
    PROVE  TypeInv'
<1>1. PICK state \in {"writing", "over"} :
          /\ thread' = [thread EXCEPT ![j] = state]
          /\ thread[j] = IF state = "over" THEN "writing" ELSE "saving"
    BY DEF HistoryEmptied, HistoryWritten
<1>2. UNCHANGED <<proc, pool, rows, report, best, clock, kinds, job, entry, env, runner, excuses>>
    BY DEF HistoryEmptied, HistoryWritten, optimizerVars, userVars
<1>3. /\ LifeInv /\ FilesTyped /\ ClockCounts /\ LifeOf(j) /\ ThreadOf(j) /\ Shapes
      /\ state \in ThreadState
    BY DEF TypeInv, LifeInv, ThreadState
<1>4. thread'[j] = state
    BY <1>1, <1>3 DEF Shapes
<1>5. LifeOf(j)' /\ ThreadOf(j)'
    <2>1. LifeOf(j)'
        BY <1>1, <1>2, <1>3, <1>4 DEF LifeOf, Idle
    <2>2. ThreadOf(j)'
        BY <1>1, <1>2, <1>3, <1>4 DEF ThreadOf, Alive
    <2> QED
        BY <2>1, <2>2
<1>6. LifeInv'
    <2>1. clock \in Nat /\ clock' \in Nat /\ clock' >= clock
        BY <1>2, <1>3 DEF ClockCounts
    <2>2. kinds' \in [Jobs -> Kinds] /\ entry' \in [Jobs -> {Nothing} \cup Entry]
        BY <1>2, <1>3 DEF Shapes
    <2> QED
        BY <1>1, <1>2, <1>3, <1>5, <2>1, <2>2, ThreadLife
<1>7. FilesTyped'
    <2>1. draft' \in [Jobs -> Seq(Entry)] /\ (history' = Torn \/ history' \in Seq(Entry))
        <3>1. << >> \in Seq(Entry) /\ draft \in [Jobs -> Seq(Entry)]
            BY <1>3 DEF FilesTyped
        <3>2. CASE HistoryEmptied(j)
            <4>1. entry[j] \in Entry
                BY <1>3, <3>2 DEF HistoryEmptied, ThreadOf, Shapes
            <4>2. Readable \in Seq(Entry)
                BY <1>3, <3>1 DEF Readable, FilesTyped
            <4>3. <<entry[j]>> \o Readable \in Seq(Entry)
                BY <4>1, <4>2
            <4>4. Kept(<<entry[j]>> \o Readable) \in Seq(Entry)
                BY <4>3, KeptIsAList
            <4> QED
                BY <3>1, <3>2, <4>4 DEF HistoryEmptied
        <3>3. CASE HistoryWritten(j)
            BY <3>1, <3>3 DEF HistoryWritten
        <3> QED
            BY <3>2, <3>3
    <2>2. progress' \in 0..MaxJobs
        BY <1>3, OptimizerAssumption
        DEF HistoryEmptied, HistoryWritten, optimizerVars, FilesTyped
    <2> QED
        BY <1>2, <1>3, <2>1, <2>2 DEF FilesTyped
<1>8. ClockCounts'
    <2>1. Stamped' = Stamped
        BY <1>1, <1>3, <1>4 DEF Stamped, Shapes
    <2>2. Exported' = Exported
        BY <1>2 DEF Exported
    <2> QED
        BY <1>2, <1>3, <2>1, <2>2, ClockKept
<1> QED
    BY <1>6, <1>7, <1>8 DEF TypeInv

LEMMA ApiDiesTyped ==
    ASSUME TypeInv, ApiDies
    PROVE  TypeInv'
<1>1. /\ thread' = [j \in Jobs |-> IF ThreadAlive(j) THEN "over" ELSE thread[j]]
      /\ entry' = [j \in Jobs |-> IF ThreadAlive(j) THEN Nothing ELSE entry[j]]
      /\ draft' = [j \in Jobs |-> << >>] /\ job' = NoJob /\ Trouble("api")
      /\ UNCHANGED <<proc, pool, rows, report, progress, best, clock, kinds, history, env, runner>>
    BY DEF ApiDies, optimizerVars, userVars
<1>2. LifeInv /\ FilesTyped /\ ClockCounts /\ Shapes
    BY DEF TypeInv, LifeInv
<1>3. Shapes'
    BY <1>1, <1>2 DEF Shapes, ThreadState
<1>4. ASSUME NEW j \in Jobs PROVE LifeOf(j)' /\ ThreadOf(j)'
    <2>1. LifeOf(j) /\ ThreadOf(j)
        BY <1>2 DEF LifeInv
    <2>2. /\ thread'[j] = IF ThreadAlive(j) THEN "over" ELSE thread[j]
          /\ entry'[j] = IF ThreadAlive(j) THEN Nothing ELSE entry[j]
        BY <1>1
    <2>3. LifeOf(j)'
        BY <1>1, <2>1, <2>2 DEF LifeOf, Idle
    <2>4. ThreadOf(j)'
        BY <1>1, <2>1, <2>2 DEF ThreadOf, Alive
    <2> QED
        BY <2>3, <2>4
<1>5. LifeInv'
    BY <1>3, <1>4 DEF LifeInv
<1>6. FilesTyped'
    <2>1. << >> \in Seq(Entry) /\ excuses' \subseteq Excuse
          /\ job' \in [status : {"idle", "running", "done", "error"}, result : 0..MaxJobs]
        BY <1>1, <1>2, OptimizerAssumption DEF FilesTyped, Trouble, Excuse, NoJob
    <2> QED
        BY <1>1, <1>2, <2>1 DEF FilesTyped
<1>7. ClockCounts'
    <2>1. Stamped \subseteq Stamped'
        BY <1>1 DEF Stamped
    <2>2. Exported' = Exported
        BY <1>1 DEF Exported
    <2> QED
        BY <1>1, <1>2, <2>1, <2>2, ClockKept
<1> QED
    BY <1>5, <1>6, <1>7 DEF TypeInv

\* What a user does, or nobody.
UserSame == UNCHANGED <<proc, pool, rows, report, progress, best, clock,
                        thread, kinds, job, entry, draft, history, excuses>>

LEMMA UserLeaves == UserNext \/ UNCHANGED vars => UserSame
BY DEF UserNext, ApplyBestConfig, SaveSettings, StartRunner, optimizerVars, jobVars, vars, UserSame

LEMMA UserTyped ==
    ASSUME TypeInv, UserNext \/ UNCHANGED vars
    PROVE  TypeInv'
<1>1. UserSame
    BY UserLeaves
<1>2. LifeInv'
    BY <1>1 DEF TypeInv, LifeInv, Shapes, LifeOf, ThreadOf, Idle, Alive, UserSame
<1>3. FilesTyped'
    <2>1. best # Torn => best.params \in Params
        BY DEF TypeInv, FilesTyped
    <2>2. env' \in Params \cup {Unusable} /\ runner' \in Params \cup {NotRunning}
        BY <2>1, JobsAssumption
        DEF TypeInv, FilesTyped, UserNext, ApplyBestConfig, SaveSettings, StartRunner, vars
    <2> QED
        BY <1>1, <2>2 DEF TypeInv, FilesTyped, UserSame
<1>4. ClockCounts'
    BY <1>1 DEF TypeInv, ClockCounts, Stamped, Exported, UserSame
<1> QED
    BY <1>2, <1>3, <1>4 DEF TypeInv

LEMMA TypeStep == TypeInv /\ [Next]_vars => TypeInv'
<1> SUFFICES ASSUME TypeInv, [Next]_vars PROVE TypeInv'
    OBVIOUS
<1>1. CASE ProcessNext /\ UNCHANGED <<jobVars, userVars, excuses>>
    BY <1>1, ProcessTyped DEF JobsSame, jobVars, userVars
<1>2. CASE \E kind \in Kinds : StartJob(kind)
    BY <1>2, StartJobTyped
<1>3. CASE \E j \in Jobs : ThreadStep(j)
    BY <1>3, ThreadBeginsTyped, ProcessReturnsTyped, TimesOutTyped, HistoryTyped DEF ThreadStep
<1>4. CASE ApiDies
    BY <1>4, ApiDiesTyped
<1>5. CASE UserNext \/ UNCHANGED vars
    BY <1>5, UserTyped
<1> QED
    BY <1>1, <1>2, <1>3, <1>4, <1>5 DEF Next

LEMMA TypeInit == Init => TypeInv
<1> SUFFICES ASSUME Init PROVE TypeInv
    OBVIOUS
<1> USE DEF Init
<1>1. Shapes
    BY JobsAssumption DEF Shapes, Process, Phase, NotStarted, ThreadState, Kinds
<1>2. \A j \in Jobs : LifeOf(j) /\ ThreadOf(j)
    BY DEF LifeOf, ThreadOf, Idle, NotStarted
<1>3. FilesTyped
    <2>1. \A j \in Jobs : IsFiniteSet(pool[j]) /\ Cardinality(pool[j]) <= Workers
        <3>1. IsFiniteSet({}) /\ Cardinality({}) = 0 /\ Workers \in Nat
            BY FS_EmptySet, OptimizerAssumption
        <3> QED
            BY <3>1
    <2>2. /\ report \in [Kinds -> 0..MaxJobs] /\ progress \in 0..MaxJobs
          /\ best \in [params : Params, job : 0..MaxJobs, at : Nat]
          /\ job \in [status : {"idle", "running", "done", "error"}, result : 0..MaxJobs]
        BY OptimizerAssumption, JobsAssumption DEF File, NoJob
    <2>3. draft \in [Jobs -> Seq(Entry)] /\ history \in Seq(Entry)
        OBVIOUS
    <2> QED
        BY <2>1, <2>2, <2>3 DEF FilesTyped
<1>4. ClockCounts
    <2>1. Stamped \in SUBSET Jobs /\ Exported \in SUBSET Jobs
        BY DEF Stamped, Exported
    <2>2. Cardinality(Stamped) \in Nat /\ Cardinality(Exported) \in Nat
        BY <2>1, JobsCounted
    <2> QED
        BY <2>2 DEF ClockCounts
<1> QED
    BY <1>1, <1>2, <1>3, <1>4 DEF TypeInv, LifeInv

\* A job that has begun keeps its list of combinations, of which less and less
\* waits for a worker.
ListsKept ==
    /\ Listed'
    /\ \A i \in Jobs : proc[i].phase # "none" =>
          proc'[i].phase # "none" /\ proc'[i].minimum = proc[i].minimum

LEMMA OneListKept ==
    ASSUME TypeInv, Listed, NEW j \in Jobs, NEW P, proc' = [proc EXCEPT ![j] = P],
           P.phase # "none", P.minimum = proc[j].minimum, P.pending \subseteq proc[j].pending
    PROVE  ListsKept
<1>1. proc'[j] = P /\ \A i \in Jobs \ {j} : proc'[i] = proc[i]
    BY DEF TypeInv, LifeInv, Shapes
<1>2. \A i \in Jobs : Combinations(proc'[i].minimum) = Combinations(proc[i].minimum)
    BY <1>1
<1> QED
    BY <1>1, <1>2 DEF ListsKept, Listed

LEMMA ListStep == TypeInv /\ Listed /\ [Next]_vars => ListsKept
<1> SUFFICES ASSUME TypeInv, Listed, [Next]_vars PROVE ListsKept
    OBVIOUS
<1>1. \A j \in Jobs : proc[j] \in Process /\ LifeOf(j)
    BY DEF TypeInv, LifeInv, Shapes
<1>2. ASSUME UNCHANGED proc PROVE ListsKept
    BY <1>2 DEF ListsKept, Listed
<1>3. ASSUME NEW j \in Jobs, NEW phase \in Outdone, proc[j].phase # "none",
             proc' = [proc EXCEPT ![j] = Ended(j, phase)]
      PROVE  ListsKept
    <2> DEFINE P == Ended(j, phase)
    <2>1. P.phase = phase /\ P.minimum = proc[j].minimum /\ P.pending = proc[j].pending
        BY <1>1 DEF Ended, Process
    <2> HIDE DEF P
    <2> QED
        BY <1>3, <2>1, OneListKept DEF P, Outdone
<1>4. ASSUME ProcessNext PROVE ListsKept
    <2>1. ASSUME NEW j \in Jobs, TakeTask(j) PROVE ListsKept
        <3>1. PICK c \in proc[j].pending : proc' = [proc EXCEPT ![j].pending = @ \ {c}]
            BY <2>1 DEF TakeTask
        <3> DEFINE P == [proc[j] EXCEPT !.pending = @ \ {c}]
        <3>2. proc[j].phase # "none"
            BY <1>1, <3>1 DEF LifeOf, Idle
        <3>3. /\ P.phase = proc[j].phase /\ P.minimum = proc[j].minimum
              /\ P.pending \subseteq proc[j].pending
            BY <1>1 DEF Process
        <3>4. proc' = [proc EXCEPT ![j] = P]
            BY <3>1
        <3> HIDE DEF P
        <3> QED
            BY <3>2, <3>3, <3>4, OneListKept
    <2>2. ASSUME NEW j \in Jobs, NEW task \in pool[j], Evaluate(j, task) PROVE ListsKept
        <3>1. \/ UNCHANGED proc
              \/ \E results : proc' = [proc EXCEPT ![j].results = results]
            BY <2>2 DEF Evaluate, Collect
        <3>2. ASSUME NEW results, proc' = [proc EXCEPT ![j].results = results] PROVE ListsKept
            <4> DEFINE P == [proc[j] EXCEPT !.results = results]
            <4>1. proc[j].phase # "none"
                BY <1>1 DEF LifeOf, Idle
            <4>2. /\ P.phase = proc[j].phase /\ P.minimum = proc[j].minimum
                  /\ P.pending = proc[j].pending
                BY <1>1 DEF Process
            <4>3. proc' = [proc EXCEPT ![j] = P]
                BY <3>2
            <4> HIDE DEF P
            <4> QED
                BY <4>1, <4>2, <4>3, OneListKept
        <3> QED
            BY <1>2, <3>1, <3>2
    <2>3. ASSUME NEW j \in Jobs, NEW phase \in Phase \ {"none"}, NEW chosen, NEW verdict,
                 \/ proc' = [proc EXCEPT ![j].phase = phase]
                 \/ proc' = [proc EXCEPT ![j].phase = phase, ![j].chosen = chosen]
                 \/ proc' = [proc EXCEPT ![j].verdict = verdict, ![j].phase = phase]
          PROVE  ListsKept
        <3>1. PICK P : /\ proc' = [proc EXCEPT ![j] = P]
                       /\ P \in {[proc[j] EXCEPT !.phase = phase],
                                 [proc[j] EXCEPT !.phase = phase, !.chosen = chosen],
                                 [proc[j] EXCEPT !.verdict = verdict, !.phase = phase]}
            <4>1. CASE proc' = [proc EXCEPT ![j].phase = phase]
                BY <4>1
            <4>2. CASE proc' = [proc EXCEPT ![j].phase = phase, ![j].chosen = chosen]
                BY <4>2
            <4>3. CASE proc' = [proc EXCEPT ![j].verdict = verdict, ![j].phase = phase]
                BY <4>3
            <4> QED
                BY <2>3, <4>1, <4>2, <4>3
        <3>2. P.phase = phase /\ P.minimum = proc[j].minimum /\ P.pending = proc[j].pending
            BY <1>1, <3>1 DEF Process
        <3> QED
            BY <3>1, <3>2, OneListKept
    <2>4. ASSUME NEW j \in Jobs, Judge(j) PROVE ListsKept
        <3>1. PICK m \in Measures :
                  \/ proc' = [proc EXCEPT ![j] = [Ended(j, "ok") EXCEPT !.verdict = Verdict(m)]]
                  \/ proc' = [proc EXCEPT ![j].verdict = Verdict(m), ![j].phase = "exporting"]
            BY <2>4, Zenon DEF Judge
        <3>2. CASE proc' = [proc EXCEPT ![j] = [Ended(j, "ok") EXCEPT !.verdict = Verdict(m)]]
            <4> DEFINE P == [Ended(j, "ok") EXCEPT !.verdict = Verdict(m)]
            <4>1. P.phase = "ok" /\ P.minimum = proc[j].minimum /\ P.pending = proc[j].pending
                BY <1>1 DEF Ended, Process
            <4> HIDE DEF P
            <4> QED
                BY <3>2, <4>1, OneListKept DEF P
        <3> QED
            BY <2>3, <3>1, <3>2 DEF Phase
    <2>5. ASSUME NEW j \in Jobs, FindNothing(j) \/ Export(j) \/ Fail(j) PROVE ListsKept
        <3>1. proc[j].phase # "none"
            BY <2>5 DEF FindNothing, Export, Fail, Evaluated, Alive, Active
        <3>2. PICK phase \in Outdone : proc' = [proc EXCEPT ![j] = Ended(j, phase)]
            BY <2>5 DEF FindNothing, Export, Fail, Outdone
        <3> QED
            BY <1>3, <3>1, <3>2
    <2>6. ASSUME NEW j \in Jobs, Rank(j) \/ BacktestResets(j) \/ BacktestReports(j)
          PROVE  ListsKept
        <3>1. \E phase \in {"validating", "replaying", "ok"} :
                  \/ proc' = [proc EXCEPT ![j].phase = phase]
                  \/ \E chosen : proc' = [proc EXCEPT ![j].phase = phase, ![j].chosen = chosen]
            <4>1. CASE Rank(j)
                BY <4>1 DEF Rank
            <4>2. CASE BacktestResets(j) \/ BacktestReports(j)
                BY <4>2 DEF BacktestResets, BacktestReports
            <4> QED
                BY <2>6, <4>1, <4>2
        <3> QED
            BY <2>3, <3>1 DEF Phase
    <2> QED
        BY <1>4, <2>1, <2>2, <2>4, <2>5, <2>6 DEF ProcessNext, WorkerNext
<1>5. ASSUME NEW j \in Jobs, ThreadStep(j) PROVE ListsKept
    <2>1. CASE ThreadBegins(j)
        <3>1. PICK minimum \in Minimums :
                  proc' = [proc EXCEPT ![j] = Begun(kinds[j], Loaded(env), minimum)]
            BY <2>1 DEF ThreadBegins
        <3> DEFINE P == Begun(kinds[j], Loaded(env), minimum)
        <3>2. P.minimum = minimum /\ P.pending \subseteq Combinations(minimum)
            BY DEF Begun, NotStarted
        <3> HIDE DEF P
        <3>3. proc'[j] = P /\ (\A i \in Jobs \ {j} : proc'[i] = proc[i]) /\ proc[j].phase = "none"
            BY <1>1, <2>1, <3>1 DEF P, TypeInv, LifeInv, Shapes, ThreadBegins, LifeOf
        <3>4. \A i \in Jobs \ {j} : Combinations(proc'[i].minimum) = Combinations(proc[i].minimum)
            BY <3>3
        <3> QED
            BY <3>2, <3>3, <3>4 DEF ListsKept, Listed
    <2>2. CASE TimesOut(j)
        <3>1. proc[j].phase # "none" /\ Kill(j)
            BY <2>2 DEF TimesOut, Alive, Active
        <3>2. PICK pending \in {proc[j].pending, {}} :
                  proc' = [proc EXCEPT ![j] = [Ended(j, "killed") EXCEPT !.pending = pending]]
            BY <3>1 DEF Kill, Ended
        <3> DEFINE P == [Ended(j, "killed") EXCEPT !.pending = pending]
        <3>3. P.phase = "killed" /\ P.minimum = proc[j].minimum /\ P.pending = pending
            BY <1>1 DEF Ended, Process
        <3> HIDE DEF P
        <3> QED
            BY <3>2, <3>3, OneListKept DEF P
    <2>3. CASE ProcessReturns(j) \/ HistoryEmptied(j) \/ HistoryWritten(j)
        BY <1>2, <2>3 DEF ProcessReturns, HistoryEmptied, HistoryWritten, optimizerVars
    <2> QED
        BY <1>5, <2>1, <2>2, <2>3 DEF ThreadStep
<1>6. CASE \E kind \in Kinds : StartJob(kind)
    BY <1>2, <1>6 DEF StartJob, optimizerVars
<1>7. CASE ApiDies \/ UserNext \/ UNCHANGED vars
    BY <1>2, <1>7, UserLeaves DEF ApiDies, optimizerVars, UserSame
<1> QED
    BY <1>4, <1>5, <1>6, <1>7 DEF Next

LEMMA ListInit == Init => Listed
BY DEF Init, NotStarted, Listed

\* Every state of the jobs and of their processes is well typed, for any
\* number of jobs and workers: a history that is rewritten stays a list of
\* entries, a pool never exceeds its workers, and no more time stamps are
\* handed out than jobs end and export.
THEOREM TuningTypeCorrect == Spec => []TypeOK
<1>1. TypeInv /\ Listed => TypeOK
    <2> SUFFICES ASSUME TypeInv, Listed PROVE TypeOK
        OBVIOUS
    <2>1. Shapes /\ FilesTyped /\ ClockCounts
        BY DEF TypeInv, LifeInv
    <2>2. \A j \in Jobs : proc[j] \in Process
        BY <2>1 DEF Shapes
    <2>3. clock \in 0..(2 * MaxJobs)
        <3>1. Stamped \in SUBSET Jobs /\ Exported \in SUBSET Jobs
            BY DEF Stamped, Exported
        <3>2. /\ Cardinality(Stamped) \in Nat /\ Cardinality(Stamped) <= MaxJobs
              /\ Cardinality(Exported) \in Nat /\ Cardinality(Exported) <= MaxJobs
            BY <3>1, JobsCounted
        <3> QED
            BY <2>1, <3>2, OptimizerAssumption DEF ClockCounts
    <2>4. OptimizerTypeOK
        BY <2>1, <2>2, <2>3, ProcessFields DEF OptimizerTypeOK, Shapes, FilesTyped, Listed
    <2> QED
        BY <2>1, <2>4 DEF TypeOK, Shapes, FilesTyped
<1>2. TypeInv /\ Listed /\ [Next]_vars => Listed'
    BY ListStep DEF ListsKept
<1> QED
    BY <1>1, <1>2, TypeInit, TypeStep, ListInit, PTL DEF Spec

-----------------------------------------------------------------------------
(* One job at a time.                                                      *)

MainStep(j) ==
    \/ FindNothing(j) \/ Rank(j) \/ Judge(j) \/ Export(j)
    \/ BacktestResets(j) \/ BacktestReports(j) \/ Fail(j)

\* A main process moves when no task of it is under way, touches no sandbox
\* but its own, and reports under its own kind.
LEMMA MainSteps ==
    ASSUME TypeInv, JobsSame, NEW j \in Jobs, MainStep(j)
    PROVE  /\ Moved(j) /\ UNCHANGED pool
           /\ Alive(j) /\ Idle(j) /\ Idle(j)'
           /\ proc'[j].results \in {{}, proc[j].results}
           /\ \A u \in Users \ {Single} : rows'[u] = rows[u]
           /\ report' \in {report, [report EXCEPT ![kinds[j]] = j]}
           /\ \/ UNCHANGED <<best, clock>>
              \/ best' = Torn /\ UNCHANGED clock
              \/ clock' = clock + 1 /\ best'.job = j /\ best'.at = clock'
<1> USE DEF MainStep
<1>1. LifeOf(j) /\ rows \in [Users -> SUBSET Evidence] /\ report \in [Kinds -> 0..MaxJobs]
    BY DEF TypeInv, LifeInv, Shapes, FilesTyped
<1>2. Alive(j) /\ Idle(j)
    BY <1>1 DEF FindNothing, Rank, Judge, Export, BacktestResets, BacktestReports, Fail,
        Evaluated, Alive, Active, Phase, LifeOf
<1>3. UNCHANGED pool
    BY DEF FindNothing, Rank, Judge, Export, BacktestResets, BacktestReports, Fail
<1>4. /\ Moved(j) /\ proc'[j].results \in {{}, proc[j].results}
      /\ proc'[j].pending = proc[j].pending
    BY EndsTyped, RankTyped, JudgeTyped, ExportTyped, BacktestTyped
<1>5. Idle(j)'
    BY <1>2, <1>3, <1>4 DEF Idle
<1>6. \A u \in Users \ {Single} : rows'[u] = rows[u]
    <2>1. rows' = rows \/ \E e : rows' = [rows EXCEPT ![Single] = e]
        BY DEF FindNothing, Rank, Judge, Export, BacktestResets, BacktestReports, Fail
    <2> QED
        BY <1>1, <2>1
<1>7. report' \in {report, [report EXCEPT ![kinds[j]] = j]}
    <2>1. CASE Rank(j)
        <3>1. kinds[j] = "optimizer"
            BY <1>1, <2>1 DEF Rank, Evaluated, LifeOf, Phases, Outdone
        <3> QED
            BY <2>1, <3>1 DEF Rank
    <2>2. CASE BacktestReports(j)
        <3>1. kinds[j] = "backtest"
            BY <1>1, <2>2 DEF BacktestReports, LifeOf, Phases, Outdone, TypeInv, LifeInv, Shapes, Kinds
        <3> QED
            BY <2>2, <3>1 DEF BacktestReports
    <2> QED
        BY <2>1, <2>2 DEF FindNothing, Judge, Export, BacktestResets, Fail
<1>8. \/ UNCHANGED <<best, clock>>
      \/ best' = Torn /\ UNCHANGED clock
      \/ clock' = clock + 1 /\ best'.job = j /\ best'.at = clock'
    <2>1. CASE Judge(j)
        <3>1. UNCHANGED clock /\ (best' = Torn \/ UNCHANGED best)
            BY <2>1, Zenon DEF Judge
        <3> QED
            BY <3>1
    <2>2. CASE Export(j)
        BY <2>2 DEF Export, File
    <2> QED
        BY <2>1, <2>2 DEF FindNothing, Rank, BacktestResets, BacktestReports, Fail
<1> QED
    BY <1>2, <1>3, <1>4, <1>5, <1>6, <1>7, <1>8

LEMMA ProcessCases ==
    ASSUME ProcessNext
    PROVE  \/ \E j \in Jobs : TakeTask(j)
           \/ \E j \in Jobs : \E task \in pool[j] : Evaluate(j, task)
           \/ \E j \in Jobs : MainStep(j)
BY DEF ProcessNext, WorkerNext, MainStep

LEMMA AliveBefore ==
    ASSUME TypeInv, JobsSame, ProcessNext, NEW i \in Jobs, Alive(i)'
    PROVE  Alive(i)
<1>1. ASSUME NEW j \in Jobs, TakeTask(j) PROVE Alive(i)
    BY <1>1, TakeTaskSteps DEF TypeInv, Moved, Alive
<1>2. ASSUME NEW j \in Jobs, NEW task \in pool[j], Evaluate(j, task) PROVE Alive(i)
    BY <1>2, EvaluateSteps DEF TypeInv, FilesTyped, Moved, Alive
<1>3. ASSUME NEW j \in Jobs, MainStep(j) PROVE Alive(i)
    BY <1>3, MainSteps DEF Moved, Alive
<1> QED
    BY <1>1, <1>2, <1>3, ProcessCases

\* What has happened is not forgotten.
LEMMA ExcusesGrow == [Next]_vars => excuses \subseteq excuses'
<1> SUFFICES ASSUME [Next]_vars PROVE excuses \subseteq excuses'
    OBVIOUS
<1>1. CASE \E kind \in Kinds : StartJob(kind)
    BY <1>1 DEF StartJob, Trouble
<1>2. ASSUME NEW j \in Jobs, ThreadStep(j) PROVE excuses \subseteq excuses'
    BY <1>2 DEF ThreadStep, ThreadBegins, ProcessReturns, TimesOut, HistoryEmptied, HistoryWritten
<1>3. CASE ApiDies
    BY <1>3 DEF ApiDies, Trouble
<1>4. CASE UserNext
    BY <1>4 DEF UserNext, ApplyBestConfig, SaveSettings, StartRunner
<1> QED
    BY <1>1, <1>2, <1>3, <1>4 DEF Next, vars

\* A job is started when no other is alive, and after all others.
LEMMA StartsAlone ==
    ASSUME TypeInv, Orderly', NEW kind \in Kinds, StartJob(kind)
    PROVE  \E j \in Jobs :
              /\ \A i \in Jobs : ~ThreadAlive(i)
              /\ \A k \in Jobs : k >= j => thread[k] = "none"
              /\ thread' = [thread EXCEPT ![j] = "started"]
              /\ kinds' = [kinds EXCEPT ![j] = kind]
              /\ job'.status # "done" \/ job' = job
              /\ UNCHANGED <<proc, pool, rows, report, progress, best, clock, entry, draft,
                             history, excuses>>
<1>1. PICK j \in Jobs :
          /\ LastJob = j - 1
          /\ thread' = [thread EXCEPT ![j] = "started"]
          /\ kinds' = [kinds EXCEPT ![j] = kind]
          /\ job' = IF job.status = "running" THEN [job EXCEPT !.status = "error"] ELSE job
          /\ IF \E i \in Jobs : ThreadAlive(i) THEN Trouble("overlap") ELSE UNCHANGED excuses
    BY DEF StartJob
<1>2. \A i \in Jobs : ~ThreadAlive(i)
    BY <1>1 DEF Trouble, Orderly
<1>3. ASSUME NEW k \in Jobs, k >= j, thread[k] # "none" PROVE FALSE
    <2> DEFINE S == {0} \cup {i \in Jobs : thread[i] # "none"}
    <2>1. S \in SUBSET (0..MaxJobs) /\ k \in S /\ S # {}
        BY <1>3, OptimizerAssumption DEF Jobs
    <2>2. IsFiniteSet(S)
        <3>1. IsFiniteSet(0..MaxJobs)
            BY FS_Interval, OptimizerAssumption
        <3> HIDE DEF S
        <3> QED
            BY <2>1, <3>1, FS_Subset
    <2>3. k <= LastJob
        <3>1. S \subseteq Int
            BY <2>1
        <3>2. k <= Max(S)
            <4> HIDE DEF S
            <4> QED
                BY <2>1, <2>2, <3>1, HighestNumber
        <3> QED
            BY <3>2 DEF LastJob
    <2> QED
        BY <1>1, <1>3, <2>3 DEF Jobs
<1>4. job'.status # "done" \/ job' = job
    BY <1>1 DEF TypeInv, FilesTyped
<1> QED
    BY <1>1, <1>2, <1>3, <1>4 DEF StartJob, optimizerVars, userVars

LEMMA OneAtATimeStep ==
    ASSUME TypeInv, TypeInv', OneAtATime, [Next]_vars
    PROVE  OneAtATime'
<1> SUFFICES ASSUME Orderly', NEW j \in Jobs
             PROVE  /\ ThreadAlive(j)' => \A k \in Jobs : k > j => thread'[k] = "none"
                    /\ Alive(j)' => thread'[j] = "waiting"
                    /\ thread'[j] = "over" => entry'[j] # Nothing
    BY DEF OneAtATime
<1>0. Orderly
    BY ExcusesGrow DEF Orderly
<1>1. /\ \A i \in Jobs : ThreadAlive(i) => \A k \in Jobs : k > i => thread[k] = "none"
      /\ \A i \in Jobs : Alive(i) => thread[i] = "waiting"
      /\ \A i \in Jobs : thread[i] = "over" => entry[i] # Nothing
    BY <1>0 DEF OneAtATime
<1>2. Jobs \subseteq Nat /\ thread \in [Jobs -> ThreadState] /\ entry \in [Jobs -> {Nothing} \cup Entry]
    BY DEF TypeInv, LifeInv, Shapes, Jobs
<1>3. CASE ProcessNext /\ UNCHANGED <<jobVars, userVars, excuses>>
    <2>1. JobsSame
        BY <1>3 DEF JobsSame, jobVars, userVars
    <2> QED
        BY <1>1, <1>3, <2>1, AliveBefore DEF JobsSame, ThreadAlive
<1>4. ASSUME NEW kind \in Kinds, StartJob(kind)
      PROVE  /\ ThreadAlive(j)' => \A k \in Jobs : k > j => thread'[k] = "none"
             /\ Alive(j)' => thread'[j] = "waiting"
             /\ thread'[j] = "over" => entry'[j] # Nothing
    <2>1. PICK n \in Jobs :
              /\ \A i \in Jobs : ~ThreadAlive(i)
              /\ \A k \in Jobs : k >= n => thread[k] = "none"
              /\ thread' = [thread EXCEPT ![n] = "started"]
              /\ UNCHANGED <<proc, entry>>
        BY <1>4, StartsAlone
    <2>2. thread'[n] = "started" /\ \A k \in Jobs \ {n} : thread'[k] = thread[k]
        BY <1>2, <2>1
    <2>3. CASE j = n
        <3>1. \A k \in Jobs : k > n => thread'[k] = "none"
            BY <1>2, <2>1, <2>2
        <3>2. ~Alive(n)
            BY <1>2, <1>1, <2>1
        <3> QED
            BY <2>1, <2>2, <2>3, <3>1, <3>2 DEF Alive
    <2>4. CASE j # n
        BY <1>1, <2>1, <2>2, <2>4 DEF Alive, ThreadAlive
    <2> QED
        BY <2>3, <2>4
<1>5. ASSUME NEW n \in Jobs, ThreadStep(n)
      PROVE  /\ ThreadAlive(j)' => \A k \in Jobs : k > j => thread'[k] = "none"
             /\ Alive(j)' => thread'[j] = "waiting"
             /\ thread'[j] = "over" => entry'[j] # Nothing
    <2>1. ThreadAlive(n) /\ \E s : thread' = [thread EXCEPT ![n] = s]
        BY <1>5 DEF ThreadStep, ThreadBegins, ProcessReturns, TimesOut, Finish, HistoryEmptied,
            HistoryWritten, ThreadAlive
    <2>2. \A k \in Jobs \ {n} : thread'[k] = thread[k]
        BY <1>2, <2>1
    <2>3. \A k \in Jobs : k > n => thread'[k] = "none"
        BY <1>1, <1>2, <2>1, <2>2
    <2>4. ThreadAlive(j)' => \A k \in Jobs : k > j => thread'[k] = "none"
        <3>1. CASE j = n
            BY <2>3, <3>1
        <3>2. CASE j # n
            <4>1. SUFFICES ASSUME ThreadAlive(j), NEW k \in Jobs, k > j PROVE thread'[k] = "none"
                BY <2>2, <3>2 DEF ThreadAlive
            <4>2. thread[k] = "none"
                BY <1>1, <4>1
            <4>3. thread[n] # "none"
                BY <2>1 DEF ThreadAlive
            <4> QED
                BY <2>2, <4>2, <4>3
        <3> QED
            BY <3>1, <3>2
    <2>5. /\ \A i \in Jobs \ {n} : proc'[i] = proc[i]
          /\ Alive(n)' => thread'[n] = "waiting"
        <3>1. CASE ThreadBegins(n)
            BY <1>2, <3>1, ThreadBeginsTyped DEF ThreadBegins, Moved
        <3>2. CASE ProcessReturns(n) \/ TimesOut(n)
            <4>1. thread'[n] = "saving"
                BY <1>2, <3>2 DEF ProcessReturns, TimesOut, Finish
            <4>2. ~Alive(n)'
                BY <4>1 DEF TypeInv, LifeInv, ThreadOf
            <4> QED
                BY <3>2, <4>2, ProcessReturnsTyped, TimesOutTyped DEF Finishes, Moved
        <3>3. CASE HistoryEmptied(n) \/ HistoryWritten(n)
            <4>1. UNCHANGED proc /\ thread[n] \in {"saving", "writing"}
                BY <3>3 DEF HistoryEmptied, HistoryWritten, optimizerVars
            <4>2. ~Alive(n)
                BY <4>1 DEF TypeInv, LifeInv, ThreadOf
            <4> QED
                BY <4>1, <4>2 DEF Alive
        <3> QED
            BY <1>5, <3>1, <3>2, <3>3 DEF ThreadStep
    <2>6. Alive(j)' => thread'[j] = "waiting"
        BY <1>1, <2>2, <2>5 DEF Alive
    <2>7. thread'[j] = "over" => entry'[j] # Nothing
        <3>1. \A i \in Jobs \ {n} : entry'[i] = entry[i]
            BY <1>2, <1>5 DEF ThreadStep, ThreadBegins, ProcessReturns, TimesOut, Finish,
                HistoryEmptied, HistoryWritten
        <3>2. CASE j # n
            BY <1>1, <2>2, <3>1, <3>2
        <3>3. CASE j = n /\ HistoryWritten(n)
            <4>1. entry[n] # Nothing /\ UNCHANGED entry
                BY <3>3 DEF HistoryWritten, TypeInv, LifeInv, ThreadOf
            <4> QED
                BY <3>3, <4>1
        <3>4. CASE j = n /\ ~HistoryWritten(n)
            BY <1>2, <1>5, <3>4 DEF ThreadStep, ThreadBegins, ProcessReturns, TimesOut, Finish,
                HistoryEmptied
        <3> QED
            BY <3>2, <3>3, <3>4
    <2> QED
        BY <2>4, <2>6, <2>7
<1>6. CASE ApiDies
    BY <1>6 DEF ApiDies, Trouble, Orderly
<1>7. CASE UserNext \/ UNCHANGED vars
    <2>1. UNCHANGED <<proc, thread, entry>>
        BY <1>7, UserLeaves DEF UserSame
    <2> QED
        BY <1>1, <2>1 DEF Alive, ThreadAlive
<1> QED
    BY <1>3, <1>4, <1>5, <1>6, <1>7 DEF Next

-----------------------------------------------------------------------------
(* Whose trades a combination is scored by.                                *)

\* The combinations of a job have sandboxes of their own, in their order.
LEMMA SandboxesApart ==
    ASSUME NEW i \in Jobs, NEW j \in Jobs, proc[i].minimum = proc[j].minimum,
           NEW c \in Combinations(proc[i].minimum), NEW d \in Combinations(proc[j].minimum),
           Sandbox(i, c) = Sandbox(j, d)
    PROVE  c = d
<1> DEFINE A == Combinations(proc[j].minimum)
           f == [p \in A |-> Position[p]]
<1>1. IsFiniteSet(A) /\ A \subseteq Params
    <2>1. A \in SUBSET Params /\ IsFiniteSet(Params)
        BY OptimizerAssumption DEF Combinations
    <2> QED
        BY <2>1, FS_Subset
<1>2. c \in A /\ d \in A
    OBVIOUS
<1>3. \A p \in A : Sandbox(i, p) = Standing(f, A, p) /\ Sandbox(j, p) = Standing(f, A, p)
    <2>1. ASSUME NEW p \in A
          PROVE  {q \in A : Position[q] <= Position[p]} = {q \in A : f[q] <= f[p]}
        OBVIOUS
    <2>2. ASSUME NEW p \in A
          PROVE  /\ Sandbox(i, p) = Cardinality({q \in A : Position[q] <= Position[p]})
                 /\ Sandbox(j, p) = Cardinality({q \in A : Position[q] <= Position[p]})
        BY DEF Sandbox
    <2> HIDE DEF A, f
    <2> QED
        BY <2>1, <2>2 DEF Standing
<1>4. f \in [A -> Int] /\ \A p, q \in A : f[p] = f[q] => p = q
    <2>1. Position \in [Params -> Nat] /\ \A p, q \in Params : Position[p] = Position[q] => p = q
        BY OptimizerAssumption DEF Injection, IsInjective
    <2> HIDE DEF A
    <2> QED
        BY <1>1, <2>1
<1> HIDE DEF A, f
<1>5. Standing(f, A, c) = Standing(f, A, d) /\ Standing(f, A, c) \in Int
    <2>1. Standing(f, A, c) \in 1..Cardinality(A)
        BY <1>1, <1>2, <1>4, StandingIsNat
    <2> QED
        BY <1>2, <1>3, <2>1
<1>6. ~(f[c] < f[d]) /\ ~(f[d] < f[c])
    BY <1>1, <1>2, <1>4, <1>5, StandingRises
<1> QED
    BY <1>2, <1>4, <1>6

\* The walk-forward validation shares its sandbox with no combination.
LEMMA SandboxIsWorkers ==
    ASSUME NEW j \in Jobs, NEW c \in Combinations(proc[j].minimum)
    PROVE  Sandbox(j, c) \in Users \ {Single}
<1> DEFINE A == {p \in Combinations(proc[j].minimum) : Position[p] <= Position[c]}
<1>1. c \in A
    BY OptimizerAssumption DEF Combinations, Injection
<1>2. A \in SUBSET Params /\ IsFiniteSet(Params)
    BY OptimizerAssumption DEF Combinations
<1> HIDE DEF A
<1>3. IsFiniteSet(A)
    BY <1>2, FS_Subset
<1>4. Cardinality(A) # 0
    BY <1>1, <1>3, FS_EmptySet
<1>5. Sandbox(j, c) # Single
    BY <1>4 DEF Sandbox, Single, A
<1> QED
    BY <1>5, SandboxIsUser

\* Whose sandbox is whose does not change for a job that has begun.
LEMMA SandboxKept ==
    ASSUME NEW j, proc'[j].minimum = proc[j].minimum, NEW c
    PROVE  Sandbox(j, c)' = Sandbox(j, c)
BY DEF Sandbox, Combinations

\* What is known of the trades in the sandboxes stays known: they were made by
\* jobs that have begun.
LEMMA RowsKept ==
    ASSUME TypeInv, ListsKept, NEW u \in Users \ {Single}, NEW e \in rows[u],
           proc[e[1]].phase # "none", e[2] \in Combinations(proc[e[1]].minimum),
           Sandbox(e[1], e[2]) = u
    PROVE  /\ proc'[e[1]].phase # "none" /\ e[2] \in Combinations(proc'[e[1]].minimum)
           /\ Sandbox(e[1], e[2])' = u
<1>1. e[1] \in Jobs
    <2>1. e \in Evidence
        BY DEF TypeInv, LifeInv, Shapes
    <2> QED
        BY <2>1 DEF Evidence
<1>2. proc'[e[1]].phase # "none" /\ proc'[e[1]].minimum = proc[e[1]].minimum
    BY <1>1 DEF ListsKept
<1>3. Sandbox(e[1], e[2])' = Sandbox(e[1], e[2])
    BY <1>2 DEF Sandbox, Combinations
<1> QED
    BY <1>2, <1>3

\* So does what is known of the tasks.
LEMMA TasksKept ==
    ASSUME TypeInv, ListsKept, NEW i \in Jobs, NEW task \in pool[i]
    PROVE  /\ proc'[i].minimum = proc[i].minimum
           /\ Sandbox(i, task.combo)' = Sandbox(i, task.combo)
<1>1. proc[i].phase # "none"
    BY DEF TypeInv, LifeInv, LifeOf, Idle
<1>2. proc'[i].minimum = proc[i].minimum
    BY <1>1 DEF ListsKept
<1> QED
    BY <1>2 DEF Sandbox, Combinations

\* Results that stay say what they said.
LEMMA ResultsKept ==
    ASSUME TypeInv, EvidenceInv, ListsKept, excuses \subseteq excuses',
           NEW i \in Jobs, NEW r \in proc[i].results
    PROVE  /\ \A e \in r.measured : proc'[e[1]].phase # "none"
           /\ excuses' = {} => r.measured = {<<i, r.combo>>}
           /\ \A e \in r.measured : proc'[e[1]].minimum = proc'[i].minimum => e[2] = r.combo
<1>1. r \in Outcome /\ proc[i].phase # "none"
    BY DEF TypeInv, LifeInv, Shapes, Process, LifeOf
<1>2. \A e \in r.measured : e[1] \in Jobs /\ proc[e[1]].phase # "none"
    <2>1. \A e \in r.measured : e \in Evidence
        BY <1>1 DEF Outcome
    <2> QED
        BY <2>1 DEF Evidence, EvidenceInv, OwnResults
<1>3. /\ proc'[i].minimum = proc[i].minimum
      /\ \A e \in r.measured : proc'[e[1]].phase # "none"
                                /\ proc'[e[1]].minimum = proc[e[1]].minimum
    BY <1>1, <1>2 DEF ListsKept
<1>4. /\ excuses = {} => r.measured = {<<i, r.combo>>}
      /\ \A e \in r.measured : proc[e[1]].minimum = proc[i].minimum => e[2] = r.combo
    BY DEF EvidenceInv, MeasuredAlone
<1> QED
    BY <1>3, <1>4

\* A step that takes up no task and ends none.
LEMMA EvidenceStays ==
    ASSUME TypeInv, EvidenceInv, ListsKept, NEW j \in Jobs, Moved(j),
           proc'[j].results \in {{}, proc[j].results},
           \A u \in Users \ {Single} : rows'[u] = rows[u],
           \A i \in Jobs \ {j} : pool'[i] = pool[i], pool'[j] \subseteq pool[j],
           pool'[j] = {} \/ proc'[j].pending \subseteq proc[j].pending,
           excuses \subseteq excuses',
           excuses' = {} => \A i \in Jobs : ~Idle(i)' => thread'[i] = "waiting"
    PROVE  EvidenceInv'
<1>1. OwnRows'
    BY RowsKept DEF EvidenceInv, OwnRows
<1>2. \A i \in Jobs : pool'[i] \subseteq pool[i] /\ proc'[i].results \subseteq proc[i].results
    BY DEF Moved
<1>3. OwnTasks'
    <2>1. ASSUME NEW i \in Jobs, NEW task \in pool'[i]
          PROVE  /\ task.config = task.combo /\ task.combo \notin proc'[i].pending
                 /\ task.combo \in Combinations(proc'[i].minimum)
        <3>1. task \in pool[i] /\ proc'[i].minimum = proc[i].minimum
            BY <1>2, <2>1, TasksKept
        <3>2. task.combo \in Combinations(proc'[i].minimum)
            BY <3>1 DEF EvidenceInv, OwnTasks
        <3> QED
            BY <2>1, <3>1, <3>2 DEF EvidenceInv, OwnTasks, Moved
    <2> QED
        BY <2>1 DEF OwnTasks
<1>4. Undisturbed'
    <2>1. SUFFICES ASSUME excuses' = {}, NEW i \in Jobs, NEW task \in pool'[i]
                   PROVE  rows'[Sandbox(i, task.combo)'] = {}
        BY DEF Undisturbed
    <2>2. excuses = {} /\ task \in pool[i]
        BY <1>2, <2>1
    <2>3. Sandbox(i, task.combo) \in Users \ {Single}
        BY <2>2, SandboxIsWorkers DEF EvidenceInv, OwnTasks
    <2> QED
        BY <2>2, <2>3, TasksKept DEF EvidenceInv, Undisturbed
<1>5. OwnResults' /\ MeasuredAlone'
    BY <1>2, ResultsKept DEF OwnResults, MeasuredAlone
<1> QED
    BY <1>1, <1>3, <1>4, <1>5 DEF EvidenceInv

\* Without trouble no two jobs are waited for.
LEMMA WaitedForAlone ==
    ASSUME TypeInv, OneAtATime, Orderly, NEW i \in Jobs, NEW j \in Jobs,
           thread[i] = "waiting", thread[j] = "waiting"
    PROVE  i = j
<1>1. i \in Nat /\ j \in Nat /\ ~(j > i) /\ ~(i > j)
    BY DEF OneAtATime, ThreadAlive, Jobs
<1> QED
    BY <1>1

LEMMA TakeTaskEvidence ==
    ASSUME TypeInv, Listed, ListsKept, OneAtATime, EvidenceInv, JobsSame,
           NEW j \in Jobs, TakeTask(j)
    PROVE  EvidenceInv'
<1>0. LifeInv /\ LifeOf(j)
    BY DEF TypeInv, LifeInv
<1>1. PICK c \in proc[j].pending :
              /\ Moved(j)
              /\ proc'[j].pending = proc[j].pending \ {c}
              /\ proc'[j].results = proc[j].results
              /\ pool' = [pool EXCEPT ![j] = @ \cup {[combo |-> c, config |-> c]}]
              /\ rows' = [rows EXCEPT ![Sandbox(j, c)] = {}]
    BY <1>0, TakeTaskSteps
<1> DEFINE new == [combo |-> c, config |-> c]
           user == Sandbox(j, c)
<1>2. new.combo = c /\ new.config = c
    OBVIOUS
<1>3. ~Idle(j) /\ proc'[j].minimum = proc[j].minimum /\ c \in Combinations(proc'[j].minimum)
    <2>1. proc[j].phase # "none" /\ ~Idle(j)
        BY <1>0, <1>1 DEF LifeOf, Idle
    <2>2. proc'[j].minimum = proc[j].minimum
        BY <2>1 DEF ListsKept
    <2>3. c \in Combinations(proc[j].minimum)
        BY <1>1 DEF Listed
    <2> QED
        BY <2>1, <2>2, <2>3
<1>4. user' = user
    BY <1>3, SandboxKept
<1> HIDE DEF new, user
<1>5. /\ pool'[j] = pool[j] \cup {new} /\ \A i \in Jobs \ {j} : pool'[i] = pool[i]
      /\ \A u \in Users : rows'[u] \in {rows[u], {}}
    BY <1>0, <1>1 DEF new, LifeInv, Shapes
<1>6. rows'[user] = {}
    <2>1. user \in Users
        BY SandboxIsUser DEF user
    <2> QED
        BY <1>0, <1>1, <2>1 DEF user, LifeInv, Shapes
<1>7. OwnRows'
    BY <1>5, RowsKept DEF EvidenceInv, OwnRows
<1>8. OwnTasks'
    <2>1. ASSUME NEW i \in Jobs, NEW task \in pool'[i]
          PROVE  /\ task.config = task.combo /\ task.combo \notin proc'[i].pending
                 /\ task.combo \in Combinations(proc'[i].minimum)
        <3>1. CASE i = j /\ task = new
            BY <1>1, <1>2, <1>3, <3>1
        <3>2. CASE ~(i = j /\ task = new)
            <4>1. task \in pool[i] /\ proc'[i].minimum = proc[i].minimum
                BY <1>5, <2>1, <3>2, TasksKept
            <4>2. /\ task.config = task.combo /\ task.combo \notin proc[i].pending
                  /\ task.combo \in Combinations(proc'[i].minimum)
                BY <4>1 DEF EvidenceInv, OwnTasks
            <4>3. proc'[i].pending \subseteq proc[i].pending
                BY <1>1 DEF Moved
            <4> QED
                BY <4>2, <4>3
        <3> QED
            BY <3>1, <3>2
    <2> QED
        BY <2>1 DEF OwnTasks
<1>9. Undisturbed'
    <2>1. SUFFICES ASSUME excuses' = {}, NEW i \in Jobs
                   PROVE  /\ ~Idle(i)' => thread'[i] = "waiting"
                          /\ \A task \in pool'[i] : rows'[Sandbox(i, task.combo)'] = {}
        BY DEF Undisturbed
    <2>2. excuses = {} /\ Orderly /\ UNCHANGED thread
        BY <2>1 DEF JobsSame, Orderly
    <2>3. thread[j] = "waiting"
        BY <1>3, <2>2 DEF EvidenceInv, Undisturbed
    <2>4. ~Idle(i)' => thread'[i] = "waiting"
        BY <1>1, <1>5, <2>2, <2>3 DEF Idle, Moved, EvidenceInv, Undisturbed
    <2>5. ASSUME NEW task \in pool'[i] PROVE rows'[Sandbox(i, task.combo)'] = {}
        <3>1. CASE i = j /\ task = new
            BY <1>2, <1>4, <1>6, <3>1 DEF user
        <3>2. CASE task \in pool[i]
            <4>1. Sandbox(i, task.combo)' = Sandbox(i, task.combo)
                BY <3>2, TasksKept
            <4>2. Sandbox(i, task.combo) \in Users
                BY SandboxIsUser
            <4>3. rows[Sandbox(i, task.combo)] = {}
                BY <2>2, <3>2 DEF EvidenceInv, Undisturbed
            <4> QED
                BY <1>5, <4>1, <4>2, <4>3
        <3> QED
            BY <1>5, <2>5, <3>1, <3>2
    <2> QED
        BY <2>4, <2>5
<1>10. OwnResults' /\ MeasuredAlone'
    <2>1. \A i \in Jobs : proc'[i].results = proc[i].results
        BY <1>1 DEF Moved
    <2>2. excuses \subseteq excuses'
        BY DEF JobsSame
    <2> QED
        BY <2>1, <2>2, ResultsKept DEF OwnResults, MeasuredAlone
<1> QED
    BY <1>7, <1>8, <1>9, <1>10 DEF EvidenceInv

LEMMA EvaluateEvidence ==
    ASSUME TypeInv, ListsKept, OneAtATime, EvidenceInv, JobsSame,
           NEW j \in Jobs, NEW task \in pool[j], Evaluate(j, task)
    PROVE  EvidenceInv'
<1> DEFINE user == Sandbox(j, task.combo)
           measured == rows[user] \cup {<<j, task.config>>}
           outcome == [combo |-> task.combo, measured |-> measured]
<1>0. LifeInv /\ LifeOf(j) /\ report \in [Kinds -> 0..MaxJobs]
    BY DEF TypeInv, LifeInv, FilesTyped
<1>1.      /\ task \in Task
           /\ pool' = [pool EXCEPT ![j] = @ \ {task}]
           /\ rows' = [rows EXCEPT ![user] = measured]
           /\ Moved(j)
           /\ proc'[j].pending = proc[j].pending
           /\ proc'[j].results \in {proc[j].results, proc[j].results \cup {outcome}}
    BY <1>0, EvaluateSteps
<1>2. task.combo \in Combinations(proc[j].minimum) /\ task.config = task.combo
    BY DEF EvidenceInv, OwnTasks
<1>3. /\ outcome.combo = task.combo /\ outcome.measured = measured
      /\ measured = rows[user] \cup {<<j, task.combo>>}
    BY <1>2
<1>4. ~Idle(j) /\ proc[j].phase # "none"
    BY <1>0 DEF Idle, LifeOf
<1>5. proc'[j].phase # "none" /\ proc'[j].minimum = proc[j].minimum /\ user' = user
    BY <1>4, TasksKept DEF ListsKept
<1>6. user \in Users \ {Single}
    BY <1>2, SandboxIsWorkers
<1>7. ASSUME NEW e \in measured
      PROVE  /\ proc'[e[1]].phase # "none" /\ e[2] \in Combinations(proc'[e[1]].minimum)
             /\ Sandbox(e[1], e[2])' = user
             /\ e[1] \in Jobs
             /\ proc'[e[1]].minimum = proc'[j].minimum => e[2] = task.combo
    <2>1. CASE e = <<j, task.combo>>
        <3>1. e[1] = j /\ e[2] = task.combo
            BY <2>1
        <3>2. Sandbox(e[1], e[2])' = user'
            BY <3>1
        <3> QED
            BY <1>2, <1>5, <3>1, <3>2
    <2>2. CASE e \in rows[user]
        <3>1. /\ proc[e[1]].phase # "none" /\ e[2] \in Combinations(proc[e[1]].minimum)
              /\ Sandbox(e[1], e[2]) = user
            BY <1>6, <2>2 DEF EvidenceInv, OwnRows
        <3>2. e[1] \in Jobs
            <4>1. e \in Evidence
                BY <1>0, <1>6, <2>2 DEF LifeInv, Shapes
            <4> QED
                BY <4>1 DEF Evidence
        <3>3. proc'[e[1]].minimum = proc[e[1]].minimum
            BY <3>1, <3>2 DEF ListsKept
        <3>4. proc[e[1]].minimum = proc[j].minimum => e[2] = task.combo
            BY <1>2, <3>1, <3>2, SandboxesApart
        <3>5. /\ proc'[e[1]].phase # "none" /\ e[2] \in Combinations(proc'[e[1]].minimum)
              /\ Sandbox(e[1], e[2])' = user
            <4> HIDE DEF user
            <4> QED
                BY <1>6, <2>2, <3>1, RowsKept
        <3> QED
            BY <1>5, <3>2, <3>3, <3>4, <3>5
    <2> QED
        BY <1>3, <2>1, <2>2
<1>8. excuses = {} => measured = {<<j, task.combo>>}
    BY <1>3 DEF EvidenceInv, Undisturbed
<1> HIDE DEF user, measured, outcome
<1>9. /\ pool'[j] = pool[j] \ {task} /\ \A i \in Jobs \ {j} : pool'[i] = pool[i]
      /\ rows'[user] = measured /\ \A u \in Users \ {user} : rows'[u] = rows[u]
    BY <1>0, <1>1, <1>6 DEF LifeInv, Shapes
<1>10. OwnRows'
    <2>1. ASSUME NEW u \in Users \ {Single}, NEW e \in rows'[u]
          PROVE  /\ proc'[e[1]].phase # "none" /\ e[2] \in Combinations(proc'[e[1]].minimum)
                 /\ Sandbox(e[1], e[2])' = u
        <3>1. CASE u = user
            BY <1>7, <1>9, <2>1, <3>1
        <3>2. CASE u # user
            BY <1>9, <2>1, <3>2, RowsKept DEF EvidenceInv, OwnRows
        <3> QED
            BY <3>1, <3>2
    <2> QED
        BY <2>1 DEF OwnRows
<1>11. OwnTasks'
    <2>1. ASSUME NEW i \in Jobs, NEW other \in pool'[i]
          PROVE  /\ other.config = other.combo /\ other.combo \notin proc'[i].pending
                 /\ other.combo \in Combinations(proc'[i].minimum)
        <3>1. other \in pool[i] /\ proc'[i].minimum = proc[i].minimum
            BY <1>9, <2>1, TasksKept
        <3>2. other.combo \in Combinations(proc'[i].minimum)
            BY <3>1 DEF EvidenceInv, OwnTasks
        <3> QED
            BY <1>1, <3>1, <3>2 DEF EvidenceInv, OwnTasks, Moved
    <2> QED
        BY <2>1 DEF OwnTasks
<1>12. Undisturbed'
    <2>1. SUFFICES ASSUME excuses' = {}, NEW i \in Jobs
                   PROVE  /\ ~Idle(i)' => thread'[i] = "waiting"
                          /\ \A other \in pool'[i] : rows'[Sandbox(i, other.combo)'] = {}
        BY DEF Undisturbed
    <2>2. excuses = {} /\ Orderly /\ UNCHANGED thread
        BY <2>1 DEF JobsSame, Orderly
    <2>3. thread[j] = "waiting"
        BY <1>4, <2>2 DEF EvidenceInv, Undisturbed
    <2>4. ~Idle(i)' => thread'[i] = "waiting"
        BY <1>1, <1>9, <2>2, <2>3 DEF Idle, Moved, EvidenceInv, Undisturbed
    <2>5. ASSUME NEW other \in pool'[i] PROVE rows'[Sandbox(i, other.combo)'] = {}
        <3>1. other \in pool[i] /\ (i = j => other # task)
            BY <1>9, <2>5
        <3>2. ~Idle(i)
            BY <3>1 DEF Idle
        <3>3. i = j
            BY <2>2, <2>3, <3>2, WaitedForAlone DEF EvidenceInv, Undisturbed
        <3>4. /\ other \in Task /\ other.config = other.combo
              /\ other.combo \in Combinations(proc[j].minimum)
            BY <3>1, <3>3 DEF TypeInv, LifeInv, Shapes, EvidenceInv, OwnTasks
        <3>5. other.combo # task.combo
            BY <1>1, <1>2, <3>1, <3>3, <3>4 DEF Task
        <3>6. Sandbox(j, other.combo) # user
            BY <1>2, <3>4, <3>5, SandboxesApart DEF user
        <3>7. Sandbox(i, other.combo)' = Sandbox(j, other.combo)
            BY <3>1, <3>3, TasksKept
        <3>8. rows[Sandbox(j, other.combo)] = {}
            BY <2>2, <3>1, <3>3 DEF EvidenceInv, Undisturbed
        <3>9. Sandbox(j, other.combo) \in Users
            BY SandboxIsUser
        <3> QED
            BY <1>9, <3>6, <3>7, <3>8, <3>9
    <2> QED
        BY <2>4, <2>5
<1>13. OwnResults' /\ MeasuredAlone'
    <2>1. ASSUME NEW i \in Jobs, NEW r \in proc'[i].results
          PROVE  /\ \A e \in r.measured : proc'[e[1]].phase # "none"
                 /\ excuses' = {} => r.measured = {<<i, r.combo>>}
                 /\ \A e \in r.measured :
                       proc'[e[1]].minimum = proc'[i].minimum => e[2] = r.combo
        <3>1. CASE r \in proc[i].results
            BY <3>1, ResultsKept DEF JobsSame
        <3>2. CASE r \notin proc[i].results
            <4>1. i = j /\ r = outcome
                BY <1>1, <2>1, <3>2 DEF Moved
            <4>2. r.combo = task.combo /\ r.measured = measured
                BY <1>3, <4>1
            <4> QED
                BY <1>7, <1>8, <4>1, <4>2 DEF JobsSame
        <3> QED
            BY <3>1, <3>2
    <2> QED
        BY <2>1 DEF OwnResults, MeasuredAlone
<1> QED
    BY <1>10, <1>11, <1>12, <1>13 DEF EvidenceInv

LEMMA EvidenceStep ==
    ASSUME TypeInv, TypeInv', Listed, OneAtATime, EvidenceInv, [Next]_vars
    PROVE  EvidenceInv'
<1>0. /\ ListsKept /\ excuses \subseteq excuses'
      /\ excuses' = {} => \A i \in Jobs : ~Idle(i) => thread[i] = "waiting"
    BY ListStep, ExcusesGrow DEF EvidenceInv, Undisturbed
<1>1. CASE ProcessNext /\ UNCHANGED <<jobVars, userVars, excuses>>
    <2>1. JobsSame
        BY <1>1 DEF JobsSame, jobVars, userVars
    <2>2. ASSUME NEW j \in Jobs, MainStep(j) PROVE EvidenceInv'
        <3>1. /\ Moved(j) /\ UNCHANGED pool /\ Idle(j)'
              /\ proc'[j].results \in {{}, proc[j].results}
              /\ \A u \in Users \ {Single} : rows'[u] = rows[u]
            BY <2>1, <2>2, MainSteps
        <3>2. excuses' = {} => \A i \in Jobs : ~Idle(i)' => thread'[i] = "waiting"
            BY <1>0, <2>1, <3>1 DEF Moved, Idle, JobsSame
        <3>3. pool'[j] = {} /\ pool'[j] \subseteq pool[j]
            BY <3>1 DEF Idle
        <3> QED
            BY <1>0, <3>1, <3>2, <3>3, EvidenceStays
    <2> QED
        BY <1>0, <1>1, <2>1, <2>2, ProcessCases, TakeTaskEvidence, EvaluateEvidence
<1>2. ASSUME UNCHANGED <<proc, pool, rows>>, NEW j \in Jobs,
             excuses' = {} => \A i \in Jobs : ~Idle(i) => thread'[i] = "waiting"
      PROVE  EvidenceInv'
    <2>1. Moved(j) /\ \A i \in Jobs : Idle(i)' = Idle(i)
        BY <1>2 DEF Moved, TypeInv, LifeInv, Shapes, Idle
    <2> QED
        BY <1>0, <1>2, <2>1, EvidenceStays
<1>3. ASSUME NEW kind \in Kinds, StartJob(kind) PROVE EvidenceInv'
    <2>1. PICK j \in Jobs : thread[j] = "none" /\ thread' = [thread EXCEPT ![j] = "started"]
        BY <1>3 DEF StartJob
    <2>2. Idle(j)
        BY <2>1 DEF TypeInv, LifeInv, LifeOf
    <2>3. \A i \in Jobs \ {j} : thread'[i] = thread[i]
        BY <2>1 DEF TypeInv, LifeInv, Shapes
    <2> QED
        BY <1>0, <1>2, <1>3, <2>2, <2>3 DEF StartJob, optimizerVars
<1>4. ASSUME NEW j \in Jobs, ThreadStep(j) PROVE EvidenceInv'
    <2>1. CASE ThreadBegins(j)
        <3>1. /\ Moved(j) /\ proc'[j].results = {} /\ UNCHANGED <<pool, rows>>
              /\ thread[j] = "started" /\ thread' = [thread EXCEPT ![j] = "waiting"]
            BY <2>1, ThreadBeginsTyped DEF ThreadBegins
        <3>2. pool[j] = {} /\ thread'[j] = "waiting" /\ \A i \in Jobs \ {j} : thread'[i] = thread[i]
            BY <3>1 DEF TypeInv, LifeInv, Shapes, LifeOf, Idle
        <3>3. excuses' = {} => \A i \in Jobs : ~Idle(i)' => thread'[i] = "waiting"
            BY <1>0, <3>1, <3>2 DEF Moved, Idle
        <3> QED
            BY <1>0, <3>1, <3>2, <3>3, EvidenceStays
    <2>2. CASE TimesOut(j)
        <3>1. /\ Moved(j) /\ proc'[j].results \in {{}, proc[j].results}
              /\ pool'[j] \in {pool[j], {}} /\ proc'[j].pending \in {proc[j].pending, {}}
              /\ \A i \in Jobs \ {j} : pool'[i] = pool[i]
            BY <2>2, TimesOutTyped DEF Finishes
        <3>2. excuses' # {} /\ UNCHANGED rows
            BY <2>2 DEF TimesOut
        <3>3. pool'[j] \subseteq pool[j] /\ proc'[j].pending \subseteq proc[j].pending
            BY <3>1
        <3> QED
            BY <1>0, <3>1, <3>2, <3>3, EvidenceStays
    <2>3. CASE ProcessReturns(j) \/ HistoryEmptied(j) \/ HistoryWritten(j)
        <3>1. UNCHANGED <<proc, pool, rows>> /\ \E s : thread' = [thread EXCEPT ![j] = s]
            BY <2>3 DEF ProcessReturns, Finish, HistoryEmptied, HistoryWritten, optimizerVars
        <3>2. excuses' = {} => Idle(j)
            <4>1. CASE ProcessReturns(j)
                BY <4>1 DEF ProcessReturns, TypeInv, LifeInv, LifeOf
            <4>2. CASE HistoryEmptied(j) \/ HistoryWritten(j)
                BY <1>0, <4>2 DEF HistoryEmptied, HistoryWritten
            <4> QED
                BY <2>3, <4>1, <4>2
        <3>3. \A i \in Jobs \ {j} : thread'[i] = thread[i]
            BY <3>1 DEF TypeInv, LifeInv, Shapes
        <3> QED
            BY <1>0, <1>2, <3>1, <3>2, <3>3
    <2> QED
        BY <1>4, <2>1, <2>2, <2>3 DEF ThreadStep
<1>5. CASE ApiDies
    BY <1>2, <1>5 DEF ApiDies, Trouble, optimizerVars
<1>6. CASE UserNext \/ UNCHANGED vars
    <2>1. UNCHANGED <<proc, pool, rows, thread, excuses>>
        BY <1>6, UserLeaves DEF UserSame
    <2> QED
        BY <2>1 DEF EvidenceInv, OwnRows, OwnTasks, OwnResults, Undisturbed, MeasuredAlone, Idle,
            Sandbox, Combinations
<1> QED
    BY <1>1, <1>3, <1>4, <1>5, <1>6 DEF Next

-----------------------------------------------------------------------------
(* Whose report a job shows, and how old the file is.                      *)

LEMMA ReportStep ==
    ASSUME TypeInv, TypeInv', OneAtATime, ReportInv, [Next]_vars
    PROVE  ReportInv'
<1> SUFFICES ASSUME Orderly' PROVE ReportInv'
    BY DEF ReportInv, OwnReport, LastShown
<1>0. Orderly
    BY ExcusesGrow DEF Orderly
<1>1. /\ \A j \in Jobs : thread[j] = "waiting" => report[kinds[j]] \in {0, j}
      /\ job.status = "done" =>
            \/ job.result = 0
            \/ /\ entry[job.result] # Nothing
               /\ \A k \in Jobs : k > job.result => entry[k] = Nothing
    BY <1>0 DEF ReportInv, OwnReport, LastShown
<1>2. /\ report \in [Kinds -> 0..MaxJobs] /\ kinds \in [Jobs -> Kinds]
      /\ thread \in [Jobs -> ThreadState]
    BY DEF TypeInv, LifeInv, Shapes, FilesTyped
<1>3. ASSUME UNCHANGED <<job, entry>>,
             \A j \in Jobs : thread'[j] = "waiting" => report'[kinds'[j]] \in {0, j}
      PROVE  ReportInv'
    BY <1>1, <1>3 DEF ReportInv, OwnReport, LastShown
<1>4. CASE ProcessNext /\ UNCHANGED <<jobVars, userVars, excuses>>
    <2>0. JobsSame
        BY <1>4 DEF JobsSame, jobVars, userVars
    <2>1. ASSUME NEW j \in Jobs, Alive(j), report' \in {report, [report EXCEPT ![kinds[j]] = j]}
          PROVE  ReportInv'
        <3>1. thread[j] = "waiting"
            BY <1>0, <2>1 DEF OneAtATime
        <3>2. ASSUME NEW i \in Jobs, thread'[i] = "waiting" PROVE report'[kinds'[i]] \in {0, i}
            <4>1. i = j
                BY <1>0, <2>0, <3>1, <3>2, WaitedForAlone DEF JobsSame
            <4> QED
                BY <1>1, <1>2, <2>0, <2>1, <3>1, <4>1 DEF JobsSame
        <3> QED
            BY <1>3, <2>0, <3>2 DEF JobsSame
    <2>2. ASSUME UNCHANGED report PROVE ReportInv'
        BY <1>1, <1>3, <2>0, <2>2 DEF JobsSame
    <2>3. ASSUME NEW j \in Jobs, TakeTask(j) PROVE ReportInv'
        BY <2>2, <2>3 DEF TakeTask
    <2>4. ASSUME NEW j \in Jobs, NEW task \in pool[j], Evaluate(j, task) PROVE ReportInv'
        <3>1. \/ UNCHANGED report
              \/ Alive(j) /\ report' \in {report, [report EXCEPT !["optimizer"] = j]}
            BY <1>2, <2>4, EvaluateSteps DEF TypeInv
        <3>2. kinds[j] = "optimizer"
            BY DEF TypeInv, LifeInv, LifeOf, Idle
        <3> QED
            BY <2>1, <2>2, <3>1, <3>2
    <2>5. ASSUME NEW j \in Jobs, MainStep(j) PROVE ReportInv'
        BY <2>0, <2>1, <2>5, MainSteps
    <2> QED
        BY <1>4, <2>3, <2>4, <2>5, ProcessCases
<1>5. ASSUME NEW kind \in Kinds, StartJob(kind) PROVE ReportInv'
    <2>1. PICK n \in Jobs :
              /\ thread' = [thread EXCEPT ![n] = "started"]
              /\ \A i \in Jobs : ~ThreadAlive(i)
              /\ job'.status # "done" \/ job' = job
              /\ UNCHANGED entry
        BY <1>5, StartsAlone
    <2>2. \A j \in Jobs : thread'[j] # "waiting"
        BY <1>2, <2>1 DEF ThreadAlive
    <2> QED
        BY <1>1, <2>1, <2>2 DEF ReportInv, OwnReport, LastShown
<1>6. ASSUME NEW n \in Jobs, ThreadStep(n) PROVE ReportInv'
    <2>1. CASE ThreadBegins(n)
        <3>1. \A i \in Jobs : thread'[i] = "waiting" => i = n
            <4>1. SUFFICES ASSUME NEW i \in Jobs, thread'[i] = "waiting", i # n PROVE FALSE
                OBVIOUS
            <4>2. thread[i] = "waiting" /\ thread[n] = "started"
                BY <1>2, <2>1, <4>1 DEF ThreadBegins
            <4>3. ~(i > n) /\ ~(n > i)
                BY <1>0, <4>2 DEF OneAtATime, ThreadAlive
            <4> QED
                BY <4>1, <4>3 DEF Jobs
        <3>2. report'[kinds'[n]] = 0 /\ job'.status = "running"
            BY <1>2, <2>1 DEF ThreadBegins
        <3> QED
            BY <3>1, <3>2 DEF ReportInv, OwnReport, LastShown
    <2>2. CASE ProcessReturns(n) \/ TimesOut(n)
        <3>1. PICK status \in {"done", "error"}, result \in 0..MaxJobs :
                  /\ thread[n] = "waiting" /\ Finish(n, status, result)
                  /\ status = "done" => result = report[kinds[n]]
            BY <2>2, ProcessReturnsTyped, TimesOutTyped DEF Finishes
        <3>2. /\ UNCHANGED <<report, kinds>>
              /\ thread' = [thread EXCEPT ![n] = "saving"]
              /\ job'.status = status /\ job'.result = result
              /\ \A i \in Jobs \ {n} : entry'[i] = entry[i]
            <4>1. job \in [status : {"idle", "running", "done", "error"}, result : 0..MaxJobs]
                  /\ entry \in [Jobs -> {Nothing} \cup Entry]
                BY DEF TypeInv, FilesTyped, LifeInv, Shapes
            <4> QED
                BY <2>2, <3>1, <4>1 DEF ProcessReturns, TimesOut, Finish
        <3>3. OwnReport'
            BY <1>1, <1>2, <3>2 DEF OwnReport
        <3>4. \A k \in Jobs : k > n => entry'[k] = Nothing
            <4>1. SUFFICES ASSUME NEW k \in Jobs, k > n PROVE entry'[k] = Nothing
                OBVIOUS
            <4>2. thread[k] = "none" /\ k # n
                BY <1>0, <3>1, <4>1 DEF OneAtATime, ThreadAlive, Jobs
            <4>3. entry[k] = Nothing
                BY <4>2 DEF TypeInv, LifeInv, ThreadOf
            <4> QED
                BY <3>2, <4>2, <4>3
        <3>5. entry'[n] # Nothing
            <4>1. thread'[n] = "saving"
                BY <1>2, <3>2
            <4> QED
                BY <4>1 DEF TypeInv, LifeInv, ThreadOf
        <3>6. LastShown'
            BY <1>1, <3>1, <3>2, <3>4, <3>5 DEF LastShown
        <3> QED
            BY <3>3, <3>6 DEF ReportInv
    <2>3. CASE HistoryEmptied(n) \/ HistoryWritten(n)
        <3>1. /\ UNCHANGED <<report, kinds, job, entry>>
              /\ \E s \in {"writing", "over"} : thread' = [thread EXCEPT ![n] = s]
            BY <2>3 DEF HistoryEmptied, HistoryWritten, optimizerVars
        <3>2. \A j \in Jobs : thread'[j] = "waiting" => thread[j] = "waiting"
            BY <1>2, <3>1
        <3> QED
            BY <1>1, <1>3, <3>1, <3>2
    <2> QED
        BY <1>6, <2>1, <2>2, <2>3 DEF ThreadStep
<1>7. CASE ApiDies
    BY <1>7 DEF ApiDies, Trouble, Orderly
<1>8. CASE UserNext \/ UNCHANGED vars
    <2>1. UNCHANGED <<report, kinds, thread, job, entry>>
        BY <1>8, UserLeaves DEF UserSame
    <2> QED
        BY <1>1, <1>3, <2>1
<1> QED
    BY <1>4, <1>5, <1>6, <1>7, <1>8 DEF Next

\* The end of a job is stamped after every file.
LEMMA FinishStamps ==
    ASSUME TypeInv, NEW n \in Jobs, Finishes(n)
    PROVE  /\ clock' = clock + 1 /\ entry'[n].at = clock'
           /\ \A i \in Jobs \ {n} : entry'[i] = entry[i]
BY DEF Finishes, Finish, TypeInv, LifeInv, Shapes

LEMMA FileStep ==
    ASSUME TypeInv, TypeInv', OneAtATime, FileBefore, [Next]_vars
    PROVE  FileBefore'
<1>0. /\ clock \in Nat /\ entry \in [Jobs -> {Nothing} \cup Entry]
      /\ Orderly' => Orderly
      /\ best # Torn => best.at \in Nat
      /\ \A k \in Jobs : entry[k] # Nothing => entry[k].at \in Nat
    BY ExcusesGrow DEF Orderly, TypeInv, LifeInv, Shapes, ClockCounts, FilesTyped, Entry
<1>1. ASSUME best' = best \/ best' = Torn, clock' = clock, UNCHANGED entry PROVE FileBefore'
    BY <1>0, <1>1 DEF FileBefore
<1>2. CASE ProcessNext /\ UNCHANGED <<jobVars, userVars, excuses>>
    <2>0. JobsSame
        BY <1>2 DEF JobsSame, jobVars, userVars
    <2>1. ASSUME NEW j \in Jobs, TakeTask(j) \/ \E task \in pool[j] : Evaluate(j, task)
          PROVE  FileBefore'
        BY <1>1, <2>0, <2>1 DEF TakeTask, Evaluate, JobsSame
    <2>2. ASSUME NEW j \in Jobs, MainStep(j) PROVE FileBefore'
        <3>1. /\ Alive(j)
              /\ \/ UNCHANGED <<best, clock>>
                 \/ best' = Torn /\ UNCHANGED clock
                 \/ clock' = clock + 1 /\ best'.job = j /\ best'.at = clock'
            BY <2>0, <2>2, MainSteps
        <3>2. CASE clock' = clock + 1 /\ best'.job = j /\ best'.at = clock'
            <4>1. SUFFICES ASSUME Orderly', NEW k \in Jobs, entry'[k] # Nothing, j < k PROVE FALSE
                BY <1>0, <3>2 DEF FileBefore
            <4>2. thread[j] = "waiting"
                BY <1>0, <3>1, <4>1 DEF OneAtATime
            <4>3. thread[k] = "none"
                BY <1>0, <4>1, <4>2 DEF OneAtATime, ThreadAlive, Jobs
            <4>4. entry[k] = Nothing
                BY <4>3 DEF TypeInv, LifeInv, ThreadOf
            <4> QED
                BY <2>0, <4>1, <4>4 DEF JobsSame
        <3> QED
            BY <1>1, <2>0, <3>1, <3>2 DEF JobsSame
    <2> QED
        BY <1>2, <2>1, <2>2, ProcessCases
<1>3. ASSUME NEW kind \in Kinds, StartJob(kind) PROVE FileBefore'
    BY <1>1, <1>3 DEF StartJob, optimizerVars
<1>4. ASSUME NEW n \in Jobs, ThreadStep(n) PROVE FileBefore'
    <2>1. CASE ThreadBegins(n) \/ HistoryEmptied(n) \/ HistoryWritten(n)
        BY <1>1, <2>1 DEF ThreadBegins, HistoryEmptied, HistoryWritten, optimizerVars
    <2>2. CASE ProcessReturns(n) \/ TimesOut(n)
        <3>1. UNCHANGED best
            BY <2>2 DEF ProcessReturns, TimesOut
        <3>2. /\ clock' = clock + 1 /\ entry'[n].at = clock'
              /\ \A i \in Jobs \ {n} : entry'[i] = entry[i]
            BY <2>2, ProcessReturnsTyped, TimesOutTyped, FinishStamps
        <3>3. ASSUME best # Torn
              PROVE  /\ best.at <= clock'
                     /\ Orderly' => \A k \in Jobs :
                           entry'[k] # Nothing /\ best.job < k => best.at < entry'[k].at
            <4>1. best.at <= clock /\ best.at \in Nat
                BY <1>0, <3>3 DEF FileBefore
            <4>2. ASSUME Orderly', NEW k \in Jobs, entry'[k] # Nothing, best.job < k
                  PROVE  best.at < entry'[k].at
                <5>1. CASE k = n
                    BY <1>0, <3>2, <4>1, <5>1
                <5>2. CASE k # n
                    BY <1>0, <3>2, <3>3, <4>2, <5>2 DEF FileBefore
                <5> QED
                    BY <5>1, <5>2
            <4> QED
                BY <1>0, <3>2, <4>1, <4>2
        <3> QED
            BY <3>1, <3>3 DEF FileBefore
    <2> QED
        BY <1>4, <2>1, <2>2 DEF ThreadStep
<1>5. CASE ApiDies
    <2>1. UNCHANGED <<best, clock>> /\ ~Orderly'
        BY <1>5 DEF ApiDies, optimizerVars, Trouble, Orderly
    <2> QED
        BY <2>1 DEF FileBefore
<1>6. CASE UserNext \/ UNCHANGED vars
    BY <1>1, <1>6, UserLeaves DEF UserSame
<1> QED
    BY <1>2, <1>3, <1>4, <1>5, <1>6 DEF Next

-----------------------------------------------------------------------------
(* What the history tells.                                                 *)

\* A list that agrees with what was told, newest first.
Faithful(list, saved, told, kind) ==
    /\ Len(list) \in Nat /\ DOMAIN list = 1..Len(list)
    /\ \A i, k \in DOMAIN list : i < k => list[i].job > list[k].job
    /\ \A i \in DOMAIN list : list[i].job \in saved /\ list[i] = told[list[i].job]
    /\ \A j \in saved : told[j].kind = kind[j]

\* If all newer jobs of its kind are listed, the rank of an entry among the
\* entries of its kind is that of its job among the saved jobs of its kind.
LEMMA PositionRank ==
    ASSUME NEW saved \in SUBSET Jobs, NEW told, NEW kind, NEW list,
           Faithful(list, saved, told, kind), NEW p \in DOMAIN list,
           \A l \in Newer(saved, kind, list[p].job) : \E q \in DOMAIN list : list[q].job = l
    PROVE  Older(list, p) = Cardinality(Newer(saved, kind, list[p].job))
<1> DEFINE D == {q \in 1..p : list[q].kind = list[p].kind}
           R == Newer(saved, kind, list[p].job)
           f == [q \in D |-> list[q].job]
<1>1. /\ DOMAIN list = 1..Len(list) /\ Len(list) \in Nat
      /\ \A i, k \in DOMAIN list : i < k => list[i].job > list[k].job
      /\ \A i \in DOMAIN list : list[i].job \in saved /\ list[i] = told[list[i].job]
      /\ \A j \in saved : told[j].kind = kind[j] /\ j \in Nat
    BY DEF Faithful, Jobs
<1>2. \A q \in D : q \in DOMAIN list /\ q <= p
    BY <1>1
<1>3. \A q \in DOMAIN list : list[q].kind = kind[list[q].job]
    BY <1>1
<1>4. ASSUME NEW q \in D PROVE list[q].job \in R
    <2>1. list[q].job >= list[p].job
        BY <1>1, <1>2
    <2> QED
        BY <1>1, <1>2, <1>3, <2>1 DEF Newer
<1>5. ASSUME NEW l \in R PROVE \E q \in D : list[q].job = l
    <2>1. PICK q \in DOMAIN list : list[q].job = l
        BY <1>5
    <2>2. l >= list[p].job /\ kind[l] = kind[list[p].job]
        BY DEF Newer
    <2>3. q <= p /\ list[q].kind = list[p].kind
        BY <1>1, <1>3, <2>1, <2>2
    <2> QED
        BY <1>1, <2>1, <2>3
<1>6. \A q, r \in D : list[q].job = list[r].job => q = r
    BY <1>1, <1>2
<1>7. f \in [D -> R] /\ \A q \in D : f[q] = list[q].job
    BY <1>4
<1>8. f \in Bijection(D, R)
    <2> HIDE DEF f, D, R
    <2> QED
        BY <1>5, <1>6, <1>7 DEF Bijection, Injection, Surjection, IsInjective
<1>9. IsFiniteSet(D) /\ Cardinality(D) = Cardinality(R)
    <2>1. IsFiniteSet(1..p)
        BY <1>1, FS_Interval
    <2>2. IsFiniteSet(D)
        BY <2>1, FS_Subset
    <2> QED
        BY <1>8, <2>2, FS_Bijection DEF ExistsBijection
<1> QED
    BY <1>9 DEF Older

LEMMA NewerCounted ==
    ASSUME NEW saved \in SUBSET Jobs, NEW kind, NEW j, NEW l \in Newer(saved, kind, j), j \in Jobs
    PROVE  /\ Cardinality(Newer(saved, kind, l)) <= Cardinality(Newer(saved, kind, j))
           /\ Cardinality(Newer(saved, kind, l)) \in Nat /\ Cardinality(Newer(saved, kind, j)) \in Nat
<1>0. l \in saved /\ kind[l] = kind[j] /\ l >= j /\ j \in Int /\ \A k \in saved : k \in Int
    BY DEF Newer, Jobs
<1>1. ASSUME NEW k \in Newer(saved, kind, l) PROVE k \in Newer(saved, kind, j)
    <2>1. k \in saved /\ kind[k] = kind[l] /\ k >= l
        BY DEF Newer
    <2>2. k >= j
        BY <1>0, <2>1
    <2> QED
        BY <1>0, <2>1, <2>2 DEF Newer
<1>2. Newer(saved, kind, l) \in SUBSET Jobs /\ Newer(saved, kind, j) \in SUBSET Jobs
    BY DEF Newer
<1>3. /\ IsFiniteSet(Newer(saved, kind, j))
      /\ Cardinality(Newer(saved, kind, l)) \in Nat /\ Cardinality(Newer(saved, kind, j)) \in Nat
    BY <1>2, JobsCounted
<1>4. Cardinality(Newer(saved, kind, l)) <= Cardinality(Newer(saved, kind, j))
    <2>1. Newer(saved, kind, l) \subseteq Newer(saved, kind, j)
        BY <1>1
    <2> QED
        BY <1>3, <2>1, FS_Subset
<1> QED
    BY <1>3, <1>4

\* In a list that tells, an entry stands where its job does.
LEMMA TellsRank ==
    ASSUME NEW saved \in SUBSET Jobs, NEW told, NEW kind, NEW list \in Seq(Entry),
           Tells(list, saved, told, kind), \A j \in saved : told[j].kind = kind[j],
           NEW p \in DOMAIN list
    PROVE  Older(list, p) = Cardinality(Newer(saved, kind, list[p].job))
<1>1. Faithful(list, saved, told, kind)
    BY DEF Faithful, Tells
<1>2. list[p].job \in saved /\ list[p].job \in Jobs
    BY DEF Tells
<1>3. ASSUME NEW l \in Newer(saved, kind, list[p].job) PROVE \E q \in DOMAIN list : list[q].job = l
    <2>1. Cardinality(Newer(saved, kind, list[p].job)) <= MaxHistory
        BY <1>2 DEF Tells
    <2>2. Cardinality(Newer(saved, kind, l)) <= MaxHistory
        BY <1>2, <2>1, NewerCounted, JobsAssumption
    <2>3. l \in saved
        BY DEF Newer
    <2> QED
        BY <2>2, <2>3 DEF Tells
<1> QED
    BY <1>1, <1>3, PositionRank

\* A list that tells of the saved jobs tells of one more, newer than they,
\* once its entry is put in front and Kept has dropped what is too old.
LEMMA TellsAdd ==
    ASSUME NEW saved \in SUBSET Jobs, NEW told, NEW kind, NEW list \in Seq(Entry),
           Tells(list, saved, told, kind),
           NEW n \in Jobs, \A j \in saved : j < n,
           told[n] \in Entry, told[n].job = n,
           \A j \in saved \cup {n} : told[j].kind = kind[j]
    PROVE  Tells(Kept(<<told[n]>> \o list), saved \cup {n}, told, kind)
<1> DEFINE grown == <<told[n]>> \o list
           all == saved \cup {n}
<1>1. /\ grown \in Seq(Entry) /\ Len(grown) = Len(list) + 1 /\ Len(list) \in Nat
      /\ DOMAIN grown = 1..Len(grown) /\ DOMAIN list = 1..Len(list)
      /\ grown[1] = told[n] /\ \A i \in DOMAIN list : grown[i + 1] = list[i]
      /\ \A i \in DOMAIN grown \ {1} : i - 1 \in DOMAIN list /\ grown[i] = list[i - 1]
    OBVIOUS
<1>2. all \in SUBSET Jobs /\ \A j \in all : j \in Nat /\ j <= n
    BY DEF Jobs
<1> HIDE DEF grown
<1>3. /\ \A i, k \in DOMAIN list : i < k => list[i].job > list[k].job
      /\ \A i \in DOMAIN list : list[i].job \in saved /\ list[i] = told[list[i].job]
      /\ \A j \in saved :
            (\E i \in DOMAIN list : list[i].job = j)
               <=> Cardinality(Newer(saved, kind, j)) <= MaxHistory
    BY DEF Tells
<1>4. Faithful(grown, all, told, kind)
    <2>1. ASSUME NEW i \in DOMAIN grown PROVE grown[i].job \in all /\ grown[i] = told[grown[i].job]
        <3>1. CASE i = 1
            BY <1>1, <3>1
        <3>2. CASE i # 1
            BY <1>1, <1>3, <3>2
        <3> QED
            BY <3>1, <3>2
    <2>2. ASSUME NEW i \in DOMAIN grown, NEW k \in DOMAIN grown, i < k PROVE grown[i].job > grown[k].job
        <3>1. k # 1 /\ k - 1 \in DOMAIN list /\ grown[k] = list[k - 1] /\ i \in Nat /\ k \in Nat
            BY <1>1, <2>2
        <3>2. CASE i = 1
            BY <1>1, <1>2, <1>3, <3>1, <3>2
        <3>3. CASE i # 1
            <4>1. i - 1 \in DOMAIN list /\ grown[i] = list[i - 1] /\ i - 1 < k - 1
                BY <1>1, <2>2, <3>1, <3>3
            <4> QED
                BY <1>3, <3>1, <4>1
        <3> QED
            BY <3>2, <3>3
    <2> QED
        BY <1>1, <2>1, <2>2 DEF Faithful
<1>5. ASSUME NEW j \in all, Cardinality(Newer(all, kind, j)) <= MaxHistory
      PROVE  \E i \in DOMAIN grown : grown[i].job = j
    <2>1. CASE j = n
        BY <1>1, <2>1
    <2>2. CASE j # n
        <3>1. j \in saved /\ Newer(saved, kind, j) \subseteq Newer(all, kind, j)
            BY <2>2 DEF Newer
        <3>2. Newer(all, kind, j) \in SUBSET Jobs /\ Newer(saved, kind, j) \in SUBSET Jobs
            BY <1>2 DEF Newer
        <3>3. /\ IsFiniteSet(Newer(all, kind, j)) /\ Cardinality(Newer(all, kind, j)) \in Nat
              /\ Cardinality(Newer(saved, kind, j)) \in Nat
            BY <3>2, JobsCounted
        <3>4. Cardinality(Newer(saved, kind, j)) <= Cardinality(Newer(all, kind, j))
            BY <3>1, <3>3, FS_Subset
        <3>5. Cardinality(Newer(saved, kind, j)) <= MaxHistory
            BY <1>5, <3>3, <3>4, JobsAssumption
        <3>6. PICK i \in DOMAIN list : list[i].job = j
            BY <1>3, <3>1, <3>5
        <3>7. i + 1 \in DOMAIN grown /\ grown[i + 1] = list[i]
            BY <1>1
        <3> QED
            BY <3>6, <3>7
    <2> QED
        BY <2>1, <2>2
<1>6. ASSUME NEW p \in DOMAIN grown
      PROVE  Older(grown, p) = Cardinality(Newer(all, kind, grown[p].job))
    \* Every newer job of the kind is listed: in front or as in the old list.
    <2>1. grown[p].job \in all
        BY <1>4 DEF Faithful
    <2>2. ASSUME NEW l \in Newer(all, kind, grown[p].job) PROVE \E q \in DOMAIN grown : grown[q].job = l
        <3>1. CASE l = n
            BY <1>1, <3>1
        <3>2. CASE l # n
            <4> DEFINE r == grown[p].job
            <4>0. l \in all /\ l >= r /\ kind[l] = kind[r]
                BY DEF Newer
            <4>1. l \in saved /\ l >= grown[p].job /\ grown[p].job # n /\ kind[l] = kind[grown[p].job]
                <5>1. l <= n /\ l \in Nat /\ n \in Nat /\ r \in Nat
                    BY <1>2, <2>1, <4>0
                <5> HIDE DEF r
                <5>2. l \in saved /\ r # n
                    BY <3>2, <4>0, <5>1
                <5> QED
                    BY <4>0, <5>2 DEF r
            <4>2. p # 1 /\ p - 1 \in DOMAIN list /\ grown[p] = list[p - 1]
                BY <1>1, <4>1
            <4> DEFINE m == list[p - 1].job
            <4>3. m \in saved /\ m \in Jobs /\ Cardinality(Newer(saved, kind, m)) <= MaxHistory
                BY <1>3, <4>2
            <4>4. l \in Newer(saved, kind, m)
                BY <4>1, <4>2 DEF Newer
            <4> HIDE DEF m
            <4>5. Cardinality(Newer(saved, kind, l)) <= MaxHistory
                BY <4>3, <4>4, NewerCounted, JobsAssumption
            <4>6. PICK i \in DOMAIN list : list[i].job = l
                BY <1>3, <4>1, <4>5
            <4>7. i + 1 \in DOMAIN grown /\ grown[i + 1] = list[i]
                BY <1>1
            <4> QED
                BY <4>6, <4>7
        <3> QED
            BY <3>1, <3>2
    <2>3. \A l \in Newer(all, kind, grown[p].job) : \E q \in DOMAIN grown : grown[q].job = l
        BY <2>2
    <2> HIDE DEF all
    <2>4. all \in SUBSET Jobs
        BY <1>2
    <2> QED
        BY ONLY <1>4, <2>3, <2>4, PositionRank, p \in DOMAIN grown
<1> HIDE DEF all
<1>0. Len(grown) \in Nat
    BY <1>1
<1>7. PICK at : InOrder(grown, at)
    BY <1>0, KeptPositions
<1>8. \A p \in KeptAt(grown) : p \in DOMAIN grown /\ Cardinality(Newer(all, kind, grown[p].job)) <= MaxHistory
    BY <1>1, <1>6 DEF KeptAt
<1>9. \A p \in DOMAIN grown : Cardinality(Newer(all, kind, grown[p].job)) <= MaxHistory => p \in KeptAt(grown)
    BY <1>1, <1>6 DEF KeptAt
<1>10. \A i \in DOMAIN Kept(grown) : at[i] \in KeptAt(grown) /\ at[i] \in DOMAIN grown /\ Kept(grown)[i] = grown[at[i]]
    BY <1>7, <1>8 DEF InOrder
<1>11. \A i, k \in DOMAIN Kept(grown) : i < k => Kept(grown)[i].job > Kept(grown)[k].job
    <2>1. \A p, q \in DOMAIN grown : p < q => grown[p].job > grown[q].job
        BY <1>4 DEF Faithful
    <2> QED
        BY <1>7, <1>10, <2>1 DEF InOrder
<1>12. \A i \in DOMAIN Kept(grown) : Kept(grown)[i].job \in all /\ Kept(grown)[i] = told[Kept(grown)[i].job]
    <2>1. \A p \in DOMAIN grown : grown[p].job \in all /\ grown[p] = told[grown[p].job]
        BY <1>4 DEF Faithful
    <2> QED
        BY <1>10, <2>1
<1>13. ASSUME NEW j \in all
       PROVE  (\E i \in DOMAIN Kept(grown) : Kept(grown)[i].job = j)
                 <=> Cardinality(Newer(all, kind, j)) <= MaxHistory
    <2>1. ASSUME NEW i \in DOMAIN Kept(grown), Kept(grown)[i].job = j
          PROVE  Cardinality(Newer(all, kind, j)) <= MaxHistory
        BY <1>8, <1>10, <2>1
    <2>2. ASSUME Cardinality(Newer(all, kind, j)) <= MaxHistory
          PROVE  \E i \in DOMAIN Kept(grown) : Kept(grown)[i].job = j
        <3>1. PICK p \in DOMAIN grown : grown[p].job = j
            BY <1>5, <2>2
        <3>2. p \in KeptAt(grown)
            BY <1>9, <2>2, <3>1
        <3>3. PICK i \in DOMAIN Kept(grown) : at[i] = p
            BY <1>7, <3>2 DEF InOrder
        <3> QED
            BY <1>10, <3>1, <3>3
    <2> QED
        BY <2>1, <2>2
<1>14. Tells(Kept(grown), all, told, kind)
    BY <1>11, <1>12, <1>13 DEF Tells
<1> QED
    BY <1>14 DEF all, grown

\* Only what was told of the saved jobs counts.
LEMMA TellsOfSame ==
    ASSUME NEW saved, NEW told, NEW kind, NEW list, NEW told2, NEW kind2,
           Tells(list, saved, told, kind),
           \A j \in saved : told2[j] = told[j] /\ kind2[j] = kind[j]
    PROVE  Tells(list, saved, told2, kind2)
<1>1. \A j \in saved : Newer(saved, kind2, j) = Newer(saved, kind, j)
    BY DEF Newer
<1> QED
    BY <1>1 DEF Tells

\* The threads that have ended, as the history knows them.
LEMMA OverSaved ==
    ASSUME TypeInv, OneAtATime, Orderly
    PROVE  /\ Over \in SUBSET Jobs
           /\ \A j \in Over : entry[j] \in Entry /\ entry[j].job = j /\ entry[j].kind = kinds[j]
BY DEF TypeInv, LifeInv, Shapes, ThreadOf, OneAtATime, Over

LEMMA HistoryStep ==
    ASSUME TypeInv, TypeInv', OneAtATime, HistoryTells, [Next]_vars
    PROVE  HistoryTells'
<1> SUFFICES ASSUME Orderly' PROVE HistoryTells'
    BY DEF HistoryTells
<1>0. Orderly
    BY ExcusesGrow DEF Orderly
<1>1. /\ (\A j \in Jobs : thread[j] # "writing") => history # Torn
      /\ history # Torn => Tells(history, Over, entry, kinds)
      /\ \A j \in Jobs : thread[j] = "writing" => Tells(draft[j], Over \cup {j}, entry, kinds)
    BY <1>0 DEF HistoryTells
<1>2. /\ Jobs \subseteq Nat /\ thread \in [Jobs -> ThreadState] /\ kinds \in [Jobs -> Kinds]
      /\ entry \in [Jobs -> {Nothing} \cup Entry] /\ draft \in [Jobs -> Seq(Entry)]
      /\ history = Torn \/ history \in Seq(Entry)
    BY DEF TypeInv, LifeInv, Shapes, FilesTyped, Jobs
<1>3. ASSUME UNCHANGED <<thread, kinds, entry, draft, history>> PROVE HistoryTells'
    BY <1>1, <1>3 DEF HistoryTells, Over
\* A step of the only thread that is alive, before the history or after it.
<1>4. ASSUME \A j \in Jobs : thread[j] # "writing" /\ thread'[j] # "writing",
             \A j \in Jobs : thread'[j] = "over" <=> thread[j] = "over",
             \A j \in Over : entry'[j] = entry[j] /\ kinds'[j] = kinds[j],
             UNCHANGED history
      PROVE  HistoryTells'
    <2>1. history # Torn /\ Over' = Over
        BY <1>1, <1>4 DEF Over
    <2>2. Tells(history, Over, entry', kinds')
        BY <1>1, <1>4, <2>1, TellsOfSame
    <2>3. Tells(history', Over', entry', kinds')
        BY <1>4, <2>1, <2>2
    <2> QED
        BY <1>4, <2>1, <2>3 DEF HistoryTells
<1>5. CASE ProcessNext /\ UNCHANGED <<jobVars, userVars, excuses>>
    BY <1>3, <1>5 DEF jobVars
<1>6. ASSUME NEW kind \in Kinds, StartJob(kind) PROVE HistoryTells'
    <2>1. PICK n \in Jobs :
              /\ \A i \in Jobs : ~ThreadAlive(i)
              /\ \A k \in Jobs : k >= n => thread[k] = "none"
              /\ thread' = [thread EXCEPT ![n] = "started"]
              /\ kinds' = [kinds EXCEPT ![n] = kind]
              /\ UNCHANGED <<entry, draft, history>>
        BY <1>6, StartsAlone
    <2>2. thread[n] = "none"
        BY <1>2, <2>1
    <2> QED
        BY <1>2, <1>4, <2>1, <2>2 DEF ThreadAlive, Over
<1>7. ASSUME NEW n \in Jobs, ThreadStep(n) PROVE HistoryTells'
    <2>1. ThreadAlive(n) /\ \E s : thread' = [thread EXCEPT ![n] = s]
        BY <1>7 DEF ThreadStep, ThreadBegins, ProcessReturns, TimesOut, Finish, HistoryEmptied,
            HistoryWritten, ThreadAlive
    <2>2. ASSUME NEW k \in Jobs, k # n PROVE ~ThreadAlive(k) /\ thread'[k] = thread[k]
        <3>1. k \in Nat /\ n \in Nat /\ k # n
            BY <1>2, <2>2
        <3>2. k > n => thread[k] = "none"
            BY <1>0, <2>1 DEF OneAtATime
        <3>3. n > k /\ ThreadAlive(k) => thread[n] = "none"
            BY <1>0 DEF OneAtATime
        <3>4. thread[n] # "none"
            BY <2>1 DEF ThreadAlive
        <3>5. ~ThreadAlive(k)
            BY <3>1, <3>2, <3>3, <3>4 DEF ThreadAlive
        <3> QED
            BY <1>2, <2>1, <2>2, <3>5
    <2>3. ASSUME NEW k \in Over PROVE k \in Jobs /\ k # n /\ k < n
        <3>1. k \in Jobs /\ thread[k] = "over" /\ k # n
            BY <2>1 DEF Over, ThreadAlive
        <3>2. k > n => thread[k] = "none"
            BY <1>0, <2>1, <3>1 DEF OneAtATime
        <3> QED
            BY <1>2, <3>1, <3>2
    <2>4. CASE ThreadBegins(n) \/ ProcessReturns(n) \/ TimesOut(n)
        <3>1. /\ thread[n] \in {"started", "waiting"} /\ thread'[n] \in {"waiting", "saving"}
              /\ UNCHANGED <<kinds, history>>
              /\ \A k \in Jobs \ {n} : entry'[k] = entry[k]
            BY <1>2, <2>4 DEF ThreadBegins, ProcessReturns, TimesOut, Finish
        <3> QED
            BY <1>4, <2>2, <2>3, <3>1 DEF ThreadAlive
    <2>5. CASE HistoryEmptied(n)
        <3>1. /\ thread[n] = "saving" /\ thread' = [thread EXCEPT ![n] = "writing"]
              /\ draft' = [draft EXCEPT ![n] = Kept(<<entry[n]>> \o Readable)]
              /\ history' = Torn
              /\ UNCHANGED <<kinds, entry>>
            BY <2>5 DEF HistoryEmptied
        <3>2. history # Torn /\ Readable = history /\ history \in Seq(Entry)
            BY <1>1, <1>2, <2>2, <3>1 DEF ThreadAlive, Readable
        <3>3. /\ entry[n] \in Entry /\ entry[n].job = n /\ entry[n].kind = kinds[n]
            BY <1>2, <3>1 DEF TypeInv, LifeInv, ThreadOf
        <3>4. /\ Over \in SUBSET Jobs
              /\ \A j \in Over \cup {n} : entry[j].kind = kinds[j]
            BY <1>0, <3>3, OverSaved
        <3>5. Tells(history, Over, entry, kinds)
            BY <1>1, <3>2
        <3>6. Tells(Kept(<<entry[n]>> \o history), Over \cup {n}, entry, kinds)
            BY <2>3, <3>2, <3>3, <3>4, <3>5, TellsAdd
        <3>7. Over' = Over /\ draft'[n] = Kept(<<entry[n]>> \o history)
            <4>1. thread'[n] = "writing"
                BY <1>2, <3>1
            <4> QED
                BY <1>2, <2>2, <3>1, <3>2, <4>1 DEF Over
        <3>8. Tells(draft'[n], Over' \cup {n}, entry', kinds')
            BY <3>1, <3>6, <3>7
        <3>9. \A j \in Jobs : thread'[j] = "writing" => j = n
            BY <2>2 DEF ThreadAlive
        <3>10. thread'[n] = "writing"
            BY <1>2, <3>1
        <3> QED
            BY <3>1, <3>8, <3>9, <3>10 DEF HistoryTells
    <2>6. CASE HistoryWritten(n)
        <3>1. /\ thread[n] = "writing" /\ thread' = [thread EXCEPT ![n] = "over"]
              /\ history' = draft[n]
              /\ UNCHANGED <<kinds, entry>>
            BY <2>6 DEF HistoryWritten
        <3>2. thread'[n] = "over" /\ Over' = Over \cup {n}
            <4>1. thread'[n] = "over"
                BY <1>2, <3>1
            <4> QED
                BY <2>2, <2>3, <4>1 DEF Over
        <3>3. Tells(history', Over', entry', kinds')
            BY <1>1, <3>1, <3>2
        <3>4. history' # Torn
            BY <1>2, <3>1, EntryAssumption
        <3>5. \A j \in Jobs : thread'[j] # "writing"
            BY <2>2, <3>2 DEF ThreadAlive
        <3> QED
            BY <3>3, <3>4, <3>5 DEF HistoryTells
    <2> QED
        BY <1>7, <2>4, <2>5, <2>6 DEF ThreadStep
<1>8. CASE ApiDies
    BY <1>8 DEF ApiDies, Trouble, Orderly
<1>9. CASE UserNext \/ UNCHANGED vars
    BY <1>3, <1>9, UserLeaves DEF UserSame
<1> QED
    BY <1>5, <1>6, <1>7, <1>8, <1>9 DEF Next

-----------------------------------------------------------------------------
(* How many entries of a kind the history holds.                           *)

\* As many numbers have no more than most above them as there are, and no
\* more than most.
LEMMA HighestCounted ==
    ASSUME NEW A, IsFiniteSet(A), A \subseteq Int, NEW most \in Nat
    PROVE  LET top == {k \in A : Cardinality({n \in A : n >= k}) <= most} IN
           /\ IsFiniteSet(top)
           /\ Cardinality(top) = Min({most, Cardinality(A)})
<1> DEFINE f == [n \in A |-> -n]
           rank(k) == Standing(f, A, k)
           top == {k \in A : rank(k) <= most}
           N == Min({most, Cardinality(A)})
           g == [k \in top |-> rank(k)]
<1>1. \A k \in A : Cardinality({n \in A : n >= k}) = rank(k)
    <2>1. ASSUME NEW k \in A PROVE {n \in A : n >= k} = {n \in A : f[n] <= f[k]}
        <3>1. \A n \in A : n >= k <=> f[n] <= f[k]
            OBVIOUS
        <3> HIDE DEF f
        <3> QED
            BY <3>1
    <2> HIDE DEF f
    <2> QED
        BY <2>1 DEF Standing
<1>2. Cardinality(A) \in Nat
    BY FS_CardinalityType
<1>3. N \in Nat /\ N <= most /\ N <= Cardinality(A) /\ N \in {most, Cardinality(A)}
    BY <1>2, LowestNumber
<1>4. f \in [A -> Int] /\ \A k, l \in A : f[k] = f[l] => k = l
    OBVIOUS
<1>5. \A k \in A : rank(k) \in 1..Cardinality(A)
    BY <1>4, StandingIsNat
<1>6. ASSUME NEW k \in A, NEW l \in A, rank(k) = rank(l) PROVE k = l
    <2>1. ~(f[k] < f[l]) /\ ~(f[l] < f[k])
        <3>1. rank(k) \in Nat
            BY <1>2, <1>5
        <3> HIDE DEF f, rank
        <3>2. f[k] < f[l] => rank(k) < rank(l)
            BY <1>4, StandingRises DEF rank
        <3>3. f[l] < f[k] => rank(l) < rank(k)
            BY <1>4, StandingRises DEF rank
        <3> QED
            BY <1>6, <3>1, <3>2, <3>3
    <2>2. f[k] \in Int /\ f[l] \in Int
        BY <1>4
    <2> HIDE DEF f, rank
    <2> QED
        BY <1>4, <2>1, <2>2
<1>7. \A i \in 1..Cardinality(A) : \E k \in A : rank(k) = i
    BY <1>4, StandingTaken
<1>8. top = {k \in A : Cardinality({n \in A : n >= k}) <= most}
    <2> HIDE DEF rank
    <2> QED
        BY <1>1
<1> HIDE DEF f, rank, N
<1>9. g \in Bijection(top, 1..N)
    <2>1. \A k \in top : rank(k) \in 1..N
        BY <1>2, <1>3, <1>5
    <2>2. \A i \in 1..N : \E k \in top : rank(k) = i
        BY <1>2, <1>3, <1>7
    <2>3. \A k, l \in top : rank(k) = rank(l) => k = l
        BY <1>6
    <2> QED
        BY <2>1, <2>2, <2>3 DEF Bijection, Injection, Surjection, IsInjective
<1>10. IsFiniteSet(top)
    BY FS_Subset
<1> HIDE DEF g, top
<1>11. Cardinality(1..N) = N
    BY <1>3, FS_Interval
<1>12. Cardinality(top) = N
    BY <1>9, <1>10, <1>11, FS_Bijection DEF ExistsBijection
<1> QED
    BY <1>8, <1>10, <1>12 DEF N

-----------------------------------------------------------------------------
(* What holds of every behaviour.                                          *)

\* One job at a time, and what follows from it.
ResultsInv ==
    /\ TypeInv /\ Listed /\ OneAtATime /\ EvidenceInv
    /\ ReportInv /\ FileBefore /\ HistoryTells

LEMMA ResultsInit == Init => ResultsInv
<1> SUFFICES ASSUME Init PROVE ResultsInv
    OBVIOUS
<1>1. TypeInv /\ Listed
    BY TypeInit, ListInit
<1>2. /\ \A j \in Jobs : /\ thread[j] = "none" /\ entry[j] = Nothing /\ pool[j] = {}
                         /\ proc[j].phase = "none" /\ proc[j].results = {}
      /\ \A u \in Users : rows[u] = {}
      /\ history = << >> /\ job.status = "idle" /\ clock = 0
      /\ best # Torn => best.at = 0
    BY DEF Init, NotStarted, NoJob, File
<1>3. OneAtATime
    BY <1>2 DEF OneAtATime, ThreadAlive, Alive, Active
<1>4. EvidenceInv
    <2>1. OwnRows
        BY <1>2 DEF OwnRows
    <2>2. OwnTasks /\ OwnResults /\ MeasuredAlone
        BY <1>2 DEF OwnTasks, OwnResults, MeasuredAlone
    <2>3. Undisturbed
        BY <1>2, TypeInit DEF Undisturbed, TypeInv, LifeInv, LifeOf
    <2> QED
        BY <2>1, <2>2, <2>3 DEF EvidenceInv
<1>5. ReportInv
    BY <1>2 DEF ReportInv, OwnReport, LastShown
<1>6. FileBefore
    BY <1>2 DEF FileBefore
<1>7. HistoryTells
    <2>1. Over = {}
        BY <1>2 DEF Over
    <2>2. history # Torn
        <3>1. << >> \in Seq(Entry)
            OBVIOUS
        <3> QED
            BY <1>2, <3>1, EntryAssumption
    <2>3. Tells(history, Over, entry, kinds)
        BY <1>2, <2>1 DEF Tells
    <2> QED
        BY <1>2, <2>2, <2>3 DEF HistoryTells
<1> QED
    BY <1>1, <1>3, <1>4, <1>5, <1>6, <1>7 DEF ResultsInv

LEMMA ResultsStep == ResultsInv /\ [Next]_vars => ResultsInv'
<1> SUFFICES ASSUME ResultsInv, [Next]_vars PROVE ResultsInv'
    OBVIOUS
<1> USE DEF ResultsInv
<1>1. TypeInv' /\ Listed'
    BY TypeStep, ListStep DEF ListsKept
<1>2. OneAtATime' /\ ReportInv' /\ FileBefore' /\ HistoryTells'
    BY <1>1, OneAtATimeStep, ReportStep, FileStep, HistoryStep
<1>3. EvidenceInv'
    BY <1>1, <1>2, EvidenceStep
<1> QED
    BY <1>1, <1>2, <1>3

LEMMA ResultsAlways == Spec => []ResultsInv
BY ResultsInit, ResultsStep, PTL DEF Spec

\* optimize scores a combination by the trades that its own parameters
\* have earned in its own job, as long as nothing dies or overlaps; and
\* whatever does, by those of no other parameters of its own job or of a job
\* with the same list of combinations: the places on a list are told apart.
\* For any number of jobs, workers and combinations and any settings.
THEOREM ScoredByOwnTrades == Spec => []MeasuredAlone
<1>1. ResultsInv => MeasuredAlone
    BY DEF ResultsInv, EvidenceInv
<1> QED
    BY <1>1, ResultsAlways, PTL

\* A completed job shows the report that its own process has written, or
\* none, for any number of jobs one after another: _run_job_subprocess has
\* removed the older report before its process starts.
THEOREM ShowsOwnReport == Spec => []ResultIsOfThisJob
<1>1. ResultsInv => ResultIsOfThisJob
    <2> SUFFICES ASSUME ResultsInv, Orderly, job.status = "done", job.result # 0
                 PROVE  job.result = Max({j \in Jobs : entry[j] # Nothing})
        BY DEF ResultIsOfThisJob, Orderly
    <2> DEFINE told == {j \in Jobs : entry[j] # Nothing}
    <2>1. /\ entry[job.result] # Nothing
          /\ \A k \in Jobs : k > job.result => entry[k] = Nothing
        BY DEF ResultsInv, ReportInv, LastShown
    <2>2. job.result \in Jobs
        BY DEF ResultsInv, TypeInv, FilesTyped, Jobs
    <2>3. IsFiniteSet(told) /\ job.result \in told /\ told \subseteq Int
        <3>1. told \in SUBSET Jobs
            OBVIOUS
        <3> QED
            BY <2>1, <2>2, <3>1, JobsCounted DEF Jobs
    <2>4. Max(told) \in told /\ \A n \in told : n <= Max(told)
        BY <2>3, HighestNumber
    <2>5. ~(Max(told) > job.result) /\ job.result <= Max(told) /\ Max(told) \in Int
        BY <2>1, <2>3, <2>4
    <2> HIDE DEF told
    <2>6. job.result = Max(told)
        BY <2>2, <2>5 DEF Jobs
    <2> QED
        BY <2>6 DEF told
<1> QED
    BY <1>1, ResultsAlways, PTL

\* _save_history keeps the newest MaxHistory jobs of each kind and no others,
\* newest first, for any number of jobs and any length of the history: a kind
\* that runs often does not push out the other.
THEOREM NewestOfEachKindKept == Spec => []HistoryKept
<1>1. ResultsInv => HistoryKept
    <2> SUFFICES ASSUME ResultsInv, Orderly, history # Torn PROVE HistoryKept
        BY DEF HistoryKept, Orderly
    <2>1. /\ Over \in SUBSET Jobs /\ \A j \in Over : entry[j].kind = kinds[j]
          /\ Tells(history, Over, entry, kinds) /\ history \in Seq(Entry)
        BY OverSaved DEF ResultsInv, HistoryTells, TypeInv, FilesTyped
    <2>2. \A i \in DOMAIN history :
              /\ history[i].job \in Over /\ history[i].kind = kinds[history[i].job]
              /\ Older(history, i) = Cardinality(Newer(Over, kinds, history[i].job))
        <3>1. ASSUME NEW i \in DOMAIN history
              PROVE  Older(history, i) = Cardinality(Newer(Over, kinds, history[i].job))
            BY <2>1, TellsRank
        <3>2. ASSUME NEW i \in DOMAIN history
              PROVE  history[i].job \in Over /\ history[i] = entry[history[i].job]
            BY <2>1 DEF Tells
        <3> QED
            BY <2>1, <3>1, <3>2
    <2>3. DOMAIN history = 1..Len(history) /\ Len(history) \in Nat
        BY <2>1
    <2>4. ASSUME NEW kind \in Kinds
          PROVE  LET saved == {j \in Jobs : thread[j] = "over" /\ kinds[j] = kind}
                     listed == {i \in DOMAIN history : history[i].kind = kind}
                 IN /\ Cardinality(listed) = Min({MaxHistory, Cardinality(saved)})
                    /\ \A i \in listed :
                          /\ history[i].job \in saved
                          /\ Cardinality({j \in saved : j >= history[i].job})
                                = Cardinality({k \in listed : k <= i})
        <3> DEFINE saved == {j \in Jobs : thread[j] = "over" /\ kinds[j] = kind}
                   listed == {i \in DOMAIN history : history[i].kind = kind}
                   above(k) == {n \in saved : n >= k}
                   top == {k \in saved : Cardinality(above(k)) <= MaxHistory}
                   f == [i \in listed |-> history[i].job]
        <3>1. saved = {j \in Over : kinds[j] = kind}
            BY DEF Over
        <3>2. \A i \in listed : history[i].job \in saved
            BY <2>2, <3>1
        <3>3. \A k \in saved : above(k) = Newer(Over, kinds, k)
            BY <3>1 DEF Newer
        <3>4. ASSUME NEW i \in listed PROVE Older(history, i) = Cardinality({k \in listed : k <= i})
            <4>1. {k \in listed : k <= i} = {k \in 1..i : history[k].kind = history[i].kind}
                BY <2>3
            <4> QED
                BY <4>1 DEF Older
        <3>5. ASSUME NEW i \in listed
              PROVE  Cardinality(above(history[i].job)) = Cardinality({k \in listed : k <= i})
            BY <2>2, <3>2, <3>3, <3>4
        <3>6. saved \in SUBSET Jobs /\ saved \subseteq Int
            BY DEF Jobs
        <3>7. IsFiniteSet(listed)
            <4>1. IsFiniteSet(1..Len(history))
                BY <2>3, FS_Interval
            <4> QED
                BY <2>3, <4>1, FS_Subset
        <3>8. f \in Bijection(listed, top)
            <4>1. \A i \in listed : history[i].job \in top
                <5>1. \A i \in listed : Cardinality(Newer(Over, kinds, history[i].job)) <= MaxHistory
                    BY <2>1, <2>2 DEF Tells
                <5> HIDE DEF saved, above, listed
                <5> QED
                    BY <3>2, <3>3, <5>1
            <4>2. \A j \in top : \E i \in listed : history[i].job = j
                <5>1. SUFFICES ASSUME NEW j \in top PROVE \E i \in listed : history[i].job = j
                    OBVIOUS
                <5>2. j \in Over /\ kinds[j] = kind
                    BY <3>1
                <5>3. Cardinality(Newer(Over, kinds, j)) <= MaxHistory
                    <6> HIDE DEF saved, above
                    <6> QED
                        BY <3>3, <5>1
                <5>4. PICK i \in DOMAIN history : history[i].job = j
                    BY <2>1, <5>2, <5>3 DEF Tells
                <5> QED
                    BY <2>2, <5>2, <5>4
            <4>3. \A i, k \in listed : history[i].job = history[k].job => i = k
                <5>1. \A i, k \in DOMAIN history : i < k => history[i].job > history[k].job
                    BY <2>1 DEF Tells
                <5>2. \A i \in listed : history[i].job \in Int
                    BY <3>2, <3>6
                <5> QED
                    BY <2>3, <5>1, <5>2
            <4> HIDE DEF listed, top
            <4> QED
                BY <4>1, <4>2, <4>3 DEF Bijection, Injection, Surjection, IsInjective
        <3> HIDE DEF f, listed, saved
        <3>9. IsFiniteSet(saved)
            BY <3>6, JobsCounted
        <3>10. Cardinality(top) = Min({MaxHistory, Cardinality(saved)})
            BY <3>6, <3>9, HighestCounted, JobsAssumption
        <3>11. Cardinality(listed) = Cardinality(top)
            <4> HIDE DEF top
            <4> QED
                BY <3>7, <3>8, FS_Bijection DEF ExistsBijection
        <3>12. Cardinality(listed) = Min({MaxHistory, Cardinality(saved)})
            BY <3>10, <3>11
        <3> QED
            BY <3>2, <3>5, <3>12 DEF listed, saved
    <2> QED
        BY <2>4 DEF HistoryKept
<1> QED
    BY <1>1, ResultsAlways, PTL

\* A best_config.json that a later completed run of the optimizer did not
\* confirm is applied with a warning, as long as the history tells of that
\* run, for any number of jobs of both kinds and any length of the history.
THEOREM StaleAlwaysWarned == Spec => []StaleIsWarned
<1>1. ResultsInv => StaleIsWarned
    <2> SUFFICES ASSUME ResultsInv, Orderly, best # Torn, Remembered, best.job < NewestRun
                 PROVE  StalenessWarning(best)
        BY DEF StaleIsWarned, Orderly, CanApply
    <2>1. PICK i \in Completed : Readable[i].job = NewestRun
        BY DEF Remembered
    <2>2. history # Torn /\ Readable = history /\ history \in Seq(Entry)
        <3>1. i \in DOMAIN Readable
            BY DEF Completed
        <3>2. history # Torn
            BY <3>1 DEF Readable
        <3> QED
            BY <3>2 DEF Readable, ResultsInv, TypeInv, FilesTyped
    <2>3. /\ \A p, q \in DOMAIN history : p < q => history[p].job > history[q].job
          /\ \A p \in DOMAIN history :
                history[p].job \in Over /\ history[p] = entry[history[p].job]
        BY <2>2 DEF ResultsInv, HistoryTells, Tells
    <2>4. Completed \subseteq Nat /\ Completed \subseteq DOMAIN history
        BY <2>2 DEF Completed
    <2> DEFINE m == Min(Completed)
    <2>5. m \in Completed /\ m <= i
        BY <2>1, <2>4, LowestNumber
    <2> HIDE DEF m
    <2>6. ASSUME NEW p \in Completed PROVE history[p].job \in CompletedRuns /\ history[p].job <= NewestRun
        <3>1. history[p].job \in CompletedRuns
            <4>1. history[p].kind = "optimizer" /\ history[p].done
                BY <2>2 DEF Completed
            <4>2. history[p].job \in Jobs /\ thread[history[p].job] = "over"
                BY <2>3, <2>4 DEF Over
            <4>3. entry[history[p].job] # Nothing
                BY <4>2 DEF ResultsInv, OneAtATime
            <4> QED
                BY <2>3, <2>4, <4>1, <4>2, <4>3 DEF CompletedRuns
        <3> DEFINE all == {0} \cup CompletedRuns
        <3>2. all \in SUBSET (0..MaxJobs)
            BY OptimizerAssumption DEF CompletedRuns, Jobs
        <3>3. IsFiniteSet(0..MaxJobs)
            BY OptimizerAssumption, FS_Interval
        <3>4. IsFiniteSet(all) /\ all # {} /\ all \subseteq Int
            <4>1. all # {} /\ all \subseteq Int
                BY <3>2
            <4> HIDE DEF all
            <4> QED
                BY <3>2, <3>3, <4>1, FS_Subset
        <3>5. \A n \in all : n <= Max(all)
            <4> HIDE DEF all
            <4> QED
                BY <3>4, HighestNumber
        <3> QED
            BY <3>1, <3>5 DEF NewestRun
    <2>7. m = i
        <3>1. history[m].job <= history[i].job
            BY <2>1, <2>2, <2>5, <2>6
        <3>2. history[m].job \in Nat /\ history[i].job \in Nat /\ m \in Nat /\ i \in Nat
            BY <2>3, <2>4, <2>5 DEF Over, Jobs
        <3>3. ~(m < i)
            BY <2>3, <2>4, <2>5, <3>1, <3>2
        <3> QED
            BY <2>5, <3>2, <3>3
    <2>8. /\ NewestRun \in CompletedRuns /\ history[m] = entry[NewestRun]
        BY <2>1, <2>2, <2>3, <2>4, <2>6, <2>7
    <2>9. best.at < history[m].at
        BY <2>8 DEF ResultsInv, FileBefore, CompletedRuns
    <2> QED
        BY <2>2, <2>5, <2>9 DEF StalenessWarning, m
<1> QED
    BY <1>1, ResultsAlways, PTL
=============================================================================
