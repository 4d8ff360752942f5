----------------------------- MODULE Placement -----------------------------
(***************************************************************************)
(* The pure decisions of src/gpu_watcher/scheduler.py: where a queued task *)
(* may be placed, and which running tasks make room for it.  They read the *)
(* table (rows) and the GPU readings of this tick: up is the set of        *)
(* workers that answered the probe, ready[w] the GPUs of w whose reading   *)
(* meets the launch condition.                                             *)
(*                                                                         *)
(* Load figures are abstracted away: where the code orders GPUs by load,   *)
(* or victims by start time, any choice of the same rank may be taken.     *)
(***************************************************************************)
EXTENDS TaskLifecycle, FiniteSetsExt

CONSTANTS
  Cap,            \* [Worker -> Nat or None]: max_concurrent_tasks (GPU slots)
  MaxBackground,  \* [Worker -> Nat]: max_background_tasks
  Node            \* [Gpu -> Nat or None]: NUMA node of a GPU

ASSUME LimitsAssumption ==
  /\ \A w \in Worker : Cap[w] \in Nat \cup {None}
  /\ \A w \in Worker : MaxBackground[w] \in Nat
  /\ \A g \in Gpu : Node[g] \in Nat \cup {None}

(* The table has finitely many rows and a host finitely many GPUs. *)
ASSUME FiniteAssumption == IsFiniteSet(Task) /\ IsFiniteSet(Gpu)

Running == {t \in Task : rows[t].status = "running"}

Queued == {t \in Task : rows[t].status = "queued"}

RunningOn(w) == {t \in Running : rows[t].worker = w}

Opt(t) == rows[t].options

Monus(a, b) == IF a > b THEN a - b ELSE 0

-----------------------------------------------------------------------------
(* Free GPUs and slots *)

(* Mutant: GPUs of background tasks alone count as occupied. *)
OccupiedByBackground(w, t) ==
  UNION {rows[u].gpus : u \in {v \in RunningOn(w) \ {t} : Opt(v).background}}

OccupiedByOthers(w, t) == UNION {rows[u].gpus : u \in RunningOn(w) \ {t}}

(* _available_gpus_by_worker *)
Available(w, t, up, ready) ==
  IF w \in up THEN ready[w] \ OccupiedByOthers(w, t) ELSE {}

(* GPU slots held by a set of tasks; a GPU counts once per task *)
Slots(S) == Cardinality(UNION {{u} \X rows[u].gpus : u \in S})

(* Mutant: max_concurrent_tasks counts tasks. *)
SlotsLeftByTasks(w, t) == Monus(Cap[w], Cardinality(RunningOn(w) \ {t}))

SlotsLeft(w, t) == Monus(Cap[w], Slots(RunningOn(w) \ {t}))

SameNode(G) == \E n \in {Node[g] : g \in G} \ {None} : \A g \in G : Node[g] = n

(* _select_gpu_set: count GPUs, of one NUMA node when a node has enough *)
Selections(free, count) ==
  LET all   == kSubset(count, free)
      local == {G \in all : SameNode(G)}
  IN  IF count > 1 /\ local # {} THEN local ELSE all

(* _elastic_gpu_limit, for a task beside which others run on w *)
ElasticLimit(w, t) ==
  LET configured == Min({Opt(t).gpus, Cardinality(Gpu)})
  IN  IF Cap[w] = None THEN configured ELSE Min({configured, SlotsLeft(w, t)})

-----------------------------------------------------------------------------
(* _find_plan *)

PlanCount(t, w, free) ==
  LET wanted == IF Opt(t).elastic
                THEN Min({Cardinality(free), ElasticLimit(w, t)})
                ELSE IF Cardinality(free) >= Opt(t).gpus THEN Opt(t).gpus ELSE 0
  IN  IF Cap[w] = None THEN wanted ELSE Min({wanted, SlotsLeft(w, t)})

(* Mutant: max_background_tasks is not looked at. *)
CandidatesWithoutLimit(t, w, up, ready) ==
  LET free  == Available(w, t, up, ready)
      count == PlanCount(t, w, free)
  IN  IF /\ Opt(t).target \in {None, w}
         /\ count >= (IF Opt(t).elastic THEN 1 ELSE Opt(t).gpus)
      THEN {[task |-> t, worker |-> w, gpus |-> G] : G \in Selections(free, count)}
      ELSE {}

CandidatesOn(t, w, up, ready) ==
  LET free  == Available(w, t, up, ready)
      count == PlanCount(t, w, free)
  IN  IF /\ Opt(t).target \in {None, w}
         /\ Opt(t).background
              => Cardinality({u \in RunningOn(w) : Opt(u).background})
                   < MaxBackground[w]
         /\ count >= (IF Opt(t).elastic THEN 1 ELSE Opt(t).gpus)
      THEN {[task |-> t, worker |-> w, gpus |-> G] : G \in Selections(free, count)}
      ELSE {}

(* _plan_preference_key ranks plans without a NUMA penalty first *)
Plans(t, up, ready) ==
  LET all   == UNION {CandidatesOn(t, w, up, ready) : w \in Worker}
      local == {p \in all : Cardinality(p.gpus) <= 1 \/ SameNode(p.gpus)}
  IN  IF local # {} THEN local ELSE all

(* _plan_is_numa_local *)
NumaLocal(p) == Opt(p.task).gpus <= 1 \/ SameNode(p.gpus)

-----------------------------------------------------------------------------
(* Victims *)

Below(t, u) == Opt(u).priority < Opt(t).priority

BackgroundVictims(t, w) ==
  {u \in RunningOn(w) : Opt(u).background /\ Below(t, u)}

RegularVictims(t, w) ==
  {u \in RunningOn(w) : ~Opt(u).background /\ Opt(u).preemptible /\ Below(t, u)}

Offers(t, w, up) == w \in up /\ Opt(t).target \in {None, w}

(***************************************************************************)
(* The loops of _preempt_background_for_task and _preempt_for_task: take   *)
(* eligible tasks by ascending priority until enough GPUs and slots would  *)
(* be released.                                                            *)
(***************************************************************************)
VictimLists(t, w, eligible, up, ready) ==
  LET free == Cardinality(Available(w, t, up, ready))
      left == IF Cap[w] = None THEN free ELSE Monus(Cap[w], Slots(RunningOn(w)))
      Enough(V) == /\ free + Slots(V) >= Opt(t).gpus
                   /\ left + Slots(V) >= Opt(t).gpus
  IN  IF ~Offers(t, w, up) THEN {}
      ELSE {V \in SUBSET eligible \ {{}} :
              /\ Enough(V)
              /\ \A v \in V, u \in eligible \ V :
                   Opt(v).priority <= Opt(u).priority
              /\ \E last \in V :
                   /\ \A v \in V : Opt(v).priority <= Opt(last).priority
                   /\ V = {last} \/ ~Enough(V \ {last})}

(***************************************************************************)
(* _find_numa_preemption_plan: every set of eligible tasks whose eviction  *)
(* lets t have all its GPUs on one node of w, and the best of these sets.  *)
(***************************************************************************)
(* Mutant: allow_preempt is not asked for. *)
NumaVictimsOfAny(t, w) == BackgroundVictims(t, w) \cup RegularVictims(t, w)

NumaVictims(t, w) ==
  BackgroundVictims(t, w)
    \cup (IF Opt(t).allow_preempt THEN RegularVictims(t, w) ELSE {})

NumaSets(t, w, n, up, ready) ==
  LET onNode(G) == {g \in G : Node[g] = n}
      free      == onNode(Available(w, t, up, ready))
      options   == {u \in NumaVictims(t, w) : onNode(rows[u].gpus) # {}}
      released(V) == free \cup UNION {onNode(rows[u].gpus) : u \in V}
  IN  IF ~Offers(t, w, up) \/ Cardinality(free) >= Opt(t).gpus THEN {}
      ELSE {V \in SUBSET options \ {{}} :
              /\ Cardinality(released(V)) >= Opt(t).gpus
              /\ Cap[w] # None
                   => Cap[w] + Slots(V)
                        >= Slots(RunningOn(w)) + Opt(t).gpus}

NumaRank(V) ==
  <<Cardinality({u \in V : ~Opt(u).background}), Cardinality(V), Slots(V),
    MapThenSumSet(LAMBDA u : Opt(u).priority, V)>>

RanksBefore(a, b) ==
  \E i \in 1 .. 4 : a[i] < b[i] /\ \A j \in 1 .. i - 1 : a[j] = b[j]

NumaChoices(t, up, ready) ==
  LET all == UNION {{[host |-> w, victims |-> V] :
                       V \in UNION {NumaSets(t, w, n, up, ready) :
                                      n \in {Node[g] : g \in Gpu} \ {None}}} :
                    w \in Worker}
  IN  IF Opt(t).gpus <= 1 \/ Opt(t).elastic \/ Opt(t).waits THEN {}
      ELSE {c \in all : \A d \in all :
                          ~RanksBefore(NumaRank(d.victims), NumaRank(c.victims))}

-----------------------------------------------------------------------------
(* Mutant: a free reading is enough for a GPU to be added. *)
ResizeOntoReady(t, r, up, ready) ==
  LET additional == ready[r.worker] \ r.gpus
      size       == Cardinality(r.gpus)
  IN  IF size < ElasticLimit(r.worker, t) /\ additional # {}
      THEN Selections(r.gpus \cup additional,
                      Min({ElasticLimit(r.worker, t),
                           size + Cardinality(additional)}))
      ELSE {}

(***************************************************************************)
(* _resize_elastic_background_tasks: the GPU sets an elastic task t, read  *)
(* as row r, is to be restarted on ({} suspends it); no set when it keeps  *)
(* what it has.                                                            *)
(***************************************************************************)
ResizeTargets(t, r, up, ready) ==
  LET w          == r.worker
      additional == Available(w, t, up, ready) \ r.gpus
      limit      == ElasticLimit(w, t)
      size       == Cardinality(r.gpus)
  IN  IF w \notin up THEN {}
      ELSE IF size > limit THEN Selections(r.gpus, limit)
      ELSE IF size < limit /\ additional # {}
           THEN Selections(r.gpus \cup additional,
                           Min({limit, size + Cardinality(additional)}))
           ELSE {}

(* _worker_has_pending_regular_task *)
PendingRegular(w, t) ==
  \E u \in Queued :
    ~Opt(u).background /\ Below(u, t) /\ Opt(u).target \in {None, w}
=============================================================================
