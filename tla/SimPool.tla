------------------------------ MODULE SimPool ------------------------------
(***************************************************************************)
(* etc/dispatch_parallel_sims: the decks found in a directory are mapped   *)
(* over a pool of worker processes, each of which runs one simulator at a  *)
(* time and ignores its exit status.  The script exits when the map        *)
(* returns.                                                                *)
(*                                                                         *)
(* multiprocessing.Pool is outside the repository.  It hands the decks out *)
(* in chunks of the sorted list; here a free worker takes any deck not yet *)
(* handed out, which allows every order the chunks can produce.            *)
(***************************************************************************)
CONSTANTS Decks,      \* the decks the directory may hold
          Workers,    \* the worker processes (num_cores of them)
          Idle        \* what a worker holds when it runs no simulator

ASSUME IdleAssumption == Idle \notin Decks
ASSUME WorkersAssumption == Workers # {}

VARIABLES phase,      \* "start", "map" or "exit"
          queue,      \* the decks no worker has taken yet
          job,        \* the deck each worker is simulating, or Idle
          ran         \* the decks whose simulator has ended

poolvars == <<phase, queue, job, ran>>

Busy == {w \in Workers : job[w] # Idle}

PoolInit ==
    /\ phase = "start"
    /\ queue = {}
    /\ job = [w \in Workers |-> Idle]
    /\ ran = {}

\* glob("*.sp"), then the pool is created and the map begins.
Glob(S) ==
    /\ phase = "start"
    /\ phase' = "map"
    /\ queue' = S
    /\ UNCHANGED <<job, ran>>

\* (variant) The queue is not shortened, as with one glob per worker.
TakeKeepsQueue(w, d) ==
    /\ phase = "map"
    /\ job[w] = Idle
    /\ d \in queue
    /\ job' = [job EXCEPT ![w] = d]
    /\ UNCHANGED <<phase, queue, ran>>

\* A worker takes a deck and starts its simulator.
Take(w, d) ==
    /\ phase = "map"
    /\ job[w] = Idle
    /\ d \in queue
    /\ queue' = queue \ {d}
    /\ job' = [job EXCEPT ![w] = d]
    /\ UNCHANGED <<phase, ran>>

\* (variant) A failed simulation is queued again without end.
RunSimRetries(w) ==
    /\ job[w] # Idle
    /\ ran' = ran \cup {job[w]}
    /\ queue' = queue \cup {job[w]}
    /\ job' = [job EXCEPT ![w] = Idle]
    /\ UNCHANGED phase

\* (variant) check_call instead of call: a failure ends the whole map.
RunSimRaises(w) ==
    /\ job[w] # Idle
    /\ ran' = ran \cup {job[w]}
    /\ queue' = {}
    /\ job' = [job EXCEPT ![w] = Idle]
    /\ UNCHANGED phase

\* The simulator of worker w ends; run_sim returns whatever its status is.
RunSim(w) ==
    /\ job[w] # Idle
    /\ ran' = ran \cup {job[w]}
    /\ job' = [job EXCEPT ![w] = Idle]
    /\ UNCHANGED <<phase, queue>>

\* pool.map returns: every deck has been handed out and every worker is done.
Join ==
    /\ phase = "map"
    /\ queue = {}
    /\ Busy = {}
    /\ phase' = "exit"
    /\ UNCHANGED <<queue, job, ran>>

Work == Join \/ \E w \in Workers : RunSim(w) \/ \E d \in Decks : Take(w, d)

PoolNext == Work \/ \E S \in SUBSET Decks : Glob(S)

PoolSpec == PoolInit /\ [][PoolNext]_poolvars

(***************************************************************************)
(* The operating system runs the workers, and a simulator that was started *)
(* ends: neither the script nor Xyce is given a time limit.                *)
(***************************************************************************)
PoolFairSpec ==
    /\ PoolSpec
    /\ WF_poolvars(Join)
    /\ \A w \in Workers : /\ WF_poolvars(RunSim(w))
                          /\ WF_poolvars(\E d \in Decks : Take(w, d))

-----------------------------------------------------------------------------
PoolTypeOK ==
    /\ phase \in {"start", "map", "exit"}
    /\ queue \in SUBSET Decks
    /\ job \in [Workers -> Decks \cup {Idle}]
    /\ ran \in SUBSET Decks

\* Two simulators never run on one deck: both would write the deck's .log and
\* .mt0 files (dispatch_parallel_sims:17).
OneSimPerDeck ==
    \A v, w \in Workers : v # w /\ job[v] # Idle => job[v] # job[w]

\* A deck is waiting, or being simulated, or done, never two of these: no
\* simulator starts on a deck whose results are already written.
NoDeckTwice ==
    /\ queue \cap ran = {}
    /\ \A w \in Workers : job[w] \notin queue \cup ran

(***************************************************************************)
(* The pool implements the batch: a deck is left while it waits in the     *)
(* queue or is being simulated.                                            *)
(***************************************************************************)
StateOf(p) == CASE p = "start" -> "idle"
                [] p = "map"   -> "running"
                [] p = "exit"  -> "returned"

Left == queue \cup {job[w] : w \in Busy}

Batch == INSTANCE SimBatch WITH state <- StateOf(phase), left <- Left

\* Every behaviour of the parallel dispatcher is one of the abstract batch.
ImplementsBatch == Batch!Spec

\* A batch that has begun returns (the liveness half of the abstract batch).
BatchReturns == phase = "map" ~> phase = "exit"
=============================================================================
