----------------------------- MODULE BenchBudgets -----------------------------
(***************************************************************************)
(* One benchmark (tools/bench_stack.py): sample the memory and the disk     *)
(* writes of the services for some time, and compare their maxima and       *)
(* write rates with the budgets in bench_budgets.json.                      *)
(*                                                                         *)
(* Containers go on writing, restart and are replaced meanwhile; the        *)
(* container ids are those of the start.  Amounts and times are whole       *)
(* numbers of a unit as small as one likes, for the floats of the code; its *)
(* rounding of the rates to four digits is left out.                        *)
(***************************************************************************)
EXTENDS Integers, FiniteSetsExt

CONSTANTS
  Services, Exempt,   \* the services, and those no budget is for
  RamBudget, WriteBudget,           \* of each service: an amount, an amount per minute
  RamTotal, WriteTotal,             \* of the stack
  Second,             \* units of time in a second
  Durations,          \* how long a benchmark may take
  MaxRam,             \* bound: what docker stats reports
  MaxWritten,         \* bound: what a service writes
  MaxSamples,         \* bound: samples of a benchmark
  MaxRestarts         \* bound: containers that restart or are replaced

VARIABLES
  counter,            \* [Services -> wbytes of its container]
  replaced,           \* services whose container is another than at the start
  bench,              \* "new", "sample", "check", "pass", "fail", "error"
  enforced,           \* is the scenario idle or agent?
  duration,           \* --duration
  samples,            \* how many were taken
  first, last,        \* [Services -> wbytes in the first and the latest sample]
  ramMax,             \* [Services -> the largest sample]
  written,            \* [Services -> what it wrote between those samples]
  unseen,             \* [Services -> what it has written since the latest sample]
  restarts

readings == <<samples, first, last, ramMax, written, unseen>>
vars == <<counter, replaced, bench, enforced, duration, readings, restarts>>

Zero == [s \in Services |-> 0]
Total(f) == FoldSet(LAMBDA s, sum : f[s] + sum, 0, Services \ Exempt)

TypeOK ==
  /\ counter \in [Services -> 0..MaxWritten]
  /\ replaced \subseteq Services
  /\ bench \in {"new", "sample", "check", "pass", "fail", "error"}
  /\ enforced \in BOOLEAN
  /\ duration \in Durations \union {0}
  /\ samples \in 0..MaxSamples
  /\ first \in [Services -> 0..MaxWritten] /\ last \in [Services -> 0..MaxWritten]
  /\ ramMax \in [Services -> 0..MaxRam]
  /\ written \in [Services -> Nat] /\ unseen \in [Services -> Nat]
  /\ restarts \in 0..MaxRestarts

Init ==
  /\ counter = Zero
  /\ replaced = {}
  /\ bench = "new" /\ enforced = FALSE
  /\ duration = 0
  /\ samples = 0
  /\ first = Zero /\ last = Zero /\ ramMax = Zero
  /\ written = Zero /\ unseen = Zero
  /\ restarts = 0

-----------------------------------------------------------------------------
\* main: the scenario and the duration, and docker_ps_services.
Begin ==
  /\ bench = "new"
  /\ enforced' \in BOOLEAN /\ duration' \in Durations
  /\ bench' = "sample"
  /\ UNCHANGED <<counter, replaced, readings, restarts>>

\* container_io_bytes_mib: zero of a container whose cgroup is gone.
Reading(s) == IF s \in replaced THEN 0 ELSE counter[s]

FromZero(io) == first                                             \* faulty FirstOf

\* summarize: a service's first row.
FirstOf(io) == IF samples = 0 THEN io ELSE first

\* sample: memory is zero of a container docker stats does not name.
Sample ==
  LET io == [s \in Services |-> Reading(s)]
  IN /\ bench = "sample" /\ duration > 0 /\ samples < MaxSamples
     /\ \E ram \in [Services -> 0..MaxRam] :
          ramMax' = [s \in Services |-> IF ram[s] > ramMax[s] THEN ram[s] ELSE ramMax[s]]
     /\ first' = FirstOf(io) /\ last' = io
     /\ written' = IF samples = 0 THEN Zero
                   ELSE [s \in Services |-> written[s] + unseen[s]]
     /\ unseen' = Zero
     /\ samples' = samples + 1
     /\ UNCHANGED <<counter, replaced, bench, enforced, duration, restarts>>

\* docker ps or docker stats fails, or there is no service: nothing is reported.
SampleFails ==
  /\ bench \in {"new", "sample"}
  /\ bench' = "error"
  /\ UNCHANGED <<counter, replaced, enforced, duration, readings, restarts>>

\* When the time is over, which it is at once if it is none.
EndSampling ==
  /\ bench = "sample" /\ (duration = 0 \/ samples > 0)
  /\ bench' = "check"
  /\ UNCHANGED <<counter, replaced, enforced, duration, readings, restarts>>

\* summarize: never negative, so that a counter that started again counts as none.
Window == [s \in Services |-> IF last[s] > first[s] THEN last[s] - first[s] ELSE 0]

\* The minutes check_budgets divides by are those of a second at least.
Minute == 60 * Second
Divisor == IF duration > Second THEN duration ELSE Second

PerSecond(amount, budget) == amount * Second > budget * duration   \* faulty RateExceeds

\* main divides by the minutes, and check_budgets divides the result again.
RateExceeds(amount, budget) == amount * Minute * Minute > budget * duration * Divisor

RamProblems == {s \in Services \ Exempt : ramMax[s] > RamBudget[s]}
WriteProblems == {s \in Services \ Exempt : RateExceeds(Window[s], WriteBudget[s])}

WithinBudgets ==
  /\ RamProblems = {} /\ Total(ramMax) <= RamTotal
  /\ WriteProblems = {} /\ ~RateExceeds(Total(Window), WriteTotal)

\* check_budgets, in the scenarios that are held to the budgets.
Check ==
  /\ bench = "check"
  /\ bench' = IF enforced => WithinBudgets THEN "pass" ELSE "fail"
  /\ UNCHANGED <<counter, replaced, enforced, duration, readings, restarts>>

-----------------------------------------------------------------------------
(* The containers.                                                          *)

Write(s) ==
  /\ bench \in {"new", "sample"} /\ counter[s] < MaxWritten
  /\ counter' = [counter EXCEPT ![s] = @ + 1]
  /\ unseen' = [unseen EXCEPT ![s] = @ + 1]
  /\ UNCHANGED <<replaced, bench, enforced, duration, samples, first, last, ramMax, written, restarts>>

\* The cgroup of a container that restarts counts from zero; a new container has
\* an id the benchmark does not know.
Restart(s) ==
  /\ bench = "sample" /\ restarts < MaxRestarts
  /\ restarts' = restarts + 1
  /\ counter' = [counter EXCEPT ![s] = 0]
  /\ replaced' \in {replaced, replaced \union {s}}
  /\ UNCHANGED <<bench, enforced, duration, readings>>

Next ==
  \/ Begin \/ Sample \/ SampleFails \/ EndSampling \/ Check
  \/ \E s \in Services : Write(s) \/ Restart(s)

Spec == Init /\ [][Next]_vars

-----------------------------------------------------------------------------
(* Properties.                                                              *)

\* The verdict a reader of bench_budgets.json expects: what was written, per
\* minute.
TrulyWithin ==
  /\ \A s \in Services \ Exempt :
       ramMax[s] <= RamBudget[s] /\ written[s] * Minute <= WriteBudget[s] * duration
  /\ Total(ramMax) <= RamTotal /\ Total(written) * Minute <= WriteTotal * duration

\* A benchmark of a minute or more fails no stack that kept its budgets, whatever
\* restarts and whatever the counters stood at before.  (A shorter one may:
\* dividing by half a minute twice makes twice the rate of what was written.)
FailureIsReal == bench = "fail" /\ duration >= Minute => ~TrulyWithin

\* A benchmark of a minute or less during which nothing restarted passes only a
\* stack that kept them.  (A longer one may pass another: dividing by two minutes
\* twice makes half the rate.)
ShortPassIsReal ==
  bench = "pass" /\ enforced /\ duration <= Minute /\ restarts = 0 => TrulyWithin
=============================================================================
