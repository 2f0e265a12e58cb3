----------------------------- MODULE TestRunner -----------------------------
(***************************************************************************)
(* The test runner of testing/testing.c: it selects the registered tests,  *)
(* splits the inputs of each into shares, forks a worker for every share,  *)
(* at most num_jobs at a time, and prints the results in the order of the  *)
(* tests while the workers end in any order.  An input of a random test is *)
(* its place in the stream of random numbers.  Failing system calls, after *)
(* which the runner exits, and times are left out.                         *)
(***************************************************************************)
EXTENDS Integers, SequencesExt

CONSTANTS UINT64_RANGE,  \* how many values a uint64_t has
          Suites,        \* the registered tests, sequences of records
          Filters,       \* the options -f, -F, -t, -T and -n: the tests each matches, reject or not
          MaxJobs,
          global_seed

Inputs64 == 0..UINT64_RANGE - 1
Nothing  == UINT64_RANGE    \* no input: the test does not fail

ASSUME WordAssumption == UINT64_RANGE \in Nat \ {0}
\* register_range_test asserts start <= end; _NEGATIVE tests are simple ones.
ASSUME SuitesAssumption ==
  \A suite \in Suites :
    /\ IsFiniteSet(DOMAIN suite)
    /\ \A i \in DOMAIN suite :
         LET test == suite[i]
         IN \/ test.type = "simple" /\ test.should_succeed \in BOOLEAN
            \/ /\ test.type = "range" /\ test.should_succeed = TRUE
               /\ {test.start, test.end} \subseteq Inputs64 /\ test.start <= test.end
            \/ /\ test.type = "random" /\ test.should_succeed = TRUE
               /\ test.num_values \in Inputs64 \ {0}
ASSUME JobsAssumption == MaxJobs \in Nat \ {0} /\ global_seed \in Inputs64

VARIABLES tests,             \* the selected tests, in order
          culprit,           \* the input with which each of them fails or crashes
          num_jobs, shares,  \* of each test, one for each of its workers
          queue, running,    \* the lists of workers
          process,           \* what has become of each worker
          passed, num_workers_completed, completed_cursor,
          printed,           \* the results printed so far
          status             \* of the runner

vars == <<tests, culprit, num_jobs, shares, queue, running, process, passed,
          num_workers_completed, completed_cursor, printed, status>>

Wrap(x) == x % UINT64_RANGE

Enabled(test, args) ==
  LET hits == {j \in DOMAIN args : test.name \in args[j].matches}
  IN args = <<>> \/ (hits # {} /\ ~args[Max(hits)].reject)

\* What qsort may make of the enabled tests: any order of them by their names.
Selected(suite, args) ==
  LET enabled == {i \in DOMAIN suite : Enabled(suite[i], args)}
      orders  == {o \in Bijection(1..Cardinality(enabled), enabled) :
                    \A i, j \in DOMAIN o : i < j => suite[o[i]].name <= suite[o[j]].name}
  IN  {[i \in DOMAIN o |-> suite[o[i]]] : o \in orders}

\* Mutant: forgets that the range includes its end.
RangeSharesWithoutEnd(test, jobs) ==
  LET n        == Wrap(test.end - test.start)
      num      == IF jobs - 1 > n THEN n + 1 ELSE jobs
      Taken(t) == t * (n \div num) + Min({t, n % num})
  IN [t \in 1..num |-> [start |-> Wrap(test.start + Taken(t - 1)),
                        end   |-> Wrap(test.start - 1 + Taken(t))]]

\* The first rem workers get an input more than the others.
RangeShares(test, jobs) ==
  LET n        == Wrap(test.end - test.start)
      num      == IF jobs - 1 > n THEN n + 1 ELSE jobs
      rem      == (n % num) + 1
      Taken(t) == t * (n \div num) + Min({t, rem})
  IN [t \in 1..num |-> [start |-> Wrap(test.start + Taken(t - 1)),
                        end   |-> Wrap(test.start - 1 + Taken(t))]]

RandomShares(test, jobs) ==
  LET n        == test.num_values
      num      == Min({jobs, n})
      Taken(t) == t * (n \div num) + Min({t, n % num})
  IN [t \in 1..num |-> [num_values |-> Taken(t) - Taken(t - 1),
                        seed       |-> Wrap(global_seed + Taken(t - 1))]]

Shares(test, jobs) == CASE test.type = "simple" -> <<[start |-> 0, end |-> 0]>>
                        [] test.type = "range"  -> RangeShares(test, jobs)
                        [] test.type = "random" -> RandomShares(test, jobs)

\* The inputs a worker calls its test with.
ShareInputs(test, share) ==
  IF test.type = "random" THEN {Wrap(share.seed + i) : i \in 1..share.num_values}
                          ELSE share.start..share.end

Whole(test) == CASE test.type = "simple" -> {0}
                 [] test.type = "range"  -> test.start..test.end
                 [] test.type = "random" -> {Wrap(global_seed + i) : i \in 1..test.num_values}

Workers == UNION {{t} \X DOMAIN shares[t] : t \in DOMAIN tests}
Succeeds(w) == culprit[w[1]] \notin ShareInputs(tests[w[1]], shares[w[1]][w[2]])

\* Mutant: the loop over the workers starts with the second.
QueuedFromSecond(t) == [j \in DOMAIN shares[t] |-> <<t, j + 1>>]

Queued(t) == [j \in DOMAIN shares[t] |-> <<t, j>>]

Init ==
  /\ \E suite \in Suites, args \in Filters : tests \in Selected(suite, args)
  /\ num_jobs \in 1..MaxJobs
  /\ culprit \in {c \in [DOMAIN tests -> Inputs64 \cup {Nothing}] :
                    \A t \in DOMAIN tests : c[t] \in Whole(tests[t]) \cup {Nothing}}
  /\ shares = [t \in DOMAIN tests |-> Shares(tests[t], num_jobs)]
  /\ queue = FlattenSeq([t \in DOMAIN tests |-> Queued(t)])
  /\ running = {} /\ printed = <<>> /\ status = "runs" /\ completed_cursor = 1
  /\ process = [w \in Workers |-> "queued"]
  /\ passed = [w \in Workers |-> FALSE]
  /\ num_workers_completed = [t \in DOMAIN tests |-> 0]

Loops == status = "runs" /\ completed_cursor <= Len(tests)

\* Mutant: one worker more than jobs.
MayStartOneMore == Loops /\ Cardinality(running) <= num_jobs /\ queue # <<>>

MayStart == Loops /\ Cardinality(running) < num_jobs /\ queue # <<>>

WorkerStart ==
  /\ MayStart
  /\ queue' = Tail(queue)
  /\ running' = running \cup {Head(queue)}
  /\ process' = [process EXCEPT ![Head(queue)] = "alive"]
  /\ UNCHANGED <<tests, culprit, num_jobs, shares, passed, num_workers_completed,
                 completed_cursor, printed, status>>

\* A worker's process returns from its test or crashes.
Exit(w) ==
  /\ process[w] = "alive"
  /\ process' = [process EXCEPT ![w] = IF Succeeds(w) THEN "succeeded" ELSE "failed"]
  /\ UNCHANGED <<tests, culprit, num_jobs, shares, queue, running, passed,
                 num_workers_completed, completed_cursor, printed, status>>

AllWorkersPassed(t, outcome) == \A j \in DOMAIN shares[t] : outcome[<<t, j>>]

\* Mutant: skips a test whose workers still run.
CompleteSkipping(from, completed) == {t \in from..Len(tests) : completed[t] = Len(shares[t])}

\* Mutant: the tests behind the one that ended wait for another worker to end.
CompleteOne(from, completed) ==
  {t \in {from} \cap DOMAIN tests : completed[t] = Len(shares[t])}

\* The tests from the cursor on whose workers have all ended.
Complete(from, completed) ==
  {t \in from..Len(tests) : \A u \in from..t : completed[u] = Len(shares[u])}

\* wait_for_workers: a worker of a negative test passes when it does not succeed.
Passed(w) == (process[w] = "succeeded") = tests[w[1]].should_succeed

\* wait4 returns any child that ended, which is removed from the list; the last worker
\* of a test lets the results that are due be printed.
WaitForWorker(w) ==
  /\ Loops /\ ~MayStart
  /\ w \in running /\ process[w] \in {"succeeded", "failed"}
  /\ LET t         == w[1]
         outcome   == [passed EXCEPT ![w] = Passed(w)]
         completed == [num_workers_completed EXCEPT ![t] = @ + 1]
         due       == IF completed[t] < Len(shares[t]) THEN {}
                      ELSE Complete(completed_cursor, completed)
     IN /\ passed' = outcome
        /\ num_workers_completed' = completed
        /\ completed_cursor' = completed_cursor + Cardinality(due)
        /\ printed' = printed \o [i \in 1..Cardinality(due) |->
                        LET u == completed_cursor + i - 1
                        IN [test |-> u, passed |-> AllWorkersPassed(u, outcome)]]
  /\ process' = [process EXCEPT ![w] = "reaped"]
  /\ running' = running \ {w}
  /\ UNCHANGED <<tests, culprit, num_jobs, shares, queue, status>>

Finish ==
  /\ status = "runs" /\ ~Loops
  /\ status' = IF \A i \in DOMAIN printed : printed[i].passed THEN "EXIT_SUCCESS" ELSE "EXIT_FAILURE"
  /\ UNCHANGED <<tests, culprit, num_jobs, shares, queue, running, process, passed,
                 num_workers_completed, completed_cursor, printed>>

Run == WorkerStart \/ (\E w \in Workers : WaitForWorker(w)) \/ Finish

Done == status # "runs" /\ UNCHANGED vars

Next == Run \/ (\E w \in Workers : Exit(w)) \/ Done

\* The runner goes on, and every test ends.
Fairness == WF_vars(Run) /\ WF_vars(\E w \in Workers : Exit(w))

Spec == Init /\ [][Next]_vars /\ Fairness
-----------------------------------------------------------------------------
TypeOK ==
  /\ num_jobs \in 1..MaxJobs /\ status \in {"runs", "EXIT_SUCCESS", "EXIT_FAILURE"}
  /\ queue \in Seq(Workers) /\ running \subseteq Workers
  /\ process \in [Workers -> {"queued", "alive", "succeeded", "failed", "reaped"}]
  /\ passed \in [Workers -> BOOLEAN]
  /\ \A t \in DOMAIN tests : num_workers_completed[t] \in 0..Len(shares[t])
  /\ completed_cursor \in 1..Len(tests) + 1

\* However many jobs there are and wherever a range or a seed wraps around, every input
\* of a test is in the share of exactly one worker, and no worker is idle.
WorkTiled ==
  \A t \in DOMAIN tests :
    /\ shares[t] # <<>> /\ Len(shares[t]) <= num_jobs
    /\ UNION {ShareInputs(tests[t], shares[t][j]) : j \in DOMAIN shares[t]} = Whole(tests[t])
    /\ \A i, j \in DOMAIN shares[t] :
         i # j => ShareInputs(tests[t], shares[t][i]) \cap ShareInputs(tests[t], shares[t][j]) = {}
    /\ \A i \in DOMAIN shares[t] : ShareInputs(tests[t], shares[t][i]) # {}

\* The list of running workers names the children of the runner, at most num_jobs; it
\* is empty while tests are missing only as long as more workers can be started.
PoolExact ==
  /\ running = {w \in Workers : process[w] \in {"alive", "succeeded", "failed"}}
  /\ ToSet(queue) = {w \in Workers : process[w] = "queued"}
  /\ Cardinality(running) <= num_jobs
  /\ Loops => running # {} \/ queue # <<>>

\* What is printed is in the order of the tests, each once and after its last worker
\* ended, and is the verdict a single process that runs the whole test would come to;
\* the exit status tells whether all passed.
ReportExact ==
  /\ \A i \in DOMAIN printed :
       /\ printed[i].test = i
       /\ \A j \in DOMAIN shares[i] : process[<<i, j>>] = "reaped"
       /\ printed[i].passed <=> (culprit[i] = Nothing) = tests[i].should_succeed
  /\ status # "runs" =>
       /\ Len(printed) = Len(tests)
       /\ (status = "EXIT_SUCCESS") <=>
            \A t \in DOMAIN tests : (culprit[t] = Nothing) = tests[t].should_succeed

\* Every run ends, with the result of every selected test.
AllReported == <>(status # "runs" /\ Len(printed) = Len(tests))
=============================================================================
