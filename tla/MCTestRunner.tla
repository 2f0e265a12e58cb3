---------------------------- MODULE MCTestRunner ----------------------------
(* A failing and a passing simple test around a range up to the largest     *)
(* number, all numbers, and a stream of random numbers whose seed wraps.    *)
EXTENDS TestRunner

Simple(name, should_succeed) == [name |-> name, type |-> "simple", should_succeed |-> should_succeed]
RangeTest(name, start, end)  == [name |-> name, type |-> "range", should_succeed |-> TRUE,
                                 start |-> start, end |-> end]
RandomTest(name, num_values) == [name |-> name, type |-> "random", should_succeed |-> TRUE,
                                 num_values |-> num_values]

\* Registered in another order than their names have.
MCSuites == {<<RangeTest(2, 5, 7), Simple(1, FALSE), RandomTest(3, 3)>>,
             <<RangeTest(1, 0, 7), Simple(2, TRUE)>>,
             <<RandomTest(1, 5), RangeTest(3, 0, 0), Simple(2, TRUE)>>}

Match(names, reject) == [matches |-> names, reject |-> reject]
MCFilters == {<<>>, <<Match({1, 2}, FALSE), Match({2}, TRUE)>>, <<Match({2}, TRUE), Match({2, 3}, FALSE)>>}
=============================================================================
