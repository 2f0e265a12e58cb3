---------------------------- MODULE MCSequential ----------------------------
(* Headers that change twice as a string grows to its bound, arrays that    *)
(* grow and shrink, rings whose counters wrap around, arrays that every     *)
(* branch of the sort is taken for, and numbers at the limits of types.     *)
EXTENDS Sequential

MCKinds   == {"dstring", "array", "dbuf", "heap", "sort", "cbuf", "mbuf", "bitmap", "uint128",
              "random", "charconv"}
OnlyDstring == {"dstring"}

\* The first one brings the sort to its heapsort; the second has no element twice, the
\* third has only three different ones.
MCLongInputs == {<<1, 3, 30, 5, 13, 15, 20, 6, 23, 12, 7, 14, 9, 4, 27, 28, 31, 19, 8, 22, 21,
                   24, 18, 16, 10, 2, 17, 26, 25, 29, 11, 0>>,
                 [i \in 1..40 |-> (17 * i) % 41],
                 [i \in 1..40 |-> (17 * i) % 3]}

\* Numbers at the powers of the bases, and next to them, are where the digits change.
MCTypes   == [bits : {8, 16}, is_signed : BOOLEAN]
MCNumbers == {0, 1, 2, 7, 8, 9, 10, 15, 16, 35, 36, 63, 64, 80, 81, 99, 100, 127, 128, 129, 255, 256,
              999, 1000, 1001, 1295, 1296, 4096, 6561, 9999, 10000, 32767, 32768, 32769, 65534, 65535}
\* 0, 1, 7, the letters b, o and x, the capital X, the signs and the terminator
MCTyped   == {0, 1, 7, 11, 24, 33, 59, 70, 71, 72}
=============================================================================
