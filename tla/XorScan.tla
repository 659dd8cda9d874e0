------------------------------ MODULE XorScan -------------------------------
(***************************************************************************)
(* GPJSON's three-kernel prefix XOR over one parity per segment            *)
(* (benchmarks/gpjson/include/original_gpjson.cuh): every scan thread      *)
(* scans a run of consecutive values in place, one thread scans the last   *)
(* values of the runs, every scan thread adds its base to its run.  This   *)
(* module holds the three kernels as actions on the two arrays; the        *)
(* modules that launch them say when each runs.                            *)
(***************************************************************************)
EXTENDS Integers, FiniteSets

CONSTANT ScanThreads      \* GP4_SCAN_THREADS, the stride of the kernels

ScanThreadsAssumption == ScanThreads \in Nat \ {0}

VARIABLES values, bases

ScanLanes == 0 .. ScanThreads - 1

Xor(a, b) == (a + b) % 2

\* values[i] ^ ... ^ values[j]
XorOver(array, i, j) == Cardinality({k \in i .. j : array[k] = 1}) % 2

\* The word mapping's whole number of entries per scan thread; GP4_ORIGINAL_THREADS
\* is a multiple already.
PaddedScanCount(count) == ((count + ScanThreads - 1) \div ScanThreads) * ScanThreads

ValuesPerThread(count) == (count + ScanThreads - 1) \div ScanThreads

\* The indices thread t scans and rebases.
Run(t, count) ==
  {i \in 0 .. count - 1 : i \div ValuesPerThread(count) = t}

PreScan(t, count) ==
  /\ values' = [i \in DOMAIN values |->
                  IF i \in Run(t, count)
                  THEN XorOver(values, t * ValuesPerThread(count), i)
                  ELSE values[i]]
  /\ UNCHANGED bases

\* Mutant: the first value of every run.
RunTotals_First(count) ==
  [k \in 0 .. ScanThreads - 2 |-> values[ValuesPerThread(count) * k]]

\* The last value of every run but the last.
RunTotals(count) ==
  [k \in 0 .. ScanThreads - 2 |-> values[ValuesPerThread(count) * (k + 1) - 1]]

PostScan(count) ==
  /\ bases' = [t \in ScanLanes |-> XorOver(RunTotals(count), 0, t - 1)]
  /\ UNCHANGED values

Rebase(t, count) ==
  /\ values' = [i \in DOMAIN values |->
                  IF i \in Run(t, count) THEN Xor(values[i], bases[t]) ELSE values[i]]
  /\ UNCHANGED bases

=============================================================================
