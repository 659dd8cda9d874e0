---------------------------- MODULE XorScanPasses ----------------------------
(***************************************************************************)
(* The three kernels of XorScan launched on one stream, as                 *)
(* gp4LaunchOriginal and the three hierarchy launchers do                  *)
(* (benchmarks/gpjson/include/original_gpjson.cuh, hierarchical_common.cuh)*)
(* over an array of any parities.  The threads of a kernel run in any      *)
(* order, in place.                                                        *)
(***************************************************************************)
EXTENDS XorScan

CONSTANT MaxItems         \* bound: parities before padding

MaxItemsAssumption == MaxItems \in Nat \ {0}

VARIABLES
  parities,    \* the array the first kernel is given
  kernel,      \* "prescan", "postscan", "rebase", or "done"
  pending      \* its threads that have not run yet

vars == <<values, bases, parities, kernel, pending>>

\* The entries the kernels are launched on.
Count == Cardinality(DOMAIN parities)

Init ==
  /\ \E items \in 1 .. MaxItems : parities \in [0 .. PaddedScanCount(items) - 1 -> {0, 1}]
  /\ values = parities
  /\ bases \in {[t \in ScanLanes |-> garbage] : garbage \in {0, 1}}
  /\ kernel = "prescan" /\ pending = ScanLanes

Pre(t) ==
  /\ kernel = "prescan" /\ t \in pending
  /\ PreScan(t, Count)
  /\ pending' = pending \ {t}
  /\ UNCHANGED <<parities, kernel>>

Post ==
  /\ kernel = "prescan" /\ pending = {}
  /\ PostScan(Count)
  /\ kernel' = "rebase" /\ pending' = ScanLanes
  /\ UNCHANGED parities

Re(t) ==
  /\ kernel = "rebase" /\ t \in pending
  /\ Rebase(t, Count)
  /\ pending' = pending \ {t}
  /\ UNCHANGED <<parities, kernel>>

Next == Post \/ \E t \in ScanLanes : Pre(t) \/ Re(t)

Spec == Init /\ [][Next]_vars

-----------------------------------------------------------------------------
Done == kernel = "rebase" /\ pending = {}

TypeOK ==
  /\ parities \in [0 .. Count - 1 -> {0, 1}]
  /\ values \in [0 .. Count - 1 -> {0, 1}]
  /\ bases \in [ScanLanes -> {0, 1}]
  /\ kernel \in {"prescan", "rebase"} /\ pending \subseteq ScanLanes

\* gp4OriginalXorPostScanKernel indexes the array without comparing the index
\* with count: the last value of every run it reads exists.
RunEndsExist ==
  \A k \in 0 .. ScanThreads - 2 :
    ValuesPerThread(Count) * (k + 1) - 1 \in DOMAIN values

\* Between the two passes every thread's run holds its own prefixes: no thread
\* has scanned or rebased an entry of another.
PartialScan ==
  kernel = "prescan" =>
    \A i \in DOMAIN values :
      values[i] = IF i \div ValuesPerThread(Count) \in pending
                  THEN parities[i]
                  ELSE XorOver(parities, (i \div ValuesPerThread(Count)) * ValuesPerThread(Count), i)

\* The kernels leave the inclusive prefix XOR of the array.
ScanIsPrefixXor ==
  Done => \A i \in DOMAIN values : values[i] = XorOver(parities, 0, i)

=============================================================================
