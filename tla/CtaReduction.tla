---------------------------- MODULE CtaReduction ----------------------------
(***************************************************************************)
(* How the FASTQ baseline counts the newlines of a chunk                   *)
(* (fastq_count_mod_from_newline_cta_kernel): the threads of a CTA count   *)
(* the bytes they stride over, then add the counts up in shared memory,    *)
(* half of the threads resting after every round.  Between two barriers    *)
(* the threads run apart; the "+=" of a round reads two counts and writes  *)
(* one, and no other thread of the round touches either: one step.         *)
(***************************************************************************)
EXTENDS Integers, FiniteSets

CONSTANTS
  BlockSize,       \* BLOCK_SIZE
  Chunks         \* the masks of the chunks to count: functions 0 .. n-1 -> BOOLEAN

\* The static_assert of the baseline; every chunk has a byte.
ReductionAssumption ==
  /\ \E k \in 0 .. 10 : BlockSize = 2 ^ k
  /\ \A chunk \in Chunks :
       chunk \in [0 .. Cardinality(DOMAIN chunk) - 1 -> BOOLEAN] /\ DOMAIN chunk # {}

VARIABLES newline, pc, stride, sh, newline_count, chunk_mod

vars == <<newline, pc, stride, sh, newline_count, chunk_mod>>

Tids == 0 .. BlockSize - 1

NotRun == -1

Init ==
  /\ newline \in Chunks
  /\ pc = [t \in Tids |-> "count"]
  /\ stride = [t \in Tids |-> BlockSize \div 2]
  /\ \E garbage \in {0, 7} : sh = [t \in Tids |-> garbage]
  /\ newline_count = NotRun /\ chunk_mod = NotRun

StridedOver(t) == {i \in DOMAIN newline : i % BlockSize = t}

Count(t) ==
  /\ pc[t] = "count"
  /\ sh' = [sh EXCEPT ![t] = Cardinality({i \in StridedOver(t) : newline[i]})]
  /\ pc' = [pc EXCEPT ![t] = "counted"]
  /\ UNCHANGED <<newline, stride, newline_count, chunk_mod>>

\* The threads that wait for each other.
Together(barrier) == {Tids}

RoundsLeft(s) == s > 0

\* __syncthreads: after it the threads go on with a round of the stride they have.
Barrier(barrier) ==
  /\ \E group \in Together(barrier) :
       /\ \A t \in group : pc[t] = barrier
       /\ pc' = [t \in Tids |->
                   IF t \in group THEN (IF RoundsLeft(stride[t]) THEN "add" ELSE "publish")
                   ELSE pc[t]]
  /\ UNCHANGED <<newline, stride, sh, newline_count, chunk_mod>>

Add(t) ==
  /\ pc[t] = "add"
  /\ sh' = IF t < stride[t] THEN [sh EXCEPT ![t] = sh[t] + sh[t + stride[t]]] ELSE sh
  /\ stride' = [stride EXCEPT ![t] = @ \div 2]
  /\ pc' = [pc EXCEPT ![t] = "added"]
  /\ UNCHANGED <<newline, newline_count, chunk_mod>>

Publish(t) ==
  /\ pc[t] = "publish"
  /\ IF t = 0 THEN newline_count' = sh[0] /\ chunk_mod' = sh[0] % 4
              ELSE UNCHANGED <<newline_count, chunk_mod>>
  /\ pc' = [pc EXCEPT ![t] = "exit"]
  /\ UNCHANGED <<newline, stride, sh>>

Step(t) == Count(t) \/ Add(t) \/ Publish(t)

Next == (\E t \in Tids : Step(t)) \/ (\E barrier \in {"counted", "added"} : Barrier(barrier))

\* A resident CTA keeps running.  No thread spins.
Fairness == WF_vars(Next)

Spec == Init /\ [][Next]_vars /\ Fairness

-----------------------------------------------------------------------------
Total == Cardinality({i \in DOMAIN newline : newline[i]})

Sum(n) == LET sum[k \in 0 .. n] == IF k = 0 THEN 0 ELSE sum[k - 1] + sh[k - 1] IN sum[n]

\* The type of the shared counts and of the results.
TypeOK ==
  /\ pc \in [Tids -> {"count", "counted", "add", "added", "publish", "exit"}]
  /\ stride \in [Tids -> 0 .. BlockSize]
  /\ sh \in [Tids -> Nat]
  /\ newline_count \in {NotRun} \cup 0 .. Total /\ chunk_mod \in {NotRun} \cup 0 .. 3

\* No newline is lost or counted twice while the rounds run: at a barrier the counts of
\* the threads that go on add up to the newlines of the chunk.
RoundsKeepTheSum ==
  /\ (\A t \in Tids : pc[t] = "counted") => Sum(BlockSize) = Total
  /\ \A s \in {stride[t] : t \in Tids} :
       (\A t \in Tids : pc[t] = "added" /\ stride[t] = s) => Sum(IF s = 0 THEN 1 ELSE 2 * s) = Total

\* What the kernel leaves in global memory is the number of newlines of the chunk, and
\* that number modulo four.
PublishedCount ==
  newline_count # NotRun => newline_count = Total /\ chunk_mod = Total % 4

Counted == newline_count # NotRun /\ \A t \in Tids : pc[t] = "exit"

=============================================================================
