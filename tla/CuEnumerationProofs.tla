------------------------ MODULE CuEnumerationProofs -------------------------
(***************************************************************************)
(* Proofs about the cuJSON per-thread enumeration kernel, for every batch, *)
(* CTA size, number of resident CTAs and number of launches.               *)
(***************************************************************************)
EXTENDS CuEnumeration, JsonLemmas

-----------------------------------------------------------------------------
(***************************************************************************)
(* The layout main() computes: words, chunks and the task list.            *)
(***************************************************************************)

\* Row-major indices: in range, and no two pairs share one.
LEMMA RowMajor ==
  ASSUME NEW n \in Nat, NEW T \in Nat \ {0},
         NEW a \in 0 .. n - 1, NEW s \in 0 .. T - 1
  PROVE  /\ a * T \in Nat
         /\ a * T + s \in 0 .. n * T - 1
         /\ \A b \in 0 .. n - 1, t \in 0 .. T - 1 :
              a * T + s = b * T + t => a = b /\ s = t
<1>0. a \in Nat /\ s \in Nat /\ s <= T - 1 /\ a <= n - 1 /\ T \in Nat
  OBVIOUS
<1>1. \A x, y \in Nat : x < y => x * T + T <= y * T
  <2> SUFFICES ASSUME NEW x \in Nat, NEW y \in Nat, x < y
               PROVE  x * T + T <= y * T
    OBVIOUS
  <2>1. PICK d \in Nat : y = x + 1 + d
    <3>1. y - x - 1 \in Nat /\ y = x + 1 + (y - x - 1)
      OBVIOUS
    <3> QED BY <3>1
  <2>2. y * T = x * T + T + d * T /\ d * T \in Nat /\ x * T \in Nat
    BY <2>1
  <2> QED BY <2>2
<1>2. \A x \in Nat : x * T \in Nat
  OBVIOUS
<1>3. a * T + T <= n * T
  BY <1>0, <1>1
<1>4. ASSUME NEW b \in 0 .. n - 1, NEW t \in 0 .. T - 1, a * T + s = b * T + t
      PROVE  a = b /\ s = t
  <2>1. ~(a < b) /\ ~(b < a)
    BY <1>0, <1>1, <1>2, <1>4
  <2> QED BY <2>1, <1>4, <1>2
<1> QED BY <1>0, <1>2, <1>3, <1>4

LEMMA BatchFacts ==
  ASSUME NEW b \in Batches
  PROVE  /\ Len(b) \in Nat \ {0} /\ DOMAIN b = 1 .. Len(b)
         /\ \A i \in DOMAIN b :
              IsText(b[i]) /\ WordCount(b[i]) \in Nat /\ ChunkCount(b[i]) \in Nat \ {0}
<1>1. Len(b) \in Nat \ {0} /\ DOMAIN b = 1 .. Len(b) /\ \A i \in DOMAIN b : IsText(b[i])
  BY BatchesAssumption
<1>2. ASSUME NEW i \in DOMAIN b
      PROVE  WordCount(b[i]) \in Nat
  <2>1. Size(b[i]) \in Nat /\ WordBytes \in Nat \ {0}
    BY <1>1, TextDomain, WordBytesAssumption
  <2> QED BY <2>1 DEF WordCount
<1>3. ASSUME NEW i \in DOMAIN b
      PROVE  ChunkCount(b[i]) \in Nat \ {0}
  <2>1. WordCount(b[i]) \in Nat /\ Threads \in Nat \ {0}
    BY <1>2, GeometryAssumption
  <2>2. ASSUME NEW n \in Nat
        PROVE  (n + 1 + Threads - 1) \div Threads \in Nat \ {0}
    BY <2>1
  <2> QED BY <2>1, <2>2 DEF ChunkCount
<1> QED BY <1>1, <1>2, <1>3

LEMMA TasksFinite ==
  ASSUME NEW b \in Batches
  PROVE  IsFiniteSet(Tasks(b)) /\ Cardinality(Tasks(b)) \in Nat
<1> DEFINE TasksOf(i) == [input: {i}, chunk: 0 .. ChunkCount(b[i]) - 1]
           F == [i \in DOMAIN b |-> TasksOf(i)]
           All == {TasksOf(i) : i \in DOMAIN b}
<1>1. ASSUME NEW i \in DOMAIN b
      PROVE  IsFiniteSet(TasksOf(i))
  <2> DEFINE C == 0 .. ChunkCount(b[i]) - 1
             G == [k \in C |-> [input |-> i, chunk |-> k]]
  <2>1. IsFiniteSet(C)
    BY BatchFacts, FS_Interval
  <2>2. G \in Surjection(C, TasksOf(i))
    <3>1. G \in [C -> TasksOf(i)]
      OBVIOUS
    <3>2. ASSUME NEW t \in TasksOf(i) PROVE \E k \in C : G[k] = t
      <4>1. t.chunk \in C /\ t = [input |-> i, chunk |-> t.chunk]
        OBVIOUS
      <4> QED BY <4>1
    <3> QED BY <3>1, <3>2 DEF Surjection
  <2> QED BY <2>1, <2>2, FS_Surjection
<1>2. IsFiniteSet(DOMAIN b)
  BY BatchFacts, FS_Interval
<1>3. F \in Surjection(DOMAIN b, All)
  BY DEF Surjection
<1>4. IsFiniteSet(All)
  BY <1>2, <1>3, FS_Surjection
<1>5. IsFiniteSet(UNION All)
  BY <1>1, <1>4, FS_UNION
<1>6. Tasks(b) = UNION All
  BY DEF Tasks
<1> QED BY <1>5, <1>6, FS_CardinalityType

-----------------------------------------------------------------------------
(***************************************************************************)
(* The task list assigns every word of a chunk to one lane of one task.    *)
(***************************************************************************)
Layout ==
  /\ batch \in Batches
  /\ tasks \in Positions
  /\ IsTaskList(tasks, batch)

LEMMA TaskListFacts ==
  ASSUME Layout
  PROVE  /\ TaskCount \in Nat
         /\ DOMAIN tasks = 0 .. TaskCount - 1
         /\ \A p \in 0 .. TaskCount - 1 :
              /\ tasks[p].input \in DOMAIN batch
              /\ tasks[p].chunk \in 0 .. ChunkCount(batch[tasks[p].input]) - 1
              /\ \A t \in Lanes : Word(p, t) \in Words(batch)
<1> DEFINE N == Cardinality(Tasks(batch))
<1>1. batch \in Batches /\ N \in Nat
  BY TasksFinite DEF Layout
<1>2. tasks \in [0 .. N - 1 -> Tasks(batch)]
  BY DEF Layout, Positions
<1>3. TaskCount = N /\ DOMAIN tasks = 0 .. N - 1
  <2>1. DOMAIN tasks = 0 .. N - 1
    BY <1>2
  <2>2. Cardinality(0 .. N - 1) = N
    BY <1>1, FS_Interval
  <2> QED BY <2>1, <2>2 DEF TaskCount
<1>4. ASSUME NEW p \in 0 .. N - 1
      PROVE  /\ tasks[p].input \in DOMAIN batch
             /\ tasks[p].chunk \in 0 .. ChunkCount(batch[tasks[p].input]) - 1
  <2>1. tasks[p] \in Tasks(batch)
    BY <1>2
  <2> QED BY <2>1 DEF Tasks
<1>5. ASSUME NEW p \in 0 .. N - 1, NEW t \in Lanes
      PROVE  Word(p, t) \in Words(batch)
  <2> DEFINE i == tasks[p].input
             n == ChunkCount(batch[i])
  <2>1. i \in DOMAIN batch /\ n \in Nat /\ tasks[p].chunk \in 0 .. n - 1
    BY <1>1, <1>4, BatchFacts
  <2>2. t \in 0 .. Threads - 1 /\ Threads \in Nat \ {0}
    BY GeometryAssumption DEF Lanes
  <2>3. tasks[p].chunk * Threads + t \in 0 .. n * Threads - 1
    BY <2>1, <2>2, RowMajor
  <2> QED BY <2>1, <2>3 DEF Word, Words, PaddedWords
<1> QED BY <1>1, <1>3, <1>4, <1>5

LEMMA WordFacts ==
  ASSUME Layout, NEW w \in Words(batch)
  PROVE  /\ w = <<w[1], w[2]>> /\ w[1] \in DOMAIN batch /\ w[2] \in Nat
         /\ w[2] # 0 => w[2] - 1 \in Nat /\ Back(w, 1) \in Words(batch)
         /\ \A k \in 0 .. w[2] : <<w[1], k>> \in Words(batch)
<1>1. PICK i \in DOMAIN batch : w \in {i} \X (0 .. PaddedWords(batch[i]) - 1)
  BY DEF Words
<1>2. PaddedWords(batch[i]) \in Nat
  BY BatchFacts, GeometryAssumption DEF Layout, PaddedWords
<1>3. w = <<i, w[2]>> /\ w[1] = i /\ w[2] \in 0 .. PaddedWords(batch[i]) - 1
  BY <1>1
<1>4. \A k \in 0 .. w[2] : <<w[1], k>> \in Words(batch)
  BY <1>2, <1>3 DEF Words
<1> QED BY <1>2, <1>3, <1>4 DEF Back

LEMMA WordsAreDistinct ==
  ASSUME Layout,
         NEW p \in 0 .. TaskCount - 1, NEW q \in 0 .. TaskCount - 1,
         NEW s \in Lanes, NEW t \in Lanes,
         Word(p, s) = Word(q, t)
  PROVE  p = q /\ s = t
<1> DEFINE i == tasks[p].input
           n == ChunkCount(batch[i])
<1>1. /\ tasks[q].input = i
      /\ tasks[p].chunk * Threads + s = tasks[q].chunk * Threads + t
  BY DEF Word
<1>2. i \in DOMAIN batch /\ tasks[p].chunk \in 0 .. n - 1 /\ tasks[q].chunk \in 0 .. n - 1
  BY <1>1, TaskListFacts
<1>3. n \in Nat /\ Threads \in Nat \ {0} /\ s \in 0 .. Threads - 1 /\ t \in 0 .. Threads - 1
  BY <1>2, BatchFacts, GeometryAssumption DEF Layout, Lanes
<1>4. tasks[p].chunk = tasks[q].chunk /\ s = t
  <2> DEFINE a == tasks[p].chunk
             b == tasks[q].chunk
  <2>1. a \in 0 .. n - 1 /\ b \in 0 .. n - 1 /\ a * Threads + s = b * Threads + t
    BY <1>1, <1>2
  <2> HIDE DEF a, b, n
  <2>2. a = b /\ s = t
    BY <2>1, <1>3, RowMajor
  <2> QED BY <2>2 DEF a, b
<1>5. ~Precedes(tasks[p], tasks[q]) /\ ~Precedes(tasks[q], tasks[p])
  <2>1. i \in Nat /\ tasks[p].chunk \in Nat
    BY <1>2, BatchFacts DEF Layout
  <2> QED BY <1>1, <1>4, <2>1 DEF Precedes
<1>6. p \in DOMAIN tasks /\ q \in DOMAIN tasks /\ TaskCount \in Nat
  BY TaskListFacts
<1>7. ~(p < q) /\ ~(q < p)
  BY <1>5, <1>6 DEF Layout, IsTaskList
<1> QED BY <1>4, <1>6, <1>7

-----------------------------------------------------------------------------
(***************************************************************************)
(* Type correctness.                                                       *)
(***************************************************************************)
LEMMA WordTypes ==
  /\ \A text, w : /\ SlashWord(text, w) \in SUBSET Bits
                  /\ QuoteWord(text, w) \in SUBSET Bits
                  /\ OperatorWord(text, w) \in SUBSET Bits
                  /\ OpenCloseWord(text, w) \in SUBSET Bits
  /\ \A quote \in SUBSET Bits : \A slash, n :
       FilterEscapedQuotes(quote, slash, n) \in SUBSET Bits
  /\ \A quote, incoming : InStringCandidate(quote, incoming) \in SUBSET Bits
BY DEF SlashWord, QuoteWord, OperatorWord, OpenCloseWord, BitsWhere,
       FilterEscapedQuotes, InStringCandidate, Invert, PrefixXor

LEMMA EpochFacts ==
  /\ Warmups + Runs \in Nat
  /\ \A n \in 1 .. Warmups + Runs : EpochOfLaunch(n) \in 1 .. MaxEpoch
  /\ \A m, n \in 1 .. Warmups + Runs : m # n => EpochOfLaunch(m) # EpochOfLaunch(n)
BY EpochAssumption DEF EpochOfLaunch

TypeInv == TypeOK /\ Layout

LEMMA TypeInit == Init => TypeInv
<1> SUFFICES ASSUME Init PROVE TypeInv
  OBVIOUS
<1>1. Layout
  BY DEF Init, Layout, Positions
<1>2. <<1, 0>> \in Words(batch)
  <2>1. 1 \in DOMAIN batch /\ ChunkCount(batch[1]) \in Nat \ {0} /\ Threads \in Nat \ {0}
    BY <1>1, BatchFacts, GeometryAssumption DEF Layout
  <2>2. 0 * Threads + 0 \in 0 .. PaddedWords(batch[1]) - 1
    BY <2>1, RowMajor DEF PaddedWords
  <2> QED BY <2>1, <2>2 DEF Words
<1>3. launch \in 0 .. Warmups + Runs /\ epoch \in 0 .. MaxEpoch /\ 0 \in 0 .. MaxEpoch
  BY EpochAssumption DEF Init
<1>4. {} \in SUBSET Bits /\ Bits \in SUBSET Bits
  OBVIOUS
<1>5. /\ slash_bitmap \in [Words(batch) -> SUBSET Bits]
      /\ in_string_bitmap \in [Words(batch) -> SUBSET Bits]
      /\ structural_bitmap \in [Words(batch) -> SUBSET Bits]
      /\ open_close_bitmap \in [Words(batch) -> SUBSET Bits]
      /\ utf_errors \in [DOMAIN batch -> BOOLEAN]
  BY <1>4 DEF Init
<1>6. /\ classify_ready \in [Words(batch) -> 0 .. MaxEpoch]
      /\ in_string_ready \in [Words(batch) -> 0 .. MaxEpoch]
  BY <1>3 DEF Init
<1>7. wrote \in [Words(batch) -> [slash: Nat, string: Nat]]
  BY DEF Init
<1>8. /\ pc \in [Ctas \X Lanes -> PcValues]
      /\ word \in [Ctas \X Lanes -> Words(batch)]
      /\ previous \in [Ctas \X Lanes -> Int]
      /\ real_quote \in [Ctas \X Lanes -> SUBSET Bits]
      /\ published \in [Ctas \X Lanes -> BOOLEAN]
  BY <1>2, <1>4 DEF Init, PcValues
<1>9. next_task \in Nat /\ task_position \in [Ctas -> Nat]
  BY DEF Init
<1> QED BY <1>1, <1>3, <1>5, <1>6, <1>7, <1>8, <1>9 DEF TypeInv, TypeOK, Layout

LEMMA TypeStep == TypeInv /\ [Next]_vars => TypeInv'
<1> SUFFICES ASSUME TypeInv, [Next]_vars PROVE TypeInv'
  OBVIOUS
<1> USE DEF TypeInv, host, classify, strings, outputs, locals, tickets
<1>0. Layout /\ TypeOK
  OBVIOUS
<1>1. UNCHANGED <<batch, tasks>> => Layout'
  BY DEF Layout, Positions, IsTaskList
<1>2. CASE Launch
  <2>1. EpochOfLaunch(launch + 1) \in 0 .. MaxEpoch /\ launch + 1 \in 0 .. Warmups + Runs
    BY <1>2, EpochFacts DEF Launch, TypeOK
  <2> QED BY <1>1, <1>2, <2>1 DEF Launch, TypeOK, PcValues, Layout
<1>3. ASSUME NEW c \in Ctas, FetchTask(c) PROVE TypeInv'
  <2>1. next_task' \in Nat /\ task_position' \in [Ctas -> Nat]
    BY <1>3 DEF FetchTask, AfterTicket, TypeOK
  <2>2. pc' \in [Ctas \X Lanes -> PcValues]
    BY <1>3 DEF FetchTask, TypeOK, PcValues
  <2> QED BY <1>1, <1>3, <2>1, <2>2 DEF FetchTask, TypeOK, Layout
<1>4. ASSUME NEW c \in Ctas, FetchBarrier(c) PROVE TypeInv'
  BY <1>1, <1>4 DEF FetchBarrier, Barrier, TypeOK, PcValues, Layout
<1>5. ASSUME NEW c \in Ctas, EndBarrier(c) PROVE TypeInv'
  BY <1>1, <1>5 DEF EndBarrier, Barrier, TypeOK, PcValues, Layout
<1>6. ASSUME NEW c \in Ctas, NEW n \in Warps, Vote(c, n) PROVE TypeInv'
  BY <1>1, <1>6 DEF Vote, TypeOK, PcValues, Layout
<1>7. ASSUME NEW c \in Ctas, NEW t \in Lanes, TakeTask(c, t) PROVE TypeInv'
  <2>1. task_position[c] \in Nat /\ TaskCount \in Nat
    BY <1>0, TaskListFacts DEF TypeOK
  <2>2. task_position[c] < TaskCount => Word(task_position[c], t) \in Words(batch)
    BY <1>0, <2>1, TaskListFacts
  <2>3. word' \in [Ctas \X Lanes -> Words(batch)]
    <3>1. CASE task_position[c] >= TaskCount
      BY <1>7, <3>1 DEF TakeTask, TypeOK
    <3>2. CASE ~(task_position[c] >= TaskCount)
      <4>1. word' = [word EXCEPT ![<<c, t>>] = Word(task_position[c], t)]
        BY <1>7, <3>2 DEF TakeTask
      <4> QED BY <2>1, <2>2, <3>2, <4>1 DEF TypeOK
    <3> QED BY <3>1, <3>2
  <2> QED BY <1>1, <1>7, <2>3 DEF TakeTask, TypeOK, PcValues, Layout
<1>8. ASSUME NEW c \in Ctas, NEW t \in Lanes, Classify(c, t) PROVE TypeInv'
  <2> DEFINE w == word[<<c, t>>]
  <2>1. Slashes(w) \in SUBSET Bits /\ OpenClosesOf(w) \in SUBSET Bits
    BY WordTypes DEF Slashes, OpenClosesOf
  <2>2. launch \in Nat
    BY EpochFacts DEF TypeOK
  <2>3. wrote' \in [Words(batch) -> [slash: Nat, string: Nat]]
    BY <1>8, <2>2 DEF Classify, TypeOK
  <2>4. /\ slash_bitmap' \in [Words(batch) -> SUBSET Bits]
        /\ open_close_bitmap' \in [Words(batch) -> SUBSET Bits]
    BY <1>8, <2>1 DEF Classify, TypeOK
  <2>5. pc' \in [Ctas \X Lanes -> PcValues]
    BY <1>8 DEF Classify, TypeOK, PcValues
  <2>6. utf_errors' \in [DOMAIN batch' -> BOOLEAN]
    BY <1>8 DEF Classify, TypeOK, Flagged
  <2> QED BY <1>1, <1>8, <2>3, <2>4, <2>5, <2>6 DEF Classify, TypeOK, Layout
<1>9. ASSUME NEW c \in Ctas, NEW t \in Lanes, PublishClass(c, t) PROVE TypeInv'
  <2>1. word[<<c, t>>][2] \in Int
    BY <1>0, WordFacts DEF TypeOK
  <2>2. previous' \in [Ctas \X Lanes -> Int] /\ pc' \in [Ctas \X Lanes -> PcValues]
    BY <1>9, <2>1 DEF PublishClass, TypeOK, PcValues
  <2>3. classify_ready' \in [Words(batch) -> 0 .. MaxEpoch]
    BY <1>9 DEF PublishClass, TypeOK
  <2> QED BY <1>1, <1>9, <2>2, <2>3 DEF PublishClass, TypeOK, Layout
<1>10. ASSUME NEW c \in Ctas, NEW t \in Lanes, NEW n, SelectQuotes(c, t, n)
       PROVE  /\ real_quote' \in [Ctas \X Lanes -> SUBSET Bits]
              /\ published' \in [Ctas \X Lanes -> BOOLEAN]
              /\ pc' \in [Ctas \X Lanes -> PcValues]
  <2>1. Quotes(word[<<c, t>>]) \in SUBSET Bits
    BY WordTypes DEF Quotes
  <2> QED BY <1>10, <2>1, WordTypes DEF SelectQuotes, TypeOK, PcValues
<1>11. ASSUME NEW c \in Ctas, NEW t \in Lanes, NoIncomingSlash(c, t) PROVE TypeInv'
  BY <1>1, <1>10, <1>11 DEF NoIncomingSlash, TypeOK, Layout
<1>12. ASSUME NEW c \in Ctas, NEW t \in Lanes, Lookback(c, t) PROVE TypeInv'
  <2>1. previous' \in [Ctas \X Lanes -> Int]
    <3>1. \/ previous' = previous
          \/ previous' = [previous EXCEPT ![<<c, t>>] = previous[<<c, t>>] - 1]
      BY <1>12 DEF Lookback
    <3>2. previous[<<c, t>>] - 1 \in Int
      BY DEF TypeOK
    <3>3. CASE previous' = [previous EXCEPT ![<<c, t>>] = previous[<<c, t>>] - 1]
      BY <3>2, <3>3 DEF TypeOK
    <3> QED BY <3>1, <3>3 DEF TypeOK
  <2>2. /\ real_quote' \in [Ctas \X Lanes -> SUBSET Bits]
        /\ published' \in [Ctas \X Lanes -> BOOLEAN]
        /\ pc' \in [Ctas \X Lanes -> PcValues]
    BY <1>10, <1>12 DEF Lookback, TypeOK
  <2> QED BY <1>1, <1>12, <2>1, <2>2 DEF Lookback, TypeOK, Layout
<1>13. ASSUME NEW c \in Ctas, NEW t \in Lanes, SelectString(c, t) PROVE TypeInv'
  <2>1. launch \in Nat
    BY EpochFacts DEF TypeOK
  <2>2. wrote' \in [Words(batch) -> [slash: Nat, string: Nat]]
    BY <1>13, <2>1 DEF SelectString, TypeOK
  <2>3. in_string_bitmap' \in [Words(batch) -> SUBSET Bits]
    BY <1>13, WordTypes DEF SelectString, TypeOK
  <2>4. pc' \in [Ctas \X Lanes -> PcValues]
    BY <1>13 DEF SelectString, TypeOK, PcValues
  <2> QED BY <1>1, <1>13, <2>2, <2>3, <2>4 DEF SelectString, TypeOK, Layout
<1>14. ASSUME NEW c \in Ctas, NEW t \in Lanes, PublishString(c, t) PROVE TypeInv'
  BY <1>1, <1>14 DEF PublishString, TypeOK, PcValues, Layout
<1>15. ASSUME NEW c \in Ctas, NEW t \in Lanes, PollInVain(c, t) PROVE TypeInv'
  BY <1>1, <1>15 DEF PollInVain, TypeOK, PcValues, Layout
<1>16. ASSUME NEW c \in Ctas, NEW t \in Lanes, Filter(c, t) PROVE TypeInv'
  <2> DEFINE w == word[<<c, t>>]
  <2>1. w \in Words(batch)
    BY DEF TypeOK
  <2>2. /\ OperatorsOf(w) \ in_string_bitmap[w] \in SUBSET Bits
        /\ open_close_bitmap[w] \ in_string_bitmap[w] \in SUBSET Bits
    BY <2>1, WordTypes DEF TypeOK, OperatorsOf
  <2>3. /\ structural_bitmap' \in [Words(batch) -> SUBSET Bits]
        /\ open_close_bitmap' \in [Words(batch) -> SUBSET Bits]
    BY <1>16, <2>2 DEF Filter, TypeOK
  <2>4. pc' \in [Ctas \X Lanes -> PcValues]
    BY <1>16 DEF Filter, TypeOK, PcValues
  <2> QED BY <1>1, <1>16, <2>3, <2>4 DEF Filter, TypeOK, Layout
<1>17. CASE UNCHANGED vars
  BY <1>1, <1>17 DEF vars, TypeOK, Layout
<1> QED
  BY <1>2, <1>3, <1>4, <1>5, <1>6, <1>7, <1>8, <1>9, <1>11, <1>12, <1>13, <1>14,
     <1>15, <1>16, <1>17 DEF Next, CtaStep, ThreadStep

\* Every variable keeps its type; in particular no thread is ever given a word
\* outside its input, and no launch an epoch beyond MAX_EPOCH.
THEOREM EnumerationTypeOK == Spec => []TypeOK
<1>1. TypeInv => TypeOK
  BY DEF TypeInv
<1> QED BY <1>1, TypeInit, TypeStep, PTL DEF Spec

-----------------------------------------------------------------------------
(***************************************************************************)
(* Who works on which word.  The threads of a CTA go through the phases of *)
(* an iteration together, so they read the same ticket; two CTAs never     *)
(* hold the same ticket.                                                   *)
(***************************************************************************)
Phase(c) ==
  \/ pc[<<c, 0>>] = "fetch" /\ \A t \in Lanes \ {0} : pc[<<c, t>>] = "fetched"
  \/ \A t \in Lanes : pc[<<c, t>>] = "fetched"
  \/ task_position[c] >= TaskCount /\ \A t \in Lanes : pc[<<c, t>>] \in {"take", "exit"}
  \/ task_position[c] < TaskCount
     /\ \A t \in Lanes : pc[<<c, t>>] = "take" \/ Working(<<c, t>>)
  \/ \A t \in Lanes : pc[<<c, t>>] = "exit"

HasTicket(c) == pc[<<c, 0>>] \notin {"fetch", "exit"}

TicketsDiffer ==
  \A c \in Ctas : HasTicket(c) =>
    /\ task_position[c] < next_task
    /\ \A d \in Ctas : HasTicket(d) /\ c # d => task_position[c] # task_position[d]

WordAgrees ==
  \A c \in Ctas, t \in Lanes :
    Working(<<c, t>>) => word[<<c, t>>] = Word(task_position[c], t)

OwnInv ==
  /\ TypeInv
  /\ \A c \in Ctas : Phase(c)
  /\ TicketsDiffer
  /\ WordAgrees

LEMMA FirstLane == 0 \in Lanes
BY GeometryAssumption DEF Lanes

\* A step in which threads only move between the stages of the task they hold.
InnerStep ==
  /\ UNCHANGED <<batch, tasks, next_task, task_position, word>>
  /\ \A l \in Ctas \X Lanes : pc'[l] # pc[l] => Working(l) /\ Working(l)'

LEMMA InnerStepOwn ==
  ASSUME OwnInv, TypeInv', InnerStep
  PROVE  OwnInv'
<1>1. \A c \in Ctas, t \in Lanes :
        \/ pc'[<<c, t>>] = pc[<<c, t>>]
        \/ Working(<<c, t>>) /\ Working(<<c, t>>)'
  BY DEF InnerStep
<1>2. \A c \in Ctas, t \in Lanes : Working(<<c, t>>)' <=> Working(<<c, t>>)
  BY <1>1 DEF Working
<1>3. TaskCount' = TaskCount
  BY DEF InnerStep, TaskCount
<1>4. \A p, t : Word(p, t)' = Word(p, t)
  BY DEF InnerStep, Word
<1>5. ASSUME NEW c \in Ctas PROVE Phase(c)'
  <2>1. Phase(c)
    BY DEF OwnInv
  <2>2. task_position'[c] = task_position[c]
    BY DEF InnerStep
  <2> QED BY <1>1, <1>2, <1>3, <2>1, <2>2, FirstLane DEF Phase, Working
<1>6. \A c \in Ctas : HasTicket(c)' <=> HasTicket(c)
  BY <1>1, FirstLane DEF HasTicket, Working
<1>7. TicketsDiffer'
  BY <1>6 DEF OwnInv, TicketsDiffer, InnerStep
<1>8. WordAgrees'
  BY <1>2, <1>4 DEF OwnInv, WordAgrees, InnerStep
<1> QED BY <1>5, <1>7, <1>8 DEF OwnInv

LEMMA OwnInit == Init => OwnInv
<1> SUFFICES ASSUME Init PROVE OwnInv
  OBVIOUS
<1>1. \A c \in Ctas, t \in Lanes : pc[<<c, t>>] = "exit"
  BY DEF Init
<1> QED
  BY <1>1, TypeInit, FirstLane
     DEF OwnInv, Phase, TicketsDiffer, HasTicket, WordAgrees, Working

\* The stages a thread goes through while it holds a task.
LEMMA StagesAreInner ==
  ASSUME TypeInv
  PROVE  /\ \A c \in Ctas, t \in Lanes :
              ThreadStep(c, t) => TakeTask(c, t) \/ InnerStep
         /\ \A c \in Ctas, n \in Warps : Vote(c, n) => InnerStep
<1> USE DEF host, locals, tickets
<1>1. pc \in [Ctas \X Lanes -> PcValues]
  BY DEF TypeInv, TypeOK
<1>2. ASSUME NEW c \in Ctas, NEW t \in Lanes, NEW v,
             v \notin {"exit", "fetch", "fetched", "take"},
             pc[<<c, t>>] \notin {"exit", "fetch", "fetched", "take"},
             pc' = [pc EXCEPT ![<<c, t>>] = v]
      PROVE  \A l \in Ctas \X Lanes : pc'[l] # pc[l] => Working(l) /\ Working(l)'
  BY <1>1, <1>2 DEF Working
<1>3. ASSUME NEW c \in Ctas, NEW t \in Lanes
      PROVE  /\ Classify(c, t) => InnerStep
             /\ PublishClass(c, t) => InnerStep
             /\ SelectString(c, t) => InnerStep
             /\ PublishString(c, t) => InnerStep
             /\ PollInVain(c, t) => InnerStep
             /\ Filter(c, t) => InnerStep
  <2>1. Classify(c, t) => InnerStep
    BY <1>2 DEF Classify, InnerStep
  <2>2. PublishClass(c, t) => InnerStep
    <3> SUFFICES ASSUME PublishClass(c, t) PROVE InnerStep
      OBVIOUS
    <3>1. pc[<<c, t>>] = "classified" /\ pc' = [pc EXCEPT ![<<c, t>>] = "lookback"]
      BY DEF PublishClass
    <3>2. UNCHANGED <<batch, tasks, next_task, task_position, word>>
      BY DEF PublishClass
    <3> QED BY <1>2, <3>1, <3>2 DEF InnerStep
  <2>3. SelectString(c, t) => InnerStep
    <3> SUFFICES ASSUME SelectString(c, t) PROVE InnerStep
      OBVIOUS
    <3>1. pc[<<c, t>>] = "poll" /\ pc' = [pc EXCEPT ![<<c, t>>] = "selected"]
      BY DEF SelectString
    <3>2. UNCHANGED <<batch, tasks, next_task, task_position, word>>
      BY DEF SelectString
    <3> QED BY <1>2, <3>1, <3>2 DEF InnerStep
  <2>4. PublishString(c, t) => InnerStep
    BY ZenonT(40), <1>2 DEF PublishString, InnerStep
  <2>5. PollInVain(c, t) => InnerStep
    BY <1>2 DEF PollInVain, InnerStep
  <2>6. Filter(c, t) => InnerStep
    <3> SUFFICES ASSUME Filter(c, t) PROVE InnerStep
      OBVIOUS
    <3>1. pc[<<c, t>>] = "filter" /\ pc' = [pc EXCEPT ![<<c, t>>] = "filtered"]
      BY DEF Filter
    <3>2. UNCHANGED <<batch, tasks, next_task, task_position, word>>
      BY DEF Filter
    <3> QED BY <1>2, <3>1, <3>2 DEF InnerStep
  <2> QED BY <2>1, <2>2, <2>3, <2>4, <2>5, <2>6
<1>4. ASSUME NEW c \in Ctas, NEW t \in Lanes, NoIncomingSlash(c, t)
      PROVE  InnerStep
  BY <1>2, <1>4 DEF NoIncomingSlash, SelectQuotes, InnerStep
<1>5. ASSUME NEW c \in Ctas, NEW t \in Lanes, Lookback(c, t)
      PROVE  InnerStep
  <2>1. pc[<<c, t>>] = "lookback" /\ UNCHANGED <<host, word, tickets>>
    BY <1>5 DEF Lookback
  <2>2. pc' = pc \/ pc' = [pc EXCEPT ![<<c, t>>] = "poll"]
    BY <1>5 DEF Lookback, SelectQuotes
  <2> QED BY <1>2, <2>1, <2>2 DEF InnerStep
<1>6. ASSUME NEW c \in Ctas, NEW n \in Warps, Vote(c, n)
      PROVE  InnerStep
  <2>1. \A t \in Warp(n) : pc[<<c, t>>] = "vote"
    BY <1>6 DEF Vote
  <2>2. PICK v \in {"filter", "poll"} :
          pc' = [l \in Ctas \X Lanes |->
                   IF l[1] = c /\ l[2] \in Warp(n) THEN v ELSE pc[l]]
    BY <1>6 DEF Vote
  <2>3. \A l \in Ctas \X Lanes : pc'[l] # pc[l] => Working(l) /\ Working(l)'
    <3> SUFFICES ASSUME NEW a \in Ctas, NEW s \in Lanes, pc'[<<a, s>>] # pc[<<a, s>>]
                 PROVE  Working(<<a, s>>) /\ Working(<<a, s>>)'
      OBVIOUS
    <3>1. a = c /\ s \in Warp(n) /\ pc'[<<a, s>>] = v
      BY <2>2
    <3> QED BY <2>1, <3>1 DEF Working
  <2> QED BY <1>6, <2>3 DEF Vote, InnerStep
<1> QED BY <1>3, <1>4, <1>5, <1>6 DEF ThreadStep

LEMMA OwnStep == OwnInv /\ [Next]_vars => OwnInv'
<1> SUFFICES ASSUME OwnInv, [Next]_vars PROVE OwnInv'
  OBVIOUS
<1> USE DEF host, locals, tickets
<1>1. TypeInv /\ TypeInv' /\ 0 \in Lanes
  BY TypeStep, FirstLane DEF OwnInv
<1>2. /\ pc \in [Ctas \X Lanes -> PcValues] /\ word \in [Ctas \X Lanes -> Words(batch)]
      /\ task_position \in [Ctas -> Nat] /\ next_task \in Nat /\ TaskCount \in Nat
  BY <1>1, TaskListFacts DEF TypeInv, TypeOK
<1>3. UNCHANGED <<batch, tasks>> =>
        TaskCount' = TaskCount /\ \A p, t : Word(p, t)' = Word(p, t)
  BY DEF TaskCount, Word
<1>4. CASE Launch
  <2>1. \A c \in Ctas, t \in Lanes :
          /\ ~Working(<<c, t>>)'
          /\ pc'[<<c, t>>] = IF c > ResidentBlocks THEN "exit"
                             ELSE IF t = 0 THEN "fetch" ELSE "fetched"
    BY <1>4 DEF Launch, Working
  <2>2. \A c \in Ctas : Phase(c)'
    BY <2>1 DEF Phase
  <2>3. \A c \in Ctas : ~HasTicket(c)'
    BY <1>1, <2>1 DEF HasTicket
  <2> QED BY <1>1, <2>1, <2>2, <2>3 DEF OwnInv, TicketsDiffer, WordAgrees
<1>5. ASSUME NEW c \in Ctas, FetchTask(c) PROVE OwnInv'
  <2>1. /\ pc[<<c, 0>>] = "fetch" /\ pc' = [pc EXCEPT ![<<c, 0>>] = "fetched"]
        /\ task_position' = [task_position EXCEPT ![c] = next_task]
        /\ next_task' = next_task + 1
        /\ UNCHANGED <<batch, tasks, word>>
    BY <1>5 DEF FetchTask, AfterTicket
  <2>2. \A t \in Lanes : pc'[<<c, t>>] = "fetched"
    BY <1>1, <1>2, <2>1 DEF OwnInv, Phase, Working
  <2>3. \A d \in Ctas, t \in Lanes : d # c => pc'[<<d, t>>] = pc[<<d, t>>]
    BY <1>2, <2>1
  <2>4. ASSUME NEW d \in Ctas PROVE Phase(d)'
    BY <1>2, <1>3, <2>1, <2>2, <2>3, <1>1 DEF OwnInv, Phase, Working
  <2>5. TicketsDiffer'
    <3>1. \A d \in Ctas : d # c =>
            /\ HasTicket(d)' <=> HasTicket(d)
            /\ task_position'[d] = task_position[d] /\ task_position[d] \in Nat
      BY <1>1, <1>2, <2>1, <2>3 DEF HasTicket
    <3>2. \A d \in Ctas : HasTicket(d) => task_position[d] < next_task
      BY DEF OwnInv, TicketsDiffer
    <3>3. task_position'[c] = next_task
      BY <1>2, <2>1
    <3>4. \A d \in Ctas : HasTicket(d)' => task_position'[d] < next_task'
      BY <1>2, <2>1, <3>1, <3>2, <3>3
    <3>5. ASSUME NEW a \in Ctas, NEW b \in Ctas, HasTicket(a)', HasTicket(b)', a # b
          PROVE  task_position'[a] # task_position'[b]
      <4>1. CASE a # c /\ b # c
        BY <3>1, <3>5, <4>1 DEF OwnInv, TicketsDiffer
      <4>2. CASE a = c \/ b = c
        BY <1>2, <3>1, <3>2, <3>3, <3>5, <4>2
      <4> QED BY <4>1, <4>2
    <3> QED BY <3>4, <3>5 DEF TicketsDiffer
  <2>6. WordAgrees'
    BY <1>2, <1>3, <2>1, <2>2, <2>3 DEF OwnInv, WordAgrees, Working
  <2> QED BY <1>1, <2>4, <2>5, <2>6 DEF OwnInv
<1>6. ASSUME NEW c \in Ctas, FetchBarrier(c) PROVE OwnInv'
  <2>1. /\ \A t \in Lanes : pc[<<c, t>>] = "fetched" /\ pc'[<<c, t>>] = "take"
        /\ \A d \in Ctas, t \in Lanes : d # c => pc'[<<d, t>>] = pc[<<d, t>>]
        /\ UNCHANGED <<batch, tasks, word, next_task, task_position>>
    BY <1>6 DEF FetchBarrier, Barrier
  <2>2. ASSUME NEW d \in Ctas PROVE Phase(d)'
    <3>1. CASE d = c
      <4>1. task_position'[c] \in Nat /\ TaskCount' \in Nat
        BY <1>2, <1>3, <2>1
      <4> QED BY <2>1, <3>1, <4>1 DEF Phase
    <3>2. CASE d # c
      BY <1>1, <1>3, <2>1, <3>2 DEF OwnInv, Phase, Working
    <3> QED BY <3>1, <3>2
  <2>3. TicketsDiffer'
    BY <1>1, <2>1 DEF OwnInv, TicketsDiffer, HasTicket
  <2>4. WordAgrees'
    BY <1>3, <2>1 DEF OwnInv, WordAgrees, Working
  <2> QED BY <1>1, <2>2, <2>3, <2>4 DEF OwnInv
<1>7. ASSUME NEW c \in Ctas, EndBarrier(c) PROVE OwnInv'
  <2>1. /\ \A t \in Lanes : /\ pc[<<c, t>>] = "filtered"
                            /\ pc'[<<c, t>>] = IF t = 0 THEN "fetch" ELSE "fetched"
        /\ \A d \in Ctas, t \in Lanes : d # c => pc'[<<d, t>>] = pc[<<d, t>>]
        /\ UNCHANGED <<batch, tasks, word, next_task, task_position>>
    BY <1>7 DEF EndBarrier, Barrier
  <2>2. ASSUME NEW d \in Ctas PROVE Phase(d)'
    <3>1. CASE d = c
      BY <1>1, <2>1, <3>1 DEF Phase
    <3>2. CASE d # c
      BY <1>1, <1>3, <2>1, <3>2 DEF OwnInv, Phase, Working
    <3> QED BY <3>1, <3>2
  <2>3. TicketsDiffer'
    BY <1>1, <2>1 DEF OwnInv, TicketsDiffer, HasTicket
  <2>4. WordAgrees'
    BY <1>3, <2>1 DEF OwnInv, WordAgrees, Working
  <2> QED BY <1>1, <2>2, <2>3, <2>4 DEF OwnInv
<1>8. ASSUME NEW c \in Ctas, NEW t \in Lanes, TakeTask(c, t) PROVE OwnInv'
  <2>1. /\ pc[<<c, t>>] = "take" /\ UNCHANGED <<batch, tasks, next_task, task_position>>
        /\ \A d \in Ctas, s \in Lanes : <<d, s>> # <<c, t>> =>
             pc'[<<d, s>>] = pc[<<d, s>>] /\ word'[<<d, s>>] = word[<<d, s>>]
    BY <1>2, <1>8 DEF TakeTask
  <2>2. IF task_position[c] >= TaskCount THEN pc'[<<c, t>>] = "exit"
        ELSE pc'[<<c, t>>] = "classify" /\ word'[<<c, t>>] = Word(task_position[c], t)
    BY <1>2, <1>8 DEF TakeTask
  <2>3. Phase(c)'
    <3>1. \A s \in Lanes : IF task_position[c] >= TaskCount
                           THEN pc[<<c, s>>] \in {"take", "exit"}
                           ELSE pc[<<c, s>>] = "take" \/ Working(<<c, s>>)
      <4>1. Phase(c) /\ pc[<<c, t>>] = "take"
        BY <2>1 DEF OwnInv
      <4>2. task_position[c] \in Nat /\ TaskCount \in Nat
        BY <1>2
      <4> QED BY <1>1, <4>1, <4>2 DEF Phase
    <3>2. \A s \in Lanes : IF task_position[c] >= TaskCount
                           THEN pc'[<<c, s>>] \in {"take", "exit"}
                           ELSE pc'[<<c, s>>] = "take" \/ Working(<<c, s>>)'
      BY <2>1, <2>2, <3>1 DEF Working
    <3> QED BY <1>2, <1>3, <2>1, <3>2 DEF Phase
  <2>4. \A d \in Ctas : d # c => Phase(d)'
    BY <1>3, <2>1, <1>1 DEF OwnInv, Phase, Working
  <2>5. \A d \in Ctas : HasTicket(d)' => HasTicket(d)
    BY <1>1, <2>1 DEF HasTicket
  <2>6. TicketsDiffer'
    BY <2>1, <2>5 DEF OwnInv, TicketsDiffer
  <2>7. WordAgrees'
    BY <1>2, <1>3, <2>1, <2>2 DEF OwnInv, WordAgrees, Working
  <2> QED BY <1>1, <2>3, <2>4, <2>6, <2>7 DEF OwnInv
<1>9. ASSUME InnerStep PROVE OwnInv'
  BY <1>1, <1>9, InnerStepOwn
<1>10. CASE UNCHANGED vars
  BY <1>9, <1>10 DEF vars, InnerStep
<1>11. ASSUME NEW c \in Ctas, CtaStep(c) PROVE OwnInv'
  BY <1>1, <1>5, <1>6, <1>7, <1>9, <1>11, StagesAreInner DEF CtaStep
<1>12. ASSUME NEW c \in Ctas, NEW t \in Lanes, ThreadStep(c, t) PROVE OwnInv'
  BY <1>1, <1>8, <1>9, <1>12, StagesAreInner
<1> QED BY <1>4, <1>10, <1>11, <1>12 DEF Next

LEMMA OwnersDiffer ==
  ASSUME OwnInv PROVE OneOwner
<1> SUFFICES ASSUME NEW a \in Ctas, NEW s \in Lanes, NEW b \in Ctas, NEW t \in Lanes,
                    Working(<<a, s>>), Working(<<b, t>>), word[<<a, s>>] = word[<<b, t>>]
             PROVE  a = b /\ s = t
  BY DEF OneOwner
<1>1. \A c \in Ctas, l \in Lanes :
        Working(<<c, l>>) => HasTicket(c) /\ task_position[c] < TaskCount
  BY FirstLane DEF OwnInv, Phase, HasTicket, Working
<1>2. Word(task_position[a], s) = Word(task_position[b], t)
  BY DEF OwnInv, WordAgrees
<1>3. task_position[a] \in 0 .. TaskCount - 1 /\ task_position[b] \in 0 .. TaskCount - 1
  BY SMTT(30), <1>1, TaskListFacts DEF OwnInv, TypeInv, TypeOK
<1>4. task_position[a] = task_position[b] /\ s = t
  BY <1>2, <1>3, WordsAreDistinct DEF OwnInv, TypeInv
<1> QED BY <1>1, <1>4 DEF OwnInv, TicketsDiffer

\* No two threads of the device ever process the same word at the same time,
\* although the ticket of a CTA is read by each of its threads separately.
THEOREM EachWordHasOneOwner == Spec => []OneOwner
<1> QED BY OwnInit, OwnStep, OwnersDiffer, PTL DEF Spec

-----------------------------------------------------------------------------
(***************************************************************************)
(* What a flag certifies.  A flag holds zero or the epoch of a launch that *)
(* has started, so at a launch no flag equals the new epoch; after that    *)
(* only a thread that has stored its payload sets one.                     *)
(***************************************************************************)
Epochs ==
  /\ launch > 0 => epoch = EpochOfLaunch(launch)
  /\ \A l \in Ctas \X Lanes : pc[l] # "exit" => launch > 0

OfALaunch(flag) == flag = 0 \/ \E n \in 1 .. launch : flag = EpochOfLaunch(n)

FlagRange ==
  \A w \in Words(batch) :
    /\ OfALaunch(classify_ready[w]) /\ OfALaunch(in_string_ready[w])
    /\ wrote[w].slash <= launch /\ wrote[w].string <= launch

FlagsFollow ==
  launch > 0 =>
    \A w \in Words(batch) :
      /\ classify_ready[w] = epoch => wrote[w].slash = launch
      /\ in_string_ready[w] = epoch => wrote[w].string = launch

Payloads ==
  launch > 0 =>
    \A w \in Words(batch) :
      /\ wrote[w].slash = launch => slash_bitmap[w] = Slashes(w)
      /\ wrote[w].string = launch => in_string_bitmap[w] = InStringWord(Text(w), w[2])

\* Everything between the cursor and the word is a backslash.
LookedAt(l) ==
  /\ previous[l] \in -1 .. word[l][2] - 1
  /\ SlashesBetween(Text(word[l]), previous[l], word[l][2])

Selected(l) == real_quote[l] = RealQuoteWord(Text(word[l]), word[l][2])

StageOf(l) ==
  /\ Working(l) /\ pc[l] # "classify" => wrote[word[l]].slash = launch
  /\ pc[l] = "lookback" => LookedAt(l)
  /\ pc[l] \in {"poll", "selected", "vote", "filter", "filtered"} => Selected(l)
  /\ pc[l] = "selected" => wrote[word[l]].string = launch

FreshInv ==
  /\ TypeInv
  /\ Epochs
  /\ FlagRange
  /\ FlagsFollow
  /\ Payloads
  /\ \A c \in Ctas, t \in Lanes : StageOf(<<c, t>>)

LEMMA TextOfWord ==
  ASSUME Layout, NEW w \in Words(batch)
  PROVE  IsText(Text(w)) /\ w[2] \in Nat
BY WordFacts, BatchFacts DEF Layout, Text

LEMMA FreshInit == Init => FreshInv
<1> SUFFICES ASSUME Init PROVE FreshInv
  OBVIOUS
<1>1. launch = 0 /\ \A l \in Ctas \X Lanes : pc[l] = "exit"
  BY DEF Init
<1>2. \A w \in Words(batch) : /\ classify_ready[w] = 0 /\ in_string_ready[w] = 0
                              /\ wrote[w].slash = 0 /\ wrote[w].string = 0
  BY DEF Init
<1>3. Epochs /\ FlagRange /\ FlagsFollow /\ Payloads
  BY <1>1, <1>2 DEF Epochs, FlagRange, OfALaunch, FlagsFollow, Payloads
<1>4. \A c \in Ctas, t \in Lanes : StageOf(<<c, t>>)
  BY <1>1 DEF StageOf, Working
<1> QED BY <1>3, <1>4, TypeInit DEF FreshInv

\* A launch invalidates every flag, because no launch has had its epoch.
LEMMA FreshLaunch == FreshInv /\ TypeInv' /\ Launch => FreshInv'
<1> SUFFICES ASSUME FreshInv, TypeInv', Launch PROVE FreshInv'
  OBVIOUS
<1> USE DEF host, classify, strings, outputs, locals, tickets
<1>1. /\ launch \in 0 .. Warmups + Runs /\ launch' = launch + 1
      /\ launch' \in 1 .. Warmups + Runs /\ epoch' = EpochOfLaunch(launch')
      /\ UNCHANGED <<batch, classify, strings, wrote>>
  BY EpochFacts DEF Launch, FreshInv, TypeInv, TypeOK
<1>2. \A n \in 1 .. launch : EpochOfLaunch(n) # epoch'
  BY <1>1, EpochFacts
<1>3. epoch' # 0
  BY <1>1, EpochFacts
<1>4. ASSUME NEW flag, OfALaunch(flag)
      PROVE  OfALaunch(flag)' /\ flag # epoch'
  BY <1>1, <1>2, <1>3, <1>4 DEF OfALaunch
<1>5. /\ wrote \in [Words(batch) -> [slash: Nat, string: Nat]]
  BY DEF FreshInv, TypeInv, TypeOK
<1>6. FlagRange' /\ FlagsFollow' /\ Payloads'
  <2> SUFFICES ASSUME NEW w \in Words(batch)
               PROVE  /\ OfALaunch(classify_ready[w])' /\ OfALaunch(in_string_ready[w])'
                      /\ wrote'[w].slash <= launch' /\ wrote'[w].string <= launch'
                      /\ classify_ready'[w] # epoch' /\ in_string_ready'[w] # epoch'
                      /\ wrote'[w].slash # launch' /\ wrote'[w].string # launch'
    BY <1>1 DEF FlagRange, FlagsFollow, Payloads
  <2>1. /\ OfALaunch(classify_ready[w]) /\ OfALaunch(in_string_ready[w])
        /\ wrote[w].slash <= launch /\ wrote[w].string <= launch
        /\ wrote[w].slash \in Nat /\ wrote[w].string \in Nat
    BY <1>5 DEF FreshInv, FlagRange
  <2>2. \A flag : OfALaunch(flag) => OfALaunch(flag)' /\ flag # epoch'
    BY <1>4
  <2>3. /\ OfALaunch(classify_ready[w])' /\ OfALaunch(in_string_ready[w])'
        /\ classify_ready'[w] # epoch' /\ in_string_ready'[w] # epoch'
    BY <1>1, <2>1, <2>2 DEF OfALaunch
  <2> QED BY <1>1, <2>1, <2>3
<1>7. Epochs'
  BY <1>1 DEF Epochs
<1>8. \A c \in Ctas, t \in Lanes : pc'[<<c, t>>] \in {"exit", "fetch", "fetched"}
  BY DEF Launch
<1>9. \A c \in Ctas, t \in Lanes : StageOf(<<c, t>>)'
  BY <1>8 DEF StageOf, Working
<1> QED BY <1>6, <1>7, <1>9 DEF FreshInv

\* Steps that leave the payloads and flags alone.
Quiet ==
  /\ launch > 0
  /\ UNCHANGED <<batch, tasks, launch, epoch, slash_bitmap, classify_ready,
                 in_string_bitmap, in_string_ready, wrote>>
  /\ \A c \in Ctas, t \in Lanes :
       LET l == <<c, t>> IN
       \/ UNCHANGED <<pc[l], word[l], previous[l], real_quote[l]>>
       \/ pc'[l] \in {"exit", "fetch", "fetched", "take", "classify"}
       \/ /\ pc[l] \in {"poll", "vote", "filter"}
          /\ pc'[l] \in {"poll", "vote", "filter", "filtered"}
          /\ UNCHANGED <<word[l], real_quote[l]>>

LEMMA FreshQuiet == FreshInv /\ TypeInv' /\ Quiet => FreshInv'
<1> SUFFICES ASSUME FreshInv, TypeInv', Quiet PROVE FreshInv'
  OBVIOUS
<1>1. Epochs'
  BY DEF FreshInv, Quiet, Epochs
<1>2. FlagRange' /\ FlagsFollow' /\ Payloads'
  BY DEF FreshInv, Quiet, FlagRange, OfALaunch, FlagsFollow, Payloads, Slashes, Text
<1>3. ASSUME NEW c \in Ctas, NEW t \in Lanes
      PROVE  StageOf(<<c, t>>)'
  <2> DEFINE l == <<c, t>>
  <2>1. StageOf(l)
    BY DEF FreshInv
  <2>2. CASE UNCHANGED <<pc[l], word[l], previous[l], real_quote[l]>>
    BY <2>1, <2>2 DEF Quiet, StageOf, Working, LookedAt, Selected, Text
  <2>3. CASE pc'[l] \in {"exit", "fetch", "fetched", "take", "classify"}
    BY <2>3 DEF StageOf, Working
  <2>4. CASE /\ pc[l] \in {"poll", "vote", "filter"}
             /\ pc'[l] \in {"poll", "vote", "filter", "filtered"}
             /\ UNCHANGED <<word[l], real_quote[l]>>
    BY <2>1, <2>4 DEF Quiet, StageOf, Working, Selected, Text
  <2> QED BY <2>2, <2>3, <2>4 DEF Quiet
<1> QED BY <1>1, <1>2, <1>3 DEF FreshInv

LEMMA QuietActions ==
  ASSUME FreshInv
  PROVE  /\ \A c \in Ctas : FetchTask(c) \/ FetchBarrier(c) \/ EndBarrier(c) => Quiet
         /\ \A c \in Ctas, n \in Warps : Vote(c, n) => Quiet
         /\ \A c \in Ctas, t \in Lanes :
              TakeTask(c, t) \/ PollInVain(c, t) \/ Filter(c, t) => Quiet
<1> USE DEF host, classify, strings, outputs, locals, tickets
<1>1. /\ pc \in [Ctas \X Lanes -> PcValues] /\ word \in [Ctas \X Lanes -> Words(batch)]
      /\ 0 \in Lanes
      /\ \A c \in Ctas, t \in Lanes : pc[<<c, t>>] # "exit" => launch > 0
  BY FirstLane DEF FreshInv, TypeInv, TypeOK, Epochs
<1>2. ASSUME NEW c \in Ctas, FetchTask(c) PROVE Quiet
  BY <1>1, <1>2 DEF FetchTask, Quiet
<1>3. ASSUME NEW c \in Ctas, FetchBarrier(c) PROVE Quiet
  BY <1>1, <1>3 DEF FetchBarrier, Barrier, Quiet
<1>4. ASSUME NEW c \in Ctas, EndBarrier(c) PROVE Quiet
  BY <1>1, <1>4 DEF EndBarrier, Barrier, Quiet
<1>5. ASSUME NEW c \in Ctas, NEW n \in Warps, Vote(c, n) PROVE Quiet
  <2>1. /\ \A t \in Warp(n) : pc[<<c, t>>] = "vote"
        /\ UNCHANGED <<batch, tasks, launch, epoch, slash_bitmap, classify_ready,
                       in_string_bitmap, in_string_ready, wrote, word, previous, real_quote>>
    BY <1>5 DEF Vote
  <2>2. PICK v \in {"filter", "poll"} :
          pc' = [l \in Ctas \X Lanes |->
                   IF l[1] = c /\ l[2] \in Warp(n) THEN v ELSE pc[l]]
    BY <1>5 DEF Vote
  <2>3. \A d \in Ctas, s \in Lanes :
          pc'[<<d, s>>] = IF d = c /\ s \in Warp(n) THEN v ELSE pc[<<d, s>>]
    BY <2>2
  <2>4. launch > 0
    <3>1. n \in Warps /\ n * WarpSize \in Warp(n)
      <4>1. /\ Threads \in Nat \ {0} /\ WarpSize \in Nat \ {0} /\ Threads % WarpSize = 0
            /\ n \in 0 .. (Threads \div WarpSize) - 1
        BY GeometryAssumption DEF Warps
      <4>2. Threads = (Threads \div WarpSize) * WarpSize /\ Threads \div WarpSize \in Nat
        BY <4>1
      <4>3. n * WarpSize + 0 \in 0 .. Threads - 1
        <5>1. 0 \in 0 .. WarpSize - 1
          BY <4>1
        <5> QED BY <4>1, <4>2, <5>1, RowMajor
      <4>4. (n * WarpSize) \div WarpSize = n
        BY <4>1
      <4>5. n * WarpSize \in Nat
        BY <4>1
      <4> QED BY <4>3, <4>4, <4>5 DEF Warp, Lanes
    <3> QED BY <1>1, <2>1, <3>1 DEF Warp
  <2> QED BY <2>1, <2>3, <2>4 DEF Quiet
<1>6. ASSUME NEW c \in Ctas, NEW t \in Lanes, TakeTask(c, t) PROVE Quiet
  BY <1>1, <1>6 DEF TakeTask, Quiet
<1>7. ASSUME NEW c \in Ctas, NEW t \in Lanes, PollInVain(c, t) PROVE Quiet
  BY <1>1, <1>7 DEF PollInVain, Quiet
<1>8. ASSUME NEW c \in Ctas, NEW t \in Lanes, Filter(c, t) PROVE Quiet
  BY <1>1, <1>8 DEF Filter, Quiet
<1> QED BY <1>2, <1>3, <1>4, <1>5, <1>6, <1>7, <1>8

LEMMA FreshClassify ==
  ASSUME FreshInv, TypeInv', NEW c \in Ctas, NEW t \in Lanes, Classify(c, t)
  PROVE  FreshInv'
<1> USE DEF host, classify, strings, outputs, locals, tickets
<1> DEFINE l == <<c, t>>
           w == word[l]
<1>1. /\ pc[l] = "classify" /\ w \in Words(batch) /\ launch > 0 /\ launch \in Nat
      /\ pc \in [Ctas \X Lanes -> PcValues] /\ slash_bitmap \in [Words(batch) -> SUBSET Bits]
      /\ wrote \in [Words(batch) -> [slash: Nat, string: Nat]]
  BY EpochFacts DEF Classify, FreshInv, TypeInv, TypeOK, Epochs
<1>2. /\ UNCHANGED <<batch, tasks, launch, epoch, classify_ready, in_string_bitmap,
                     in_string_ready, word, previous, real_quote>>
      /\ pc' = [pc EXCEPT ![l] = "classified"]
      /\ slash_bitmap' = [slash_bitmap EXCEPT ![w] = Slashes(w)]
      /\ wrote' = [wrote EXCEPT ![w].slash = launch]
  BY DEF Classify
<1>3. \A v \in Words(batch) :
        /\ wrote'[v].slash = IF v = w THEN launch ELSE wrote[v].slash
        /\ wrote'[v].string = wrote[v].string
        /\ slash_bitmap'[v] = IF v = w THEN Slashes(w) ELSE slash_bitmap[v]
  BY <1>1, <1>2
<1>4. \A v : Slashes(v)' = Slashes(v) /\ Text(v)' = Text(v)
  BY <1>2 DEF Slashes, Text
<1>5. FlagRange'
  BY <1>1, <1>2, <1>3 DEF FreshInv, FlagRange, OfALaunch
<1>6. FlagsFollow' /\ Payloads'
  BY <1>1, <1>2, <1>3, <1>4 DEF FreshInv, FlagsFollow, Payloads
<1>7. Epochs'
  BY <1>1, <1>2 DEF FreshInv, Epochs
<1>8. ASSUME NEW d \in Ctas, NEW s \in Lanes PROVE StageOf(<<d, s>>)'
  <2>1. StageOf(<<d, s>>) /\ word[<<d, s>>] \in Words(batch)
    BY DEF FreshInv, TypeInv, TypeOK
  <2>2. CASE <<d, s>> = l
    BY <1>1, <1>2, <1>3, <2>2 DEF StageOf, Working
  <2>3. CASE <<d, s>> # l
    <3>1. pc'[<<d, s>>] = pc[<<d, s>>]
      BY <1>1, <1>2, <2>3
    <3> QED BY <1>2, <1>3, <1>4, <2>1, <3>1 DEF StageOf, Working, LookedAt, Selected
  <2> QED BY <2>2, <2>3
<1> QED BY <1>5, <1>6, <1>7, <1>8 DEF FreshInv

LEMMA FreshPublishClass ==
  ASSUME FreshInv, TypeInv', NEW c \in Ctas, NEW t \in Lanes, PublishClass(c, t)
  PROVE  FreshInv'
<1> USE DEF host, classify, strings, outputs, locals, tickets
<1> DEFINE l == <<c, t>>
           w == word[l]
<1>1. /\ pc[l] = "classified" /\ w \in Words(batch) /\ launch > 0 /\ launch \in Nat
      /\ pc \in [Ctas \X Lanes -> PcValues] /\ previous \in [Ctas \X Lanes -> Int]
      /\ classify_ready \in [Words(batch) -> 0 .. MaxEpoch]
      /\ wrote[w].slash = launch /\ epoch = EpochOfLaunch(launch)
  <2>1. /\ pc[l] = "classified" /\ w \in Words(batch) /\ launch \in Nat
        /\ pc \in [Ctas \X Lanes -> PcValues] /\ previous \in [Ctas \X Lanes -> Int]
        /\ classify_ready \in [Words(batch) -> 0 .. MaxEpoch]
    BY EpochFacts DEF PublishClass, FreshInv, TypeInv, TypeOK
  <2>2. StageOf(l) /\ launch > 0 /\ epoch = EpochOfLaunch(launch)
    BY <2>1 DEF FreshInv, Epochs
  <2> QED BY <2>1, <2>2 DEF StageOf, Working
<1>2. /\ UNCHANGED <<batch, tasks, launch, epoch, slash_bitmap, in_string_bitmap,
                     in_string_ready, word, real_quote, wrote>>
      /\ pc' = [pc EXCEPT ![l] = "lookback"]
      /\ previous' = [previous EXCEPT ![l] = w[2] - 1]
      /\ classify_ready' = [classify_ready EXCEPT ![w] = epoch]
  BY DEF PublishClass
<1>3. \A v \in Words(batch) :
        classify_ready'[v] = IF v = w THEN epoch ELSE classify_ready[v]
  BY <1>1, <1>2
<1>4. \A v : Slashes(v)' = Slashes(v) /\ Text(v)' = Text(v)
  BY <1>2 DEF Slashes, Text
<1>5. FlagRange'
  <2>1. OfALaunch(epoch)
    BY <1>1 DEF OfALaunch
  <2> QED BY <1>2, <1>3, <2>1 DEF FreshInv, FlagRange, OfALaunch
<1>6. FlagsFollow' /\ Payloads'
  BY <1>1, <1>2, <1>3, <1>4 DEF FreshInv, FlagsFollow, Payloads
<1>7. Epochs'
  BY <1>1, <1>2 DEF FreshInv, Epochs
<1>8. ASSUME NEW d \in Ctas, NEW s \in Lanes PROVE StageOf(<<d, s>>)'
  <2>1. StageOf(<<d, s>>)
    BY DEF FreshInv
  <2>2. CASE <<d, s>> = l
    <3>1. pc'[l] = "lookback" /\ previous'[l] = w[2] - 1 /\ w[2] \in Nat
      BY <1>1, <1>2, WordFacts DEF FreshInv, TypeInv
    <3>2. SlashesBetween(Text(w), w[2] - 1, w[2])
      <4>1. \A k \in Nat : (k - 1) + 1 = k /\ k * WordBytes \in Nat
        BY WordStart
      <4>2. \A text : \A k \in Nat : SlashesBetween(text, k - 1, k)
        BY <4>1 DEF SlashesBetween
      <4> QED BY <3>1, <4>2
    <3>3. LookedAt(l)'
      BY <1>2, <1>4, <3>1, <3>2 DEF LookedAt
    <3> QED BY <1>1, <1>2, <2>2, <3>1, <3>3 DEF StageOf, Working
  <2>3. CASE <<d, s>> # l
    <3>1. pc'[<<d, s>>] = pc[<<d, s>>] /\ previous'[<<d, s>>] = previous[<<d, s>>]
      BY <1>1, <1>2, <2>3
    <3> QED BY <1>2, <1>4, <2>1, <3>1 DEF StageOf, Working, LookedAt, Selected
  <2> QED BY <2>2, <2>3
<1> QED BY <1>5, <1>6, <1>7, <1>8 DEF FreshInv

\* The filter is selected by the parity the lookback has found.
LEMMA FreshSelectQuotes ==
  ASSUME FreshInv, TypeInv', NEW c \in Ctas, NEW t \in Lanes, NEW n \in {0, 1},
         pc[<<c, t>>] = "lookback", SelectQuotes(c, t, n),
         UNCHANGED <<host, classify, strings, outputs, word, previous, tickets, wrote>>,
         FilterEscapedQuotes(Quotes(word[<<c, t>>]), Slashes(word[<<c, t>>]), n)
           = RealQuoteWord(Text(word[<<c, t>>]), word[<<c, t>>][2])
  PROVE  FreshInv'
<1> USE DEF host, classify, strings, outputs, locals, tickets
<1> DEFINE l == <<c, t>>
           w == word[l]
<1>1. /\ w \in Words(batch) /\ launch > 0
      /\ pc \in [Ctas \X Lanes -> PcValues]
      /\ real_quote \in [Ctas \X Lanes -> SUBSET Bits]
  BY DEF FreshInv, TypeInv, TypeOK, Epochs
<1>2. wrote[w].slash = launch /\ slash_bitmap[w] = Slashes(w)
  <2>1. StageOf(l)
    BY DEF FreshInv
  <2>2. wrote[w].slash = launch
    BY <2>1 DEF StageOf, Working
  <2> QED BY <1>1, <2>2 DEF FreshInv, Payloads
<1>3. /\ UNCHANGED <<batch, launch, epoch, slash_bitmap, classify_ready,
                     in_string_bitmap, in_string_ready, word, wrote, previous>>
      /\ pc' = [pc EXCEPT ![l] = "poll"]
      /\ real_quote' = [real_quote EXCEPT ![l] =
                          FilterEscapedQuotes(Quotes(w), slash_bitmap[w], n)]
  BY DEF SelectQuotes
<1>4. \A v : Slashes(v)' = Slashes(v) /\ Text(v)' = Text(v)
  BY <1>3 DEF Slashes, Text
<1>5. Epochs' /\ FlagRange' /\ FlagsFollow' /\ Payloads'
  BY <1>1, <1>3, <1>4 DEF FreshInv, Epochs, FlagRange, OfALaunch, FlagsFollow, Payloads
<1>6. ASSUME NEW d \in Ctas, NEW s \in Lanes PROVE StageOf(<<d, s>>)'
  <2>1. StageOf(<<d, s>>)
    BY DEF FreshInv
  <2>2. CASE <<d, s>> = l
    <3>1. pc'[l] = "poll" /\ real_quote'[l] = RealQuoteWord(Text(w), w[2])
      BY <1>1, <1>2, <1>3
    <3>2. Selected(l)'
      BY <1>3, <1>4, <3>1 DEF Selected
    <3> QED BY <1>2, <1>3, <2>2, <3>1, <3>2 DEF StageOf, Working
  <2>3. CASE <<d, s>> # l
    <3>1. pc'[<<d, s>>] = pc[<<d, s>>] /\ real_quote'[<<d, s>>] = real_quote[<<d, s>>]
      BY <1>1, <1>3, <2>3
    <3> QED BY <1>3, <1>4, <2>1, <3>1 DEF StageOf, Working, LookedAt, Selected
  <2> QED BY <2>2, <2>3
<1> QED BY <1>5, <1>6 DEF FreshInv

LEMMA FreshNoIncomingSlash ==
  ASSUME FreshInv, TypeInv', NEW c \in Ctas, NEW t \in Lanes, NoIncomingSlash(c, t)
  PROVE  FreshInv'
<1> DEFINE l == <<c, t>>
           w == word[l]
           text == Text(w)
<1>1. w \in Words(batch) /\ launch > 0 /\ pc[l] = "lookback" /\ StageOf(l)
  BY DEF FreshInv, TypeInv, TypeOK, Epochs, NoIncomingSlash
<1>2. IsText(text) /\ w[2] \in Nat
  BY <1>1, TextOfWord DEF FreshInv, TypeInv
<1>3. slash_bitmap[w] = Slashes(w)
  <2>1. wrote[w].slash = launch
    BY <1>1 DEF StageOf, Working
  <2> QED BY <1>1, <2>1 DEF FreshInv, Payloads
<1>4. FilterEscapedQuotes(Quotes(w), Slashes(w), 0) = RealQuoteWord(text, w[2])
  <2>1. CASE PossibleEscaped(Quotes(w), Slashes(w)) = {}
    BY <1>2, <2>1, FilterWithoutParity DEF Quotes, Slashes
  <2>2. CASE previous[l] < 0
    <3>1. previous[l] = -1 /\ SlashesBetween(text, -1, w[2])
      <4>1. LookedAt(l)
        BY <1>1 DEF StageOf
      <4>2. previous[l] = -1
        BY <1>2, <2>2, <4>1 DEF LookedAt
      <4> QED BY <4>1, <4>2 DEF LookedAt
    <3>2. PICK r : MaximalSlashRun(text, w[2] * WordBytes, r) /\ r % 2 = 0
      BY <1>2, <3>1, LookbackRunsOff
    <3> QED BY <1>2, <3>2, FilterWithParity DEF Quotes, Slashes
  <2> QED BY <1>3, <2>1, <2>2 DEF NoIncomingSlash
<1> QED BY <1>1, <1>4, FreshSelectQuotes DEF NoIncomingSlash

LEMMA FreshLookback ==
  ASSUME FreshInv, TypeInv', NEW c \in Ctas, NEW t \in Lanes, Lookback(c, t)
  PROVE  FreshInv'
<1> USE DEF host, classify, strings, outputs, locals, tickets
<1> DEFINE l == <<c, t>>
           w == word[l]
           text == Text(w)
           u == previous[l]
           back == <<w[1], u>>
           trailing == TrailingOnes(slash_bitmap[back])
<1>1. /\ w \in Words(batch) /\ launch > 0 /\ pc[l] = "lookback" /\ StageOf(l) /\ Layout
      /\ previous \in [Ctas \X Lanes -> Int] /\ word \in [Ctas \X Lanes -> Words(batch)]
  BY DEF FreshInv, TypeInv, TypeOK, Epochs, Lookback
<1>2. IsText(text) /\ w[2] \in Nat /\ w = <<w[1], w[2]>>
  BY <1>1, TextOfWord, WordFacts
<1>3. slash_bitmap[w] = Slashes(w)
  <2>1. wrote[w].slash = launch
    BY <1>1 DEF StageOf, Working
  <2> QED BY <1>1, <2>1 DEF FreshInv, Payloads
<1>4. u \in Nat /\ u < w[2] /\ SlashesBetween(text, u, w[2])
  <2>1. LookedAt(l) /\ u >= 0
    BY <1>1 DEF StageOf, Lookback
  <2> QED BY <1>2, <2>1 DEF LookedAt
<1>5. back \in Words(batch) /\ Text(back) = text
  BY <1>1, <1>2, <1>4, WordFacts DEF Text
<1>6. slash_bitmap[back] = SlashWord(text, u)
  <2>1. classify_ready[back] = epoch
    BY DEF Lookback, Ready
  <2>2. wrote[back].slash = launch
    BY <1>1, <1>5, <2>1 DEF FreshInv, FlagsFollow
  <2> QED BY <1>1, <1>5, <2>2 DEF FreshInv, Payloads, Slashes
<1>7. w[2] * WordBytes \in DOMAIN text
  <2>1. PICK b \in Bits : w[2] * WordBytes + b \in DOMAIN text
    BY <1>3 DEF Lookback, PossibleEscaped, Quotes, QuoteWord, BitsWhere
  <2>2. w[2] * WordBytes \in Nat /\ b \in Nat
    BY <1>2, WordStart DEF Bits
  <2>3. DOMAIN text = 0 .. Size(text) - 1 /\ Size(text) \in Nat
    BY <1>2, TextDomain
  <2> QED BY <2>1, <2>2, <2>3
<1>8. CASE trailing = WordBytes
  <2>1. SlashesBetween(text, u - 1, w[2])
    BY <1>2, <1>4, <1>6, <1>8, LookbackContinues
  <2>2. /\ previous' = [previous EXCEPT ![l] = u - 1]
        /\ UNCHANGED <<batch, tasks, launch, epoch, slash_bitmap, classify_ready,
                       in_string_bitmap, in_string_ready, word, wrote, pc, real_quote>>
    BY <1>8 DEF Lookback, KeepsLooking
  <2>3. \A v : Slashes(v)' = Slashes(v) /\ Text(v)' = Text(v)
    BY <2>2 DEF Slashes, Text
  <2>4. Epochs' /\ FlagRange' /\ FlagsFollow' /\ Payloads'
    BY <2>2, <2>3 DEF FreshInv, Epochs, FlagRange, OfALaunch, FlagsFollow, Payloads
  <2>5. ASSUME NEW d \in Ctas, NEW s \in Lanes PROVE StageOf(<<d, s>>)'
    <3>1. StageOf(<<d, s>>)
      BY DEF FreshInv
    <3>2. CASE <<d, s>> = l
      <4>1. previous'[l] = u - 1
        BY <1>1, <2>2
      <4>2. LookedAt(l)'
        BY <1>2, <1>4, <2>1, <2>2, <2>3, <4>1 DEF LookedAt
      <4> QED BY <1>1, <2>2, <3>1, <3>2, <4>2 DEF StageOf, Working
    <3>3. CASE <<d, s>> # l
      <4>1. previous'[<<d, s>>] = previous[<<d, s>>]
        BY <1>1, <2>2, <3>3
      <4> QED BY <2>2, <2>3, <3>1, <4>1 DEF StageOf, Working, LookedAt, Selected
    <3> QED BY <3>2, <3>3
  <2> QED BY <2>4, <2>5 DEF FreshInv
<1>9. CASE trailing # WordBytes
  <2>1. SlashWord(text, u) # Bits
    BY <1>6, <1>9 DEF TrailingOnes
  <2>2. PICK r : MaximalSlashRun(text, w[2] * WordBytes, r) /\ r % 2 = trailing % 2
    BY <1>2, <1>4, <1>6, <1>7, <2>1, LookbackStops
  <2>3. trailing % 2 \in {0, 1}
    <3>1. trailing \in 0 .. WordBytes - 1
      BY <1>6, <2>1, TrailingOnesFacts DEF SlashWord, BitsWhere
    <3> QED BY <3>1
  <2>4. FilterEscapedQuotes(Quotes(w), Slashes(w), trailing % 2) = RealQuoteWord(text, w[2])
    BY <1>2, <2>2, <2>3, FilterWithParity DEF Quotes, Slashes
  <2>5. /\ SelectQuotes(c, t, trailing % 2)
        /\ UNCHANGED <<host, classify, strings, outputs, word, previous, tickets, wrote>>
    BY <1>9 DEF Lookback, KeepsLooking
  <2> QED BY <1>1, <2>3, <2>4, <2>5, FreshSelectQuotes
<1> QED BY <1>8, <1>9

LEMMA FreshSelectString ==
  ASSUME FreshInv, TypeInv', NEW c \in Ctas, NEW t \in Lanes, SelectString(c, t)
  PROVE  FreshInv'
<1> USE DEF host, classify, strings, outputs, locals, tickets
<1> DEFINE l == <<c, t>>
           w == word[l]
           text == Text(w)
           new == InStringCandidate(real_quote[l], IncomingStringBit(w))
<1>1. /\ w \in Words(batch) /\ launch > 0 /\ launch \in Nat
      /\ pc[l] = "poll" /\ StageOf(l) /\ Layout
      /\ pc \in [Ctas \X Lanes -> PcValues]
      /\ in_string_bitmap \in [Words(batch) -> SUBSET Bits]
      /\ wrote \in [Words(batch) -> [slash: Nat, string: Nat]]
  BY EpochFacts DEF FreshInv, TypeInv, TypeOK, Epochs, SelectString
<1>2. IsText(text) /\ w[2] \in Nat
  BY <1>1, TextOfWord
<1>3. IncomingStringBit(w) <=> IncomingString(text, w[2] * WordBytes)
  <2>1. CASE w[2] = 0
    BY <1>2, <2>1, FirstWordOutside DEF IncomingStringBit
  <2>2. CASE w[2] # 0
    <3> DEFINE v == Back(w, 1)
    <3>1. v \in Words(batch) /\ w[2] - 1 \in Nat /\ v[2] = w[2] - 1 /\ Text(v) = text
      BY <1>1, <2>2, WordFacts DEF Back, Text
    <3>2. in_string_ready[v] = epoch
      BY <2>2 DEF SelectString, PredecessorReady, Ready
    <3>3. wrote[v].string = launch
      BY <1>1, <3>1, <3>2 DEF FreshInv, FlagsFollow
    <3>4. in_string_bitmap[v] = InStringWord(text, w[2] - 1)
      BY <1>1, <3>1, <3>3 DEF FreshInv, Payloads
    <3>5. (w[2] - 1) + 1 = w[2]
      BY <1>2
    <3>6. TopBit(in_string_bitmap[v]) <=> IncomingString(text, w[2] * WordBytes)
      BY <3>1, <3>4, <3>5, TopBitCarries
    <3> QED BY <2>2, <3>6 DEF IncomingStringBit
  <2> QED BY <2>1, <2>2
<1>4. real_quote[l] = RealQuoteWord(text, w[2])
  BY <1>1 DEF StageOf, Selected
<1>5. new = InStringWord(text, w[2])
  <2>1. InStringCandidate(RealQuoteWord(text, w[2]), IncomingString(text, w[2] * WordBytes))
          = InStringWord(text, w[2])
    BY <1>2, CandidateIsInStringWord
  <2> QED BY <1>3, <1>4, <2>1 DEF InStringCandidate
<1>6. /\ UNCHANGED <<batch, tasks, launch, epoch, slash_bitmap, classify_ready,
                     in_string_ready, word, previous, real_quote>>
      /\ pc' = [pc EXCEPT ![l] = "selected"]
      /\ in_string_bitmap' = [in_string_bitmap EXCEPT ![w] = new]
      /\ wrote' = [wrote EXCEPT ![w].string = launch]
  BY DEF SelectString
<1>7. \A v \in Words(batch) :
        /\ wrote'[v].string = IF v = w THEN launch ELSE wrote[v].string
        /\ wrote'[v].slash = wrote[v].slash
        /\ in_string_bitmap'[v] = IF v = w THEN new ELSE in_string_bitmap[v]
  BY <1>1, <1>6
<1>8. \A v : Slashes(v)' = Slashes(v) /\ Text(v)' = Text(v)
  BY <1>6 DEF Slashes, Text
<1> HIDE DEF new
<1>9. Epochs' /\ FlagRange'
  BY <1>1, <1>6, <1>7 DEF FreshInv, Epochs, FlagRange, OfALaunch
<1>10. FlagsFollow' /\ Payloads'
  BY <1>1, <1>5, <1>6, <1>7, <1>8 DEF FreshInv, FlagsFollow, Payloads
<1>11. ASSUME NEW d \in Ctas, NEW s \in Lanes PROVE StageOf(<<d, s>>)'
  <2>1. StageOf(<<d, s>>) /\ word[<<d, s>>] \in Words(batch)
    BY DEF FreshInv, TypeInv, TypeOK
  <2>2. CASE <<d, s>> = l
    <3>1. pc'[l] = "selected"
      BY <1>1, <1>6
    <3> QED BY <1>1, <1>6, <1>7, <1>8, <2>1, <2>2, <3>1 DEF StageOf, Working, Selected
  <2>3. CASE <<d, s>> # l
    <3>1. pc'[<<d, s>>] = pc[<<d, s>>]
      BY <1>1, <1>6, <2>3
    <3> QED BY <1>6, <1>7, <1>8, <2>1, <3>1 DEF StageOf, Working, LookedAt, Selected
  <2> QED BY <2>2, <2>3
<1> QED BY <1>9, <1>10, <1>11 DEF FreshInv

LEMMA FreshPublishString ==
  ASSUME FreshInv, TypeInv', NEW c \in Ctas, NEW t \in Lanes, PublishString(c, t)
  PROVE  FreshInv'
<1> USE DEF host, classify, strings, outputs, locals, tickets
<1> DEFINE l == <<c, t>>
           w == word[l]
<1>1. /\ w \in Words(batch) /\ launch > 0 /\ launch \in Nat /\ epoch = EpochOfLaunch(launch)
      /\ pc[l] = "selected" /\ StageOf(l)
      /\ pc \in [Ctas \X Lanes -> PcValues]
      /\ in_string_ready \in [Words(batch) -> 0 .. MaxEpoch]
  BY EpochFacts DEF FreshInv, TypeInv, TypeOK, Epochs, PublishString
<1>2. wrote[w].string = launch
  BY <1>1 DEF StageOf
<1>3. /\ UNCHANGED <<batch, tasks, launch, epoch, slash_bitmap, classify_ready,
                     in_string_bitmap, word, previous, real_quote, wrote>>
      /\ pc' = [pc EXCEPT ![l] = "vote"]
      /\ in_string_ready' = [in_string_ready EXCEPT ![w] = epoch]
  BY DEF PublishString
<1>4. \A v \in Words(batch) :
        in_string_ready'[v] = IF v = w THEN epoch ELSE in_string_ready[v]
  BY <1>1, <1>3
<1>5. \A v : Slashes(v)' = Slashes(v) /\ Text(v)' = Text(v)
  BY <1>3 DEF Slashes, Text
<1>6. FlagRange'
  <2>1. OfALaunch(epoch)
    BY <1>1 DEF OfALaunch
  <2> QED BY <1>3, <1>4, <2>1 DEF FreshInv, FlagRange, OfALaunch
<1>7. Epochs' /\ FlagsFollow' /\ Payloads'
  BY <1>1, <1>2, <1>3, <1>4, <1>5 DEF FreshInv, Epochs, FlagsFollow, Payloads
<1>8. ASSUME NEW d \in Ctas, NEW s \in Lanes PROVE StageOf(<<d, s>>)'
  <2>1. StageOf(<<d, s>>)
    BY DEF FreshInv
  <2>2. CASE <<d, s>> = l
    <3>1. pc'[l] = "vote"
      BY <1>1, <1>3
    <3> QED BY <1>1, <1>3, <1>5, <2>1, <2>2, <3>1 DEF StageOf, Working, Selected
  <2>3. CASE <<d, s>> # l
    <3>1. pc'[<<d, s>>] = pc[<<d, s>>]
      BY <1>1, <1>3, <2>3
    <3> QED BY <1>3, <1>5, <2>1, <3>1 DEF StageOf, Working, LookedAt, Selected
  <2> QED BY <2>2, <2>3
<1> QED BY <1>6, <1>7, <1>8 DEF FreshInv

LEMMA FreshStep == FreshInv /\ [Next]_vars => FreshInv'
<1> SUFFICES ASSUME FreshInv, [Next]_vars PROVE FreshInv'
  OBVIOUS
<1>1. TypeInv'
  BY TypeStep DEF FreshInv
<1>2. CASE Launch
  BY <1>1, <1>2, FreshLaunch
<1>3. ASSUME NEW c \in Ctas, CtaStep(c) PROVE FreshInv'
  BY <1>1, <1>3, QuietActions, FreshQuiet DEF CtaStep
<1>4. ASSUME NEW c \in Ctas, NEW t \in Lanes, ThreadStep(c, t) PROVE FreshInv'
  BY <1>1, <1>4, QuietActions, FreshQuiet, FreshClassify, FreshPublishClass,
     FreshNoIncomingSlash, FreshLookback, FreshSelectString, FreshPublishString
     DEF ThreadStep
<1>5. CASE UNCHANGED vars
  BY <1>1, <1>5 DEF vars, host, classify, strings, locals, FreshInv, Epochs, FlagRange,
     OfALaunch, FlagsFollow, Payloads, StageOf, Working, LookedAt, Selected, Slashes, Text
<1> QED BY <1>2, <1>3, <1>4, <1>5 DEF Next

\* A readiness flag that equals the epoch certifies a payload of the current
\* launch, although flags are never cleared between launches.
THEOREM FlagsCertifyPayloads == Spec => []FlagsMeanFresh
<1>1. FreshInv => FlagsMeanFresh
  BY DEF FreshInv, FlagsFollow, Payloads, FlagsMeanFresh
<1> QED BY <1>1, FreshInit, FreshStep, PTL DEF Spec

\* Whatever the interleaving of the threads, every in-string word published is
\* the one of the sequential specification: the lookback finds the parity of
\* the backslash run and the predecessor's top bit selects the right candidate.
THEOREM SpeculationIsValidated == Spec => []PublishedStringsCorrect
<1>1. FreshInv => PublishedStringsCorrect
  BY DEF FreshInv, FlagsFollow, Payloads, PublishedStringsCorrect
<1> QED BY <1>1, FreshInit, FreshStep, PTL DEF Spec

-----------------------------------------------------------------------------
(***************************************************************************)
(* When a launch is over, every word has been through all four stages.     *)
(***************************************************************************)
LEMMA EveryWordHasATask ==
  ASSUME Layout, NEW w \in Words(batch)
  PROVE  \E p \in 0 .. TaskCount - 1, t \in Lanes : w = Word(p, t)
<1> DEFINE i == w[1]
           n == ChunkCount(batch[i])
           chunk == w[2] \div Threads
           t == w[2] % Threads
<1>1. PICK j \in DOMAIN batch : w \in {j} \X (0 .. PaddedWords(batch[j]) - 1)
  BY DEF Words
<1>2. /\ i \in DOMAIN batch /\ w = <<i, w[2]>> /\ w[2] \in 0 .. n * Threads - 1
      /\ n \in Nat \ {0} /\ Threads \in Nat \ {0}
  BY <1>1, BatchFacts, GeometryAssumption DEF Layout, PaddedWords
<1>3. chunk \in Nat /\ t \in 0 .. Threads - 1 /\ w[2] = chunk * Threads + t
  BY <1>2
<1>4. chunk < n
  <2> SUFFICES ASSUME n <= chunk PROVE FALSE
    BY <1>2, <1>3
  <2> DEFINE m == n
             k == chunk
             T == Threads
  <2>1. m \in Nat /\ k \in Nat /\ T \in Nat \ {0} /\ m <= k /\ k * T + t \in 0 .. m * T - 1 /\ t \in Nat
    BY <1>2, <1>3
  <2> HIDE DEF m, k, T, t
  <2>2. PICK d \in Nat : k = m + d
    <3>1. k - m \in Nat /\ k = m + (k - m)
      BY <2>1
    <3> QED BY <3>1
  <2>3. k * T = m * T + d * T /\ d * T \in Nat /\ m * T \in Nat
    BY <2>1, <2>2
  <2> QED BY <2>1, <2>3
<1>5. [input |-> i, chunk |-> chunk] \in Tasks(batch)
  BY <1>2, <1>3, <1>4 DEF Tasks
<1>6. PICK p \in DOMAIN tasks : tasks[p] = [input |-> i, chunk |-> chunk]
  BY <1>5 DEF Layout, IsTaskList
<1>7. p \in 0 .. TaskCount - 1 /\ t \in Lanes
  BY <1>3, TaskListFacts DEF Lanes
<1>8. w = Word(p, t)
  BY <1>2, <1>3, <1>6 DEF Word
<1> QED BY <1>7, <1>8

LEMMA SomeTask ==
  ASSUME Layout PROVE TaskCount \in Nat \ {0} /\ ResidentBlocks \in Nat /\ 1 <= ResidentBlocks /\ 1 \in Ctas
<1>1. 1 \in DOMAIN batch /\ ChunkCount(batch[1]) \in Nat \ {0} /\ Threads \in Nat \ {0}
  BY BatchFacts, GeometryAssumption DEF Layout
<1>2. 0 * Threads + 0 \in 0 .. PaddedWords(batch[1]) - 1
  BY <1>1, RowMajor DEF PaddedWords
<1>3. <<1, 0 * Threads + 0>> \in Words(batch)
  BY <1>1, <1>2 DEF Words
<1>4. \E p \in 0 .. TaskCount - 1 : TRUE
  BY <1>3, EveryWordHasATask
<1>5. TaskCount \in Nat /\ ResidentCapacity \in Nat \ {0}
  BY TaskListFacts, GeometryAssumption
<1> QED BY <1>4, <1>5 DEF ResidentBlocks, Ctas

\* An error in the word has reached the error word of its input.
Raised(w) == Flagged(w) => utf_errors[w[1]]

\* An error word is never set for nothing.
ErrorsAreFlagged ==
  \A i \in DOMAIN batch : utf_errors[i] => \E w \in Words(batch) : w[1] = i /\ Flagged(w)

\* The word has been through all four stages in this launch.
OutputRight(w) ==
  /\ in_string_ready[w] = epoch
  /\ structural_bitmap[w] = StructuralWord(Text(w), w[2])
  /\ open_close_bitmap[w] = OpenCloseResult(Text(w), w[2])
  /\ Raised(w)

Holds(c, p) == HasTicket(c) /\ task_position[c] = p

OutStage(l) ==
  /\ pc[l] \in {"filter", "filtered"} \/ (pc[l] \in {"poll", "vote"} /\ published[l])
       => in_string_ready[word[l]] = epoch
  /\ Working(l) /\ pc[l] \notin {"classify", "filtered"} =>
       open_close_bitmap[word[l]] = OpenClosesOf(word[l]) /\ Raised(word[l])
  /\ pc[l] = "filtered" => OutputRight(word[l])

\* A ticket that has been handed out is held, or its words are finished.
TicketsServed ==
  launch > 0 =>
    \A p \in 0 .. TaskCount - 1 : p < next_task =>
      \/ \E c \in Ctas : Holds(c, p)
      \/ \A t \in Lanes : OutputRight(Word(p, t))

OutInv ==
  /\ OwnInv
  /\ FreshInv
  /\ \A c \in Ctas, t \in Lanes : OutStage(<<c, t>>)
  /\ TicketsServed
  /\ ErrorsAreFlagged
  /\ launch > 0 /\ pc[<<1, 0>>] = "exit" => next_task >= TaskCount

LEMMA OutGivesCorrect == OutInv => OutputCorrect
<1> SUFFICES ASSUME OutInv, LaunchComplete PROVE OutputCorrect
  BY DEF OutputCorrect
<1>1. Layout /\ launch > 0 /\ \A l \in Ctas \X Lanes : pc[l] = "exit"
  BY DEF OutInv, OwnInv, TypeInv, LaunchComplete
<1>2. ASSUME NEW w \in Words(batch) PROVE OutputRight(w)
  <2>1. PICK p \in 0 .. TaskCount - 1, t \in Lanes : w = Word(p, t)
    BY <1>1, EveryWordHasATask
  <2>2. \A c \in Ctas : ~Holds(c, p)
    BY <1>1, FirstLane DEF Holds, HasTicket
  <2>3. p < next_task
    BY <1>1, SomeTask, FirstLane DEF OutInv, OwnInv, TypeInv, TypeOK
  <2> QED BY <1>1, <2>1, <2>2, <2>3 DEF OutInv, TicketsServed
<1>3. \A i \in DOMAIN batch :
        utf_errors[i] <=> \E w \in Words(batch) : w[1] = i /\ Flagged(w)
  BY <1>2 DEF OutInv, ErrorsAreFlagged, OutputRight, Raised
<1> QED BY <1>2, <1>3 DEF OutputCorrect, OutputRight

LEMMA OutInit == Init => OutInv
<1> SUFFICES ASSUME Init PROVE OutInv
  OBVIOUS
<1>1. launch = 0 /\ \A c \in Ctas, t \in Lanes : pc[<<c, t>>] = "exit"
  BY DEF Init
<1>2. \A c \in Ctas, t \in Lanes : OutStage(<<c, t>>)
  BY <1>1 DEF OutStage, Working
<1>3. ErrorsAreFlagged
  BY DEF Init, ErrorsAreFlagged
<1> QED BY <1>1, <1>2, <1>3, OwnInit, FreshInit DEF OutInv, TicketsServed

LEMMA OutLaunch == OutInv /\ OwnInv' /\ FreshInv' /\ Launch => OutInv'
<1> SUFFICES ASSUME OutInv, OwnInv', FreshInv', Launch PROVE OutInv'
  OBVIOUS
<1>1. Layout /\ 0 \in Lanes
  BY FirstLane DEF OutInv, OwnInv, TypeInv
<1>2. pc'[<<1, 0>>] = "fetch" /\ next_task' = 0
  BY <1>1, SomeTask DEF Launch
<1>3. \A c \in Ctas, t \in Lanes : pc'[<<c, t>>] \in {"exit", "fetch", "fetched"}
  BY DEF Launch
<1>4. \A c \in Ctas, t \in Lanes : OutStage(<<c, t>>)'
  BY <1>3 DEF OutStage, Working
<1>5. \A p \in 0 .. TaskCount' - 1 : ~(p < next_task')
  BY <1>2
<1>6. ErrorsAreFlagged'
  BY DEF OutInv, Launch, outputs, ErrorsAreFlagged, Flagged, Text
<1> QED BY <1>2, <1>4, <1>5, <1>6 DEF OutInv, TicketsServed

\* Steps that leave outputs and string flags alone, and the tickets held too.
OutQuiet ==
  /\ launch > 0
  /\ UNCHANGED <<batch, tasks, launch, epoch, structural_bitmap, open_close_bitmap, utf_errors,
                 in_string_ready, next_task, task_position, word>>
  /\ \A c \in Ctas, t \in Lanes :
       LET l == <<c, t>> IN
       \/ UNCHANGED <<pc[l], published[l]>>
       \/ /\ pc[l] \in {"classified", "lookback"}
          /\ pc'[l] \in {"lookback", "poll"} /\ ~published[l]'
       \/ pc[l] = "classified" /\ pc'[l] = "lookback"
       \/ pc[l] = "poll" /\ pc'[l] \in {"selected", "vote"} /\ UNCHANGED published[l]
       \/ pc[l] = "vote" /\ pc'[l] = "poll" /\ UNCHANGED published[l]
       \/ pc[l] = "vote" /\ pc'[l] = "filter" /\ published[l]
       \/ pc[l] \in {"fetched", "take"} /\ pc'[l] = "take"

LEMMA OutQuietStep == OutInv /\ OwnInv' /\ FreshInv' /\ OutQuiet => OutInv'
<1> SUFFICES ASSUME OutInv, OwnInv', FreshInv', OutQuiet PROVE OutInv'
  OBVIOUS
<1>1. \A v : (OutputRight(v)' <=> OutputRight(v)) /\ (Raised(v)' <=> Raised(v))
  BY DEF OutQuiet, OutputRight, Raised, Flagged, Text
<1>2. TaskCount' = TaskCount /\ \A p, t : Word(p, t)' = Word(p, t)
  BY DEF OutQuiet, TaskCount, Word
<1>3. \A c \in Ctas, t \in Lanes :
        (pc'[<<c, t>>] \in {"fetch", "exit"}) <=> (pc[<<c, t>>] \in {"fetch", "exit"})
  BY DEF OutQuiet
<1>4. \A c \in Ctas : \A p : Holds(c, p)' <=> Holds(c, p)
  BY <1>3, FirstLane DEF OutQuiet, Holds, HasTicket
<1>5. TicketsServed'
  BY <1>1, <1>2, <1>4 DEF OutInv, OutQuiet, TicketsServed
<1>6. ASSUME NEW c \in Ctas, NEW t \in Lanes PROVE OutStage(<<c, t>>)'
  <2> DEFINE l == <<c, t>>
  <2>1. OutStage(l)
    BY DEF OutInv
  <2>2. UNCHANGED <<word, in_string_ready, epoch, open_close_bitmap, utf_errors>>
        /\ \A v : OpenClosesOf(v)' = OpenClosesOf(v)
    BY DEF OutQuiet, OpenClosesOf, Text
  <2>3. CASE UNCHANGED <<pc[l], published[l]>>
    BY <1>1, <2>1, <2>2, <2>3 DEF OutStage, Working
  <2>4. CASE /\ pc[l] \in {"classified", "lookback"}
             /\ pc'[l] \in {"lookback", "poll"} /\ ~published[l]'
    BY <1>1, <2>1, <2>2, <2>4 DEF OutStage, Working
  <2>5. CASE pc[l] = "classified" /\ pc'[l] = "lookback"
    BY <1>1, <2>1, <2>2, <2>5 DEF OutStage, Working
  <2>6. CASE pc[l] = "poll" /\ pc'[l] \in {"selected", "vote"} /\ UNCHANGED published[l]
    BY <1>1, <2>1, <2>2, <2>6 DEF OutStage, Working
  <2>7. CASE pc[l] = "vote" /\ pc'[l] = "poll" /\ UNCHANGED published[l]
    BY <1>1, <2>1, <2>2, <2>7 DEF OutStage, Working
  <2>8. CASE pc[l] = "vote" /\ pc'[l] = "filter" /\ published[l]
    BY <1>1, <2>1, <2>2, <2>8 DEF OutStage, Working
  <2>9. CASE pc[l] \in {"fetched", "take"} /\ pc'[l] = "take"
    BY <2>9 DEF OutStage, Working
  <2> QED BY <2>3, <2>4, <2>5, <2>6, <2>7, <2>8, <2>9 DEF OutQuiet
<1>7. launch' > 0 /\ pc'[<<1, 0>>] = "exit" => next_task' >= TaskCount'
  <2>1. 1 \in Ctas /\ 0 \in Lanes
    BY SomeTask, FirstLane DEF OutInv, OwnInv, TypeInv
  <2>2. pc'[<<1, 0>>] = "exit" => pc[<<1, 0>>] = "exit"
    BY <2>1 DEF OutQuiet
  <2> QED BY <1>2, <2>2 DEF OutInv, OutQuiet
<1>8. ErrorsAreFlagged'
  BY DEF OutInv, OutQuiet, ErrorsAreFlagged, Flagged, Text
<1> QED BY <1>5, <1>6, <1>7, <1>8 DEF OutInv


LEMMA OutQuietActions ==
  ASSUME OutInv
  PROVE  /\ \A c \in Ctas : FetchBarrier(c) => OutQuiet
         /\ \A c \in Ctas, n \in Warps : Vote(c, n) => OutQuiet
         /\ \A c \in Ctas, t \in Lanes :
              PublishClass(c, t) \/ NoIncomingSlash(c, t) \/ Lookback(c, t)
              \/ SelectString(c, t) \/ PollInVain(c, t) => OutQuiet
<1> USE DEF host, classify, strings, outputs, locals, tickets
<1>1. /\ pc \in [Ctas \X Lanes -> PcValues] /\ published \in [Ctas \X Lanes -> BOOLEAN]
      /\ 0 \in Lanes
      /\ \A c \in Ctas, t \in Lanes : pc[<<c, t>>] # "exit" => launch > 0
  BY FirstLane DEF OutInv, FreshInv, TypeInv, TypeOK, Epochs
<1>2. ASSUME NEW c \in Ctas, FetchBarrier(c) PROVE OutQuiet
  BY <1>1, <1>2 DEF FetchBarrier, Barrier, OutQuiet
<1>3. ASSUME NEW c \in Ctas, NEW n \in Warps, Vote(c, n) PROVE OutQuiet
  <2>1. launch > 0
    BY <1>3, QuietActions DEF OutInv, Quiet
  <2>2. /\ \A t \in Warp(n) : pc[<<c, t>>] = "vote"
        /\ UNCHANGED <<batch, tasks, launch, epoch, structural_bitmap, open_close_bitmap, utf_errors,
                       in_string_ready, next_task, task_position, word, published>>
    BY <1>3 DEF Vote
  <2>3. PICK v \in {"filter", "poll"} :
          /\ v = "filter" => \A t \in Warp(n) : published[<<c, t>>]
          /\ pc' = [l \in Ctas \X Lanes |->
                      IF l[1] = c /\ l[2] \in Warp(n) THEN v ELSE pc[l]]
    BY <1>3 DEF Vote, WarpLeaves
  <2>4. \A d \in Ctas, s \in Lanes :
          pc'[<<d, s>>] = IF d = c /\ s \in Warp(n) THEN v ELSE pc[<<d, s>>]
    BY <2>3
  <2> QED BY <2>1, <2>2, <2>3, <2>4 DEF OutQuiet
<1>4. ASSUME NEW c \in Ctas, NEW t \in Lanes, PublishClass(c, t) PROVE OutQuiet
  BY <1>1, <1>4 DEF PublishClass, OutQuiet
<1>5. ASSUME NEW c \in Ctas, NEW t \in Lanes, NEW n, SelectQuotes(c, t, n), pc[<<c, t>>] = "lookback"
      PROVE  \A d \in Ctas, s \in Lanes :
               LET l == <<d, s>> IN
               \/ UNCHANGED <<pc[l], published[l]>>
               \/ pc[l] = "lookback" /\ pc'[l] = "poll" /\ ~published[l]'
  BY <1>1, <1>5 DEF SelectQuotes
<1>6. ASSUME NEW c \in Ctas, NEW t \in Lanes, NoIncomingSlash(c, t) PROVE OutQuiet
  BY <1>1, <1>5, <1>6 DEF NoIncomingSlash, OutQuiet
<1>7. ASSUME NEW c \in Ctas, NEW t \in Lanes, Lookback(c, t) PROVE OutQuiet
  BY <1>1, <1>5, <1>7 DEF Lookback, OutQuiet
<1>8. ASSUME NEW c \in Ctas, NEW t \in Lanes, SelectString(c, t) PROVE OutQuiet
  BY SMTT(30), <1>1, <1>8 DEF SelectString, OutQuiet
<1>9. ASSUME NEW c \in Ctas, NEW t \in Lanes, PollInVain(c, t) PROVE OutQuiet
  BY <1>1, <1>9 DEF PollInVain, OutQuiet
<1> QED BY <1>2, <1>3, <1>4, <1>6, <1>7, <1>8, <1>9

LEMMA WorkersHold ==
  ASSUME OwnInv, NEW c \in Ctas, NEW t \in Lanes, Working(<<c, t>>)
  PROVE  /\ task_position[c] \in 0 .. TaskCount - 1
         /\ Holds(c, task_position[c])
         /\ word[<<c, t>>] = Word(task_position[c], t)
<1>1. HasTicket(c) /\ task_position[c] < TaskCount
  BY FirstLane DEF OwnInv, Phase, HasTicket, Working
<1> QED BY <1>1, TaskListFacts DEF OwnInv, TypeInv, TypeOK, Holds, WordAgrees

\* A thread that works on its word does not touch a finished one, nor the word
\* of another thread.
LEMMA OthersUntouched ==
  ASSUME OwnInv, NEW c \in Ctas, NEW t \in Lanes, Working(<<c, t>>)
  PROVE  /\ \A d \in Ctas, s \in Lanes :
              Working(<<d, s>>) /\ <<d, s>> # <<c, t>> => word[<<d, s>>] # word[<<c, t>>]
         /\ \A p \in 0 .. TaskCount - 1, s \in Lanes :
              (\A d \in Ctas : ~Holds(d, p)) => Word(p, s) # word[<<c, t>>]
<1>1. ASSUME NEW d \in Ctas, NEW s \in Lanes, Working(<<d, s>>), <<d, s>> # <<c, t>>
      PROVE  word[<<d, s>>] # word[<<c, t>>]
  BY <1>1, OwnersDiffer DEF OneOwner
<1>2. ASSUME NEW p \in 0 .. TaskCount - 1, NEW s \in Lanes, Word(p, s) = word[<<c, t>>]
      PROVE  Holds(c, p)
  BY <1>2, WorkersHold, WordsAreDistinct DEF OwnInv, TypeInv
<1> QED BY <1>1, <1>2


\* Steps of one thread inside its task that write its own word.
LEMMA OutWrite ==
  ASSUME OutInv, OwnInv', FreshInv', NEW c \in Ctas, NEW t \in Lanes,
         Working(<<c, t>>), launch > 0,
         UNCHANGED <<batch, tasks, launch, epoch, next_task, task_position, word>>,
         NEW v, v \notin {"exit", "fetch", "fetched", "take"},
         pc' = [pc EXCEPT ![<<c, t>>] = v],
         \A d \in Ctas, s \in Lanes :
           <<d, s>> # <<c, t>> => published'[<<d, s>>] = published[<<d, s>>],
         \A x \in Words(batch) : x # word[<<c, t>>] =>
           /\ structural_bitmap'[x] = structural_bitmap[x]
           /\ open_close_bitmap'[x] = open_close_bitmap[x]
           /\ in_string_ready'[x] = in_string_ready[x],
         \A i \in DOMAIN batch : utf_errors[i] => utf_errors'[i],
         ErrorsAreFlagged',
         OutStage(<<c, t>>)'
  PROVE  OutInv'
<1> DEFINE w == word[<<c, t>>]
<1>1. /\ pc \in [Ctas \X Lanes -> PcValues] /\ word \in [Ctas \X Lanes -> Words(batch)]
      /\ Layout /\ OwnInv /\ 0 \in Lanes
  BY FirstLane DEF OutInv, OwnInv, TypeInv, TypeOK
<1>2. TaskCount' = TaskCount /\ (\A p, s : Word(p, s)' = Word(p, s)) /\ \A x : Text(x)' = Text(x)
  BY DEF TaskCount, Word, Text
<1>3. /\ pc'[<<c, t>>] = v
      /\ \A d \in Ctas, s \in Lanes : <<d, s>> # <<c, t>> => pc'[<<d, s>>] = pc[<<d, s>>]
  BY <1>1
<1>4. \A d \in Ctas : \A p : Holds(d, p)' <=> Holds(d, p)
  <2>1. \A d \in Ctas : HasTicket(d)' <=> HasTicket(d)
    BY <1>1, <1>3 DEF HasTicket, Working
  <2> QED BY <2>1 DEF Holds
<1>5. \A x \in Words(batch) :
        x # w => (OutputRight(x) => OutputRight(x)') /\ (Raised(x) => Raised(x)')
  BY <1>2 DEF OutputRight, Raised, Flagged, Words
<1>6. TicketsServed'
  <2> SUFFICES ASSUME NEW p \in 0 .. TaskCount - 1, p < next_task, \A d \in Ctas : ~Holds(d, p),
                      NEW s \in Lanes
               PROVE  OutputRight(Word(p, s))'
    BY <1>2, <1>4 DEF TicketsServed
  <2>1. OutputRight(Word(p, s)) /\ Word(p, s) \in Words(batch)
    BY <1>1, TaskListFacts DEF OutInv, TicketsServed
  <2>2. Word(p, s) # w
    <3>1. \A q \in 0 .. TaskCount - 1, y \in Lanes :
            (\A d \in Ctas : ~Holds(d, q)) => Word(q, y) # word[<<c, t>>]
      BY <1>1, OthersUntouched
    <3> QED BY <3>1
  <2> QED BY <1>2, <1>5, <2>1, <2>2 DEF OutputRight
<1>7. ASSUME NEW d \in Ctas, NEW s \in Lanes, <<d, s>> # <<c, t>> PROVE OutStage(<<d, s>>)'
  <2>1. OutStage(<<d, s>>) /\ word[<<d, s>>] \in Words(batch)
    BY <1>1 DEF OutInv
  <2>2. Working(<<d, s>>) => word[<<d, s>>] # w
    <3>1. \A x \in Ctas, y \in Lanes :
            Working(<<x, y>>) /\ <<x, y>> # <<c, t>> => word[<<x, y>>] # word[<<c, t>>]
      BY <1>1, OthersUntouched
    <3> QED BY <1>7, <3>1
  <2>3. OpenClosesOf(word[<<d, s>>])' = OpenClosesOf(word[<<d, s>>])
    BY DEF OpenClosesOf, Text
  <2>4. CASE ~Working(<<d, s>>)
    BY <1>3, <1>7, <2>4 DEF OutStage, Working
  <2>5. CASE Working(<<d, s>>)
    BY <1>3, <1>5, <1>7, <2>1, <2>2, <2>3, <2>5 DEF OutStage, Working
  <2> QED BY <2>4, <2>5
<1>8. launch' > 0 /\ pc'[<<1, 0>>] = "exit" => next_task' >= TaskCount'
  <2>1. 1 \in Ctas
    BY <1>1, SomeTask
  <2>2. pc'[<<1, 0>>] = "exit" => pc[<<1, 0>>] = "exit"
    BY <1>1, <1>3, <2>1
  <2> QED BY <1>2, <2>2 DEF OutInv
<1> QED BY <1>6, <1>7, <1>8 DEF OutInv

LEMMA OutWriteActions ==
  ASSUME OutInv, OwnInv', FreshInv', NEW c \in Ctas, NEW t \in Lanes,
         Classify(c, t) \/ PublishString(c, t) \/ Filter(c, t)
  PROVE  OutInv'
<1> USE DEF host, classify, strings, outputs, locals, tickets
<1> DEFINE l == <<c, t>>
           w == word[l]
<1>1. /\ pc \in [Ctas \X Lanes -> PcValues] /\ word \in [Ctas \X Lanes -> Words(batch)]
      /\ published \in [Ctas \X Lanes -> BOOLEAN]
      /\ structural_bitmap \in [Words(batch) -> SUBSET Bits]
      /\ open_close_bitmap \in [Words(batch) -> SUBSET Bits]
      /\ in_string_ready \in [Words(batch) -> 0 .. MaxEpoch]
      /\ utf_errors \in [DOMAIN batch -> BOOLEAN] /\ w[1] \in DOMAIN batch
      /\ w \in Words(batch) /\ Layout /\ OutStage(l) /\ FreshInv /\ ErrorsAreFlagged
  BY DEF OutInv, OwnInv, TypeInv, TypeOK, Words
<1>2. pc[l] # "exit" => launch > 0
  BY DEF OutInv, FreshInv, Epochs
<1>3. CASE Classify(c, t)
  <2>1. /\ pc[l] = "classify" /\ pc' = [pc EXCEPT ![l] = "classified"]
        /\ open_close_bitmap' = [open_close_bitmap EXCEPT ![w] = OpenClosesOf(w)]
        /\ utf_errors' = [utf_errors EXCEPT ![w[1]] = utf_errors[w[1]] \/ Flagged(w)]
        /\ UNCHANGED <<batch, tasks, launch, epoch, next_task, task_position, word,
                       published, structural_bitmap, in_string_ready>>
    BY <1>3 DEF Classify
  <2>2. open_close_bitmap'[w] = OpenClosesOf(w) /\ OpenClosesOf(w)' = OpenClosesOf(w)
    BY <1>1, <2>1 DEF OpenClosesOf, Text
  <2>3. \A v : Flagged(v)' <=> Flagged(v)
    BY <2>1 DEF Flagged, Text
  <2>4. Raised(w)' /\ (\A i \in DOMAIN batch : utf_errors[i] => utf_errors'[i])
    BY <1>1, <2>1, <2>3 DEF Raised
  <2>5. ErrorsAreFlagged'
    BY <1>1, <2>1, <2>3 DEF ErrorsAreFlagged
  <2>6. OutStage(l)'
    BY <1>1, <2>1, <2>2, <2>4 DEF OutStage
  <2> QED BY <1>1, <1>2, <2>1, <2>4, <2>5, <2>6, OutWrite DEF Working
<1>4. CASE PublishString(c, t)
  <2>1. /\ pc[l] = "selected" /\ pc' = [pc EXCEPT ![l] = "vote"]
        /\ in_string_ready' = [in_string_ready EXCEPT ![w] = epoch]
        /\ published' = [published EXCEPT ![l] = TRUE]
        /\ UNCHANGED <<batch, tasks, launch, epoch, next_task, task_position, word,
                       structural_bitmap, open_close_bitmap, utf_errors>>
    BY <1>4 DEF PublishString
  <2>2. OpenClosesOf(w)' = OpenClosesOf(w) /\ in_string_ready'[w] = epoch
    BY <1>1, <2>1 DEF OpenClosesOf, Text
  <2>3. ErrorsAreFlagged' /\ (Raised(w) => Raised(w)')
    BY <1>1, <2>1 DEF ErrorsAreFlagged, Raised, Flagged, Text
  <2>4. OutStage(l)'
    BY <1>1, <2>1, <2>2, <2>3 DEF OutStage, Working
  <2> QED BY <1>1, <1>2, <2>1, <2>3, <2>4, OutWrite DEF Working
<1>5. CASE Filter(c, t)
  <2>1. /\ pc[l] = "filter" /\ pc' = [pc EXCEPT ![l] = "filtered"]
        /\ structural_bitmap' = [structural_bitmap EXCEPT
                                   ![w] = OperatorsOf(w) \ in_string_bitmap[w]]
        /\ open_close_bitmap' = [open_close_bitmap EXCEPT
                                   ![w] = open_close_bitmap[w] \ in_string_bitmap[w]]
        /\ UNCHANGED <<batch, tasks, launch, epoch, next_task, task_position, word,
                       published, in_string_ready, utf_errors>>
    BY <1>5 DEF Filter
  <2>2. in_string_ready[w] = epoch /\ open_close_bitmap[w] = OpenClosesOf(w) /\ Raised(w)
    BY <1>1, <2>1 DEF OutStage, Working
  <2>3. in_string_bitmap[w] = InStringWord(Text(w), w[2])
    BY <1>1, <1>2, <2>1, <2>2 DEF FreshInv, FlagsFollow, Payloads
  <2>4. IsText(Text(w)) /\ w[2] \in Nat
    BY <1>1, TextOfWord
  <2>5. /\ structural_bitmap'[w] = StructuralWord(Text(w), w[2])
        /\ open_close_bitmap'[w] = OpenCloseResult(Text(w), w[2])
    BY <1>1, <2>1, <2>2, <2>3, <2>4, MaskedIsSpecified DEF OperatorsOf, OpenClosesOf
  <2>6. ErrorsAreFlagged' /\ Raised(w)'
    BY <1>1, <2>1, <2>2 DEF ErrorsAreFlagged, Raised, Flagged, Text
  <2>7. OutStage(l)'
    BY <1>1, <2>1, <2>2, <2>5, <2>6 DEF OutStage, OutputRight, Text
  <2> QED BY <1>1, <1>2, <2>1, <2>6, <2>7, OutWrite DEF Working
<1> QED BY <1>3, <1>4, <1>5


\* A fetched ticket is held by the CTA that fetched it.
LEMMA OutFetch ==
  ASSUME OutInv, OwnInv', FreshInv', NEW c \in Ctas, FetchTask(c)
  PROVE  OutInv'
<1> USE DEF host, classify, strings, outputs, locals, tickets
<1>1. /\ pc \in [Ctas \X Lanes -> PcValues] /\ task_position \in [Ctas -> Nat]
      /\ next_task \in Nat /\ Layout /\ 0 \in Lanes
  BY FirstLane DEF OutInv, OwnInv, TypeInv, TypeOK
<1>2. /\ pc[<<c, 0>>] = "fetch" /\ pc' = [pc EXCEPT ![<<c, 0>>] = "fetched"]
      /\ task_position' = [task_position EXCEPT ![c] = next_task]
      /\ next_task' = next_task + 1
      /\ UNCHANGED <<batch, tasks, launch, epoch, structural_bitmap, open_close_bitmap, utf_errors,
                     in_string_ready, word, published>>
  BY DEF FetchTask, AfterTicket
<1>3. launch > 0
  BY <1>1, <1>2 DEF OutInv, FreshInv, Epochs
<1>4. TaskCount' = TaskCount /\ (\A p, s : Word(p, s)' = Word(p, s))
      /\ (\A x : OutputRight(x)' <=> OutputRight(x)) /\ (\A x : Raised(x)' <=> Raised(x))
  BY <1>2 DEF TaskCount, Word, OutputRight, Raised, Flagged, Text
<1>5. \A p : (Holds(c, p)' <=> p = next_task) /\ ~Holds(c, p)
  BY <1>1, <1>2 DEF Holds, HasTicket
<1>6. \A d \in Ctas : d # c => \A p : Holds(d, p)' <=> Holds(d, p)
  BY <1>1, <1>2 DEF Holds, HasTicket
<1>7. TicketsServed'
  <2> SUFFICES ASSUME NEW p \in 0 .. TaskCount - 1, p < next_task + 1,
                      \A d \in Ctas : ~Holds(d, p)'
               PROVE  \A s \in Lanes : OutputRight(Word(p, s))
    BY <1>2, <1>4 DEF TicketsServed
  <2>1. p \in Nat /\ p # next_task
    BY <1>5
  <2>2. p < next_task
    BY <1>1, <2>1
  <2>3. \A d \in Ctas : ~Holds(d, p)
    BY <1>5, <1>6
  <2> QED BY <1>3, <2>2, <2>3 DEF OutInv, TicketsServed
<1>8. ASSUME NEW d \in Ctas, NEW s \in Lanes PROVE OutStage(<<d, s>>)'
  <2>1. OutStage(<<d, s>>)
    BY DEF OutInv
  <2>2. OpenClosesOf(word[<<d, s>>])' = OpenClosesOf(word[<<d, s>>])
    BY <1>2 DEF OpenClosesOf, Text
  <2>3. CASE <<d, s>> = <<c, 0>>
    BY <1>1, <1>2, <2>3 DEF OutStage, Working
  <2>4. CASE <<d, s>> # <<c, 0>>
    BY <1>1, <1>2, <1>4, <2>1, <2>2, <2>4 DEF OutStage, Working
  <2> QED BY <2>3, <2>4
<1>9. pc'[<<1, 0>>] = "exit" => next_task' >= TaskCount'
  <2>1. 1 \in Ctas /\ TaskCount \in Nat
    BY <1>1, SomeTask
  <2>2. pc'[<<1, 0>>] = "exit" => pc[<<1, 0>>] = "exit"
    BY <1>1, <1>2, <2>1
  <2> QED BY <1>1, <1>2, <1>3, <1>4, <2>1, <2>2 DEF OutInv
<1>10. ErrorsAreFlagged'
  BY <1>2 DEF OutInv, ErrorsAreFlagged, Flagged, Text
<1> QED BY <1>7, <1>8, <1>9, <1>10 DEF OutInv

\* A CTA lets go of its ticket when all its words are finished.
LEMMA OutEndBarrier ==
  ASSUME OutInv, OwnInv', FreshInv', NEW c \in Ctas, EndBarrier(c)
  PROVE  OutInv'
<1> USE DEF host, classify, strings, outputs, locals, tickets
<1>1. /\ pc \in [Ctas \X Lanes -> PcValues] /\ Layout /\ 0 \in Lanes /\ OwnInv
  BY FirstLane DEF OutInv, OwnInv, TypeInv, TypeOK
<1>2. /\ \A t \in Lanes : pc[<<c, t>>] = "filtered" /\ pc'[<<c, t>>] \in {"fetch", "fetched"}
      /\ pc'[<<c, 0>>] = "fetch"
      /\ \A d \in Ctas, t \in Lanes : d # c => pc'[<<d, t>>] = pc[<<d, t>>]
      /\ UNCHANGED <<batch, tasks, launch, epoch, structural_bitmap, open_close_bitmap, utf_errors,
                     in_string_ready, word, published, next_task, task_position>>
  BY <1>1 DEF EndBarrier, Barrier
<1>3. launch > 0
  BY <1>1, <1>2 DEF OutInv, FreshInv, Epochs
<1>4. TaskCount' = TaskCount /\ (\A p, s : Word(p, s)' = Word(p, s))
      /\ (\A x : OutputRight(x)' <=> OutputRight(x)) /\ (\A x : Raised(x)' <=> Raised(x))
  BY <1>2 DEF TaskCount, Word, OutputRight, Raised, Flagged, Text
<1>5. \A d \in Ctas : d # c => \A p : Holds(d, p)' <=> Holds(d, p)
  BY <1>1, <1>2 DEF Holds, HasTicket
<1>6. \A s \in Lanes : OutputRight(Word(task_position[c], s))
  <2> SUFFICES ASSUME NEW s \in Lanes PROVE OutputRight(Word(task_position[c], s))
    OBVIOUS
  <2>1. Working(<<c, s>>) /\ OutStage(<<c, s>>) /\ pc[<<c, s>>] = "filtered"
    BY <1>2 DEF Working, OutInv
  <2>2. word[<<c, s>>] = Word(task_position[c], s)
    BY <1>1, <2>1, WorkersHold
  <2> QED BY <2>1, <2>2 DEF OutStage
<1>7. TicketsServed'
  <2> SUFFICES ASSUME NEW p \in 0 .. TaskCount - 1, p < next_task,
                      \A d \in Ctas : ~Holds(d, p)'
               PROVE  \A s \in Lanes : OutputRight(Word(p, s))
    BY <1>2, <1>4 DEF TicketsServed
  <2>1. CASE Holds(c, p)
    BY <1>6, <2>1 DEF Holds
  <2>2. CASE ~Holds(c, p)
    BY <1>3, <1>5, <2>2 DEF OutInv, TicketsServed
  <2> QED BY <2>1, <2>2
<1>8. ASSUME NEW d \in Ctas, NEW s \in Lanes PROVE OutStage(<<d, s>>)'
  <2>1. OutStage(<<d, s>>)
    BY DEF OutInv
  <2>2. OpenClosesOf(word[<<d, s>>])' = OpenClosesOf(word[<<d, s>>])
    BY <1>2 DEF OpenClosesOf, Text
  <2>3. CASE d = c
    BY <1>2, <2>3 DEF OutStage, Working
  <2>4. CASE d # c
    BY <1>2, <1>4, <2>1, <2>2, <2>4 DEF OutStage, Working
  <2> QED BY <2>3, <2>4
<1>9. pc'[<<1, 0>>] = "exit" => next_task' >= TaskCount'
  <2>1. 1 \in Ctas /\ TaskCount \in Nat
    BY <1>1, SomeTask
  <2>2. pc'[<<1, 0>>] = "exit" => pc[<<1, 0>>] = "exit"
    BY <1>1, <1>2, <2>1
  <2> QED BY <1>2, <1>3, <1>4, <2>1, <2>2 DEF OutInv
<1>10. ErrorsAreFlagged'
  BY <1>2 DEF OutInv, ErrorsAreFlagged, Flagged, Text
<1> QED BY <1>7, <1>8, <1>9, <1>10 DEF OutInv

\* A thread only exits with a ticket past the end of the task list, and then
\* every ticket of the list has been handed out.
LEMMA OutTakeTask ==
  ASSUME OutInv, OwnInv', FreshInv', NEW c \in Ctas, NEW t \in Lanes, TakeTask(c, t)
  PROVE  OutInv'
<1> USE DEF host, classify, strings, outputs, locals, tickets
<1>1. /\ pc \in [Ctas \X Lanes -> PcValues] /\ word \in [Ctas \X Lanes -> Words(batch)]
      /\ task_position \in [Ctas -> Nat]
      /\ next_task \in Nat /\ Layout /\ 0 \in Lanes /\ OwnInv
  BY FirstLane DEF OutInv, OwnInv, TypeInv, TypeOK
<1>2. /\ pc[<<c, t>>] = "take" /\ pc'[<<c, t>>] \in {"exit", "classify"}
      /\ pc'[<<c, t>>] = "exit" => task_position[c] >= TaskCount
      /\ \A d \in Ctas, s \in Lanes : <<d, s>> # <<c, t>> =>
             pc'[<<d, s>>] = pc[<<d, s>>] /\ word'[<<d, s>>] = word[<<d, s>>]
      /\ UNCHANGED <<batch, tasks, launch, epoch, structural_bitmap, open_close_bitmap, utf_errors,
                     in_string_ready, published, next_task, task_position>>
  BY <1>1 DEF TakeTask
<1>3. launch > 0
  BY <1>2 DEF OutInv, FreshInv, Epochs
<1>4. TaskCount' = TaskCount /\ TaskCount \in Nat /\ (\A p, s : Word(p, s)' = Word(p, s))
      /\ (\A x : OutputRight(x)' <=> OutputRight(x)) /\ (\A x : Raised(x)' <=> Raised(x))
  BY <1>1, <1>2, TaskListFacts DEF TaskCount, Word, OutputRight, Raised, Flagged, Text
<1>5. \A d \in Ctas, p \in 0 .. TaskCount - 1 : Holds(d, p) => Holds(d, p)'
  <2> SUFFICES ASSUME NEW d \in Ctas, NEW p \in 0 .. TaskCount - 1, Holds(d, p)
               PROVE  Holds(d, p)'
    OBVIOUS
  <2>1. task_position[d] = p /\ p < TaskCount /\ HasTicket(d)
    BY <1>4 DEF Holds
  <2>2. CASE <<d, 0>> = <<c, t>>
    BY <1>1, <1>2, <1>4, <2>1, <2>2 DEF Holds, HasTicket
  <2>3. CASE <<d, 0>> # <<c, t>>
    BY <1>1, <1>2, <2>1, <2>3 DEF Holds, HasTicket
  <2> QED BY <2>2, <2>3
<1>6. TicketsServed'
  <2> SUFFICES ASSUME NEW p \in 0 .. TaskCount - 1, p < next_task,
                      \A d \in Ctas : ~Holds(d, p)'
               PROVE  \A s \in Lanes : OutputRight(Word(p, s))
    BY <1>2, <1>4 DEF TicketsServed
  <2> QED BY <1>3, <1>5 DEF OutInv, TicketsServed
<1>7. ASSUME NEW d \in Ctas, NEW s \in Lanes PROVE OutStage(<<d, s>>)'
  <2>1. OutStage(<<d, s>>)
    BY DEF OutInv
  <2>2. OpenClosesOf(word[<<d, s>>])' = OpenClosesOf(word'[<<d, s>>])
    BY <1>2 DEF OpenClosesOf, Text
  <2>3. CASE <<d, s>> = <<c, t>>
    BY <1>2, <2>3 DEF OutStage, Working
  <2>4. CASE <<d, s>> # <<c, t>>
    BY <1>2, <1>4, <2>1, <2>2, <2>4 DEF OutStage, Working
  <2> QED BY <2>3, <2>4
<1>8. pc'[<<1, 0>>] = "exit" => next_task' >= TaskCount'
  <2> SUFFICES ASSUME pc'[<<1, 0>>] = "exit" PROVE next_task >= TaskCount
    BY <1>2, <1>4
  <2>1. 1 \in Ctas
    BY <1>1, SomeTask
  <2>2. CASE <<1, 0>> = <<c, t>>
    <3>1. task_position[1] >= TaskCount /\ HasTicket(1)
      BY <1>2, <2>2 DEF HasTicket
    <3>2. task_position[1] < next_task
      BY <1>1, <2>1, <3>1 DEF OwnInv, TicketsDiffer
    <3>3. task_position[1] \in Nat
      BY <1>1, <2>1
    <3> QED BY <1>1, <1>4, <3>1, <3>2, <3>3
  <2>3. CASE <<1, 0>> # <<c, t>>
    BY <1>1, <1>2, <1>3, <2>1, <2>3 DEF OutInv
  <2> QED BY <2>2, <2>3
<1>9. ErrorsAreFlagged'
  BY <1>2 DEF OutInv, ErrorsAreFlagged, Flagged, Text
<1> QED BY <1>6, <1>7, <1>8, <1>9 DEF OutInv

LEMMA OutStep == OutInv /\ [Next]_vars => OutInv'
<1> SUFFICES ASSUME OutInv, [Next]_vars PROVE OutInv'
  OBVIOUS
<1>1. OwnInv' /\ FreshInv'
  BY OwnStep, FreshStep DEF OutInv
<1>2. CASE Launch
  BY <1>1, <1>2, OutLaunch
<1>3. ASSUME NEW c \in Ctas, CtaStep(c) PROVE OutInv'
  BY <1>1, <1>3, OutFetch, OutEndBarrier, OutQuietActions, OutQuietStep DEF CtaStep
<1>4. ASSUME NEW c \in Ctas, NEW t \in Lanes, ThreadStep(c, t) PROVE OutInv'
  BY <1>1, <1>4, OutTakeTask, OutWriteActions, OutQuietActions, OutQuietStep
     DEF ThreadStep
<1>5. CASE UNCHANGED vars
  BY <1>1, <1>5 DEF vars, host, strings, outputs, locals, tickets, OutInv, OutStage,
     Working, TicketsServed, Holds, HasTicket, OutputRight, Raised, ErrorsAreFlagged,
     Flagged, TaskCount, Word, OpenClosesOf, Text
<1> QED BY <1>2, <1>3, <1>4, <1>5 DEF Next

\* The bitmaps copied back after a launch agree with the sequential reference,
\* for every batch, task order, geometry and number of launches.
THEOREM OutputIsCorrect == Spec => []OutputCorrect
<1> QED BY OutInit, OutStep, OutGivesCorrect, PTL DEF Spec

-----------------------------------------------------------------------------
(***************************************************************************)
(* Nobody waits for a word that no CTA has taken.                          *)
(***************************************************************************)

\* The task of a word's predecessor does not come later in the list.
LEMMA PredecessorsTask ==
  ASSUME Layout,
         NEW p \in 0 .. TaskCount - 1, NEW t \in Lanes,
         NEW q \in 0 .. TaskCount - 1, NEW s \in Lanes,
         Word(q, s) = Back(Word(p, t), 1)
  PROVE  q <= p
<1> DEFINE a == tasks[p].chunk
           b == tasks[q].chunk
           n == ChunkCount(batch[tasks[p].input])
<1>1. /\ tasks[q].input = tasks[p].input
      /\ b * Threads + s = a * Threads + t - 1
  <2>1. \A x, l : Word(x, l)[1] = tasks[x].input
                 /\ Word(x, l)[2] = tasks[x].chunk * Threads + l
    BY DEF Word
  <2>2. \A w : Back(w, 1)[1] = w[1] /\ Back(w, 1)[2] = w[2] - 1
    BY DEF Back
  <2>3. Word(q, s)[1] = Word(p, t)[1] /\ Word(q, s)[2] = Word(p, t)[2] - 1
    BY <2>2
  <2>4. Word(p, t)[1] = tasks[p].input /\ Word(p, t)[2] = a * Threads + t
    BY <2>1
  <2>5. Word(q, s)[1] = tasks[q].input /\ Word(q, s)[2] = b * Threads + s
    BY <2>1
  <2>6. a \in Int /\ b \in Int
    BY TaskListFacts
  <2>7. Threads \in Int /\ s \in Int /\ t \in Int
    BY GeometryAssumption DEF Lanes
  <2> HIDE DEF a, b
  <2>8. a * Threads \in Int /\ b * Threads \in Int
    BY <2>6, <2>7
  <2> QED BY <2>3, <2>4, <2>5, <2>7, <2>8
<1>2. /\ p \in DOMAIN tasks /\ q \in DOMAIN tasks /\ TaskCount \in Nat
      /\ tasks[p].input \in DOMAIN batch /\ a \in 0 .. n - 1 /\ b \in 0 .. n - 1
  BY <1>1, TaskListFacts
<1>3. n \in Nat /\ tasks[p].input \in Nat /\ Threads \in Nat \ {0}
      /\ s \in 0 .. Threads - 1 /\ t \in 0 .. Threads - 1
  BY SMTT(30), <1>2, BatchFacts, GeometryAssumption DEF Layout, Lanes
<1>4. ~(a < b)
  <2> SUFFICES ASSUME a < b PROVE FALSE
    OBVIOUS
  <2> DEFINE d == b - a - 1
  <2>1. a \in Nat /\ b \in Nat /\ d \in Nat /\ b = a + 1 + d
    BY <1>2
  <2> HIDE DEF a, b, d
  <2>2. b * Threads = a * Threads + Threads + d * Threads /\ d * Threads \in Nat
        /\ a * Threads \in Nat
    BY <1>3, <2>1
  <2> QED BY <1>1, <1>3, <2>2
<1>5. p < q => Precedes(tasks[p], tasks[q])
  BY <1>2 DEF Layout, IsTaskList
<1> QED BY <1>1, <1>2, <1>3, <1>4, <1>5 DEF Precedes

\* Tickets are handed out in the order of the list, so the predecessor's task
\* has been taken: its words are published, or its CTA still holds it.
LEMMA OutGivesNoOrphan == OutInv => NoOrphanWait
<1> SUFFICES ASSUME OutInv, NEW c \in Ctas, NEW t \in Lanes,
                    pc[<<c, t>>] \in {"poll", "vote"},
                    word[<<c, t>>][2] # 0,
                    ~Ready(in_string_ready[Back(word[<<c, t>>], 1)])
             PROVE  \/ \E m \in Ctas \X Lanes :
                         Working(m) /\ word[m] = Back(word[<<c, t>>], 1)
                    \/ \E m \in Ctas \X Lanes :
                         /\ pc[m] \in {"take", "fetched"} /\ task_position[m[1]] < TaskCount
                         /\ Word(task_position[m[1]], m[2]) = Back(word[<<c, t>>], 1)
  BY DEF NoOrphanWait
<1> DEFINE w == word[<<c, t>>]
           p == task_position[c]
<1>1. /\ Layout /\ OwnInv /\ TypeInv /\ w \in Words(batch) /\ launch > 0
      /\ next_task \in Nat /\ Working(<<c, t>>)
  BY DEF OutInv, OwnInv, FreshInv, Epochs, TypeInv, TypeOK, Working
<1>2. p \in 0 .. TaskCount - 1 /\ Holds(c, p) /\ w = Word(p, t)
  BY <1>1, WorkersHold
<1>3. PICK q \in 0 .. TaskCount - 1, s \in Lanes : Back(w, 1) = Word(q, s)
  BY <1>1, WordFacts, EveryWordHasATask
<1>4. q < next_task
  <2>1. p < next_task
    BY <1>1, <1>2 DEF OwnInv, TicketsDiffer, Holds
  <2>2. q <= p
    BY <1>1, <1>2, <1>3, PredecessorsTask
  <2>3. TaskCount \in Nat
    BY <1>1, TaskListFacts
  <2> QED BY <1>1, <1>2, <2>1, <2>2, <2>3
<1>5. PICK d \in Ctas : Holds(d, q)
  BY <1>1, <1>3, <1>4 DEF OutInv, TicketsServed, OutputRight, Ready
<1>6. /\ HasTicket(d) /\ task_position[d] = q /\ q < TaskCount
      /\ Phase(d)
  BY <1>1, <1>5, TaskListFacts DEF Holds, OwnInv
<1>7. pc[<<d, s>>] \in {"take", "fetched"} \/ Working(<<d, s>>)
  BY <1>1, <1>6, FirstLane, TaskListFacts DEF Phase, HasTicket
<1>8. CASE Working(<<d, s>>)
  BY <1>1, <1>3, <1>6, <1>8 DEF OwnInv, WordAgrees
<1>9. CASE pc[<<d, s>>] \in {"take", "fetched"}
  BY <1>3, <1>6, <1>9
<1> QED BY <1>7, <1>8, <1>9

\* A thread in the readiness loop waits for a thread that is there to answer,
\* whatever the batch and however few CTAs are resident: this is why the
\* order of the task list keeps the kernel from hanging.
THEOREM WaitsAreAnswered == Spec => []NoOrphanWait
<1> QED BY OutInit, OutStep, OutGivesNoOrphan, PTL DEF Spec

-----------------------------------------------------------------------------
(***************************************************************************)
(* The kernel implements PrefixChain: a word counts as published when its  *)
(* flag has the epoch of the launch.                                       *)
(***************************************************************************)
PublishedWords == {v \in Words(batch) : launch > 0 /\ in_string_ready[v] = epoch}

PublishedStrings == [w \in PublishedWords |-> in_string_bitmap[w]]

\* A thread selects its string word behind a published predecessor; flags are
\* not taken back within a launch, so it is still published when its own is.
AfterPredecessor(l) == pc[l] = "selected" => PredecessorReady(word[l])

ChainInv ==
  /\ OutInv
  /\ \A c \in Ctas, t \in Lanes : AfterPredecessor(<<c, t>>)

\* Steps within a launch that neither select nor publish a string word.
ChainQuiet ==
  /\ UNCHANGED <<batch, launch, epoch, in_string_bitmap, in_string_ready>>
  /\ \A c \in Ctas, t \in Lanes :
       pc'[<<c, t>>] = "selected" =>
         pc[<<c, t>>] = "selected" /\ word'[<<c, t>>] = word[<<c, t>>]

LEMMA ChainQuietActions ==
  ASSUME TypeInv
  PROVE  /\ \A c \in Ctas : CtaStep(c) => ChainQuiet
         /\ \A c \in Ctas, t \in Lanes :
              TakeTask(c, t) \/ Classify(c, t) \/ PublishClass(c, t)
              \/ NoIncomingSlash(c, t) \/ Lookback(c, t) \/ PollInVain(c, t)
              \/ Filter(c, t) => ChainQuiet
<1> USE DEF host, classify, strings, outputs, locals, tickets
<1>1. /\ pc \in [Ctas \X Lanes -> PcValues] /\ word \in [Ctas \X Lanes -> Words(batch)]
      /\ 0 \in Lanes
  BY FirstLane DEF TypeInv, TypeOK
<1>2. ASSUME NEW c \in Ctas, FetchTask(c) PROVE ChainQuiet
  BY <1>1, <1>2 DEF FetchTask, ChainQuiet
<1>3. ASSUME NEW c \in Ctas, FetchBarrier(c) PROVE ChainQuiet
  BY <1>1, <1>3 DEF FetchBarrier, Barrier, ChainQuiet
<1>4. ASSUME NEW c \in Ctas, EndBarrier(c) PROVE ChainQuiet
  <2>1. \A d \in Ctas, s \in Lanes :
          IF d = c THEN pc'[<<d, s>>] # "selected" ELSE pc'[<<d, s>>] = pc[<<d, s>>]
    BY <1>1, <1>4 DEF EndBarrier, Barrier
  <2> QED BY <1>4, <2>1 DEF EndBarrier, Barrier, ChainQuiet
<1>5. ASSUME NEW c \in Ctas, NEW n \in Warps, Vote(c, n) PROVE ChainQuiet
  BY <1>1, <1>5 DEF Vote, ChainQuiet
<1>6. ASSUME NEW c \in Ctas, NEW t \in Lanes, TakeTask(c, t) PROVE ChainQuiet
  BY <1>1, <1>6 DEF TakeTask, ChainQuiet
<1>7. ASSUME NEW c \in Ctas, NEW t \in Lanes, Classify(c, t) PROVE ChainQuiet
  BY <1>1, <1>7 DEF Classify, ChainQuiet
<1>8. ASSUME NEW c \in Ctas, NEW t \in Lanes, PublishClass(c, t) PROVE ChainQuiet
  BY <1>1, <1>8 DEF PublishClass, ChainQuiet
<1>9. ASSUME NEW c \in Ctas, NEW t \in Lanes, NoIncomingSlash(c, t) PROVE ChainQuiet
  BY <1>1, <1>9 DEF NoIncomingSlash, SelectQuotes, ChainQuiet
<1>10. ASSUME NEW c \in Ctas, NEW t \in Lanes, Lookback(c, t) PROVE ChainQuiet
  BY <1>1, <1>10 DEF Lookback, SelectQuotes, ChainQuiet
<1>11. ASSUME NEW c \in Ctas, NEW t \in Lanes, PollInVain(c, t) PROVE ChainQuiet
  BY <1>1, <1>11 DEF PollInVain, ChainQuiet
<1>12. ASSUME NEW c \in Ctas, NEW t \in Lanes, Filter(c, t) PROVE ChainQuiet
  BY <1>1, <1>12 DEF Filter, ChainQuiet
<1> QED BY <1>2, <1>3, <1>4, <1>5, <1>6, <1>7, <1>8, <1>9, <1>10, <1>11, <1>12 DEF CtaStep

LEMMA ChainStep == ChainInv /\ [Next]_vars => ChainInv'
<1> SUFFICES ASSUME ChainInv, [Next]_vars PROVE ChainInv'
  OBVIOUS
<1> USE DEF host, classify, strings, outputs, locals, tickets
<1>1. OutInv' /\ TypeInv
  BY OutStep DEF ChainInv, OutInv, OwnInv
<1>2. /\ pc \in [Ctas \X Lanes -> PcValues] /\ word \in [Ctas \X Lanes -> Words(batch)]
      /\ in_string_ready \in [Words(batch) -> 0 .. MaxEpoch]
  BY <1>1 DEF TypeInv, TypeOK
<1> SUFFICES ASSUME NEW d \in Ctas, NEW s \in Lanes, pc'[<<d, s>>] = "selected"
             PROVE  PredecessorReady(word[<<d, s>>])'
  BY <1>1 DEF ChainInv, AfterPredecessor
<1>3. pc[<<d, s>>] = "selected" => PredecessorReady(word[<<d, s>>])
  BY DEF ChainInv, AfterPredecessor
<1>4. CASE Launch
  BY <1>4 DEF Launch
<1>5. CASE ChainQuiet
  BY <1>3, <1>5 DEF ChainQuiet, PredecessorReady, Ready, Back
<1>6. ASSUME NEW c \in Ctas, NEW t \in Lanes, SelectString(c, t)
      PROVE  PredecessorReady(word[<<d, s>>])'
  <2>1. /\ UNCHANGED <<word, epoch, in_string_ready>>
        /\ PredecessorReady(word[<<c, t>>])
        /\ <<d, s>> # <<c, t>> => pc'[<<d, s>>] = pc[<<d, s>>]
    BY <1>2, <1>6 DEF SelectString
  <2> QED BY <1>3, <2>1 DEF PredecessorReady, Ready, Back
<1>7. ASSUME NEW c \in Ctas, NEW t \in Lanes, PublishString(c, t)
      PROVE  PredecessorReady(word[<<d, s>>])'
  <2> DEFINE w == word[<<d, s>>]
  <2>1. /\ UNCHANGED <<word, epoch>> /\ pc[<<d, s>>] = "selected"
        /\ in_string_ready' = [in_string_ready EXCEPT ![word[<<c, t>>]] = epoch]
    BY <1>2, <1>7 DEF PublishString
  <2>2. w[2] # 0 => Back(w, 1) \in Words(batch) /\ in_string_ready[Back(w, 1)] = epoch
    BY <1>1, <1>2, <1>3, <2>1, WordFacts DEF TypeInv, PredecessorReady, Ready
  <2>3. w[2] # 0 => in_string_ready'[Back(w, 1)] = epoch
    BY <1>2, <2>1, <2>2
  <2> QED BY <2>1, <2>3 DEF PredecessorReady, Ready, Back
<1>8. CASE UNCHANGED vars
  BY <1>3, <1>8 DEF vars, PredecessorReady, Ready, Back
<1> QED BY <1>1, <1>4, <1>5, <1>6, <1>7, <1>8, ChainQuietActions DEF Next, ThreadStep

LEMMA ChainInit == Init => ChainInv
<1> SUFFICES ASSUME Init PROVE ChainInv
  OBVIOUS
<1>1. \A c \in Ctas, t \in Lanes : pc[<<c, t>>] = "exit"
  BY DEF Init
<1> QED BY <1>1, OutInit DEF ChainInv, AfterPredecessor

\* The abstract module's in-string word is the same definition.
LEMMA SameStringWord ==
  \A text, w : Chain!InStringWord(text, w) = InStringWord(text, w)
<1>1. \A text, p, k : Chain!MaximalSlashRun(text, p, k) <=> MaximalSlashRun(text, p, k)
  BY DEF Chain!MaximalSlashRun, MaximalSlashRun
<1>2. \A text, p : Chain!EscapedAt(text, p) <=> EscapedAt(text, p)
  BY <1>1 DEF Chain!EscapedAt, EscapedAt
<1>3. \A text : Chain!RealQuotes(text) = RealQuotes(text)
  BY <1>2 DEF Chain!RealQuotes, RealQuotes
<1>4. \A text, p : Chain!QuotesBefore(text, p) = QuotesBefore(text, p)
  BY <1>3 DEF Chain!QuotesBefore, QuotesBefore
<1>5. \A text, p : Chain!IncomingString(text, p) <=> IncomingString(text, p)
  <2>1. \A S : Chain!Cardinality(S) = Cardinality(S)
    BY DEF Chain!Cardinality, Cardinality
  <2> QED BY <1>4, <2>1 DEF Chain!IncomingString, IncomingString
<1>6. Chain!Bits = Bits
  BY DEF Chain!Bits, Bits
<1> QED BY <1>5, <1>6 DEF Chain!InStringWord, InStringWord

\* The next launch starts when every word has been published, and no flag has
\* its epoch yet.
LEMMA LaunchIsNextLaunch == ChainInv /\ ChainInv' /\ Launch => Chain!NextLaunch
<1> SUFFICES ASSUME ChainInv, ChainInv', Launch PROVE Chain!NextLaunch
  OBVIOUS
<1> USE DEF host, classify, strings, outputs, locals, tickets
<1>1. Layout /\ FreshInv /\ OutInv /\ launch \in Nat
  BY EpochFacts DEF ChainInv, OutInv, OwnInv, TypeInv, TypeOK
<1>2. launch' = launch + 1 /\ UNCHANGED <<batch, in_string_bitmap, in_string_ready>>
      /\ \A l \in Ctas \X Lanes : pc[l] = "exit"
  BY DEF Launch
<1>3. launch = 0 \/ PublishedWords = Words(batch)
  <2> SUFFICES ASSUME launch > 0, NEW w \in Words(batch) PROVE in_string_ready[w] = epoch
    BY <1>1 DEF PublishedWords
  <2>1. PICK p \in 0 .. TaskCount - 1, t \in Lanes : w = Word(p, t)
    BY <1>1, EveryWordHasATask
  <2>2. \A c \in Ctas : ~Holds(c, p)
    BY <1>2, FirstLane DEF Holds, HasTicket
  <2>3. p < next_task
    BY <1>1, <1>2, SomeTask, FirstLane DEF OutInv, OwnInv, TypeInv, TypeOK
  <2> QED BY <1>1, <2>1, <2>2, <2>3 DEF OutInv, TicketsServed, OutputRight
<1>4. PublishedWords' = {}
  <2>1. /\ launch' \in 1 .. Warmups + Runs /\ epoch' = EpochOfLaunch(launch')
        /\ launch' = launch + 1
    BY <1>1, <1>2, EpochFacts DEF Launch, ChainInv, OutInv, OwnInv, TypeInv, TypeOK
  <2>2. \A n \in 1 .. launch : EpochOfLaunch(n) # epoch'
    BY <1>1, <2>1, EpochFacts
  <2>3. epoch' # 0
    BY <2>1, EpochFacts
  <2>4. \A w \in Words(batch) : in_string_ready[w] # epoch'
    BY <1>1, <2>2, <2>3 DEF FreshInv, FlagRange, OfALaunch
  <2> QED BY <1>2, <2>4 DEF PublishedWords
<1>5. PublishedStrings' = [w \in {} |-> {}] /\ DOMAIN PublishedStrings = PublishedWords
  BY <1>4 DEF PublishedStrings
<1> QED BY <1>2, <1>3, <1>5 DEF Chain!NextLaunch, PublishedStrings, PublishedWords

\* Within a launch only PublishString adds a word; to store the string of a
\* published word again changes nothing.
LEMMA StepRefines ==
  ASSUME ChainInv, ChainInv', [Next]_vars
  PROVE  [Chain!Next]_<<batch, launch, PublishedStrings>>
<1> USE DEF host, classify, strings, outputs, locals, tickets
<1>1. /\ Layout /\ FreshInv /\ OutInv /\ TypeInv /\ launch \in Nat
      /\ pc \in [Ctas \X Lanes -> PcValues] /\ word \in [Ctas \X Lanes -> Words(batch)]
      /\ in_string_bitmap \in [Words(batch) -> SUBSET Bits]
      /\ in_string_ready \in [Words(batch) -> 0 .. MaxEpoch]
  BY SMTT(30), EpochFacts DEF ChainInv, OutInv, OwnInv, TypeInv, TypeOK
<1>2. CASE Launch
  BY <1>2, LaunchIsNextLaunch DEF Chain!Next
<1>3. CASE ChainQuiet
  BY <1>3 DEF ChainQuiet, PublishedStrings, PublishedWords
<1>4. ASSUME NEW c \in Ctas, NEW t \in Lanes, SelectString(c, t)
      PROVE  UNCHANGED <<batch, launch, PublishedStrings>>
  <2> DEFINE w == word[<<c, t>>]
  <2>1. /\ UNCHANGED <<batch, launch, epoch, in_string_ready, word>>
        /\ \A v \in Words(batch) : v # w => in_string_bitmap'[v] = in_string_bitmap[v]
    BY <1>1, <1>4 DEF SelectString
  <2>2. ASSUME w \in PublishedWords
        PROVE  in_string_bitmap'[w] = in_string_bitmap[w]
    <3>1. launch > 0 /\ in_string_ready[w] = epoch /\ w \in Words(batch)
      BY <2>2 DEF PublishedWords
    <3>2. in_string_bitmap[w] = InStringWord(Text(w), w[2])
      BY <1>1, <3>1 DEF FreshInv, FlagsFollow, Payloads
    <3>3. in_string_bitmap'[w] = InStringWord(Text(w), w[2])
      BY <2>1, <3>1 DEF ChainInv, OutInv, FreshInv, FlagsFollow, Payloads, Text
    <3> QED BY <3>2, <3>3
  <2>3. PublishedWords' = PublishedWords /\ PublishedWords \subseteq Words(batch)
    BY <2>1 DEF PublishedWords
  <2>4. \A v \in PublishedWords : in_string_bitmap'[v] = in_string_bitmap[v]
    BY <2>1, <2>2, <2>3
  <2> QED BY <2>1, <2>3, <2>4 DEF PublishedStrings
<1>5. ASSUME NEW c \in Ctas, NEW t \in Lanes, PublishString(c, t)
      PROVE  \/ UNCHANGED <<batch, launch, PublishedStrings>>
             \/ \E v \in Words(batch) : Chain!Publish(v)
  <2>0. PICK w \in Words(batch) : w = word[<<c, t>>]
    BY <1>1
  <2>1. /\ UNCHANGED <<batch, launch, epoch, in_string_bitmap, word>>
        /\ in_string_ready' = [in_string_ready EXCEPT ![w] = epoch]
        /\ pc[<<c, t>>] = "selected"
    BY <1>1, <1>5, <2>0 DEF PublishString
  <2>2. launch > 0
    BY <1>1, <2>1 DEF FreshInv, Epochs
  <2>3. PublishedWords' = PublishedWords \cup {w}
    BY <1>1, <2>1, <2>2 DEF PublishedWords
  <2>4. CASE w \in PublishedWords
    BY <2>1, <2>3, <2>4 DEF PublishedStrings
  <2>5. CASE w \notin PublishedWords
    <3>1. w[2] # 0 => <<w[1], w[2] - 1>> \in PublishedWords
      BY <1>1, <2>0, <2>1, <2>2, WordFacts
         DEF ChainInv, AfterPredecessor, PredecessorReady, Ready, Back, PublishedWords
    <3>2. in_string_bitmap[w] = InStringWord(batch[w[1]], w[2])
      BY <1>1, <2>0, <2>1, <2>2 DEF FreshInv, StageOf, Payloads, Text
    <3>3. PublishedStrings' =
            [v \in PublishedWords \cup {w} |->
               IF v = w THEN InStringWord(batch[w[1]], w[2]) ELSE PublishedStrings[v]]
      BY <2>1, <2>3, <2>5, <3>2 DEF PublishedStrings
    <3>4. DOMAIN PublishedStrings = PublishedWords
      BY DEF PublishedStrings
    <3>5. Chain!Publish(w)
      BY <2>1, <2>2, <2>5, <3>1, <3>3, <3>4, SameStringWord
         DEF Chain!Publish, PublishedStrings, PublishedWords
    <3> QED BY <3>5
  <2> QED BY <2>4, <2>5
<1>6. CASE UNCHANGED vars
  BY <1>6 DEF vars, PublishedStrings, PublishedWords
<1> QED
  BY <1>1, <1>2, <1>3, <1>4, <1>5, <1>6, ChainQuietActions DEF Next, ThreadStep, Chain!Next

\* Every launch of the kernel publishes the words once each, behind their
\* predecessors and with the specified values: PublishString is the abstract
\* step, Launch the abstract next launch, and every other step a stutter.
THEOREM EnumerationImplementsChain == Spec => ImplementsChain
<1>1. Init => Chain!Init
  <2> SUFFICES ASSUME Init PROVE Chain!Init
    OBVIOUS
  <2>1. launch = 0 /\ PublishedWords = {}
    BY DEF Init, PublishedWords
  <2>2. PublishedStrings = [w \in {} |-> {}]
    BY <2>1 DEF PublishedStrings
  <2> QED BY <2>1, <2>2 DEF Chain!Init, PublishedStrings, PublishedWords
<1>2. ChainInv /\ ChainInv' /\ [Next]_vars
        => [Chain!Next]_<<batch, launch, PublishedStrings>>
  BY StepRefines
<1> QED
  BY <1>1, <1>2, ChainInit, ChainStep, PTL
     DEF Spec, ImplementsChain, Chain!Spec, PublishedStrings, PublishedWords

=============================================================================
