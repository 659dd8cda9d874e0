--------------------------- MODULE CuEnumeration ----------------------------
(***************************************************************************)
(* cuJSON per-thread enumeration (benchmarks/cujson/src/enumeration.cu).   *)
(*                                                                         *)
(* One cooperative launch keeps a fixed set of CTAs resident.  Each takes  *)
(* tickets from a shared counter until the task list is exhausted; a task  *)
(* is one chunk (one word per thread) of one input.  A thread classifies   *)
(* its word, publishes the backslash bitmap, looks back for the escape     *)
(* that enters its word, then waits for the in-string word of its          *)
(* predecessor and publishes its own.  Readiness flags hold the epoch of   *)
(* the launch that wrote the payload and are never cleared; the bitmaps    *)
(* are those of the same inputs, launch after launch.                      *)
(*                                                                         *)
(* Every access to memory another thread can see is an action of its own,  *)
(* except that the last load of a wait loop and the load it guards are one *)
(* step.  Payload and flag stores are separate steps in program order:     *)
(* release and acquire on the flags are what lets the reader rely on it.   *)
(* The quote and operator bitmaps, which only their own thread reads back, *)
(* are recomputed instead of stored; the error words, which only main()    *)
(* reads, are updated together with the payload.                           *)
(***************************************************************************)
EXTENDS JsonText, Sequences

CONSTANTS
  Batches,           \* sequences of texts a run may be given
  ResidentCapacity,  \* CTAs the device can keep resident at once
  Threads,           \* threads of a CTA = words of a chunk
  WarpSize,
  Warmups, Runs,     \* launches: warmups, then measured runs
  FirstRunEpoch,     \* 100 in the code
  MaxEpoch,          \* MAX_EPOCH, 0xffffff00 in the code
  FlaggedWords(_)    \* the words of an input that the UTF-8 check finds in error

ASSUME GeometryAssumption ==
  /\ ResidentCapacity \in Nat \ {0}
  /\ Threads \in Nat \ {0}
  /\ WarpSize \in Nat \ {0} /\ Threads % WarpSize = 0

ASSUME BatchesAssumption ==
  \A b \in Batches :
    /\ Len(b) \in Nat \ {0} /\ DOMAIN b = 1 .. Len(b)
    /\ \A i \in DOMAIN b : IsText(b[i])

\* main() refuses RUNS > MAX_EPOCH - 100 before the first of three warmups.
ASSUME EpochAssumption ==
  /\ Warmups \in Nat \ {0} /\ Runs \in Nat \ {0}
  /\ FirstRunEpoch \in Nat /\ FirstRunEpoch > Warmups
  /\ MaxEpoch \in Nat /\ Runs <= MaxEpoch - FirstRunEpoch

VARIABLES
  batch,             \* the inputs, as main() has loaded them
  tasks,             \* the task list, position -> [input, chunk]
  launch,            \* number of launches so far
  epoch,             \* the kernel argument of the current launch
  next_task,         \* the ticket counter in global memory
  slash_bitmap, classify_ready,
  in_string_bitmap, in_string_ready,
  structural_bitmap, open_close_bitmap,
  utf_errors,        \* one word per input
  task_position,     \* __shared__, one per CTA
  pc,                \* of every thread
  word,              \* the word a thread works on, <<input, word_id>>
  previous,          \* previous_word, the lookback cursor
  real_quote,
  published,         \* in_string_published
  wrote              \* history: the launch that last wrote each payload

host     == <<batch, tasks, launch, epoch>>
classify == <<slash_bitmap, classify_ready>>
strings  == <<in_string_bitmap, in_string_ready>>
outputs  == <<structural_bitmap, open_close_bitmap, utf_errors>>
locals   == <<word, previous, real_quote, published>>
tickets  == <<next_task, task_position>>
vars     == <<host, classify, strings, outputs, locals, tickets, pc, wrote>>

Ctas  == 1 .. ResidentCapacity
Lanes == 0 .. Threads - 1

-----------------------------------------------------------------------------
(***************************************************************************)
(* Host side: layout and task list.                                        *)
(***************************************************************************)

\* One padding word at least, then up to a whole number of chunks.
ChunkCount(text) == (WordCount(text) + 1 + Threads - 1) \div Threads

PaddedWords(text) == ChunkCount(text) * Threads

Words(b) == UNION {{i} \X (0 .. PaddedWords(b[i]) - 1) : i \in DOMAIN b}

Tasks(b) ==
  UNION {[input: {i}, chunk: 0 .. ChunkCount(b[i]) - 1] : i \in DOMAIN b}

\* Mutant: all chunks of an input in a row, its last chunk first.
Precedes_Reversed(s, t) ==
  \/ s.chunk > t.chunk
  \/ s.chunk = t.chunk /\ s.input < t.input

\* Round robin over the inputs, one chunk of each at a time.
Precedes(s, t) ==
  \/ s.chunk < t.chunk
  \/ s.chunk = t.chunk /\ s.input < t.input

\* The list the two nested push_back loops build.
IsTaskList(list, b) ==
  /\ \A t \in Tasks(b) : \E k \in DOMAIN list : list[k] = t
  /\ \A j, k \in DOMAIN list : j < k => Precedes(list[j], list[k])

TaskCount == Cardinality(DOMAIN tasks)

\* min(total_chunks, resident_capacity)
ResidentBlocks == IF TaskCount < ResidentCapacity THEN TaskCount ELSE ResidentCapacity

\* Mutant: the measured runs continue from the last warmup's epoch.
EpochOfLaunch_Overlap(n) == IF n <= Warmups THEN n ELSE n - 1

\* Warmup w runs with epoch w + 1, measured run r with epoch r + 100.
EpochOfLaunch(n) ==
  IF n <= Warmups THEN n ELSE FirstRunEpoch + (n - Warmups - 1)

\* Mutant: a chunk is taken to start one word too late.
Word_OffByOne(position, t) ==
  <<tasks[position].input, tasks[position].chunk * Threads + t + 1>>

Word(position, t) ==
  <<tasks[position].input, tasks[position].chunk * Threads + t>>

Text(w) == batch[w[1]]

Slashes(w)    == SlashWord(Text(w), w[2])
Quotes(w)     == QuoteWord(Text(w), w[2])
OperatorsOf(w)  == OperatorWord(Text(w), w[2])
OpenClosesOf(w) == OpenCloseWord(Text(w), w[2])

\* fullCujsonValidateUtf8FourBytes (Utf8Check) finds an error in the word.
Flagged(w) == w[2] \in FlaggedWords(Text(w))

Back(w, n) == <<w[1], w[2] - n>>

-----------------------------------------------------------------------------
Init ==
  /\ batch \in Batches
  /\ tasks \in {list \in [0 .. Cardinality(Tasks(batch)) - 1 -> Tasks(batch)] :
                  IsTaskList(list, batch)}
  /\ launch = 0 /\ epoch = 0 /\ next_task = 0
  \* cudaMalloc leaves the payloads undefined; cudaMemset clears the flags
  /\ \E garbage \in {{}, Bits} :
       /\ slash_bitmap      = [w \in Words(batch) |-> garbage]
       /\ in_string_bitmap  = [w \in Words(batch) |-> garbage]
       /\ structural_bitmap = [w \in Words(batch) |-> garbage]
       /\ open_close_bitmap = [w \in Words(batch) |-> garbage]
  /\ classify_ready  = [w \in Words(batch) |-> 0]
  /\ in_string_ready = [w \in Words(batch) |-> 0]
  /\ utf_errors = [i \in DOMAIN batch |-> FALSE]
  /\ wrote = [w \in Words(batch) |-> [slash |-> 0, string |-> 0]]
  /\ task_position = [c \in Ctas |-> 0]
  /\ pc         = [l \in Ctas \X Lanes |-> "exit"]
  /\ word       = [l \in Ctas \X Lanes |-> <<1, 0>>]
  /\ previous   = [l \in Ctas \X Lanes |-> 0]
  /\ real_quote = [l \in Ctas \X Lanes |-> {}]
  /\ published  = [l \in Ctas \X Lanes |-> FALSE]

\* A cooperative launch on the default stream, after the ticket counter has
\* been cleared: it starts when the launch before it has ended.
Launch ==
  /\ \A l \in Ctas \X Lanes : pc[l] = "exit"
  /\ launch < Warmups + Runs
  /\ launch' = launch + 1
  /\ epoch' = EpochOfLaunch(launch + 1)
  /\ next_task' = 0
  /\ pc' = [l \in Ctas \X Lanes |->
              IF l[1] > ResidentBlocks THEN "exit"
              ELSE IF l[2] = 0 THEN "fetch" ELSE "fetched"]
  /\ UNCHANGED <<batch, tasks, classify, strings, outputs, locals,
                 task_position, wrote>>

-----------------------------------------------------------------------------
(***************************************************************************)
(* The persistent loop of a CTA.                                           *)
(***************************************************************************)

\* Mutant: a load and a store instead of one atomicAdd, so that two CTAs may
\* leave with the same ticket.
AfterTicket_Lost(ticket) == {ticket, ticket + 1}

\* The values atomicAdd(next_task, 1) may leave in the counter.
AfterTicket(ticket) == {ticket + 1}

\* Thread 0: task_position = atomicAdd(next_task, 1)
FetchTask(c) ==
  /\ pc[<<c, 0>>] = "fetch"
  /\ task_position' = [task_position EXCEPT ![c] = next_task]
  /\ next_task' \in AfterTicket(next_task)
  /\ pc' = [pc EXCEPT ![<<c, 0>>] = "fetched"]
  /\ UNCHANGED <<host, classify, strings, outputs, locals, wrote>>

Barrier(c, from, to) ==
  /\ \A t \in Lanes : pc[<<c, t>>] = from
  /\ pc' = [l \in Ctas \X Lanes |-> IF l[1] = c THEN to[l[2]] ELSE pc[l]]
  /\ UNCHANGED <<host, classify, strings, outputs, locals, tickets, wrote>>

\* The __syncthreads after the fetch.
FetchBarrier(c) == Barrier(c, "fetched", [t \in Lanes |-> "take"])

TakeTask(c, t) ==
  /\ pc[<<c, t>>] = "take"
  /\ IF task_position[c] >= TaskCount
     THEN /\ pc' = [pc EXCEPT ![<<c, t>>] = "exit"]
          /\ UNCHANGED word
     ELSE /\ pc' = [pc EXCEPT ![<<c, t>>] = "classify"]
          /\ word' = [word EXCEPT ![<<c, t>>] = Word(task_position[c], t)]
  /\ UNCHANGED <<host, classify, strings, outputs, previous, real_quote,
                 published, tickets, wrote>>

(***************************************************************************)
(* Stage 1: classify and publish.                                          *)
(***************************************************************************)

Classify(c, t) ==
  LET w == word[<<c, t>>] IN
  /\ pc[<<c, t>>] = "classify"
  /\ slash_bitmap' = [slash_bitmap EXCEPT ![w] = Slashes(w)]
  /\ open_close_bitmap' = [open_close_bitmap EXCEPT ![w] = OpenClosesOf(w)]
  /\ utf_errors' = [utf_errors EXCEPT ![w[1]] = @ \/ Flagged(w)]
  /\ wrote' = [wrote EXCEPT ![w].slash = launch]
  /\ pc' = [pc EXCEPT ![<<c, t>>] = "classified"]
  /\ UNCHANGED <<host, classify_ready, strings, structural_bitmap, locals, tickets>>

PublishClass(c, t) ==
  LET w == word[<<c, t>>] IN
  /\ pc[<<c, t>>] = "classified"
  /\ classify_ready' = [classify_ready EXCEPT ![w] = epoch]
  /\ previous' = [previous EXCEPT ![<<c, t>>] = w[2] - 1]
  /\ pc' = [pc EXCEPT ![<<c, t>>] = "lookback"]
  /\ UNCHANGED <<host, slash_bitmap, strings, outputs, word, real_quote,
                 published, tickets, wrote>>

(***************************************************************************)
(* Stage 2: both candidates, and the lookback that selects one.            *)
(***************************************************************************)

SelectQuotes(c, t, incoming) ==
  LET w == word[<<c, t>>] IN
  /\ real_quote' = [real_quote EXCEPT
                      ![<<c, t>>] = FilterEscapedQuotes(Quotes(w), slash_bitmap[w], incoming)]
  /\ published' = [published EXCEPT ![<<c, t>>] = FALSE]
  /\ pc' = [pc EXCEPT ![<<c, t>>] = "poll"]

\* No quote of the word can be escaped, or no predecessor ended a run.
NoIncomingSlash(c, t) ==
  LET w == word[<<c, t>>] IN
  /\ pc[<<c, t>>] = "lookback"
  /\ PossibleEscaped(Quotes(w), slash_bitmap[w]) = {} \/ previous[<<c, t>>] < 0
  /\ SelectQuotes(c, t, 0)
  /\ UNCHANGED <<host, classify, strings, outputs, word, previous, tickets, wrote>>

\* Mutant: the wait accepts any flag that has ever been set.
Ready_EverSet(flag) == flag # 0

\* The acquire-poll of a readiness flag succeeds.
Ready(flag) == flag = epoch

\* Mutant: the lookback never goes past the nearest predecessor.
KeepsLooking_Never(trailing) == trailing < 0

\* A word of backslashes only does not tell the parity of the run.
KeepsLooking(trailing) == trailing = WordBytes

Lookback(c, t) ==
  LET w    == word[<<c, t>>]
      back == <<w[1], previous[<<c, t>>]>>
      trailing == TrailingOnes(slash_bitmap[back])
  IN
  /\ pc[<<c, t>>] = "lookback"
  /\ PossibleEscaped(Quotes(w), slash_bitmap[w]) # {}
  /\ previous[<<c, t>>] >= 0
  /\ Ready(classify_ready[back])
  /\ IF KeepsLooking(trailing)
     THEN /\ previous' = [previous EXCEPT ![<<c, t>>] = @ - 1]
          /\ UNCHANGED <<real_quote, published, pc>>
     ELSE /\ SelectQuotes(c, t, trailing % 2)
          /\ UNCHANGED previous
  /\ UNCHANGED <<host, classify, strings, outputs, word, tickets, wrote>>

(***************************************************************************)
(* Stage 3: wait for the predecessor's in-string word, select, publish.    *)
(***************************************************************************)

PredecessorReady(w) == w[2] # 0 => Ready(in_string_ready[Back(w, 1)])

\* Mutant: every chunk is entered outside a string.
IncomingStringBit_PerChunk(w) ==
  w[2] % Threads # 0 /\ TopBit(in_string_bitmap[Back(w, 1)])

IncomingStringBit(w) == w[2] # 0 /\ TopBit(in_string_bitmap[Back(w, 1)])

\* One round of the readiness loop that finds the predecessor ready.
SelectString(c, t) ==
  LET w == word[<<c, t>>] IN
  /\ pc[<<c, t>>] = "poll"
  /\ ~published[<<c, t>>]
  /\ PredecessorReady(w)
  /\ in_string_bitmap' = [in_string_bitmap EXCEPT
                            ![w] = InStringCandidate(real_quote[<<c, t>>], IncomingStringBit(w))]
  /\ wrote' = [wrote EXCEPT ![w].string = launch]
  /\ pc' = [pc EXCEPT ![<<c, t>>] = "selected"]
  /\ UNCHANGED <<host, classify, in_string_ready, outputs, locals, tickets>>

PublishString(c, t) ==
  /\ pc[<<c, t>>] = "selected"
  /\ in_string_ready' = [in_string_ready EXCEPT ![word[<<c, t>>]] = epoch]
  /\ published' = [published EXCEPT ![<<c, t>>] = TRUE]
  /\ pc' = [pc EXCEPT ![<<c, t>>] = "vote"]
  /\ UNCHANGED <<host, classify, in_string_bitmap, outputs, word, previous,
                 real_quote, tickets, wrote>>

\* One round that publishes nothing: already done, or not ready yet.
PollInVain(c, t) ==
  /\ pc[<<c, t>>] = "poll"
  /\ ~published[<<c, t>>] => ~PredecessorReady(word[<<c, t>>])
  /\ pc' = [pc EXCEPT ![<<c, t>>] = "vote"]
  /\ UNCHANGED <<host, classify, strings, outputs, locals, tickets, wrote>>

Warp(n) == {t \in Lanes : t \div WarpSize = n}
Warps   == 0 .. (Threads \div WarpSize) - 1

\* Mutant: the loop is left as soon as one lane has published.
WarpLeaves_Any(c, n) == \E t \in Warp(n) : published[<<c, t>>]

WarpLeaves(c, n) == \A t \in Warp(n) : published[<<c, t>>]

\* __all_sync over the full warp: everyone leaves, or everyone polls again.
Vote(c, n) ==
  /\ \A t \in Warp(n) : pc[<<c, t>>] = "vote"
  /\ LET target == IF WarpLeaves(c, n) THEN "filter" ELSE "poll"
     IN  pc' = [l \in Ctas \X Lanes |->
                  IF l[1] = c /\ l[2] \in Warp(n) THEN target ELSE pc[l]]
  /\ UNCHANGED <<host, classify, strings, outputs, locals, tickets, wrote>>

(***************************************************************************)
(* Stage 4: the final filter, and the barrier before the next ticket.      *)
(***************************************************************************)
Filter(c, t) ==
  LET w == word[<<c, t>>] IN
  /\ pc[<<c, t>>] = "filter"
  /\ structural_bitmap' = [structural_bitmap EXCEPT
                             ![w] = OperatorsOf(w) \ in_string_bitmap[w]]
  /\ open_close_bitmap' = [open_close_bitmap EXCEPT
                             ![w] = @ \ in_string_bitmap[w]]
  /\ pc' = [pc EXCEPT ![<<c, t>>] = "filtered"]
  /\ UNCHANGED <<host, classify, strings, utf_errors, locals, tickets, wrote>>

EndBarrier(c) ==
  Barrier(c, "filtered", [t \in Lanes |-> IF t = 0 THEN "fetch" ELSE "fetched"])

-----------------------------------------------------------------------------
ThreadStep(c, t) ==
  \/ TakeTask(c, t) \/ Classify(c, t) \/ PublishClass(c, t)
  \/ NoIncomingSlash(c, t) \/ Lookback(c, t)
  \/ SelectString(c, t) \/ PublishString(c, t) \/ PollInVain(c, t)
  \/ Filter(c, t)

CtaStep(c) ==
  \/ FetchTask(c) \/ FetchBarrier(c) \/ EndBarrier(c)
  \/ \E n \in Warps : Vote(c, n)

Next ==
  \/ Launch
  \/ \E c \in Ctas : CtaStep(c) \/ \E t \in Lanes : ThreadStep(c, t)

\* A cooperative launch guarantees that every resident thread keeps running;
\* the host issues its launches one after the other.
Fairness ==
  /\ WF_vars(Launch)
  /\ \A c \in Ctas :
       /\ WF_vars(FetchTask(c)) /\ WF_vars(FetchBarrier(c)) /\ WF_vars(EndBarrier(c))
       /\ \A n \in Warps : WF_vars(Vote(c, n))
       /\ \A t \in Lanes : WF_vars(ThreadStep(c, t))

Spec == Init /\ [][Next]_vars

FairSpec == Spec /\ Fairness

-----------------------------------------------------------------------------
Positions == [0 .. Cardinality(Tasks(batch)) - 1 -> Tasks(batch)]

PcValues == {"exit", "fetch", "fetched", "take", "classify", "classified",
             "lookback", "poll", "selected", "vote", "filter", "filtered"}

\* The thread holds a task: it is between the two barriers of an iteration.
Working(l) == pc[l] \notin {"exit", "fetch", "fetched", "take"}

LaunchComplete == launch > 0 /\ \A l \in Ctas \X Lanes : pc[l] = "exit"

TypeOK ==
  /\ batch \in Batches /\ tasks \in Positions
  /\ launch \in 0 .. Warmups + Runs /\ epoch \in 0 .. MaxEpoch
  /\ next_task \in Nat
  /\ slash_bitmap \in [Words(batch) -> SUBSET Bits]
  /\ in_string_bitmap \in [Words(batch) -> SUBSET Bits]
  /\ structural_bitmap \in [Words(batch) -> SUBSET Bits]
  /\ open_close_bitmap \in [Words(batch) -> SUBSET Bits]
  /\ utf_errors \in [DOMAIN batch -> BOOLEAN]
  /\ classify_ready \in [Words(batch) -> 0 .. MaxEpoch]
  /\ in_string_ready \in [Words(batch) -> 0 .. MaxEpoch]
  /\ wrote \in [Words(batch) -> [slash: Nat, string: Nat]]
  /\ task_position \in [Ctas -> Nat]
  /\ pc \in [Ctas \X Lanes -> PcValues]
  /\ word \in [Ctas \X Lanes -> Words(batch)]
  /\ previous \in [Ctas \X Lanes -> Int]
  /\ real_quote \in [Ctas \X Lanes -> SUBSET Bits]
  /\ published \in [Ctas \X Lanes -> BOOLEAN]

\* A flag equal to the epoch certifies a payload of the current launch.  The
\* flags are never cleared, so this rests on the epochs of the launches being
\* different, and on the payload being stored before the flag.
FlagsMeanFresh ==
  launch > 0 =>
    \A w \in Words(batch) :
      /\ classify_ready[w] = epoch =>
           wrote[w].slash = launch /\ slash_bitmap[w] = Slashes(w)
      /\ in_string_ready[w] = epoch => wrote[w].string = launch

\* Whatever the interleaving, an in-string word that another thread may build
\* on is the one of the specification.
PublishedStringsCorrect ==
  launch > 0 =>
    \A w \in Words(batch) :
      in_string_ready[w] = epoch => in_string_bitmap[w] = InStringWord(Text(w), w[2])

\* The bitmaps main() copies back agree with the sequential reference, and the error
\* word of an input is set exactly if one of its words, padding included, is in error.
OutputCorrect ==
  LaunchComplete =>
    /\ \A w \in Words(batch) :
         /\ structural_bitmap[w] = StructuralWord(Text(w), w[2])
         /\ open_close_bitmap[w] = OpenCloseResult(Text(w), w[2])
    /\ \A i \in DOMAIN batch :
         utf_errors[i] <=> \E w \in Words(batch) : w[1] = i /\ Flagged(w)

\* No word is processed by two threads at the same time: tickets are unique,
\* and the threads of a CTA never disagree on the shared task_position.
OneOwner ==
  \A l, m \in Ctas \X Lanes :
    l # m /\ Working(l) /\ Working(m) => word[l] # word[m]

\* A thread that waits for a predecessor waits for a thread that is there to
\* answer: tasks are handed out so that a chunk follows its predecessor.
NoOrphanWait ==
  \A l \in Ctas \X Lanes :
    pc[l] \in {"poll", "vote"} /\ ~published[l] /\ word[l][2] # 0
    /\ ~Ready(in_string_ready[Back(word[l], 1)])
      => \/ \E m \in Ctas \X Lanes : Working(m) /\ word[m] = Back(word[l], 1)
         \* the rest of its CTA has not read its shared ticket yet
         \/ \E m \in Ctas \X Lanes :
               /\ pc[m] \in {"take", "fetched"} /\ task_position[m[1]] < TaskCount
               /\ Word(task_position[m[1]], m[2]) = Back(word[l], 1)

\* The benchmark comes to its end: no launch hangs in a readiness loop.
BenchmarkEnds == <>(launch = Warmups + Runs /\ LaunchComplete)

\* In every launch the words are published once each, in an order that follows
\* the chain of predecessors, with the specified values.
Chain == INSTANCE PrefixChain WITH
  WordsOf <- Words,
  strings <- [w \in {v \in Words(batch) : launch > 0 /\ in_string_ready[v] = epoch}
                |-> in_string_bitmap[w]]

ImplementsChain == Chain!Spec

=============================================================================
