---------------------------- MODULE GpEnumeration ----------------------------
(***************************************************************************)
(* gpJSON per-thread enumeration (benchmarks/gpjson/src/enumeration.cu).   *)
(*                                                                         *)
(* One thread per word and an ordinary launch: a block starts when the     *)
(* device has room for it and stays until all its threads have returned,   *)
(* while they wait for words of earlier blocks.  A thread looks back for   *)
(* the escape that enters its word, then polls together with the lanes     *)
(* that __activemask found converged with it until all of them have        *)
(* published their in-string words.                                        *)
(*                                                                         *)
(* Steps and memory are those of module CuEnumeration: payload and flag    *)
(* stores are steps of their own, the last load of a wait loop and the     *)
(* load it guards are one.                                                 *)
(***************************************************************************)
EXTENDS JsonText

CONSTANTS
  Texts,            \* inputs
  ResidentCapacity, \* blocks the device has room for at once
  Threads,          \* threads of a block: GP_THREADS
  WarpSize,
  Launches,         \* warmups and measured runs; launch n has epoch n
  Orders            \* whether blocks start in the order of their indices: a subset of BOOLEAN

ASSUME EnumerationAssumption ==
  /\ \A text \in Texts : IsText(text)
  /\ ResidentCapacity \in Nat \ {0} /\ Launches \in Nat \ {0}
  /\ Threads \in Nat \ {0}
  /\ WarpSize \in Nat \ {0} /\ Threads % WarpSize = 0
  /\ Orders \subseteq BOOLEAN

VARIABLES
  text, in_order, launch,
  started,          \* blocks of the current launch that have started
  slash_bitmap, slash_ready,
  in_string_bitmap, in_string_ready,
  structural_bitmap,
  pc,               \* of every thread with a word
  previous,         \* previous_word
  real_quote,
  active_lanes,     \* the words of the lanes a thread votes with
  published,
  wrote             \* history: the launch that last wrote each payload

host     == <<text, in_order, launch>>
slashes  == <<slash_bitmap, slash_ready>>
strings  == <<in_string_bitmap, in_string_ready>>
locals   == <<previous, real_quote, active_lanes, published>>
vars     == <<host, started, slashes, strings, structural_bitmap, pc, locals, wrote>>

\* A thread is named by its word_id; those past word_count return at once.
Words == 0 .. WordCount(text) - 1

Block(w)  == w \div Threads
Warp(w)   == w \div WarpSize
Blocks    == {Block(w) : w \in Words}

\* the kernel argument, epoch++
epoch == launch

-----------------------------------------------------------------------------
Init ==
  /\ text \in Texts /\ in_order \in Orders
  /\ launch = 0 /\ started = {}
  /\ \E garbage \in {{}, Bits} :
       /\ slash_bitmap      = [w \in Words |-> garbage]
       /\ in_string_bitmap  = [w \in Words |-> garbage]
       /\ structural_bitmap = [w \in Words |-> garbage]
  /\ slash_ready     = [w \in Words |-> 0]
  /\ in_string_ready = [w \in Words |-> 0]
  /\ wrote = [w \in Words |-> [slash |-> 0, string |-> 0]]
  /\ pc           = [w \in Words |-> "exit"]
  /\ previous     = [w \in Words |-> 0]
  /\ real_quote   = [w \in Words |-> {}]
  /\ active_lanes = [w \in Words |-> {}]
  /\ published    = [w \in Words |-> FALSE]

\* The next launch on the default stream.
Launch ==
  /\ started = IF launch = 0 THEN {} ELSE Blocks
  /\ \A w \in Words : pc[w] = "exit"
  /\ launch < Launches
  /\ launch' = launch + 1
  /\ started' = {}
  /\ pc' = [w \in Words |-> "queued"]
  /\ UNCHANGED <<text, in_order, slashes, strings, structural_bitmap, locals, wrote>>

Resident == {b \in started : \E w \in Words : Block(w) = b /\ pc[w] # "exit"}

MayStart(b) == in_order => \A c \in Blocks : c < b => c \in started

StartBlock(b) ==
  /\ launch > 0 /\ b \in Blocks \ started
  /\ Cardinality(Resident) < ResidentCapacity
  /\ MayStart(b)
  /\ started' = started \cup {b}
  /\ pc' = [w \in Words |-> IF Block(w) = b THEN "classify" ELSE pc[w]]
  /\ UNCHANGED <<host, slashes, strings, structural_bitmap, locals, wrote>>

-----------------------------------------------------------------------------
Classify(w) ==
  /\ pc[w] = "classify"
  /\ slash_bitmap' = [slash_bitmap EXCEPT ![w] = SlashWord(text, w)]
  /\ wrote' = [wrote EXCEPT ![w].slash = launch]
  /\ pc' = [pc EXCEPT ![w] = "classified"]
  /\ UNCHANGED <<host, started, slash_ready, strings, structural_bitmap, locals>>

PublishSlash(w) ==
  /\ pc[w] = "classified"
  /\ slash_ready' = [slash_ready EXCEPT ![w] = epoch]
  /\ previous' = [previous EXCEPT ![w] = w - 1]
  /\ pc' = [pc EXCEPT ![w] = "lookback"]
  /\ UNCHANGED <<host, started, slash_bitmap, strings, structural_bitmap,
                 real_quote, active_lanes, published, wrote>>

SelectQuotes(w, incoming) ==
  /\ real_quote' = [real_quote EXCEPT
                      ![w] = FilterEscapedQuotes(QuoteWord(text, w), SlashWord(text, w), incoming)]
  /\ pc' = [pc EXCEPT ![w] = "gather"]

\* Every word before it holds backslashes only.
StartOfText(w) ==
  /\ pc[w] = "lookback" /\ previous[w] < 0
  /\ SelectQuotes(w, 0)
  /\ UNCHANGED <<host, started, slashes, strings, structural_bitmap,
                 previous, active_lanes, published, wrote>>

\* Mutant: the wait accepts the flag of any launch.
Ready_EverSet(flag) == flag # 0

Ready(flag) == flag = epoch

\* Mutant: the nearest predecessor decides.
KeepsLooking_Never(previous_slashes) == FALSE

KeepsLooking(previous_slashes) == previous_slashes = AllOnes

Lookback(w) ==
  /\ pc[w] = "lookback" /\ previous[w] >= 0
  /\ Ready(slash_ready[previous[w]])
  /\ LET previous_slashes == slash_bitmap[previous[w]] IN
     IF KeepsLooking(previous_slashes)
     THEN /\ previous' = [previous EXCEPT ![w] = @ - 1]
          /\ UNCHANGED <<pc, real_quote>>
     ELSE /\ SelectQuotes(w, TrailingOnes(previous_slashes) % 2)
          /\ UNCHANGED previous
  /\ UNCHANGED <<host, started, slashes, strings, structural_bitmap,
                 active_lanes, published, wrote>>

\* Mutant: the full mask.
Mask_Warp(lanes) == {v \in Words : \E w \in lanes : Warp(v) = Warp(w)}

Mask(lanes) == lanes

\* __activemask(): some lanes of a warp that have come out of their lookbacks and
\* happen to be converged.
Gather(lanes) ==
  /\ lanes # {} /\ \A v, w \in lanes : Warp(v) = Warp(w)
  /\ \A w \in lanes : pc[w] = "gather"
  /\ active_lanes' = [w \in Words |-> IF w \in lanes THEN Mask(lanes) ELSE active_lanes[w]]
  /\ published' = [w \in Words |-> published[w] /\ w \notin lanes]
  /\ pc' = [w \in Words |-> IF w \in lanes THEN "poll" ELSE pc[w]]
  /\ UNCHANGED <<host, started, slashes, strings, structural_bitmap, previous,
                 real_quote, wrote>>

\* Mutant: the first word waits as well.
PredecessorReady_First(w) == Ready(in_string_ready[IF w = 0 THEN w ELSE w - 1])

PredecessorReady(w) == w # 0 => Ready(in_string_ready[w - 1])

\* Mutant: the in-string state is not carried into a block.
IncomingStringBit_PerBlock(w) == w % Threads # 0 /\ TopBit(in_string_bitmap[w - 1])

IncomingStringBit(w) == w # 0 /\ TopBit(in_string_bitmap[w - 1])

SelectString(w) ==
  /\ pc[w] = "poll" /\ ~published[w] /\ PredecessorReady(w)
  /\ in_string_bitmap' = [in_string_bitmap EXCEPT
                            ![w] = InStringCandidate(real_quote[w], IncomingStringBit(w))]
  /\ wrote' = [wrote EXCEPT ![w].string = launch]
  /\ pc' = [pc EXCEPT ![w] = "selected"]
  /\ UNCHANGED <<host, started, slashes, in_string_ready, structural_bitmap, locals>>

PublishString(w) ==
  /\ pc[w] = "selected"
  /\ in_string_ready' = [in_string_ready EXCEPT ![w] = epoch]
  /\ published' = [published EXCEPT ![w] = TRUE]
  /\ pc' = [pc EXCEPT ![w] = "vote"]
  /\ UNCHANGED <<host, started, slashes, in_string_bitmap, structural_bitmap,
                 previous, real_quote, active_lanes, wrote>>

\* A round that publishes nothing: already done, or not ready yet.
PollInVain(w) ==
  /\ pc[w] = "poll"
  /\ published[w] \/ ~PredecessorReady(w)
  /\ pc' = [pc EXCEPT ![w] = "vote"]
  /\ UNCHANGED <<host, started, slashes, strings, structural_bitmap, locals, wrote>>

\* The lanes __all_sync(active_lanes, published) waits for and asks.
Voters(w) == active_lanes[w]

Vote(w) ==
  /\ \A v \in Voters(w) : pc[v] = "vote"
  /\ LET target == IF \A v \in Voters(w) : published[v] THEN "filter" ELSE "poll"
     IN  pc' = [v \in Words |-> IF v \in Voters(w) THEN target ELSE pc[v]]
  /\ UNCHANGED <<host, started, slashes, strings, structural_bitmap, locals, wrote>>

Filter(w) ==
  /\ pc[w] = "filter"
  /\ structural_bitmap' = [structural_bitmap EXCEPT
                             ![w] = OperatorWord(text, w) \ in_string_bitmap[w]]
  /\ pc' = [pc EXCEPT ![w] = "exit"]
  /\ UNCHANGED <<host, started, slashes, strings, locals, wrote>>

-----------------------------------------------------------------------------
ThreadStep(w) ==
  \/ Classify(w) \/ PublishSlash(w)
  \/ StartOfText(w) \/ Lookback(w)
  \/ SelectString(w) \/ PublishString(w) \/ PollInVain(w)
  \/ Filter(w)

Voting == {w \in Words : pc[w] = "vote"}

Next ==
  \/ Launch
  \/ \E b \in Blocks : StartBlock(b)
  \/ \E w \in Words : ThreadStep(w)
  \/ \E lanes \in SUBSET Words : Gather(lanes)
  \/ \E w \in Voting : Vote(w)

Spec == Init /\ [][Next]_vars

\* Independent thread scheduling: no thread of a resident block is kept from running
\* for ever; lanes at the mask or the vote go on; a block that fits starts.
AnyWord == UNION {0 .. WordCount(t) - 1 : t \in Texts}

Fairness ==
  /\ WF_vars(Launch)
  /\ \A k \in AnyWord :
       /\ WF_vars(k \in Blocks /\ StartBlock(k))
       /\ WF_vars(k \in Words /\ ThreadStep(k))
       /\ WF_vars(k \in Words /\ \E lanes \in SUBSET Words : k \in lanes /\ Gather(lanes))
       /\ WF_vars(k \in Voting /\ Vote(k))

FairSpec == Spec /\ Fairness

-----------------------------------------------------------------------------
PcValues == {"exit", "queued", "classify", "classified", "lookback", "gather", "poll",
             "selected", "vote", "filter"}

TypeOK ==
  /\ text \in Texts /\ in_order \in Orders /\ launch \in 0 .. Launches
  /\ started \subseteq Blocks
  /\ slash_bitmap \in [Words -> SUBSET Bits]
  /\ in_string_bitmap \in [Words -> SUBSET Bits]
  /\ structural_bitmap \in [Words -> SUBSET Bits]
  /\ slash_ready \in [Words -> 0 .. Launches]
  /\ in_string_ready \in [Words -> 0 .. Launches]
  /\ pc \in [Words -> PcValues]
  /\ previous \in [Words -> -1 .. WordCount(text) - 1]
  /\ real_quote \in [Words -> SUBSET Bits]
  /\ active_lanes \in [Words -> SUBSET Words]
  /\ published \in [Words -> BOOLEAN]

\* A flag of the current epoch certifies the payload behind it, which the current
\* launch wrote: the backslashes of the word, its true in-string bits.
FlagsCertify ==
  \A w \in Words :
    /\ slash_ready[w] = epoch /\ launch > 0 =>
         wrote[w].slash = launch /\ slash_bitmap[w] = SlashWord(text, w)
    /\ in_string_ready[w] = epoch /\ launch > 0 =>
         wrote[w].string = launch /\ in_string_bitmap[w] = InStringWord(text, w)

\* The lanes that vote together agree whom they vote with, so no vote waits for a
\* lane that will not come.
VotersAgree ==
  \A w \in Words :
    pc[w] \in {"poll", "selected", "vote"} =>
      \A v \in active_lanes[w] :
        /\ active_lanes[v] = active_lanes[w]
        /\ pc[v] \in {"poll", "selected", "vote"}

\* When a launch is over the output is right.
OutputCorrect ==
  launch > 0 /\ started = Blocks /\ (\A w \in Words : pc[w] = "exit") =>
    \A w \in Words : structural_bitmap[w] = StructuralWord(text, w)

\* When blocks start in the order of their indices, every launch returns: no thread
\* waits for a block that has no room.
BenchmarkEnds ==
  in_order => <>(launch = Launches /\ started = Blocks /\ \A w \in Words : pc[w] = "exit")

\* In every launch the words are published once each, in an order that follows
\* the chain of predecessors, with the specified values: the text is a batch of one.
ChainWords(batch) == {<<1, w>> : w \in 0 .. WordCount(batch[1]) - 1}

Chain == INSTANCE PrefixChain WITH
  WordsOf <- ChainWords,
  batch   <- <<text>>,
  strings <- [v \in {<<1, w>> : w \in {u \in Words : launch > 0 /\ in_string_ready[u] = epoch}}
                |-> in_string_bitmap[v[2]]]

ImplementsChain == Chain!Spec

=============================================================================
