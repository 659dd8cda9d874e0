------------------------ MODULE GpEnumerationProofs -------------------------
(***************************************************************************)
(* Proofs about the gpJSON per-thread enumeration kernel, for every text,  *)
(* block size, warp size, number of resident blocks and number of          *)
(* launches, and every order in which the blocks start.                    *)
(***************************************************************************)
EXTENDS GpEnumeration, JsonLemmas

-----------------------------------------------------------------------------
\* The word operations return words.
LEMMA WordTypes ==
  /\ \A t, w : /\ SlashWord(t, w) \in SUBSET Bits
               /\ OperatorWord(t, w) \in SUBSET Bits
               /\ \A slash, n : FilterEscapedQuotes(QuoteWord(t, w), slash, n) \in SUBSET Bits
  /\ \A quotes, incoming : InStringCandidate(quotes, incoming) \in SUBSET Bits
BY DEF SlashWord, OperatorWord, QuoteWord, BitsWhere, FilterEscapedQuotes, InStringCandidate,
       Invert, PrefixXor

\* Every word holds a byte of the text.
LEMMA WordsHoldBytes ==
  ASSUME NEW t, IsText(t)
  PROVE  /\ WordCount(t) \in Nat
         /\ \A w \in 0 .. WordCount(t) - 1 : w \in Nat /\ w * WordBytes \in DOMAIN t
<1>1. /\ Size(t) \in Nat /\ DOMAIN t = 0 .. Size(t) - 1
      /\ WordBytes \in Nat \ {0}
  BY TextDomain, WordBytesAssumption
<1> DEFINE n == Size(t)
           W == WordBytes
           q == (n + W - 1) \div W
<1>2. q \in Nat /\ q * W <= n + W - 1
  BY <1>1
<1>3. ASSUME NEW w \in 0 .. q - 1
      PROVE  w * W \in Nat /\ w * W <= n - 1
  <2>1. PICK d \in Nat : q = w + 1 + d
    <3>1. q - w - 1 \in Nat /\ q = w + 1 + (q - w - 1)
      BY <1>2
    <3> QED BY <3>1
  <2>2. q * W = w * W + W + d * W /\ d * W \in Nat /\ w * W \in Nat
    BY <1>1, <2>1
  <2> HIDE DEF q, W, n
  <2> QED BY <1>1, <1>2, <2>2 DEF n, W
<1>4. WordCount(t) = q
  BY DEF WordCount
<1> QED BY <1>1, <1>2, <1>3, <1>4

TypeInv ==
  /\ TypeOK
  /\ wrote \in [Words -> [slash: Nat, string: Nat]]

LEMMA TextFacts ==
  ASSUME text \in Texts
  PROVE  /\ IsText(text) /\ WordCount(text) \in Nat
         /\ \A w \in Words : w \in Nat /\ w * WordBytes \in DOMAIN text
<1>1. IsText(text)
  BY EnumerationAssumption
<1> QED BY <1>1, WordsHoldBytes DEF Words

LEMMA TypeInit == Init => TypeInv
<1> SUFFICES ASSUME Init PROVE TypeInv
  OBVIOUS
<1>1. WordCount(text) \in Nat /\ text \in Texts
  BY TextFacts DEF Init
<1>2. Launches \in Nat \ {0}
  BY EnumerationAssumption
<1>3. /\ slash_bitmap \in [Words -> SUBSET Bits]
      /\ in_string_bitmap \in [Words -> SUBSET Bits]
      /\ structural_bitmap \in [Words -> SUBSET Bits]
  BY DEF Init
<1>4. previous \in [Words -> -1 .. WordCount(text) - 1]
  BY <1>1 DEF Init, Words
<1>5. /\ real_quote \in [Words -> SUBSET Bits] /\ active_lanes \in [Words -> SUBSET Words]
      /\ published \in [Words -> BOOLEAN] /\ pc \in [Words -> PcValues]
  BY DEF Init, PcValues
<1>6. /\ slash_ready \in [Words -> 0 .. Launches] /\ in_string_ready \in [Words -> 0 .. Launches]
      /\ launch \in 0 .. Launches /\ started \subseteq Blocks /\ in_order \in Orders
  BY <1>2 DEF Init
<1>7. wrote \in [Words -> [slash: Nat, string: Nat]]
  BY DEF Init
<1> QED BY <1>1, <1>3, <1>4, <1>5, <1>6, <1>7 DEF TypeInv, TypeOK

LEMMA TypeStep == TypeInv /\ [Next]_vars => TypeInv'
<1> SUFFICES ASSUME TypeInv, [Next]_vars PROVE TypeInv'
  OBVIOUS
<1> USE DEF TypeInv, host, slashes, strings, locals
<1>0. /\ TypeOK /\ text \in Texts /\ WordCount(text) \in Nat /\ launch \in Nat
      /\ \A w \in Words : w \in Nat
  BY TextFacts DEF TypeOK
<1>1. UNCHANGED text => Words' = Words /\ Blocks' = Blocks /\ WordCount(text)' = WordCount(text)
  BY DEF Words, Blocks, Block
<1>2. CASE Launch
  <2>1. launch' \in 0 .. Launches
    BY <1>0, <1>2, EnumerationAssumption DEF Launch, TypeOK
  <2> QED BY <1>0, <1>1, <1>2, <2>1 DEF Launch, TypeOK, PcValues
<1>3. ASSUME NEW b \in Blocks, StartBlock(b) PROVE TypeInv'
  BY <1>0, <1>1, <1>3 DEF StartBlock, TypeOK, PcValues
<1>4. ASSUME NEW w \in Words, Classify(w) PROVE TypeInv'
  <2>1. slash_bitmap' \in [Words -> SUBSET Bits]
    BY <1>0, <1>4, WordTypes DEF Classify, TypeOK
  <2>2. wrote' \in [Words -> [slash: Nat, string: Nat]]
    BY <1>0, <1>4 DEF Classify
  <2> QED BY <1>0, <1>1, <1>4, <2>1, <2>2 DEF Classify, TypeOK, PcValues
<1>5. ASSUME NEW w \in Words, PublishSlash(w) PROVE TypeInv'
  <2>1. previous' \in [Words -> -1 .. WordCount(text) - 1]
    <3>1. w - 1 \in -1 .. WordCount(text) - 1
      BY <1>0 DEF Words
    <3> QED BY <1>0, <1>5, <3>1 DEF PublishSlash, TypeOK
  <2> QED BY <1>0, <1>1, <1>5, <2>1 DEF PublishSlash, TypeOK, PcValues, epoch
<1>6. ASSUME NEW w \in Words, NEW n, SelectQuotes(w, n)
      PROVE  real_quote' \in [Words -> SUBSET Bits] /\ pc' \in [Words -> PcValues]
  BY <1>0, <1>6, WordTypes DEF SelectQuotes, TypeOK, PcValues
<1>7. ASSUME NEW w \in Words, StartOfText(w) PROVE TypeInv'
  BY <1>0, <1>1, <1>6, <1>7 DEF StartOfText, TypeOK
<1>8. ASSUME NEW w \in Words, Lookback(w) PROVE TypeInv'
  <2>1. previous' \in [Words -> -1 .. WordCount(text) - 1]
    <3>1. previous[w] >= 0 /\ previous[w] - 1 \in -1 .. WordCount(text) - 1
      BY <1>0, <1>8 DEF Lookback, TypeOK
    <3>2. previous' = previous \/ previous' = [previous EXCEPT ![w] = previous[w] - 1]
      BY <1>8 DEF Lookback
    <3> QED BY <1>0, <3>1, <3>2 DEF TypeOK
  <2>2. real_quote' \in [Words -> SUBSET Bits] /\ pc' \in [Words -> PcValues]
    BY <1>0, <1>6, <1>8 DEF Lookback, TypeOK
  <2> QED BY <1>0, <1>1, <1>8, <2>1, <2>2 DEF Lookback, TypeOK
<1>9. ASSUME NEW w \in Words, SelectString(w) PROVE TypeInv'
  <2>1. in_string_bitmap' \in [Words -> SUBSET Bits]
    BY <1>0, <1>9, WordTypes DEF SelectString, TypeOK
  <2>2. wrote' \in [Words -> [slash: Nat, string: Nat]]
    BY <1>0, <1>9 DEF SelectString
  <2> QED BY <1>0, <1>1, <1>9, <2>1, <2>2 DEF SelectString, TypeOK, PcValues
<1>10. ASSUME NEW w \in Words, PublishString(w) PROVE TypeInv'
  BY <1>0, <1>1, <1>10 DEF PublishString, TypeOK, PcValues, epoch
<1>11. ASSUME NEW w \in Words, PollInVain(w) PROVE TypeInv'
  BY <1>0, <1>1, <1>11 DEF PollInVain, TypeOK, PcValues
<1>12. ASSUME NEW w \in Words, Filter(w) PROVE TypeInv'
  <2>1. OperatorWord(text, w) \ in_string_bitmap[w] \in SUBSET Bits
    BY WordTypes
  <2>2. structural_bitmap' \in [Words -> SUBSET Bits]
    BY <1>0, <1>12, <2>1 DEF Filter, TypeOK
  <2> QED BY <1>0, <1>1, <1>12, <2>2 DEF Filter, TypeOK, PcValues
<1>13. ASSUME NEW lanes \in SUBSET Words, Gather(lanes) PROVE TypeInv'
  BY <1>0, <1>1, <1>13 DEF Gather, Mask, TypeOK, PcValues
<1>14. ASSUME NEW w \in Words, Vote(w) PROVE TypeInv'
  BY <1>0, <1>1, <1>14 DEF Vote, TypeOK, PcValues
<1>15. CASE UNCHANGED vars
  BY <1>1, <1>15 DEF vars, TypeOK
<1> QED
  BY <1>2, <1>3, <1>4, <1>5, <1>7, <1>8, <1>9, <1>10, <1>11, <1>12, <1>13, <1>14, <1>15
  DEF Next, ThreadStep, Voting

\* Every variable keeps its type: no lookback runs below the word before the first,
\* no flag holds an epoch beyond the last launch, a mask holds words only.
THEOREM GpEnumerationTypeOK == Spec => []TypeOK
<1>1. TypeInv => TypeOK
  BY DEF TypeInv
<1> QED BY <1>1, TypeInit, TypeStep, PTL DEF Spec


-----------------------------------------------------------------------------
(***************************************************************************)
(* Who votes with whom.  VotersAgree alone is not inductive: a lane must   *)
(* vote with itself, so that the masks of two groups are disjoint, and a   *)
(* block that has not started must have no lane in a vote.                 *)
(***************************************************************************)
Polling == {"poll", "selected", "vote"}

Admitted ==
  /\ launch = 0 => \A w \in Words : pc[w] = "exit"
  /\ launch > 0 => \A w \in Words : pc[w] = "queued" <=> Block(w) \notin started

VotesWith(w) ==
  pc[w] \in Polling =>
    /\ w \in active_lanes[w]
    /\ \A v \in active_lanes[w] : active_lanes[v] = active_lanes[w] /\ pc[v] \in Polling

VoteInv ==
  /\ TypeInv
  /\ Admitted
  /\ \A w \in Words : VotesWith(w)

LEMMA VoteInit == Init => VoteInv
BY TypeInit DEF Init, VoteInv, Admitted, VotesWith, Polling

\* Steps of one thread that leave the set of polling threads and the masks alone.
LEMMA VoteThread ==
  ASSUME VoteInv, TypeInv', NEW w \in Words, ThreadStep(w)
  PROVE  VoteInv'
<1> USE DEF host, slashes, strings, locals
<1>1. /\ UNCHANGED <<text, launch, started, active_lanes>> /\ Words' = Words
      /\ \A v \in Words \ {w} : pc'[v] = pc[v]
      /\ pc'[w] \in Polling <=> pc[w] \in Polling
      /\ pc[w] # "exit" /\ pc[w] # "queued" /\ pc'[w] # "queued"
  <2>0. pc \in [Words -> PcValues] /\ (UNCHANGED text => Words' = Words)
    BY DEF VoteInv, TypeInv, TypeOK, Words
  <2>1. CASE Classify(w)
    BY <2>0, <2>1 DEF Classify, Polling
  <2>2. CASE PublishSlash(w)
    BY <2>0, <2>2 DEF PublishSlash, Polling
  <2>3. CASE StartOfText(w)
    BY <2>0, <2>3 DEF StartOfText, SelectQuotes, Polling
  <2>4. CASE Lookback(w)
    BY <2>0, <2>4 DEF Lookback, SelectQuotes, Polling
  <2>5. CASE SelectString(w)
    BY <2>0, <2>5 DEF SelectString, Polling
  <2>6. CASE PublishString(w)
    BY <2>0, <2>6 DEF PublishString, Polling
  <2>7. CASE PollInVain(w)
    BY <2>0, <2>7 DEF PollInVain, Polling
  <2>8. CASE Filter(w)
    BY <2>0, <2>8 DEF Filter, Polling
  <2> QED BY <2>1, <2>2, <2>3, <2>4, <2>5, <2>6, <2>7, <2>8 DEF ThreadStep
<1>2. Admitted'
  BY <1>1 DEF VoteInv, Admitted, Block
<1>3. active_lanes \in [Words -> SUBSET Words]
  BY DEF VoteInv, TypeInv, TypeOK
<1>4. \A v \in Words : pc'[v] \in Polling <=> pc[v] \in Polling
  BY <1>1
<1>5. ASSUME NEW v \in Words PROVE VotesWith(v)'
  BY <1>1, <1>3, <1>4 DEF VoteInv, VotesWith
<1> QED BY <1>1, <1>2, <1>5 DEF VoteInv

LEMMA VoteGather ==
  ASSUME VoteInv, TypeInv', NEW lanes \in SUBSET Words, Gather(lanes)
  PROVE  VoteInv'
<1> USE DEF host, slashes, strings, locals
<1>1. /\ UNCHANGED <<text, launch, started>> /\ Words' = Words
      /\ \A v \in lanes : pc[v] = "gather" /\ pc'[v] = "poll" /\ active_lanes'[v] = lanes
      /\ \A v \in Words \ lanes : pc'[v] = pc[v] /\ active_lanes'[v] = active_lanes[v]
  BY DEF Gather, Mask, Words
<1>2. /\ active_lanes \in [Words -> SUBSET Words] /\ pc \in [Words -> PcValues]
      /\ "gather" \notin Polling /\ "poll" \in Polling
  BY DEF VoteInv, TypeInv, TypeOK, Polling
<1>3. Admitted'
  <2>1. lanes # {}
    BY DEF Gather
  <2>2. launch > 0
    <3>1. launch \in Nat
      BY DEF VoteInv, TypeInv, TypeOK
    <3> QED BY <1>1, <2>1, <3>1 DEF VoteInv, Admitted
  <2> QED BY <1>1, <2>2 DEF VoteInv, Admitted, Block
<1>4. ASSUME NEW v \in Words PROVE VotesWith(v)'
  <2>1. CASE v \in lanes
    BY <1>1, <1>2, <2>1 DEF VotesWith
  <2>2. CASE v \notin lanes
    <3> SUFFICES ASSUME pc[v] \in Polling PROVE VotesWith(v)'
      BY <1>1, <2>2 DEF VotesWith
    <3>1. v \in active_lanes[v]
          /\ \A u \in active_lanes[v] : active_lanes[u] = active_lanes[v] /\ pc[u] \in Polling
      BY DEF VoteInv, VotesWith
    <3>2. \A u \in active_lanes[v] : u \in Words \ lanes
      BY <1>1, <1>2, <3>1
    <3> QED BY <1>1, <2>2, <3>1, <3>2 DEF VotesWith
  <2> QED BY <2>1, <2>2
<1> QED BY <1>1, <1>3, <1>4 DEF VoteInv

\* A vote takes a whole group out of the poll, or sends a whole group back to it.
LEMMA VoteVote ==
  ASSUME VoteInv, TypeInv', NEW w \in Words, pc[w] = "vote", Vote(w)
  PROVE  VoteInv'
<1> USE DEF host, slashes, strings, locals
<1> DEFINE voters == active_lanes[w]
<1>1. PICK target \in {"filter", "poll"} :
        pc' = [v \in Words |-> IF v \in voters THEN target ELSE pc[v]]
  BY DEF Vote, Voters
<1>2. /\ UNCHANGED <<text, launch, started, active_lanes>> /\ Words' = Words
      /\ \A v \in voters : pc[v] = "vote"
  BY DEF Vote, Voters, Words
<1>3. /\ active_lanes \in [Words -> SUBSET Words] /\ pc \in [Words -> PcValues]
      /\ "vote" \in Polling /\ "poll" \in Polling /\ "filter" \notin Polling
      /\ launch \in Nat
  BY DEF VoteInv, TypeInv, TypeOK, Polling
<1>4. /\ w \in voters
      /\ \A v \in voters : active_lanes[v] = voters /\ v \in Words
  BY <1>3 DEF VoteInv, VotesWith
<1>5. Admitted'
  <2>1. \A v \in Words : pc'[v] = pc[v] \/ (pc[v] = "vote" /\ pc'[v] \in {"filter", "poll"})
    BY <1>1, <1>2
  <2>2. launch > 0
    BY <1>3 DEF VoteInv, Admitted
  <2> QED BY <1>2, <2>1, <2>2 DEF VoteInv, Admitted, Block
<1>6. ASSUME NEW v \in Words PROVE VotesWith(v)'
  <2>1. CASE v \in voters
    BY <1>1, <1>2, <1>3, <1>4, <2>1 DEF VotesWith
  <2>2. CASE v \notin voters
    <3> SUFFICES ASSUME pc[v] \in Polling PROVE VotesWith(v)'
      BY <1>1, <2>2 DEF VotesWith
    <3>1. v \in active_lanes[v]
          /\ \A u \in active_lanes[v] : active_lanes[u] = active_lanes[v] /\ pc[u] \in Polling
      BY DEF VoteInv, VotesWith
    <3>2. \A u \in active_lanes[v] : u \in Words \ voters
      BY <1>3, <1>4, <2>2, <3>1
    <3> QED BY <1>1, <1>2, <2>2, <3>1, <3>2 DEF VotesWith
  <2> QED BY <2>1, <2>2
<1> QED BY <1>2, <1>5, <1>6 DEF VoteInv

LEMMA VoteStep == VoteInv /\ [Next]_vars => VoteInv'
<1> SUFFICES ASSUME VoteInv, [Next]_vars PROVE VoteInv'
  OBVIOUS
<1> USE DEF host, slashes, strings, locals
<1>1. TypeInv /\ TypeInv'
  BY TypeStep DEF VoteInv
<1>2. CASE Launch
  <2>1. /\ UNCHANGED text /\ Words' = Words /\ started' = {} /\ launch' = launch + 1
        /\ \A w \in Words : pc'[w] = "queued"
    BY <1>2 DEF Launch, Words
  <2>2. launch \in Nat
    BY <1>1 DEF TypeInv, TypeOK
  <2>3. Admitted'
    BY <2>1, <2>2 DEF Admitted
  <2> QED BY <1>1, <2>1, <2>3 DEF VoteInv, VotesWith, Polling
<1>3. ASSUME NEW b \in Blocks, StartBlock(b) PROVE VoteInv'
  <2>1. /\ UNCHANGED <<text, launch, active_lanes>> /\ Words' = Words /\ launch > 0
        /\ b \notin started /\ started' = started \cup {b}
        /\ \A w \in Words : pc'[w] = IF Block(w) = b THEN "classify" ELSE pc[w]
    BY <1>3 DEF StartBlock, Words
  <2>2. Admitted'
    BY <1>1, <2>1 DEF VoteInv, Admitted, Block, TypeInv, TypeOK
  <2>3. \A w \in Words : pc'[w] = pc[w] \/ (pc[w] = "queued" /\ pc'[w] = "classify")
    BY <2>1 DEF VoteInv, Admitted
  <2>4. active_lanes \in [Words -> SUBSET Words]
    BY <1>1 DEF TypeInv, TypeOK
  <2>5. ASSUME NEW w \in Words PROVE VotesWith(w)'
    BY <2>1, <2>3, <2>4 DEF VoteInv, VotesWith, Polling
  <2> QED BY <1>1, <2>1, <2>2, <2>5 DEF VoteInv
<1>4. ASSUME NEW w \in Words, ThreadStep(w) PROVE VoteInv'
  BY <1>1, <1>4, VoteThread
<1>5. ASSUME NEW lanes \in SUBSET Words, Gather(lanes) PROVE VoteInv'
  BY <1>1, <1>5, VoteGather
<1>6. ASSUME NEW w \in Voting, Vote(w) PROVE VoteInv'
  BY <1>1, <1>6, VoteVote DEF Voting
<1>7. CASE UNCHANGED vars
  BY <1>1, <1>7 DEF vars, VoteInv, Admitted, VotesWith, Words, Block
<1> QED BY <1>2, <1>3, <1>4, <1>5, <1>6, <1>7 DEF Next

\* Whatever sets of lanes __activemask returns, the lanes that vote together agree
\* whom they vote with and none of them has left: no vote waits for a lane that will
\* not come.
THEOREM VotesAreClosed == Spec => []VotersAgree
<1>1. VoteInv => VotersAgree
  BY DEF VoteInv, VotesWith, VotersAgree, Polling
<1> QED BY <1>1, VoteInit, VoteStep, PTL DEF Spec


-----------------------------------------------------------------------------
(***************************************************************************)
(* What a flag certifies, and what a thread knows at each place.  A flag   *)
(* never exceeds the number of the launch, so none is current when a       *)
(* launch begins; from then on only a thread that has stored the specified *)
(* payload sets one.                                                       *)
(***************************************************************************)
FlagRange(w) == slash_ready[w] <= launch /\ in_string_ready[w] <= launch

HasSlashes(w) == wrote[w].slash = launch /\ slash_bitmap[w] = SlashWord(text, w)

HasString(w) == wrote[w].string = launch /\ in_string_bitmap[w] = InStringWord(text, w)

Certified(w) ==
  launch > 0 => /\ slash_ready[w] = launch => HasSlashes(w)
                /\ in_string_ready[w] = launch => HasString(w)

\* Everything between the cursor and the word is a backslash.
LookedAt(w) == previous[w] < w /\ SlashesBetween(text, previous[w], w)

StageOf(w) ==
  /\ pc[w] = "classified" => HasSlashes(w)
  /\ pc[w] = "lookback" => LookedAt(w)
  /\ pc[w] \in {"gather", "poll", "selected", "vote", "filter"} =>
       real_quote[w] = RealQuoteWord(text, w)
  /\ pc[w] = "selected" => HasString(w)
  /\ pc[w] \in {"poll", "selected", "vote", "filter"} /\ published[w] =>
       in_string_ready[w] = launch
  /\ pc[w] = "filter" => published[w]
  /\ pc[w] = "exit" /\ launch > 0 =>
       in_string_ready[w] = launch /\ structural_bitmap[w] = StructuralWord(text, w)

FreshInv ==
  /\ VoteInv
  /\ \A w \in Words : FlagRange(w) /\ Certified(w) /\ StageOf(w)

LEMMA FreshInit == Init => FreshInv
<1> SUFFICES ASSUME Init PROVE FreshInv
  OBVIOUS
<1>1. /\ launch = 0
      /\ \A w \in Words : slash_ready[w] = 0 /\ in_string_ready[w] = 0 /\ pc[w] = "exit"
  BY DEF Init
<1> QED BY <1>1, VoteInit DEF FreshInv, FlagRange, Certified, StageOf

\* A launch invalidates every flag.
LEMMA FreshLaunch == FreshInv /\ VoteInv' /\ Launch => FreshInv'
<1> SUFFICES ASSUME FreshInv, VoteInv', Launch PROVE FreshInv'
  OBVIOUS
<1>1. /\ UNCHANGED <<text, slash_ready, in_string_ready>> /\ Words' = Words
      /\ launch' = launch + 1 /\ \A w \in Words : pc'[w] = "queued"
  BY DEF Launch, Words, slashes, strings
<1>2. /\ launch \in Nat
      /\ \A w \in Words : slash_ready[w] \in Nat /\ in_string_ready[w] \in Nat
  BY DEF FreshInv, VoteInv, TypeInv, TypeOK
<1>3. ASSUME NEW w \in Words
      PROVE  FlagRange(w)' /\ Certified(w)' /\ StageOf(w)'
  BY <1>1, <1>2 DEF FreshInv, FlagRange, Certified, StageOf
<1> QED BY <1>1, <1>3 DEF FreshInv

\* A step that touches nothing but what belongs to some words has to be looked at
\* for these words only.
Untouched(w) ==
  UNCHANGED <<pc[w], slash_bitmap[w], slash_ready[w], in_string_bitmap[w], in_string_ready[w],
              structural_bitmap[w], previous[w], real_quote[w], published[w], wrote[w]>>

LEMMA OthersUntouched ==
  ASSUME FreshInv, VoteInv', UNCHANGED <<text, launch>>,
         NEW S \in SUBSET Words, \A v \in Words \ S : Untouched(v),
         \A v \in S : FlagRange(v)' /\ Certified(v)' /\ StageOf(v)'
  PROVE  FreshInv'
<1>1. Words' = Words
  BY DEF Words
<1>2. ASSUME NEW v \in Words \ S
      PROVE  FlagRange(v)' /\ Certified(v)' /\ StageOf(v)'
  BY DEF FreshInv, Untouched, FlagRange, Certified, StageOf, HasSlashes, HasString, LookedAt
<1> QED BY <1>1, <1>2 DEF FreshInv

LEMMA OnlyWord ==
  ASSUME FreshInv, VoteInv', UNCHANGED <<text, launch>>, NEW w \in Words,
         \A v \in Words \ {w} : Untouched(v),
         FlagRange(w)' /\ Certified(w)' /\ StageOf(w)'
  PROVE  FreshInv'
<1> DEFINE S == {w}
<1>1. S \in SUBSET Words /\ \A v \in Words \ S : Untouched(v)
  OBVIOUS
<1>2. \A v \in S : FlagRange(v)' /\ Certified(v)' /\ StageOf(v)'
  OBVIOUS
<1> HIDE DEF S
<1> QED BY <1>1, <1>2, OthersUntouched

LEMMA FreshClassify ==
  ASSUME FreshInv, VoteInv', NEW w \in Words, Classify(w)
  PROVE  FreshInv'
<1> USE DEF host, slashes, strings, locals
<1>1. /\ UNCHANGED <<text, launch, slash_ready, in_string_ready, in_string_bitmap>>
      /\ \A v \in Words \ {w} : Untouched(v)
  BY DEF Classify, FreshInv, VoteInv, TypeInv, TypeOK, Untouched
<1>2. /\ slash_bitmap'[w] = SlashWord(text, w) /\ wrote'[w].slash = launch
      /\ wrote'[w].string = wrote[w].string /\ pc'[w] = "classified"
  BY DEF Classify, FreshInv, VoteInv, TypeInv, TypeOK
<1>3. FlagRange(w)' /\ Certified(w)' /\ StageOf(w)'
  BY <1>1, <1>2 DEF FreshInv, FlagRange, Certified, StageOf, HasSlashes, HasString
<1> QED BY <1>1, <1>3, OnlyWord

LEMMA FreshPublishSlash ==
  ASSUME FreshInv, VoteInv', NEW w \in Words, PublishSlash(w)
  PROVE  FreshInv'
<1> USE DEF host, slashes, strings, locals
<1>1. /\ UNCHANGED <<text, launch, slash_bitmap, in_string_ready, in_string_bitmap, wrote>>
      /\ \A v \in Words \ {w} : Untouched(v)
  BY DEF PublishSlash, FreshInv, VoteInv, TypeInv, TypeOK, Untouched
<1>2. /\ slash_ready'[w] = launch /\ previous'[w] = w - 1 /\ pc'[w] = "lookback"
      /\ pc[w] = "classified"
  BY DEF PublishSlash, FreshInv, VoteInv, TypeInv, TypeOK, epoch
<1>3. w \in Nat /\ launch \in Nat
  BY TextFacts DEF FreshInv, VoteInv, TypeInv, TypeOK
<1>4. SlashesBetween(text, w - 1, w)
  <2>1. (w - 1) + 1 = w /\ w * WordBytes \in Nat
    BY <1>3, WordStart
  <2> QED BY <2>1 DEF SlashesBetween
<1>5. FlagRange(w)' /\ Certified(w)' /\ StageOf(w)'
  BY <1>1, <1>2, <1>3, <1>4 DEF FreshInv, FlagRange, Certified, StageOf, HasSlashes, HasString,
                               LookedAt
<1> QED BY <1>1, <1>5, OnlyWord

\* With the parity of the run that reaches the word, the selected quotes are the real
\* ones.
LEMMA FreshSelectQuotes ==
  ASSUME FreshInv, VoteInv', NEW w \in Words, NEW incoming \in {0, 1},
         SelectQuotes(w, incoming),
         UNCHANGED <<host, slashes, strings, structural_bitmap, published, wrote>>,
         \A v \in Words \ {w} : previous'[v] = previous[v],
         \E r : MaximalSlashRun(text, w * WordBytes, r) /\ r % 2 = incoming
  PROVE  FreshInv'
<1> USE DEF host, slashes, strings
<1>1. /\ UNCHANGED <<text, launch>> /\ \A v \in Words \ {w} : Untouched(v)
  BY DEF SelectQuotes, FreshInv, VoteInv, TypeInv, TypeOK, Untouched
<1>2. /\ pc'[w] = "gather"
      /\ real_quote'[w] = FilterEscapedQuotes(QuoteWord(text, w), SlashWord(text, w), incoming)
  BY DEF SelectQuotes, FreshInv, VoteInv, TypeInv, TypeOK
<1>3. IsText(text) /\ w \in Nat
  BY TextFacts DEF FreshInv, VoteInv, TypeInv, TypeOK
<1>4. real_quote'[w] = RealQuoteWord(text, w)
  BY <1>2, <1>3, FilterWithParity
<1>5. FlagRange(w)' /\ Certified(w)' /\ StageOf(w)'
  BY <1>1, <1>2, <1>4 DEF FreshInv, FlagRange, Certified, StageOf, HasSlashes, HasString
<1> QED BY <1>1, <1>5, OnlyWord

LEMMA FreshStartOfText ==
  ASSUME FreshInv, VoteInv', NEW w \in Words, StartOfText(w)
  PROVE  FreshInv'
<1>1. /\ w \in Nat /\ previous[w] \in -1 .. WordCount(text) - 1 /\ previous[w] < 0
      /\ WordCount(text) \in Nat /\ pc[w] = "lookback"
  BY TextFacts DEF StartOfText, FreshInv, VoteInv, TypeInv, TypeOK
<1>2. previous[w] = -1
  BY <1>1
<1>3. SlashesBetween(text, -1, w)
  BY <1>1, <1>2 DEF FreshInv, StageOf, LookedAt
<1>4. \E r : MaximalSlashRun(text, w * WordBytes, r) /\ r % 2 = 0
  BY <1>1, <1>3, LookbackRunsOff
<1> QED BY <1>4, FreshSelectQuotes DEF StartOfText, locals

\* The word looked at is the slash word, because its flag is current.
LEMMA FreshLookback ==
  ASSUME FreshInv, VoteInv', NEW w \in Words, Lookback(w)
  PROVE  FreshInv'
<1> USE DEF host, slashes, strings, locals
<1> DEFINE u == previous[w]
<1>1. /\ w \in Nat /\ w * WordBytes \in DOMAIN text /\ IsText(text)
      /\ WordCount(text) \in Nat /\ launch \in Nat
  BY TextFacts DEF FreshInv, VoteInv, TypeInv, TypeOK
<1>2. /\ u \in Words /\ u \in Nat /\ u < w /\ SlashesBetween(text, u, w) /\ pc[w] = "lookback"
  <2>1. u >= 0 /\ u \in -1 .. WordCount(text) - 1 /\ pc[w] = "lookback"
    BY DEF Lookback, FreshInv, VoteInv, TypeInv, TypeOK
  <2>2. u < w /\ SlashesBetween(text, u, w)
    BY <2>1 DEF FreshInv, StageOf, LookedAt
  <2> QED BY <1>1, <2>1, <2>2 DEF Words
<1>3. launch > 0
  BY <1>1, <1>2 DEF FreshInv, VoteInv, Admitted
<1>4. slash_bitmap[u] = SlashWord(text, u)
  BY <1>2, <1>3 DEF Lookback, Ready, epoch, FreshInv, Certified, HasSlashes
<1>5. CASE SlashWord(text, u) = Bits
  <2>1. /\ previous'[w] = u - 1 /\ pc'[w] = pc[w]
        /\ UNCHANGED <<text, launch>> /\ \A v \in Words \ {w} : Untouched(v)
    BY <1>4, <1>5 DEF Lookback, KeepsLooking, AllOnes, FreshInv, VoteInv, TypeInv, TypeOK,
                      Untouched
  <2>2. TrailingOnes(SlashWord(text, u)) = WordBytes
    BY <1>5 DEF TrailingOnes
  <2>3. SlashesBetween(text, u - 1, w)
    BY <1>1, <1>2, <2>2, LookbackContinues
  <2>4. FlagRange(w)' /\ Certified(w)' /\ StageOf(w)'
    <3>1. UNCHANGED <<slashes, strings, structural_bitmap, wrote>> /\ u - 1 < w
      BY <1>1, <1>2 DEF Lookback
    <3> HIDE DEF u
    <3> QED BY <1>2, <2>1, <2>3, <3>1
            DEF FreshInv, FlagRange, Certified, StageOf, HasSlashes, HasString, LookedAt
  <2> QED BY <2>1, <2>4, OnlyWord
<1>6. CASE SlashWord(text, u) # Bits
  <2> DEFINE n == TrailingOnes(SlashWord(text, u))
  <2>1. \E r : MaximalSlashRun(text, w * WordBytes, r) /\ r % 2 = n % 2
    BY <1>1, <1>2, <1>6, LookbackStops
  <2>2. n % 2 \in {0, 1}
    <3>1. SlashWord(text, u) \in SUBSET Bits
      BY WordTypes
    <3>2. n \in 0 .. WordBytes - 1
      BY <1>6, <3>1, TrailingOnesFacts
    <3> HIDE DEF n
    <3> QED BY <3>2, WordBytesAssumption
  <2>3. SelectQuotes(w, n % 2) /\ UNCHANGED previous
    BY <1>4, <1>6 DEF Lookback, KeepsLooking, AllOnes
  <2> HIDE DEF n
  <2> QED BY <2>1, <2>2, <2>3, FreshSelectQuotes DEF Lookback
<1> QED BY <1>5, <1>6


\* The predecessor's word is specified, because its flag is current; so is the word
\* selected behind it.
LEMMA FreshSelectString ==
  ASSUME FreshInv, VoteInv', NEW w \in Words, SelectString(w)
  PROVE  FreshInv'
<1> USE DEF host, slashes, strings, locals
<1>1. /\ w \in Nat /\ IsText(text) /\ launch \in Nat /\ WordCount(text) \in Nat
  BY TextFacts DEF FreshInv, VoteInv, TypeInv, TypeOK
<1>2. launch > 0
  BY <1>1 DEF SelectString, FreshInv, VoteInv, Admitted
<1>3. IncomingStringBit(w) = IncomingString(text, w * WordBytes)
  <2>1. CASE w = 0
    BY <1>1, <2>1, FirstWordOutside DEF IncomingStringBit
  <2>2. CASE w # 0
    <3>1. w - 1 \in Words /\ w - 1 \in Nat /\ (w - 1) + 1 = w
      BY <1>1, <2>2 DEF Words
    <3>2. in_string_ready[w - 1] = launch
      BY <2>2 DEF SelectString, PredecessorReady, Ready, epoch
    <3>3. in_string_bitmap[w - 1] = InStringWord(text, w - 1)
      BY <1>2, <3>1, <3>2 DEF FreshInv, Certified, HasString
    <3>4. TopBit(in_string_bitmap[w - 1]) <=> IncomingString(text, w * WordBytes)
      BY <3>1, <3>3, TopBitCarries
    <3>5. /\ TopBit(in_string_bitmap[w - 1]) \in BOOLEAN
          /\ IncomingString(text, w * WordBytes) \in BOOLEAN
      BY DEF TopBit, IncomingString
    <3> QED BY <2>2, <3>4, <3>5 DEF IncomingStringBit
  <2> QED BY <2>1, <2>2
<1>4. real_quote[w] = RealQuoteWord(text, w)
  BY DEF SelectString, FreshInv, StageOf
<1>5. InStringCandidate(real_quote[w], IncomingStringBit(w)) = InStringWord(text, w)
  BY <1>1, <1>3, <1>4, CandidateIsInStringWord
<1>6. /\ UNCHANGED <<text, launch, slashes, in_string_ready, real_quote, published>>
      /\ \A v \in Words \ {w} : Untouched(v)
  BY DEF SelectString, FreshInv, VoteInv, TypeInv, TypeOK, Untouched
<1>7. /\ in_string_bitmap'[w] = InStringWord(text, w) /\ wrote'[w].string = launch
      /\ wrote'[w].slash = wrote[w].slash /\ pc'[w] = "selected" /\ pc[w] = "poll"
  BY <1>5 DEF SelectString, FreshInv, VoteInv, TypeInv, TypeOK
<1>8. FlagRange(w)' /\ Certified(w)' /\ StageOf(w)'
  BY <1>6, <1>7 DEF FreshInv, FlagRange, Certified, StageOf, HasSlashes, HasString
<1> QED BY <1>6, <1>8, OnlyWord

LEMMA FreshPublishString ==
  ASSUME FreshInv, VoteInv', NEW w \in Words, PublishString(w)
  PROVE  FreshInv'
<1> USE DEF host, slashes, strings, locals
<1>1. /\ UNCHANGED <<text, launch, slashes, in_string_bitmap, real_quote, wrote>>
      /\ \A v \in Words \ {w} : Untouched(v)
  BY DEF PublishString, FreshInv, VoteInv, TypeInv, TypeOK, Untouched
<1>2. /\ in_string_ready'[w] = launch /\ pc[w] = "selected" /\ pc'[w] = "vote" /\ launch \in Nat
  BY DEF PublishString, FreshInv, VoteInv, TypeInv, TypeOK, epoch
<1>3. FlagRange(w)' /\ Certified(w)' /\ StageOf(w)'
  BY <1>1, <1>2 DEF FreshInv, FlagRange, Certified, StageOf, HasSlashes, HasString
<1> QED BY <1>1, <1>3, OnlyWord

LEMMA FreshPollInVain ==
  ASSUME FreshInv, VoteInv', NEW w \in Words, PollInVain(w)
  PROVE  FreshInv'
<1> USE DEF host, slashes, strings, locals
<1>1. /\ UNCHANGED <<text, launch, slashes, strings, real_quote, published, wrote>>
      /\ \A v \in Words \ {w} : Untouched(v)
      /\ pc[w] = "poll" /\ pc'[w] = "vote"
  BY DEF PollInVain, FreshInv, VoteInv, TypeInv, TypeOK, Untouched
<1>2. FlagRange(w)' /\ Certified(w)' /\ StageOf(w)'
  BY <1>1 DEF FreshInv, FlagRange, Certified, StageOf, HasSlashes, HasString
<1> QED BY <1>1, <1>2, OnlyWord

\* A thread filters its word only after the vote, hence behind its own flag.
LEMMA FreshFilter ==
  ASSUME FreshInv, VoteInv', NEW w \in Words, Filter(w)
  PROVE  FreshInv'
<1> USE DEF host, slashes, strings, locals
<1>1. /\ UNCHANGED <<text, launch, slashes, strings, wrote>>
      /\ \A v \in Words \ {w} : Untouched(v)
      /\ pc[w] = "filter" /\ pc'[w] = "exit"
      /\ structural_bitmap'[w] = OperatorWord(text, w) \ in_string_bitmap[w]
  BY DEF Filter, FreshInv, VoteInv, TypeInv, TypeOK, Untouched
<1>2. w \in Nat /\ IsText(text) /\ launch \in Nat
  BY TextFacts DEF FreshInv, VoteInv, TypeInv, TypeOK
<1>3. launch > 0
  BY <1>1, <1>2 DEF FreshInv, VoteInv, Admitted
<1>4. in_string_bitmap[w] = InStringWord(text, w)
  BY <1>1, <1>3 DEF FreshInv, StageOf, Certified, HasString
<1>5. structural_bitmap'[w] = StructuralWord(text, w)
  BY <1>1, <1>2, <1>4, MaskedIsSpecified
<1>6. FlagRange(w)' /\ Certified(w)' /\ StageOf(w)'
  BY <1>1, <1>5 DEF FreshInv, FlagRange, Certified, StageOf, HasSlashes, HasString
<1> QED BY <1>1, <1>6, OnlyWord

LEMMA FreshGather ==
  ASSUME FreshInv, VoteInv', NEW lanes \in SUBSET Words, Gather(lanes)
  PROVE  FreshInv'
<1> USE DEF host, slashes, strings, locals
<1>1. /\ UNCHANGED <<text, launch, slashes, strings, structural_bitmap, previous, real_quote,
                     wrote>>
      /\ \A v \in Words \ lanes : Untouched(v)
  BY DEF Gather, FreshInv, VoteInv, TypeInv, TypeOK, Untouched
<1>2. \A v \in lanes : pc[v] = "gather" /\ pc'[v] = "poll" /\ ~published'[v]
  BY DEF Gather
<1>3. ASSUME NEW v \in lanes PROVE FlagRange(v)' /\ Certified(v)' /\ StageOf(v)'
  BY <1>1, <1>2 DEF FreshInv, FlagRange, Certified, StageOf, HasSlashes, HasString
<1> QED BY <1>1, <1>3, OthersUntouched

LEMMA FreshVote ==
  ASSUME FreshInv, VoteInv', NEW w \in Words, Vote(w)
  PROVE  FreshInv'
<1> USE DEF host, slashes, strings, locals
<1> DEFINE voters == active_lanes[w]
           target == IF \A v \in voters : published[v] THEN "filter" ELSE "poll"
<1>1. /\ UNCHANGED <<text, launch, slashes, strings, structural_bitmap, previous, real_quote,
                     published, wrote>>
      /\ voters \in SUBSET Words /\ \A v \in voters : pc[v] = "vote"
      /\ pc' = [v \in Words |-> IF v \in voters THEN target ELSE pc[v]]
  BY DEF Vote, Voters, FreshInv, VoteInv, TypeInv, TypeOK
<1>2. \A v \in voters : pc'[v] = target /\ (pc'[v] = "filter" => published[v])
  BY <1>1
<1>3. target \in {"filter", "poll"}
  OBVIOUS
<1>4. \A v \in Words \ voters : Untouched(v)
  BY <1>1 DEF Untouched, FreshInv, VoteInv, TypeInv, TypeOK
<1> HIDE DEF target
<1>5. ASSUME NEW v \in voters PROVE FlagRange(v)' /\ Certified(v)' /\ StageOf(v)'
  BY <1>1, <1>2, <1>3 DEF FreshInv, FlagRange, Certified, StageOf, HasSlashes, HasString
<1> HIDE DEF voters
<1> QED BY <1>1, <1>4, <1>5, OthersUntouched

LEMMA FreshStartBlock ==
  ASSUME FreshInv, VoteInv', NEW b \in Blocks, StartBlock(b)
  PROVE  FreshInv'
<1> USE DEF host, slashes, strings, locals
<1> DEFINE S == {w \in Words : Block(w) = b}
<1>1. /\ UNCHANGED <<text, launch, slashes, strings, structural_bitmap, previous, real_quote,
                     published, wrote>>
      /\ \A v \in S : pc'[v] = "classify"
      /\ \A v \in Words \ S : Untouched(v)
  BY DEF StartBlock, FreshInv, VoteInv, TypeInv, TypeOK, Untouched
<1>2. ASSUME NEW v \in S PROVE FlagRange(v)' /\ Certified(v)' /\ StageOf(v)'
  BY <1>1 DEF FreshInv, FlagRange, Certified, StageOf, HasSlashes, HasString
<1>3. S \in SUBSET Words
  OBVIOUS
<1> HIDE DEF S
<1> QED BY <1>1, <1>2, <1>3, OthersUntouched

LEMMA FreshStep == FreshInv /\ [Next]_vars => FreshInv'
<1> SUFFICES ASSUME FreshInv, [Next]_vars PROVE FreshInv'
  OBVIOUS
<1>1. VoteInv'
  BY VoteStep DEF FreshInv
<1>2. CASE Launch
  BY <1>1, <1>2, FreshLaunch
<1>3. ASSUME NEW b \in Blocks, StartBlock(b) PROVE FreshInv'
  BY <1>1, <1>3, FreshStartBlock
<1>4. ASSUME NEW w \in Words, ThreadStep(w) PROVE FreshInv'
  BY <1>1, <1>4, FreshClassify, FreshPublishSlash, FreshStartOfText, FreshLookback,
     FreshSelectString, FreshPublishString, FreshPollInVain, FreshFilter DEF ThreadStep
<1>5. ASSUME NEW lanes \in SUBSET Words, Gather(lanes) PROVE FreshInv'
  BY <1>1, <1>5, FreshGather
<1>6. ASSUME NEW w \in Voting, Vote(w) PROVE FreshInv'
  BY <1>1, <1>6, FreshVote DEF Voting
<1>7. CASE UNCHANGED vars
  <2> DEFINE S == {}
  <2>1. UNCHANGED <<text, launch>> /\ \A v \in Words \ S : Untouched(v)
    BY <1>7 DEF vars, host, slashes, strings, locals, Untouched
  <2>2. S \in SUBSET Words /\ \A v \in S : FlagRange(v)' /\ Certified(v)' /\ StageOf(v)'
    OBVIOUS
  <2> HIDE DEF S
  <2> QED BY <1>1, <2>1, <2>2, OthersUntouched
<1> QED BY <1>2, <1>3, <1>4, <1>5, <1>6, <1>7 DEF Next

\* No launch clears a flag, and yet a flag of the current epoch certifies what the
\* current launch has stored: the backslashes of the word, its true in-string bits.
THEOREM GpFlagsCertifyPayloads == Spec => []FlagsCertify
<1>1. FreshInv => FlagsCertify
  BY DEF FreshInv, Certified, HasSlashes, HasString, FlagsCertify, epoch
<1> QED BY <1>1, FreshInit, FreshStep, PTL DEF Spec

\* A launch that is over leaves the specified bitmap, in whatever order its blocks
\* started and however the lanes of its warps were converged.
THEOREM GpOutputIsCorrect == Spec => []OutputCorrect
<1>1. FreshInv => OutputCorrect
  BY DEF FreshInv, StageOf, OutputCorrect
<1> QED BY <1>1, FreshInit, FreshStep, PTL DEF Spec


-----------------------------------------------------------------------------
(***************************************************************************)
(* The kernel implements PrefixChain: a word counts as published when its  *)
(* flag has the epoch of the launch.                                       *)
(***************************************************************************)
PublishedWords == {u \in Words : launch > 0 /\ in_string_ready[u] = epoch}

PublishedPairs == {<<1, w>> : w \in PublishedWords}

PublishedStrings == [v \in PublishedPairs |-> in_string_bitmap[v[2]]]

\* A thread selects its word behind a published predecessor; flags are not taken back
\* within a launch, so it is still published when its own is.
ChainInv ==
  /\ FreshInv
  /\ \A w \in Words : pc[w] = "selected" => PredecessorReady(w)

\* Steps within a launch that neither select nor publish a string word.
ChainQuiet ==
  /\ UNCHANGED <<text, launch, in_string_bitmap, in_string_ready>>
  /\ \A w \in Words : pc'[w] = "selected" => pc[w] = "selected"

LEMMA ChainQuietActions ==
  ASSUME TypeInv
  PROVE  /\ \A b \in Blocks : StartBlock(b) => ChainQuiet
         /\ \A w \in Words :
              Classify(w) \/ PublishSlash(w) \/ StartOfText(w) \/ Lookback(w)
              \/ PollInVain(w) \/ Filter(w) \/ Vote(w) => ChainQuiet
         /\ \A lanes \in SUBSET Words : Gather(lanes) => ChainQuiet
<1> USE DEF host, slashes, strings, locals
<1>1. pc \in [Words -> PcValues]
  BY DEF TypeInv, TypeOK
<1>2. ASSUME NEW b \in Blocks, StartBlock(b) PROVE ChainQuiet
  BY <1>1, <1>2 DEF StartBlock, ChainQuiet
<1>3. ASSUME NEW w \in Words, Classify(w) PROVE ChainQuiet
  BY <1>1, <1>3 DEF Classify, ChainQuiet
<1>4. ASSUME NEW w \in Words, PublishSlash(w) PROVE ChainQuiet
  BY <1>1, <1>4 DEF PublishSlash, ChainQuiet
<1>5. ASSUME NEW w \in Words, StartOfText(w) PROVE ChainQuiet
  BY <1>1, <1>5 DEF StartOfText, SelectQuotes, ChainQuiet
<1>6. ASSUME NEW w \in Words, Lookback(w) PROVE ChainQuiet
  BY <1>1, <1>6 DEF Lookback, SelectQuotes, ChainQuiet
<1>7. ASSUME NEW w \in Words, PollInVain(w) PROVE ChainQuiet
  BY <1>1, <1>7 DEF PollInVain, ChainQuiet
<1>8. ASSUME NEW w \in Words, Filter(w) PROVE ChainQuiet
  BY <1>1, <1>8 DEF Filter, ChainQuiet
<1>9. ASSUME NEW w \in Words, Vote(w) PROVE ChainQuiet
  BY <1>1, <1>9 DEF Vote, ChainQuiet
<1>10. ASSUME NEW lanes \in SUBSET Words, Gather(lanes) PROVE ChainQuiet
  BY <1>1, <1>10 DEF Gather, ChainQuiet
<1> QED BY <1>2, <1>3, <1>4, <1>5, <1>6, <1>7, <1>8, <1>9, <1>10

LEMMA ChainInit == Init => ChainInv
<1> SUFFICES ASSUME Init PROVE ChainInv
  OBVIOUS
<1>1. \A w \in Words : pc[w] = "exit"
  BY DEF Init
<1> QED BY <1>1, FreshInit DEF ChainInv

LEMMA ChainStep == ChainInv /\ [Next]_vars => ChainInv'
<1> SUFFICES ASSUME ChainInv, [Next]_vars PROVE ChainInv'
  OBVIOUS
<1> USE DEF host, slashes, strings, locals
<1>1. FreshInv' /\ TypeInv
  BY FreshStep DEF ChainInv, FreshInv, VoteInv
<1>2. /\ pc \in [Words -> PcValues] /\ in_string_ready \in [Words -> 0 .. Launches]
      /\ \A v \in Words : v \in Nat
  BY <1>1, TextFacts DEF TypeInv, TypeOK
<1> SUFFICES ASSUME NEW v \in Words', pc'[v] = "selected"
             PROVE  PredecessorReady(v)'
  BY <1>1 DEF ChainInv
<1>3. UNCHANGED text
  BY DEF Next, vars, Launch, StartBlock, ThreadStep, Classify, PublishSlash, StartOfText, Lookback,
         SelectString, PublishString, PollInVain, Filter, Gather, Vote
<1>4. v \in Words
  BY <1>3 DEF Words
<1>5. pc[v] = "selected" => PredecessorReady(v)
  BY <1>4 DEF ChainInv
<1>6. CASE Launch
  BY <1>4, <1>6 DEF Launch
<1>7. CASE ChainQuiet
  BY <1>4, <1>5, <1>7 DEF ChainQuiet, PredecessorReady, Ready, epoch
<1>8. ASSUME NEW w \in Words, SelectString(w) PROVE PredecessorReady(v)'
  <2>1. /\ UNCHANGED <<launch, in_string_ready>> /\ PredecessorReady(w)
        /\ v # w => pc'[v] = pc[v]
    BY <1>2, <1>4, <1>8 DEF SelectString
  <2> QED BY <1>5, <2>1 DEF PredecessorReady, Ready, epoch
<1>9. ASSUME NEW w \in Words, PublishString(w) PROVE PredecessorReady(v)'
  <2>1. /\ UNCHANGED launch /\ pc[v] = "selected"
        /\ in_string_ready' = [in_string_ready EXCEPT ![w] = launch]
    BY <1>2, <1>4, <1>9 DEF PublishString, epoch
  <2>2. v # 0 => v - 1 \in Words
    BY <1>1, <1>2, <1>4, TextFacts DEF Words, TypeInv, TypeOK
  <2> QED BY <1>2, <1>5, <2>1, <2>2 DEF PredecessorReady, Ready, epoch
<1>10. CASE UNCHANGED vars
  BY <1>5, <1>10 DEF vars, PredecessorReady, Ready, epoch
<1> QED
  BY <1>1, <1>6, <1>7, <1>8, <1>9, <1>10, ChainQuietActions DEF Next, ThreadStep, Voting

\* The abstract module's definitions of a text's words are the same.
LEMMA SameWords ==
  /\ \A t, w : Chain!InStringWord(t, w) = InStringWord(t, w)
  /\ ChainWords(<<text>>) = {<<1, w>> : w \in Words}
<1>1. \A t, p, k : Chain!MaximalSlashRun(t, p, k) <=> MaximalSlashRun(t, p, k)
  BY DEF Chain!MaximalSlashRun, MaximalSlashRun
<1>2. \A t, p : Chain!EscapedAt(t, p) <=> EscapedAt(t, p)
  BY <1>1 DEF Chain!EscapedAt, EscapedAt
<1>3. \A t : Chain!RealQuotes(t) = RealQuotes(t)
  BY <1>2 DEF Chain!RealQuotes, RealQuotes
<1>4. \A t, p : Chain!QuotesBefore(t, p) = QuotesBefore(t, p)
  BY <1>3 DEF Chain!QuotesBefore, QuotesBefore
<1>5. \A t, p : Chain!IncomingString(t, p) <=> IncomingString(t, p)
  <2>1. \A S : Chain!Cardinality(S) = Cardinality(S)
    BY DEF Chain!Cardinality, Cardinality
  <2> QED BY <1>4, <2>1 DEF Chain!IncomingString, IncomingString
<1>6. Chain!Bits = Bits
  BY DEF Chain!Bits, Bits
<1> QED BY <1>5, <1>6 DEF Chain!InStringWord, InStringWord, ChainWords, Words

\* The next launch starts when every word has been published, and no flag has its epoch
\* yet.
LEMMA LaunchIsNextLaunch == ChainInv /\ Launch => Chain!NextLaunch
<1> SUFFICES ASSUME ChainInv, Launch PROVE Chain!NextLaunch
  OBVIOUS
<1>1. /\ launch' = launch + 1 /\ UNCHANGED <<text, in_string_bitmap, in_string_ready>>
      /\ Words' = Words /\ \A w \in Words : pc[w] = "exit"
  BY DEF Launch, strings, Words
<1>2. launch \in Nat /\ \A w \in Words : in_string_ready[w] \in Nat /\ in_string_ready[w] <= launch
  BY DEF ChainInv, FreshInv, FlagRange, VoteInv, TypeInv, TypeOK
<1>3. launch = 0 \/ PublishedWords = Words
  BY <1>1, <1>2 DEF ChainInv, FreshInv, StageOf, PublishedWords, epoch
<1>4. PublishedWords' = {}
  BY <1>1, <1>2 DEF PublishedWords, epoch
<1>5. PublishedPairs' = {}
  BY <1>4 DEF PublishedPairs
<1>6. PublishedStrings' = [v \in {} |-> {}] /\ DOMAIN PublishedStrings = PublishedPairs
  BY <1>5 DEF PublishedStrings
<1>7. launch = 0 \/ DOMAIN PublishedStrings = ChainWords(<<text>>)
  BY <1>3, <1>6, SameWords DEF PublishedPairs
<1> QED BY <1>1, <1>6, <1>7 DEF Chain!NextLaunch, PublishedStrings, PublishedPairs, PublishedWords

\* A word's flag is the abstract publication of the word.
LEMMA PublishIsPublish ==
  ASSUME ChainInv, NEW w \in Words, PublishString(w)
  PROVE  \/ UNCHANGED <<<<text>>, launch, PublishedStrings>>
         \/ \E v \in ChainWords(<<text>>) : Chain!Publish(v)
<1> DEFINE v == <<1, w>>
<1>1. /\ UNCHANGED <<text, launch, in_string_bitmap>> /\ pc[w] = "selected"
      /\ in_string_ready' = [in_string_ready EXCEPT ![w] = launch] /\ Words' = Words
  BY DEF PublishString, host, epoch, Words
<1>2. /\ launch \in Nat /\ in_string_ready \in [Words -> 0 .. Launches] /\ w \in Nat
      /\ WordCount(text) \in Nat
  BY TextFacts DEF ChainInv, FreshInv, VoteInv, TypeInv, TypeOK
<1>3. launch > 0
  BY <1>1, <1>2 DEF ChainInv, FreshInv, VoteInv, Admitted
<1>4. PublishedWords' = PublishedWords \cup {w}
  BY <1>1, <1>2, <1>3 DEF PublishedWords, epoch
<1>5. PublishedPairs' = PublishedPairs \cup {v}
  BY <1>4 DEF PublishedPairs
<1>6. CASE w \in PublishedWords
  <2>1. PublishedPairs' = PublishedPairs
    BY <1>5, <1>6 DEF PublishedPairs
  <2> QED BY <1>1, <2>1 DEF PublishedStrings
<1>7. CASE w \notin PublishedWords
  <2>1. w # 0 => <<1, w - 1>> \in PublishedPairs
    <3>1. w # 0 => w - 1 \in Words
      BY <1>2 DEF Words
    <3>2. w # 0 => w - 1 \in PublishedWords
      BY <1>1, <1>2, <1>3, <3>1 DEF ChainInv, PredecessorReady, Ready, epoch, PublishedWords
    <3> QED BY <3>2 DEF PublishedPairs
  <2>2. in_string_bitmap[w] = InStringWord(text, w)
    BY <1>1 DEF ChainInv, FreshInv, StageOf, HasString
  <2>3. v \notin PublishedPairs
    BY <1>7 DEF PublishedPairs
  <2>4. PublishedStrings' =
          [u \in PublishedPairs \cup {v} |->
             IF u = v THEN InStringWord(text, w) ELSE PublishedStrings[u]]
    BY <1>1, <1>5, <2>2, <2>3 DEF PublishedStrings
  <2>5. DOMAIN PublishedStrings = PublishedPairs
    BY DEF PublishedStrings
  <2>6. v \in ChainWords(<<text>>) /\ v[1] = 1 /\ v[2] = w /\ <<text>>[1] = text
    BY SameWords
  <2>7. Chain!Publish(v)
    BY <1>1, <1>3, <2>1, <2>3, <2>4, <2>5, <2>6, SameWords
       DEF Chain!Publish, PublishedStrings, PublishedPairs, PublishedWords
  <2> QED BY <2>6, <2>7
<1> QED BY <1>6, <1>7

\* To store the string of a published word again changes nothing.
LEMMA SelectStutters ==
  ASSUME ChainInv, ChainInv', NEW w \in Words, SelectString(w)
  PROVE  UNCHANGED <<<<text>>, launch, PublishedStrings>>
<1>1. /\ UNCHANGED <<text, launch, in_string_ready>> /\ Words' = Words
      /\ \A u \in Words : u # w => in_string_bitmap'[u] = in_string_bitmap[u]
  BY DEF SelectString, host, Words, ChainInv, FreshInv, VoteInv, TypeInv, TypeOK
<1>2. ASSUME w \in PublishedWords PROVE in_string_bitmap'[w] = in_string_bitmap[w]
  <2>1. launch > 0 /\ in_string_ready[w] = launch
    BY <1>2 DEF PublishedWords, epoch
  <2>2. in_string_bitmap[w] = InStringWord(text, w)
    BY <2>1 DEF ChainInv, FreshInv, Certified, HasString
  <2>3. in_string_bitmap'[w] = InStringWord(text, w)
    BY <1>1, <2>1 DEF ChainInv, FreshInv, Certified, HasString
  <2> QED BY <2>2, <2>3
<1>3. PublishedPairs' = PublishedPairs
  BY <1>1 DEF PublishedPairs, PublishedWords, epoch
<1>4. \A u \in PublishedWords : in_string_bitmap'[u] = in_string_bitmap[u]
  BY <1>1, <1>2 DEF PublishedWords
<1>5. \A v \in PublishedPairs : v[2] \in PublishedWords
  BY DEF PublishedPairs
<1> QED BY <1>1, <1>3, <1>4, <1>5 DEF PublishedStrings

LEMMA StepRefines ==
  ASSUME ChainInv, ChainInv', [Next]_vars
  PROVE  [Chain!Next]_<<<<text>>, launch, PublishedStrings>>
<1>1. TypeInv
  BY DEF ChainInv, FreshInv, VoteInv
<1>2. CASE Launch
  BY <1>2, LaunchIsNextLaunch DEF Chain!Next
<1>3. CASE ChainQuiet
  BY <1>3 DEF ChainQuiet, PublishedStrings, PublishedPairs, PublishedWords, Words, epoch
<1>4. ASSUME NEW w \in Words, SelectString(w)
      PROVE  UNCHANGED <<<<text>>, launch, PublishedStrings>>
  BY <1>4, SelectStutters
<1>5. ASSUME NEW w \in Words, PublishString(w)
      PROVE  \/ UNCHANGED <<<<text>>, launch, PublishedStrings>>
             \/ \E v \in ChainWords(<<text>>) : Chain!Publish(v)
  BY <1>5, PublishIsPublish
<1>6. CASE UNCHANGED vars
  BY <1>6 DEF vars, host, strings, PublishedStrings, PublishedPairs, PublishedWords, Words, epoch
<1> QED
  BY <1>1, <1>2, <1>3, <1>4, <1>5, <1>6, ChainQuietActions
     DEF Next, ThreadStep, Voting, Chain!Next

\* Every launch of the kernel publishes the words once each, behind their predecessors
\* and with the specified values: PublishString is the abstract step, Launch the
\* abstract next launch, and every other step a stutter.
THEOREM GpEnumerationImplementsChain == Spec => ImplementsChain
<1>1. Init => Chain!Init
  <2> SUFFICES ASSUME Init PROVE Chain!Init
    OBVIOUS
  <2>1. launch = 0 /\ PublishedPairs = {}
    BY DEF Init, PublishedWords, PublishedPairs
  <2>2. PublishedStrings = [w \in {} |-> {}]
    BY <2>1 DEF PublishedStrings
  <2> QED BY <2>1, <2>2 DEF Chain!Init, PublishedStrings, PublishedPairs, PublishedWords
<1>2. ChainInv /\ ChainInv' /\ [Next]_vars
        => [Chain!Next]_<<<<text>>, launch, PublishedStrings>>
  BY StepRefines
<1> QED
  BY <1>1, <1>2, ChainInit, ChainStep, PTL
     DEF Spec, ImplementsChain, Chain!Spec, PublishedStrings, PublishedPairs, PublishedWords

=============================================================================
