---------------------------- MODULE StreamsProofs ----------------------------
(***************************************************************************)
(* Proofs about the programs that MCStreams runs: cuJSON's hierarchy and   *)
(* its control (CuHierarchy, NoValidation), for every text, block, warp,   *)
(* recovery grid, number of launches and set of words in error, and for    *)
(* every order of the warps, queue positions and threads; the gpJSON       *)
(* baseline and the program prepared from it (GpBaseline, PreparedGpjson), *)
(* for every text, grid, order of the threads and number of launches;      *)
(* gpJSON's hierarchy and its control, for every text, grid, warp, mapping *)
(* and number of launches, and every order of the threads, of the warps    *)
(* and of what they append to the queue; and the targeted baselines, about *)
(* which StageMajorProofs holds the argument.                              *)
(***************************************************************************)
EXTENDS MCStreams, JsonLemmas

-----------------------------------------------------------------------------
(***************************************************************************)
(* gpJSON's byte loop: the backslashes it has behind it when it arrives at *)
(* a byte, and the escape it arrives with.                                 *)
(***************************************************************************)
LoopRun(t, from, p, k) ==
  /\ k \in 0 .. p - from
  /\ \A q \in (p - k) .. (p - 1) : t[q] = "slash"
  /\ k < p - from => t[p - k - 1] # "slash"

LEMMA LoopRunIsTheRun ==
  ASSUME NEW t, NEW from \in Nat, NEW p \in Nat, from <= p, NEW incoming \in {0, 1},
         NEW k, LoopRun(t, from, p, k)
  PROVE  EscapeOnArrival(t, from, incoming, p) = (IF k = p - from THEN k + incoming ELSE k) % 2
<1>1. k \in 0 .. p - from
  BY DEF LoopRun
<1>2. ASSUME NEW a \in 0 .. p - from, NEW b \in 0 .. p - from, a < b,
             LoopRun(t, from, p, a), LoopRun(t, from, p, b)
      PROVE  FALSE
  <2>1. a < p - from /\ p - a - 1 \in (p - b) .. (p - 1)
    BY <1>2
  <2> QED BY <1>2, <2>1 DEF LoopRun
<1>3. \A j \in 0 .. p - from : LoopRun(t, from, p, j) => j = k
  BY <1>1, <1>2
<1> DEFINE run == CHOOSE j \in 0 .. p - from :
                    /\ \A q \in (p - j) .. (p - 1) : t[q] = "slash"
                    /\ j < p - from => t[p - j - 1] # "slash"
<1>4. run = k
  <2>1. \E j \in 0 .. p - from : /\ \A q \in (p - j) .. (p - 1) : t[q] = "slash"
                                 /\ j < p - from => t[p - j - 1] # "slash"
    BY <1>1 DEF LoopRun
  <2>2. /\ run \in 0 .. p - from
        /\ \A q \in (p - run) .. (p - 1) : t[q] = "slash"
        /\ run < p - from => t[p - run - 1] # "slash"
    BY <2>1
  <2> HIDE DEF run
  <2>3. LoopRun(t, from, p, run)
    BY <2>2 DEF LoopRun
  <2> QED BY <1>3, <2>2, <2>3
<1>5. EscapeOnArrival(t, from, incoming, p) = (IF run = p - from THEN run + incoming ELSE run) % 2
  BY DEF EscapeOnArrival
<1> HIDE DEF run
<1> QED BY <1>4, <1>5

LEMMA LoopRunExists ==
  ASSUME NEW t, NEW from \in Nat, NEW p \in Nat, from <= p
  PROVE  \E k : LoopRun(t, from, p, k)
<1> DEFINE ends == {k \in 0 .. p - from : k < p - from => t[p - k - 1] # "slash"}
<1>1. p - from \in ends /\ ends \in SUBSET Nat
  OBVIOUS
<1>2. PICK k \in ends : \A j \in ends : k <= j
  <2> HIDE DEF ends
  <2> QED BY <1>1, LeastElement
<1>3. ASSUME NEW q \in (p - k) .. (p - 1) PROVE t[q] = "slash"
  <2> DEFINE j == p - q - 1
  <2>1. j \in 0 .. p - from /\ j < k /\ p - j - 1 = q /\ j < p - from
    BY <1>2, <1>3
  <2> HIDE DEF j
  <2>2. j \notin ends
    BY <1>2, <2>1
  <2> QED BY <2>1, <2>2
<1> QED BY <1>2, <1>3 DEF LoopRun

\* The loop starts with the escape it is given.
LEMMA LoopStarts ==
  ASSUME NEW t, NEW from \in Nat, NEW incoming \in {0, 1}
  PROVE  EscapeOnArrival(t, from, incoming, from) = incoming
<1>1. LoopRun(t, from, from, 0)
  BY DEF LoopRun
<1>2. EscapeOnArrival(t, from, incoming, from) = (IF 0 = from - from THEN 0 + incoming ELSE 0) % 2
  BY <1>1, LoopRunIsTheRun
<1> QED BY <1>2

\* A backslash turns the escape round, any other byte ends it.
LEMMA LoopSteps ==
  ASSUME NEW t, NEW from \in Nat, NEW p \in Nat, from <= p, NEW incoming \in {0, 1}
  PROVE  /\ EscapeOnArrival(t, from, incoming, p) \in {0, 1}
         /\ EscapeOnArrival(t, from, incoming, p + 1)
              = IF t[p] = "slash" THEN 1 - EscapeOnArrival(t, from, incoming, p) ELSE 0
<1>1. PICK k : LoopRun(t, from, p, k)
  BY LoopRunExists
<1>2. /\ k \in 0 .. p - from
      /\ \A q \in (p - k) .. (p - 1) : t[q] = "slash"
      /\ k < p - from => t[p - k - 1] # "slash"
  BY <1>1 DEF LoopRun
<1> DEFINE n == IF t[p] = "slash" THEN k + 1 ELSE 0
<1>3. LoopRun(t, from, p + 1, n)
  <2>1. CASE t[p] = "slash"
    <3>1. k + 1 \in 0 .. (p + 1) - from
      BY <1>2
    <3>2. ASSUME NEW q \in ((p + 1) - (k + 1)) .. ((p + 1) - 1) PROVE t[q] = "slash"
      <4>1. q = p \/ q \in (p - k) .. (p - 1)
        BY <1>2
      <4> QED BY <1>2, <2>1, <4>1
    <3>3. k + 1 < (p + 1) - from => t[(p + 1) - (k + 1) - 1] # "slash"
      <4>1. (p + 1) - (k + 1) - 1 = p - k - 1 /\ (k + 1 < (p + 1) - from => k < p - from)
        BY <1>2
      <4> QED BY <1>2, <4>1
    <3> QED BY <2>1, <3>1, <3>2, <3>3 DEF LoopRun
  <2>2. CASE t[p] # "slash"
    BY <2>2 DEF LoopRun
  <2> QED BY <2>1, <2>2
<1>4. EscapeOnArrival(t, from, incoming, p) = (IF k = p - from THEN k + incoming ELSE k) % 2
  BY <1>1, LoopRunIsTheRun
<1>5. EscapeOnArrival(t, from, incoming, p + 1)
        = (IF n = (p + 1) - from THEN n + incoming ELSE n) % 2
  BY <1>3, LoopRunIsTheRun
<1>6. CASE t[p] = "slash"
  BY <1>2, <1>4, <1>5, <1>6
<1>7. CASE t[p] # "slash"
  BY <1>2, <1>4, <1>5, <1>7
<1> QED BY <1>6, <1>7

\* What holds where the loop starts and is handed from byte to byte holds on arrival at
\* every byte.
LEMMA ByteByByte ==
  ASSUME NEW from \in Nat, NEW to \in Nat, from <= to,
         NEW Q \in SUBSET Nat, from \in Q,
         \A p \in from .. to - 1 : p \in Q => p + 1 \in Q
  PROVE  to \in Q
<1> DEFINE bad == {p \in from .. to : p \notin Q}
<1> SUFFICES ASSUME bad # {} PROVE FALSE
  OBVIOUS
<1>1. PICK p \in bad : \A q \in bad : p <= q
  <2>1. bad \in SUBSET Nat
    OBVIOUS
  <2> HIDE DEF bad
  <2> QED BY <2>1, LeastElement
<1>2. p - 1 \in from .. to - 1 /\ (p - 1) + 1 = p
  BY <1>1
<1>3. p - 1 \in Q
  BY <1>1, <1>2
<1> QED BY <1>1, <1>2, <1>3

\* A loop that starts with the escape another one has there goes on as that one.
LEMMA LoopsCompose ==
  ASSUME NEW t, NEW from \in Nat, NEW middle \in Nat, NEW p \in Nat, from <= middle, middle <= p,
         NEW incoming \in {0, 1}
  PROVE  EscapeOnArrival(t, middle, EscapeOnArrival(t, from, incoming, middle), p)
           = EscapeOnArrival(t, from, incoming, p)
<1> DEFINE e == EscapeOnArrival(t, from, incoming, middle)
           a(q) == EscapeOnArrival(t, middle, e, q)
           b(q) == EscapeOnArrival(t, from, incoming, q)
           Q == {q \in Nat : a(q) = b(q)}
<1>1. e \in {0, 1}
  BY LoopSteps
<1>2. middle \in Q
  <2> HIDE DEF e
  <2>1. a(middle) = e
    BY <1>1, LoopStarts
  <2> QED BY <2>1 DEF e
<1>3. ASSUME NEW q \in middle .. p - 1, q \in Q PROVE q + 1 \in Q
  <2>1. q \in Nat /\ middle <= q /\ from <= q
    OBVIOUS
  <2>2. b(q + 1) = IF t[q] = "slash" THEN 1 - b(q) ELSE 0
    BY <2>1, LoopSteps
  <2> HIDE DEF e
  <2>3. a(q + 1) = IF t[q] = "slash" THEN 1 - a(q) ELSE 0
    BY <1>1, <2>1, LoopSteps
  <2> QED BY <1>3, <2>1, <2>2, <2>3
<1> HIDE DEF Q
<1>4. p \in Q
  BY <1>2, <1>3, ByteByByte DEF Q
<1> QED BY <1>4 DEF Q

\* Two starts are told apart as long as there have been backslashes only.
LEMMA LoopsDiffer ==
  ASSUME NEW t, NEW from \in Nat, NEW p \in Nat, from <= p
  PROVE  EscapeOnArrival(t, from, 1, p)
           = IF \A q \in from .. p - 1 : t[q] = "slash"
             THEN 1 - EscapeOnArrival(t, from, 0, p) ELSE EscapeOnArrival(t, from, 0, p)
<1> DEFINE a(q) == EscapeOnArrival(t, from, 0, q)
           b(q) == EscapeOnArrival(t, from, 1, q)
           only(q) == \A r \in from .. q - 1 : t[r] = "slash"
           Q == {q \in Nat : b(q) = IF only(q) THEN 1 - a(q) ELSE a(q)}
<1>1. from \in Q
  BY LoopStarts
<1>2. ASSUME NEW q \in from .. p - 1, q \in Q PROVE q + 1 \in Q
  <2>1. /\ q \in Nat /\ a(q) \in {0, 1} /\ b(q) \in {0, 1}
        /\ a(q + 1) = IF t[q] = "slash" THEN 1 - a(q) ELSE 0
        /\ b(q + 1) = IF t[q] = "slash" THEN 1 - b(q) ELSE 0
    BY LoopSteps
  <2>2. only(q + 1) <=> only(q) /\ t[q] = "slash"
    <3>1. \A r : r \in from .. (q + 1) - 1 <=> r \in from .. q - 1 \/ r = q
      OBVIOUS
    <3> QED BY <3>1
  <2> HIDE DEF a, b, only
  <2> QED BY <1>2, <2>1, <2>2
<1> HIDE DEF Q
<1>3. p \in Q
  BY <1>1, <1>2, ByteByByte DEF Q
<1> QED BY <1>3 DEF Q

-----------------------------------------------------------------------------
(***************************************************************************)
(* The quotes of a range of bytes, and of two ranges that follow each      *)
(* other.                                                                  *)
(***************************************************************************)
LEMMA RangeFacts ==
  ASSUME NEW t, IsText(t), NEW from \in Nat, NEW to \in Nat
  PROVE  /\ ByteRange(t, from, to) \in SUBSET Nat /\ IsFiniteSet(ByteRange(t, from, to))
         /\ \A p : p \in ByteRange(t, from, to) <=> p \in DOMAIN t /\ from <= p /\ p < to
         /\ \A p \in DOMAIN t : p \in Nat /\ p < Size(t)
         /\ \A p \in Nat : p <= Size(t) =>
              (AllSlashes(t, from, p) <=> \A q \in from .. p - 1 : t[q] = "slash")
<1>1. DOMAIN t = 0 .. Size(t) - 1 /\ IsFiniteSet(DOMAIN t) /\ Size(t) \in Nat
  BY TextDomain
<1>2. ByteRange(t, from, to) \in SUBSET DOMAIN t
  BY DEF ByteRange
<1>3. IsFiniteSet(ByteRange(t, from, to))
  BY <1>1, <1>2, FS_Subset
<1>4. ASSUME NEW p \in Nat, p <= Size(t)
      PROVE  AllSlashes(t, from, p) <=> \A q \in from .. p - 1 : t[q] = "slash"
  <2>1. \A q : q \in ByteRange(t, from, p) <=> q \in from .. p - 1
    BY <1>1, <1>4 DEF ByteRange
  <2> QED BY <2>1 DEF AllSlashes
<1> QED BY <1>1, <1>2, <1>3, <1>4 DEF ByteRange

\* The one quote that the escape at the beginning of a range changes.
LEMMA EscapeChangesOne ==
  ASSUME NEW t, IsText(t), NEW from \in Nat, NEW to \in Nat
  PROVE  /\ QuotesFrom(t, from, to, 1)
              = SymDiff(QuotesFrom(t, from, to, 0), FirstNonSlashQuote(t, from, to))
         /\ FirstNonSlashQuote(t, from, to) # {}
              <=> QuotesFrom(t, from, to, 0) # QuotesFrom(t, from, to, 1)
<1> DEFINE range == ByteRange(t, from, to)
           none  == QuotesFrom(t, from, to, 0)
           one   == QuotesFrom(t, from, to, 1)
           first == FirstNonSlashQuote(t, from, to)
<1>1. \A p : /\ p \in none <=> p \in range /\ t[p] = "quote" /\ EscapeOnArrival(t, from, 0, p) = 0
             /\ p \in one <=> p \in range /\ t[p] = "quote" /\ EscapeOnArrival(t, from, 1, p) = 0
             /\ p \in first <=> p \in range /\ t[p] = "quote" /\ AllSlashes(t, from, p)
  BY DEF QuotesFrom, FirstNonSlashQuote
<1>2. ASSUME NEW p \in range
      PROVE  /\ EscapeOnArrival(t, from, 0, p) \in {0, 1}
             /\ EscapeOnArrival(t, from, 1, p)
                  = IF AllSlashes(t, from, p) THEN 1 - EscapeOnArrival(t, from, 0, p)
                    ELSE EscapeOnArrival(t, from, 0, p)
  <2>1. p \in Nat /\ from <= p /\ p <= Size(t) /\ Size(t) \in Nat
    BY RangeFacts, TextDomain
  <2> QED BY <2>1, LoopsDiffer, LoopSteps, RangeFacts
<1>3. \A p : p \in one <=> (p \in none) # (p \in first)
  BY <1>1, <1>2
<1> HIDE DEF none, one, first, range
<1>4. one = SymDiff(none, first)
  BY <1>3 DEF SymDiff
<1>5. first # {} <=> none # one
  BY <1>3
<1> QED BY <1>4, <1>5 DEF none, one, first

LEMMA OutgoingFacts ==
  ASSUME NEW t, IsText(t), NEW from \in Nat, NEW to \in Nat, from <= to, NEW e \in {0, 1}
  PROVE  /\ OutgoingEscape(t, from, to, e) \in {0, 1}
         /\ from >= Size(t) => OutgoingEscape(t, from, to, e) = e
         /\ to <= Size(t) => OutgoingEscape(t, from, to, e) = EscapeOnArrival(t, from, e, to)
         /\ from <= Size(t) /\ Size(t) <= to =>
              OutgoingEscape(t, from, to, e) = EscapeOnArrival(t, from, e, Size(t))
<1> DEFINE end == IF from >= Size(t) THEN from ELSE IF to < Size(t) THEN to ELSE Size(t)
<1>1. Size(t) \in Nat
  BY TextDomain
<1>2. OutgoingEscape(t, from, to, e) = EscapeOnArrival(t, from, e, end)
  BY DEF OutgoingEscape
<1>3. end \in Nat /\ from <= end
  BY <1>1
<1>4. /\ from >= Size(t) => end = from
      /\ to <= Size(t) => end = to
      /\ from <= Size(t) /\ Size(t) <= to => end = Size(t)
  BY <1>1
<1> HIDE DEF end
<1>5. OutgoingEscape(t, from, to, e) \in {0, 1}
  <2>1. EscapeOnArrival(t, from, e, end) \in {0, 1}
    BY <1>3, LoopSteps
  <2> QED BY <1>2, <2>1
<1>6. EscapeOnArrival(t, from, e, from) = e
  BY LoopStarts
<1> QED BY <1>2, <1>4, <1>5, <1>6

\* The range goes on where its first part ends, with the escape that leaves it.
LEMMA RangesFollow ==
  ASSUME NEW t, IsText(t), NEW from \in Nat, NEW middle \in Nat, NEW to \in Nat,
         from <= middle, middle <= to, NEW e \in {0, 1}
  PROVE  LET out == OutgoingEscape(t, from, middle, e) IN
         /\ QuotesFrom(t, from, to, e)
              = QuotesFrom(t, from, middle, e) \cup QuotesFrom(t, middle, to, out)
         /\ OutgoingEscape(t, from, to, e) = OutgoingEscape(t, middle, to, out)
         /\ AllSlashes(t, from, to) <=> AllSlashes(t, from, middle) /\ AllSlashes(t, middle, to)
         /\ FirstNonSlashQuote(t, from, to) # {}
              <=> IF AllSlashes(t, from, middle) THEN FirstNonSlashQuote(t, middle, to) # {}
                  ELSE FirstNonSlashQuote(t, from, middle) # {}
<1> DEFINE out == OutgoingEscape(t, from, middle, e)
<1>1. Size(t) \in Nat /\ out \in {0, 1}
  BY TextDomain, OutgoingFacts
<1>2. \A p \in Nat : middle <= p /\ p <= Size(t) =>
        EscapeOnArrival(t, middle, out, p) = EscapeOnArrival(t, from, e, p)
  <2> SUFFICES ASSUME NEW p \in Nat, middle <= p, p <= Size(t)
               PROVE  EscapeOnArrival(t, middle, out, p) = EscapeOnArrival(t, from, e, p)
    OBVIOUS
  <2>1. out = EscapeOnArrival(t, from, e, middle)
    BY <1>1, OutgoingFacts
  <2> HIDE DEF out
  <2> QED BY <2>1, LoopsCompose
<1>3. \A p : /\ p \in ByteRange(t, from, to)
                 <=> p \in ByteRange(t, from, middle) \/ p \in ByteRange(t, middle, to)
             /\ p \in ByteRange(t, from, middle) => p \notin ByteRange(t, middle, to)
             /\ p \in ByteRange(t, middle, to) => p \in Nat /\ middle <= p /\ p <= Size(t)
             /\ p \in ByteRange(t, from, middle) => p \in Nat /\ p < middle /\ p <= Size(t) /\ from <= p
  <2>1. DOMAIN t = 0 .. Size(t) - 1
    BY TextDomain
  <2> QED BY <1>1, <2>1 DEF ByteRange
<1>4. QuotesFrom(t, from, to, e) = QuotesFrom(t, from, middle, e) \cup QuotesFrom(t, middle, to, out)
  <2> HIDE DEF out
  <2>1. \A p \in ByteRange(t, middle, to) :
          EscapeOnArrival(t, middle, out, p) = EscapeOnArrival(t, from, e, p)
    BY <1>2, <1>3
  <2> QED BY <1>3, <2>1 DEF QuotesFrom
<1>5. OutgoingEscape(t, from, to, e) = OutgoingEscape(t, middle, to, out)
  <2> HIDE DEF out
  <2>1. CASE middle >= Size(t)
    <3>1. OutgoingEscape(t, middle, to, out) = out
      BY <1>1, <2>1, OutgoingFacts
    <3>2. OutgoingEscape(t, from, to, e) = OutgoingEscape(t, from, middle, e)
      BY <1>1, <2>1 DEF OutgoingEscape
    <3> QED BY <3>1, <3>2 DEF out
  <2>2. CASE middle < Size(t) /\ to <= Size(t)
    BY <1>1, <1>2, <2>2, OutgoingFacts
  <2>3. CASE middle < Size(t) /\ Size(t) < to
    BY <1>1, <1>2, <2>3, OutgoingFacts
  <2> QED BY <1>1, <2>1, <2>2, <2>3
<1>6. AllSlashes(t, from, to) <=> AllSlashes(t, from, middle) /\ AllSlashes(t, middle, to)
  BY <1>3 DEF AllSlashes
<1>7. ASSUME NEW p \in ByteRange(t, middle, to)
      PROVE  AllSlashes(t, from, p) <=> AllSlashes(t, from, middle) /\ AllSlashes(t, middle, p)
  <2>1. p \in Nat /\ p <= Size(t) /\ middle <= Size(t) /\ middle <= p
    BY <1>1, <1>3
  <2>2. \A q : q \in from .. p - 1 <=> q \in from .. middle - 1 \/ q \in middle .. p - 1
    BY <2>1
  <2> QED BY <2>1, <2>2, RangeFacts
<1>8. ~AllSlashes(t, from, middle) =>
        (FirstNonSlashQuote(t, from, to) # {} <=> FirstNonSlashQuote(t, from, middle) # {})
  BY <1>3, <1>7 DEF FirstNonSlashQuote
<1>9. ASSUME AllSlashes(t, from, middle)
      PROVE  FirstNonSlashQuote(t, from, to) # {} <=> FirstNonSlashQuote(t, middle, to) # {}
  <2>1. \A p \in ByteRange(t, from, middle) : t[p] # "quote"
    BY <1>9 DEF AllSlashes
  <2> QED BY <1>3, <1>7, <1>9, <2>1 DEF FirstNonSlashQuote
<1> QED BY <1>4, <1>5, <1>6, <1>8, <1>9

-----------------------------------------------------------------------------
(***************************************************************************)
(* What the one-segment lookback finds in segment i of B bytes.            *)
(***************************************************************************)
Entering(t, B, i) == IF i = 0 THEN 0 ELSE OutgoingEscape(t, (i - 1) * B, i * B, 0)

Found(t, B, i) == QuotesFrom(t, i * B, (i + 1) * B, Entering(t, B, i))

LEMMA EnteringFacts ==
  ASSUME NEW t, IsText(t), NEW B \in Nat \ {0}, NEW i \in Nat
  PROVE  Entering(t, B, i) \in {0, 1}
<1>1. CASE i = 0
  BY <1>1 DEF Entering
<1>2. CASE i # 0
  <2>1. (i - 1) * B \in Nat /\ i * B \in Nat /\ (i - 1) * B <= i * B
    BY <1>2, SegmentEnds
  <2>2. OutgoingEscape(t, (i - 1) * B, i * B, 0) \in {0, 1}
    BY <2>1, OutgoingFacts
  <2> QED BY <1>2, <2>2 DEF Entering
<1> QED BY <1>1, <1>2

LEMMA FoundIsLookback ==
  ASSUME NEW t, IsText(t), NEW B \in Nat \ {0}, NEW i \in Nat
  PROVE  /\ Found(t, B, i) = {q \in LookbackQuotes(t, B) : i * B <= q /\ q < (i + 1) * B}
         /\ Found(t, B, i) \in SUBSET Nat /\ IsFiniteSet(Found(t, B, i))
<1> DEFINE from == i * B
           to == (i + 1) * B
           e == Entering(t, B, i)
<1>1. from \in Nat /\ to \in Nat /\ from <= to /\ e \in {0, 1} /\ Size(t) \in Nat
  BY SegmentEnds, EnteringFacts, TextDomain
<1>2. ASSUME NEW p \in ByteRange(t, from, to)
      PROVE  LookbackEscape(t, B, p) = EscapeOnArrival(t, from, e, p)
  <2>1. p \in Nat /\ from <= p /\ p < to /\ p < Size(t)
    BY <1>1, RangeFacts
  <2>2. (p \div B) * B = from
    <3>1. p \div B = i
      BY <2>1, SegmentEnds
    <3> QED BY <3>1
  <2>3. LookbackEscape(t, B, p) = EscapeOnArrival(t, IF from = 0 THEN 0 ELSE from - B, 0, p)
    BY <2>2 DEF LookbackEscape
  <2>4. CASE i = 0
    <3>1. from = 0 /\ e = 0
      BY <2>4 DEF Entering
    <3> QED BY <2>3, <3>1
  <2>5. CASE i # 0
    <3> DEFINE back == (i - 1) * B
    <3>1. back \in Nat /\ back <= from /\ back = from - B /\ from # 0
      BY <2>5, SegmentEnds
    <3>2. e = OutgoingEscape(t, back, from, 0)
      BY <2>5 DEF Entering
    <3> HIDE DEF back, from, e, to
    <3>3. e = EscapeOnArrival(t, back, 0, from)
      BY <1>1, <2>1, <3>1, <3>2, OutgoingFacts
    <3>4. EscapeOnArrival(t, from, e, p) = EscapeOnArrival(t, back, 0, p)
      BY <1>1, <2>1, <3>1, <3>3, LoopsCompose
    <3>5. LookbackEscape(t, B, p) = EscapeOnArrival(t, back, 0, p)
      BY <2>3, <3>1
    <3> QED BY <3>4, <3>5
  <2> QED BY <2>4, <2>5
<1>3. Found(t, B, i) = {p \in ByteRange(t, from, to) :
                          t[p] = "quote" /\ EscapeOnArrival(t, from, e, p) = 0}
  BY DEF Found, QuotesFrom
<1>4. \A p : p \in ByteRange(t, from, to) <=> p \in DOMAIN t /\ from <= p /\ p < to
  BY DEF ByteRange
<1>5. Found(t, B, i) \in SUBSET ByteRange(t, from, to)
  BY <1>3
<1>6. Found(t, B, i) \in SUBSET Nat /\ IsFiniteSet(Found(t, B, i))
  BY <1>1, <1>5, RangeFacts, FS_Subset
<1> HIDE DEF from, to, e
<1>7. Found(t, B, i) = {q \in LookbackQuotes(t, B) : from <= q /\ q < to}
  BY <1>2, <1>3, <1>4 DEF LookbackQuotes
<1> QED BY <1>6, <1>7 DEF from, to

-----------------------------------------------------------------------------
(***************************************************************************)
(* The string state at segment i, and the operators outside strings.       *)
(***************************************************************************)
FoundParities(t, B) == [i \in Nat |-> Cardinality(Found(t, B, i)) % 2]

LEMMA LookbackFinite ==
  ASSUME NEW t, IsText(t), NEW B
  PROVE  /\ LookbackQuotes(t, B) \in SUBSET Nat
         /\ \A S \in SUBSET LookbackQuotes(t, B) : IsFiniteSet(S) /\ Cardinality(S) \in Nat
<1>1. DOMAIN t \in SUBSET Nat /\ IsFiniteSet(DOMAIN t)
  BY TextDomain
<1>2. LookbackQuotes(t, B) \in SUBSET DOMAIN t
  BY DEF LookbackQuotes
<1> QED BY <1>1, <1>2, FS_Subset, FS_CardinalityType

LEMMA ParityBeforeSegment ==
  ASSUME NEW t, IsText(t), NEW B \in Nat \ {0}, NEW i \in Nat
  PROVE  OddCount(FoundParities(t, B), 0, i - 1)
           = Cardinality({q \in LookbackQuotes(t, B) : q < i * B}) % 2
<1> DEFINE P == FoundParities(t, B)
           before(j) == {q \in LookbackQuotes(t, B) : q < j * B}
           Q == {j \in Nat : OddCount(P, 0, j - 1) = Cardinality(before(j)) % 2}
<1>1. 0 \in Q
  <2>1. before(0) = {}
    BY LookbackFinite
  <2>2. OddCount(P, 0, 0 - 1) = 0
    BY OddCountFacts
  <2> HIDE DEF before, P
  <2>3. Cardinality(before(0)) = 0
    BY <2>1, FS_EmptySet
  <2> QED BY <2>2, <2>3
<1>2. ASSUME NEW j \in 0 .. i - 1, j \in Q PROVE j + 1 \in Q
  <2>1. j \in Nat /\ (j + 1) - 1 = j /\ j * B \in Nat /\ (j + 1) * B \in Nat /\ j * B <= (j + 1) * B
    BY SegmentEnds
  <2>2. Found(t, B, j) = {q \in LookbackQuotes(t, B) : j * B <= q /\ q < (j + 1) * B}
    BY <2>1, FoundIsLookback
  <2>3. before(j + 1) = before(j) \cup Found(t, B, j) /\ before(j) \cap Found(t, B, j) = {}
    <3>1. \A q \in LookbackQuotes(t, B) : q \in Nat
      BY LookbackFinite
    <3> QED BY <2>1, <2>2, <3>1
  <2>4. IsFiniteSet(before(j)) /\ IsFiniteSet(Found(t, B, j))
    <3>1. before(j) \in SUBSET LookbackQuotes(t, B) /\ Found(t, B, j) \in SUBSET LookbackQuotes(t, B)
      BY <2>2
    <3> HIDE DEF before
    <3> QED BY <3>1, LookbackFinite
  <2>5. OddCount(P, 0, j) = (OddCount(P, 0, j - 1) + OddCount(P, j, j)) % 2
    <3>1. j - 1 \in Int /\ 0 <= (j - 1) + 1 /\ j - 1 <= j /\ (j - 1) + 1 = j
      BY <2>1
    <3>2. OddCount(P, 0, j) = (OddCount(P, 0, j - 1) + OddCount(P, (j - 1) + 1, j)) % 2
      BY <2>1, <3>1, OddCountSplit
    <3> QED BY <3>1, <3>2
  <2>6. OddCount(P, j, j) = Cardinality(Found(t, B, j)) % 2
    <3>1. P[j] = Cardinality(Found(t, B, j)) % 2
      BY <2>1 DEF FoundParities
    <3>2. Cardinality(Found(t, B, j)) \in Nat
      BY <2>4, FS_CardinalityType
    <3>3. OddCount(P, j, j) = IF P[j] = 1 THEN 1 ELSE 0
      BY <2>1, OddCountFacts
    <3> HIDE DEF P
    <3> QED BY <3>1, <3>2, <3>3
  <2> HIDE DEF P, before
  <2>7. Cardinality(before(j + 1)) % 2
          = ((Cardinality(before(j)) % 2) + (Cardinality(Found(t, B, j)) % 2)) % 2
    BY <2>3, <2>4, ParityOfUnion
  <2>8. OddCount(P, 0, j - 1) = Cardinality(before(j)) % 2
    BY <1>2
  <2>9. OddCount(P, 0, (j + 1) - 1) = Cardinality(before(j + 1)) % 2
    BY <2>1, <2>5, <2>6, <2>7, <2>8
  <2> QED BY <2>1, <2>9
<1>3. Q \in SUBSET Nat /\ 0 \in Nat /\ 0 <= i
  OBVIOUS
<1> HIDE DEF Q
<1>4. i \in Q
  BY <1>1, <1>2, <1>3, ByteByByte
<1> QED BY <1>4 DEF Q

\* The operators of a range outside the strings that its quotes delimit, in either state.
LEMMA OutsideFacts ==
  ASSUME NEW operators_, NEW quotes, IsFiniteSet(quotes)
  PROVE  /\ OutsideStrings(operators_, quotes, 0)
              = SymDiff(OutsideStrings(operators_, quotes, 1), operators_)
         /\ \A e : OutsideStrings(operators_, quotes, e) \in SUBSET operators_
<1> DEFINE odd(p) == Cardinality({q \in quotes : q <= p})
<1>1. \A p : odd(p) \in Nat
  <2> SUFFICES ASSUME NEW p PROVE odd(p) \in Nat
    OBVIOUS
  <2> DEFINE S == {q \in quotes : q <= p}
  <2>1. S \in SUBSET quotes
    OBVIOUS
  <2> HIDE DEF S
  <2>2. Cardinality(S) \in Nat
    BY <2>1, FS_Subset, FS_CardinalityType
  <2> QED BY <2>2 DEF S
<1>2. \A p, e : p \in OutsideStrings(operators_, quotes, e) <=> p \in operators_ /\ (odd(p) + e) % 2 = 0
  BY DEF OutsideStrings
<1> HIDE DEF odd
<1>3. \A p : (odd(p) + 0) % 2 = 0 <=> ~((odd(p) + 1) % 2 = 0)
  BY <1>1
<1> QED BY <1>2, <1>3 DEF SymDiff

\* The operators of a range that are outside the strings of all of a set of quotes, from the
\* quotes in the range and the parity of those before it.
LEMMA RangeOutside ==
  ASSUME NEW t, IsText(t), NEW Q \in SUBSET DOMAIN t, NEW from \in Nat, NEW to \in Nat
  PROVE  OutsideStrings({p \in ByteRange(t, from, to) : IsOperator(t[p])},
                        {q \in Q : from <= q /\ q < to}, Cardinality({q \in Q : q < from}) % 2)
           = {p \in OutsideStrings(Operators(t), Q, 0) : from <= p /\ p < to}
<1> DEFINE before == {q \in Q : q < from}
           found == {q \in Q : from <= q /\ q < to}
           incoming == Cardinality(before) % 2
<1>1. /\ \A p : p \in ByteRange(t, from, to) <=> p \in DOMAIN t /\ from <= p /\ p < to
      /\ \A p \in DOMAIN t : p \in Nat
  BY TextDomain DEF ByteRange
<1>2. ASSUME NEW S \in SUBSET Q PROVE IsFiniteSet(S) /\ Cardinality(S) \in Nat
  <2>1. IsFiniteSet(DOMAIN t)
    BY TextDomain, FS_Interval
  <2> QED BY <2>1, FS_Subset, FS_CardinalityType
<1>3. ASSUME NEW p \in ByteRange(t, from, to)
      PROVE  (Cardinality({q \in found : q <= p}) + incoming) % 2 = 0
               <=> (Cardinality({q \in Q : q <= p}) + 0) % 2 = 0
  <2> DEFINE inside == {q \in found : q <= p}
             all == {q \in Q : q <= p}
  <2>1. p \in Nat /\ from <= p /\ p < to
    BY <1>1
  <2>2. \A q \in Q : q \in Nat
    BY <1>1
  <2>3. all = before \cup inside /\ before \cap inside = {}
    BY <2>1, <2>2
  <2>4. before \in SUBSET Q /\ inside \in SUBSET Q /\ all \in SUBSET Q
    OBVIOUS
  <2> HIDE DEF all, before, inside
  <2>5. IsFiniteSet(before) /\ IsFiniteSet(inside)
    BY <1>2, <2>4
  <2>6. Cardinality(all) % 2 = ((Cardinality(before) % 2) + (Cardinality(inside) % 2)) % 2
    BY <2>3, <2>5, ParityOfUnion
  <2> DEFINE a == Cardinality(all)
             b == Cardinality(before)
             c == Cardinality(inside)
  <2>7. a \in Nat /\ b \in Nat /\ c \in Nat /\ a % 2 = ((b % 2) + (c % 2)) % 2
    BY <1>2, <2>4, <2>6
  <2> HIDE DEF a, b, c
  <2>8. (c + (b % 2)) % 2 = 0 <=> (a + 0) % 2 = 0
    BY <2>7
  <2> QED BY <2>8 DEF a, b, c, inside, all
<1> HIDE DEF incoming, before, found
<1>4. OutsideStrings({p \in ByteRange(t, from, to) : IsOperator(t[p])}, found, incoming)
        = {p \in OutsideStrings(Operators(t), Q, 0) : from <= p /\ p < to}
  BY <1>1, <1>3 DEF OutsideStrings, Operators
<1> QED BY <1>4 DEF incoming, before, found

LEMMA SegmentStructural ==
  ASSUME NEW t, IsText(t), NEW B \in Nat \ {0}, NEW i \in Nat
  PROVE  OutsideStrings({p \in ByteRange(t, i * B, (i + 1) * B) : IsOperator(t[p])}, Found(t, B, i),
                        OddCount(FoundParities(t, B), 0, i - 1))
           = {p \in LookbackStructural(t, B) : i * B <= p /\ p < (i + 1) * B}
<1> DEFINE from == i * B
           to == (i + 1) * B
           LQ == LookbackQuotes(t, B)
           incoming == OddCount(FoundParities(t, B), 0, i - 1)
<1>1. from \in Nat /\ to \in Nat /\ incoming = Cardinality({q \in LQ : q < from}) % 2
  BY SegmentEnds, ParityBeforeSegment
<1>2. Found(t, B, i) = {q \in LQ : from <= q /\ q < to}
  BY FoundIsLookback
<1>3. LQ \in SUBSET DOMAIN t
  BY DEF LookbackQuotes
<1> HIDE DEF from, to, incoming, LQ
<1>4. OutsideStrings({p \in ByteRange(t, from, to) : IsOperator(t[p])}, Found(t, B, i), incoming)
        = {p \in OutsideStrings(Operators(t), LQ, 0) : from <= p /\ p < to}
  BY <1>1, <1>2, <1>3, RangeOutside
<1> QED BY <1>4 DEF from, to, incoming, LQ, LookbackStructural

\* The specified operators are those outside the strings of the real quotes.
LEMMA OutsideIsStructural ==
  ASSUME NEW t, IsText(t)
  PROVE  OutsideStrings(Operators(t), RealQuotes(t), 0) = Structural(t)
<1>1. ASSUME NEW p \in DOMAIN t
      PROVE  p \in InString(t) <=> ~((Cardinality({q \in RealQuotes(t) : q <= p}) + 0) % 2 = 0)
  <2> DEFINE upto == {q \in RealQuotes(t) : q <= p}
  <2>1. p \in Nat /\ \A q \in RealQuotes(t) : q \in Nat
    BY TextDomain DEF RealQuotes
  <2>2. QuotesBefore(t, p + 1) = upto
    BY <2>1 DEF QuotesBefore
  <2>3. Cardinality(upto) \in Nat
    <3>1. upto \in SUBSET DOMAIN t
      BY DEF RealQuotes
    <3>2. IsFiniteSet(DOMAIN t)
      BY TextDomain, FS_Interval
    <3> HIDE DEF upto
    <3> QED BY <3>1, <3>2, FS_Subset, FS_CardinalityType
  <2> HIDE DEF upto
  <2>4. Cardinality(upto) % 2 = 1 <=> ~((Cardinality(upto) + 0) % 2 = 0)
    BY <2>3
  <2> QED BY <2>2, <2>4 DEF InString, IncomingString, upto
<1>2. Operators(t) \in SUBSET DOMAIN t
  BY DEF Operators
<1> QED BY <1>1, <1>2 DEF OutsideStrings, Structural

-----------------------------------------------------------------------------
(***************************************************************************)
(* gpJSON's hierarchy: the items of an input, their words, their warps and *)
(* their entries.                                                          *)
(***************************************************************************)
LEMMA CeilDivFacts ==
  ASSUME NEW a \in Nat, NEW b \in Nat \ {0}
  PROVE  /\ CeilDiv(a, b) \in Nat /\ CeilDiv(a, b) * b \in Nat /\ a <= CeilDiv(a, b) * b
         /\ \A i \in Nat : i < CeilDiv(a, b) <=> i * b < a
         /\ \A c \in Nat : a <= c * b => CeilDiv(a, b) <= c
<1>1. CeilDiv(a, b) = (a + b - 1) \div b
  BY DEF CeilDiv
<1> QED BY <1>1, RoundedUp

LEMMA SegmentFacts ==
  ASSUME NEW t, IsText(t)
  PROVE  /\ SegmentBytes(t) \in Nat \ {0}
         /\ \E m \in Nat \ {0} : SegmentBytes(t) = m * WordBytes
         /\ Size(t) <= Segments * SegmentBytes(t)
<1>1. /\ Size(t) \in Nat /\ DOMAIN t = 0 .. Size(t) - 1
      /\ WordBytes \in Nat \ {0} /\ Segments \in Nat \ {0}
  BY TextDomain, WordBytesAssumption, SegmentsAssumption
<1>2. CASE DOMAIN t = {}
  <2>1. SegmentBytes(t) = WordBytes /\ Size(t) = 0
    BY <1>1, <1>2 DEF SegmentBytes
  <2>2. WordBytes = 1 * WordBytes /\ Segments * WordBytes \in Nat
    BY <1>1
  <2> QED BY <1>1, <2>1, <2>2
<1>3. CASE DOMAIN t # {}
  <2> DEFINE c == CeilDiv(Size(t), Segments)
             m == CeilDiv(c, WordBytes)
  <2>1. SegmentBytes(t) = m * WordBytes
    BY <1>3 DEF SegmentBytes
  <2>2. Size(t) > 0
    BY <1>1, <1>3
  <2>3. c \in Nat /\ Size(t) <= c * Segments /\ 0 < c
    <3>1. 0 * Segments < Size(t)
      BY <1>1, <2>2
    <3> QED BY <1>1, <3>1, CeilDivFacts
  <2>4. m \in Nat /\ c <= m * WordBytes /\ 0 < m
    <3> HIDE DEF c
    <3>1. 0 * WordBytes < c
      BY <1>1, <2>3
    <3> QED BY <1>1, <2>3, <3>1, CeilDivFacts
  <2> HIDE DEF c, m
  <2> DEFINE s == m * WordBytes
  <2>5. s \in Nat \ {0} /\ c <= s
    BY <1>1, <2>4
  <2> HIDE DEF s
  <2>6. c * Segments \in Nat /\ s * Segments \in Nat /\ Segments * s = s * Segments
    BY <1>1, <2>3, <2>5
  <2>7. c < s => c * Segments + Segments <= s * Segments
    BY <1>1, <2>3, <2>5, Multiples
  <2>8. c * Segments <= s * Segments
    BY <1>1, <2>3, <2>5, <2>6, <2>7
  <2>9. Size(t) <= Segments * s
    BY <1>1, <2>3, <2>6, <2>8
  <2>10. SegmentBytes(t) = s
    BY <2>1 DEF s
  <2> QED BY <2>1, <2>4, <2>5, <2>9, <2>10
<1> QED BY <1>2, <1>3

\* An input that the hierarchy is given.
GpInput == text \in Texts /\ mapping \in Mappings

WordBits(i) == WordsOf(ItemStart(i), ItemEnd(i))

TextBits == 0 .. WordCount(text) * WordBytes - 1

LEMMA GpItems ==
  ASSUME GpInput
  PROVE  /\ IsText(text) /\ Size(text) \in Nat /\ ItemBytes \in Nat \ {0}
         /\ Active \in Nat /\ WordCount(text) \in Nat
         /\ mapping \in {"original", "coalesced", "word"}
         /\ mapping = "word" => Active = WordCount(text)
         /\ mapping # "word" => Active <= Segments
         /\ \A i \in Nat : i < Active <=> i * ItemBytes < Size(text)
         /\ WordCount(text) * WordBytes \in Nat /\ Size(text) <= WordCount(text) * WordBytes
         /\ WordCount(text) * WordBytes <= Active * ItemBytes /\ Active * ItemBytes \in Nat
<1>1. /\ IsText(text) /\ mapping \in {"original", "coalesced", "word"}
      /\ WordBytes \in Nat \ {0} /\ Segments \in Nat \ {0}
  BY HierarchyAssumption, WordBytesAssumption, SegmentsAssumption DEF GpInput, AllMappings
<1>2. Size(text) \in Nat
  BY <1>1, TextDomain
<1>3. WordCount(text) = CeilDiv(Size(text), WordBytes)
  BY DEF WordCount, CeilDiv
<1>4. /\ WordCount(text) \in Nat /\ WordCount(text) * WordBytes \in Nat
      /\ Size(text) <= WordCount(text) * WordBytes
      /\ \A c \in Nat : Size(text) <= c * WordBytes => WordCount(text) <= c
  BY <1>1, <1>2, <1>3, CeilDivFacts
<1>5. \E m \in Nat \ {0} : ItemBytes = m * WordBytes
  <2>1. CASE mapping = "word"
    <3>1. ItemBytes = 1 * WordBytes /\ 1 \in Nat \ {0}
      BY <1>1, <2>1 DEF ItemBytes
    <3> QED BY <3>1
  <2>2. CASE mapping # "word"
    BY <1>1, <2>2, SegmentFacts DEF ItemBytes
  <2> QED BY <2>1, <2>2
<1>6. PICK m \in Nat \ {0} : ItemBytes = m * WordBytes
  BY <1>5
<1> DEFINE B == ItemBytes
           A == Active
<1>7. B \in Nat \ {0} /\ B = m * WordBytes
  BY <1>1, <1>6
<1>8. A = CeilDiv(Size(text), B)
  BY DEF Active
<1> HIDE DEF B, A
<1>9. /\ A \in Nat /\ A * B \in Nat /\ Size(text) <= A * B
      /\ \A i \in Nat : i < A <=> i * B < Size(text)
      /\ \A c \in Nat : Size(text) <= c * B => A <= c
  BY <1>2, <1>7, <1>8, CeilDivFacts
<1>10. WordCount(text) * WordBytes <= A * B
  <2> DEFINE c == A * m
             n == WordCount(text)
  <2>1. c \in Nat /\ A * B = c * WordBytes
    BY <1>1, <1>6, <1>7, <1>9
  <2> HIDE DEF c, n
  <2>2. n \in Nat /\ n <= c
    BY <1>4, <1>9, <2>1 DEF n
  <2>3. n < c => n * WordBytes + WordBytes <= c * WordBytes
    BY <1>1, <2>1, <2>2, Multiples
  <2>4. n * WordBytes \in Nat /\ c * WordBytes \in Nat
    BY <1>1, <2>1, <2>2
  <2>5. n * WordBytes <= c * WordBytes
    BY <1>1, <2>1, <2>2, <2>3, <2>4
  <2> QED BY <2>1, <2>5 DEF n
<1>11. mapping = "word" => A = WordCount(text)
  BY <1>3, <1>8 DEF B, ItemBytes
<1>12. mapping # "word" => A <= Segments
  <2> SUFFICES ASSUME mapping # "word" PROVE A <= Segments
    OBVIOUS
  <2>1. B = SegmentBytes(text)
    BY DEF B, ItemBytes
  <2>2. Size(text) <= Segments * B
    BY <1>1, <2>1, SegmentFacts
  <2> QED BY <1>1, <1>9, <2>2
<1> QED BY <1>1, <1>2, <1>4, <1>7, <1>9, <1>10, <1>11, <1>12 DEF A, B

\* Every bit of the words of the text is in one item.
LEMMA GpBits ==
  ASSUME GpInput
  PROVE  /\ \A i \in Nat : \A p : p \in WordBits(i) <=> p \in TextBits /\ p \div ItemBytes = i
         /\ \A p \in TextBits : p \in Nat /\ p \div ItemBytes \in 0 .. Active - 1
         /\ \A i \in Nat : \A p : p \in ByteRange(text, ItemStart(i), ItemEnd(i))
                                <=> p \in DOMAIN text /\ p \div ItemBytes = i
         /\ DOMAIN text \in SUBSET TextBits
         /\ \A i \in Nat : /\ ByteRange(text, ItemStart(i), ItemEnd(i)) \in SUBSET WordBits(i)
                           /\ i \notin 0 .. Active - 1 => WordBits(i) = {}
<1> DEFINE B == ItemBytes
           A == Active
           n == WordCount(text) * WordBytes
<1>1. /\ B \in Nat \ {0} /\ A \in Nat /\ n \in Nat /\ A * B \in Nat /\ n <= A * B
      /\ Size(text) \in Nat /\ Size(text) <= n /\ DOMAIN text = 0 .. Size(text) - 1
  BY GpItems, TextDomain
<1> HIDE DEF B, A, n
<1>2. \A p \in TextBits : p \in Nat /\ p < n
  BY <1>1 DEF TextBits, n
<1>3. \A i \in Nat, p \in Nat : i * B <= p /\ p < (i + 1) * B <=> p \div B = i
  BY <1>1, SegmentEnds
<1>4. ASSUME NEW p \in TextBits PROVE p \div B \in 0 .. A - 1
  <2>1. p \in Nat /\ p < A * B
    BY <1>1, <1>2
  <2> DEFINE l == p \div B
             r == p % B
  <2>2. l \in Nat /\ r \in 0 .. B - 1 /\ p = l * B + r
    BY <1>1, <2>1, Quotient
  <2> HIDE DEF l, r
  <2>3. A < l => A * B + B <= l * B
    BY <1>1, <2>2, Multiples
  <2>4. l * B \in Nat
    BY <1>1, <2>2
  <2>5. l = A => l * B = A * B
    OBVIOUS
  <2>6. ~(A < l) /\ l # A
    BY <1>1, <2>1, <2>2, <2>3, <2>4, <2>5
  <2> QED BY <1>1, <2>2, <2>6 DEF l
<1>5. ASSUME NEW i \in Nat, NEW p
      PROVE  /\ p \in WordBits(i) <=> p \in TextBits /\ p \div B = i
             /\ p \in ByteRange(text, ItemStart(i), ItemEnd(i)) <=> p \in DOMAIN text /\ p \div B = i
  <2>1. p \in WordBits(i) <=> p \in TextBits /\ i * B <= p /\ p < (i + 1) * B
    BY DEF WordBits, WordsOf, ItemStart, ItemEnd, TextBits, B
  <2>2. p \in ByteRange(text, ItemStart(i), ItemEnd(i)) <=> p \in DOMAIN text /\ i * B <= p /\ p < (i + 1) * B
    BY DEF ByteRange, ItemStart, ItemEnd, B
  <2>3. p \in TextBits \/ p \in DOMAIN text => p \in Nat
    BY <1>1, <1>2
  <2> QED BY <1>3, <2>1, <2>2, <2>3
<1>6. DOMAIN text \in SUBSET TextBits
  BY <1>1 DEF TextBits, n
<1>7. ASSUME NEW i \in Nat
      PROVE  /\ ByteRange(text, ItemStart(i), ItemEnd(i)) \in SUBSET WordBits(i)
             /\ i \notin 0 .. A - 1 => WordBits(i) = {}
  BY <1>4, <1>5, <1>6
<1> QED BY <1>2, <1>4, <1>5, <1>6, <1>7 DEF A, B

\* The entries of the arrays and of the scan are the same; those behind the items are
\* cleared.
LEMMA GpEntries ==
  ASSUME GpInput
  PROVE  /\ ScanCount \in Nat /\ ScanThreads \in Nat \ {0} /\ ScanCount % ScanThreads = 0
         /\ \E n \in Nat : /\ Items = 0 .. n - 1 /\ PaddingCleared = n .. ScanCount - 1
                           /\ Active <= n /\ n <= ScanCount
         /\ 0 .. ScanCount - 1 = 0 .. (IF mapping = "word" THEN ScanCount ELSE Segments) - 1
         /\ (mapping = "word" => WordCount(text) > 0) => ScanCount > 0
<1>1. /\ ScanThreads \in Nat \ {0} /\ Segments \in Nat \ {0} /\ Segments % ScanThreads = 0
      /\ Active \in Nat /\ WordCount(text) \in Nat
      /\ mapping = "word" => Active = WordCount(text)
      /\ mapping # "word" => Active <= Segments
  BY GpItems, HierarchyAssumption, SegmentsAssumption
<1>2. CASE mapping = "word"
  <2> DEFINE c == CeilDiv(WordCount(text), ScanThreads)
  <2>1. ScanCount = c * ScanThreads
    BY <1>2 DEF ScanCount, Scan!PaddedScanCount, CeilDiv
  <2>2. c \in Nat /\ c * ScanThreads \in Nat /\ WordCount(text) <= c * ScanThreads
    BY <1>1, CeilDivFacts
  <2> HIDE DEF c
  <2>3. (c * ScanThreads) % ScanThreads = 0
    BY <1>1, <2>2, MultipleRemainder
  <2>4. Items = 0 .. Active - 1 /\ PaddingCleared = Active .. ScanCount - 1
    BY <1>1, <1>2 DEF Items, PaddingCleared
  <2> QED BY <1>1, <1>2, <2>1, <2>2, <2>3, <2>4
<1>3. CASE mapping # "word"
  <2>1. ScanCount = Segments /\ Items = 0 .. Segments - 1 /\ PaddingCleared = {}
    BY <1>3 DEF ScanCount, Items, PaddingCleared
  <2>2. Segments .. Segments - 1 = {}
    BY <1>1
  <2> QED BY <1>1, <1>3, <2>1, <2>2
<1> QED BY <1>2, <1>3

\* Whole warps cover the items that hold bytes; in the segment mappings, all items.
LEMMA GpWarps ==
  ASSUME GpInput
  PROVE  /\ WarpSize \in Nat \ {0} /\ Warps \in SUBSET Nat
         /\ \A i \in 0 .. Active - 1 : i \div WarpSize \in Warps
         /\ \A n \in Warps, i \in Nat : i \in WarpItems(n) <=> i \div WarpSize = n
         /\ \A n \in Warps : WarpItems(n) \in SUBSET Nat
         /\ mapping # "word" => /\ \A i \in Items : i \div WarpSize \in Warps
                                /\ \A n \in Warps : WarpItems(n) \in SUBSET Items
<1>1. /\ WarpSize \in Nat \ {0} /\ Segments \in Nat \ {0} /\ Segments % WarpSize = 0
      /\ Active \in Nat
      /\ mapping # "word" => Active <= Segments
  BY GpItems, HierarchyAssumption, SegmentsAssumption
<1> DEFINE c == IF mapping = "word" THEN CeilDiv(Active, WarpSize) ELSE Segments \div WarpSize
           covered == IF mapping = "word" THEN Active ELSE Segments
<1>2. c \in Nat /\ Warps = 0 .. c - 1 /\ covered \in Nat /\ covered <= c * WarpSize
      /\ (mapping # "word" => covered = c * WarpSize)
  <2>1. CASE mapping = "word"
    <3> DEFINE d == CeilDiv(Active, WarpSize)
    <3>1. c = d /\ Warps = 0 .. d - 1 /\ covered = Active
      BY <2>1 DEF Warps
    <3>2. d \in Nat /\ Active <= d * WarpSize
      BY <1>1, CeilDivFacts
    <3> HIDE DEF d, c
    <3> QED BY <1>1, <2>1, <3>1, <3>2
  <2>2. CASE mapping # "word"
    <3>1. Segments \div WarpSize \in Nat
          /\ Segments = (Segments \div WarpSize) * WarpSize + (Segments % WarpSize)
      BY <1>1, Quotient
    <3> DEFINE d == Segments \div WarpSize
    <3>2. c = d /\ Warps = 0 .. d - 1 /\ covered = Segments
      BY <2>2 DEF Warps
    <3>3. d \in Nat /\ Segments = d * WarpSize + (Segments % WarpSize)
      BY <3>1
    <3> HIDE DEF d, c
    <3>4. Segments = d * WarpSize
      BY <1>1, <3>3
    <3> QED BY <1>1, <2>2, <3>2, <3>3, <3>4
  <2> QED BY <2>1, <2>2
<1>3. Active <= covered
  BY <1>1
<1>4. mapping # "word" => Items = 0 .. covered - 1
  BY DEF Items
<1> HIDE DEF c, covered
<1>5. \A n \in Nat, i \in Nat : i \in WarpItems(n) <=> i \div WarpSize = n
  <2> SUFFICES ASSUME NEW n \in Nat, NEW i \in Nat PROVE i \in WarpItems(n) <=> i \div WarpSize = n
    OBVIOUS
  <2>1. n * WarpSize \in Nat /\ (n + 1) * WarpSize \in Nat
        /\ (n * WarpSize <= i /\ i < (n + 1) * WarpSize <=> i \div WarpSize = n)
    BY <1>1, SegmentEnds
  <2>2. i \in WarpItems(n) <=> n * WarpSize <= i /\ i < (n + 1) * WarpSize
    BY <2>1 DEF WarpItems
  <2> QED BY <2>1, <2>2
<1>6. \A i \in 0 .. covered - 1 : i \div WarpSize \in Warps
  <2> SUFFICES ASSUME NEW i \in 0 .. covered - 1 PROVE i \div WarpSize \in 0 .. c - 1
    BY <1>2
  <2> DEFINE l == i \div WarpSize
             r == i % WarpSize
  <2>1. i \in Nat /\ i < c * WarpSize
    BY <1>1, <1>2
  <2>2. l \in Nat /\ r \in 0 .. WarpSize - 1 /\ i = l * WarpSize + r
    BY <1>1, <2>1, Quotient
  <2> HIDE DEF l, r
  <2>3. c < l => c * WarpSize + WarpSize <= l * WarpSize
    BY <1>1, <1>2, <2>2, Multiples
  <2>4. l * WarpSize \in Nat /\ c * WarpSize \in Nat
    BY <1>1, <1>2, <2>2
  <2>5. ~(c < l) /\ c # l
    BY <1>1, <2>1, <2>2, <2>3, <2>4
  <2> QED BY <1>2, <2>2, <2>5 DEF l
<1>7. ASSUME NEW n \in Warps
      PROVE  /\ WarpItems(n) \in SUBSET Nat
             /\ mapping # "word" => WarpItems(n) \in SUBSET (0 .. covered - 1)
  <2>1. n \in Nat /\ n < c
    BY <1>2
  <2>2. n * WarpSize \in Nat /\ (n + 1) * WarpSize = n * WarpSize + WarpSize
    BY <1>1, <2>1
  <2>3. n * WarpSize + WarpSize <= c * WarpSize
    BY <1>1, <1>2, <2>1, Multiples
  <2> QED BY <1>1, <1>2, <2>1, <2>2, <2>3 DEF WarpItems
<1>8. \A i \in 0 .. Active - 1 : i \in 0 .. covered - 1
  BY <1>1, <1>2, <1>3
<1>9. Warps \in SUBSET Nat /\ \A i \in 0 .. Active - 1 : i \div WarpSize \in Warps
  <2> HIDE DEF Active
  <2> QED BY <1>2, <1>6, <1>8
<1>10. /\ \A n \in Warps, i \in Nat : i \in WarpItems(n) <=> i \div WarpSize = n
       /\ \A n \in Warps : WarpItems(n) \in SUBSET Nat
  BY <1>5, <1>7, <1>9
<1>11. mapping # "word" => /\ \A i \in Items : i \div WarpSize \in Warps
                           /\ \A n \in Warps : WarpItems(n) \in SUBSET Items
  BY <1>4, <1>6, <1>7
<1> QED BY <1>1, <1>9, <1>10, <1>11

-----------------------------------------------------------------------------
(***************************************************************************)
(* The inductive invariant of gpJSON's hierarchy.                          *)
(***************************************************************************)
GpTyped ==
  /\ text \in Texts /\ mapping \in Mappings /\ launch \in 0 .. Launches
  /\ stage \in {"idle", "first", "collect", "recover", "prescan", "postscan", "rebase", "apply"}
  /\ raw_structural \in SUBSET TextBits /\ structural_out \in SUBSET TextBits
  /\ escape_carry \in [0 .. ScanCount - 1 -> {0, 1}]
  /\ escape_changes_quote \in [0 .. ScanCount - 1 -> {0, 1}]
  /\ quote_parity \in [0 .. ScanCount - 1 -> {0, 1}]
  /\ recovery_items \in [0 .. Active - 1 -> 0 .. Active - 1]
  /\ recovery_count \in Nat
  /\ xor_bases \in [Scan!ScanLanes -> {0, 1}]

\* A kernel has only units of its own to run, on an input that has something to scan.
GpSchedule ==
  /\ GpTyped
  /\ pending \in SUBSET Nat
  /\ stage = "idle" => pending = {}
  /\ stage # "idle" => launch > 0 /\ ScanCount > 0 /\ pending \subseteq Units(stage)

\* The items that the first kernel of this launch has read.
UnitOf(i) == IF ByWarp THEN i \div WarpSize ELSE i

Summarised == IF stage = "idle" THEN {}
              ELSE {i \in Items : stage = "first" => UnitOf(i) \notin pending}

QuotesOf(i, e) == QuotesFrom(text, ItemStart(i), ItemEnd(i), e)

SummariesHold ==
  \A i \in Summarised :
    /\ escape_carry[i] = OutgoingEscape(text, ItemStart(i), ItemEnd(i), 0)
    /\ escape_changes_quote[i] = 1 <=> QuotesOf(i, 0) # QuotesOf(i, 1)
    /\ raw_structural \cap WordBits(i) = OperatorsIn(ItemStart(i), ItemEnd(i))

FoundOf(i) == Found(text, ItemBytes, i)

\* The escape predicted for an item is wrong, and changes a quote.
Mistaken(i) == FoundOf(i) # QuotesOf(i, 0)

GpQueued ==
  /\ stage = "first" => recovery_count = 0
  /\ stage = "collect" =>
       Enumerates(recovery_items, recovery_count,
                  {i \in 0 .. Active - 1 : i \div WarpSize \notin pending /\ Mistaken(i)})
  /\ stage = "recover" =>
       Enumerates(recovery_items, recovery_count, {i \in 0 .. Active - 1 : Mistaken(i)})

\* The quotes on which parity and bitmap of an item stand: as predicted until the item
\* has been recovered.
Unrecovered(i) ==
  \/ stage \in {"first", "collect"}
  \/ stage = "recover" /\ \E k \in pending : recovery_items[k] = i

CountedQuotes(i) == IF Unrecovered(i) THEN QuotesOf(i, 0) ELSE FoundOf(i)

BitmapsHold ==
  \A i \in Summarised :
    structural_out \cap WordBits(i)
      = IF stage = "apply" /\ i \notin pending
        THEN LookbackStructural(text, ItemBytes) \cap WordBits(i)
        ELSE OutsideStrings(OperatorsIn(ItemStart(i), ItemEnd(i)), CountedQuotes(i), 1)

ParitiesHold ==
  stage \in {"first", "collect", "recover"} =>
    /\ \A i \in Summarised : quote_parity[i] = ParityOf(CountedQuotes(i))
    /\ \A i \in PaddingCleared : quote_parity[i] = 0

\* What the scan has made of an entry.
Parities == FoundParities(text, ItemBytes)

RunLength == Scan!ValuesPerThread(ScanCount)

LaneOf(i) == i \div RunLength

ScannedValue(i) ==
  CASE stage = "prescan" /\ LaneOf(i) \in pending -> Parities[i]
    [] \/ stage = "prescan" /\ LaneOf(i) \notin pending
       \/ stage = "postscan"
       \/ stage = "rebase" /\ LaneOf(i) \in pending -> OddCount(Parities, LaneOf(i) * RunLength, i)
    [] OTHER -> OddCount(Parities, 0, i)

GpScanHolds ==
  /\ stage \in {"prescan", "postscan", "rebase", "apply"} =>
       \A i \in 0 .. ScanCount - 1 : quote_parity[i] = ScannedValue(i)
  /\ (stage = "postscan" /\ pending = {}) \/ stage = "rebase" =>
       \A l \in Scan!ScanLanes : xor_bases[l] = OddCount(Parities, 0, l * RunLength - 1)

GpInv ==
  /\ GpSchedule /\ SummariesHold /\ GpQueued /\ BitmapsHold /\ ParitiesHold /\ GpScanHolds
  /\ OutputIsLookback

\* The part that the first kernel establishes, which the control without validation runs
\* alone.
PassInv == GpSchedule /\ SummariesHold /\ BitmapsHold /\ ParitiesHold

-----------------------------------------------------------------------------
(***************************************************************************)
(* What the definitions of the invariant rest on.                          *)
(***************************************************************************)
LEMMA GpItemFacts ==
  ASSUME GpInput, NEW i \in Nat
  PROVE  /\ \A e \in {0, 1} : /\ QuotesOf(i, e) \in SUBSET Nat /\ IsFiniteSet(QuotesOf(i, e))
                              /\ ParityOf(QuotesOf(i, e)) \in {0, 1}
         /\ FoundOf(i) \in SUBSET Nat /\ IsFiniteSet(FoundOf(i)) /\ ParityOf(FoundOf(i)) \in {0, 1}
         /\ Parities[i] = ParityOf(FoundOf(i))
         /\ Entering(text, ItemBytes, i) \in {0, 1}
         /\ FoundOf(i) = QuotesOf(i, Entering(text, ItemBytes, i))
         /\ OutgoingEscape(text, ItemStart(i), ItemEnd(i), 0) \in {0, 1}
         /\ OperatorsIn(ItemStart(i), ItemEnd(i)) \in SUBSET WordBits(i)
         /\ \A quotes, e : IsFiniteSet(quotes) =>
              OutsideStrings(OperatorsIn(ItemStart(i), ItemEnd(i)), quotes, e) \in SUBSET WordBits(i)
         /\ i \notin 0 .. Active - 1 =>
              FoundOf(i) = {} /\ ~Mistaken(i) /\ OperatorsIn(ItemStart(i), ItemEnd(i)) = {}
<1>1. IsText(text) /\ ItemBytes \in Nat \ {0}
  BY GpItems
<1>2. ItemStart(i) \in Nat /\ ItemEnd(i) \in Nat /\ ItemStart(i) <= ItemEnd(i)
  BY <1>1, SegmentEnds DEF ItemStart, ItemEnd
<1>3. \A S : IsFiniteSet(S) => ParityOf(S) \in {0, 1}
  <2> SUFFICES ASSUME NEW S, IsFiniteSet(S) PROVE ParityOf(S) \in {0, 1}
    OBVIOUS
  <2>1. Cardinality(S) \in Nat
    BY FS_CardinalityType
  <2> QED BY <2>1 DEF ParityOf
<1>4. \A e \in {0, 1} : QuotesOf(i, e) \in SUBSET Nat /\ IsFiniteSet(QuotesOf(i, e))
  <2> SUFFICES ASSUME NEW e \in {0, 1} PROVE QuotesOf(i, e) \in SUBSET Nat /\ IsFiniteSet(QuotesOf(i, e))
    OBVIOUS
  <2>1. QuotesOf(i, e) \in SUBSET ByteRange(text, ItemStart(i), ItemEnd(i))
    BY DEF QuotesOf, QuotesFrom
  <2>2. /\ ByteRange(text, ItemStart(i), ItemEnd(i)) \in SUBSET Nat
        /\ IsFiniteSet(ByteRange(text, ItemStart(i), ItemEnd(i)))
    BY <1>1, <1>2, RangeFacts
  <2> QED BY <2>1, <2>2, FS_Subset
<1>5. FoundOf(i) \in SUBSET Nat /\ IsFiniteSet(FoundOf(i))
  BY <1>1, FoundIsLookback DEF FoundOf
<1>6. Parities[i] = ParityOf(FoundOf(i))
  BY DEF Parities, FoundParities, FoundOf, ParityOf
<1>7. Entering(text, ItemBytes, i) \in {0, 1} /\ FoundOf(i) = QuotesOf(i, Entering(text, ItemBytes, i))
  BY <1>1, EnteringFacts DEF FoundOf, Found, QuotesOf, ItemStart, ItemEnd
<1>8. OutgoingEscape(text, ItemStart(i), ItemEnd(i), 0) \in {0, 1}
  BY <1>1, <1>2, OutgoingFacts
<1>9. /\ OperatorsIn(ItemStart(i), ItemEnd(i)) \in SUBSET ByteRange(text, ItemStart(i), ItemEnd(i))
      /\ ByteRange(text, ItemStart(i), ItemEnd(i)) \in SUBSET WordBits(i)
      /\ i \notin 0 .. Active - 1 => WordBits(i) = {}
  BY GpBits DEF OperatorsIn
<1>10. i \notin 0 .. Active - 1 => \A e : QuotesOf(i, e) = {}
  BY <1>9 DEF QuotesOf, QuotesFrom
<1>11. \A quotes, e : IsFiniteSet(quotes) =>
         OutsideStrings(OperatorsIn(ItemStart(i), ItemEnd(i)), quotes, e) \in SUBSET WordBits(i)
  BY <1>9, OutsideFacts
<1> QED BY <1>3, <1>4, <1>5, <1>6, <1>7, <1>8, <1>9, <1>10, <1>11 DEF Mistaken

\* Writing the words of one item leaves those of the others as they are.
LEMMA PutFacts ==
  ASSUME GpInput, NEW i \in Nat, NEW bits \in SUBSET WordBits(i), NEW bitmap \in SUBSET TextBits
  PROVE  /\ Put(bitmap, WordBits(i), bits) \in SUBSET TextBits
         /\ Put(bitmap, WordBits(i), bits) \cap WordBits(i) = bits
         /\ \A j \in Nat : j # i => Put(bitmap, WordBits(i), bits) \cap WordBits(j) = bitmap \cap WordBits(j)
<1>1. \A p : /\ p \in WordBits(i) <=> p \in TextBits /\ p \div ItemBytes = i
             /\ \A j \in Nat : p \in WordBits(j) <=> p \in TextBits /\ p \div ItemBytes = j
  BY GpBits
<1> QED BY <1>1 DEF Put

\* The steps of a launch change neither the input nor the mapping.
LEMMA GpSame ==
  ASSUME UNCHANGED <<text, mapping>>
  PROVE  /\ GpInput' = GpInput /\ ItemBytes' = ItemBytes /\ Active' = Active /\ Items' = Items
         /\ Warps' = Warps /\ ScanCount' = ScanCount /\ ByWarp' = ByWarp
         /\ PaddingCleared' = PaddingCleared /\ TextBits' = TextBits
         /\ Parities' = Parities /\ RunLength' = RunLength
         /\ \A i : /\ WordBits(i)' = WordBits(i) /\ FoundOf(i)' = FoundOf(i)
                   /\ Mistaken(i)' = Mistaken(i) /\ UnitOf(i)' = UnitOf(i) /\ LaneOf(i)' = LaneOf(i)
                   /\ ItemStart(i)' = ItemStart(i) /\ ItemEnd(i)' = ItemEnd(i)
                   /\ OperatorsIn(ItemStart(i), ItemEnd(i))' = OperatorsIn(ItemStart(i), ItemEnd(i))
         /\ \A i, e : QuotesOf(i, e)' = QuotesOf(i, e)
<1>1. /\ ItemBytes' = ItemBytes /\ Active' = Active /\ ScanCount' = ScanCount
  BY DEF ItemBytes, Active, ScanCount
<1>2. /\ Items' = Items /\ Warps' = Warps /\ PaddingCleared' = PaddingCleared
      /\ TextBits' = TextBits /\ Parities' = Parities /\ RunLength' = RunLength
      /\ ByWarp' = ByWarp /\ GpInput' = GpInput
  BY <1>1 DEF Items, Warps, PaddingCleared, TextBits, Parities, RunLength, ByWarp, WordsPerSegment,
              GpInput
<1>3. \A i : ItemStart(i)' = ItemStart(i) /\ ItemEnd(i)' = ItemEnd(i)
  BY <1>1 DEF ItemStart, ItemEnd
<1>4. \A i, e : QuotesOf(i, e)' = QuotesOf(i, e)
  BY <1>3 DEF QuotesOf
<1>5. \A i : /\ WordBits(i)' = WordBits(i) /\ FoundOf(i)' = FoundOf(i)
             /\ UnitOf(i)' = UnitOf(i) /\ LaneOf(i)' = LaneOf(i)
             /\ OperatorsIn(ItemStart(i), ItemEnd(i))' = OperatorsIn(ItemStart(i), ItemEnd(i))
  BY <1>1, <1>2, <1>3 DEF WordBits, WordsOf, FoundOf, UnitOf, LaneOf, OperatorsIn
<1>6. \A i : Mistaken(i)' = Mistaken(i)
  BY <1>4, <1>5 DEF Mistaken
<1> QED BY <1>1, <1>2, <1>3, <1>4, <1>5, <1>6

LEMMA GpUnits ==
  ASSUME GpInput, recovery_count \in Nat
  PROVE  /\ Units("first") = (IF ByWarp THEN Warps ELSE Items)
         /\ Units("collect") = Warps /\ Units("recover") = 0 .. recovery_count - 1
         /\ Units("prescan") = Scan!ScanLanes /\ Units("postscan") = {0}
         /\ Units("rebase") = Scan!ScanLanes /\ Units("apply") = Items
         /\ \A name \in {"first", "collect", "recover", "prescan", "postscan", "rebase", "apply"} :
              Units(name) \in SUBSET Nat
         /\ Items \in SUBSET Nat /\ Scan!ScanLanes = 0 .. ScanThreads - 1
         /\ Following["first"] = "collect" /\ Following["collect"] = "recover"
         /\ Following["recover"] = "prescan" /\ Following["prescan"] = "postscan"
         /\ Following["postscan"] = "rebase" /\ Following["rebase"] = "apply"
<1>1. Units("first") = (IF ByWarp THEN Warps ELSE Items)
  BY DEF Units
<1>2. /\ Units("collect") = Warps /\ Units("recover") = 0 .. recovery_count - 1
      /\ Units("prescan") = Scan!ScanLanes /\ Units("postscan") = {0}
      /\ Units("rebase") = Scan!ScanLanes /\ Units("apply") = Items
  BY DEF Units
<1>3. Warps \in SUBSET Nat
  BY GpWarps
<1>4. Items \in SUBSET Nat
  BY GpEntries
<1>5. Scan!ScanLanes = 0 .. ScanThreads - 1 /\ ScanThreads \in Nat
  BY GpEntries DEF Scan!ScanLanes
<1>6. /\ Following["first"] = "collect" /\ Following["collect"] = "recover"
      /\ Following["recover"] = "prescan" /\ Following["prescan"] = "postscan"
      /\ Following["postscan"] = "rebase" /\ Following["rebase"] = "apply"
  BY DEF Following
<1>7. \A name \in {"first", "collect", "recover", "prescan", "postscan", "rebase", "apply"} :
        Units(name) \in SUBSET Nat
  <2>1. 0 .. recovery_count - 1 \in SUBSET Nat /\ {0} \in SUBSET Nat /\ Scan!ScanLanes \in SUBSET Nat
    BY <1>5
  <2>2. Units("first") \in SUBSET Nat
    BY <1>1, <1>3, <1>4
  <2> QED BY <1>2, <1>3, <1>4, <2>1, <2>2
<1> QED BY <1>1, <1>2, <1>4, <1>5, <1>6, <1>7

\* A step of a kernel takes one of its units.
LEMMA PassRuns ==
  ASSUME GpSchedule, NEW name, NEW unit, name # "idle", Runs(name, unit)
  PROVE  /\ GpInput /\ stage = name /\ launch > 0 /\ ScanCount > 0
         /\ unit \in pending /\ unit \in Units(name) /\ unit \in Nat
         /\ UNCHANGED <<text, mapping, launch, stage>> /\ pending' = pending \ {unit}
         /\ pending' \in SUBSET Nat
         /\ recovery_count \in Nat
<1>1. stage = name /\ unit \in pending /\ pending' = pending \ {unit} /\ UNCHANGED <<text, mapping, launch, stage>>
  BY DEF Runs, problem
<1> QED BY <1>1 DEF GpSchedule, GpTyped, GpInput

LEMMA GpRuns ==
  ASSUME GpInv, NEW name, NEW unit, name # "idle", Runs(name, unit)
  PROVE  /\ GpInput /\ stage = name /\ launch > 0 /\ ScanCount > 0
         /\ unit \in pending /\ unit \in Units(name) /\ unit \in Nat
         /\ UNCHANGED <<text, mapping, launch, stage>> /\ pending' = pending \ {unit}
         /\ pending' \in SUBSET Nat
         /\ recovery_count \in Nat
<1>1. GpSchedule
  BY DEF GpInv
<1> QED BY <1>1, PassRuns

\* The schedule goes on when a unit of a kernel has run.
LEMMA PassGoesOn ==
  ASSUME GpSchedule, NEW name, NEW unit, name # "idle", Runs(name, unit), GpTyped',
         name = "recover" => UNCHANGED recovery_count
  PROVE  GpSchedule'
<1>1. /\ GpInput /\ stage = name /\ launch > 0 /\ ScanCount > 0
      /\ UNCHANGED <<text, mapping, launch, stage>> /\ pending' = pending \ {unit}
      /\ pending' \in SUBSET Nat /\ pending \subseteq Units(stage)
  BY PassRuns DEF GpSchedule
<1>2. ScanCount' = ScanCount
  BY <1>1, GpSame
<1>3. Units(name)' = Units(name)
  <2>1. Items' = Items /\ Warps' = Warps /\ ByWarp' = ByWarp /\ Scan!ScanLanes' = Scan!ScanLanes
    BY <1>1, GpSame DEF Scan!ScanLanes
  <2>2. name \in {"first", "collect", "recover", "prescan", "postscan", "rebase", "apply"}
    BY <1>1 DEF GpSchedule, GpTyped
  <2> QED BY <2>1, <2>2 DEF Units
<1>4. Units(stage)' = Units(stage)
  BY <1>1, <1>3
<1> QED BY <1>1, <1>2, <1>4 DEF GpSchedule

LEMMA GpScheduleGoesOn ==
  ASSUME GpInv, NEW name, NEW unit, name # "idle", Runs(name, unit), GpTyped',
         name = "recover" => UNCHANGED recovery_count
  PROVE  GpSchedule'
<1>1. GpSchedule
  BY DEF GpInv
<1> QED BY <1>1, PassGoesOn

-----------------------------------------------------------------------------
(***************************************************************************)
(* The beginning, a launch, and the order of the kernels.                  *)
(***************************************************************************)
LEMMA GpStarts ==
  ASSUME Init
  PROVE  GpInv
<1>1. /\ GpInput /\ launch = 0 /\ stage = "idle" /\ pending = {}
      /\ Launches \in Nat
  BY HierarchyAssumption DEF Init, GpInput
<1>2. PICK garbage \in {0, 1} :
        /\ raw_structural = {p \in 0 .. WordCount(text) * WordBytes - 1 : garbage = 1}
        /\ structural_out = {p \in 0 .. WordCount(text) * WordBytes - 1 : garbage = 1}
        /\ LET entries == 0 .. (IF mapping = "word" THEN ScanCount ELSE Segments) - 1
           IN /\ escape_carry = [i \in entries |-> garbage]
              /\ escape_changes_quote = [i \in entries |-> garbage]
              /\ quote_parity = [i \in entries |-> garbage]
        /\ recovery_items = [i \in 0 .. Active - 1 |-> 0]
        /\ recovery_count = garbage
        /\ xor_bases = [t \in Scan!ScanLanes |-> garbage]
  BY DEF Init
<1>3. 0 .. ScanCount - 1 = 0 .. (IF mapping = "word" THEN ScanCount ELSE Segments) - 1
  BY <1>1, GpEntries
<1>4. /\ escape_carry = [i \in 0 .. ScanCount - 1 |-> garbage]
      /\ escape_changes_quote = [i \in 0 .. ScanCount - 1 |-> garbage]
      /\ quote_parity = [i \in 0 .. ScanCount - 1 |-> garbage]
  BY <1>2, <1>3
<1>5. raw_structural \in SUBSET TextBits /\ structural_out \in SUBSET TextBits
  BY <1>2 DEF TextBits
<1>6. recovery_items \in [0 .. Active - 1 -> 0 .. Active - 1]
  <2>1. Active \in Nat /\ \A i \in 0 .. Active - 1 : 0 \in 0 .. Active - 1
    BY <1>1, GpItems
  <2> HIDE DEF Active
  <2> QED BY <1>2, <2>1
<1>7. GpTyped
  BY <1>1, <1>2, <1>4, <1>5, <1>6 DEF GpTyped, GpInput
<1>8. GpSchedule
  BY <1>1, <1>7 DEF GpSchedule
<1>9. Summarised = {}
  BY <1>1 DEF Summarised
<1>10. SummariesHold /\ BitmapsHold
  BY <1>9 DEF SummariesHold, BitmapsHold
<1>11. GpQueued /\ ParitiesHold /\ GpScanHolds /\ OutputIsLookback
  BY <1>1 DEF GpQueued, ParitiesHold, GpScanHolds, OutputIsLookback, LaunchComplete
<1> QED BY <1>8, <1>10, <1>11 DEF GpInv

\* A launch of the first kernel, with the padding cleared.
LEMMA PassLaunches ==
  ASSUME GpSchedule, stage = "idle", launch < Launches, launch' = launch + 1,
         stage' = "first", pending' = Units("first"), recovery_count' \in Nat,
         mapping = "word" => WordCount(text) > 0,
         quote_parity' \in [0 .. ScanCount - 1 -> {0, 1}],
         \A i \in PaddingCleared : quote_parity'[i] = 0,
         UNCHANGED <<text, mapping, raw_structural, structural_out, escape_carry,
                     escape_changes_quote, recovery_items, xor_bases>>
  PROVE  PassInv' /\ GpInput
<1>1. GpTyped /\ GpInput /\ recovery_count \in Nat
  BY DEF GpSchedule, GpTyped, GpInput
<1>2. Launches \in Nat /\ launch \in 0 .. Launches
  BY <1>1, HierarchyAssumption DEF GpTyped
<1>3. /\ Items' = Items /\ ScanCount' = ScanCount /\ PaddingCleared' = PaddingCleared
      /\ TextBits' = TextBits /\ Active' = Active /\ ByWarp' = ByWarp /\ Warps' = Warps
      /\ \A i : UnitOf(i)' = UnitOf(i)
  BY GpSame
<1>5. GpTyped'
  <2>1. Scan!ScanLanes' = Scan!ScanLanes
    BY DEF Scan!ScanLanes
  <2> QED BY <1>1, <1>2, <1>3, <2>1 DEF GpTyped
<1>6. GpSchedule'
  <2>1. Units(stage)' = Units("first") /\ Units("first") \in SUBSET Nat
    BY <1>1, <1>3, GpUnits DEF Units
  <2>2. ScanCount > 0
    BY <1>1, GpEntries
  <2>3. launch' > 0
    BY <1>1, <1>2
  <2> QED BY <1>1, <1>3, <1>5, <2>1, <2>2, <2>3 DEF GpSchedule
<1>7. Summarised' = {}
  <2>1. \A i \in Items : UnitOf(i) \in Units("first")
    <3>1. CASE ByWarp
      <4>1. mapping # "word"
        BY <3>1 DEF ByWarp
      <4>2. \A i \in Items : i \div WarpSize \in Warps
        BY <1>1, <4>1, GpWarps
      <4> QED BY <1>1, <3>1, <4>2, GpUnits DEF UnitOf
    <3>2. CASE ~ByWarp
      BY <1>1, <3>2, GpUnits DEF UnitOf
    <3> QED BY <3>1, <3>2
  <2> QED BY <1>1, <1>3, <2>1 DEF Summarised
<1>8. SummariesHold' /\ BitmapsHold'
  BY <1>7 DEF SummariesHold, BitmapsHold
<1>9. ParitiesHold'
  BY <1>3, <1>7 DEF ParitiesHold
<1> QED BY <1>1, <1>6, <1>8, <1>9 DEF PassInv

LEMMA GpLaunches ==
  ASSUME GpInv, Launch
  PROVE  GpInv'
<1>1. /\ GpSchedule /\ GpTyped /\ GpInput
      /\ stage = "idle" /\ launch < Launches /\ launch' = launch + 1
      /\ stage' = "first" /\ pending' = Units("first") /\ recovery_count' = 0
      /\ mapping = "word" => WordCount(text) > 0
      /\ quote_parity' = [i \in DOMAIN quote_parity |->
                            IF i \in PaddingCleared THEN 0 ELSE quote_parity[i]]
      /\ UNCHANGED <<text, mapping, raw_structural, structural_out, escape_carry,
                     escape_changes_quote, recovery_items, xor_bases>>
  BY DEF GpInv, GpSchedule, GpTyped, GpInput, Launch, CountAtLaunch, bitmaps, escapes
<1>2. quote_parity' \in [0 .. ScanCount - 1 -> {0, 1}]
      /\ \A i \in PaddingCleared : quote_parity'[i] = 0
  <2>1. quote_parity \in [0 .. ScanCount - 1 -> {0, 1}] /\ PaddingCleared \in SUBSET (0 .. ScanCount - 1)
    <3>1. PaddingCleared \in SUBSET (0 .. ScanCount - 1)
      <4>1. PICK n \in Nat : PaddingCleared = n .. ScanCount - 1
        BY <1>1, GpEntries
      <4> QED BY <4>1
    <3> QED BY <1>1, <3>1 DEF GpTyped
  <2> QED BY <1>1, <2>1
<1>3. PassInv'
  BY <1>1, <1>2, PassLaunches
<1>4. GpQueued' /\ GpScanHolds' /\ OutputIsLookback'
  BY <1>1 DEF GpQueued, GpScanHolds, OutputIsLookback, LaunchComplete
<1> QED BY <1>3, <1>4 DEF GpInv, PassInv

\* What every change of kernels leaves alone.
LEMMA GpKernelEnds ==
  ASSUME GpInv, NextKernel
  PROVE  /\ GpTyped /\ GpInput /\ launch > 0 /\ ScanCount > 0 /\ recovery_count \in Nat
         /\ stage \in {"first", "collect", "recover", "prescan", "postscan", "rebase", "apply"}
         /\ pending = {} /\ Summarised = Items
         /\ UNCHANGED <<text, mapping, launch, raw_structural, structural_out, escape_carry,
                        escape_changes_quote, quote_parity, recovery_items, recovery_count, xor_bases>>
         /\ stage = "first" => stage' = "collect" /\ pending' = Warps
         /\ stage = "collect" => stage' = "recover" /\ pending' = 0 .. recovery_count - 1
         /\ stage = "recover" => stage' = "prescan" /\ pending' = Scan!ScanLanes
         /\ stage = "prescan" => stage' = "postscan" /\ pending' = {0}
         /\ stage = "postscan" => stage' = "rebase" /\ pending' = Scan!ScanLanes
         /\ stage = "rebase" => stage' = "apply" /\ pending' = Items
         /\ stage = "apply" => stage' = "idle" /\ pending' = {}
         /\ GpSchedule'
<1>1. /\ GpTyped /\ GpInput /\ launch > 0 /\ ScanCount > 0 /\ recovery_count \in Nat
      /\ stage \in {"first", "collect", "recover", "prescan", "postscan", "rebase", "apply"}
      /\ pending = {}
      /\ UNCHANGED <<text, mapping, launch, raw_structural, structural_out, escape_carry,
                     escape_changes_quote, quote_parity, recovery_items, recovery_count, xor_bases>>
      /\ IF stage = "apply" THEN stage' = "idle" /\ pending' = {}
         ELSE stage' = Following[stage] /\ pending' = Units(Following[stage])
  BY DEF GpInv, GpSchedule, GpTyped, GpInput, NextKernel, problem, bitmaps, escapes, recovery, scan
<1>2. /\ stage = "first" => stage' = "collect" /\ pending' = Warps
      /\ stage = "collect" => stage' = "recover" /\ pending' = 0 .. recovery_count - 1
      /\ stage = "recover" => stage' = "prescan" /\ pending' = Scan!ScanLanes
      /\ stage = "prescan" => stage' = "postscan" /\ pending' = {0}
      /\ stage = "postscan" => stage' = "rebase" /\ pending' = Scan!ScanLanes
      /\ stage = "rebase" => stage' = "apply" /\ pending' = Items
      /\ stage = "apply" => stage' = "idle" /\ pending' = {}
  BY <1>1, GpUnits
<1>3. Summarised = Items
  BY <1>1 DEF Summarised
<1>4. /\ Items' = Items /\ ScanCount' = ScanCount /\ TextBits' = TextBits /\ Active' = Active
      /\ ByWarp' = ByWarp /\ Warps' = Warps /\ Scan!ScanLanes' = Scan!ScanLanes
  BY <1>1, GpSame DEF Scan!ScanLanes
<1>5. GpTyped'
  BY <1>1, <1>2, <1>4 DEF GpTyped
<1>6. pending' \in SUBSET Nat /\ (stage' = "idle" => pending' = {})
  BY <1>1, <1>2, GpUnits
<1>7. stage' # "idle" => pending' \subseteq Units(stage)'
  BY <1>1, <1>2, <1>4 DEF Units
<1>8. GpSchedule'
  BY <1>1, <1>4, <1>5, <1>6, <1>7 DEF GpSchedule
<1> QED BY <1>1, <1>2, <1>3, <1>8

\* Validation over, the quotes still to be recovered are those of the queue.
LEMMA GpCountedQuotes ==
  ASSUME GpInv, NextKernel, stage # "apply", NEW i \in Nat
  PROVE  CountedQuotes(i)' = CountedQuotes(i)
<1>1. /\ GpInput /\ pending = {} /\ UNCHANGED <<text, mapping, recovery_items, recovery_count>>
      /\ stage \in {"first", "collect", "recover", "prescan", "postscan", "rebase", "apply"}
      /\ stage = "first" => stage' = "collect"
      /\ stage = "collect" => stage' = "recover" /\ pending' = 0 .. recovery_count - 1
      /\ stage = "recover" => stage' = "prescan"
      /\ stage = "prescan" => stage' = "postscan"
      /\ stage = "postscan" => stage' = "rebase"
      /\ stage = "rebase" => stage' = "apply"
  BY GpKernelEnds
<1>2. QuotesOf(i, 0)' = QuotesOf(i, 0) /\ FoundOf(i)' = FoundOf(i)
  BY <1>1, GpSame
<1>3. CASE stage = "collect"
  <2>1. Enumerates(recovery_items, recovery_count, {j \in 0 .. Active - 1 : Mistaken(j)})
    BY <1>1, <1>3 DEF GpInv, GpQueued
  <2>2. Unrecovered(i)' <=> \E k \in 0 .. recovery_count - 1 : recovery_items[k] = i
    BY <1>1, <1>3 DEF Unrecovered
  <2>3. Unrecovered(i)' <=> i \in 0 .. Active - 1 /\ Mistaken(i)
    BY <2>1, <2>2 DEF Enumerates
  <2>4. Unrecovered(i)' <=> Mistaken(i)
    BY <1>1, <2>3, GpItemFacts
  <2>5. Unrecovered(i)
    BY <1>3 DEF Unrecovered
  <2> QED BY <1>2, <2>4, <2>5 DEF CountedQuotes, Mistaken
<1>4. CASE stage # "collect"
  <2>1. Unrecovered(i)' <=> Unrecovered(i)
    BY <1>1, <1>4 DEF Unrecovered
  <2> QED BY <1>2, <2>1 DEF CountedQuotes
<1> QED BY <1>3, <1>4

\* The entries that the first two kernels leave to the scan.
LEMMA GpParitiesComplete ==
  ASSUME GpInv, stage = "recover", pending = {}, NEW i \in 0 .. ScanCount - 1
  PROVE  quote_parity[i] = Parities[i]
<1>1. GpInput /\ Summarised = Items
  BY DEF GpInv, GpSchedule, GpTyped, GpInput, Summarised
<1>2. PICK n \in Nat : Items = 0 .. n - 1 /\ PaddingCleared = n .. ScanCount - 1 /\ Active <= n
  BY <1>1, GpEntries
<1>3. i \in Nat /\ (i \in Items \/ i \in PaddingCleared)
  BY <1>2
<1>4. Parities[i] = ParityOf(FoundOf(i))
  BY <1>1, <1>3, GpItemFacts
<1>5. CASE i \in Items
  <2>1. CountedQuotes(i) = FoundOf(i)
    BY DEF CountedQuotes, Unrecovered
  <2> QED BY <1>1, <1>4, <1>5, <2>1 DEF GpInv, ParitiesHold
<1>6. CASE i \in PaddingCleared
  <2>1. i \notin 0 .. Active - 1
    <3>1. Active \in Nat
      BY <1>1, GpItems
    <3> HIDE DEF Active
    <3> QED BY <1>2, <1>6, <3>1
  <2>2. FoundOf(i) = {}
    BY <1>1, <1>3, <2>1, GpItemFacts
  <2>3. ParityOf(FoundOf(i)) = 0
    BY <2>2, FS_EmptySet DEF ParityOf
  <2> QED BY <1>4, <1>6, <2>3 DEF GpInv, ParitiesHold
<1> QED BY <1>3, <1>5, <1>6

LEMMA GpLanes ==
  ASSUME GpInput, ScanCount > 0
  PROVE  /\ RunLength \in Nat \ {0} /\ ScanCount \in Nat /\ Scan!ScanLanes = 0 .. ScanThreads - 1
         /\ ScanThreads \in Nat \ {0}
         /\ \A i \in 0 .. ScanCount - 1 : LaneOf(i) \in Scan!ScanLanes
         /\ \A l \in Scan!ScanLanes :
              /\ l \in Nat /\ l * RunLength \in 0 .. ScanCount - 1
              /\ l * RunLength + RunLength - 1 \in 0 .. ScanCount - 1
              /\ \A i \in l * RunLength .. l * RunLength + RunLength - 1 :
                   i \in 0 .. ScanCount - 1 /\ LaneOf(i) = l
         /\ \A i \in 0 .. ScanCount - 1 :
              i \in LaneOf(i) * RunLength .. LaneOf(i) * RunLength + RunLength - 1
<1>1. ScanThreads \in Nat \ {0} /\ ScanCount \in Nat \ {0} /\ ScanCount % ScanThreads = 0
  BY GpEntries
<1>2. RunLength = (ScanCount + ScanThreads - 1) \div ScanThreads
  BY DEF RunLength, Scan!ValuesPerThread
<1> HIDE DEF ScanCount, RunLength
<1>3. /\ RunLength \in Nat \ {0}
      /\ \A i \in 0 .. ScanCount - 1 : i \div RunLength \in 0 .. ScanThreads - 1
      /\ \A l \in 0 .. ScanThreads - 1 :
           /\ l * RunLength \in 0 .. ScanCount - 1 /\ l * RunLength + RunLength - 1 \in 0 .. ScanCount - 1
           /\ \A i \in l * RunLength .. l * RunLength + RunLength - 1 :
                i \in 0 .. ScanCount - 1 /\ i \div RunLength = l
  <2>1. RunLength \in Nat \ {0} /\ ScanCount = RunLength * ScanThreads
    BY <1>1, <1>2, RunLengths
  <2> QED BY <1>1, <2>1, RunsOfLanes
<1>4. Scan!ScanLanes = 0 .. ScanThreads - 1
  BY DEF Scan!ScanLanes
<1>5. \A i \in 0 .. ScanCount - 1 : i \in LaneOf(i) * RunLength .. LaneOf(i) * RunLength + RunLength - 1
  <2> SUFFICES ASSUME NEW i \in 0 .. ScanCount - 1
               PROVE  i \in LaneOf(i) * RunLength .. LaneOf(i) * RunLength + RunLength - 1
    OBVIOUS
  <2> DEFINE l == i \div RunLength
             r == i % RunLength
  <2>1. i \in Nat
    BY <1>1
  <2>2. l \in Nat /\ r \in 0 .. RunLength - 1 /\ i = l * RunLength + r
    BY <1>3, <2>1, Quotient
  <2> HIDE DEF l, r
  <2>3. l * RunLength \in Nat
    BY <1>3, <2>2
  <2>4. i \in l * RunLength .. l * RunLength + RunLength - 1
    BY <1>3, <2>2, <2>3
  <2> QED BY <2>4 DEF l, LaneOf
<1>6. \A i \in 0 .. ScanCount - 1 : LaneOf(i) \in Scan!ScanLanes
  BY <1>3, <1>4 DEF LaneOf
<1>7. \A l \in Scan!ScanLanes :
        /\ l \in Nat /\ l * RunLength \in 0 .. ScanCount - 1
        /\ l * RunLength + RunLength - 1 \in 0 .. ScanCount - 1
        /\ \A i \in l * RunLength .. l * RunLength + RunLength - 1 :
             i \in 0 .. ScanCount - 1 /\ LaneOf(i) = l
  <2>1. \A l \in Scan!ScanLanes : l \in Nat
    BY <1>1, <1>4
  <2> QED BY <1>3, <1>4, <2>1, Zenon DEF LaneOf
<1> QED BY <1>1, <1>3, <1>4, <1>5, <1>6, <1>7, Zenon

LEMMA GpNextKernel ==
  ASSUME GpInv, NextKernel
  PROVE  GpInv'
<1>1. /\ GpTyped /\ GpInput /\ launch > 0 /\ ScanCount > 0 /\ recovery_count \in Nat
      /\ stage \in {"first", "collect", "recover", "prescan", "postscan", "rebase", "apply"}
      /\ pending = {} /\ Summarised = Items
      /\ UNCHANGED <<text, mapping, launch, raw_structural, structural_out, escape_carry,
                     escape_changes_quote, quote_parity, recovery_items, recovery_count, xor_bases>>
      /\ stage = "first" => stage' = "collect" /\ pending' = Warps
      /\ stage = "collect" => stage' = "recover" /\ pending' = 0 .. recovery_count - 1
      /\ stage = "recover" => stage' = "prescan" /\ pending' = Scan!ScanLanes
      /\ stage = "prescan" => stage' = "postscan" /\ pending' = {0}
      /\ stage = "postscan" => stage' = "rebase" /\ pending' = Scan!ScanLanes
      /\ stage = "rebase" => stage' = "apply" /\ pending' = Items
      /\ stage = "apply" => stage' = "idle" /\ pending' = {}
      /\ GpSchedule'
  BY GpKernelEnds
<1>2. /\ ItemBytes' = ItemBytes /\ Active' = Active /\ Items' = Items
      /\ ScanCount' = ScanCount /\ PaddingCleared' = PaddingCleared
      /\ Parities' = Parities /\ RunLength' = RunLength
      /\ \A i : /\ WordBits(i)' = WordBits(i) /\ Mistaken(i)' = Mistaken(i) /\ LaneOf(i)' = LaneOf(i)
                /\ ItemStart(i)' = ItemStart(i) /\ ItemEnd(i)' = ItemEnd(i)
                /\ OperatorsIn(ItemStart(i), ItemEnd(i))' = OperatorsIn(ItemStart(i), ItemEnd(i))
      /\ \A i, e : QuotesOf(i, e)' = QuotesOf(i, e)
  BY <1>1, GpSame
<1>3. Items \in SUBSET Nat /\ Summarised' \in SUBSET Items /\ (stage = "apply" => Summarised' = {})
  BY <1>1, <1>2, GpUnits DEF Summarised
<1>4. SummariesHold'
  BY <1>1, <1>2, <1>3 DEF GpInv, SummariesHold
<1>5. GpQueued'
  <2>1. stage = "first" =>
          Enumerates(recovery_items, recovery_count,
                     {i \in 0 .. Active - 1 : i \div WarpSize \notin Warps /\ Mistaken(i)})
    <3>1. {i \in 0 .. Active - 1 : i \div WarpSize \notin Warps /\ Mistaken(i)} = {}
      BY <1>1, GpWarps
    <3>2. stage = "first" => recovery_count = 0
      BY DEF GpInv, GpQueued
    <3> HIDE DEF Mistaken, Active
    <3>3. Enumerates(recovery_items, 0, {})
      BY FS_EmptySet DEF Enumerates
    <3> QED BY <3>1, <3>2, <3>3
  <2>2. stage = "collect" =>
          Enumerates(recovery_items, recovery_count, {i \in 0 .. Active - 1 : Mistaken(i)})
    BY <1>1 DEF GpInv, GpQueued
  <2>3. /\ {i \in 0 .. Active - 1 : Mistaken(i)}' = {i \in 0 .. Active - 1 : Mistaken(i)}
        /\ {i \in 0 .. Active - 1 : i \div WarpSize \notin pending /\ Mistaken(i)}'
             = {i \in 0 .. Active - 1 : i \div WarpSize \notin pending' /\ Mistaken(i)}
    BY <1>2
  <2>4. /\ stage' # "first"
        /\ stage' = "collect" => stage = "first" /\ pending' = Warps
        /\ stage' = "recover" => stage = "collect"
    BY <1>1
  <2> QED BY <1>1, <2>1, <2>2, <2>3, <2>4 DEF GpQueued, Enumerates
<1>6. ASSUME NEW i \in Summarised'
      PROVE  /\ i \in Nat /\ stage # "apply" /\ i \in Items
             /\ CountedQuotes(i)' = CountedQuotes(i)
  <2>1. i \in Nat /\ stage # "apply" /\ i \in Items
    BY <1>3
  <2> QED BY <2>1, GpCountedQuotes
<1>7. BitmapsHold'
  <2> SUFFICES ASSUME NEW i \in Summarised'
               PROVE  (structural_out \cap WordBits(i)
                         = IF stage = "apply" /\ i \notin pending
                           THEN LookbackStructural(text, ItemBytes) \cap WordBits(i)
                           ELSE OutsideStrings(OperatorsIn(ItemStart(i), ItemEnd(i)),
                                               CountedQuotes(i), 1))'
    BY DEF BitmapsHold
  <2>1. stage # "apply" /\ i \in Items /\ CountedQuotes(i)' = CountedQuotes(i)
    BY <1>6
  <2>2. structural_out \cap WordBits(i)
          = OutsideStrings(OperatorsIn(ItemStart(i), ItemEnd(i)), CountedQuotes(i), 1)
    BY <1>1, <2>1 DEF GpInv, BitmapsHold
  <2>3. stage' = "apply" => i \in pending'
    BY <1>1, <2>1
  <2>4. OutsideStrings(OperatorsIn(ItemStart(i), ItemEnd(i)), CountedQuotes(i), 1)'
          = OutsideStrings(OperatorsIn(ItemStart(i), ItemEnd(i)), CountedQuotes(i), 1)
    BY <1>2, <2>1 DEF OutsideStrings
  <2> QED BY <1>1, <1>2, <2>2, <2>3, <2>4
<1>8. ParitiesHold'
  <2> SUFFICES ASSUME stage' \in {"first", "collect", "recover"}
               PROVE  /\ \A i \in Summarised' : quote_parity'[i] = ParityOf(CountedQuotes(i)')
                      /\ \A i \in PaddingCleared' : quote_parity'[i] = 0
    BY DEF ParitiesHold, ParityOf
  <2>1. stage \in {"first", "collect"}
    BY <1>1
  <2> QED BY <1>1, <1>2, <1>6, <2>1 DEF GpInv, ParitiesHold
<1>9. GpScanHolds'
  <2>1. ASSUME stage' \in {"prescan", "postscan", "rebase", "apply"}, NEW i \in 0 .. ScanCount - 1
        PROVE  quote_parity'[i] = ScannedValue(i)'
    <3>1. LaneOf(i) \in Scan!ScanLanes
      BY <1>1, GpLanes
    <3>2. CASE stage = "recover"
      <4>1. quote_parity[i] = Parities[i]
        BY <1>1, <3>2, GpParitiesComplete
      <4>2. ScannedValue(i)' = Parities[i]
        BY <1>1, <1>2, <3>1, <3>2 DEF ScannedValue
      <4> QED BY <1>1, <4>1, <4>2
    <3>3. CASE stage \in {"prescan", "postscan", "rebase"}
      <4>1. quote_parity[i] = ScannedValue(i)
        BY <3>3 DEF GpInv, GpScanHolds
      <4>2. ScannedValue(i)' = ScannedValue(i)
        BY <1>1, <1>2, <3>1, <3>3 DEF ScannedValue, OddCount
      <4> QED BY <1>1, <4>1, <4>2
    <3> QED BY <1>1, <2>1, <3>2, <3>3
  <2>2. (stage' = "postscan" /\ pending' = {}) \/ stage' = "rebase" =>
          \A l \in Scan!ScanLanes : xor_bases'[l] = OddCount(Parities, 0, l * RunLength - 1)
    BY <1>1 DEF GpInv, GpScanHolds
  <2>3. Scan!ScanLanes' = Scan!ScanLanes
    BY DEF Scan!ScanLanes
  <2>4. \A l : OddCount(Parities, 0, l * RunLength - 1)' = OddCount(Parities, 0, l * RunLength - 1)
    BY <1>2 DEF OddCount
  <2> QED BY <1>2, <2>1, <2>2, <2>3, <2>4 DEF GpScanHolds
<1>10. OutputIsLookback'
  <2> SUFFICES ASSUME stage = "apply"
               PROVE  structural_out = LookbackStructural(text, ItemBytes)
    BY <1>1, <1>2 DEF OutputIsLookback, LaunchComplete
  <2>1. \A i \in Items : structural_out \cap WordBits(i) = LookbackStructural(text, ItemBytes) \cap WordBits(i)
    BY <1>1 DEF GpInv, BitmapsHold
  <2>2. structural_out \in SUBSET TextBits
    BY <1>1 DEF GpTyped
  <2>3. LookbackStructural(text, ItemBytes) \in SUBSET TextBits
    <3>1. LookbackStructural(text, ItemBytes) \in SUBSET DOMAIN text
      BY DEF LookbackStructural, OutsideStrings, Operators
    <3> QED BY <1>1, <3>1, GpBits
  <2>4. \A p \in TextBits : \E i \in Items : p \in WordBits(i)
    <3> SUFFICES ASSUME NEW p \in TextBits PROVE \E i \in Items : p \in WordBits(i)
      OBVIOUS
    <3>1. PICK n \in Nat : Items = 0 .. n - 1 /\ Active <= n
      BY <1>1, GpEntries
    <3> DEFINE i == p \div ItemBytes
    <3>2. i \in 0 .. Active - 1 /\ Active \in Nat
      BY <1>1, GpBits, GpItems
    <3> HIDE DEF i, Active
    <3>3. i \in Items /\ i \in Nat
      BY <3>1, <3>2
    <3>4. p \in WordBits(i)
      BY <1>1, <3>3, GpBits DEF i
    <3> QED BY <3>3, <3>4
  <2> QED BY <2>1, <2>2, <2>3, <2>4
<1> QED BY <1>1, <1>4, <1>5, <1>7, <1>8, <1>9, <1>10 DEF GpInv


-----------------------------------------------------------------------------
(***************************************************************************)
(* The first pass, whichever kernel runs it.                               *)
(***************************************************************************)
\* What the first pass owes an item that it reads.
ReadByFirst(i) ==
  /\ escape_carry'[i] = OutgoingEscape(text, ItemStart(i), ItemEnd(i), 0)
  /\ escape_changes_quote'[i] = 1 <=> QuotesOf(i, 0) # QuotesOf(i, 1)
  /\ quote_parity'[i] = ParityOf(QuotesOf(i, 0))
  /\ raw_structural' \cap WordBits(i) = OperatorsIn(ItemStart(i), ItemEnd(i))
  /\ structural_out' \cap WordBits(i)
       = OutsideStrings(OperatorsIn(ItemStart(i), ItemEnd(i)), QuotesOf(i, 0), 1)

\* And what it may not touch.
LeftByFirst(i) ==
  /\ escape_carry'[i] = escape_carry[i]
  /\ escape_changes_quote'[i] = escape_changes_quote[i]
  /\ quote_parity'[i] = quote_parity[i]
  /\ raw_structural' \cap WordBits(i) = raw_structural \cap WordBits(i)
  /\ structural_out' \cap WordBits(i) = structural_out \cap WordBits(i)

LEMMA PassReads ==
  ASSUME PassInv, NEW unit, Runs("first", unit), GpTyped',
         \A i \in Items : IF UnitOf(i) = unit THEN ReadByFirst(i) ELSE LeftByFirst(i),
         \A i \in PaddingCleared : quote_parity'[i] = quote_parity[i],
         UNCHANGED <<recovery_items, recovery_count, xor_bases>>
  PROVE  PassInv'
<1>1. /\ GpInput /\ stage = "first" /\ launch > 0 /\ unit \in pending
      /\ UNCHANGED <<text, mapping, launch, stage>> /\ pending' = pending \ {unit}
  BY PassRuns DEF PassInv
<1>2. /\ Items' = Items /\ PaddingCleared' = PaddingCleared
      /\ \A i : /\ WordBits(i)' = WordBits(i) /\ UnitOf(i)' = UnitOf(i)
                /\ ItemStart(i)' = ItemStart(i) /\ ItemEnd(i)' = ItemEnd(i)
                /\ OperatorsIn(ItemStart(i), ItemEnd(i))' = OperatorsIn(ItemStart(i), ItemEnd(i))
      /\ \A i, e : QuotesOf(i, e)' = QuotesOf(i, e)
  BY <1>1, GpSame
<1>3. GpSchedule'
  BY <1>1, PassGoesOn DEF PassInv
<1>4. ASSUME NEW i \in Summarised'
      PROVE  /\ i \in Items
             /\ \/ UnitOf(i) = unit /\ ReadByFirst(i)
                \/ i \in Summarised /\ LeftByFirst(i)
  BY <1>1, <1>2, <1>4 DEF Summarised
<1>5. \A i : CountedQuotes(i) = QuotesOf(i, 0) /\ CountedQuotes(i)' = QuotesOf(i, 0)
  BY <1>1, <1>2 DEF CountedQuotes, Unrecovered
<1>6. SummariesHold'
  <2> SUFFICES ASSUME NEW i \in Summarised'
               PROVE  /\ escape_carry'[i] = OutgoingEscape(text, ItemStart(i), ItemEnd(i), 0)
                      /\ escape_changes_quote'[i] = 1 <=> QuotesOf(i, 0) # QuotesOf(i, 1)
                      /\ raw_structural' \cap WordBits(i) = OperatorsIn(ItemStart(i), ItemEnd(i))
    BY <1>1, <1>2 DEF SummariesHold
  <2> QED BY <1>4 DEF ReadByFirst, LeftByFirst, PassInv, SummariesHold
<1>7. BitmapsHold'
  <2> SUFFICES ASSUME NEW i \in Summarised'
               PROVE  structural_out' \cap WordBits(i)
                        = OutsideStrings(OperatorsIn(ItemStart(i), ItemEnd(i)), QuotesOf(i, 0), 1)
    BY <1>1, <1>2, <1>5 DEF BitmapsHold, OutsideStrings
  <2>1. i \in Summarised =>
          structural_out \cap WordBits(i)
            = OutsideStrings(OperatorsIn(ItemStart(i), ItemEnd(i)), QuotesOf(i, 0), 1)
    BY <1>1, <1>5 DEF PassInv, BitmapsHold
  <2> QED BY <1>4, <2>1 DEF ReadByFirst, LeftByFirst
<1>8. ParitiesHold'
  <2>1. ASSUME NEW i \in Summarised' PROVE quote_parity'[i] = ParityOf(QuotesOf(i, 0))
    BY <1>1, <1>4, <1>5 DEF ReadByFirst, LeftByFirst, PassInv, ParitiesHold
  <2>2. \A i \in PaddingCleared : quote_parity'[i] = 0
    BY <1>1 DEF PassInv, ParitiesHold
  <2> QED BY <1>2, <1>5, <2>1, <2>2 DEF ParitiesHold, ParityOf
<1> QED BY <1>3, <1>6, <1>7, <1>8 DEF PassInv

\* gpHierarchyOriginalFirstKernel, gpHierarchyWordFirstKernel: one item per thread.
LEMMA PassFirst ==
  ASSUME PassInv, NEW unit, First(unit)
  PROVE  PassInv'
<1> DEFINE from   == ItemStart(unit)
           to     == ItemEnd(unit)
           quotes == QuotesFrom(text, from, to, 0)
<1>1. /\ ~ByWarp /\ Runs("first", unit)
      /\ raw_structural' = Put(raw_structural, WordBits(unit), OperatorsIn(from, to))
      /\ structural_out' = Put(structural_out, WordBits(unit),
                               OutsideStrings(OperatorsIn(from, to), quotes, 1))
      /\ escape_carry' = [escape_carry EXCEPT ![unit] = OutgoingEscape(text, from, to, 0)]
      /\ quote_parity' = [quote_parity EXCEPT ![unit] = ParityOf(quotes)]
      /\ escape_changes_quote' = [escape_changes_quote EXCEPT
                                    ![unit] = FlagOf(FirstNonSlashQuote(text, from, to) # {})]
      /\ UNCHANGED <<recovery_items, recovery_count, xor_bases>>
  BY DEF First, WordBits, PredictedEscape, PredictedString, recovery
<1>2. /\ GpInput /\ stage = "first" /\ unit \in Units("first") /\ unit \in Nat /\ recovery_count \in Nat
      /\ UNCHANGED <<text, mapping, launch, stage>> /\ pending' \in SUBSET Nat
  BY <1>1, PassRuns DEF PassInv
<1>3. unit \in Items /\ Items \in SUBSET Nat
  BY <1>1, <1>2, GpUnits
<1>4. unit \in 0 .. ScanCount - 1 /\ PaddingCleared \cap Items = {} /\ Items \in SUBSET (0 .. ScanCount - 1)
  <2>1. PICK n \in Nat : Items = 0 .. n - 1 /\ PaddingCleared = n .. ScanCount - 1 /\ n <= ScanCount
    BY <1>2, GpEntries
  <2>2. ScanCount \in Nat
    BY <1>2, GpEntries
  <2> HIDE DEF ScanCount
  <2> QED BY <1>3, <2>1, <2>2
<1>5. GpTyped
  BY DEF PassInv, GpSchedule
<1>6. /\ from \in Nat /\ to \in Nat /\ IsText(text)
      /\ quotes = QuotesOf(unit, 0) /\ IsFiniteSet(quotes) /\ ParityOf(quotes) \in {0, 1}
      /\ OutgoingEscape(text, from, to, 0) \in {0, 1}
      /\ OperatorsIn(from, to) \in SUBSET WordBits(unit)
      /\ OutsideStrings(OperatorsIn(from, to), quotes, 1) \in SUBSET WordBits(unit)
  <2>1. from \in Nat /\ to \in Nat /\ IsText(text)
    BY <1>2, GpItems, SegmentEnds DEF ItemStart, ItemEnd
  <2>2. quotes = QuotesOf(unit, 0)
    BY DEF QuotesOf
  <2> QED BY <1>2, <2>1, <2>2, GpItemFacts
<1>7. FlagOf(FirstNonSlashQuote(text, from, to) # {}) = 1 <=> QuotesOf(unit, 0) # QuotesOf(unit, 1)
  BY <1>6, EscapeChangesOne DEF FlagOf, QuotesOf
<1>8. FlagOf(FirstNonSlashQuote(text, from, to) # {}) \in {0, 1}
  BY DEF FlagOf
<1>9. /\ raw_structural' \in SUBSET TextBits /\ structural_out' \in SUBSET TextBits
      /\ raw_structural' \cap WordBits(unit) = OperatorsIn(from, to)
      /\ structural_out' \cap WordBits(unit) = OutsideStrings(OperatorsIn(from, to), quotes, 1)
      /\ \A j \in Nat : j # unit =>
           /\ raw_structural' \cap WordBits(j) = raw_structural \cap WordBits(j)
           /\ structural_out' \cap WordBits(j) = structural_out \cap WordBits(j)
  <2>1. raw_structural \in SUBSET TextBits /\ structural_out \in SUBSET TextBits
    BY <1>5 DEF GpTyped
  <2> DEFINE read == OperatorsIn(from, to)
             outside == OutsideStrings(read, quotes, 1)
  <2>2. /\ read \in SUBSET WordBits(unit) /\ outside \in SUBSET WordBits(unit)
        /\ raw_structural' = Put(raw_structural, WordBits(unit), read)
        /\ structural_out' = Put(structural_out, WordBits(unit), outside)
    BY <1>1, <1>6
  <2> HIDE DEF from, to, quotes, read, outside
  <2>3. /\ raw_structural' \in SUBSET TextBits /\ raw_structural' \cap WordBits(unit) = read
        /\ \A j \in Nat : j # unit => raw_structural' \cap WordBits(j) = raw_structural \cap WordBits(j)
    BY <1>2, <2>1, <2>2, PutFacts
  <2>4. /\ structural_out' \in SUBSET TextBits /\ structural_out' \cap WordBits(unit) = outside
        /\ \A j \in Nat : j # unit => structural_out' \cap WordBits(j) = structural_out \cap WordBits(j)
    BY <1>2, <2>1, <2>2, PutFacts
  <2> QED BY <2>3, <2>4 DEF read, outside
<1> HIDE DEF from, to, quotes
<1>10. /\ escape_carry' \in [0 .. ScanCount - 1 -> {0, 1}]
       /\ escape_changes_quote' \in [0 .. ScanCount - 1 -> {0, 1}]
       /\ quote_parity' \in [0 .. ScanCount - 1 -> {0, 1}]
  BY <1>1, <1>4, <1>5, <1>6, <1>8 DEF GpTyped
<1>11. GpTyped'
  <2>1. ScanCount' = ScanCount /\ TextBits' = TextBits /\ Active' = Active /\ Scan!ScanLanes' = Scan!ScanLanes
    BY <1>2, GpSame DEF Scan!ScanLanes
  <2> QED BY <1>1, <1>2, <1>5, <1>9, <1>10, <2>1 DEF GpTyped
<1>12. ASSUME NEW i \in Items
       PROVE  IF UnitOf(i) = unit THEN ReadByFirst(i) ELSE LeftByFirst(i)
  <2>1. UnitOf(i) = i /\ i \in Nat /\ i \in 0 .. ScanCount - 1
    BY <1>1, <1>3, <1>4 DEF UnitOf
  <2>2. CASE i = unit
    <3>1. /\ escape_carry'[i] = OutgoingEscape(text, from, to, 0)
          /\ escape_changes_quote'[i] = FlagOf(FirstNonSlashQuote(text, from, to) # {})
          /\ quote_parity'[i] = ParityOf(quotes)
      BY <1>1, <1>4, <1>5, <2>2 DEF GpTyped
    <3>2. from = ItemStart(i) /\ to = ItemEnd(i)
      BY <2>2 DEF from, to
    <3> QED BY <1>6, <1>7, <1>9, <2>1, <2>2, <3>1, <3>2 DEF ReadByFirst
  <2>3. CASE i # unit
    BY <1>1, <1>5, <1>9, <2>1, <2>3 DEF LeftByFirst, GpTyped
  <2> QED BY <2>1, <2>2, <2>3
<1>13. \A i \in PaddingCleared : quote_parity'[i] = quote_parity[i]
  BY <1>1, <1>3, <1>4
<1> QED BY <1>1, <1>11, <1>12, <1>13, PassReads

\* In the hierarchy the rest of the invariant is about other kernels.
LEMMA GpPass ==
  ASSUME GpInv, NEW unit, Runs("first", unit), UNCHANGED <<recovery_count, recovery_items>>, PassInv'
  PROVE  GpInv'
<1>1. stage = "first" /\ stage' = "first"
  BY GpRuns
<1>2. GpQueued' /\ GpScanHolds' /\ OutputIsLookback'
  BY <1>1 DEF GpInv, GpQueued, GpScanHolds, OutputIsLookback, LaunchComplete
<1> QED BY <1>2 DEF GpInv, PassInv

LEMMA GpFirst ==
  ASSUME GpInv, NEW unit, First(unit)
  PROVE  GpInv'
<1>1. PassInv'
  BY PassFirst DEF GpInv, PassInv
<1>2. Runs("first", unit) /\ UNCHANGED <<recovery_count, recovery_items>>
  BY DEF First, recovery
<1> QED BY <1>1, <1>2, GpPass

-----------------------------------------------------------------------------
(***************************************************************************)
(* The coalesced kernel on segments of two words: two lanes read a word    *)
(* each, and the second composes its word with the first.                  *)
(***************************************************************************)
\* The escape that leaves a range, seen from the escape 0 that was predicted.
LEMMA OutgoingComposed ==
  ASSUME NEW t, IsText(t), NEW from \in Nat, NEW to \in Nat, from <= to, NEW e \in {0, 1}
  PROVE  OutgoingEscape(t, from, to, e)
           = (OutgoingEscape(t, from, to, 0) + (IF AllSlashes(t, from, to) THEN e ELSE 0)) % 2
<1> DEFINE none == OutgoingEscape(t, from, to, 0)
           one  == OutgoingEscape(t, from, to, 1)
<1>1. none \in {0, 1} /\ one \in {0, 1} /\ Size(t) \in Nat
  BY OutgoingFacts, TextDomain
<1>2. one = IF AllSlashes(t, from, to) THEN 1 - none ELSE none
  <2>1. CASE from >= Size(t)
    <3>1. AllSlashes(t, from, to)
      BY <2>1, <1>1, RangeFacts DEF AllSlashes
    <3>2. none = 0 /\ one = 1
      BY <2>1, OutgoingFacts
    <3> QED BY <3>1, <3>2
  <2>2. CASE from < Size(t)
    <3> DEFINE end == IF to <= Size(t) THEN to ELSE Size(t)
    <3>1. end \in Nat /\ from <= end /\ end <= Size(t)
      BY <1>1, <2>2
    <3>2. none = EscapeOnArrival(t, from, 0, end) /\ one = EscapeOnArrival(t, from, 1, end)
      BY <1>1, <2>2, OutgoingFacts
    <3>3. AllSlashes(t, from, to) <=> AllSlashes(t, from, end)
      <4>1. \A p : p \in ByteRange(t, from, to) <=> p \in ByteRange(t, from, end)
        <5>1. \A p : /\ p \in ByteRange(t, from, to) <=> p \in DOMAIN t /\ from <= p /\ p < to
                     /\ p \in ByteRange(t, from, end) <=> p \in DOMAIN t /\ from <= p /\ p < end
                     /\ p \in DOMAIN t => p \in Nat /\ p < Size(t)
          BY <3>1, RangeFacts
        <5> QED BY <1>1, <5>1
      <4> QED BY <4>1 DEF AllSlashes
    <3>4. AllSlashes(t, from, end) <=> \A q \in from .. end - 1 : t[q] = "slash"
      BY <3>1, RangeFacts
    <3> HIDE DEF none, one, end
    <3> QED BY <3>1, <3>2, <3>3, <3>4, LoopsDiffer
  <2> QED BY <1>1, <2>1, <2>2
<1> HIDE DEF none, one
<1>3. CASE e = 0
  BY <1>1, <1>3 DEF none
<1>4. CASE e = 1
  <2>1. (none + (IF AllSlashes(t, from, to) THEN 1 ELSE 0)) % 2
          = IF AllSlashes(t, from, to) THEN 1 - none ELSE none
    BY <1>1
  <2> QED BY <1>2, <1>4, <2>1 DEF none, one
<1> QED BY <1>3, <1>4

\* Quotes of two ranges of which the second lies behind the first.
LEMMA ParityOfTwo ==
  ASSUME NEW first, NEW second, IsFiniteSet(first), IsFiniteSet(second), first \cap second = {}
  PROVE  /\ Cardinality(first \cup second) = Cardinality(first) + Cardinality(second)
         /\ ParityOf(first \cup second) = (ParityOf(first) + ParityOf(second)) % 2
<1>1. Cardinality(first) \in Nat /\ Cardinality(second) \in Nat
  BY FS_CardinalityType
<1>2. Cardinality(first \cup second) = Cardinality(first) + Cardinality(second)
  <2>1. Cardinality(first \cup second)
          = Cardinality(first) + Cardinality(second) - Cardinality(first \cap second)
    BY FS_Union
  <2>2. Cardinality(first \cap second) = 0
    BY FS_EmptySet
  <2> QED BY <1>1, <2>1, <2>2
<1>3. \A a \in Nat, b \in Nat : (a + b) % 2 = ((a % 2) + (b % 2)) % 2
  OBVIOUS
<1> QED BY <1>1, <1>2, <1>3 DEF ParityOf

\* The quotes of the second of two ranges, which was read with escape 0 as well.
SecondLane(t, from, middle, to) ==
  IF OutgoingEscape(t, from, middle, 0) = 1
  THEN SymDiff(QuotesFrom(t, middle, to, 0), FirstNonSlashQuote(t, middle, to))
  ELSE QuotesFrom(t, middle, to, 0)

LEMMA TwoWords ==
  ASSUME IsText(text), NEW from \in Nat, NEW middle \in Nat, NEW to \in Nat,
         from <= middle, middle <= to
  PROVE  /\ ParityOf(QuotesFrom(text, from, to, 0))
              = (ParityOf(QuotesFrom(text, from, middle, 0)) + ParityOf(SecondLane(text, from, middle, to))) % 2
         /\ OutsideStrings(OperatorsIn(from, to), QuotesFrom(text, from, to, 0), 1)
              = OutsideStrings(OperatorsIn(from, middle), QuotesFrom(text, from, middle, 0), 1)
                \cup OutsideStrings(OperatorsIn(middle, to), SecondLane(text, from, middle, to),
                                    (1 + ParityOf(QuotesFrom(text, from, middle, 0))) % 2)
<1> DEFINE quotes == QuotesFrom(text, from, to, 0)
           out    == OutgoingEscape(text, from, middle, 0)
           first  == QuotesFrom(text, from, middle, 0)
           second == SecondLane(text, from, middle, to)
           low    == OperatorsIn(from, middle)
           high   == OperatorsIn(middle, to)
<1>1. out \in {0, 1}
  BY OutgoingFacts
<1>2. second = QuotesFrom(text, middle, to, out)
  BY <1>1, EscapeChangesOne DEF SecondLane
<1>3. quotes = first \cup second
  BY <1>2, RangesFollow
<1>4. /\ first \in SUBSET ByteRange(text, from, middle) /\ second \in SUBSET ByteRange(text, middle, to)
  BY <1>2 DEF QuotesFrom
<1>5. /\ \A p \in ByteRange(text, from, middle) : p \in Nat /\ p < middle
      /\ \A p \in ByteRange(text, middle, to) : p \in Nat /\ middle <= p
      /\ IsFiniteSet(ByteRange(text, from, middle)) /\ IsFiniteSet(ByteRange(text, middle, to))
  BY RangeFacts
<1>6. IsFiniteSet(first) /\ IsFiniteSet(second) /\ first \cap second = {}
  <2>1. IsFiniteSet(first) /\ IsFiniteSet(second)
    BY <1>4, <1>5, FS_Subset
  <2>2. first \cap second = {}
    BY <1>4, <1>5
  <2> QED BY <2>1, <2>2
<1>a. /\ low \in SUBSET ByteRange(text, from, middle) /\ high \in SUBSET ByteRange(text, middle, to)
      /\ low \cup high = OperatorsIn(from, to)
  <2>1. \A p \in DOMAIN text : p \in Nat
    BY RangeFacts
  <2> QED BY <2>1 DEF OperatorsIn, ByteRange
<1> HIDE DEF quotes, out, first, second, low, high
<1>7. ParityOf(quotes) = (ParityOf(first) + ParityOf(second)) % 2
  BY <1>3, <1>6, ParityOfTwo
<1> DEFINE all(p) == Cardinality({q \in quotes : q <= p})
           a(p) == Cardinality({q \in first : q <= p})
           b(p) == Cardinality({q \in second : q <= p})
<1>8. ASSUME NEW p \in low PROVE all(p) = a(p)
  <2>1. {q \in quotes : q <= p} = {q \in first : q <= p}
    BY <1>3, <1>4, <1>5, <1>a
  <2> QED BY <2>1
<1>9. ASSUME NEW p \in high PROVE (all(p) + 1) % 2 = (b(p) + ((1 + ParityOf(first)) % 2)) % 2
  <2> DEFINE behind == {q \in second : q <= p}
  <2>1. {q \in quotes : q <= p} = first \cup behind
    BY <1>3, <1>4, <1>5, <1>a
  <2>2. IsFiniteSet(behind) /\ first \cap behind = {}
    <3>1. behind \in SUBSET second
      OBVIOUS
    <3> HIDE DEF behind
    <3> QED BY <1>6, <3>1, FS_Subset
  <2>3. all(p) = Cardinality(first) + Cardinality(behind)
    <3> HIDE DEF behind
    <3> QED BY <1>6, <2>1, <2>2, ParityOfTwo
  <2> HIDE DEF behind
  <2>4. Cardinality(first) \in Nat /\ Cardinality(behind) \in Nat
    BY <1>6, <2>2, FS_CardinalityType
  <2>5. \A c \in Nat, d \in Nat : ((c + d) + 1) % 2 = (d + ((1 + (c % 2)) % 2)) % 2
    OBVIOUS
  <2>6. b(p) = Cardinality(behind)
    BY DEF behind
  <2> HIDE DEF b, all
  <2> QED BY <2>3, <2>4, <2>5, <2>6 DEF ParityOf
<1>10. OutsideStrings(low \cup high, quotes, 1)
         = OutsideStrings(low, first, 1) \cup OutsideStrings(high, second, (1 + ParityOf(first)) % 2)
  <2> DEFINE e == (1 + ParityOf(first)) % 2
  <2> HIDE DEF e
  <2>1. \A p : p \in OutsideStrings(low \cup high, quotes, 1)
                 <=> p \in low \cup high /\ (all(p) + 1) % 2 = 0
    BY DEF OutsideStrings
  <2>2. \A p : p \in OutsideStrings(low, first, 1) <=> p \in low /\ (a(p) + 1) % 2 = 0
    BY DEF OutsideStrings
  <2>3. \A p : p \in OutsideStrings(high, second, e) <=> p \in high /\ (b(p) + e) % 2 = 0
    BY DEF OutsideStrings
  <2> HIDE DEF all, a, b
  <2>4. \A p \in high : (all(p) + 1) % 2 = (b(p) + e) % 2
    BY <1>9, Zenon DEF e
  <2>5. OutsideStrings(low \cup high, quotes, 1)
          = OutsideStrings(low, first, 1) \cup OutsideStrings(high, second, e)
    BY <1>8, <2>1, <2>2, <2>3, <2>4
  <2> QED BY <2>5 DEF e
<1> QED BY <1>7, <1>10, <1>a DEF quotes, first, second, low, high

\* Where a word-aligned block of whole ranges begins and ends.
LEMMA BlockEnds ==
  ASSUME NEW B \in Nat \ {0}, NEW a \in Nat, NEW p \in Nat
  PROVE  a * B <= p <=> a <= p \div B
<1> DEFINE l == p \div B
           r == p % B
<1>1. l \in Nat /\ r \in 0 .. B - 1 /\ p = l * B + r
  BY Quotient
<1> HIDE DEF l, r
<1>2. a < l => a * B + B <= l * B
  BY <1>1, Multiples
<1>3. l < a => l * B + B <= a * B
  BY <1>1, Multiples
<1>4. a = l => a * B = l * B
  OBVIOUS
<1>5. a * B \in Nat /\ l * B \in Nat
  BY <1>1
<1>6. a * B <= p <=> a <= l
  BY <1>1, <1>2, <1>3, <1>4, <1>5
<1> QED BY <1>6 DEF l

\* The words that a warp is dealt.
WarpBits(n) == WordsOf(ItemStart(n * WarpSize), ItemEnd((n + 1) * WarpSize - 1))

WarpOperators(n) == OperatorsIn(ItemStart(n * WarpSize), ItemEnd((n + 1) * WarpSize - 1))

LEMMA WarpRange ==
  ASSUME GpInput, NEW n \in Nat
  PROVE  /\ \A p : p \in WarpBits(n) <=> p \in TextBits /\ p \div ItemBytes \in WarpItems(n)
         /\ \A p : p \in WarpOperators(n)
                     <=> p \in DOMAIN text /\ IsOperator(text[p]) /\ p \div ItemBytes \in WarpItems(n)
<1> DEFINE B == ItemBytes
           a == n * WarpSize
           b == (n + 1) * WarpSize
<1>1. B \in Nat \ {0} /\ WarpSize \in Nat \ {0} /\ a \in Nat /\ b \in Nat \ {0}
  <2>1. WarpSize \in Nat \ {0} /\ B \in Nat \ {0}
    BY GpItems, GpWarps
  <2>2. (n + 1) * WarpSize = n * WarpSize + WarpSize /\ n * WarpSize \in Nat
    BY <2>1
  <2> QED BY <2>1, <2>2
<1>2. ItemStart(n * WarpSize) = a * B /\ ItemEnd((n + 1) * WarpSize - 1) = b * B
  <2>1. (b - 1) + 1 = b
    BY <1>1
  <2> QED BY <2>1 DEF ItemStart, ItemEnd
<1>3. \A i : i \in WarpItems(n) <=> i \in a .. b - 1
  BY DEF WarpItems
<1> HIDE DEF B, a, b
<1>4. ASSUME NEW p \in Nat PROVE a * B <= p /\ p < b * B <=> p \div B \in WarpItems(n)
  <2>1. (a * B <= p <=> a <= p \div B) /\ (b * B <= p <=> b <= p \div B)
    BY <1>1, BlockEnds
  <2>2. p \div B \in Nat /\ b * B \in Nat
    BY <1>1, Quotient
  <2> DEFINE l == p \div B
             e == b * B
  <2>3. l \in Nat /\ e \in Nat /\ (e <= p <=> b <= l) /\ (a * B <= p <=> a <= l)
    BY <2>1, <2>2
  <2> HIDE DEF l, e
  <2>4. p < e <=> l <= b - 1
    BY <1>1, <2>3
  <2>5. a * B <= p /\ p < e <=> l \in a .. b - 1
    BY <1>1, <2>3, <2>4
  <2> QED BY <1>3, <2>5 DEF l, e
<1>5. (\A p \in TextBits : p \in Nat) /\ DOMAIN text \in SUBSET TextBits
  BY GpBits
<1>6. \A p : p \in WarpBits(n) <=> p \in TextBits /\ a * B <= p /\ p < b * B
  BY <1>2 DEF WarpBits, WordsOf, TextBits
<1>7. \A p : p \in WarpOperators(n)
               <=> p \in DOMAIN text /\ IsOperator(text[p]) /\ a * B <= p /\ p < b * B
  BY <1>2 DEF WarpOperators, OperatorsIn, ByteRange
<1>8. \A p \in TextBits : a * B <= p /\ p < b * B <=> p \div B \in WarpItems(n)
  BY <1>4, <1>5
<1> HIDE DEF TextBits
<1> QED BY <1>5, <1>6, <1>7, <1>8 DEF B

\* A set of bits that each item has its own part of.
LEMMA UnionOfItems ==
  ASSUME GpInput, NEW n \in Warps, NEW of,
         \A s \in WarpItems(n) : of[s] \in SUBSET WordBits(s)
  PROVE  /\ (UNION {of[s] : s \in WarpItems(n)}) \in SUBSET WarpBits(n)
         /\ \A i \in WarpItems(n) : (UNION {of[s] : s \in WarpItems(n)}) \cap WordBits(i) = of[i]
<1>1. n \in Nat /\ WarpItems(n) \in SUBSET Nat
  BY GpWarps
<1>2. \A p : p \in WarpBits(n) <=> p \in TextBits /\ p \div ItemBytes \in WarpItems(n)
  BY <1>1, WarpRange
<1>3. \A i \in Nat : \A p : p \in WordBits(i) <=> p \in TextBits /\ p \div ItemBytes = i
  BY GpBits
<1> DEFINE bits == UNION {of[s] : s \in WarpItems(n)}
<1>4. \A p : p \in bits <=> \E s \in WarpItems(n) : p \in of[s]
  OBVIOUS
<1> HIDE DEF bits
<1>5. bits \in SUBSET WarpBits(n) /\ \A i \in WarpItems(n) : bits \cap WordBits(i) = of[i]
  BY <1>1, <1>2, <1>3, <1>4
<1> QED BY <1>5 DEF bits

\* The two words of a segment.
LEMMA WordsOfSegment ==
  ASSUME GpInput, ByWarp, NEW s \in Nat
  PROVE  /\ ItemStart(s) \in Nat /\ ItemStart(s) + WordBytes \in Nat /\ ItemEnd(s) \in Nat
         /\ WordBytes \in Nat
         /\ ItemStart(s) <= ItemStart(s) + WordBytes /\ ItemStart(s) + WordBytes <= ItemEnd(s)
         /\ (2 * s) * WordBytes = ItemStart(s)
         /\ (2 * s + 1) * WordBytes = ItemStart(s) + WordBytes
         /\ ((2 * s + 1) + 1) * WordBytes = ItemEnd(s)
<1>1. PICK m \in Nat \ {0} : SegmentBytes(text) = m * WordBytes
  BY GpItems, SegmentFacts
<1>2. WordBytes \in Nat \ {0}
  BY WordBytesAssumption
<1>3. mapping = "coalesced" /\ SegmentBytes(text) \div WordBytes = 2
  BY DEF ByWarp, WordsPerSegment
<1>4. SegmentBytes(text) = 2 * WordBytes
  <2> DEFINE b == SegmentBytes(text)
             q == b \div WordBytes
             r == b % WordBytes
  <2>1. m * WordBytes \in Nat /\ b = m * WordBytes
    BY <1>1, <1>2
  <2>2. q = 2 /\ r \in 0 .. WordBytes - 1 /\ b = q * WordBytes + r
    BY <1>2, <1>3, <2>1, Quotient
  <2> HIDE DEF b, q, r
  <2>3. m * WordBytes + 0 = q * WordBytes + r /\ 0 \in 0 .. WordBytes - 1 /\ q \in Nat
    BY <1>2, <2>1, <2>2
  <2>4. m = q
    BY <1>2, <2>2, <2>3, QuotientUnique
  <2> QED BY <2>1, <2>2, <2>4 DEF b
<1>5. ItemStart(s) = s * (2 * WordBytes) /\ ItemEnd(s) = (s + 1) * (2 * WordBytes)
  BY <1>3, <1>4 DEF ItemStart, ItemEnd, ItemBytes
<1> DEFINE d == s * WordBytes
<1>6. d \in Nat /\ s * (2 * WordBytes) = 2 * d /\ (s + 1) * (2 * WordBytes) = 2 * d + 2 * WordBytes
      /\ (2 * s) * WordBytes = 2 * d /\ (2 * s + 1) * WordBytes = 2 * d + WordBytes
      /\ ((2 * s + 1) + 1) * WordBytes = 2 * d + 2 * WordBytes
  BY <1>2
<1> HIDE DEF d
<1> QED BY <1>2, <1>5, <1>6

\* What the two lanes of a segment find together is what one thread would.
LEMMA SegmentOfTwoWords ==
  ASSUME GpInput, ByWarp, NEW s \in Nat,
         NEW first, first = ClassifiedWord(2 * s), NEW second, second = ClassifiedWord(2 * s + 1),
         NEW middle, middle = ItemStart(s) + WordBytes
  PROVE  /\ ComposedEscape(first, second) = OutgoingEscape(text, ItemStart(s), ItemEnd(s), 0)
         /\ Scan!Xor(ParityOf(first.quotes), ParityOf(SecondQuotes(first, second)))
              = ParityOf(QuotesOf(s, 0))
         /\ FlagOf((IF first.slashes THEN second ELSE first).changed # {}) = 1
              <=> QuotesOf(s, 0) # QuotesOf(s, 1)
         /\ OutsideStrings(OperatorsIn(ItemStart(s), middle), first.quotes, 1)
              \cup OutsideStrings(OperatorsIn(middle, ItemEnd(s)), SecondQuotes(first, second),
                                  Scan!Xor(1, ParityOf(first.quotes)))
              = OutsideStrings(OperatorsIn(ItemStart(s), ItemEnd(s)), QuotesOf(s, 0), 1)
<1> DEFINE from == ItemStart(s)
           to   == ItemEnd(s)
           low  == OperatorsIn(from, middle)
           high == OperatorsIn(middle, to)
           out  == OutgoingEscape(text, from, middle, 0)
<1>1. /\ from \in Nat /\ middle \in Nat /\ to \in Nat /\ from <= middle /\ middle <= to
      /\ IsText(text)
  BY WordsOfSegment, GpItems
<1>2. /\ first.quotes = QuotesFrom(text, from, middle, 0)
      /\ first.changed = FirstNonSlashQuote(text, from, middle)
      /\ first.outgoing = out /\ first.slashes = AllSlashes(text, from, middle)
      /\ second.quotes = QuotesFrom(text, middle, to, 0)
      /\ second.changed = FirstNonSlashQuote(text, middle, to)
      /\ second.outgoing = OutgoingEscape(text, middle, to, 0)
      /\ second.slashes = AllSlashes(text, middle, to)
  <2>1. /\ (2 * s) * WordBytes = from /\ (2 * s + 1) * WordBytes = middle
        /\ ((2 * s + 1) + 1) * WordBytes = to
    BY WordsOfSegment
  <2> HIDE DEF from, to
  <2> QED BY <2>1 DEF ClassifiedWord, PredictedEscape
<1>3. out \in {0, 1}
  BY <1>1, OutgoingFacts
<1>4. ComposedEscape(first, second) = OutgoingEscape(text, from, to, 0)
  <2>1. OutgoingEscape(text, from, to, 0) = OutgoingEscape(text, middle, to, out)
    BY <1>1, RangesFollow
  <2>2. OutgoingEscape(text, middle, to, out)
          = (OutgoingEscape(text, middle, to, 0) + (IF AllSlashes(text, middle, to) THEN out ELSE 0)) % 2
    BY <1>1, <1>3, OutgoingComposed
  <2> HIDE DEF from, to, out
  <2> QED BY <1>2, <2>1, <2>2 DEF ComposedEscape, Scan!Xor
<1>5. SecondQuotes(first, second)
        = IF out = 1 THEN SymDiff(QuotesFrom(text, middle, to, 0), FirstNonSlashQuote(text, middle, to))
          ELSE QuotesFrom(text, middle, to, 0)
  BY <1>2 DEF SecondQuotes
<1>8. QuotesOf(s, 0) = QuotesFrom(text, from, to, 0)
  BY DEF QuotesOf
<1>9. QuotesOf(s, 1) = QuotesFrom(text, from, to, 1)
  BY DEF QuotesOf
<1>10. FirstNonSlashQuote(text, from, to) # {} <=> QuotesOf(s, 0) # QuotesOf(s, 1)
  BY <1>1, <1>8, <1>9, EscapeChangesOne
<1>11. FirstNonSlashQuote(text, from, to) # {}
         <=> IF AllSlashes(text, from, middle) THEN FirstNonSlashQuote(text, middle, to) # {}
             ELSE FirstNonSlashQuote(text, from, middle) # {}
  BY <1>1, RangesFollow
<1> HIDE DEF from, to, low, high, out
<1>12. FlagOf((IF first.slashes THEN second ELSE first).changed # {}) = 1
         <=> QuotesOf(s, 0) # QuotesOf(s, 1)
  BY <1>2, <1>10, <1>11 DEF FlagOf
<1> DEFINE one == QuotesFrom(text, from, middle, 0)
           two == SecondLane(text, from, middle, to)
<1>a. first.quotes = one /\ SecondQuotes(first, second) = two
  BY <1>2, <1>5 DEF out, SecondLane
<1> HIDE DEF one, two
<1>13. /\ ParityOf(QuotesFrom(text, from, to, 0)) = (ParityOf(one) + ParityOf(two)) % 2
       /\ OutsideStrings(OperatorsIn(from, to), QuotesFrom(text, from, to, 0), 1)
            = OutsideStrings(OperatorsIn(from, middle), one, 1)
              \cup OutsideStrings(OperatorsIn(middle, to), two, (1 + ParityOf(one)) % 2)
  BY <1>1, TwoWords DEF one, two
<1>14. Scan!Xor(ParityOf(first.quotes), ParityOf(SecondQuotes(first, second))) = ParityOf(QuotesOf(s, 0))
  BY <1>8, <1>a, <1>13 DEF Scan!Xor
<1>15. OutsideStrings(low, first.quotes, 1)
         \cup OutsideStrings(high, SecondQuotes(first, second), Scan!Xor(1, ParityOf(first.quotes)))
         = OutsideStrings(OperatorsIn(from, to), QuotesOf(s, 0), 1)
  BY <1>8, <1>a, <1>13 DEF Scan!Xor, low, high
<1> QED BY <1>4, <1>12, <1>14, <1>15 DEF from, to, low, high

\* gpHierarchyCoalescedSegmentFirstKernel.
LEMMA PassFirstByWarp ==
  ASSUME PassInv, NEW n \in Warps, FirstByWarp(n)
  PROVE  PassInv'
<1> DEFINE segments  == WarpItems(n)
           first(s)  == ClassifiedWord(2 * s)
           second(s) == ClassifiedWord(2 * s + 1)
           middle(s) == ItemStart(s) + WordBytes
           outside(s) ==
             OutsideStrings(OperatorsIn(ItemStart(s), middle(s)), first(s).quotes, 1)
             \cup OutsideStrings(OperatorsIn(middle(s), ItemEnd(s)), SecondQuotes(first(s), second(s)),
                                 Scan!Xor(1, ParityOf(first(s).quotes)))
           composed(s) == ComposedEscape(first(s), second(s))
           parity(s) == Scan!Xor(ParityOf(first(s).quotes), ParityOf(SecondQuotes(first(s), second(s))))
           flag(s) == FlagOf((IF first(s).slashes THEN second(s) ELSE first(s)).changed # {})
           read(s) == OperatorsIn(ItemStart(s), ItemEnd(s))
<1>1. /\ ByWarp /\ Runs("first", n)
      /\ raw_structural' = Put(raw_structural, WarpBits(n), WarpOperators(n))
      /\ structural_out' = Put(structural_out, WarpBits(n), UNION {outside(s) : s \in segments})
      /\ escape_carry' = [s \in DOMAIN escape_carry |->
                            IF s \in segments THEN composed(s) ELSE escape_carry[s]]
      /\ quote_parity' = [s \in DOMAIN quote_parity |->
                            IF s \in segments THEN parity(s) ELSE quote_parity[s]]
      /\ escape_changes_quote' = [s \in DOMAIN escape_changes_quote |->
                                    IF s \in segments THEN flag(s) ELSE escape_changes_quote[s]]
      /\ UNCHANGED <<recovery_items, recovery_count, xor_bases>>
  BY DEF FirstByWarp, WarpBits, WarpOperators, PredictedString, recovery
<1>2. /\ GpInput /\ stage = "first" /\ recovery_count \in Nat
      /\ UNCHANGED <<text, mapping, launch, stage>> /\ pending' \in SUBSET Nat
  BY <1>1, PassRuns DEF PassInv
<1>3. mapping # "word"
  BY <1>1 DEF ByWarp
<1>4. /\ n \in Nat /\ segments \in SUBSET Items /\ Items \in SUBSET Nat
      /\ \A i \in Nat : i \in segments <=> i \div WarpSize = n
  BY <1>2, <1>3, GpWarps, GpUnits
<1>5. Items \in SUBSET (0 .. ScanCount - 1) /\ PaddingCleared = {}
  <2>1. PICK k \in Nat : Items = 0 .. k - 1 /\ k <= ScanCount
    BY <1>2, GpEntries
  <2>2. ScanCount \in Nat
    BY <1>2, GpEntries
  <2>3. PaddingCleared = {}
    BY <1>3 DEF PaddingCleared
  <2> HIDE DEF ScanCount
  <2> QED BY <2>1, <2>2, <2>3
<1>6. GpTyped
  BY DEF PassInv, GpSchedule
<1>7. ASSUME NEW s \in segments
      PROVE  /\ composed(s) = OutgoingEscape(text, ItemStart(s), ItemEnd(s), 0)
             /\ parity(s) = ParityOf(QuotesOf(s, 0))
             /\ flag(s) = 1 <=> QuotesOf(s, 0) # QuotesOf(s, 1)
             /\ outside(s) = OutsideStrings(read(s), QuotesOf(s, 0), 1)
             /\ composed(s) \in {0, 1} /\ parity(s) \in {0, 1} /\ flag(s) \in {0, 1}
             /\ outside(s) \in SUBSET WordBits(s) /\ read(s) \in SUBSET WordBits(s)
  <2>1. s \in Nat
    BY <1>4
  <2>2. /\ composed(s) = OutgoingEscape(text, ItemStart(s), ItemEnd(s), 0)
        /\ parity(s) = ParityOf(QuotesOf(s, 0))
        /\ flag(s) = 1 <=> QuotesOf(s, 0) # QuotesOf(s, 1)
        /\ outside(s) = OutsideStrings(read(s), QuotesOf(s, 0), 1)
    BY <1>1, <1>2, <2>1, SegmentOfTwoWords
  <2>3. /\ OutgoingEscape(text, ItemStart(s), ItemEnd(s), 0) \in {0, 1}
        /\ ParityOf(QuotesOf(s, 0)) \in {0, 1}
        /\ OutsideStrings(read(s), QuotesOf(s, 0), 1) \in SUBSET WordBits(s)
        /\ read(s) \in SUBSET WordBits(s)
    BY <1>2, <2>1, GpItemFacts
  <2>4. flag(s) \in {0, 1}
    BY DEF FlagOf
  <2> HIDE DEF composed, parity, flag, outside, read
  <2> QED BY <2>2, <2>3, <2>4
<1> HIDE DEF composed, parity, flag, outside
<1> DEFINE outsides == [s \in segments |-> outside(s)]
           reads == [s \in segments |-> read(s)]
<1>a. /\ \A p : p \in WarpBits(n) <=> p \in TextBits /\ p \div ItemBytes \in WarpItems(n)
      /\ \A i \in Nat : \A p : p \in WordBits(i) <=> p \in TextBits /\ p \div ItemBytes = i
  BY <1>2, <1>4, WarpRange, GpBits
<1>b. WarpItems(n) \in SUBSET Nat
  BY <1>4
<1>8. WarpOperators(n) = UNION {reads[s] : s \in segments}
  <2>1. \A p : p \in WarpOperators(n)
                 <=> p \in DOMAIN text /\ IsOperator(text[p]) /\ p \div ItemBytes \in segments
    BY <1>2, <1>4, WarpRange
  <2>2. \A s \in segments : \A p : p \in read(s)
                                 <=> p \in DOMAIN text /\ IsOperator(text[p]) /\ p \div ItemBytes = s
    <3>1. \A s \in Nat : \A p : p \in ByteRange(text, ItemStart(s), ItemEnd(s))
                              <=> p \in DOMAIN text /\ p \div ItemBytes = s
      BY <1>2, GpBits
    <3> QED BY <1>4, <3>1 DEF OperatorsIn
  <2> HIDE DEF read, segments
  <2> QED BY <2>1, <2>2
<1>9. UNION {outside(s) : s \in segments} = UNION {outsides[s] : s \in segments}
  <2> HIDE DEF segments
  <2> QED OBVIOUS
<1> HIDE DEF read
<1>10. /\ raw_structural' \in SUBSET TextBits
       /\ \A i \in segments : raw_structural' \cap WordBits(i) = read(i)
       /\ \A i \in Nat : i \notin segments => raw_structural' \cap WordBits(i) = raw_structural \cap WordBits(i)
  <2>1. raw_structural \in SUBSET TextBits
    BY <1>6 DEF GpTyped
  <2>2. \A s \in WarpItems(n) : reads[s] = read(s) /\ reads[s] \in SUBSET WordBits(s)
    BY <1>7
  <2> DEFINE bits == UNION {reads[s] : s \in WarpItems(n)}
             all == Put(raw_structural, WarpBits(n), bits)
  <2>3. raw_structural' = all
    BY <1>1, <1>8
  <2> HIDE DEF reads
  <2>4. bits \in SUBSET WarpBits(n) /\ \A i \in WarpItems(n) : bits \cap WordBits(i) = reads[i]
    BY <1>2, <2>2, UnionOfItems
  <2> HIDE DEF bits, segments
  <2>5. \A p : p \in all <=> (p \in raw_structural /\ p \notin WarpBits(n)) \/ p \in bits
    BY DEF Put
  <2> HIDE DEF all
  <2>6. all \in SUBSET TextBits
    BY <1>a, <2>1, <2>4, <2>5
  <2>7. ASSUME NEW i \in WarpItems(n) PROVE all \cap WordBits(i) = bits \cap WordBits(i)
    BY <1>a, <1>b, <2>5
  <2>8. ASSUME NEW i \in Nat, i \notin WarpItems(n)
        PROVE  all \cap WordBits(i) = raw_structural \cap WordBits(i)
    <3>1. \A p \in WordBits(i) : p \notin WarpBits(n)
      BY <1>a, <2>8
    <3>2. \A p \in bits : p \in WarpBits(n)
      BY <2>4
    <3> QED BY <2>5, <3>1, <3>2
  <2> QED BY <2>2, <2>3, <2>4, <2>6, <2>7, <2>8 DEF segments
<1>11. /\ structural_out' \in SUBSET TextBits
       /\ \A i \in segments : structural_out' \cap WordBits(i) = outside(i)
       /\ \A i \in Nat : i \notin segments => structural_out' \cap WordBits(i) = structural_out \cap WordBits(i)
  <2>1. structural_out \in SUBSET TextBits
    BY <1>6 DEF GpTyped
  <2>2. \A s \in WarpItems(n) : outsides[s] = outside(s) /\ outsides[s] \in SUBSET WordBits(s)
    BY <1>7
  <2> DEFINE bits == UNION {outsides[s] : s \in WarpItems(n)}
             all == Put(structural_out, WarpBits(n), bits)
  <2>3. structural_out' = all
    BY <1>1, <1>9
  <2> HIDE DEF outsides
  <2>4. bits \in SUBSET WarpBits(n) /\ \A i \in WarpItems(n) : bits \cap WordBits(i) = outsides[i]
    BY <1>2, <2>2, UnionOfItems
  <2> HIDE DEF bits, segments
  <2>5. \A p : p \in all <=> (p \in structural_out /\ p \notin WarpBits(n)) \/ p \in bits
    BY DEF Put
  <2> HIDE DEF all
  <2>6. all \in SUBSET TextBits
    BY <1>a, <2>1, <2>4, <2>5
  <2>7. ASSUME NEW i \in WarpItems(n) PROVE all \cap WordBits(i) = bits \cap WordBits(i)
    BY <1>a, <1>b, <2>5
  <2>8. ASSUME NEW i \in Nat, i \notin WarpItems(n)
        PROVE  all \cap WordBits(i) = structural_out \cap WordBits(i)
    <3>1. \A p \in WordBits(i) : p \notin WarpBits(n)
      BY <1>a, <2>8
    <3>2. \A p \in bits : p \in WarpBits(n)
      BY <2>4
    <3> QED BY <2>5, <3>1, <3>2
  <2> QED BY <2>2, <2>3, <2>4, <2>6, <2>7, <2>8 DEF segments
<1> HIDE DEF segments, outsides, reads
<1>12. /\ escape_carry' \in [0 .. ScanCount - 1 -> {0, 1}]
       /\ escape_changes_quote' \in [0 .. ScanCount - 1 -> {0, 1}]
       /\ quote_parity' \in [0 .. ScanCount - 1 -> {0, 1}]
  BY <1>1, <1>6, <1>7 DEF GpTyped
<1>13. GpTyped'
  <2>1. ScanCount' = ScanCount /\ TextBits' = TextBits /\ Active' = Active /\ Scan!ScanLanes' = Scan!ScanLanes
    BY <1>2, GpSame DEF Scan!ScanLanes
  <2> QED BY <1>1, <1>2, <1>6, <1>10, <1>11, <1>12, <2>1 DEF GpTyped
<1>14. ASSUME NEW i \in Items
       PROVE  IF UnitOf(i) = n THEN ReadByFirst(i) ELSE LeftByFirst(i)
  <2>1. i \in Nat /\ i \in 0 .. ScanCount - 1 /\ (UnitOf(i) = n <=> i \in segments)
    BY <1>1, <1>4, <1>5 DEF UnitOf
  <2>2. CASE i \in segments
    <3>1. escape_carry'[i] = composed(i) /\ escape_changes_quote'[i] = flag(i) /\ quote_parity'[i] = parity(i)
      BY <1>1, <1>6, <2>1, <2>2 DEF GpTyped
    <3> QED BY <1>7, <1>10, <1>11, <2>1, <2>2, <3>1 DEF ReadByFirst, read
  <2>3. CASE i \notin segments
    <3>1. /\ escape_carry'[i] = escape_carry[i] /\ escape_changes_quote'[i] = escape_changes_quote[i]
          /\ quote_parity'[i] = quote_parity[i]
      BY <1>1, <1>6, <2>1, <2>3 DEF GpTyped
    <3> QED BY <1>10, <1>11, <2>1, <2>3, <3>1 DEF LeftByFirst
  <2> QED BY <2>1, <2>2, <2>3
<1>15. \A i \in PaddingCleared : quote_parity'[i] = quote_parity[i]
  BY <1>5
<1> QED BY <1>1, <1>13, <1>14, <1>15, PassReads

LEMMA GpFirstByWarp ==
  ASSUME GpInv, NEW n \in Warps, FirstByWarp(n)
  PROVE  GpInv'
<1>1. PassInv'
  BY PassFirstByWarp DEF GpInv, PassInv
<1>2. Runs("first", n) /\ UNCHANGED <<recovery_count, recovery_items>>
  BY DEF FirstByWarp, recovery
<1> QED BY <1>1, <1>2, GpPass

-----------------------------------------------------------------------------
(***************************************************************************)
(* Validation and recovery.                                                *)
(***************************************************************************)
LEMMA GpNeedsRecovery ==
  ASSUME GpInv, Summarised = Items, NEW i \in 0 .. Active - 1
  PROVE  NeedsRecovery(i) <=> Mistaken(i)
<1>1. GpTyped /\ GpInput
  BY DEF GpInv, GpSchedule, GpTyped, GpInput
<1>2. PICK m \in Nat : Items = 0 .. m - 1 /\ Active <= m /\ m <= ScanCount
  BY <1>1, GpEntries
<1>3. Active \in Nat /\ ScanCount \in Nat
  BY <1>1, GpItems, GpEntries
<1>4. i \in Nat /\ i \in Items /\ (i # 0 => i - 1 \in Items /\ i - 1 \in Nat) /\ i \in 0 .. ScanCount - 1
  <2> HIDE DEF Active, ScanCount
  <2> QED BY <1>2, <1>3
<1>5. escape_changes_quote[i] # 0 <=> QuotesOf(i, 0) # QuotesOf(i, 1)
  <2>1. escape_changes_quote[i] \in {0, 1}
    BY <1>1, <1>4 DEF GpTyped
  <2>2. escape_changes_quote[i] = 1 <=> QuotesOf(i, 0) # QuotesOf(i, 1)
    BY <1>4 DEF GpInv, SummariesHold
  <2> QED BY <2>1, <2>2
<1>6. IncomingEscape(i) = Entering(text, ItemBytes, i)
  <2>1. CASE i = 0
    BY <2>1 DEF IncomingEscape, Entering
  <2>2. CASE i # 0
    <3>1. escape_carry[i - 1] = OutgoingEscape(text, ItemStart(i - 1), ItemEnd(i - 1), 0)
      BY <1>4, <2>2 DEF GpInv, SummariesHold
    <3>2. (i - 1) + 1 = i
      BY <1>4
    <3> QED BY <2>2, <3>1, <3>2 DEF IncomingEscape, Entering, ItemStart, ItemEnd
  <2> QED BY <2>1, <2>2
<1>7. Entering(text, ItemBytes, i) \in {0, 1} /\ FoundOf(i) = QuotesOf(i, Entering(text, ItemBytes, i))
  BY <1>1, <1>4, GpItemFacts
<1> QED BY <1>5, <1>6, <1>7 DEF NeedsRecovery, Mistaken, PredictedEscape

LEMMA GpCollect ==
  ASSUME GpInv, NEW n \in Warps, Collect(n)
  PROVE  GpInv'
<1>1. /\ Runs("collect", n)
      /\ UNCHANGED <<raw_structural, structural_out, escape_carry, escape_changes_quote,
                     quote_parity, xor_bases>>
  BY DEF Collect, bitmaps, escapes, scan
<1>2. /\ GpInput /\ stage = "collect" /\ n \in pending /\ n \in Nat /\ recovery_count \in Nat
      /\ UNCHANGED <<text, mapping, launch, stage>> /\ pending' = pending \ {n}
      /\ pending' \in SUBSET Nat
  BY <1>1, GpRuns
<1>3. GpTyped /\ Summarised = Items /\ Summarised' = Items'
  BY <1>2 DEF GpInv, GpSchedule, Summarised
<1>4. /\ Items' = Items /\ Active' = Active /\ ScanCount' = ScanCount /\ TextBits' = TextBits
      /\ PaddingCleared' = PaddingCleared /\ Scan!ScanLanes' = Scan!ScanLanes
      /\ ItemBytes' = ItemBytes
      /\ \A i : /\ WordBits(i)' = WordBits(i) /\ Mistaken(i)' = Mistaken(i)
                /\ FoundOf(i)' = FoundOf(i)
                /\ ItemStart(i)' = ItemStart(i) /\ ItemEnd(i)' = ItemEnd(i)
                /\ OperatorsIn(ItemStart(i), ItemEnd(i))' = OperatorsIn(ItemStart(i), ItemEnd(i))
      /\ \A i, e : QuotesOf(i, e)' = QuotesOf(i, e)
  BY <1>2, GpSame DEF Scan!ScanLanes
<1>5. /\ Active \in Nat
      /\ \A i \in 0 .. Active - 1 : i \in WarpItems(n) <=> i \div WarpSize = n
      /\ WarpItems(n) \in SUBSET Nat
  <2>1. Active \in Nat /\ WarpItems(n) \in SUBSET Nat
        /\ \A i \in Nat : i \in WarpItems(n) <=> i \div WarpSize = n
    BY <1>2, GpItems, GpWarps
  <2>2. \A i \in 0 .. Active - 1 : i \in Nat
    BY <2>1
  <2> QED BY <2>1, <2>2
<1> DEFINE all    == 0 .. Active - 1
           before == {i \in all : i \div WarpSize \notin pending /\ Mistaken(i)}
           after  == {i \in all : i \div WarpSize \notin pending' /\ Mistaken(i)}
           misses == {i \in all : i \div WarpSize = n /\ Mistaken(i)}
           slot(i) == recovery_count + Rank(misses, i)
<1>6. {i \in WarpItems(n) : i < Active /\ NeedsRecovery(i)} = misses
  <2>1. \A i \in all : NeedsRecovery(i) <=> Mistaken(i)
    BY <1>3, GpNeedsRecovery
  <2>2. \A i \in Nat : i < Active <=> i \in all
    BY <1>5
  <2>3. \A i \in all : i \in WarpItems(n) <=> i \div WarpSize = n
    BY <1>5
  <2> HIDE DEF all, Active
  <2> QED BY <1>5, <2>1, <2>2, <2>3
<1>7. /\ after = before \cup misses /\ before \cap misses = {}
      /\ before \in SUBSET all /\ misses \in SUBSET all /\ after \in SUBSET all
      /\ all \in SUBSET Int /\ misses \in SUBSET Int
  <2>1. all \in SUBSET Int
    BY <1>5
  <2> HIDE DEF all, Mistaken
  <2> QED BY <1>2, <2>1
<1>8. /\ IsFiniteSet(before) /\ IsFiniteSet(misses) /\ IsFiniteSet(after)
      /\ Cardinality(after) \in 0 .. Active
  <2>1. IsFiniteSet(all) /\ Cardinality(all) = Active
    BY <1>5, FS_Interval
  <2>2. \A A \in SUBSET all : IsFiniteSet(A) /\ Cardinality(A) \in 0 .. Active
    <3> SUFFICES ASSUME NEW A \in SUBSET all PROVE IsFiniteSet(A) /\ Cardinality(A) \in 0 .. Active
      OBVIOUS
    <3> HIDE DEF all
    <3>1. IsFiniteSet(A) /\ Cardinality(A) <= Active
      BY <2>1, FS_Subset
    <3>2. Cardinality(A) \in Nat
      BY <3>1, FS_CardinalityType
    <3> QED BY <1>5, <3>1, <3>2
  <2> HIDE DEF before, after, misses, all
  <2> QED BY <1>7, <2>1, <2>2
<1>9. /\ recovery_count' = recovery_count + Cardinality(misses)
      /\ recovery_items' = [k \in DOMAIN recovery_items |->
                              IF \E i \in misses : slot(i) = k
                              THEN CHOOSE i \in misses : slot(i) = k
                              ELSE recovery_items[k]]
  <2> HIDE DEF misses
  <2> QED BY <1>6 DEF Collect, Rank
<1>10. Enumerates(recovery_items, recovery_count, before)
  BY <1>2 DEF GpInv, GpQueued
<1>11. recovery_items \in [all -> all]
  BY <1>3 DEF GpTyped
<1> HIDE DEF before, after, misses, all
<1>12. /\ 0 .. recovery_count + Cardinality(misses) - 1 \subseteq all
       /\ recovery_count' \in Nat
  <2>1. recovery_count = Cardinality(before)
    BY <1>10 DEF Enumerates
  <2>2. Cardinality(after) = recovery_count + Cardinality(misses)
    <3>1. Cardinality(before \cup misses)
            = Cardinality(before) + Cardinality(misses) - Cardinality(before \cap misses)
      BY <1>8, FS_Union
    <3>2. Cardinality(before \cap misses) = 0 /\ Cardinality(misses) \in Nat /\ Cardinality(before) \in Nat
      BY <1>7, <1>8, FS_EmptySet, FS_CardinalityType
    <3> QED BY <1>7, <2>1, <3>1, <3>2
  <2> DEFINE a == Cardinality(after)
             m == Cardinality(misses)
             top == Active
  <2>3. a \in 0 .. top /\ a = recovery_count + m /\ top \in Nat /\ m \in Nat /\ recovery_count' = recovery_count + m
    BY <1>5, <1>8, <1>9, <2>2, FS_CardinalityType
  <2>4. all = 0 .. top - 1
    BY DEF all
  <2> HIDE DEF a, m, top
  <2>5. 0 .. recovery_count + m - 1 \subseteq all /\ recovery_count' \in Nat
    BY <1>2, <2>3, <2>4
  <2> QED BY <2>5 DEF m
<1>13. recovery_items' \in [all -> all]
  <2>1. \A k \in all : (\E i \in misses : slot(i) = k) => (CHOOSE i \in misses : slot(i) = k) \in all
    BY <1>7
  <2> HIDE DEF slot
  <2> QED BY <1>9, <1>11, <2>1
<1>14. Enumerates(recovery_items', recovery_count', after)
  <2> DEFINE new == recovery_items'
  <2>1. AppendsInOrder(new, recovery_items, recovery_count, misses, all)
    <3>1. \A k \in all : IF \E i \in misses : recovery_count + Rank(misses, i) = k
                         THEN new[k] \in misses /\ recovery_count + Rank(misses, new[k]) = k
                         ELSE new[k] = recovery_items[k]
      BY <1>9, <1>11
    <3> HIDE DEF new
    <3> QED BY <1>12, <3>1 DEF AppendsInOrder
  <2> HIDE DEF new
  <2>2. Enumerates(new, recovery_count + Cardinality(misses), before \cup misses)
    BY <1>7, <1>8, <1>10, <2>1, AppendedInOrder
  <2> QED BY <1>7, <1>9, <2>2 DEF new
<1>15. GpTyped'
  BY <1>1, <1>2, <1>3, <1>4, <1>12, <1>13 DEF GpTyped, all
<1>16. GpSchedule'
  BY <1>1, <1>15, GpScheduleGoesOn
<1>17. GpQueued'
  <2>1. {i \in 0 .. Active - 1 : i \div WarpSize \notin pending /\ Mistaken(i)}' = after
    BY <1>4 DEF after, all
  <2> QED BY <1>2, <1>14, <2>1 DEF GpQueued, Enumerates
<1>18. \A i : CountedQuotes(i) = QuotesOf(i, 0) /\ CountedQuotes(i)' = QuotesOf(i, 0)
  BY <1>2, <1>4 DEF CountedQuotes, Unrecovered
<1>19. SummariesHold'
  BY <1>1, <1>2, <1>3, <1>4 DEF GpInv, SummariesHold
<1>20. BitmapsHold'
  BY <1>1, <1>2, <1>3, <1>4, <1>18 DEF GpInv, BitmapsHold, OutsideStrings
<1>21. ParitiesHold'
  BY <1>1, <1>2, <1>3, <1>4, <1>18 DEF GpInv, ParitiesHold, ParityOf
<1>22. GpScanHolds' /\ OutputIsLookback'
  BY <1>2 DEF GpScanHolds, OutputIsLookback, LaunchComplete
<1> QED BY <1>16, <1>17, <1>19, <1>20, <1>21, <1>22 DEF GpInv

LEMMA GpRecover ==
  ASSUME GpInv, NEW position, Recover(position)
  PROVE  GpInv'
<1>0. PICK i : i = recovery_items[position]
  OBVIOUS
<1>1. /\ Runs("recover", position)
      /\ structural_out' = Put(structural_out, WordBits(i),
                               OutsideStrings(raw_structural \cap WordBits(i), QuotesOf(i, 1), 1))
      /\ quote_parity' = [quote_parity EXCEPT ![i] = ParityOf(QuotesOf(i, 1))]
      /\ UNCHANGED <<raw_structural, escape_carry, escape_changes_quote, recovery_items,
                     recovery_count, xor_bases>>
  BY <1>0 DEF Recover, RecoveredEscape, PredictedString, WordBits, QuotesOf, escapes, recovery
<1>2. /\ GpInput /\ stage = "recover" /\ position \in pending /\ recovery_count \in Nat
      /\ position \in Units("recover")
      /\ UNCHANGED <<text, mapping, launch, stage>> /\ pending' = pending \ {position}
      /\ pending' \in SUBSET Nat
  BY <1>1, GpRuns
<1>3. /\ GpTyped /\ Summarised = Items /\ Summarised' = Items'
      /\ pending \subseteq 0 .. recovery_count - 1
  <2>1. Units("recover") = 0 .. recovery_count - 1
    BY <1>2, GpUnits
  <2> QED BY <1>2, <2>1 DEF GpInv, GpSchedule, Summarised
<1>4. /\ Items' = Items /\ Active' = Active /\ ScanCount' = ScanCount /\ TextBits' = TextBits
      /\ PaddingCleared' = PaddingCleared /\ Scan!ScanLanes' = Scan!ScanLanes
      /\ ItemBytes' = ItemBytes
      /\ \A j : /\ WordBits(j)' = WordBits(j) /\ Mistaken(j)' = Mistaken(j)
                /\ FoundOf(j)' = FoundOf(j)
                /\ ItemStart(j)' = ItemStart(j) /\ ItemEnd(j)' = ItemEnd(j)
                /\ OperatorsIn(ItemStart(j), ItemEnd(j))' = OperatorsIn(ItemStart(j), ItemEnd(j))
      /\ \A j, e : QuotesOf(j, e)' = QuotesOf(j, e)
  BY <1>2, GpSame DEF Scan!ScanLanes
<1>5. Enumerates(recovery_items, recovery_count, {j \in 0 .. Active - 1 : Mistaken(j)})
  BY <1>2 DEF GpInv, GpQueued
<1>6. i \in 0 .. Active - 1 /\ Mistaken(i)
  <2> HIDE DEF Mistaken, Active
  <2> QED BY <1>0, <1>2, <1>3, <1>5 DEF Enumerates
<1>7. \A k \in pending : recovery_items[k] = i <=> k = position
  BY <1>0, <1>2, <1>3, <1>5 DEF Enumerates
<1>8. /\ i \in Nat /\ i \in Items /\ Items \in SUBSET Nat /\ Items \in SUBSET (0 .. ScanCount - 1)
      /\ PaddingCleared \cap Items = {} /\ PaddingCleared \in SUBSET (0 .. ScanCount - 1)
  <2>1. PICK n \in Nat : Items = 0 .. n - 1 /\ PaddingCleared = n .. ScanCount - 1 /\ Active <= n /\ n <= ScanCount
    BY <1>2, GpEntries
  <2>2. ScanCount \in Nat /\ Active \in Nat
    BY <1>2, GpEntries, GpItems
  <2> HIDE DEF ScanCount, Active
  <2> QED BY <1>6, <2>1, <2>2
<1>9. FoundOf(i) = QuotesOf(i, 1) /\ IsFiniteSet(FoundOf(i)) /\ ParityOf(FoundOf(i)) \in {0, 1}
  <2>1. /\ Entering(text, ItemBytes, i) \in {0, 1} /\ FoundOf(i) = QuotesOf(i, Entering(text, ItemBytes, i))
        /\ IsFiniteSet(FoundOf(i)) /\ ParityOf(FoundOf(i)) \in {0, 1}
    BY <1>2, <1>8, GpItemFacts
  <2> QED BY <1>6, <2>1 DEF Mistaken
<1>10. raw_structural \cap WordBits(i) = OperatorsIn(ItemStart(i), ItemEnd(i))
  BY <1>3, <1>8 DEF GpInv, SummariesHold
<1> DEFINE bits == OutsideStrings(OperatorsIn(ItemStart(i), ItemEnd(i)), FoundOf(i), 1)
<1>11. bits \in SUBSET WordBits(i) /\ structural_out' = Put(structural_out, WordBits(i), bits)
  <2>1. bits \in SUBSET WordBits(i)
    BY <1>2, <1>8, <1>9, GpItemFacts
  <2> QED BY <1>1, <1>9, <1>10, <2>1 DEF bits
<1> HIDE DEF bits
<1>12. /\ structural_out' \in SUBSET TextBits /\ structural_out' \cap WordBits(i) = bits
       /\ \A j \in Nat : j # i => structural_out' \cap WordBits(j) = structural_out \cap WordBits(j)
  <2>1. structural_out \in SUBSET TextBits
    BY <1>3 DEF GpTyped
  <2> QED BY <1>2, <1>8, <1>11, <2>1, PutFacts
<1>13. /\ quote_parity' = [quote_parity EXCEPT ![i] = ParityOf(FoundOf(i))]
       /\ quote_parity' \in [0 .. ScanCount - 1 -> {0, 1}]
  <2>1. quote_parity' = [quote_parity EXCEPT ![i] = ParityOf(FoundOf(i))]
    BY <1>1, <1>9
  <2> QED BY <1>3, <1>9, <2>1 DEF GpTyped
<1>14. GpTyped'
  BY <1>1, <1>2, <1>3, <1>4, <1>12, <1>13 DEF GpTyped
<1>15. GpSchedule'
  BY <1>1, <1>14, GpScheduleGoesOn
<1>16. GpQueued'
  BY <1>1, <1>2, <1>4, <1>5 DEF GpQueued, Enumerates
<1>17. /\ CountedQuotes(i)' = FoundOf(i)
       /\ \A j : j # i => CountedQuotes(j)' = CountedQuotes(j)
  <2>1. \A j : Unrecovered(j) <=> \E k \in pending : recovery_items[k] = j
    BY <1>2 DEF Unrecovered
  <2>2. \A j : Unrecovered(j)' <=> \E k \in pending' : recovery_items[k] = j
    BY <1>1, <1>2 DEF Unrecovered
  <2>3. ~Unrecovered(i)'
    BY <1>2, <1>7, <2>2
  <2>4. \A j : j # i => (Unrecovered(j)' <=> Unrecovered(j))
    BY <1>2, <1>7, <2>1, <2>2
  <2> QED BY <1>4, <2>3, <2>4 DEF CountedQuotes
<1>18. SummariesHold'
  BY <1>1, <1>2, <1>3, <1>4 DEF GpInv, SummariesHold
<1>19. BitmapsHold'
  <2> SUFFICES ASSUME NEW j \in Items
               PROVE  structural_out' \cap WordBits(j)
                        = OutsideStrings(OperatorsIn(ItemStart(j), ItemEnd(j)), CountedQuotes(j)', 1)
    BY <1>2, <1>3, <1>4 DEF BitmapsHold, OutsideStrings
  <2>1. structural_out \cap WordBits(j)
          = OutsideStrings(OperatorsIn(ItemStart(j), ItemEnd(j)), CountedQuotes(j), 1)
    BY <1>2, <1>3 DEF GpInv, BitmapsHold
  <2>2. j \in Nat
    BY <1>8
  <2> QED BY <1>12, <1>17, <2>1, <2>2 DEF bits
<1>20. ParitiesHold'
  <2>1. ASSUME NEW j \in Items PROVE quote_parity'[j] = ParityOf(CountedQuotes(j)')
    <3>1. quote_parity[j] = ParityOf(CountedQuotes(j)) /\ j \in 0 .. ScanCount - 1
      BY <1>2, <1>3, <1>8 DEF GpInv, ParitiesHold
    <3> QED BY <1>3, <1>13, <1>17, <3>1 DEF GpTyped
  <2>2. ASSUME NEW j \in PaddingCleared PROVE quote_parity'[j] = 0
    <3>1. quote_parity[j] = 0 /\ j # i /\ j \in 0 .. ScanCount - 1
      BY <1>2, <1>8 DEF GpInv, ParitiesHold
    <3> QED BY <1>3, <1>13, <3>1 DEF GpTyped
  <2> QED BY <1>3, <1>4, <2>1, <2>2 DEF ParitiesHold, ParityOf
<1>21. GpScanHolds' /\ OutputIsLookback'
  BY <1>2 DEF GpScanHolds, OutputIsLookback, LaunchComplete
<1> QED BY <1>15, <1>16, <1>18, <1>19, <1>20, <1>21 DEF GpInv

-----------------------------------------------------------------------------
(***************************************************************************)
(* The three kernels of the scan.                                          *)
(***************************************************************************)
\* They write the parities and the bases and nothing else.
LEMMA GpScanStep ==
  ASSUME GpInv, NEW name \in {"prescan", "postscan", "rebase"}, NEW unit, Runs(name, unit),
         UNCHANGED <<raw_structural, structural_out, escape_carry, escape_changes_quote,
                     recovery_items, recovery_count>>,
         quote_parity' \in [0 .. ScanCount - 1 -> {0, 1}], xor_bases' \in [Scan!ScanLanes -> {0, 1}],
         GpScanHolds'
  PROVE  GpInv'
<1>1. /\ GpInput /\ stage = name
      /\ UNCHANGED <<text, mapping, launch, stage>> /\ pending' = pending \ {unit}
  BY GpRuns
<1>2. GpTyped /\ Summarised = Items /\ Summarised' = Items'
  BY <1>1 DEF GpInv, GpSchedule, Summarised
<1>3. /\ Items' = Items /\ Active' = Active /\ ScanCount' = ScanCount /\ TextBits' = TextBits
      /\ Scan!ScanLanes' = Scan!ScanLanes
      /\ \A j : /\ WordBits(j)' = WordBits(j) /\ FoundOf(j)' = FoundOf(j)
                /\ ItemStart(j)' = ItemStart(j) /\ ItemEnd(j)' = ItemEnd(j)
                /\ OperatorsIn(ItemStart(j), ItemEnd(j))' = OperatorsIn(ItemStart(j), ItemEnd(j))
      /\ \A j, e : QuotesOf(j, e)' = QuotesOf(j, e)
  BY <1>1, GpSame DEF Scan!ScanLanes
<1>4. GpTyped'
  BY <1>1, <1>2, <1>3 DEF GpTyped
<1>5. GpSchedule'
  BY <1>4, GpScheduleGoesOn
<1>6. \A j : CountedQuotes(j) = FoundOf(j) /\ CountedQuotes(j)' = FoundOf(j)
  BY <1>1, <1>3 DEF CountedQuotes, Unrecovered
<1>7. SummariesHold'
  BY <1>1, <1>2, <1>3 DEF GpInv, SummariesHold
<1>8. BitmapsHold'
  <2> SUFFICES ASSUME NEW j \in Items
               PROVE  structural_out' \cap WordBits(j)
                        = OutsideStrings(OperatorsIn(ItemStart(j), ItemEnd(j)), FoundOf(j), 1)
    BY <1>1, <1>2, <1>3, <1>6 DEF BitmapsHold, OutsideStrings
  <2>1. structural_out \cap WordBits(j)
          = OutsideStrings(OperatorsIn(ItemStart(j), ItemEnd(j)), CountedQuotes(j), 1)
    BY <1>1, <1>2 DEF GpInv, BitmapsHold
  <2> QED BY <1>6, <2>1
<1>9. GpQueued' /\ ParitiesHold' /\ OutputIsLookback'
  BY <1>1 DEF GpQueued, ParitiesHold, OutputIsLookback, LaunchComplete
<1> QED BY <1>5, <1>7, <1>8, <1>9 DEF GpInv

LEMMA ScanCardinality ==
  \A S : Scan!Cardinality(S) = Cardinality(S)
BY DEF Cardinality, Scan!Cardinality

LEMMA ScanXorOver ==
  \A array, i, j : Scan!XorOver(array, i, j) = OddCount(array, i, j)
BY ScanCardinality DEF Scan!XorOver, OddCount

LEMMA GpRunOf ==
  ASSUME NEW t
  PROVE  \A i : i \in Scan!Run(t, ScanCount) <=> i \in 0 .. ScanCount - 1 /\ LaneOf(i) = t
BY DEF Scan!Run, LaneOf, RunLength

\* gp4CudaPreScan: a lane takes the prefix of its own run.
LEMMA GpPreScan ==
  ASSUME GpInv, NEW t \in Scan!ScanLanes, PreScan(t)
  PROVE  GpInv'
<1>1. /\ Runs("prescan", t)
      /\ quote_parity' = [i \in DOMAIN quote_parity |->
                            IF i \in Scan!Run(t, ScanCount)
                            THEN OddCount(quote_parity, t * RunLength, i)
                            ELSE quote_parity[i]]
      /\ UNCHANGED <<raw_structural, structural_out, escape_carry, escape_changes_quote,
                     recovery_items, recovery_count, xor_bases>>
  BY ScanXorOver DEF PreScan, Scan!PreScan, RunLength, bitmaps, escapes, recovery
<1>2. /\ GpInput /\ stage = "prescan" /\ ScanCount > 0 /\ t \in pending
      /\ UNCHANGED <<text, mapping, launch, stage>> /\ pending' = pending \ {t}
  BY <1>1, GpRuns
<1>3. GpTyped
  BY DEF GpInv, GpSchedule
<1>4. /\ RunLength \in Nat \ {0} /\ t \in Nat /\ t * RunLength \in 0 .. ScanCount - 1
      /\ \A i \in t * RunLength .. t * RunLength + RunLength - 1 : i \in 0 .. ScanCount - 1 /\ LaneOf(i) = t
      /\ \A i \in 0 .. ScanCount - 1 :
           i \in LaneOf(i) * RunLength .. LaneOf(i) * RunLength + RunLength - 1
  BY <1>2, GpLanes
<1>5. \A i \in 0 .. ScanCount - 1 : quote_parity[i] = ScannedValue(i)
  BY <1>2 DEF GpInv, GpScanHolds
<1>6. ASSUME NEW i \in 0 .. ScanCount - 1, LaneOf(i) = t
      PROVE  OddCount(quote_parity, t * RunLength, i) = OddCount(Parities, t * RunLength, i)
  <2>1. \A k \in t * RunLength .. t * RunLength + RunLength - 1 : quote_parity[k] = Parities[k]
    BY <1>2, <1>4, <1>5 DEF ScannedValue
  <2>2. i \in t * RunLength .. t * RunLength + RunLength - 1
    BY <1>4, <1>6
  <2> QED BY <1>4, <2>1, <2>2, RunScans
<1>7. \A i \in 0 .. ScanCount - 1 :
        quote_parity'[i] = IF LaneOf(i) = t THEN OddCount(Parities, t * RunLength, i) ELSE quote_parity[i]
  BY <1>1, <1>3, <1>6, GpRunOf DEF GpTyped
<1>8. quote_parity' \in [0 .. ScanCount - 1 -> {0, 1}]
  <2>1. \A i : OddCount(Parities, t * RunLength, i) \in {0, 1} \/ i \notin 0 .. ScanCount - 1
    <3> SUFFICES ASSUME NEW i \in 0 .. ScanCount - 1
                 PROVE  OddCount(Parities, t * RunLength, i) \in {0, 1}
      OBVIOUS
    <3>1. i \in Int /\ t * RunLength \in Int
      BY <1>4
    <3> QED BY <3>1, OddCountFacts
  <2>2. quote_parity' = [i \in 0 .. ScanCount - 1 |-> quote_parity'[i]]
    BY <1>1, <1>3 DEF GpTyped
  <2>3. \A i \in 0 .. ScanCount - 1 : quote_parity[i] \in {0, 1}
    BY <1>3 DEF GpTyped
  <2> QED BY <1>7, <2>1, <2>2, <2>3
<1>9. GpScanHolds'
  <2>1. /\ ScanCount' = ScanCount /\ Parities' = Parities /\ RunLength' = RunLength
        /\ \A i : LaneOf(i)' = LaneOf(i)
    BY <1>2, GpSame
  <2>2. ASSUME NEW i \in 0 .. ScanCount - 1 PROVE quote_parity'[i] = ScannedValue(i)'
    <3>1. CASE LaneOf(i) = t
      <4>1. ScannedValue(i)' = OddCount(Parities, LaneOf(i) * RunLength, i)
        BY <1>2, <2>1, <3>1 DEF ScannedValue, OddCount
      <4> QED BY <1>7, <3>1, <4>1
    <3>2. CASE LaneOf(i) # t
      <4>1. ScannedValue(i)' = ScannedValue(i)
        BY <1>2, <2>1, <3>2 DEF ScannedValue, OddCount
      <4> QED BY <1>5, <1>7, <3>2, <4>1
    <3> QED BY <3>1, <3>2
  <2> QED BY <1>2, <2>1, <2>2 DEF GpScanHolds
<1> QED BY <1>1, <1>3, <1>8, <1>9, GpScanStep DEF GpTyped

\* gp4CudaPostScan: one thread scans the last values of the runs.
LEMMA GpPostScan ==
  ASSUME GpInv, PostScan
  PROVE  GpInv'
<1>1. /\ Runs("postscan", 0)
      /\ xor_bases' = [t \in Scan!ScanLanes |-> OddCount(Scan!RunTotals(ScanCount), 0, t - 1)]
      /\ UNCHANGED <<raw_structural, structural_out, escape_carry, escape_changes_quote,
                     recovery_items, recovery_count, quote_parity>>
  BY ScanXorOver DEF PostScan, Scan!PostScan, bitmaps, escapes, recovery
<1>2. /\ GpInput /\ stage = "postscan" /\ ScanCount > 0
      /\ UNCHANGED <<text, mapping, launch, stage>> /\ pending' = pending \ {0}
  BY <1>1, GpRuns
<1>3. GpTyped
  BY DEF GpInv, GpSchedule
<1>4. /\ RunLength \in Nat \ {0} /\ Scan!ScanLanes = 0 .. ScanThreads - 1 /\ ScanThreads \in Nat \ {0}
      /\ \A l \in Scan!ScanLanes :
           /\ l \in Nat /\ l * RunLength + RunLength - 1 \in 0 .. ScanCount - 1
           /\ LaneOf(l * RunLength + RunLength - 1) = l
  <2>1. /\ RunLength \in Nat \ {0} /\ Scan!ScanLanes = 0 .. ScanThreads - 1 /\ ScanThreads \in Nat \ {0}
        /\ \A l \in Scan!ScanLanes :
             /\ l \in Nat /\ l * RunLength \in 0 .. ScanCount - 1
             /\ l * RunLength + RunLength - 1 \in 0 .. ScanCount - 1
             /\ \A i \in l * RunLength .. l * RunLength + RunLength - 1 :
                  i \in 0 .. ScanCount - 1 /\ LaneOf(i) = l
    BY <1>2, GpLanes
  <2>2. ASSUME NEW l \in Scan!ScanLanes PROVE LaneOf(l * RunLength + RunLength - 1) = l
    <3> DEFINE a == l * RunLength
               b == RunLength
    <3>1. a \in Nat /\ b \in Nat \ {0} /\ \A i \in a .. a + b - 1 : LaneOf(i) = l
      BY <2>1
    <3> HIDE DEF a, b
    <3>2. a + b - 1 \in a .. a + b - 1
      BY <3>1
    <3>3. LaneOf(a + b - 1) = l
      BY <3>1, <3>2
    <3> QED BY <3>3 DEF a, b
  <2> QED BY <2>1, <2>2
<1>5. ASSUME NEW l \in Scan!ScanLanes
      PROVE  xor_bases'[l] = OddCount(Parities, 0, l * RunLength - 1)
  <2> DEFINE totals == Scan!RunTotals(ScanCount)
  <2>1. l \in Nat /\ l <= ScanThreads - 1
    BY <1>4
  <2>2. \A k \in 0 .. l - 1 : totals[k] = quote_parity[RunLength * (k + 1) - 1]
    <3>1. \A k \in 0 .. l - 1 : k \in 0 .. ScanThreads - 2
      BY <1>4, <2>1
    <3> QED BY <3>1 DEF Scan!RunTotals, RunLength
  <2>3. ASSUME NEW k \in 0 .. l - 1
        PROVE  quote_parity[k * RunLength + RunLength - 1]
                 = OddCount(Parities, k * RunLength, k * RunLength + RunLength - 1)
    <3> DEFINE i == k * RunLength + RunLength - 1
    <3>1. k \in Scan!ScanLanes
      BY <1>4, <2>1
    <3>2. i \in 0 .. ScanCount - 1 /\ LaneOf(i) = k
      BY <1>4, <3>1
    <3> HIDE DEF i
    <3>3. quote_parity[i] = OddCount(Parities, LaneOf(i) * RunLength, i)
      BY <1>2, <3>2 DEF GpInv, GpScanHolds, ScannedValue
    <3> QED BY <3>2, <3>3 DEF i
  <2> DEFINE V == RunLength
             parity == Parities
  <2>a. V \in Nat \ {0} /\ \A k \in 0 .. l - 1 : V * (k + 1) - 1 = k * V + V - 1
    <3> HIDE DEF V
    <3>1. V \in Nat \ {0}
      BY <1>4 DEF V
    <3> QED BY <2>1, <3>1
  <2>c. \A k \in 0 .. l - 1 : totals[k] = OddCount(parity, k * V, k * V + V - 1)
    BY <2>2, <2>3, <2>a
  <2>d. AreTotals(totals, parity, V, l)
    BY <2>c DEF AreTotals
  <2> HIDE DEF totals, V, parity
  <2>b. OddCount(totals, 0, l - 1) = OddCount(parity, 0, l * V - 1)
    BY <2>1, <2>a, <2>d, TotalsScan
  <2>4. OddCount(totals, 0, l - 1) = OddCount(Parities, 0, l * RunLength - 1)
    BY <2>b DEF V, parity
  <2> QED BY <1>1, <2>4 DEF totals
<1>6. xor_bases' \in [Scan!ScanLanes -> {0, 1}]
  <2>1. \A l \in Scan!ScanLanes : OddCount(Parities, 0, l * RunLength - 1) \in {0, 1}
    <3> SUFFICES ASSUME NEW l \in Scan!ScanLanes PROVE OddCount(Parities, 0, l * RunLength - 1) \in {0, 1}
      OBVIOUS
    <3>1. l * RunLength - 1 \in Int
      BY <1>4
    <3> QED BY <3>1, OddCountFacts
  <2> QED BY <1>1, <1>5, <2>1
<1>7. GpScanHolds'
  <2>1. /\ ScanCount' = ScanCount /\ Parities' = Parities /\ RunLength' = RunLength
        /\ \A i : LaneOf(i)' = LaneOf(i)
    BY <1>2, GpSame
  <2>2. Scan!ScanLanes' = Scan!ScanLanes
    BY DEF Scan!ScanLanes
  <2>3. ASSUME NEW i \in 0 .. ScanCount - 1 PROVE quote_parity'[i] = ScannedValue(i)'
    <3>1. quote_parity[i] = ScannedValue(i)
      BY <1>2 DEF GpInv, GpScanHolds
    <3>2. ScannedValue(i)' = ScannedValue(i)
      BY <1>2, <2>1 DEF ScannedValue, OddCount
    <3> QED BY <1>1, <3>1, <3>2
  <2>4. \A l : OddCount(Parities, 0, l * RunLength - 1)' = OddCount(Parities, 0, l * RunLength - 1)
    BY <2>1 DEF OddCount
  <2> QED BY <1>2, <1>5, <2>1, <2>2, <2>3, <2>4 DEF GpScanHolds
<1> QED BY <1>1, <1>3, <1>6, <1>7, GpScanStep DEF GpTyped

\* gp4CudaRebase: a lane adds its base to its run.
LEMMA GpRebase ==
  ASSUME GpInv, NEW t \in Scan!ScanLanes, Rebase(t)
  PROVE  GpInv'
<1>1. /\ Runs("rebase", t)
      /\ quote_parity' = [i \in DOMAIN quote_parity |->
                            IF i \in Scan!Run(t, ScanCount)
                            THEN (quote_parity[i] + xor_bases[t]) % 2
                            ELSE quote_parity[i]]
      /\ UNCHANGED <<raw_structural, structural_out, escape_carry, escape_changes_quote,
                     recovery_items, recovery_count, xor_bases>>
  BY DEF Rebase, Scan!Rebase, Scan!Xor, bitmaps, escapes, recovery
<1>2. /\ GpInput /\ stage = "rebase" /\ ScanCount > 0 /\ t \in pending
      /\ UNCHANGED <<text, mapping, launch, stage>> /\ pending' = pending \ {t}
  BY <1>1, GpRuns
<1>3. GpTyped
  BY DEF GpInv, GpSchedule
<1>4. /\ RunLength \in Nat \ {0} /\ t \in Nat
      /\ \A i \in 0 .. ScanCount - 1 :
           i \in LaneOf(i) * RunLength .. LaneOf(i) * RunLength + RunLength - 1
  BY <1>2, GpLanes
<1>5. \A i \in 0 .. ScanCount - 1 : quote_parity[i] = ScannedValue(i)
  BY <1>2 DEF GpInv, GpScanHolds
<1>6. xor_bases[t] = OddCount(Parities, 0, t * RunLength - 1)
  BY <1>2 DEF GpInv, GpScanHolds
<1>7. ASSUME NEW i \in 0 .. ScanCount - 1, LaneOf(i) = t
      PROVE  (quote_parity[i] + xor_bases[t]) % 2 = OddCount(Parities, 0, i)
  <2>1. quote_parity[i] = OddCount(Parities, t * RunLength, i)
    BY <1>2, <1>5, <1>7 DEF ScannedValue
  <2>2. i \in t * RunLength .. t * RunLength + RunLength - 1
    BY <1>4, <1>7
  <2>3. (OddCount(Parities, t * RunLength, i) + OddCount(Parities, 0, t * RunLength - 1)) % 2
          = OddCount(Parities, 0, i)
    BY <1>4, <2>2, RunRebased
  <2> QED BY <1>6, <2>1, <2>3
<1>8. \A i \in 0 .. ScanCount - 1 :
        quote_parity'[i] = IF LaneOf(i) = t THEN OddCount(Parities, 0, i) ELSE quote_parity[i]
  BY <1>1, <1>3, <1>7, GpRunOf DEF GpTyped
<1>9. quote_parity' \in [0 .. ScanCount - 1 -> {0, 1}]
  <2>1. \A i \in 0 .. ScanCount - 1 : OddCount(Parities, 0, i) \in {0, 1}
    <3> SUFFICES ASSUME NEW i \in 0 .. ScanCount - 1 PROVE OddCount(Parities, 0, i) \in {0, 1}
      OBVIOUS
    <3>1. i \in Int
      OBVIOUS
    <3> QED BY <3>1, OddCountFacts
  <2>2. quote_parity' = [i \in 0 .. ScanCount - 1 |-> quote_parity'[i]]
    BY <1>1, <1>3 DEF GpTyped
  <2>3. \A i \in 0 .. ScanCount - 1 : quote_parity[i] \in {0, 1}
    BY <1>3 DEF GpTyped
  <2> QED BY <1>8, <2>1, <2>2, <2>3
<1>10. GpScanHolds'
  <2>1. /\ ScanCount' = ScanCount /\ Parities' = Parities /\ RunLength' = RunLength
        /\ \A i : LaneOf(i)' = LaneOf(i)
    BY <1>2, GpSame
  <2>2. ASSUME NEW i \in 0 .. ScanCount - 1 PROVE quote_parity'[i] = ScannedValue(i)'
    <3>1. CASE LaneOf(i) = t
      <4>1. ScannedValue(i)' = OddCount(Parities, 0, i)
        BY <1>2, <2>1, <3>1 DEF ScannedValue, OddCount
      <4> QED BY <1>8, <3>1, <4>1
    <3>2. CASE LaneOf(i) # t
      <4>1. ScannedValue(i)' = ScannedValue(i)
        BY <1>2, <2>1, <3>2 DEF ScannedValue, OddCount
      <4> QED BY <1>5, <1>8, <3>2, <4>1
    <3> QED BY <3>1, <3>2
  <2>3. Scan!ScanLanes' = Scan!ScanLanes
    BY DEF Scan!ScanLanes
  <2>4. \A l : OddCount(Parities, 0, l * RunLength - 1)' = OddCount(Parities, 0, l * RunLength - 1)
    BY <2>1 DEF OddCount
  <2>5. \A l \in Scan!ScanLanes : xor_bases[l] = OddCount(Parities, 0, l * RunLength - 1)
    BY <1>2 DEF GpInv, GpScanHolds
  <2> QED BY <1>1, <1>2, <2>1, <2>2, <2>3, <2>4, <2>5 DEF GpScanHolds
<1> QED BY <1>1, <1>3, <1>9, <1>10, GpScanStep DEF GpTyped

-----------------------------------------------------------------------------
(***************************************************************************)
(* The final correction.                                                   *)
(***************************************************************************)
\* The part of the output that lies in the words of an item, from what is known of it.
LEMMA GpItemOutput ==
  ASSUME GpInput, NEW i \in Nat
  PROVE  LookbackStructural(text, ItemBytes) \cap WordBits(i)
           = OutsideStrings(OperatorsIn(ItemStart(i), ItemEnd(i)), FoundOf(i), OddCount(Parities, 0, i - 1))
<1>1. IsText(text) /\ ItemBytes \in Nat \ {0}
  BY GpItems
<1> DEFINE B == ItemBytes
           output == LookbackStructural(text, B)
<1>2. OutsideStrings(OperatorsIn(ItemStart(i), ItemEnd(i)), FoundOf(i), OddCount(Parities, 0, i - 1))
        = {p \in output : i * B <= p /\ p < (i + 1) * B}
  <2> HIDE DEF ItemBytes
  <2> QED BY <1>1, SegmentStructural DEF OperatorsIn, ItemStart, ItemEnd, FoundOf, Parities
<1>3. \A p \in output : p \in TextBits /\ p \in Nat
  <2>1. output \in SUBSET DOMAIN text
    BY DEF LookbackStructural, OutsideStrings, Operators
  <2> QED BY <2>1, GpBits
<1>4. \A p \in Nat : i * B <= p /\ p < (i + 1) * B <=> p \div B = i
  BY <1>1, SegmentEnds
<1>5. \A p : p \in WordBits(i) <=> p \in TextBits /\ p \div B = i
  BY GpBits
<1> HIDE DEF output, B, WordBits, TextBits
<1>6. {p \in output : i * B <= p /\ p < (i + 1) * B} = output \cap WordBits(i)
  BY <1>3, <1>4, <1>5
<1> QED BY <1>2, <1>6 DEF output, B

\* What a thread reads from the scanned parities of the items before its own.
LEMMA GpPrefixRead ==
  ASSUME GpInv, stage = "apply", NEW i \in Items
  PROVE  StringPrefix(i) = OddCount(Parities, 0, i - 1) /\ StringPrefix(i) \in {0, 1}
<1>1. GpInput
  BY DEF GpInv, GpSchedule, GpTyped, GpInput
<1>2. PICK n \in Nat : Items = 0 .. n - 1 /\ n <= ScanCount
  BY <1>1, GpEntries
<1>3. ScanCount \in Nat /\ i \in Nat
  BY <1>1, <1>2, GpEntries
<1>4. StringPrefix(i) = OddCount(Parities, 0, i - 1)
  <2>1. CASE i = 0
    <3>1. i - 1 \in Int /\ i - 1 < 0
      BY <2>1
    <3>2. OddCount(Parities, 0, i - 1) = 0
      BY <3>1, OddCountFacts
    <3> QED BY <2>1, <3>2 DEF StringPrefix
  <2>2. CASE i # 0
    <3> HIDE DEF ScanCount, Items
    <3>1. i - 1 \in 0 .. ScanCount - 1
      BY <1>2, <1>3, <2>2
    <3>2. quote_parity[i - 1] = ScannedValue(i - 1)
      BY <3>1 DEF GpInv, GpScanHolds
    <3>3. ScannedValue(i - 1) = OddCount(Parities, 0, i - 1)
      BY DEF ScannedValue
    <3> QED BY <2>2, <3>2, <3>3 DEF StringPrefix
  <2> QED BY <2>1, <2>2
<1>5. OddCount(Parities, 0, i - 1) \in {0, 1}
  <2>1. i - 1 \in Int
    BY <1>3
  <2> QED BY <2>1, OddCountFacts
<1> QED BY <1>4, <1>5

LEMMA GpApply ==
  ASSUME GpInv, NEW i \in Items, ApplyString(i)
  PROVE  GpInv'
<1>1. /\ Runs("apply", i)
      /\ structural_out' =
           IF ItemStart(i) < Size(text) /\ StringPrefix(i) # 1
           THEN SymDiff(structural_out, raw_structural \cap WordBits(i))
           ELSE structural_out
      /\ UNCHANGED <<raw_structural, escape_carry, escape_changes_quote, quote_parity, recovery_items,
                     recovery_count, xor_bases>>
  BY DEF ApplyString, PredictedString, WordBits, escapes, recovery, scan
<1>2. /\ GpInput /\ stage = "apply" /\ i \in pending /\ i \in Nat /\ recovery_count \in Nat
      /\ UNCHANGED <<text, mapping, launch, stage>> /\ pending' = pending \ {i}
  BY <1>1, GpRuns
<1>3. /\ GpTyped /\ Summarised = Items /\ Summarised' = Items'
  BY <1>2 DEF GpInv, GpSchedule, Summarised
<1>4. /\ Items' = Items /\ Active' = Active /\ ScanCount' = ScanCount /\ TextBits' = TextBits
      /\ Parities' = Parities /\ RunLength' = RunLength /\ Scan!ScanLanes' = Scan!ScanLanes
      /\ ItemBytes' = ItemBytes
      /\ \A j : /\ WordBits(j)' = WordBits(j) /\ FoundOf(j)' = FoundOf(j) /\ LaneOf(j)' = LaneOf(j)
                /\ ItemStart(j)' = ItemStart(j) /\ ItemEnd(j)' = ItemEnd(j)
                /\ OperatorsIn(ItemStart(j), ItemEnd(j))' = OperatorsIn(ItemStart(j), ItemEnd(j))
      /\ \A j, e : QuotesOf(j, e)' = QuotesOf(j, e)
  BY <1>2, GpSame DEF Scan!ScanLanes
<1>5. raw_structural \cap WordBits(i) = OperatorsIn(ItemStart(i), ItemEnd(i))
  BY <1>3 DEF GpInv, SummariesHold
<1>6. structural_out \cap WordBits(i)
        = OutsideStrings(OperatorsIn(ItemStart(i), ItemEnd(i)), FoundOf(i), 1)
  <2>1. structural_out \cap WordBits(i)
          = OutsideStrings(OperatorsIn(ItemStart(i), ItemEnd(i)), CountedQuotes(i), 1)
    BY <1>2, <1>3 DEF GpInv, BitmapsHold
  <2>2. CountedQuotes(i) = FoundOf(i)
    BY <1>2 DEF CountedQuotes, Unrecovered
  <2> QED BY <2>1, <2>2
<1>7. StringPrefix(i) = OddCount(Parities, 0, i - 1) /\ StringPrefix(i) \in {0, 1}
  BY <1>2, GpPrefixRead
<1> DEFINE output == LookbackStructural(text, ItemBytes)
           ops == OperatorsIn(ItemStart(i), ItemEnd(i))
<1>8. /\ output \cap WordBits(i) = OutsideStrings(ops, FoundOf(i), OddCount(Parities, 0, i - 1))
      /\ OutsideStrings(ops, FoundOf(i), 0) = SymDiff(OutsideStrings(ops, FoundOf(i), 1), ops)
      /\ ops \in SUBSET WordBits(i)
      /\ ItemStart(i) >= Size(text) => WordBits(i) = {}
  <2>1. output \cap WordBits(i) = OutsideStrings(ops, FoundOf(i), OddCount(Parities, 0, i - 1))
    BY <1>2, GpItemOutput
  <2>2. IsFiniteSet(FoundOf(i)) /\ ops \in SUBSET WordBits(i)
    BY <1>2, GpItemFacts
  <2>3. ItemStart(i) >= Size(text) => WordBits(i) = {}
    <3>1. /\ \A j \in Nat : j < Active <=> j * ItemBytes < Size(text)
          /\ Size(text) \in Nat /\ ItemBytes \in Nat /\ Active \in Nat
      BY <1>2, GpItems
    <3>2. i \notin 0 .. Active - 1 => WordBits(i) = {}
      BY <1>2, GpBits
    <3>3. ItemStart(i) = i * ItemBytes
      BY DEF ItemStart
    <3> HIDE DEF WordBits, Active, ItemBytes, Size
    <3>4. i * ItemBytes \in Nat
      BY <1>2, <3>1
    <3> QED BY <1>2, <3>1, <3>2, <3>3, <3>4
  <2> QED BY <2>1, <2>2, <2>3, OutsideFacts
<1> HIDE DEF output, ops
<1>9. /\ structural_out' \in SUBSET TextBits
      /\ structural_out' \cap WordBits(i) = output \cap WordBits(i)
      /\ \A j \in Nat : j # i => structural_out' \cap WordBits(j) = structural_out \cap WordBits(j)
  <2>1. structural_out \in SUBSET TextBits
    BY <1>3 DEF GpTyped
  <2>2. /\ \A j \in Nat : j # i => WordBits(j) \cap WordBits(i) = {}
        /\ WordBits(i) \in SUBSET TextBits
    <3>1. \A j \in Nat : \A p : p \in WordBits(j) <=> p \in TextBits /\ p \div ItemBytes = j
      BY <1>2, GpBits
    <3> HIDE DEF WordBits, TextBits, ItemBytes
    <3> QED BY <1>2, <3>1
  <2>3. CASE ItemStart(i) < Size(text) /\ StringPrefix(i) # 1
    <3>1. structural_out' = SymDiff(structural_out, ops)
      BY <1>1, <1>5, <2>3 DEF ops
    <3>2. output \cap WordBits(i) = SymDiff(structural_out \cap WordBits(i), ops)
      BY <1>6, <1>7, <1>8, <2>3 DEF ops
    <3> HIDE DEF WordBits, TextBits
    <3> QED BY <1>8, <2>1, <2>2, <3>1, <3>2 DEF SymDiff
  <2>4. CASE ItemStart(i) < Size(text) /\ StringPrefix(i) = 1
    <3>1. structural_out' = structural_out
      BY <1>1, <2>4
    <3>2. output \cap WordBits(i) = structural_out \cap WordBits(i)
      BY <1>6, <1>7, <1>8, <2>4 DEF ops
    <3> QED BY <2>1, <3>1, <3>2
  <2>5. CASE ~(ItemStart(i) < Size(text))
    <3>1. structural_out' = structural_out
      BY <1>1, <2>5
    <3>2. WordBits(i) = {}
      <4>1. ItemStart(i) \in Int /\ Size(text) \in Int
        BY <1>2, GpItems DEF ItemStart
      <4> HIDE DEF WordBits, ItemStart, Size
      <4> QED BY <1>8, <2>5, <4>1
    <3> HIDE DEF WordBits
    <3> QED BY <2>1, <3>1, <3>2
  <2> QED BY <1>7, <2>3, <2>4, <2>5
<1>10. GpTyped'
  BY <1>1, <1>2, <1>3, <1>4, <1>9 DEF GpTyped
<1>11. GpSchedule'
  BY <1>1, <1>10, GpScheduleGoesOn
<1>12. SummariesHold'
  BY <1>1, <1>2, <1>3, <1>4 DEF GpInv, SummariesHold
<1>13. BitmapsHold'
  <2> SUFFICES ASSUME NEW j \in Items
               PROVE  structural_out' \cap WordBits(j)
                        = IF j \notin pending' THEN output \cap WordBits(j)
                          ELSE OutsideStrings(OperatorsIn(ItemStart(j), ItemEnd(j)), FoundOf(j), 1)
    <3>1. \A j : CountedQuotes(j)' = FoundOf(j)
      BY <1>2, <1>4 DEF CountedQuotes, Unrecovered
    <3>2. LookbackStructural(text, ItemBytes)' = output
      BY <1>2, <1>4 DEF output
    <3> QED BY <1>2, <1>3, <1>4, <3>1, <3>2 DEF BitmapsHold, OutsideStrings
  <2>1. j \in Nat
    BY <1>2, GpUnits
  <2>2. CASE j = i
    BY <1>2, <1>9, <2>2
  <2>3. CASE j # i
    <3>1. structural_out \cap WordBits(j)
            = IF j \notin pending THEN output \cap WordBits(j)
              ELSE OutsideStrings(OperatorsIn(ItemStart(j), ItemEnd(j)), CountedQuotes(j), 1)
      BY <1>2, <1>3 DEF GpInv, BitmapsHold, output
    <3>2. CountedQuotes(j) = FoundOf(j)
      BY <1>2 DEF CountedQuotes, Unrecovered
    <3>3. structural_out' \cap WordBits(j) = structural_out \cap WordBits(j)
      BY <1>9, <2>1, <2>3
    <3> QED BY <1>2, <2>3, <3>1, <3>2, <3>3
  <2> QED BY <2>2, <2>3
<1>14. GpScanHolds'
  <2>1. ASSUME NEW j \in 0 .. ScanCount - 1 PROVE quote_parity'[j] = ScannedValue(j)'
    <3>1. quote_parity[j] = ScannedValue(j)
      BY <1>2 DEF GpInv, GpScanHolds
    <3>2. ScannedValue(j)' = ScannedValue(j)
      BY <1>2, <1>4 DEF ScannedValue, OddCount
    <3> QED BY <1>1, <3>1, <3>2
  <2> QED BY <1>2, <1>4, <2>1 DEF GpScanHolds
<1>15. GpQueued' /\ ParitiesHold' /\ OutputIsLookback'
  BY <1>2 DEF GpQueued, ParitiesHold, OutputIsLookback, LaunchComplete
<1> QED BY <1>11, <1>12, <1>13, <1>14, <1>15 DEF GpInv

-----------------------------------------------------------------------------
LEMMA PassStutters ==
  ASSUME PassInv,
         UNCHANGED <<text, mapping, launch, stage, pending, bitmaps, escapes, recovery, scan>>
  PROVE  PassInv'
<1>1. /\ GpTyped
      /\ UNCHANGED <<text, mapping, launch, stage, pending, raw_structural, structural_out, escape_carry,
                     escape_changes_quote, quote_parity, recovery_items, recovery_count, xor_bases>>
  BY DEF PassInv, GpSchedule, bitmaps, escapes, recovery, scan
<1>2. /\ Items' = Items /\ Active' = Active /\ ScanCount' = ScanCount /\ TextBits' = TextBits
      /\ PaddingCleared' = PaddingCleared /\ ByWarp' = ByWarp /\ Scan!ScanLanes' = Scan!ScanLanes
      /\ ItemBytes' = ItemBytes /\ Warps' = Warps
      /\ \A j : /\ WordBits(j)' = WordBits(j) /\ FoundOf(j)' = FoundOf(j) /\ UnitOf(j)' = UnitOf(j)
                /\ ItemStart(j)' = ItemStart(j) /\ ItemEnd(j)' = ItemEnd(j)
                /\ OperatorsIn(ItemStart(j), ItemEnd(j))' = OperatorsIn(ItemStart(j), ItemEnd(j))
      /\ \A j, e : QuotesOf(j, e)' = QuotesOf(j, e)
  BY <1>1, GpSame DEF Scan!ScanLanes
<1>3. Summarised' = Summarised
  BY <1>1, <1>2 DEF Summarised
<1>4. \A j : (Unrecovered(j)' <=> Unrecovered(j)) /\ CountedQuotes(j)' = CountedQuotes(j)
  BY <1>1, <1>2 DEF CountedQuotes, Unrecovered
<1>5. GpSchedule'
  <2>1. GpTyped'
    BY <1>1, <1>2 DEF GpTyped
  <2>2. \A name : Units(name)' = Units(name)
    BY <1>1, <1>2 DEF Units
  <2> QED BY <1>1, <1>2, <2>1, <2>2 DEF PassInv, GpSchedule
<1>6. SummariesHold'
  BY <1>1, <1>2, <1>3 DEF PassInv, SummariesHold
<1>7. BitmapsHold'
  <2> SUFFICES ASSUME NEW j \in Summarised
               PROVE  (structural_out \cap WordBits(j)
                         = IF stage = "apply" /\ j \notin pending
                           THEN LookbackStructural(text, ItemBytes) \cap WordBits(j)
                           ELSE OutsideStrings(OperatorsIn(ItemStart(j), ItemEnd(j)),
                                               CountedQuotes(j), 1))'
    BY <1>3 DEF BitmapsHold
  <2>1. OutsideStrings(OperatorsIn(ItemStart(j), ItemEnd(j)), CountedQuotes(j), 1)'
          = OutsideStrings(OperatorsIn(ItemStart(j), ItemEnd(j)), CountedQuotes(j), 1)
    BY <1>2, <1>4 DEF OutsideStrings
  <2> QED BY <1>1, <1>2, <2>1 DEF PassInv, BitmapsHold
<1>8. ParitiesHold'
  BY <1>1, <1>2, <1>3, <1>4 DEF PassInv, ParitiesHold, ParityOf
<1> QED BY <1>5, <1>6, <1>7, <1>8 DEF PassInv

LEMMA GpStutters ==
  ASSUME GpInv,
         UNCHANGED <<text, mapping, launch, stage, pending, bitmaps, escapes, recovery, scan>>
  PROVE  GpInv'
<1>1. UNCHANGED <<text, mapping, launch, stage, pending, raw_structural, structural_out,
                  quote_parity, recovery_items, recovery_count, xor_bases>>
  BY DEF bitmaps, escapes, recovery, scan
<1>2. /\ Active' = Active /\ ScanCount' = ScanCount /\ ItemBytes' = ItemBytes
      /\ Parities' = Parities /\ RunLength' = RunLength /\ Scan!ScanLanes' = Scan!ScanLanes
      /\ \A j : LaneOf(j)' = LaneOf(j) /\ Mistaken(j)' = Mistaken(j)
  BY <1>1, GpSame DEF Scan!ScanLanes
<1>3. PassInv'
  BY PassStutters DEF GpInv, PassInv
<1>4. GpQueued'
  BY <1>1, <1>2 DEF GpInv, GpQueued, Enumerates
<1>5. GpScanHolds'
  <2>1. \A j : ScannedValue(j)' = ScannedValue(j)
    BY <1>1, <1>2 DEF ScannedValue, OddCount
  <2>2. \A l : OddCount(Parities, 0, l * RunLength - 1)' = OddCount(Parities, 0, l * RunLength - 1)
    BY <1>2 DEF OddCount
  <2> QED BY <1>1, <1>2, <2>1, <2>2 DEF GpInv, GpScanHolds
<1>6. OutputIsLookback'
  BY <1>1, <1>2 DEF GpInv, OutputIsLookback, LaunchComplete
<1> QED BY <1>3, <1>4, <1>5, <1>6 DEF GpInv, PassInv

-----------------------------------------------------------------------------
\* A whole segment of backslashes before another segment, which the lookback does not see
\* across.
HidingSegment(t, B) ==
  \E s \in Nat \ {0} : (s + 1) * B < Size(t) /\ AllSlashes(t, s * B, (s + 1) * B)

LEMMA HidingIsSlash ==
  ASSUME NEW t, IsText(t), NEW B \in Nat \ {0}, HidingSegment(t, B)
  PROVE  SlashSegment(t, B)
<1>1. PICK s \in Nat \ {0} : (s + 1) * B < Size(t) /\ AllSlashes(t, s * B, (s + 1) * B)
  BY DEF HidingSegment
<1>2. Size(t) \in Nat
  BY TextDomain
<1>3. s * B \in Nat /\ (s + 1) * B \in Nat /\ s * B <= (s + 1) * B
  BY SegmentEnds
<1>4. s * B < Size(t)
  BY <1>1, <1>2, <1>3
<1>5. s < CeilDiv(Size(t), B) /\ CeilDiv(Size(t), B) \in Nat
  BY <1>2, <1>4, CeilDivFacts
<1>6. s \in 1 .. CeilDiv(Size(t), B) - 1
  BY <1>5
<1> QED BY <1>1, <1>6 DEF SlashSegment

-----------------------------------------------------------------------------
(***************************************************************************)
(* What the lookback costs: without a whole segment of backslashes every   *)
(* run begins no earlier than one segment back.                            *)
(***************************************************************************)
LEMMA LookbackQuoteExact ==
  ASSUME NEW t, IsText(t), NEW B \in Nat \ {0}, ~HidingSegment(t, B), NEW p \in DOMAIN t
  PROVE  LookbackEscape(t, B, p) = 0 <=> ~EscapedAt(t, p)
<1> DEFINE i == p \div B
           start == i * B
           from == IF start = 0 THEN 0 ELSE start - B
<1>1. p \in Nat /\ p < Size(t) /\ Size(t) \in Nat
  BY TextDomain, RangeFacts
<1>2. i \in Nat /\ start \in Nat /\ start <= p /\ (start # 0 => i # 0)
  <2> DEFINE r == p % B
  <2>0. i \in Nat /\ r \in 0 .. B - 1 /\ p = i * B + r
    BY <1>1, Quotient
  <2> HIDE DEF r, i
  <2>1. i \in Nat /\ r \in Nat /\ p = i * B + r
    BY <2>0
  <2>2. i * B \in Nat /\ (i = 0 => i * B = 0)
    BY <2>1
  <2> QED BY <1>1, <2>1, <2>2
<1>3. start # 0 => /\ from = (i - 1) * B /\ i - 1 \in Nat /\ from \in Nat
                   /\ from <= start /\ ((i - 1) + 1) * B = start
  <2> HIDE DEF i
  <2> SUFFICES ASSUME start # 0 PROVE from = (i - 1) * B /\ i - 1 \in Nat /\ from \in Nat
                                      /\ from <= start /\ ((i - 1) + 1) * B = start
    OBVIOUS
  <2>1. (i - 1) * B \in Nat /\ (i - 1) * B <= i * B /\ (i - 1) * B = i * B - B
    BY <1>2, SegmentEnds
  <2>2. (i - 1) + 1 = i /\ i - 1 \in Nat
    BY <1>2
  <2> QED BY <2>1, <2>2
<1>4. from \in Nat /\ from <= p
  BY <1>1, <1>2, <1>3
<1>5. LookbackEscape(t, B, p) = EscapeOnArrival(t, from, 0, p)
  BY DEF LookbackEscape
<1> HIDE DEF from, start, i
<1>6. PICK k : LoopRun(t, from, p, k)
  BY <1>1, <1>4, LoopRunExists
<1>7. /\ k \in 0 .. p - from
      /\ \A q \in (p - k) .. (p - 1) : t[q] = "slash"
      /\ k < p - from => t[p - k - 1] # "slash"
  BY <1>6 DEF LoopRun
<1>8. EscapeOnArrival(t, from, 0, p) = k % 2
  <2>1. EscapeOnArrival(t, from, 0, p) = (IF k = p - from THEN k + 0 ELSE k) % 2
    BY <1>1, <1>4, <1>6, LoopRunIsTheRun
  <2>2. k + 0 = k
    BY <1>7
  <2> QED BY <2>1, <2>2
<1>9. CASE k < p - from \/ from = 0
  <2>1. MaximalSlashRun(t, p, k)
    BY <1>1, <1>4, <1>7, <1>9 DEF MaximalSlashRun
  <2>2. EscapedAt(t, p) <=> k % 2 = 1
    BY <1>1, <2>1, EscapedByRun
  <2>3. k % 2 \in {0, 1}
    BY <1>4, <1>7
  <2> QED BY <1>5, <1>8, <2>2, <2>3
<1>10. CASE k = p - from /\ from # 0
  <2> DEFINE s == i - 1
  <2>1. start # 0
    BY <1>10 DEF from
  <2>2. from = s * B /\ (s + 1) * B = start /\ s \in Nat /\ from <= start
    BY <1>3, <2>1
  <2> HIDE DEF s
  <2>3. s >= 1
    BY <1>10, <2>2
  <2>4. AllSlashes(t, s * B, (s + 1) * B)
    <3> SUFFICES ASSUME NEW q \in ByteRange(t, from, start) PROVE t[q] = "slash"
      BY <2>2 DEF AllSlashes
    <3>1. q \in Nat /\ from <= q /\ q < start
      BY <1>2, <1>4, RangeFacts
    <3>2. p - k = from /\ q \in (p - k) .. (p - 1)
      BY <1>1, <1>2, <1>4, <1>10, <3>1
    <3> QED BY <1>7, <3>2
  <2>5. s \in Nat \ {0} /\ (s + 1) * B < Size(t)
    BY <1>1, <1>2, <2>2, <2>3
  <2> QED BY <2>4, <2>5 DEF HidingSegment
<1> QED BY <1>7, <1>9, <1>10, <1>4, <1>1

LEMMA LookbackExact ==
  ASSUME NEW t, IsText(t), NEW B \in Nat \ {0}, ~HidingSegment(t, B)
  PROVE  LookbackStructural(t, B) = Structural(t)
<1>1. LookbackQuotes(t, B) = RealQuotes(t)
  BY LookbackQuoteExact DEF LookbackQuotes, RealQuotes
<1> QED BY <1>1, OutsideIsStructural DEF LookbackStructural

-----------------------------------------------------------------------------
(***************************************************************************)
(* The theorems, for a module that runs this benchmark among others: what  *)
(* a step preserves and what the invariant says; and for this one.         *)
(***************************************************************************)
LEMMA GpSteps ==
  ASSUME GpInv, Next
  PROVE  GpInv'
<1>1. CASE Launch
  BY <1>1, GpLaunches
<1>2. CASE NextKernel
  BY <1>2, GpNextKernel
<1>3. ASSUME NEW i \in Items, First(i) PROVE GpInv'
  BY <1>3, GpFirst
<1>4. ASSUME NEW i \in Items, ApplyString(i) PROVE GpInv'
  BY <1>4, GpApply
<1>5. ASSUME NEW n \in Warps, FirstByWarp(n) PROVE GpInv'
  BY <1>5, GpFirstByWarp
<1>6. ASSUME NEW n \in Warps, Collect(n) PROVE GpInv'
  BY <1>6, GpCollect
<1>7. ASSUME NEW position \in pending, Recover(position) PROVE GpInv'
  BY <1>7, GpRecover
<1>8. ASSUME NEW t \in Scan!ScanLanes, PreScan(t) PROVE GpInv'
  BY <1>8, GpPreScan
<1>9. ASSUME NEW t \in Scan!ScanLanes, Rebase(t) PROVE GpInv'
  BY <1>9, GpRebase
<1>10. CASE PostScan
  BY <1>10, GpPostScan
<1> QED BY <1>1, <1>2, <1>3, <1>4, <1>5, <1>6, <1>7, <1>8, <1>9, <1>10 DEF Next

\* gpJSON's validation reads summaries of one and the same prediction, whichever kernel has
\* written them, and what the warps append concurrently is every item whose prediction
\* missed a quote, each once, and nothing of an earlier launch.
LEMMA GpQueueExact ==
  ASSUME GpInv
  PROVE  FirstPassSummaries /\ QueueExact
<1>1. GpInput
  BY DEF GpInv, GpSchedule, GpTyped, GpInput
<1>2. PICK n \in Nat : Items = 0 .. n - 1 /\ Active <= n
  BY <1>1, GpEntries
<1>3. Active \in Nat /\ 0 .. Active - 1 \subseteq Items
  <2>1. Active \in Nat
    BY <1>1, GpItems
  <2> HIDE DEF Active, Items
  <2> QED BY <1>2, <2>1
<1>4. stage \in {"collect", "recover"} => Summarised = Items
  BY DEF Summarised
<1>5. FirstPassSummaries
  BY <1>3, <1>4 DEF GpInv, SummariesHold, FirstPassSummaries, QuotesOf
<1>6. ASSUME stage = "recover" PROVE QueueExact
  <2> DEFINE misses == {i \in 0 .. Active - 1 : NeedsRecovery(i)}
  <2>1. misses = {i \in 0 .. Active - 1 : Mistaken(i)}
    BY <1>4, <1>6, GpNeedsRecovery
  <2>2. Enumerates(recovery_items, recovery_count, misses)
    BY <1>6, <2>1 DEF GpInv, GpQueued
  <2>3. misses \subseteq 0 .. Active - 1
    OBVIOUS
  <2> HIDE DEF misses, Active
  <2>4. recovery_count <= Active
    <3>1. IsFiniteSet(0 .. Active - 1) /\ Cardinality(0 .. Active - 1) = Active
      BY <1>3, FS_Interval
    <3>2. Cardinality(misses) <= Cardinality(0 .. Active - 1)
      BY <2>3, <3>1, FS_Subset
    <3> QED BY <2>2, <3>1, <3>2 DEF Enumerates
  <2>5. {recovery_items[k] : k \in 0 .. recovery_count - 1} = misses
    BY <2>2 DEF Enumerates
  <2> QED BY <2>2, <2>4, <2>5 DEF QueueExact, Enumerates, misses
<1> QED BY <1>5, <1>6 DEF QueueExact

\* The string state that an item is told is the one that enters it.
LEMMA GpPrefixes ==
  ASSUME GpInv
  PROVE  PrefixIsIncomingString
<1> SUFFICES ASSUME stage = "apply", NEW i \in 0 .. Active - 1
             PROVE  StringPrefix(i) = ParityOf({q \in LookbackQuotes(text, ItemBytes) : q < ItemStart(i)})
  BY DEF PrefixIsIncomingString
<1>1. GpInput
  BY DEF GpInv, GpSchedule, GpTyped, GpInput
<1>2. i \in Items /\ i \in Nat
  <2>1. PICK n \in Nat : Items = 0 .. n - 1 /\ Active <= n
    BY <1>1, GpEntries
  <2>2. Active \in Nat
    BY <1>1, GpItems
  <2> HIDE DEF Active, Items
  <2> QED BY <2>1, <2>2
<1>3. StringPrefix(i) = OddCount(Parities, 0, i - 1)
  BY <1>2, GpPrefixRead
<1>4. IsText(text) /\ ItemBytes \in Nat \ {0}
  BY <1>1, GpItems
<1> HIDE DEF ItemBytes
<1>5. OddCount(Parities, 0, i - 1) = ParityOf({q \in LookbackQuotes(text, ItemBytes) : q < i * ItemBytes})
  BY <1>2, <1>4, ParityBeforeSegment DEF Parities, ParityOf
<1> QED BY <1>3, <1>5 DEF ItemStart

LEMMA GpTypes ==
  ASSUME GpSchedule
  PROVE  TypeOK
<1>0. GpTyped /\ GpInput /\ pending \in SUBSET Nat
  BY DEF GpSchedule, GpTyped, GpInput
<1>1. TextBits \in SUBSET Nat /\ \A i \in 0 .. Active - 1 : i \in Items \cup {0}
  <2>1. PICK n \in Nat : Items = 0 .. n - 1 /\ Active <= n
    BY <1>0, GpEntries
  <2>2. Active \in Nat /\ WordCount(text) * WordBytes \in Nat
    BY <1>0, GpItems
  <2> HIDE DEF Active, Items, WordCount
  <2> QED BY <2>1, <2>2 DEF TextBits
<1>2. recovery_items \in [0 .. Active - 1 -> Items \cup {0}]
  <2> HIDE DEF Active, Items
  <2> QED BY <1>0, <1>1 DEF GpTyped
<1>3. stage \in Stages
  BY <1>0 DEF GpTyped, Stages, Following
<1>4. /\ escape_carry \in [DOMAIN quote_parity -> {0, 1}]
      /\ escape_changes_quote \in [DOMAIN quote_parity -> {0, 1}]
      /\ quote_parity \in [DOMAIN quote_parity -> {0, 1}]
  <2> HIDE DEF ScanCount
  <2> QED BY <1>0 DEF GpTyped
<1> QED BY <1>0, <1>1, <1>2, <1>3, <1>4 DEF GpTyped, TypeOK

LEMMA GpOutput ==
  ASSUME GpInv
  PROVE  TypeOK /\ OutputIsLookback /\ CorrectWithoutSlashSegments
<1>1. GpTyped /\ GpInput /\ pending \in SUBSET Nat
  BY DEF GpInv, GpSchedule, GpTyped, GpInput
<1>2. TypeOK
  BY GpTypes DEF GpInv
<1>3. OutputIsLookback
  BY DEF GpInv
<1>4. CorrectWithoutSlashSegments
  BY <1>1, <1>3, GpItems, LookbackExact, HidingIsSlash DEF OutputIsLookback, CorrectWithoutSlashSegments
<1> QED BY <1>2, <1>3, <1>4

\* The inductive invariant holds from the start, through every kernel of every launch and
\* between them, for the three mappings.
THEOREM GpInvariant == Spec => []GpInv
<1>1. GpInv /\ [Next]_vars => GpInv'
  BY GpSteps, GpStutters DEF vars, problem, schedule
<1> QED BY <1>1, GpStarts, PTL DEF Spec

\* So every buffer has its type, garbage of cudaMalloc included; the queue is exact when
\* it is worked off; every item is told the string state that enters it; and after every
\* launch the bitmap is the one of a lookback of one segment, which is the specified one
\* for every input without a whole segment of backslashes.
THEOREM GpHierarchyIsRight ==
  Spec => [](/\ TypeOK
             /\ FirstPassSummaries /\ QueueExact /\ PrefixIsIncomingString
             /\ OutputIsLookback /\ CorrectWithoutSlashSegments)
<1>1. GpInv => /\ TypeOK
               /\ FirstPassSummaries /\ QueueExact /\ PrefixIsIncomingString
               /\ OutputIsLookback /\ CorrectWithoutSlashSegments
  BY GpQueueExact, GpPrefixes, GpOutput
<1> QED BY <1>1, GpInvariant, PTL

-----------------------------------------------------------------------------
(***************************************************************************)
(* The instance brings its own copy of the specified bitmaps and of the    *)
(* operators on words.                                                     *)
(***************************************************************************)
LEMMA CuCardinality == \A S : Cu!Cardinality(S) = Cardinality(S)
BY DEF Cu!Cardinality, Cardinality

LEMMA CuSpecified ==
  /\ \A t : Cu!IsText(t) <=> IsText(t)
  /\ \A t : Cu!RealQuotes(t) = RealQuotes(t)
  /\ \A t, p : Cu!IncomingString(t, p) <=> IncomingString(t, p)
  /\ \A t, w : Cu!StructuralWord(t, w) = StructuralWord(t, w)
  /\ \A t, w : Cu!OpenCloseResult(t, w) = OpenCloseResult(t, w)
<1>1. \A t : Cu!IsText(t) <=> IsText(t)
  BY CuCardinality DEF Cu!IsText, IsText, Cu!Size, Size, Cu!ByteClass, ByteClass
<1>2. \A t, p, k : Cu!MaximalSlashRun(t, p, k) <=> MaximalSlashRun(t, p, k)
  BY DEF Cu!MaximalSlashRun, MaximalSlashRun
<1>3. \A t, p : Cu!EscapedAt(t, p) <=> EscapedAt(t, p)
  BY <1>2 DEF Cu!EscapedAt, EscapedAt
<1>4. \A t : Cu!RealQuotes(t) = RealQuotes(t)
  BY <1>3 DEF Cu!RealQuotes, RealQuotes
<1>5. \A t, p : Cu!IncomingString(t, p) <=> IncomingString(t, p)
  <2>1. \A t, p : Cu!QuotesBefore(t, p) = QuotesBefore(t, p)
    BY <1>4 DEF Cu!QuotesBefore, QuotesBefore
  <2> QED BY <2>1, CuCardinality DEF Cu!IncomingString, IncomingString
<1>6. \A t : Cu!InString(t) = InString(t)
  BY <1>5 DEF Cu!InString, InString
<1>7. \A t : Cu!Structural(t) = Structural(t) /\ Cu!OpenClose(t) = OpenClose(t)
  BY <1>6 DEF Cu!Structural, Structural, Cu!OpenClose, OpenClose, Cu!Operators, Operators,
              Cu!OpenCloses, OpenCloses, Cu!IsOperator, IsOperator, Cu!IsOpenClose, IsOpenClose
<1>8. \A t, w : Cu!StructuralWord(t, w) = StructuralWord(t, w)
                /\ Cu!OpenCloseResult(t, w) = OpenCloseResult(t, w)
  BY <1>7 DEF Cu!StructuralWord, StructuralWord, Cu!OpenCloseResult, OpenCloseResult,
              Cu!WordOf, WordOf, Cu!Bits, Bits
<1> QED BY <1>1, <1>4, <1>5, <1>8

LEMMA CuOperators ==
  /\ \A S : Cu!Cardinality(S) = Cardinality(S)
  /\ Cu!Bits = Bits
  /\ \A t : Cu!WordCount(t) = WordCount(t)
  /\ \A t, w : /\ Cu!SlashWord(t, w) = SlashWord(t, w)
               /\ Cu!QuoteWord(t, w) = QuoteWord(t, w)
               /\ Cu!OperatorWord(t, w) = OperatorWord(t, w)
               /\ Cu!OpenCloseWord(t, w) = OpenCloseWord(t, w)
  /\ \A word : /\ Cu!TrailingOnes(word) = TrailingOnes(word)
               /\ Cu!Parity(word) = Parity(word)
               /\ Cu!Invert(word) = Invert(word)
               /\ Cu!PrefixXor(word) = PrefixXor(word)
  /\ \A a, b : Cu!SymDiff(a, b) = SymDiff(a, b)
  /\ \A q, s : Cu!PossibleEscaped(q, s) = PossibleEscaped(q, s)
  /\ \A q, s, e : Cu!FilterEscapedQuotes(q, s, e) = FilterEscapedQuotes(q, s, e)
  /\ \A bitmap, w : Cu!WordOf(bitmap, w) = WordOf(bitmap, w)
<1>1. Cu!Bits = Bits
  BY DEF Cu!Bits, Bits
<1>2. \A t : Cu!WordCount(t) = WordCount(t)
  BY CuCardinality DEF Cu!WordCount, WordCount, Cu!Size, Size
<1>3. \A t, w, classes : Cu!BitsWhere(t, w, classes) = BitsWhere(t, w, classes)
  BY <1>1 DEF Cu!BitsWhere, BitsWhere
<1>4. \A t, w : /\ Cu!SlashWord(t, w) = SlashWord(t, w)
                /\ Cu!QuoteWord(t, w) = QuoteWord(t, w)
                /\ Cu!OperatorWord(t, w) = OperatorWord(t, w)
                /\ Cu!OpenCloseWord(t, w) = OpenCloseWord(t, w)
  BY <1>3 DEF Cu!SlashWord, SlashWord, Cu!QuoteWord, QuoteWord, Cu!OperatorWord, OperatorWord,
              Cu!OpenCloseWord, OpenCloseWord
<1>5. \A word : Cu!TrailingOnes(word) = TrailingOnes(word)
  BY <1>1 DEF Cu!TrailingOnes, TrailingOnes
<1>6. \A word : Cu!Parity(word) = Parity(word) /\ Cu!Invert(word) = Invert(word)
  BY <1>1, CuCardinality DEF Cu!Parity, Parity, Cu!Invert, Invert
<1>7. \A word : Cu!PrefixXor(word) = PrefixXor(word)
  BY <1>1, CuCardinality DEF Cu!PrefixXor, PrefixXor
<1>8. \A a, b : Cu!SymDiff(a, b) = SymDiff(a, b)
  BY DEF Cu!SymDiff, SymDiff
<1>9. \A q, s : Cu!PossibleEscaped(q, s) = PossibleEscaped(q, s)
  BY DEF Cu!PossibleEscaped, PossibleEscaped
<1>10. \A q, s, e : Cu!FilterEscapedQuotes(q, s, e) = FilterEscapedQuotes(q, s, e)
  <2>1. \A s, e : Cu!EscapedBits(s, e) = EscapedBits(s, e)
    BY <1>1 DEF Cu!EscapedBits, EscapedBits
  <2> QED BY <2>1 DEF Cu!FilterEscapedQuotes, FilterEscapedQuotes
<1>11. \A bitmap, w : Cu!WordOf(bitmap, w) = WordOf(bitmap, w)
  BY <1>1 DEF Cu!WordOf, WordOf
<1> QED BY <1>1, <1>2, <1>4, <1>5, <1>6, <1>7, <1>8, <1>9, <1>10, <1>11, CuCardinality

-----------------------------------------------------------------------------
(***************************************************************************)
(* The inductive invariant of the hierarchy.                               *)
(***************************************************************************)
InHierarchy == benchmark = "cu_hierarchy"

WarpOf(w) == w \div WarpSize

\* A kernel has only units of its own to run, and nothing runs between launches.
CuSchedule ==
  /\ Cu!TypeOK
  /\ stage = "idle" => pending = {}
  /\ stage # "idle" => launch > 0 /\ pending \subseteq Cu!Units(stage)

\* The words that the first kernel of this launch has tokenized.
Tokenized ==
  IF stage = "idle" THEN {}
  ELSE {w \in Cu!Words : stage = "speculate" => WarpOf(w) \notin pending}

ClassesHold ==
  \A w \in Tokenized :
    /\ operators[w] = OperatorWord(text, w)
    /\ raw_open_close[w] = OpenCloseWord(text, w)
    /\ trailing_slashes[w] = TrailingOnes(SlashWord(text, w))

Predicted(w) == Cu!QuotesGiven(w, 0)

Missed(w) == Cu!TrueQuotes(w) # Predicted(w)

\* The queue holds the words of S, each of them once.
QueueOf(S) ==
  /\ recovery_count = Cardinality(S)
  /\ \A j, k \in 0 .. recovery_count - 1 : j # k => recovery_words[j] # recovery_words[k]
  /\ {recovery_words[k] : k \in 0 .. recovery_count - 1} = S

Queued ==
  /\ stage = "speculate" => recovery_count = 0
  /\ stage = "lookback" => QueueOf({w \in Cu!Words : WarpOf(w) \notin pending /\ Missed(w)})
  /\ stage = "recover" => QueueOf({w \in Cu!Words : Missed(w)})

\* The quotes on which mask and bitmap of a word stand: as predicted until the word has
\* been recovered.
Awaited(w) ==
  \/ stage \in {"speculate", "lookback"}
  \/ stage = "recover" /\ \E k \in pending : recovery_words[k] = w

Quotes(w) == IF Awaited(w) THEN Predicted(w) ELSE Cu!TrueQuotes(w)

QuotesHold ==
  \A w \in Tokenized :
    /\ Cu!Lane(w) \in quote_parity_masks[WarpOf(w)] <=> Parity(Quotes(w)) = 1
    /\ stage # "validate" \/ w \in pending =>
         structural[w] = Cu!Outside(w, Quotes(w), OperatorWord(text, w))

ScanHolds ==
  stage = "validate" \/ (stage = "scan" /\ pending = {}) =>
    \A n \in Cu!Warps : quote_warp_prefix[n] = ParityBeforeWord(text, n * WarpSize)

\* The words whose results of this launch are written.
Validated == IF stage = "idle" /\ launch > 0 THEN Cu!Words
             ELSE IF stage = "validate" THEN Cu!Words \ pending ELSE {}

ResultsHold ==
  \A w \in Validated :
    /\ structural[w] = StructuralWord(text, w)
    /\ filtered_open_close[w] = OpenCloseResult(text, w)
    /\ structural_counts[w] = Cardinality(StructuralWord(text, w))
    /\ open_close_counts[w] = Cardinality(OpenCloseResult(text, w))

\* The error word counts the words checked so far; no launch clears it.
ErrorsHold ==
  /\ utf_error => Cu!Words \cap FlaggedWords(text) # {}
  /\ launch > 0 =>
       \A w \in Cu!Words \cap FlaggedWords(text) :
         utf_error \/ (stage = "speculate" /\ WarpOf(w) \in pending)

CuInv ==
  /\ CuSchedule /\ ClassesHold /\ Queued /\ QuotesHold /\ ScanHolds /\ ResultsHold
  /\ ErrorsHold

HierarchyInv == InHierarchy => CuInv

-----------------------------------------------------------------------------
(***************************************************************************)
(* The layout of an input.                                                 *)
(***************************************************************************)
LEMMA CuGeometry ==
  ASSUME text \in CuTexts
  PROVE  /\ IsText(text) /\ WordCount(text) \in Nat /\ WarpSize \in Nat \ {0}
         /\ Cu!PaddedWords \in Nat \ {0} /\ WordCount(text) < Cu!PaddedWords
         /\ \A w \in Cu!Words : /\ w \in Nat /\ WarpOf(w) \in Cu!Warps /\ w \in Cu!WarpWords(WarpOf(w))
                                /\ Cu!Lane(w) \in 0 .. WarpSize - 1
                                /\ w = WarpOf(w) * WarpSize + Cu!Lane(w)
         /\ \A n \in Cu!Warps : /\ n \in Nat /\ n < Cu!PaddedWords
                                /\ \A w \in Cu!WarpWords(n) : w \in Cu!Words /\ WarpOf(w) = n
         /\ \A n \in Cu!Warps, l \in 0 .. WarpSize - 1 :
              /\ n * WarpSize + l \in Cu!WarpWords(n)
              /\ Cu!Lane(n * WarpSize + l) = l
<1> DEFINE W == WarpSize
           B == BlockThreads
           blocks == Cu!Blocks
           c == B \div W
           warps == blocks * c
<1>1. IsText(text) /\ W \in Nat \ {0} /\ B \in Nat \ {0} /\ B % W = 0
  BY CuAssumed, CuSpecified DEF Cu!CuHierarchyAssumption
<1>2. WordCount(text) \in Nat
  <2>1. Size(text) \in Nat /\ WordBytes \in Nat \ {0}
    BY <1>1, TextDomain, WordBytesAssumption
  <2> QED BY <2>1 DEF WordCount
<1>3. blocks \in Nat /\ WordCount(text) < blocks * B /\ blocks * B \in Nat
  <2> DEFINE count == WordCount(text)
             q == (count + B) \div B
             r == (count + B) % B
  <2>1. blocks = q
    <3>1. count + 1 + B - 1 = count + B
      BY <1>1, <1>2
    <3> QED BY <3>1, CuOperators DEF Cu!Blocks
  <2> HIDE DEF count, blocks
  <2>2. count + B \in Nat
    BY <1>1, <1>2 DEF count
  <2>3. q \in Nat /\ r \in 0 .. B - 1 /\ count + B = q * B + r
    BY <1>1, <2>2, Quotient
  <2> HIDE DEF q, r
  <2>4. q * B \in Nat
    BY <1>1, <2>3
  <2>5. count < q * B
    BY <1>1, <1>2, <2>3, <2>4 DEF count
  <2> QED BY <2>1, <2>3, <2>4, <2>5 DEF count
<1>4. c \in Nat /\ B = c * W
  BY <1>1, Quotient
<1> HIDE DEF c, blocks, B, W
<1>5. warps \in Nat /\ blocks * B = warps * W
  BY <1>1, <1>3, <1>4
<1>6. Cu!PaddedWords = blocks * B
  BY DEF Cu!PaddedWords, B, blocks
<1>7. Cu!PaddedWarps = warps
  <2> HIDE DEF warps
  <2>1. warps * W \in Nat
    BY <1>1, <1>5
  <2>2. warps * W = ((warps * W) \div W) * W + ((warps * W) % W)
        /\ (warps * W) \div W \in Nat /\ (warps * W) % W \in 0 .. W - 1
    BY <1>1, <2>1, Quotient
  <2>3. warps * W = warps * W + 0 /\ 0 \in 0 .. W - 1
    BY <1>1, <2>1
  <2>4. (warps * W) \div W = warps
    <3> DEFINE a == (warps * W) \div W
               b == (warps * W) % W
    <3>1. warps * W + 0 = a * W + b /\ a \in Nat /\ b \in 0 .. W - 1
      BY <2>2, <2>3
    <3> HIDE DEF a, b
    <3>2. warps = a
      BY <1>1, <1>5, <2>3, <3>1, QuotientUnique
    <3> QED BY <3>2 DEF a
  <2> QED BY <1>5, <1>6, <2>4 DEF Cu!PaddedWarps, W
<1> HIDE DEF warps
<1>8. Cu!Words = 0 .. warps * W - 1 /\ Cu!Warps = 0 .. warps - 1 /\ warps * W \in Nat
  BY <1>1, <1>5, <1>6, <1>7 DEF Cu!Words, Cu!Warps
<1>9. ASSUME NEW n \in 0 .. warps - 1, NEW w \in (n * W) .. ((n + 1) * W - 1)
      PROVE  w \in 0 .. warps * W - 1 /\ w \div W = n /\ w % W = w - n * W
  <2>1. n \in Nat /\ n < warps /\ n * W \in Nat /\ (n + 1) * W = n * W + W
    BY <1>1, <1>5
  <2>2. n * W + W <= warps * W
    BY <1>1, <1>5, <2>1, Multiples
  <2>3. w \in Nat /\ w \in 0 .. warps * W - 1 /\ w - n * W \in 0 .. W - 1 /\ w = n * W + (w - n * W)
    BY <1>1, <1>8, <2>1, <2>2
  <2>4. w \div W \in Nat /\ w % W \in 0 .. W - 1 /\ w = (w \div W) * W + (w % W)
    BY <1>1, <2>3, Quotient
  <2> DEFINE a == w \div W
             b == w % W
             d == w - n * W
  <2>5. n * W + d = a * W + b /\ a \in Nat /\ b \in 0 .. W - 1 /\ d \in 0 .. W - 1
    BY <2>3, <2>4
  <2> HIDE DEF a, b, d
  <2>6. n = a /\ d = b
    BY <1>1, <2>1, <2>5, QuotientUnique
  <2> QED BY <2>3, <2>6 DEF a, b, d
<1>10. ASSUME NEW w \in 0 .. warps * W - 1
       PROVE  /\ w \in Nat /\ w \div W \in 0 .. warps - 1 /\ w % W \in 0 .. W - 1
              /\ w \in ((w \div W) * W) .. ((w \div W + 1) * W - 1)
              /\ w = (w \div W) * W + (w % W)
  <2>1. w \in Nat /\ w < warps * W
    BY <1>8
  <2> DEFINE a == w \div W
             b == w % W
  <2>2. a \in Nat /\ b \in 0 .. W - 1 /\ w = a * W + b
    BY <1>1, <2>1, Quotient
  <2> HIDE DEF a, b
  <2>3. a * W \in Nat /\ (a + 1) * W = a * W + W
    BY <1>1, <2>2
  <2>4. warps < a => warps * W + W <= a * W
    BY <1>1, <1>5, <2>2, Multiples
  <2>5. ~(warps < a) /\ warps # a
    BY <1>1, <1>8, <2>1, <2>2, <2>3, <2>4
  <2>6. a \in 0 .. warps - 1 /\ w \in (a * W) .. ((a + 1) * W - 1)
    BY <1>1, <1>5, <2>1, <2>2, <2>3, <2>5
  <2> QED BY <2>1, <2>2, <2>6 DEF a, b
<1>11. ASSUME NEW n \in 0 .. warps - 1
       PROVE  n \in Nat /\ n < warps * W
  <2>1. n \in Nat /\ n < warps
    BY <1>5
  <2>2. n * W \in Nat /\ n * W + W <= warps * W
    BY <1>1, <1>5, <2>1, Multiples
  <2>3. n <= n * W
    BY <1>1, <2>1
  <2> QED BY <1>1, <1>8, <2>1, <2>2, <2>3
<1>12. ASSUME NEW n \in 0 .. warps - 1, NEW l \in 0 .. W - 1
       PROVE  n * W + l \in (n * W) .. ((n + 1) * W - 1) /\ (n * W + l) % W = l
  <2>1. n \in Nat /\ n * W \in Nat /\ (n + 1) * W = n * W + W
    BY <1>1, <1>5
  <2>2. n * W + l \in (n * W) .. ((n + 1) * W - 1)
    BY <1>1, <2>1
  <2>3. (n * W + l) % W = (n * W + l) - n * W
    BY <1>9, <2>2
  <2> QED BY <1>1, <2>1, <2>2, <2>3
<1>13. /\ Cu!PaddedWords = warps * W /\ Cu!PaddedWords \in Nat \ {0}
       /\ WordCount(text) < Cu!PaddedWords
  BY <1>2, <1>3, <1>5, <1>6
<1>14. \A w \in Cu!Words : /\ w \in Nat /\ WarpOf(w) \in Cu!Warps /\ w \in Cu!WarpWords(WarpOf(w))
                           /\ Cu!Lane(w) \in 0 .. WarpSize - 1
                           /\ w = WarpOf(w) * WarpSize + Cu!Lane(w)
  BY <1>8, <1>10 DEF WarpOf, Cu!Lane, Cu!WarpWords, W
<1>15. \A n \in Cu!Warps : /\ n \in Nat /\ n < Cu!PaddedWords
                           /\ \A w \in Cu!WarpWords(n) : w \in Cu!Words /\ WarpOf(w) = n
  BY <1>8, <1>9, <1>11, <1>13 DEF WarpOf, Cu!WarpWords, W
<1>16. \A n \in Cu!Warps, l \in 0 .. WarpSize - 1 :
         n * WarpSize + l \in Cu!WarpWords(n) /\ Cu!Lane(n * WarpSize + l) = l
  BY <1>8, <1>12 DEF Cu!WarpWords, Cu!Lane, W
<1> QED BY <1>1, <1>2, <1>13, <1>14, <1>15, <1>16 DEF W

-----------------------------------------------------------------------------
(***************************************************************************)
(* What the kernels find in a word.                                        *)
(***************************************************************************)
LEMMA QuotesGivenAreFiltered ==
  ASSUME NEW w \in Nat, NEW e \in {0, 1}
  PROVE  /\ Cu!QuotesGiven(w, e) = FilterEscapedQuotes(QuoteWord(text, w), SlashWord(text, w), e)
         /\ Cu!QuotesGiven(w, e) \in SUBSET Bits
<1> DEFINE quote == QuoteWord(text, w)
           slash == SlashWord(text, w)
           possible == IF e = 1 THEN PossibleEscaped(quote, slash) ELSE {b \in quote : b - 1 \in slash}
<1>1. possible = {} => \A b \in quote : b - 1 \notin slash /\ (e = 1 => b # 0)
  BY DEF PossibleEscaped
<1>2. possible = {} => FilterEscapedQuotes(quote, slash, e) = quote
  BY <1>1, FilterKeepsAll
<1>3. Cu!QuotesGiven(w, e) = FilterEscapedQuotes(quote, slash, e)
  BY <1>2, CuOperators DEF Cu!QuotesGiven
<1>4. FilterEscapedQuotes(quote, slash, e) \in SUBSET Bits
  BY DEF FilterEscapedQuotes, QuoteWord, BitsWhere
<1> QED BY <1>3, <1>4

LEMMA TrueQuotesFacts ==
  ASSUME text \in CuTexts, NEW w \in Nat
  PROVE  /\ Cu!TrueQuotes(w) = RealQuoteWord(text, w)
         /\ EscapeAt(text, w) \in {0, 1}
         /\ Cu!TrueQuotes(w) = Cu!QuotesGiven(w, EscapeAt(text, w))
         /\ Cu!TrueQuotes(w) \in SUBSET Bits /\ Predicted(w) \in SUBSET Bits
<1>1. IsText(text)
  BY CuGeometry
<1>2. EscapeAt(text, w) \in {0, 1}
  BY DEF EscapeAt
<1>3. Cu!TrueQuotes(w) = RealQuoteWord(text, w)
  BY CuSpecified, CuOperators DEF Cu!TrueQuotes, RealQuoteWord
<1> QED BY <1>1, <1>2, <1>3, FilterAtWord, QuotesGivenAreFiltered DEF Predicted

\* What a warp finds by looking back over words of backslashes, in summaries that are
\* those of the words.
LEMMA LookbackFinds ==
  ASSUME text \in CuTexts, NEW w \in Cu!Words, w # 0,
         \A v \in Cu!Words : trailing_slashes[v] = TrailingOnes(SlashWord(text, v))
  PROVE  trailing_slashes[Cu!LookbackWord(w)] % 2 = EscapeAt(text, w)
<1>1. /\ IsText(text) /\ w \in Nat \ {0} /\ Cu!Words \subseteq Nat
      /\ \A v \in 0 .. w : v \in Cu!Words
  BY CuGeometry DEF Cu!Words
<1> DEFINE found(p) == /\ p = 0 \/ trailing_slashes[p] # WordBytes
                       /\ \A q \in p + 1 .. w - 1 : trailing_slashes[q] = WordBytes
           ends == {p \in 0 .. w - 1 : p = 0 \/ trailing_slashes[p] # WordBytes}
<1>2. \E p \in 0 .. w - 1 : found(p)
  <2>1. 0 \in ends /\ ends \in SUBSET (0 .. w)
    BY <1>1
  <2>2. PICK p \in ends : \A q \in ends : q <= p
    <3> HIDE DEF ends
    <3> QED BY <1>1, <2>1, GreatestElement
  <2>3. p \in 0 .. w - 1 /\ \A q \in p + 1 .. w - 1 : q \notin ends /\ q \in 0 .. w - 1 /\ q # 0
    BY <1>1, <2>2
  <2> QED BY <2>2, <2>3
<1> DEFINE p == CHOOSE u \in 0 .. w - 1 : found(u)
<1>3. p \in 0 .. w - 1 /\ found(p)
  <2> HIDE DEF found
  <2> QED BY <1>2
<1>4. Cu!LookbackWord(w) = p
  BY DEF Cu!LookbackWord
<1> HIDE DEF p
<1>5. p \in Nat /\ p + 1 \in Nat /\ p + 1 <= w
  BY <1>1, <1>3
<1>6. \A v \in Cu!Words : trailing_slashes[v] = WordBytes <=> SlashWord(text, v) = Bits
  <2> SUFFICES ASSUME NEW v \in Cu!Words
               PROVE  TrailingOnes(SlashWord(text, v)) = WordBytes <=> SlashWord(text, v) = Bits
    OBVIOUS
  <2>1. SlashWord(text, v) \in SUBSET Bits
    BY DEF SlashWord, BitsWhere
  <2>2. SlashWord(text, v) = Bits => TrailingOnes(SlashWord(text, v)) = WordBytes
    BY DEF TrailingOnes
  <2>3. SlashWord(text, v) # Bits => TrailingOnes(SlashWord(text, v)) \in 0 .. WordBytes - 1
    BY <2>1, TrailingOnesFacts
  <2> QED BY <2>2, <2>3, WordBytesAssumption
<1>7. EscapeAt(text, p + 1) = EscapeAt(text, w)
  <2>1. \A v \in p + 1 .. w - 1 : SlashWord(text, v) = Bits
    BY <1>1, <1>3, <1>5, <1>6
  <2> QED BY <1>1, <1>5, <2>1, EscapeOver
<1>8. CASE SlashWord(text, p) # Bits
  BY <1>1, <1>3, <1>4, <1>5, <1>7, <1>8, EscapeLeaves
<1>9. CASE SlashWord(text, p) = Bits
  <2>1. p = 0 /\ trailing_slashes[p] = WordBytes
    BY <1>1, <1>3, <1>6, <1>9
  <2>2. EscapeAt(text, 0) = EscapeAt(text, p + 1)
    <3>1. \A v \in 0 .. (p + 1) - 1 : SlashWord(text, v) = Bits
      BY <1>9, <2>1
    <3> QED BY <1>1, <1>5, <3>1, EscapeOver
  <2>3. EscapeAt(text, 0) = 0
    BY FirstWordUnescaped
  <2> QED BY <1>4, <1>7, <2>1, <2>2, <2>3, WordBytesAssumption
<1> QED BY <1>8, <1>9

\* The words queued are those whose prediction an escape falsifies.
LEMMA RecoveryIsNeeded ==
  ASSUME text \in CuTexts, NEW w \in Cu!Words,
         \A v \in Cu!Words : trailing_slashes[v] = TrailingOnes(SlashWord(text, v))
  PROVE  /\ Cu!NeedsRecovery(w) <=> Missed(w)
         /\ Missed(w) => Cu!TrueQuotes(w) = Cu!QuotesGiven(w, 1)
<1>1. w \in Nat /\ IsText(text)
  BY CuGeometry
<1>2. /\ Cu!TrueQuotes(w) = Cu!QuotesGiven(w, EscapeAt(text, w)) /\ EscapeAt(text, w) \in {0, 1}
      /\ Predicted(w) = Cu!QuotesGiven(w, 0)
  BY <1>1, TrueQuotesFacts DEF Predicted
<1>3. Cu!QuotesGiven(w, 0) # Cu!QuotesGiven(w, 1) <=> Cu!FirstNonSlashIsQuote(w)
  BY <1>1, QuotesGivenAreFiltered, EscapeMatters, CuOperators DEF Cu!FirstNonSlashIsQuote
<1>4. Missed(w) <=> EscapeAt(text, w) = 1 /\ Cu!FirstNonSlashIsQuote(w)
  BY <1>2, <1>3 DEF Missed
<1>5. w = 0 => EscapeAt(text, w) = 0
  BY FirstWordUnescaped
<1>6. Cu!FirstNonSlashIsQuote(w) => w < WordCount(text)
  <2> SUFFICES ASSUME NEW b \in QuoteWord(text, w) PROVE w < WordCount(text)
    BY CuOperators DEF Cu!FirstNonSlashIsQuote
  <2>1. b \in Bits /\ w * WordBytes + b \in DOMAIN text
    BY DEF QuoteWord, BitsWhere
  <2> QED BY <1>1, <2>1, ByteInWordCount
<1>7. w # 0 => trailing_slashes[Cu!LookbackWord(w)] % 2 = EscapeAt(text, w)
  BY LookbackFinds
<1> QED BY <1>2, <1>4, <1>5, <1>6, <1>7, CuOperators DEF Cu!NeedsRecovery

-----------------------------------------------------------------------------
(***************************************************************************)
(* Types and schedule.                                                     *)
(***************************************************************************)
CuTyped ==
  /\ text \in CuTexts /\ launch \in 0 .. Launches
  /\ stage \in {"idle", "speculate", "lookback", "recover", "scan", "validate"}
  /\ pending \subseteq Cu!Words
  /\ operators \in [Cu!Words -> SUBSET Bits] /\ raw_open_close \in [Cu!Words -> SUBSET Bits]
  /\ structural \in [Cu!Words -> SUBSET Bits] /\ filtered_open_close \in [Cu!Words -> SUBSET Bits]
  /\ structural_counts \in [Cu!Words -> 0 .. WordBytes]
  /\ open_close_counts \in [Cu!Words -> 0 .. WordBytes]
  /\ trailing_slashes \in [Cu!Words -> 0 .. WordBytes]
  /\ quote_parity_masks \in [Cu!Warps -> SUBSET (0 .. WarpSize - 1)]
  /\ quote_warp_prefix \in [Cu!Warps -> {0, 1}]
  /\ recovery_words \in [Cu!Words -> Cu!Words]
  /\ recovery_count \in 0 .. Cu!PaddedWords
  /\ utf_error \in BOOLEAN

LEMMA CuTypedIsTypeOK == CuTyped <=> Cu!TypeOK
<1>1. DOMAIN Cu!Following = {"speculate", "lookback", "recover", "scan"}
  BY DEF Cu!Following
<1>2. DOMAIN Cu!Following \cup {"idle", "validate"}
        = {"idle", "speculate", "lookback", "recover", "scan", "validate"}
  BY <1>1
<1> QED BY <1>2, CuOperators DEF CuTyped, Cu!TypeOK

LEMMA CuTypedNext == CuTyped' <=> Cu!TypeOK'
BY CuTypedIsTypeOK, PTL

LEMMA UnitsFacts ==
  ASSUME text \in CuTexts, recovery_count \in 0 .. Cu!PaddedWords
  PROVE  /\ Cu!Units("speculate") = Cu!Warps /\ Cu!Units("lookback") = Cu!Warps
         /\ Cu!Units("recover") = 0 .. recovery_count - 1
         /\ Cu!Units("scan") = {0} /\ Cu!Units("validate") = Cu!Words
         /\ \A name \in {"speculate", "lookback", "recover", "scan", "validate"} :
              Cu!Units(name) \subseteq Cu!Words
         /\ Cu!Following["speculate"] = "lookback" /\ Cu!Following["lookback"] = "recover"
         /\ Cu!Following["recover"] = "scan" /\ Cu!Following["scan"] = "validate"
<1>1. /\ Cu!Units("speculate") = Cu!Warps /\ Cu!Units("lookback") = Cu!Warps
      /\ Cu!Units("recover") = 0 .. recovery_count - 1
      /\ Cu!Units("scan") = {0} /\ Cu!Units("validate") = Cu!Words
  BY DEF Cu!Units
<1>2. /\ Cu!PaddedWords \in Nat \ {0} /\ \A n \in Cu!Warps : n \in Nat /\ n < Cu!PaddedWords
  BY CuGeometry
<1>3. Cu!Warps \subseteq Cu!Words
  BY <1>2 DEF Cu!Words
<1>4. 0 .. recovery_count - 1 \subseteq Cu!Words /\ {0} \subseteq Cu!Words
  BY <1>2 DEF Cu!Words
<1>5. /\ Cu!Following["speculate"] = "lookback" /\ Cu!Following["lookback"] = "recover"
      /\ Cu!Following["recover"] = "scan" /\ Cu!Following["scan"] = "validate"
  BY DEF Cu!Following
<1> QED BY <1>1, <1>3, <1>4, <1>5

\* A step of a kernel takes one of its units.
LEMMA RunsFacts ==
  ASSUME CuInv, NEW name, NEW unit, name # "idle", Cu!Runs(name, unit)
  PROVE  /\ CuTyped /\ text \in CuTexts /\ stage = name /\ launch > 0
         /\ unit \in pending /\ unit \in Cu!Units(name)
         /\ UNCHANGED <<text, launch, stage>> /\ pending' = pending \ {unit}
         /\ pending' \subseteq Cu!Words
         /\ Cu!Words' = Cu!Words /\ Cu!Warps' = Cu!Warps /\ Cu!PaddedWords' = Cu!PaddedWords
<1>1. /\ stage = name /\ unit \in pending /\ UNCHANGED <<text, launch, stage>>
      /\ pending' = pending \ {unit}
  BY DEF Cu!Runs, Cu!problem
<1>2. CuTyped /\ launch > 0 /\ pending \subseteq Cu!Units(stage)
  BY <1>1, CuTypedIsTypeOK DEF CuInv, CuSchedule
<1>3. Cu!Words' = Cu!Words /\ Cu!Warps' = Cu!Warps /\ Cu!PaddedWords' = Cu!PaddedWords
  BY <1>1, CuOperators DEF Cu!Words, Cu!Warps, Cu!PaddedWords, Cu!PaddedWarps, Cu!Blocks
<1> QED BY <1>1, <1>2, <1>3 DEF CuTyped

-----------------------------------------------------------------------------
(***************************************************************************)
(* The first kernel.                                                       *)
(***************************************************************************)
LEMMA CuStart ==
  ASSUME CuInv, Cu!Launch
  PROVE  CuInv'
<1>1. CuTyped /\ text \in CuTexts
  BY CuTypedIsTypeOK DEF CuInv, CuSchedule, CuTyped
<1>2. /\ stage = "idle" /\ launch < Launches /\ launch' = launch + 1
      /\ stage' = "speculate" /\ pending' = Cu!Warps /\ recovery_count' = 0
      /\ UNCHANGED <<text, operators, raw_open_close, trailing_slashes, structural,
                     filtered_open_close, structural_counts, open_close_counts,
                     quote_parity_masks, quote_warp_prefix, recovery_words, utf_error>>
  BY <1>1, UnitsFacts DEF Cu!Launch, Cu!raw, Cu!outputs, Cu!CountAtLaunch, CuTyped
<1>3. Cu!Words' = Cu!Words /\ Cu!Warps' = Cu!Warps /\ Cu!PaddedWords' = Cu!PaddedWords
  BY <1>2, CuOperators DEF Cu!Words, Cu!Warps, Cu!PaddedWords, Cu!PaddedWarps, Cu!Blocks
<1>4. Launches \in Nat /\ launch \in Nat
  BY <1>1, CuAssumed DEF Cu!CuHierarchyAssumption, CuTyped
<1>5. CuTyped'
  <2>1. Cu!Warps \subseteq Cu!Words /\ Cu!PaddedWords \in Nat
    BY <1>1, UnitsFacts, CuGeometry DEF CuTyped
  <2> QED BY <1>1, <1>2, <1>3, <1>4, <2>1 DEF CuTyped
<1>6. CuSchedule'
  <2>1. Cu!Units("speculate")' = Cu!Warps'
    BY DEF Cu!Units
  <2>2. (Cu!Units(stage))' = Cu!Warps'
    BY <1>2, <2>1
  <2> QED BY <1>2, <1>3, <1>4, <1>5, <2>2, CuTypedNext DEF CuSchedule
<1>7. \A w \in Cu!Words : WarpOf(w) \in Cu!Warps
  BY <1>1, CuGeometry
<1>8. Tokenized' = {}
  BY <1>2, <1>3, <1>7 DEF Tokenized, WarpOf
<1>9. ClassesHold' /\ QuotesHold'
  BY <1>8 DEF ClassesHold, QuotesHold
<1>10. Queued' /\ ScanHolds' /\ ResultsHold'
  BY <1>2 DEF Queued, ScanHolds, ResultsHold, Validated
<1>11. ErrorsHold'
  BY <1>2, <1>3, <1>7 DEF CuInv, ErrorsHold, WarpOf
<1> QED BY <1>6, <1>9, <1>10, <1>11 DEF CuInv

\* The next kernel starts when the last unit has run.
LEMMA CuNextKernel ==
  ASSUME CuInv, Cu!NextKernel
  PROVE  CuInv'
<1>1. CuTyped /\ text \in CuTexts /\ CuSchedule
  BY CuTypedIsTypeOK DEF CuInv, CuSchedule, CuTyped
<1>2. /\ stage # "idle" /\ pending = {} /\ launch > 0
      /\ UNCHANGED <<text, launch, operators, raw_open_close, trailing_slashes, structural,
                     filtered_open_close, structural_counts, open_close_counts,
                     quote_parity_masks, quote_warp_prefix, recovery_words, recovery_count, utf_error>>
  BY <1>1 DEF Cu!NextKernel, Cu!raw, Cu!outputs, Cu!problem, Cu!recovery, CuSchedule
<1>3. /\ Cu!Words' = Cu!Words /\ Cu!Warps' = Cu!Warps /\ Cu!PaddedWords' = Cu!PaddedWords
      /\ \A w : Missed(w)' = Missed(w)
  BY <1>2, CuOperators DEF Cu!Words, Cu!Warps, Cu!PaddedWords, Cu!PaddedWarps, Cu!Blocks,
     Missed, Predicted, Cu!TrueQuotes, Cu!QuotesGiven
<1>4. /\ stage = "speculate" => stage' = "lookback" /\ pending' = Cu!Warps
      /\ stage = "lookback"  => stage' = "recover" /\ pending' = 0 .. recovery_count - 1
      /\ stage = "recover"   => stage' = "scan" /\ pending' = {0}
      /\ stage = "scan"      => stage' = "validate" /\ pending' = Cu!Words
      /\ stage = "validate"  => stage' = "idle" /\ pending' = {}
      /\ stage' \in {"idle", "lookback", "recover", "scan", "validate"} /\ pending' \subseteq Cu!Words
  BY <1>1, <1>2, UnitsFacts DEF Cu!NextKernel, CuTyped
<1>5. CuSchedule'
  <2>1. CuTyped'
    BY <1>1, <1>2, <1>3, <1>4 DEF CuTyped
  <2>2. stage' # "idle" => pending' \subseteq Cu!Units(stage)'
    BY <1>1, <1>2, <1>3, <1>4 DEF Cu!Units, CuTyped
  <2>3. stage' = "idle" => pending' = {}
    BY <1>1, <1>2, <1>4 DEF CuTyped
  <2> QED BY <1>2, <2>1, <2>2, <2>3, CuTypedNext DEF CuSchedule
<1>6. Tokenized = Cu!Words /\ Tokenized' \subseteq Cu!Words
  BY <1>2, <1>3 DEF Tokenized
<1>7. ClassesHold'
  BY <1>2, <1>6 DEF ClassesHold, CuInv
<1>8. Queued'
  <2>1. stage = "speculate" => QueueOf({w \in Cu!Words : WarpOf(w) \in Cu!Warps /\ FALSE})'
    BY <1>2, FS_EmptySet DEF CuInv, Queued, QueueOf
  <2>2. stage = "speculate" => {w \in Cu!Words : WarpOf(w) \notin pending' /\ Missed(w)} = {}
    BY <1>1, <1>4, CuGeometry
  <2>3. stage = "speculate" => QueueOf({w \in Cu!Words : WarpOf(w) \notin pending /\ Missed(w)})'
    BY <1>2, <1>3, <2>1, <2>2 DEF QueueOf, WarpOf
  <2>4. stage = "lookback" => QueueOf({w \in Cu!Words : Missed(w)})'
    BY <1>2, <1>3 DEF CuInv, Queued, QueueOf
  <2> QED BY <1>1, <1>2, <1>4, <2>3, <2>4 DEF Queued, CuTyped
<1>9. \A w \in Cu!Words : stage # "validate" => Quotes(w)' = Quotes(w)
  <2> SUFFICES ASSUME NEW w \in Cu!Words, stage # "validate" PROVE Quotes(w)' = Quotes(w)
    OBVIOUS
  <2>1. Cu!TrueQuotes(w)' = Cu!TrueQuotes(w) /\ Predicted(w)' = Predicted(w)
    BY <1>2 DEF Cu!TrueQuotes, Predicted, Cu!QuotesGiven
  <2>2. CASE stage = "lookback"
    <3>1. Quotes(w) = Predicted(w)
      BY <2>2 DEF Quotes, Awaited
    <3>2. {recovery_words[k] : k \in 0 .. recovery_count - 1} = {v \in Cu!Words : Missed(v)}
      BY <1>2, <2>2 DEF CuInv, Queued, QueueOf
    <3>3. Awaited(w)' <=> Missed(w)
      BY <1>2, <1>4, <2>2, <3>2 DEF Awaited
    <3> QED BY <2>1, <3>1, <3>3 DEF Quotes, Missed
  <2>3. CASE stage # "lookback"
    <3>1. Awaited(w)' <=> Awaited(w)
      BY <1>1, <1>2, <1>4, <2>3 DEF Awaited, CuTyped
    <3> QED BY <2>1, <3>1 DEF Quotes
  <2> QED BY <2>2, <2>3
<1>10. QuotesHold'
  <2> SUFFICES ASSUME NEW w \in Tokenized'
               PROVE  /\ (Cu!Lane(w) \in quote_parity_masks[WarpOf(w)] <=> Parity(Quotes(w)) = 1)'
                      /\ stage' # "validate" \/ w \in pending' =>
                           structural'[w] = Cu!Outside(w, Quotes(w)', OperatorWord(text, w))
    BY <1>2 DEF QuotesHold, Cu!Outside
  <2>1. stage # "validate" /\ w \in Cu!Words /\ w \in Tokenized
    BY <1>2, <1>4, <1>6 DEF Tokenized
  <2>2. /\ Cu!Lane(w) \in quote_parity_masks[WarpOf(w)] <=> Parity(Quotes(w)) = 1
        /\ structural[w] = Cu!Outside(w, Quotes(w), OperatorWord(text, w))
    BY <2>1 DEF CuInv, QuotesHold
  <2> QED BY <1>2, <1>9, <2>1, <2>2 DEF Cu!Lane, WarpOf
<1>11. ScanHolds'
  BY <1>1, <1>2, <1>3, <1>4 DEF CuInv, ScanHolds, CuTyped
<1>12. ResultsHold'
  <2>1. Validated' \subseteq Validated
    BY <1>1, <1>2, <1>3, <1>4 DEF Validated, CuTyped
  <2> QED BY <1>2, <2>1 DEF CuInv, ResultsHold
<1>13. ErrorsHold'
  BY <1>2, <1>3, <1>4 DEF CuInv, ErrorsHold
<1> QED BY <1>5, <1>7, <1>8, <1>10, <1>11, <1>12, <1>13 DEF CuInv

\* What Tokenize leaves, which the control runs too.
LEMMA TokenizeWrites ==
  ASSUME text \in CuTexts, CuTyped, NEW n \in Cu!Warps, Cu!Tokenize(n)
  PROVE  /\ operators' \in [Cu!Words -> SUBSET Bits] /\ raw_open_close' \in [Cu!Words -> SUBSET Bits]
         /\ structural' \in [Cu!Words -> SUBSET Bits]
         /\ quote_parity_masks' \in [Cu!Warps -> SUBSET (0 .. WarpSize - 1)]
         /\ utf_error' \in BOOLEAN
         /\ \A w \in Cu!Words :
              IF WarpOf(w) = n
              THEN /\ operators'[w] = OperatorWord(text, w) /\ raw_open_close'[w] = OpenCloseWord(text, w)
                   /\ structural'[w] = Cu!Outside(w, Predicted(w), OperatorWord(text, w))
                   /\ Cu!Lane(w) \in quote_parity_masks'[WarpOf(w)] <=> Parity(Predicted(w)) = 1
              ELSE /\ operators'[w] = operators[w] /\ raw_open_close'[w] = raw_open_close[w]
                   /\ structural'[w] = structural[w]
                   /\ quote_parity_masks'[WarpOf(w)] = quote_parity_masks[WarpOf(w)]
         /\ utf_error' <=> utf_error \/ \E w \in FlaggedWords(text) : w \in Cu!Words /\ WarpOf(w) = n
<1>1. /\ \A w \in Cu!Words : w \in Cu!WarpWords(n) <=> WarpOf(w) = n
      /\ Cu!WarpWords(n) \subseteq Cu!Words
      /\ \A w \in Cu!Words : w \in Nat /\ WarpOf(w) \in Cu!Warps
      /\ \A w \in Cu!Words : Cu!Lane(w) \in 0 .. WarpSize - 1 /\ w = WarpOf(w) * WarpSize + Cu!Lane(w)
  BY CuGeometry
<1>2. \A w \in Cu!Words : /\ OperatorWord(text, w) \in SUBSET Bits
                          /\ OpenCloseWord(text, w) \in SUBSET Bits
                          /\ Cu!Outside(w, Predicted(w), OperatorWord(text, w)) \in SUBSET Bits
  BY CuOperators DEF OperatorWord, OpenCloseWord, BitsWhere, Cu!Outside, Invert
<1>3. /\ operators' = [w \in Cu!Words |-> IF w \in Cu!WarpWords(n) THEN OperatorWord(text, w)
                                          ELSE operators[w]]
      /\ raw_open_close' = [w \in Cu!Words |-> IF w \in Cu!WarpWords(n) THEN OpenCloseWord(text, w)
                                               ELSE raw_open_close[w]]
      /\ structural' = [w \in Cu!Words |-> IF w \in Cu!WarpWords(n)
                                           THEN Cu!Outside(w, Predicted(w), OperatorWord(text, w))
                                           ELSE structural[w]]
  BY CuOperators DEF Cu!Tokenize, Cu!OfWarp, Predicted
<1> DEFINE odd == {Cu!Lane(w) : w \in {v \in Cu!WarpWords(n) : Parity(Predicted(v)) = 1}}
<1>4. quote_parity_masks' = [quote_parity_masks EXCEPT ![n] = odd]
  BY CuOperators DEF Cu!Tokenize, Predicted
<1>5. odd \in SUBSET (0 .. WarpSize - 1)
  BY <1>1
<1>6. \A w \in Cu!Words : WarpOf(w) = n => (Cu!Lane(w) \in odd <=> Parity(Predicted(w)) = 1)
  BY <1>1
<1> HIDE DEF odd
<1>7. /\ quote_parity_masks' \in [Cu!Warps -> SUBSET (0 .. WarpSize - 1)]
      /\ quote_parity_masks'[n] = odd
      /\ \A m \in Cu!Warps : m # n => quote_parity_masks'[m] = quote_parity_masks[m]
  BY <1>4, <1>5 DEF CuTyped
<1>8. utf_error' = (utf_error \/ Cu!WarpWords(n) \cap FlaggedWords(text) # {})
  BY DEF Cu!Tokenize, Cu!UtfErrorAfter
<1>9. utf_error' \in BOOLEAN /\ (utf_error' <=> utf_error \/ \E w \in FlaggedWords(text) : w \in Cu!Words /\ WarpOf(w) = n)
  BY <1>1, <1>8 DEF CuTyped
<1>10. /\ operators' \in [Cu!Words -> SUBSET Bits] /\ raw_open_close' \in [Cu!Words -> SUBSET Bits]
       /\ structural' \in [Cu!Words -> SUBSET Bits]
  BY <1>2, <1>3 DEF CuTyped
<1> QED BY <1>1, <1>3, <1>6, <1>7, <1>9, <1>10

LEMMA CuSpeculate ==
  ASSUME CuInv, NEW n \in Cu!Warps, Cu!Speculate(n)
  PROVE  CuInv'
<1>1. Cu!Tokenize(n) /\ Cu!Runs("speculate", n)
  BY DEF Cu!Speculate, Cu!Tokenize
<1>2. /\ CuTyped /\ text \in CuTexts /\ stage = "speculate" /\ launch > 0
      /\ UNCHANGED <<text, launch, stage>> /\ pending' = pending \ {n}
      /\ pending' \subseteq Cu!Words /\ n \in pending
      /\ Cu!Words' = Cu!Words /\ Cu!Warps' = Cu!Warps /\ Cu!PaddedWords' = Cu!PaddedWords
  BY <1>1, RunsFacts
<1>3. /\ UNCHANGED <<filtered_open_close, structural_counts, open_close_counts,
                     quote_warp_prefix, recovery_words, recovery_count>>
      /\ trailing_slashes' = [w \in Cu!Words |-> IF w \in Cu!WarpWords(n)
                                THEN TrailingOnes(SlashWord(text, w)) ELSE trailing_slashes[w]]
  BY CuOperators DEF Cu!Speculate, Cu!outputs, Cu!recovery, Cu!OfWarp
<1>4. /\ \A w \in Cu!Words : w \in Cu!WarpWords(n) <=> WarpOf(w) = n
      /\ \A w \in Cu!Words : w \in Nat /\ WarpOf(w) \in Cu!Warps
  BY <1>2, CuGeometry
<1>5. \A w \in Cu!Words :
        IF WarpOf(w) = n
        THEN /\ operators'[w] = OperatorWord(text, w) /\ raw_open_close'[w] = OpenCloseWord(text, w)
             /\ structural'[w] = Cu!Outside(w, Predicted(w), OperatorWord(text, w))
             /\ Cu!Lane(w) \in quote_parity_masks'[WarpOf(w)] <=> Parity(Predicted(w)) = 1
        ELSE /\ operators'[w] = operators[w] /\ raw_open_close'[w] = raw_open_close[w]
             /\ structural'[w] = structural[w]
             /\ quote_parity_masks'[WarpOf(w)] = quote_parity_masks[WarpOf(w)]
  BY <1>1, <1>2, TokenizeWrites
<1>6. CuTyped'
  <2>1. \A w : TrailingOnes(SlashWord(text, w)) \in 0 .. WordBytes
    BY TrailingOnesType DEF SlashWord, BitsWhere
  <2>2. trailing_slashes' \in [Cu!Words -> 0 .. WordBytes]
    BY <1>2, <1>3, <2>1 DEF CuTyped
  <2>3. /\ operators' \in [Cu!Words -> SUBSET Bits] /\ raw_open_close' \in [Cu!Words -> SUBSET Bits]
        /\ structural' \in [Cu!Words -> SUBSET Bits]
        /\ quote_parity_masks' \in [Cu!Warps -> SUBSET (0 .. WarpSize - 1)]
        /\ utf_error' \in BOOLEAN
    BY <1>1, <1>2, TokenizeWrites
  <2> QED BY <1>2, <1>3, <2>2, <2>3 DEF CuTyped
<1>7. CuSchedule'
  <2>1. pending' \subseteq Cu!Units(stage)'
    BY <1>2, UnitsFacts DEF CuInv, CuSchedule, CuTyped, Cu!Units
  <2> QED BY <1>2, <1>6, <2>1, CuTypedNext DEF CuSchedule
<1>8. \A w \in Tokenized' : w \in Cu!Words /\ (WarpOf(w) # n => w \in Tokenized)
  BY <1>2 DEF Tokenized, WarpOf
<1>9. ClassesHold'
  <2> SUFFICES ASSUME NEW w \in Tokenized'
               PROVE  /\ operators'[w] = OperatorWord(text, w)
                      /\ raw_open_close'[w] = OpenCloseWord(text, w)
                      /\ trailing_slashes'[w] = TrailingOnes(SlashWord(text, w))
    BY <1>2 DEF ClassesHold
  <2> QED BY <1>3, <1>4, <1>5, <1>8 DEF CuInv, ClassesHold
<1>10. \A w : Quotes(w) = Predicted(w) /\ Quotes(w)' = Predicted(w)
  BY <1>2 DEF Quotes, Awaited, Predicted, Cu!QuotesGiven
<1>11. QuotesHold'
  <2> SUFFICES ASSUME NEW w \in Tokenized'
               PROVE  /\ Cu!Lane(w) \in quote_parity_masks'[WarpOf(w)] <=> Parity(Predicted(w)) = 1
                      /\ structural'[w] = Cu!Outside(w, Predicted(w), OperatorWord(text, w))
    BY <1>2, <1>10 DEF QuotesHold, Cu!Outside, Cu!Lane, WarpOf
  <2> QED BY <1>2, <1>5, <1>8, <1>10 DEF CuInv, QuotesHold
<1>12. Queued' /\ ScanHolds' /\ ResultsHold'
  BY <1>2, <1>3 DEF CuInv, Queued, ScanHolds, ResultsHold, Validated
<1>13. ErrorsHold'
  <2>1. utf_error' <=> utf_error \/ \E w \in FlaggedWords(text) : w \in Cu!Words /\ WarpOf(w) = n
    BY <1>1, <1>2, TokenizeWrites
  <2> QED BY <1>2, <2>1 DEF CuInv, ErrorsHold, WarpOf
<1> QED BY <1>7, <1>9, <1>11, <1>12, <1>13 DEF CuInv

-----------------------------------------------------------------------------
(***************************************************************************)
(* The queue of mispredicted words.                                        *)
(***************************************************************************)
LEMMA CuLookback ==
  ASSUME CuInv, NEW n \in Cu!Warps, Cu!LookbackAndValidate(n)
  PROVE  CuInv'
<1>1. /\ CuTyped /\ text \in CuTexts /\ stage = "lookback" /\ launch > 0
      /\ UNCHANGED <<text, launch, stage>> /\ pending' = pending \ {n}
      /\ pending' \subseteq Cu!Words /\ n \in pending
      /\ Cu!Words' = Cu!Words /\ Cu!Warps' = Cu!Warps /\ Cu!PaddedWords' = Cu!PaddedWords
  <2>1. Cu!Runs("lookback", n)
    BY DEF Cu!LookbackAndValidate
  <2> QED BY <2>1, RunsFacts
<1>2. UNCHANGED <<operators, raw_open_close, trailing_slashes, structural, filtered_open_close,
                  structural_counts, open_close_counts, quote_parity_masks, quote_warp_prefix, utf_error>>
  BY DEF Cu!LookbackAndValidate, Cu!raw, Cu!outputs
<1>3. /\ \A w \in Cu!Words : w \in Cu!WarpWords(n) <=> WarpOf(w) = n
      /\ \A w \in Cu!Words : w \in Nat /\ WarpOf(w) \in Cu!Warps
      /\ Cu!WarpWords(n) \subseteq Cu!Words /\ Cu!PaddedWords \in Nat
  BY <1>1, CuGeometry
<1>4. Tokenized = Cu!Words /\ Tokenized' = Cu!Words
  BY <1>1 DEF Tokenized
<1> DEFINE before == {w \in Cu!Words : WarpOf(w) \notin pending /\ Missed(w)}
           after  == {w \in Cu!Words : WarpOf(w) \notin pending' /\ Missed(w)}
           misses == {w \in Cu!Words : WarpOf(w) = n /\ Missed(w)}
           old    == {w \in Cu!WarpWords(n) : Cu!NeedsRecovery(w)}
           slot(w) == recovery_count + Rank(misses, w)
<1>5. old = misses
  <2>1. \A w \in Cu!Words : Cu!NeedsRecovery(w) <=> Missed(w)
    BY <1>1, <1>4, RecoveryIsNeeded DEF CuInv, ClassesHold
  <2> QED BY <1>3, <2>1
<1>6. /\ after = before \cup misses /\ before \cap misses = {}
      /\ before \in SUBSET Cu!Words /\ misses \in SUBSET Cu!Words /\ misses \in SUBSET Int
      /\ after \in SUBSET Cu!Words
  BY <1>1, <1>3
<1>7. /\ IsFiniteSet(Cu!Words) /\ Cardinality(Cu!Words) = Cu!PaddedWords
      /\ IsFiniteSet(before) /\ IsFiniteSet(misses) /\ IsFiniteSet(after)
      /\ Cardinality(after) \in 0 .. Cu!PaddedWords
  <2>1. IsFiniteSet(Cu!Words) /\ Cardinality(Cu!Words) = Cu!PaddedWords
    BY <1>3, FS_Interval DEF Cu!Words
  <2>2. \A A \in SUBSET Cu!Words : IsFiniteSet(A) /\ Cardinality(A) \in 0 .. Cu!PaddedWords
    <3> SUFFICES ASSUME NEW A \in SUBSET Cu!Words
                 PROVE  IsFiniteSet(A) /\ Cardinality(A) \in 0 .. Cu!PaddedWords
      OBVIOUS
    <3>1. IsFiniteSet(A) /\ Cardinality(A) <= Cu!PaddedWords
      BY <2>1, FS_Subset
    <3>2. Cardinality(A) \in Nat
      BY <3>1, FS_CardinalityType
    <3> QED BY <1>3, <3>1, <3>2
  <2> HIDE DEF before, after, misses
  <2> QED BY <1>6, <2>1, <2>2
<1>8. /\ recovery_count' = recovery_count + Cardinality(misses)
      /\ recovery_words' = [k \in Cu!Words |-> IF \E w \in misses : slot(w) = k
                                               THEN CHOOSE w \in misses : slot(w) = k
                                               ELSE recovery_words[k]]
  <2>1. \A w : recovery_count + Cu!Cardinality({v \in old : v < w}) = slot(w)
    BY <1>5, CuOperators DEF Rank
  <2> HIDE DEF misses, slot
  <2>2. /\ recovery_count' = recovery_count + Cu!Cardinality(old)
        /\ recovery_words' = [k \in Cu!Words |->
             IF \E w \in old : recovery_count + Cu!Cardinality({v \in old : v < w}) = k
             THEN CHOOSE w \in old : recovery_count + Cu!Cardinality({v \in old : v < w}) = k
             ELSE recovery_words[k]]
    BY DEF Cu!LookbackAndValidate
  <2> HIDE DEF old
  <2>3. \A w : recovery_count + Cu!Cardinality({v \in misses : v < w}) = slot(w)
    BY <1>5, <2>1
  <2>4. recovery_words' = [k \in Cu!Words |->
             IF \E w \in misses : recovery_count + Cu!Cardinality({v \in misses : v < w}) = k
             THEN CHOOSE w \in misses : recovery_count + Cu!Cardinality({v \in misses : v < w}) = k
             ELSE recovery_words[k]]
    BY <1>5, <2>2
  <2>5. /\ recovery_count' = recovery_count + Cu!Cardinality(misses)
        /\ Cu!Cardinality(misses) = Cardinality(misses)
    BY <1>5, <2>2, CuOperators
  <2>6. recovery_words' = [k \in Cu!Words |-> IF \E w \in misses : slot(w) = k
                                               THEN CHOOSE w \in misses : slot(w) = k
                                               ELSE recovery_words[k]]
    BY <2>3, <2>4
  <2> QED BY <2>5, <2>6
<1>9. QueueOf(before)
  BY <1>1 DEF CuInv, Queued
<1>10. recovery_count \in Nat /\ 0 .. recovery_count + Cardinality(misses) - 1 \subseteq Cu!Words
  <2>1. recovery_count = Cardinality(before)
    BY <1>9 DEF QueueOf
  <2>2. Cardinality(after) = recovery_count + Cardinality(misses)
    <3> HIDE DEF before, after, misses
    <3>1. Cardinality(before \cup misses)
            = Cardinality(before) + Cardinality(misses) - Cardinality(before \cap misses)
      BY <1>7, FS_Union
    <3>2. Cardinality(before \cap misses) = 0 /\ Cardinality(misses) \in Nat /\ Cardinality(before) \in Nat
      BY <1>6, <1>7, FS_EmptySet, FS_CardinalityType
    <3> QED BY <1>6, <2>1, <3>1, <3>2
  <2>3. recovery_count \in Nat
    BY <1>1 DEF CuTyped
  <2> DEFINE a == Cardinality(after)
             m == Cardinality(misses)
             padded == Cu!PaddedWords
  <2>4. a \in 0 .. padded /\ a = recovery_count + m /\ padded \in Nat /\ m \in Nat
    BY <1>3, <1>7, <2>2, FS_CardinalityType
  <2>5. Cu!Words = 0 .. padded - 1
    BY DEF Cu!Words
  <2> HIDE DEF a, m, padded
  <2>6. 0 .. recovery_count + m - 1 \subseteq 0 .. padded - 1
    BY <2>3, <2>4
  <2> QED BY <2>3, <2>5, <2>6 DEF m
<1>11. /\ recovery_count' = Cardinality(after)
       /\ \A j, k \in 0 .. recovery_count' - 1 : j # k => recovery_words'[j] # recovery_words'[k]
       /\ {recovery_words'[k] : k \in 0 .. recovery_count' - 1} = after
  <2>1. /\ recovery_count = Cardinality(before)
        /\ \A j, k \in 0 .. recovery_count - 1 : j # k => recovery_words[j] # recovery_words[k]
        /\ {recovery_words[k] : k \in 0 .. recovery_count - 1} = before
    BY <1>9 DEF QueueOf
  <2> HIDE DEF before, after, misses
  <2> DEFINE new == recovery_words'
  <2>2. AppendsInOrder(new, recovery_words, recovery_count, misses, Cu!Words)
    BY <1>8, <1>10 DEF AppendsInOrder
  <2>3. /\ misses \in SUBSET Int /\ IsFiniteSet(misses) /\ IsFiniteSet(before)
        /\ before \cap misses = {} /\ Cardinality(misses) \in Nat
    BY <1>6, <1>7, FS_CardinalityType
  <2>4. Enumerates(recovery_words, recovery_count, before)
    BY <2>1 DEF Enumerates
  <2> HIDE DEF new
  <2>5. recovery_count' = recovery_count + Cardinality(misses)
    BY <1>8
  <2>6. Enumerates(new, recovery_count', after)
    BY <1>6, <2>2, <2>3, <2>4, <2>5, AppendedInOrder
  <2>7. {new[k] : k \in 0 .. recovery_count' - 1} = after
    <3> DEFINE image == {new[k] : k \in 0 .. recovery_count' - 1}
    <3>1. (\A x \in image : x \in after) /\ (\A x \in after : x \in image)
      BY <2>6 DEF Enumerates
    <3> HIDE DEF image
    <3>2. image = after
      BY <3>1
    <3> QED BY <3>2 DEF image
  <2> QED BY <2>6, <2>7 DEF new, Enumerates
<1>12. Queued'
  <2>1. \A w : Missed(w)' = Missed(w)
    BY <1>1 DEF Missed, Predicted, Cu!TrueQuotes, Cu!QuotesGiven
  <2>2. {w \in Cu!Words : WarpOf(w) \notin pending /\ Missed(w)}' = after
    BY <1>1, <2>1 DEF WarpOf
  <2> HIDE DEF after
  <2> QED BY <1>1, <1>11, <2>2 DEF Queued, QueueOf
<1>13. CuSchedule'
  <2>1. recovery_words' \in [Cu!Words -> Cu!Words]
    <3>1. \A k : (\E w \in misses : slot(w) = k) => (CHOOSE w \in misses : slot(w) = k) \in Cu!Words
      BY <1>6
    <3>2. \A k \in Cu!Words : recovery_words[k] \in Cu!Words
      BY <1>1 DEF CuTyped
    <3> HIDE DEF misses, slot
    <3> QED BY <1>8, <3>1, <3>2
  <2>2. recovery_count' \in 0 .. Cu!PaddedWords
    BY <1>7, <1>11
  <2>3. CuTyped'
    BY <1>1, <1>2, <2>1, <2>2 DEF CuTyped
  <2>4. pending' \subseteq Cu!Units(stage)'
    BY <1>1, UnitsFacts DEF CuInv, CuSchedule, CuTyped, Cu!Units
  <2> QED BY <1>1, <2>3, <2>4, CuTypedNext DEF CuSchedule
<1>14. ClassesHold' /\ QuotesHold'
  <2>1. \A w : Quotes(w) = Predicted(w) /\ Quotes(w)' = Predicted(w)
    BY <1>1 DEF Quotes, Awaited, Predicted, Cu!QuotesGiven
  <2> QED BY <1>1, <1>2, <1>4, <2>1 DEF CuInv, ClassesHold, QuotesHold, Cu!Outside, Cu!Lane, WarpOf
<1>15. ScanHolds' /\ ResultsHold' /\ ErrorsHold'
  BY <1>1, <1>2 DEF CuInv, ScanHolds, ResultsHold, Validated, ErrorsHold
<1> QED BY <1>12, <1>13, <1>14, <1>15 DEF CuInv

-----------------------------------------------------------------------------
(***************************************************************************)
(* Recovery.  The queue has a word once, so that its bit is toggled once.  *)
(***************************************************************************)
LEMMA RecoveredFacts ==
  ASSUME CuInv, NEW position \in pending, stage = "recover"
  PROVE  LET w == recovery_words[position] IN
           /\ w \in Cu!Words /\ Missed(w) /\ Awaited(w)
           /\ Cu!TrueQuotes(w) = Cu!QuotesGiven(w, 1)
           /\ operators[w] = OperatorWord(text, w)
           /\ \A k \in pending \ {position} : recovery_words[k] # w
<1> DEFINE w == recovery_words[position]
<1>1. CuTyped /\ text \in CuTexts /\ pending \subseteq 0 .. recovery_count - 1
  BY CuTypedIsTypeOK, UnitsFacts DEF CuInv, CuSchedule, CuTyped
<1>2. QueueOf({v \in Cu!Words : Missed(v)})
  BY DEF CuInv, Queued
<1>3. w \in Cu!Words /\ Missed(w)
  BY <1>1, <1>2 DEF QueueOf
<1>4. \A k \in pending \ {position} : recovery_words[k] # w
  BY <1>1, <1>2 DEF QueueOf
<1>5. Tokenized = Cu!Words
  BY DEF Tokenized
<1>6. operators[w] = OperatorWord(text, w)
  BY <1>3, <1>5 DEF CuInv, ClassesHold
<1>7. \A v \in Cu!Words : trailing_slashes[v] = TrailingOnes(SlashWord(text, v))
  BY <1>5 DEF CuInv, ClassesHold
<1>8. Cu!TrueQuotes(w) = Cu!QuotesGiven(w, 1)
  BY <1>1, <1>3, <1>7, RecoveryIsNeeded
<1>9. Awaited(w)
  BY DEF Awaited
<1> QED BY <1>3, <1>4, <1>6, <1>8, <1>9

LEMMA CuRecover ==
  ASSUME CuInv, NEW position \in pending, Cu!RecoverEscapedQuotes(position)
  PROVE  CuInv'
<1>0. PICK w : w = recovery_words[position]
  OBVIOUS
<1>1. /\ CuTyped /\ text \in CuTexts /\ stage = "recover" /\ launch > 0
      /\ UNCHANGED <<text, launch, stage>> /\ pending' = pending \ {position}
      /\ pending' \subseteq Cu!Words
      /\ Cu!Words' = Cu!Words /\ Cu!Warps' = Cu!Warps /\ Cu!PaddedWords' = Cu!PaddedWords
  <2>1. Cu!Runs("recover", position)
    BY DEF Cu!RecoverEscapedQuotes
  <2> QED BY <2>1, RunsFacts
<1>2. /\ UNCHANGED <<operators, raw_open_close, trailing_slashes, filtered_open_close,
                     structural_counts, open_close_counts, quote_warp_prefix, recovery_words,
                     recovery_count, utf_error>>
      /\ structural' = [structural EXCEPT ![w] = Cu!Outside(w, Cu!QuotesGiven(w, 1), operators[w])]
      /\ quote_parity_masks' =
           IF Cu!ParityChanges(w)
           THEN [quote_parity_masks EXCEPT
                   ![WarpOf(w)] = SymDiff(quote_parity_masks[WarpOf(w)], {Cu!Lane(w)})]
           ELSE quote_parity_masks
  BY <1>0, CuOperators DEF Cu!RecoverEscapedQuotes, Cu!raw, Cu!outputs, Cu!recovery, WarpOf
<1>3. /\ w \in Cu!Words /\ Missed(w) /\ Awaited(w)
      /\ Cu!TrueQuotes(w) = Cu!QuotesGiven(w, 1)
      /\ operators[w] = OperatorWord(text, w)
      /\ \A k \in pending \ {position} : recovery_words[k] # w
  BY <1>0, <1>1, RecoveredFacts
<1>4. /\ \A v \in Cu!Words : v \in Nat /\ WarpOf(v) \in Cu!Warps /\ Cu!Lane(v) \in 0 .. WarpSize - 1
      /\ \A v \in Cu!Words : v = WarpOf(v) * WarpSize + Cu!Lane(v)
  BY <1>1, CuGeometry
<1>5. \A v \in Cu!Words : v # w /\ WarpOf(v) = WarpOf(w) => Cu!Lane(v) # Cu!Lane(w)
  BY <1>3, <1>4
<1>6. ~Awaited(w)' /\ \A v : v # w => (Awaited(v)' <=> Awaited(v))
  BY <1>0, <1>1, <1>2, <1>3 DEF Awaited
<1>7. \A v : Predicted(v)' = Predicted(v) /\ Cu!TrueQuotes(v)' = Cu!TrueQuotes(v)
  BY <1>1 DEF Predicted, Cu!TrueQuotes, Cu!QuotesGiven
<1>8. /\ Quotes(w) = Predicted(w) /\ Quotes(w)' = Cu!TrueQuotes(w)
      /\ \A v : v # w => Quotes(v)' = Quotes(v)
  BY <1>3, <1>6, <1>7 DEF Quotes
<1>9. Tokenized = Cu!Words /\ Tokenized' = Cu!Words
  BY <1>1 DEF Tokenized
<1>10. /\ Cu!Outside(w, Cu!TrueQuotes(w), OperatorWord(text, w)) \in SUBSET Bits
       /\ structural' = [structural EXCEPT ![w] = Cu!Outside(w, Cu!TrueQuotes(w), OperatorWord(text, w))]
  BY <1>2, <1>3, CuOperators DEF Cu!Outside, OperatorWord, BitsWhere
<1>11. /\ Parity(Predicted(w)) \in {0, 1} /\ Parity(Cu!TrueQuotes(w)) \in {0, 1}
       /\ Cu!ParityChanges(w) <=> Parity(Predicted(w)) # Parity(Cu!TrueQuotes(w))
  <2>1. IsText(text) /\ Cu!TrueQuotes(w) \in SUBSET Bits /\ Predicted(w) \in SUBSET Bits
    BY <1>1, <1>3, <1>4, CuGeometry, TrueQuotesFacts
  <2> QED BY <1>3, <2>1, ParityTypes, CuOperators DEF Cu!ParityChanges, Predicted
<1>12. /\ quote_parity_masks' \in [Cu!Warps -> SUBSET (0 .. WarpSize - 1)]
       /\ \A v \in Cu!Words : v # w =>
            (Cu!Lane(v) \in quote_parity_masks'[WarpOf(v)]
               <=> Cu!Lane(v) \in quote_parity_masks[WarpOf(v)])
       /\ Cu!Lane(w) \in quote_parity_masks'[WarpOf(w)]
            <=> ~(Cu!Lane(w) \in quote_parity_masks[WarpOf(w)] <=> Cu!ParityChanges(w))
  <2> DEFINE mask == quote_parity_masks[WarpOf(w)]
  <2>1. mask \in SUBSET (0 .. WarpSize - 1) /\ WarpOf(w) \in Cu!Warps
    BY <1>1, <1>3, <1>4 DEF CuTyped
  <2>2. SymDiff(mask, {Cu!Lane(w)}) \in SUBSET (0 .. WarpSize - 1)
    BY <1>3, <1>4, <2>1 DEF SymDiff
  <2>3. \A l : l \in SymDiff(mask, {Cu!Lane(w)}) <=> ~(l \in mask <=> l = Cu!Lane(w))
    BY DEF SymDiff
  <2>4. quote_parity_masks \in [Cu!Warps -> SUBSET (0 .. WarpSize - 1)]
    BY <1>1 DEF CuTyped
  <2>5. CASE Cu!ParityChanges(w)
    BY <1>2, <1>4, <1>5, <2>1, <2>2, <2>3, <2>4, <2>5
  <2>6. CASE ~Cu!ParityChanges(w)
    BY <1>2, <2>4, <2>6
  <2> QED BY <2>5, <2>6
<1>13. QuotesHold'
  <2> SUFFICES ASSUME NEW v \in Cu!Words
               PROVE  /\ Cu!Lane(v) \in quote_parity_masks'[WarpOf(v)] <=> Parity(Quotes(v)') = 1
                      /\ structural'[v] = Cu!Outside(v, Quotes(v)', OperatorWord(text, v))
    BY <1>1, <1>9 DEF QuotesHold, Cu!Outside, Cu!Lane, WarpOf
  <2>1. /\ Cu!Lane(v) \in quote_parity_masks[WarpOf(v)] <=> Parity(Quotes(v)) = 1
        /\ structural[v] = Cu!Outside(v, Quotes(v), OperatorWord(text, v))
    BY <1>1, <1>9 DEF CuInv, QuotesHold
  <2>2. structural \in [Cu!Words -> SUBSET Bits]
    BY <1>1 DEF CuTyped
  <2>3. CASE v = w
    <3>1. structural'[w] = Cu!Outside(w, Quotes(w)', OperatorWord(text, w))
      BY <1>3, <1>8, <1>10, <2>2
    <3>2. Cu!Lane(w) \in quote_parity_masks'[WarpOf(w)] <=> Parity(Quotes(w)') = 1
      BY <1>8, <1>11, <1>12, <2>1, <2>3
    <3> QED BY <2>3, <3>1, <3>2
  <2>4. CASE v # w
    BY <1>3, <1>8, <1>10, <1>12, <2>1, <2>2, <2>4
  <2> QED BY <2>3, <2>4
<1>14. CuSchedule'
  <2>1. CuTyped'
    <3>1. structural' \in [Cu!Words -> SUBSET Bits]
      BY <1>1, <1>3, <1>10 DEF CuTyped
    <3> QED BY <1>1, <1>2, <1>12, <3>1 DEF CuTyped
  <2>2. pending' \subseteq Cu!Units(stage)'
    BY <1>1, <1>2, UnitsFacts DEF CuInv, CuSchedule, CuTyped, Cu!Units
  <2> QED BY <1>1, <2>1, <2>2, CuTypedNext DEF CuSchedule
<1>15. ClassesHold'
  BY <1>1, <1>2, <1>9 DEF CuInv, ClassesHold
<1>16. Queued'
  <2>1. \A v : Missed(v)' <=> Missed(v)
    BY <1>7 DEF Missed
  <2> QED BY <1>1, <1>2, <2>1 DEF CuInv, Queued, QueueOf
<1>17. ScanHolds' /\ ResultsHold' /\ ErrorsHold'
  BY <1>1, <1>2 DEF CuInv, ScanHolds, ResultsHold, Validated, ErrorsHold
<1> QED BY <1>13, <1>14, <1>15, <1>16, <1>17 DEF CuInv

-----------------------------------------------------------------------------
(***************************************************************************)
(* The scan.                                                               *)
(***************************************************************************)
MasksRight ==
  \A w \in Cu!Words :
    Cu!Lane(w) \in quote_parity_masks[WarpOf(w)] <=> Parity(RealQuoteWord(text, w)) = 1

LEMMA MasksAreRight ==
  ASSUME CuInv, stage \in {"scan", "validate"}
  PROVE  MasksRight
<1>1. CuTyped /\ text \in CuTexts
  BY CuTypedIsTypeOK DEF CuInv, CuSchedule, CuTyped
<1>2. \A w \in Cu!Words : w \in Tokenized /\ Quotes(w) = Cu!TrueQuotes(w) /\ w \in Nat
  BY <1>1, CuGeometry DEF Tokenized, Quotes, Awaited
<1>3. \A w \in Cu!Words : Cu!TrueQuotes(w) = RealQuoteWord(text, w)
  BY <1>1, <1>2, TrueQuotesFacts
<1> QED BY <1>2, <1>3 DEF CuInv, QuotesHold, MasksRight

\* The parity of the quotes in front of a lane, from the mask of its warp.
LEMMA ParityInWarp ==
  ASSUME text \in CuTexts, CuTyped, MasksRight, NEW n \in Cu!Warps, NEW l \in 0 .. WarpSize
  PROVE  /\ ParityBeforeWord(text, n * WarpSize + l)
              = (ParityBeforeWord(text, n * WarpSize)
                   + Cardinality(quote_parity_masks[n] \cap (0 .. l - 1))) % 2
         /\ Cardinality(quote_parity_masks[n] \cap (0 .. l - 1)) \in Nat
         /\ ParityBeforeWord(text, n * WarpSize) \in {0, 1}
<1> DEFINE first == n * WarpSize
           lanes == [k \in 0 .. WarpSize - 1 |-> Parity(RealQuoteWord(text, first + k))]
           below == quote_parity_masks[n] \cap (0 .. l - 1)
<1>1. /\ IsText(text) /\ WarpSize \in Nat \ {0} /\ n \in Nat /\ first \in Nat
      /\ l \in Nat /\ l - 1 \in Int /\ \A k \in 0 .. l - 1 : k \in 0 .. WarpSize - 1
  <2>1. IsText(text) /\ WarpSize \in Nat \ {0} /\ n \in Nat
    BY CuGeometry
  <2> QED BY <2>1
<1>2. \A k \in 0 .. WarpSize - 1 :
        /\ first + k \in Cu!Words /\ WarpOf(first + k) = n /\ Cu!Lane(first + k) = k
  BY CuGeometry
<1> HIDE DEF first
<1>3. \A k \in 0 .. l - 1 : lanes[k] = Parity(RealQuoteWord(text, first + k))
  BY <1>1
<1>4. ParityBeforeWord(text, first + l) = (ParityBeforeWord(text, first) + OddCount(lanes, 0, l - 1)) % 2
  <2> HIDE DEF lanes
  <2> QED BY <1>1, <1>3, ParityOverWords
<1>5. {k \in 0 .. l - 1 : lanes[k] = 1} = below
  BY <1>1, <1>2 DEF MasksRight
<1>6. OddCount(lanes, 0, l - 1) = Cardinality(below) % 2
  BY <1>5 DEF OddCount
<1>7. Cardinality(below) \in Nat
  <2>1. below \in SUBSET (0 .. l - 1) /\ 0 \in Int
    OBVIOUS
  <2> HIDE DEF below
  <2> QED BY <1>1, <2>1, FiniteRange
<1>8. ParityBeforeWord(text, first) \in {0, 1}
  BY <1>1, ParityTypes
<1> DEFINE a == ParityBeforeWord(text, first)
           b == Cardinality(below)
<1> HIDE DEF below
<1>9. (a + (b % 2)) % 2 = (a + b) % 2
  <2>1. a \in {0, 1} /\ b \in Nat
    BY <1>7, <1>8
  <2> HIDE DEF a, b
  <2> QED BY <2>1
<1>10. ParityBeforeWord(text, first + l) = (a + b) % 2 /\ b \in Nat /\ a \in {0, 1}
  BY <1>4, <1>6, <1>7, <1>8, <1>9
<1> QED BY <1>10 DEF first, below

\* The exclusive scan over the warps.
LEMMA ScannedIsBefore ==
  ASSUME text \in CuTexts, CuTyped, MasksRight, NEW n \in Cu!Warps
  PROVE  Cardinality({m \in 0 .. n - 1 : Cu!QuoteWarpParity(m) = 1}) % 2
           = ParityBeforeWord(text, n * WarpSize)
<1> DEFINE totals == [m \in Cu!Warps |-> Cu!QuoteWarpParity(m)]
           P(m) == OddCount(totals, 0, m - 1) = ParityBeforeWord(text, m * WarpSize)
           bad == {m \in 0 .. n : ~P(m)}
<1>1. /\ IsText(text) /\ WarpSize \in Nat \ {0} /\ n \in Nat
      /\ \A m \in 0 .. n : m \in Cu!Warps /\ m \in Nat
  <2>1. IsText(text) /\ WarpSize \in Nat \ {0} /\ n \in Nat
    BY CuGeometry
  <2>2. Cu!PaddedWarps \in Nat
    <3>1. Cu!PaddedWords \in Nat
      BY CuGeometry
    <3> QED BY <2>1, <3>1, Quotient DEF Cu!PaddedWarps
  <2> QED BY <2>1, <2>2 DEF Cu!Warps
<1>2. {m \in 0 .. n - 1 : Cu!QuoteWarpParity(m) = 1} = {m \in 0 .. n - 1 : totals[m] = 1}
  BY <1>1
<1>3. Cardinality({m \in 0 .. n - 1 : Cu!QuoteWarpParity(m) = 1}) % 2 = OddCount(totals, 0, n - 1)
  BY <1>2 DEF OddCount
<1>4. P(n)
  <2> SUFFICES ASSUME bad # {} PROVE FALSE
    <3>1. n \in 0 .. n
      BY <1>1
    <3> HIDE DEF P
    <3> QED BY <3>1
  <2>1. PICK m \in bad : \A k \in bad : m <= k
    <3>1. bad \in SUBSET Nat
      BY <1>1
    <3> HIDE DEF bad
    <3> QED BY <3>1, LeastElement
  <2>2. m \in Nat /\ m \in 0 .. n /\ ~P(m)
    BY <1>1, <2>1
  <2>3. CASE m = 0
    <3>1. OddCount(totals, 0, m - 1) = 0
      BY <2>3, OddCountFacts
    <3>2. ParityBeforeWord(text, 0) = 0
      <4>1. ParityBeforeWord(text, 0) \in {0, 1}
        BY <1>1, ParityTypes
      <4>2. ~IncomingString(text, 0 * WordBytes)
        BY <1>1, FirstWordOutside
      <4> QED BY <4>1, <4>2 DEF IncomingString, ParityBeforeWord
    <3>3. m * WarpSize = 0
      BY <1>1, <2>3
    <3> QED BY <2>2, <3>1, <3>2, <3>3
  <2>4. CASE m # 0
    <3> DEFINE k == m - 1
    <3>1. k \in Nat /\ k \in 0 .. n /\ m = k + 1 /\ k - 1 \in Int /\ k < m
      BY <1>1, <2>2, <2>4
    <3>2. P(k)
      <4>1. k \notin bad
        BY <1>1, <2>1, <2>2, <3>1
      <4> QED BY <3>1, <4>1
    <3> HIDE DEF k
    <3>3. OddCount(totals, 0, k) = (OddCount(totals, 0, k - 1) + OddCount(totals, k, k)) % 2
      <4>1. (k - 1) + 1 = k /\ 0 <= k /\ k - 1 <= k /\ 0 \in Int /\ k \in Int
        BY <3>1
      <4> HIDE DEF totals
      <4>2. OddCount(totals, 0, k) = (OddCount(totals, 0, k - 1) + OddCount(totals, (k - 1) + 1, k)) % 2
        BY <3>1, <4>1, OddCountSplit
      <4> QED BY <4>1, <4>2
    <3> DEFINE mask == quote_parity_masks[k]
               c == Cardinality(mask)
               before == ParityBeforeWord(text, k * WarpSize)
    <3>4. totals[k] = c % 2
      BY <1>1, <3>1, CuOperators DEF Cu!QuoteWarpParity
    <3>5. /\ ParityBeforeWord(text, k * WarpSize + WarpSize) = (before + c) % 2
          /\ c \in Nat /\ before \in {0, 1}
      <4>1. mask \cap (0 .. WarpSize - 1) = mask
        BY <1>1, <3>1 DEF CuTyped
      <4>2. k \in Cu!Warps /\ WarpSize \in 0 .. WarpSize
        BY <1>1, <3>1
      <4> QED BY <4>1, <4>2, ParityInWarp
    <3>6. m * WarpSize = k * WarpSize + WarpSize /\ k = m - 1
      BY <1>1, <3>1
    <3>7. OddCount(totals, k, k) = IF totals[k] = 1 THEN 1 ELSE 0
      <4> HIDE DEF totals
      <4> QED BY <3>1, OddCountFacts
    <3> HIDE DEF c, before, totals
    <3>8. c % 2 \in {0, 1} /\ (before + (c % 2)) % 2 = (before + c) % 2
      BY <3>5
    <3>9. OddCount(totals, 0, k) = (before + (c % 2)) % 2
      <4>1. OddCount(totals, 0, k - 1) = before
        BY <3>2 DEF before, totals
      <4>2. OddCount(totals, k, k) = c % 2
        BY <3>4, <3>7, <3>8
      <4> QED BY <3>3, <4>1, <4>2
    <3>10. OddCount(totals, 0, m - 1) = ParityBeforeWord(text, m * WarpSize)
      BY <3>5, <3>6, <3>8, <3>9
    <3> QED BY <2>2, <3>10 DEF totals
  <2> QED BY <2>3, <2>4
<1> QED BY <1>3, <1>4

LEMMA CuScan ==
  ASSUME CuInv, Cu!ExclusiveScan
  PROVE  CuInv'
<1>1. /\ CuTyped /\ text \in CuTexts /\ stage = "scan" /\ launch > 0 /\ 0 \in pending
      /\ UNCHANGED <<text, launch, stage>> /\ pending' = pending \ {0}
      /\ Cu!Words' = Cu!Words /\ Cu!Warps' = Cu!Warps /\ Cu!PaddedWords' = Cu!PaddedWords
  <2>1. Cu!Runs("scan", 0)
    BY DEF Cu!ExclusiveScan
  <2> QED BY <2>1, RunsFacts
<1>2. /\ UNCHANGED <<operators, raw_open_close, trailing_slashes, structural, filtered_open_close,
                     structural_counts, open_close_counts, quote_parity_masks, recovery_words,
                     recovery_count, utf_error>>
      /\ quote_warp_prefix' =
           [n \in Cu!Warps |-> Cardinality({m \in 0 .. n - 1 : Cu!QuoteWarpParity(m) = 1}) % 2]
  BY CuOperators DEF Cu!ExclusiveScan, Cu!raw, Cu!outputs, Cu!recovery, Cu!ScannedBefore
<1>3. pending \subseteq {0}
  BY <1>1, UnitsFacts DEF CuInv, CuSchedule, CuTyped
<1>4. \A n \in Cu!Warps : /\ quote_warp_prefix'[n] = ParityBeforeWord(text, n * WarpSize)
                          /\ ParityBeforeWord(text, n * WarpSize) \in {0, 1}
  <2> SUFFICES ASSUME NEW n \in Cu!Warps
               PROVE  /\ quote_warp_prefix'[n] = ParityBeforeWord(text, n * WarpSize)
                      /\ ParityBeforeWord(text, n * WarpSize) \in {0, 1}
    OBVIOUS
  <2>1. MasksRight
    BY <1>1, MasksAreRight
  <2>2. quote_warp_prefix'[n] = Cardinality({m \in 0 .. n - 1 : Cu!QuoteWarpParity(m) = 1}) % 2
    BY <1>2
  <2>3. Cardinality({m \in 0 .. n - 1 : Cu!QuoteWarpParity(m) = 1}) % 2
          = ParityBeforeWord(text, n * WarpSize)
    BY <1>1, <2>1, ScannedIsBefore
  <2>4. ParityBeforeWord(text, n * WarpSize) \in {0, 1}
    <3>1. IsText(text) /\ n * WarpSize \in Nat
      BY <1>1, CuGeometry
    <3> QED BY <3>1, ParityTypes
  <2> QED BY <2>2, <2>3, <2>4
<1>5. ScanHolds'
  BY <1>1, <1>4 DEF ScanHolds
<1>6. CuSchedule'
  <2>1. quote_warp_prefix' \in [Cu!Warps -> {0, 1}]
    BY <1>2, <1>4
  <2>2. CuTyped'
    BY <1>1, <1>2, <2>1 DEF CuTyped
  <2>3. pending' \subseteq Cu!Units(stage)'
    BY <1>1, <1>3
  <2> QED BY <1>1, <2>2, <2>3, CuTypedNext DEF CuSchedule
<1>7. Tokenized = Cu!Words /\ Tokenized' = Cu!Words
  BY <1>1 DEF Tokenized
<1>8. ClassesHold'
  BY <1>1, <1>2, <1>7 DEF CuInv, ClassesHold
<1>9. \A v : Quotes(v)' = Quotes(v)
  BY <1>1, <1>2 DEF Quotes, Awaited, Predicted, Cu!TrueQuotes, Cu!QuotesGiven
<1>10. QuotesHold'
  BY <1>1, <1>2, <1>7, <1>9 DEF CuInv, QuotesHold, Cu!Outside, Cu!Lane, WarpOf
<1>11. Queued' /\ ResultsHold' /\ ErrorsHold'
  BY <1>1, <1>2 DEF CuInv, Queued, ResultsHold, Validated, ErrorsHold
<1> QED BY <1>5, <1>6, <1>8, <1>10, <1>11 DEF CuInv

-----------------------------------------------------------------------------
(***************************************************************************)
(* The last kernel.                                                        *)
(***************************************************************************)
LEMMA IncomingIsSpecified ==
  ASSUME CuInv, stage = "validate", NEW w \in Cu!Words
  PROVE  Cu!Incoming(w) = 1 <=> IncomingString(text, w * WordBytes)
<1> DEFINE n == WarpOf(w)
           l == Cu!Lane(w)
           a == ParityBeforeWord(text, n * WarpSize)
           b == Cardinality(quote_parity_masks[n] \cap (0 .. l - 1))
<1>1. CuTyped /\ text \in CuTexts /\ MasksRight
  BY CuTypedIsTypeOK, MasksAreRight DEF CuInv, CuSchedule, CuTyped
<1>2. n \in Cu!Warps /\ l \in 0 .. WarpSize /\ w = n * WarpSize + l
  <2>1. /\ WarpSize \in Nat \ {0} /\ n \in Cu!Warps /\ l \in 0 .. WarpSize - 1
        /\ w = n * WarpSize + l
    BY <1>1, CuGeometry
  <2> QED BY <2>1
<1>3. quote_warp_prefix[n] = a
  BY <1>2 DEF CuInv, ScanHolds
<1>4. Cu!Incoming(w) = (quote_warp_prefix[n] + b) % 2
  BY CuOperators DEF Cu!Incoming, Cu!LowerLanes, WarpOf
<1>5. ParityBeforeWord(text, n * WarpSize + l) = (a + b) % 2
  <2> HIDE DEF n, l
  <2> QED BY <1>1, <1>2, ParityInWarp
<1>6. Cu!Incoming(w) = ParityBeforeWord(text, w)
  BY <1>2, <1>3, <1>4, <1>5
<1> QED BY <1>6 DEF ParityBeforeWord, IncomingString

\* With the state that enters it, the correction of a word gives the specified bitmaps.
LEMMA CorrectionIsSpecified ==
  ASSUME CuInv, NEW w \in pending, stage = "validate"
  PROVE  /\ SymDiff(structural[w], IF Cu!Incoming(w) = 1 THEN operators[w] ELSE {})
              = StructuralWord(text, w)
         /\ StructuralWord(text, w) \cap raw_open_close[w] = OpenCloseResult(text, w)
         /\ StructuralWord(text, w) \in SUBSET Bits /\ OpenCloseResult(text, w) \in SUBSET Bits
<1> DEFINE quotes == RealQuoteWord(text, w)
           before == IncomingString(text, w * WordBytes)
           operator == OperatorWord(text, w)
           inside == InStringWord(text, w)
<1>1. /\ CuTyped /\ text \in CuTexts /\ w \in Cu!Words /\ w \in Tokenized /\ IsText(text) /\ w \in Nat
      /\ Cu!TrueQuotes(w) = quotes
  <2>1. CuTyped /\ text \in CuTexts /\ w \in Cu!Words
    BY CuTypedIsTypeOK DEF CuInv, CuSchedule, CuTyped
  <2>2. IsText(text) /\ w \in Nat
    BY <2>1, CuGeometry
  <2> QED BY <2>1, <2>2, TrueQuotesFacts DEF Tokenized
<1>2. operators[w] = operator /\ raw_open_close[w] = OpenCloseWord(text, w)
  BY <1>1 DEF CuInv, ClassesHold
<1>3. structural[w] = Invert(PrefixXor(quotes)) \cap operator
  <2>1. Quotes(w) = quotes
    BY <1>1 DEF Quotes, Awaited
  <2>2. structural[w] = Cu!Outside(w, Quotes(w), operator)
    BY <1>1 DEF CuInv, QuotesHold
  <2> QED BY <2>1, <2>2, CuOperators DEF Cu!Outside
<1>4. Cu!Incoming(w) = 1 <=> before
  BY <1>1, IncomingIsSpecified
<1>5. inside = InStringCandidate(quotes, before)
  BY <1>1, CandidateIsInStringWord
<1>6. operator \ inside = StructuralWord(text, w) /\ OpenCloseWord(text, w) \ inside = OpenCloseResult(text, w)
  BY <1>1, MaskedIsSpecified
<1>7. operator \in SUBSET Bits /\ OpenCloseWord(text, w) \subseteq operator
  BY DEF OperatorWord, OpenCloseWord, BitsWhere
<1> HIDE DEF quotes, before, operator, inside
<1>8. SymDiff(structural[w], IF Cu!Incoming(w) = 1 THEN operators[w] ELSE {}) = operator \ inside
  <2>1. CASE before
    BY <1>2, <1>3, <1>4, <1>5, <1>7, <2>1 DEF SymDiff, InStringCandidate, Invert, PrefixXor
  <2>2. CASE ~before
    BY <1>2, <1>3, <1>4, <1>5, <1>7, <2>2 DEF SymDiff, InStringCandidate, Invert, PrefixXor
  <2> QED BY <2>1, <2>2
<1>9. (operator \ inside) \cap OpenCloseWord(text, w) = OpenCloseWord(text, w) \ inside
  BY <1>7
<1> QED BY <1>2, <1>6, <1>7, <1>8, <1>9

LEMMA CuValidate ==
  ASSUME CuInv, NEW w \in Cu!Words, Cu!ValidateAndRecoverInString(w)
  PROVE  CuInv'
<1>1. /\ CuTyped /\ text \in CuTexts /\ stage = "validate" /\ launch > 0 /\ w \in pending
      /\ UNCHANGED <<text, launch, stage>> /\ pending' = pending \ {w} /\ pending' \subseteq Cu!Words
      /\ Cu!Words' = Cu!Words /\ Cu!Warps' = Cu!Warps /\ Cu!PaddedWords' = Cu!PaddedWords
  <2>1. Cu!Runs("validate", w)
    BY DEF Cu!ValidateAndRecoverInString
  <2> QED BY <2>1, RunsFacts
<1> DEFINE corrected == SymDiff(structural[w], IF Cu!Incoming(w) = 1 THEN operators[w] ELSE {})
           filtered  == corrected \cap raw_open_close[w]
<1>2. /\ UNCHANGED <<operators, raw_open_close, trailing_slashes, quote_parity_masks,
                     quote_warp_prefix, recovery_words, recovery_count, utf_error>>
      /\ structural'          = [structural EXCEPT ![w] = corrected]
      /\ filtered_open_close' = [filtered_open_close EXCEPT ![w] = filtered]
      /\ structural_counts'   = [structural_counts EXCEPT ![w] = Cardinality(corrected)]
      /\ open_close_counts'   = [open_close_counts EXCEPT ![w] = Cardinality(filtered)]
  BY CuOperators DEF Cu!ValidateAndRecoverInString, Cu!raw, Cu!recovery
<1>3. /\ corrected = StructuralWord(text, w) /\ filtered = OpenCloseResult(text, w)
      /\ StructuralWord(text, w) \in SUBSET Bits /\ OpenCloseResult(text, w) \in SUBSET Bits
  BY <1>1, CorrectionIsSpecified
<1> HIDE DEF corrected, filtered
<1>4. \A word \in SUBSET Bits : Cardinality(word) \in 0 .. WordBytes
  <2> SUFFICES ASSUME NEW word \in SUBSET Bits PROVE Cardinality(word) \in 0 .. WordBytes
    OBVIOUS
  <2>1. WordBytes \in Nat
    BY WordBytesAssumption
  <2>2. IsFiniteSet(Bits) /\ Cardinality(Bits) = WordBytes
    BY <2>1, FS_Interval DEF Bits
  <2>3. IsFiniteSet(word) /\ Cardinality(word) <= WordBytes
    BY <2>2, FS_Subset
  <2>4. Cardinality(word) \in Nat
    BY <2>3, FS_CardinalityType
  <2> QED BY <2>1, <2>3, <2>4
<1>5. CuSchedule'
  <2>1. CuTyped'
    <3>1. Cardinality(corrected) \in 0 .. WordBytes /\ Cardinality(filtered) \in 0 .. WordBytes
      BY <1>3, <1>4
    <3>2. structural' \in [Cu!Words -> SUBSET Bits] /\ filtered_open_close' \in [Cu!Words -> SUBSET Bits]
      BY <1>1, <1>2, <1>3 DEF CuTyped
    <3>3. /\ structural_counts' \in [Cu!Words -> 0 .. WordBytes]
          /\ open_close_counts' \in [Cu!Words -> 0 .. WordBytes]
      BY <1>1, <1>2, <3>1 DEF CuTyped
    <3> QED BY <1>1, <1>2, <3>2, <3>3 DEF CuTyped
  <2>2. pending' \subseteq Cu!Units(stage)'
    BY <1>1, UnitsFacts DEF CuInv, CuSchedule, CuTyped, Cu!Units
  <2> QED BY <1>1, <2>1, <2>2, CuTypedNext DEF CuSchedule
<1>6. Tokenized = Cu!Words /\ Tokenized' = Cu!Words
  BY <1>1 DEF Tokenized
<1>7. ClassesHold'
  BY <1>1, <1>2, <1>6 DEF CuInv, ClassesHold
<1>8. QuotesHold'
  <2>1. \A v : Quotes(v)' = Quotes(v)
    BY <1>1, <1>2 DEF Quotes, Awaited, Predicted, Cu!TrueQuotes, Cu!QuotesGiven
  <2>2. \A v \in Cu!Words : v # w => structural'[v] = structural[v]
    BY <1>1, <1>2 DEF CuTyped
  <2> QED BY <1>1, <1>2, <1>6, <2>1, <2>2 DEF CuInv, QuotesHold, Cu!Outside, Cu!Lane, WarpOf
<1>9. ResultsHold'
  <2> SUFFICES ASSUME NEW v \in Validated'
               PROVE  /\ structural'[v] = StructuralWord(text, v)
                      /\ filtered_open_close'[v] = OpenCloseResult(text, v)
                      /\ structural_counts'[v] = Cardinality(StructuralWord(text, v))
                      /\ open_close_counts'[v] = Cardinality(OpenCloseResult(text, v))
    BY <1>1 DEF ResultsHold
  <2>1. v \in Cu!Words /\ (v # w => v \in Validated)
    BY <1>1 DEF Validated
  <2>2. CASE v = w
    BY <1>1, <1>2, <1>3, <2>2 DEF CuTyped
  <2>3. CASE v # w
    <3>1. /\ structural'[v] = structural[v] /\ filtered_open_close'[v] = filtered_open_close[v]
          /\ structural_counts'[v] = structural_counts[v]
          /\ open_close_counts'[v] = open_close_counts[v]
      BY <1>1, <1>2, <2>1, <2>3 DEF CuTyped
    <3> QED BY <2>1, <2>3, <3>1 DEF CuInv, ResultsHold
  <2> QED BY <2>2, <2>3
<1>10. Queued' /\ ScanHolds' /\ ErrorsHold'
  BY <1>1, <1>2 DEF CuInv, Queued, ScanHolds, ErrorsHold
<1> QED BY <1>5, <1>7, <1>8, <1>9, <1>10 DEF CuInv

-----------------------------------------------------------------------------
(***************************************************************************)
(* Every step.                                                             *)
(***************************************************************************)
LEMMA CuStarts ==
  ASSUME Cu!Init
  PROVE  CuInv
<1>1. /\ text \in CuTexts /\ launch = 0 /\ stage = "idle" /\ pending = {} /\ utf_error = FALSE
  BY DEF Cu!Init
<1>2. PICK garbage \in {0, 1} :
        LET bits == {b \in Bits : garbage = 1} IN
        /\ operators           = [w \in Cu!Words |-> bits]
        /\ raw_open_close      = [w \in Cu!Words |-> bits]
        /\ structural          = [w \in Cu!Words |-> bits]
        /\ filtered_open_close = [w \in Cu!Words |-> bits]
        /\ structural_counts   = [w \in Cu!Words |-> garbage]
        /\ open_close_counts   = [w \in Cu!Words |-> garbage]
        /\ trailing_slashes    = [w \in Cu!Words |-> garbage]
        /\ quote_parity_masks  = [n \in Cu!Warps |-> {l \in 0 .. WarpSize - 1 : garbage = 1}]
        /\ quote_warp_prefix   = [n \in Cu!Warps |-> garbage]
        /\ recovery_words      = [k \in Cu!Words |-> 0]
        /\ recovery_count      = garbage
  BY CuOperators DEF Cu!Init
<1>3. /\ Launches \in Nat /\ WordBytes \in Nat \ {0} /\ Cu!PaddedWords \in Nat \ {0} /\ 0 \in Cu!Words
  BY <1>1, CuGeometry, CuAssumed, WordBytesAssumption DEF Cu!CuHierarchyAssumption, Cu!Words
<1>4. CuTyped
  <2>1. garbage \in 0 .. WordBytes /\ garbage \in 0 .. Cu!PaddedWords /\ launch \in 0 .. Launches
    BY <1>1, <1>3
  <2>2. {b \in Bits : garbage = 1} \in SUBSET Bits
        /\ {l \in 0 .. WarpSize - 1 : garbage = 1} \in SUBSET (0 .. WarpSize - 1)
    OBVIOUS
  <2> QED BY <1>1, <1>2, <1>3, <2>1, <2>2 DEF CuTyped
<1>5. CuSchedule
  BY <1>1, <1>4, CuTypedIsTypeOK DEF CuSchedule
<1>6. Tokenized = {} /\ Validated = {}
  BY <1>1 DEF Tokenized, Validated
<1>7. ClassesHold /\ Queued /\ QuotesHold /\ ScanHolds /\ ResultsHold /\ ErrorsHold
  BY <1>1, <1>6 DEF ClassesHold, Queued, QuotesHold, ScanHolds, ResultsHold, ErrorsHold
<1> QED BY <1>5, <1>7 DEF CuInv

LEMMA CuSteps ==
  ASSUME CuInv, Cu!Next
  PROVE  CuInv'
<1>1. CASE Cu!Launch
  BY <1>1, CuStart
<1>2. CASE Cu!NextKernel
  BY <1>2, CuNextKernel
<1>3. CASE Cu!ExclusiveScan
  BY <1>3, CuScan
<1>4. ASSUME NEW n \in Cu!Warps, Cu!Speculate(n) PROVE CuInv'
  BY <1>4, CuSpeculate
<1>5. ASSUME NEW n \in Cu!Warps, Cu!LookbackAndValidate(n) PROVE CuInv'
  BY <1>5, CuLookback
<1>6. ASSUME NEW position \in pending, Cu!RecoverEscapedQuotes(position) PROVE CuInv'
  BY <1>6, CuRecover
<1>7. ASSUME NEW w \in Cu!Words, Cu!ValidateAndRecoverInString(w) PROVE CuInv'
  BY <1>7, CuValidate
<1> QED BY <1>1, <1>2, <1>3, <1>4, <1>5, <1>6, <1>7 DEF Cu!Next

LEMMA CuStutters ==
  ASSUME CuInv, UNCHANGED <<text, launch, stage, pending, OfCu, recovery_count, utf_error>>
  PROVE  CuInv'
<1>1. /\ UNCHANGED <<text, launch, stage, pending, operators, raw_open_close, structural,
                     filtered_open_close, structural_counts, open_close_counts, trailing_slashes,
                     quote_parity_masks, quote_warp_prefix, recovery_words, recovery_count, utf_error>>
  BY DEF OfCu
<1>2. Cu!Words' = Cu!Words /\ Cu!Warps' = Cu!Warps /\ Cu!PaddedWords' = Cu!PaddedWords
  BY <1>1, CuOperators DEF Cu!Words, Cu!Warps, Cu!PaddedWords, Cu!PaddedWarps, Cu!Blocks
<1>3. CuSchedule'
  <2>1. CuTyped'
    BY <1>1, <1>2, CuTypedIsTypeOK DEF CuInv, CuSchedule, CuTyped
  <2>2. Cu!Units(stage)' = Cu!Units(stage)
    BY <1>1, <1>2 DEF Cu!Units
  <2> QED BY <1>1, <2>1, <2>2, CuTypedNext DEF CuInv, CuSchedule
<1>4. Tokenized' = Tokenized /\ Validated' = Validated
  BY <1>1, <1>2 DEF Tokenized, Validated, WarpOf
<1>5. \A w : /\ Quotes(w)' = Quotes(w) /\ Missed(w)' = Missed(w)
  BY <1>1 DEF Quotes, Awaited, Missed, Predicted, Cu!TrueQuotes, Cu!QuotesGiven
<1>6. ClassesHold' /\ ResultsHold' /\ ScanHolds' /\ ErrorsHold'
  BY <1>1, <1>2, <1>4 DEF CuInv, ClassesHold, ResultsHold, ScanHolds, ErrorsHold, WarpOf
<1>7. Queued'
  BY <1>1, <1>2, <1>5 DEF CuInv, Queued, QueueOf, WarpOf
<1>8. QuotesHold'
  BY <1>1, <1>4, <1>5 DEF CuInv, QuotesHold, Cu!Outside, Cu!Lane, WarpOf
<1> QED BY <1>3, <1>6, <1>7, <1>8 DEF CuInv

-----------------------------------------------------------------------------
\* The hierarchy keeps its invariant for every text, block, warp and recovery grid, any
\* number of launches on the same buffers and any order of the warps, the queue positions
\* and the threads of a kernel.
THEOREM HierarchyInvariant == StreamsSpec => []HierarchyInv
<1>1. StreamsInit => HierarchyInv
  BY CuStarts DEF StreamsInit, HierarchyInv, InHierarchy
<1>2. HierarchyInv /\ [StreamsNext]_allVars => HierarchyInv'
  <2> SUFFICES ASSUME HierarchyInv, [StreamsNext]_allVars, benchmark' = "cu_hierarchy" PROVE CuInv'
    BY DEF HierarchyInv, InHierarchy
  <2>1. CASE StreamsNext
    <3>1. benchmark = "cu_hierarchy" /\ Cu!Next
      BY <2>1 DEF StreamsNext
    <3> QED BY <3>1, CuSteps DEF HierarchyInv, InHierarchy
  <2>2. CASE UNCHANGED allVars
    <3>1. /\ benchmark = "cu_hierarchy"
          /\ UNCHANGED <<text, launch, stage, pending, OfCu, recovery_count, utf_error>>
      BY <2>2 DEF allVars, vars, problem, OfErrors, recovery, schedule
    <3> QED BY <3>1, CuStutters DEF HierarchyInv, InHierarchy
  <2> QED BY <2>1, <2>2
<1> QED BY <1>1, <1>2, PTL DEF StreamsSpec

\* Every buffer has its type, garbage of cudaMalloc included, and no kernel runs a unit
\* beyond its grid or its queue.
THEOREM HierarchyTypeOK == StreamsSpec => [](InHierarchy => Cu!TypeOK)
<1>1. HierarchyInv => (InHierarchy => Cu!TypeOK)
  BY DEF HierarchyInv, CuInv, CuSchedule
<1> QED BY <1>1, HierarchyInvariant, PTL

\* The queue that the warps fill concurrently holds, when it is worked off, every word
\* whose quotes were predicted wrong, each of them once: the lookback goes through any
\* number of words of backslashes, and no launch leaves an entry to the next one.
THEOREM HierarchyQueueExact == StreamsSpec => [](InHierarchy => Cu!QueueIsMispredictions)
<1>1. HierarchyInv => (InHierarchy => Cu!QueueIsMispredictions)
  BY DEF HierarchyInv, CuInv, Queued, QueueOf, Missed, Predicted, Cu!QueueIsMispredictions
<1> QED BY <1>1, HierarchyInvariant, PTL

\* While the queued words are recovered in any order, the mask of a warp is right for
\* every lane that is not in the queue any more, whatever recoveries the words next to it
\* in the same warp have had.
THEOREM HierarchyParityRecovered == StreamsSpec => []ParityRecovered
<1>1. HierarchyInv => ParityRecovered
  <2> SUFFICES ASSUME CuInv, stage = "recover", NEW w \in Cu!Words,
                      \A k \in pending : recovery_words[k] # w
               PROVE  Cu!Lane(w) \in quote_parity_masks[w \div WarpSize]
                        <=> Cu!Parity(Cu!TrueQuotes(w)) = 1
    BY DEF HierarchyInv, InHierarchy, ParityRecovered, Cu!ParityRecovered
  <2>1. w \in Tokenized /\ ~Awaited(w)
    BY DEF Tokenized, Awaited
  <2> QED BY <2>1, CuOperators DEF CuInv, QuotesHold, Quotes, WarpOf
<1> QED BY <1>1, HierarchyInvariant, PTL

\* The scan over the warps and the lanes below a thread give the string state that enters
\* its word, however many warps and blocks there are.
THEOREM HierarchyIncomingStates == StreamsSpec => [](InHierarchy => Cu!IncomingIsStringState)
<1>1. HierarchyInv => (InHierarchy => Cu!IncomingIsStringState)
  <2> SUFFICES ASSUME CuInv, stage = "validate", NEW w \in Cu!Words
               PROVE  Cu!Incoming(w) = 1 <=> Cu!IncomingString(text, w * WordBytes)
    BY DEF HierarchyInv, Cu!IncomingIsStringState
  <2> QED BY IncomingIsSpecified, CuSpecified
<1> QED BY <1>1, HierarchyInvariant, PTL

\* After every launch the bitmaps are the specified ones for every word of every input,
\* and the counts are those of the bitmaps.
THEOREM HierarchyOutputCorrect == StreamsSpec => [](InHierarchy => Cu!OutputCorrect)
<1>1. HierarchyInv => (InHierarchy => Cu!OutputCorrect)
  <2> SUFFICES ASSUME CuInv, Cu!LaunchComplete, NEW w \in Cu!Words
               PROVE  /\ structural[w] = StructuralWord(text, w)
                      /\ filtered_open_close[w] = OpenCloseResult(text, w)
                      /\ structural_counts[w] = Cardinality(StructuralWord(text, w))
                      /\ open_close_counts[w] = Cardinality(OpenCloseResult(text, w))
    BY CuSpecified, CuOperators DEF HierarchyInv, Cu!OutputCorrect
  <2>1. w \in Validated
    BY DEF Cu!LaunchComplete, Validated
  <2> QED BY <2>1 DEF CuInv, ResultsHold
<1> QED BY <1>1, HierarchyInvariant, PTL

-----------------------------------------------------------------------------
(***************************************************************************)
(* The control without validation: the same first kernel, and a summary of *)
(* the backslashes of every word.                                          *)
(***************************************************************************)
InControl == benchmark = "cu_control"

ControlSchedule ==
  /\ CuTyped /\ slash_transitions \in [Cu!Words -> 0 .. 2]
  /\ stage \in {"idle", "speculate"}
  /\ stage = "idle" => pending = {}
  /\ stage = "speculate" => launch > 0 /\ pending \subseteq Cu!Warps

\* The words that this launch has tokenized; between launches, all of them.
Speculated == {w \in Cu!Words : launch > 0 /\ WarpOf(w) \notin pending}

PredictionsHold ==
  \A w \in Speculated :
    /\ structural[w] = Cu!Outside(w, Predicted(w), OperatorWord(text, w))
    /\ filtered_open_close[w] = structural[w] \cap OpenCloseWord(text, w)
    /\ slash_transitions[w] = SlashTransition(w)

ControlHolds == ControlSchedule /\ PredictionsHold /\ ErrorsHold

ControlInv == InControl => ControlHolds

LEMMA SlashTransitionFacts ==
  ASSUME NEW w
  PROVE  /\ SlashTransition(w) \in 0 .. 2
         /\ SlashTransition(w) = 1 <=> SlashWord(text, w) = Bits
         /\ SlashWord(text, w) # Bits => SlashTransition(w) \div 2 = TrailingOnes(SlashWord(text, w)) % 2
<1>1. SlashWord(text, w) \in SUBSET Bits /\ WordBytes \in Nat \ {0}
  BY WordBytesAssumption DEF SlashWord, BitsWhere
<1>2. CASE SlashWord(text, w) = Bits
  <2>1. TrailingOnes(SlashWord(text, w)) = WordBytes
    BY <1>2 DEF TrailingOnes
  <2> QED BY <1>2, <2>1 DEF SlashTransition
<1>3. CASE SlashWord(text, w) # Bits
  <2> DEFINE n == TrailingOnes(SlashWord(text, w))
  <2>1. n \in 0 .. WordBytes - 1
    BY <1>1, <1>3, TrailingOnesFacts
  <2> HIDE DEF n
  <2>2. n \in Nat /\ n # WordBytes
    BY <1>1, <2>1
  <2>3. n % 2 \in {0, 1} /\ SlashTransition(w) = 2 * (n % 2)
    BY <2>2 DEF SlashTransition, n
  <2> QED BY <1>3, <2>3 DEF n
<1> QED BY <1>2, <1>3

LEMMA ControlStarts ==
  ASSUME CuControlInit
  PROVE  ControlHolds
<1>1. CuInv /\ slash_transitions = [w \in Cu!Words |-> 0] /\ launch = 0 /\ stage = "idle" /\ pending = {}
  BY CuStarts DEF CuControlInit, Cu!Init
<1>2. ControlSchedule
  BY <1>1, CuTypedIsTypeOK DEF CuInv, CuSchedule, ControlSchedule
<1>3. PredictionsHold
  BY <1>1 DEF PredictionsHold, Speculated, CuTyped
<1> QED BY <1>1, <1>2, <1>3 DEF ControlHolds, CuInv

LEMMA ControlLaunches ==
  ASSUME ControlHolds, CuControlLaunch
  PROVE  ControlHolds'
<1>1. /\ stage = "idle" /\ launch < Launches /\ launch' = launch + 1
      /\ stage' = "speculate" /\ pending' = Cu!Warps
      /\ UNCHANGED <<text, operators, raw_open_close, trailing_slashes, structural,
                     filtered_open_close, structural_counts, open_close_counts, quote_parity_masks,
                     quote_warp_prefix, recovery_words, recovery_count, utf_error, slash_transitions>>
  BY DEF CuControlLaunch, CuUnused
<1>2. CuTyped /\ text \in CuTexts /\ slash_transitions \in [Cu!Words -> 0 .. 2] /\ ErrorsHold
  BY DEF ControlHolds, ControlSchedule, CuTyped
<1>3. Cu!Words' = Cu!Words /\ Cu!Warps' = Cu!Warps /\ Cu!PaddedWords' = Cu!PaddedWords
  BY <1>1, CuOperators DEF Cu!Words, Cu!Warps, Cu!PaddedWords, Cu!PaddedWarps, Cu!Blocks
<1>4. Launches \in Nat /\ launch \in Nat
  BY <1>2, CuAssumed DEF Cu!CuHierarchyAssumption, CuTyped
<1>5. ControlSchedule'
  <2>1. Cu!Warps \subseteq Cu!Words /\ Cu!PaddedWords \in Nat
    BY <1>2, UnitsFacts, CuGeometry DEF CuTyped
  <2>2. CuTyped'
    BY <1>1, <1>2, <1>3, <1>4, <2>1 DEF CuTyped
  <2> QED BY <1>1, <1>2, <1>3, <1>4, <2>2 DEF ControlSchedule
<1>6. \A w \in Cu!Words : WarpOf(w) \in Cu!Warps
  BY <1>2, CuGeometry
<1>7. PredictionsHold'
  <2>1. Speculated' = {}
    BY <1>1, <1>3, <1>6 DEF Speculated, WarpOf
  <2> QED BY <2>1 DEF PredictionsHold
<1>8. ErrorsHold'
  BY <1>1, <1>2, <1>3, <1>6 DEF ErrorsHold, WarpOf
<1> QED BY <1>5, <1>7, <1>8 DEF ControlHolds

\* Nothing else changes when a launch ends, or when another program's step is none here.
LEMMA ControlRests ==
  ASSUME ControlHolds, pending' = pending, stage' = stage \/ CuControlEnds,
         UNCHANGED <<text, launch, OfCu, recovery_count, utf_error, slash_transitions>>
  PROVE  ControlHolds'
<1>1. UNCHANGED <<text, launch, pending, operators, raw_open_close, structural, filtered_open_close,
                  structural_counts, open_close_counts, trailing_slashes, quote_parity_masks,
                  quote_warp_prefix, recovery_words, recovery_count, utf_error, slash_transitions>>
  BY DEF OfCu
<1>2. stage' = stage \/ (stage' = "idle" /\ pending = {})
  BY DEF CuControlEnds
<1>3. Cu!Words' = Cu!Words /\ Cu!Warps' = Cu!Warps /\ Cu!PaddedWords' = Cu!PaddedWords
  BY <1>1, CuOperators DEF Cu!Words, Cu!Warps, Cu!PaddedWords, Cu!PaddedWarps, Cu!Blocks
<1>4. ControlSchedule'
  <2>1. CuTyped'
    BY <1>1, <1>2, <1>3 DEF ControlHolds, ControlSchedule, CuTyped
  <2> QED BY <1>1, <1>2, <1>3, <2>1 DEF ControlHolds, ControlSchedule
<1>5. PredictionsHold'
  <2>1. Speculated' = Speculated
    BY <1>1, <1>3 DEF Speculated, WarpOf
  <2> QED BY <1>1, <2>1 DEF ControlHolds, PredictionsHold, Cu!Outside, Predicted, Cu!QuotesGiven,
                            SlashTransition
<1>6. ErrorsHold'
  BY <1>1, <1>2, <1>3 DEF ControlHolds, ErrorsHold, WarpOf
<1> QED BY <1>4, <1>5, <1>6 DEF ControlHolds

LEMMA ControlPredicts ==
  ASSUME ControlHolds, NEW n \in Cu!Warps, CuPredict(n)
  PROVE  ControlHolds'
<1>1. Cu!Tokenize(n) /\ Cu!Runs("speculate", n)
  BY DEF CuPredict, Cu!Tokenize
<1>2. /\ CuTyped /\ text \in CuTexts /\ slash_transitions \in [Cu!Words -> 0 .. 2]
      /\ stage = "speculate" /\ launch > 0 /\ pending \subseteq Cu!Warps
      /\ UNCHANGED <<text, launch, stage>> /\ pending' = pending \ {n}
      /\ Cu!Words' = Cu!Words /\ Cu!Warps' = Cu!Warps /\ Cu!PaddedWords' = Cu!PaddedWords
  <2>1. stage = "speculate" /\ UNCHANGED <<text, launch, stage>> /\ pending' = pending \ {n}
    BY <1>1 DEF Cu!Runs, Cu!problem
  <2>2. Cu!Words' = Cu!Words /\ Cu!Warps' = Cu!Warps /\ Cu!PaddedWords' = Cu!PaddedWords
    BY <2>1, CuOperators DEF Cu!Words, Cu!Warps, Cu!PaddedWords, Cu!PaddedWarps, Cu!Blocks
  <2> QED BY <2>1, <2>2 DEF ControlHolds, ControlSchedule, CuTyped
<1>3. UNCHANGED <<trailing_slashes, structural_counts, open_close_counts, quote_warp_prefix,
                  recovery_words, recovery_count>>
  BY DEF CuPredict, CuUnused
<1>4. /\ \A w \in Cu!Words : w \in Cu!WarpWords(n) <=> WarpOf(w) = n
      /\ \A w \in Cu!Words : w \in Nat /\ WarpOf(w) \in Cu!Warps
  BY <1>2, CuGeometry
<1>5. /\ operators' \in [Cu!Words -> SUBSET Bits] /\ raw_open_close' \in [Cu!Words -> SUBSET Bits]
      /\ structural' \in [Cu!Words -> SUBSET Bits]
      /\ quote_parity_masks' \in [Cu!Warps -> SUBSET (0 .. WarpSize - 1)]
      /\ utf_error' \in BOOLEAN
      /\ \A w \in Cu!Words :
           IF WarpOf(w) = n
           THEN /\ raw_open_close'[w] = OpenCloseWord(text, w)
                /\ structural'[w] = Cu!Outside(w, Predicted(w), OperatorWord(text, w))
           ELSE structural'[w] = structural[w]
      /\ utf_error' <=> utf_error \/ \E w \in FlaggedWords(text) : w \in Cu!Words /\ WarpOf(w) = n
  BY <1>1, <1>2, TokenizeWrites
<1>6. /\ filtered_open_close' = [w \in Cu!Words |-> IF w \in Cu!WarpWords(n)
                                   THEN structural'[w] \cap raw_open_close'[w]
                                   ELSE filtered_open_close[w]]
      /\ slash_transitions' = [w \in Cu!Words |-> IF w \in Cu!WarpWords(n)
                                 THEN SlashTransition(w) ELSE slash_transitions[w]]
  BY DEF CuPredict, Cu!OfWarp
<1>7. ControlSchedule'
  <2>1. \A w \in Cu!Words : structural'[w] \cap raw_open_close'[w] \in SUBSET Bits
    BY <1>5
  <2>2. filtered_open_close' \in [Cu!Words -> SUBSET Bits]
    BY <1>2, <1>6, <2>1 DEF CuTyped
  <2>3. slash_transitions' \in [Cu!Words -> 0 .. 2]
    BY <1>2, <1>6, SlashTransitionFacts
  <2>4. CuTyped'
    BY <1>2, <1>3, <1>5, <2>2 DEF CuTyped
  <2> QED BY <1>2, <2>3, <2>4 DEF ControlSchedule
<1>8. PredictionsHold'
  <2> SUFFICES ASSUME NEW w \in Speculated'
               PROVE  /\ structural'[w] = Cu!Outside(w, Predicted(w), OperatorWord(text, w))
                      /\ filtered_open_close'[w] = structural'[w] \cap OpenCloseWord(text, w)
                      /\ slash_transitions'[w] = SlashTransition(w)
    BY <1>2 DEF PredictionsHold, Cu!Outside, Predicted, Cu!QuotesGiven, SlashTransition
  <2>1. w \in Cu!Words /\ (WarpOf(w) # n => w \in Speculated)
    BY <1>2 DEF Speculated, WarpOf
  <2>2. CASE WarpOf(w) = n
    BY <1>4, <1>5, <1>6, <2>1, <2>2
  <2>3. CASE WarpOf(w) # n
    <3>1. /\ structural'[w] = structural[w] /\ filtered_open_close'[w] = filtered_open_close[w]
          /\ slash_transitions'[w] = slash_transitions[w]
      BY <1>4, <1>5, <1>6, <2>1, <2>3
    <3> QED BY <2>1, <2>3, <3>1 DEF ControlHolds, PredictionsHold
  <2> QED BY <2>2, <2>3
<1>9. ErrorsHold'
  BY <1>2, <1>5 DEF ControlHolds, ErrorsHold, WarpOf
<1> QED BY <1>7, <1>8, <1>9 DEF ControlHolds

\* The control keeps its invariant, launch after launch.
THEOREM ControlInvariant == StreamsSpec => []ControlInv
<1>1. StreamsInit => ControlInv
  BY ControlStarts DEF StreamsInit, ControlInv, InControl
<1>2. ControlInv /\ [StreamsNext]_allVars => ControlInv'
  <2> SUFFICES ASSUME ControlInv, [StreamsNext]_allVars, benchmark' = "cu_control" PROVE ControlHolds'
    BY DEF ControlInv, InControl
  <2>1. CASE StreamsNext
    <3>1. benchmark = "cu_control" /\ CuControlNext
      BY <2>1 DEF StreamsNext
    <3>2. ControlHolds
      BY <3>1 DEF ControlInv, InControl
    <3>3. CASE CuControlLaunch
      BY <3>2, <3>3, ControlLaunches
    <3>4. CASE CuControlEnds
      <4>1. /\ pending' = pending
            /\ UNCHANGED <<text, launch, OfCu, recovery_count, utf_error, slash_transitions>>
        BY <3>4 DEF CuControlEnds, CuUnused, OfCu
      <4> QED BY <3>2, <3>4, <4>1, ControlRests
    <3>5. ASSUME NEW n \in Cu!Warps, CuPredict(n) PROVE ControlHolds'
      BY <3>2, <3>5, ControlPredicts
    <3> QED BY <3>1, <3>3, <3>4, <3>5 DEF CuControlNext
  <2>2. CASE UNCHANGED allVars
    <3>1. /\ benchmark = "cu_control" /\ pending' = pending /\ stage' = stage
          /\ UNCHANGED <<text, launch, OfCu, recovery_count, utf_error, slash_transitions>>
      BY <2>2 DEF allVars, vars, problem, OfErrors, recovery, schedule
    <3> QED BY <3>1, ControlRests DEF ControlInv, InControl
  <2> QED BY <2>1, <2>2
<1> QED BY <1>1, <1>2, PTL DEF StreamsSpec

\* A word whose predicted quotes are the real ones is right up to one flip.
LEMMA PredictionUpToFlip ==
  ASSUME text \in CuTexts, NEW w \in Cu!Words, Predicted(w) = Cu!TrueQuotes(w)
  PROVE  Cu!Outside(w, Predicted(w), OperatorWord(text, w))
           = IF IncomingString(text, w * WordBytes)
             THEN OperatorWord(text, w) \ StructuralWord(text, w) ELSE StructuralWord(text, w)
<1> DEFINE quotes == RealQuoteWord(text, w)
           before == IncomingString(text, w * WordBytes)
           operator == OperatorWord(text, w)
<1>1. IsText(text) /\ w \in Nat /\ Cu!TrueQuotes(w) = quotes
  <2>1. IsText(text) /\ w \in Nat
    BY CuGeometry
  <2> QED BY <2>1, TrueQuotesFacts
<1>2. InStringWord(text, w) = InStringCandidate(quotes, before)
  BY <1>1, CandidateIsInStringWord
<1>3. StructuralWord(text, w) = operator \ InStringCandidate(quotes, before)
  BY <1>1, <1>2, MaskedIsSpecified
<1>4. Cu!Outside(w, Predicted(w), operator) = Invert(PrefixXor(quotes)) \cap operator
  BY <1>1, CuOperators DEF Cu!Outside
<1>5. operator \in SUBSET Bits
  BY DEF OperatorWord, BitsWhere
<1> HIDE DEF quotes, before, operator
<1>6. CASE before
  BY <1>3, <1>4, <1>5, <1>6 DEF InStringCandidate, Invert, PrefixXor, operator, before
<1>7. CASE ~before
  BY <1>3, <1>4, <1>5, <1>7 DEF InStringCandidate, Invert, PrefixXor, operator, before
<1> QED BY <1>6, <1>7

\* The summaries of the words before, composed: the escape that enters.
LEMMA TransitionsCompose ==
  ASSUME text \in CuTexts, NEW w \in Cu!Words,
         \A v \in Cu!Words : slash_transitions[v] = SlashTransition(v)
  PROVE  LET ends == {p \in 0 .. w - 1 : slash_transitions[p] # 1}
         IN  EscapeAt(text, w) =
               IF ends = {} THEN 0
               ELSE slash_transitions[CHOOSE p \in ends : \A q \in ends : q <= p] \div 2
<1> DEFINE ends == {p \in 0 .. w - 1 : slash_transitions[p] # 1}
           last == CHOOSE p \in ends : \A q \in ends : q <= p
<1>1. IsText(text) /\ w \in Nat /\ \A v \in 0 .. w : v \in Cu!Words
  BY CuGeometry DEF Cu!Words
<1>2. \A p \in 0 .. w - 1 : p \in ends <=> SlashWord(text, p) # Bits
  BY <1>1, SlashTransitionFacts
<1>3. CASE ends = {}
  <2>1. \A v \in 0 .. w - 1 : SlashWord(text, v) = Bits
    BY <1>2, <1>3
  <2>2. EscapeAt(text, 0) = EscapeAt(text, w) /\ EscapeAt(text, 0) = 0
    BY <1>1, <2>1, EscapeOver, FirstWordUnescaped
  <2> QED BY <1>3, <2>2
<1>4. CASE ends # {}
  <2>1. last \in ends /\ \A q \in ends : q <= last
    <3>1. ends \in SUBSET (0 .. w)
      BY <1>1
    <3>2. \E p \in ends : \A q \in ends : q <= p
      <4> HIDE DEF ends
      <4> QED BY <1>1, <1>4, <3>1, GreatestElement
    <3> HIDE DEF ends
    <3> QED BY <3>2
  <2>2. PICK p : p = last
    OBVIOUS
  <2>3. p \in 0 .. w - 1 /\ SlashWord(text, p) # Bits /\ p \in Nat /\ p + 1 \in Nat /\ p + 1 <= w
    BY <1>1, <1>2, <2>1, <2>2
  <2>4. \A v \in p + 1 .. w - 1 : SlashWord(text, v) = Bits
    <3> SUFFICES ASSUME NEW v \in p + 1 .. w - 1, SlashWord(text, v) # Bits PROVE FALSE
      OBVIOUS
    <3>1. v \in 0 .. w - 1 /\ v > p
      BY <1>1, <2>3
    <3>2. v \in ends
      BY <1>2, <3>1
    <3>3. v <= p
      BY <2>1, <2>2, <3>2
    <3> QED BY <2>3, <3>1, <3>3
  <2>5. EscapeAt(text, p + 1) = EscapeAt(text, w)
    BY <1>1, <2>3, <2>4, EscapeOver
  <2>6. slash_transitions[p] \div 2 = EscapeAt(text, p + 1)
    BY <1>1, <2>3, SlashTransitionFacts, EscapeLeaves
  <2> QED BY <1>4, <2>2, <2>5, <2>6
<1> QED BY <1>3, <1>4

-----------------------------------------------------------------------------
(***************************************************************************)
(* gpJSON's hierarchy (GpHierarchyProofs), as one of the benchmarks.       *)
(***************************************************************************)
InGpHierarchy == benchmark = "gp_hierarchy"

GpHierarchyInv == InGpHierarchy => GpInv

\* The inductive invariant of gpJSON's hierarchy holds from the start, through every kernel
\* of every launch and between them, for the three mappings.
THEOREM GpHierarchyInvariant == StreamsSpec => []GpHierarchyInv
<1>1. StreamsInit => GpHierarchyInv
  BY GpStarts DEF StreamsInit, GpHierarchyInv, InGpHierarchy
<1>2. GpHierarchyInv /\ [StreamsNext]_allVars => GpHierarchyInv'
  <2> SUFFICES ASSUME GpHierarchyInv, [StreamsNext]_allVars, benchmark' = "gp_hierarchy" PROVE GpInv'
    BY DEF GpHierarchyInv, InGpHierarchy
  <2>1. CASE StreamsNext
    <3>1. benchmark = "gp_hierarchy" /\ Next
      BY <2>1 DEF StreamsNext
    <3> QED BY <3>1, GpSteps DEF GpHierarchyInv, InGpHierarchy
  <2>2. CASE UNCHANGED allVars
    <3>1. /\ benchmark = "gp_hierarchy"
          /\ UNCHANGED <<text, mapping, launch, stage, pending, bitmaps, escapes, recovery, scan>>
      BY <2>2 DEF allVars, vars, problem, schedule
    <3> QED BY <3>1, GpStutters DEF GpHierarchyInv, InGpHierarchy
  <2> QED BY <2>1, <2>2
<1> QED BY <1>1, <1>2, PTL DEF StreamsSpec

\* In both hierarchies the queue is exact when it is worked off: gpJSON's validation reads
\* summaries of one and the same prediction, whichever kernel has written them, and what
\* the warps append concurrently is every item whose prediction missed a quote, each once,
\* and nothing of an earlier launch.
THEOREM StreamsQueuesExact == StreamsSpec => []QueuesExact
<1>1. GpHierarchyInv => (benchmark = "gp_hierarchy" => FirstPassSummaries /\ QueueExact)
  BY GpQueueExact DEF GpHierarchyInv, InGpHierarchy
<1>2. HierarchyInv => (benchmark = "cu_hierarchy" => Cu!QueueIsMispredictions)
  BY DEF HierarchyInv, InHierarchy, CuInv, Queued, QueueOf, Missed, Predicted, Cu!QueueIsMispredictions
<1>3. GpHierarchyInv /\ HierarchyInv => QueuesExact
  BY <1>1, <1>2 DEF QueuesExact
<1> QED BY <1>3, GpHierarchyInvariant, HierarchyInvariant, PTL

\* Every buffer of gpJSON's hierarchy has its type, garbage of cudaMalloc included; after
\* every launch the bitmap is the one of a lookback of one segment, whatever the mapping,
\* the order of the threads and the launch before; and that is the specified one for every
\* input without a whole segment of backslashes.
THEOREM GpHierarchyOutput ==
  StreamsSpec => [](benchmark = "gp_hierarchy" =>
                      TypeOK /\ OutputIsLookback /\ CorrectWithoutSlashSegments)
<1>1. GpHierarchyInv =>
        (benchmark = "gp_hierarchy" => TypeOK /\ OutputIsLookback /\ CorrectWithoutSlashSegments)
  BY GpOutput DEF GpHierarchyInv, InGpHierarchy
<1> QED BY <1>1, GpHierarchyInvariant, PTL

-----------------------------------------------------------------------------
(***************************************************************************)
(* gpJSON's control without validation: the first kernel of the coalesced  *)
(* mapping, launch after launch.                                           *)
(***************************************************************************)
InGpControl == benchmark = "gp_control"

PredictedOutput(i) ==
  OutsideStrings(OperatorsIn(ItemStart(i), ItemEnd(i)), QuotesOf(i, PredictedEscape), PredictedString)

GpControlHolds ==
  /\ PassInv /\ mapping = "coalesced" /\ stage \in {"idle", "first"}
  /\ LaunchComplete => \A i \in Items : structural_out \cap WordBits(i) = PredictedOutput(i)

GpControlInv == InGpControl => GpControlHolds

LEMMA GpControlStarts ==
  ASSUME GpControlInit
  PROVE  GpControlHolds
<1>1. PassInv
  BY GpStarts DEF GpControlInit, GpInv, PassInv
<1> QED BY <1>1 DEF GpControlInit, Init, GpControlHolds, LaunchComplete

LEMMA GpControlLaunches ==
  ASSUME GpControlHolds, GpControlLaunch
  PROVE  GpControlHolds'
<1>1. /\ GpSchedule /\ mapping = "coalesced"
      /\ stage = "idle" /\ launch < Launches /\ launch' = launch + 1
      /\ stage' = "first" /\ pending' = Units("first")
      /\ UNCHANGED <<text, mapping, raw_structural, structural_out, escape_carry, escape_changes_quote,
                     recovery_items, recovery_count, quote_parity, xor_bases>>
  BY DEF GpControlHolds, PassInv, GpControlLaunch, bitmaps, escapes, recovery, scan
<1>2. quote_parity' \in [0 .. ScanCount - 1 -> {0, 1}] /\ recovery_count' \in Nat
  BY <1>1 DEF GpSchedule, GpTyped
<1>3. PaddingCleared = {}
  BY <1>1 DEF PaddingCleared
<1>4. PassInv'
  BY <1>1, <1>2, <1>3, PassLaunches
<1> QED BY <1>1, <1>4 DEF GpControlHolds, LaunchComplete

LEMMA GpControlKernelEnds ==
  ASSUME GpControlHolds, GpControlEnds
  PROVE  GpControlHolds'
<1>1. /\ GpSchedule /\ GpTyped /\ mapping = "coalesced"
      /\ stage = "first" /\ pending = {} /\ stage' = "idle"
      /\ UNCHANGED <<text, mapping, launch, pending, raw_structural, structural_out, escape_carry,
                     escape_changes_quote, recovery_items, recovery_count, quote_parity, xor_bases>>
  BY DEF GpControlHolds, PassInv, GpSchedule, GpControlEnds, problem, bitmaps, escapes, recovery, scan
<1>2. /\ Items' = Items /\ Active' = Active /\ ScanCount' = ScanCount /\ TextBits' = TextBits
      /\ Scan!ScanLanes' = Scan!ScanLanes
      /\ \A j : /\ WordBits(j)' = WordBits(j)
                /\ OperatorsIn(ItemStart(j), ItemEnd(j))' = OperatorsIn(ItemStart(j), ItemEnd(j))
      /\ \A j, e : QuotesOf(j, e)' = QuotesOf(j, e)
  BY <1>1, GpSame DEF Scan!ScanLanes
<1>3. GpSchedule'
  BY <1>1, <1>2 DEF GpSchedule, GpTyped
<1>4. SummariesHold' /\ BitmapsHold' /\ ParitiesHold'
  BY <1>1 DEF SummariesHold, BitmapsHold, ParitiesHold, Summarised
<1>5. ASSUME NEW i \in Items
      PROVE  structural_out \cap WordBits(i) = PredictedOutput(i)
  <2>1. i \in Summarised /\ CountedQuotes(i) = QuotesOf(i, 0)
    BY <1>1 DEF Summarised, CountedQuotes, Unrecovered
  <2> QED BY <1>1, <2>1 DEF GpControlHolds, PassInv, BitmapsHold, PredictedOutput, PredictedEscape,
                            PredictedString
<1>6. \A i : PredictedOutput(i)' = PredictedOutput(i)
  <2> SUFFICES ASSUME NEW i PROVE PredictedOutput(i)' = PredictedOutput(i)
    OBVIOUS
  <2>1. QuotesOf(i, PredictedEscape)' = QuotesOf(i, PredictedEscape)
    BY <1>2 DEF PredictedEscape
  <2> QED BY <1>2, <2>1 DEF PredictedOutput, OutsideStrings, PredictedString
<1> QED BY <1>1, <1>2, <1>3, <1>4, <1>5, <1>6 DEF GpControlHolds, PassInv

LEMMA GpControlStutters ==
  ASSUME GpControlHolds,
         UNCHANGED <<text, mapping, launch, stage, pending, bitmaps, escapes, recovery, scan>>
  PROVE  GpControlHolds'
<1>1. PassInv'
  BY PassStutters DEF GpControlHolds
<1>2. /\ Items' = Items
      /\ \A j : /\ WordBits(j)' = WordBits(j)
                /\ OperatorsIn(ItemStart(j), ItemEnd(j))' = OperatorsIn(ItemStart(j), ItemEnd(j))
      /\ \A j, e : QuotesOf(j, e)' = QuotesOf(j, e)
  BY GpSame
<1>3. \A i : PredictedOutput(i)' = PredictedOutput(i)
  <2> SUFFICES ASSUME NEW i PROVE PredictedOutput(i)' = PredictedOutput(i)
    OBVIOUS
  <2>1. QuotesOf(i, PredictedEscape)' = QuotesOf(i, PredictedEscape)
    BY <1>2 DEF PredictedEscape
  <2> QED BY <1>2, <2>1 DEF PredictedOutput, OutsideStrings, PredictedString
<1> QED BY <1>1, <1>2, <1>3 DEF GpControlHolds, LaunchComplete, bitmaps

\* gpJSON's control keeps its invariant, launch after launch.
THEOREM GpControlInvariant == StreamsSpec => []GpControlInv
<1>1. StreamsInit => GpControlInv
  BY GpControlStarts DEF StreamsInit, GpControlInv, InGpControl
<1>2. GpControlInv /\ [StreamsNext]_allVars => GpControlInv'
  <2> SUFFICES ASSUME GpControlInv, [StreamsNext]_allVars, benchmark' = "gp_control" PROVE GpControlHolds'
    BY DEF GpControlInv, InGpControl
  <2>1. CASE StreamsNext
    <3>1. benchmark = "gp_control" /\ GpControlNext
      BY <2>1 DEF StreamsNext
    <3>2. GpControlHolds
      BY <3>1 DEF GpControlInv, InGpControl
    <3>3. ASSUME NEW i \in Items, First(i) PROVE GpControlHolds'
      <4>1. PassInv' /\ stage' = stage /\ stage = "first" /\ mapping' = mapping
        BY <3>2, <3>3, PassFirst DEF GpControlHolds, First, Runs, problem
      <4> QED BY <3>2, <4>1 DEF GpControlHolds, LaunchComplete
    <3>4. ASSUME NEW n \in Warps, FirstByWarp(n) PROVE GpControlHolds'
      <4>1. PassInv' /\ stage' = stage /\ stage = "first" /\ mapping' = mapping
        BY <3>2, <3>4, PassFirstByWarp DEF GpControlHolds, FirstByWarp, Runs, problem
      <4> QED BY <3>2, <4>1 DEF GpControlHolds, LaunchComplete
    <3> QED BY <3>1, <3>2, <3>3, <3>4, GpControlLaunches, GpControlKernelEnds DEF GpControlNext
  <2>2. CASE UNCHANGED allVars
    <3>1. /\ benchmark = "gp_control"
          /\ UNCHANGED <<text, mapping, launch, stage, pending, bitmaps, escapes, recovery, scan>>
      BY <2>2 DEF allVars, vars, problem, schedule
    <3> QED BY <3>1, GpControlStutters DEF GpControlInv, InGpControl
  <2> QED BY <2>1, <2>2
<1> QED BY <1>1, <1>2, PTL DEF StreamsSpec

\* A segment whose quotes are predicted right is right up to one flip.
LEMMA GpPredictionUpToFlip ==
  ASSUME GpInput, NEW i \in Nat, GpEscapeHarmless(i)
  PROVE  PredictedOutput(i)
           = IF IncomingString(text, ItemStart(i)) THEN Structural(text) \cap WordBits(i)
             ELSE (Operators(text) \ Structural(text)) \cap WordBits(i)
<1> DEFINE from == ItemStart(i)
           to == ItemEnd(i)
           Q == RealQuotes(text)
           quotes == {q \in Q : from <= q /\ q < to}
           before == Cardinality({q \in Q : q < from}) % 2
           read == OperatorsIn(from, to)
           predicted == OutsideStrings(read, quotes, 1)
           right == OutsideStrings(read, quotes, before)
<1>1. IsText(text) /\ from \in Nat /\ to \in Nat
  BY GpItems, SegmentEnds DEF ItemStart, ItemEnd
<1>2. Q \in SUBSET DOMAIN text /\ Structural(text) \in SUBSET Operators(text)
      /\ Operators(text) \in SUBSET DOMAIN text
  BY DEF RealQuotes, Structural, Operators
<1>3. PredictedOutput(i) = predicted
  <2>1. QuotesOf(i, 0) = quotes
    BY <1>2 DEF GpEscapeHarmless, PredictedEscape, QuotesOf, ByteRange
  <2> QED BY <2>1 DEF PredictedOutput, PredictedEscape, PredictedString
<1>4. \A p \in DOMAIN text : p \in WordBits(i) <=> from <= p /\ p < to
  <2>1. \A p : p \in WordBits(i) <=> p \in TextBits /\ from <= p /\ p < to
    BY DEF WordBits, WordsOf, TextBits
  <2> QED BY <2>1, GpBits
<1>5. right = {p \in OutsideStrings(Operators(text), Q, 0) : from <= p /\ p < to}
  <2>1. \A a, b \in Nat :
          OutsideStrings({p \in ByteRange(text, a, b) : IsOperator(text[p])},
                         {q \in Q : a <= q /\ q < b}, Cardinality({q \in Q : q < a}) % 2)
            = {p \in OutsideStrings(Operators(text), Q, 0) : a <= p /\ p < b}
    <3> HIDE DEF Q
    <3> QED BY <1>1, <1>2, RangeOutside
  <2> QED BY <1>1, <2>1 DEF OperatorsIn
<1>6. OutsideStrings(Operators(text), Q, 0) = Structural(text)
  BY <1>1, OutsideIsStructural
<1>7. read = Operators(text) \cap WordBits(i)
  BY <1>2, <1>4 DEF OperatorsIn, ByteRange, Operators
<1>8. right = Structural(text) \cap WordBits(i)
  <2> HIDE DEF right, from, to, Q
  <2> QED BY <1>2, <1>4, <1>5, <1>6
<1>9. IsFiniteSet(quotes) /\ before \in {0, 1}
  <2>1. IsFiniteSet(DOMAIN text)
    BY <1>1, TextDomain, FS_Interval
  <2>2. \A S \in SUBSET Q : IsFiniteSet(S) /\ Cardinality(S) \in Nat
    BY <1>2, <2>1, FS_Subset, FS_CardinalityType
  <2>3. {q \in Q : q < from} \in SUBSET Q /\ quotes \in SUBSET Q
    OBVIOUS
  <2> HIDE DEF Q, from, to
  <2> QED BY <2>2, <2>3
<1>10. IncomingString(text, from) <=> before = 1
  BY DEF IncomingString, QuotesBefore
<1> HIDE DEF quotes, read, before
<1>11. /\ OutsideStrings(read, quotes, 0) = SymDiff(predicted, read)
       /\ predicted \in SUBSET read
  BY <1>9, OutsideFacts
<1>12. CASE before = 1
  <2>1. right = predicted
    BY <1>12
  <2> QED BY <1>3, <1>8, <1>10, <1>12, <2>1 DEF from
<1>13. CASE before = 0
  <2>1. right = SymDiff(predicted, read)
    BY <1>11, <1>13
  <2> HIDE DEF right, predicted
  <2>2. predicted = read \ right
    BY <1>11, <2>1 DEF SymDiff
  <2> QED BY <1>3, <1>7, <1>8, <1>10, <1>13, <2>2 DEF from
<1> QED BY <1>9, <1>12, <1>13

\* The control is right, up to one flip where no string enters, in every segment whose
\* quotes it predicts right.
THEOREM GpControlIsRightWherePredicted ==
  StreamsSpec => [](InGpControl => GpControlRight /\ TypeOK)
<1>1. GpControlInv => (InGpControl => GpControlRight /\ TypeOK)
  <2> SUFFICES ASSUME GpControlHolds PROVE GpControlRight /\ TypeOK
    BY DEF GpControlInv
  <2>1. GpInput /\ TypeOK
    BY GpTypes DEF GpControlHolds, PassInv, GpSchedule, GpTyped, GpInput
  <2>2. PICK n \in Nat : Items = 0 .. n - 1 /\ Active <= n
    BY <2>1, GpEntries
  <2>3. Active \in Nat
    BY <2>1, GpItems
  <2>4. \A i \in 0 .. Active - 1 : i \in Items /\ i \in Nat
    <3> HIDE DEF Active, Items
    <3> QED BY <2>2, <2>3
  <2>5. ASSUME LaunchComplete, NEW i \in 0 .. Active - 1, GpEscapeHarmless(i)
        PROVE  structural_out \cap WordBits(i)
                 = IF IncomingString(text, ItemStart(i)) THEN Structural(text) \cap WordBits(i)
                   ELSE (Operators(text) \ Structural(text)) \cap WordBits(i)
    BY <2>1, <2>4, <2>5, GpPredictionUpToFlip DEF GpControlHolds
  <2> QED BY <2>1, <2>5 DEF GpControlRight, WordBits
<1> QED BY <1>1, GpControlInvariant, PTL

-----------------------------------------------------------------------------
(***************************************************************************)
(* The gpJSON baseline, and the program prepared from it: a thread has a   *)
(* segment of SegBytes bytes, and stores the words of it.  Both instances  *)
(* bring their own copy of the operators on segments.                      *)
(***************************************************************************)
InBaseline == benchmark \in {"gp_baseline", "gp_input"}

SegBytes == SegmentBytes(text)

SegRange(t) == ByteRange(text, t * SegBytes, (t + 1) * SegBytes)

SegBits(t) == {p \in TextBits : t * SegBytes <= p /\ p < (t + 1) * SegBytes}

Segs == 0 .. Segments - 1

BaseLanes == 0 .. ScanThreads - 1

LEMMA BaselineOperators ==
  /\ \A S : Baseline!Cardinality(S) = Cardinality(S)
  /\ \A t : Baseline!IsText(t) <=> IsText(t)
  /\ \A t : Baseline!Size(t) = Size(t) /\ Baseline!WordCount(t) = WordCount(t)
  /\ \A t : Baseline!SegmentBytes(t) = SegmentBytes(t)
  /\ \A t, from, to : Baseline!ByteRange(t, from, to) = ByteRange(t, from, to)
  /\ \A t, from, e, p : Baseline!EscapeOnArrival(t, from, e, p) = EscapeOnArrival(t, from, e, p)
  /\ \A t, from, to, e : Baseline!OutgoingEscape(t, from, to, e) = OutgoingEscape(t, from, to, e)
  /\ \A class : Baseline!IsOperator(class) <=> IsOperator(class)
  /\ \A t, b : /\ Baseline!LookbackQuotes(t, b) = LookbackQuotes(t, b)
               /\ Baseline!LookbackStructural(t, b) = LookbackStructural(t, b)
               /\ Baseline!SlashSegment(t, b) <=> SlashSegment(t, b)
  /\ \A t : Baseline!Structural(t) = Structural(t)
<1>1. \A S : Baseline!Cardinality(S) = Cardinality(S)
  BY DEF Baseline!Cardinality, Cardinality
<1>2. \A t : Baseline!Size(t) = Size(t)
  BY <1>1 DEF Baseline!Size, Size
<1>3. \A t : Baseline!IsText(t) <=> IsText(t)
  BY <1>2 DEF Baseline!IsText, IsText, Baseline!ByteClass, ByteClass
<1>4. \A a, b : Baseline!CeilDiv(a, b) = CeilDiv(a, b)
  BY DEF Baseline!CeilDiv, CeilDiv
<1>5. \A t : Baseline!WordCount(t) = WordCount(t) /\ Baseline!SegmentBytes(t) = SegmentBytes(t)
  BY <1>2, <1>4 DEF Baseline!WordCount, WordCount, Baseline!SegmentBytes, SegmentBytes
<1>6. \A t, from, to : Baseline!ByteRange(t, from, to) = ByteRange(t, from, to)
  BY DEF Baseline!ByteRange, ByteRange
<1>7. \A t, from, e, p : Baseline!EscapeOnArrival(t, from, e, p) = EscapeOnArrival(t, from, e, p)
  BY DEF Baseline!EscapeOnArrival, EscapeOnArrival
<1>8. \A t, from, to, e : Baseline!OutgoingEscape(t, from, to, e) = OutgoingEscape(t, from, to, e)
  BY <1>2, <1>7 DEF Baseline!OutgoingEscape, OutgoingEscape
<1>9. \A class : Baseline!IsOperator(class) <=> IsOperator(class)
  BY DEF Baseline!IsOperator, IsOperator
<1>10. \A t : Baseline!Operators(t) = Operators(t)
  BY <1>9 DEF Baseline!Operators, Operators
<1>11. \A t, b, p : Baseline!LookbackEscape(t, b, p) = LookbackEscape(t, b, p)
  BY <1>7 DEF Baseline!LookbackEscape, LookbackEscape
<1>12. \A t, b : Baseline!LookbackQuotes(t, b) = LookbackQuotes(t, b)
  BY <1>11 DEF Baseline!LookbackQuotes, LookbackQuotes
<1>13. \A S, Q, e : Baseline!OutsideStrings(S, Q, e) = OutsideStrings(S, Q, e)
  BY <1>1 DEF Baseline!OutsideStrings, OutsideStrings
<1>14. \A t, b : Baseline!LookbackStructural(t, b) = LookbackStructural(t, b)
  BY <1>10, <1>12, <1>13 DEF Baseline!LookbackStructural, LookbackStructural
<1>15. \A t, b : Baseline!SlashSegment(t, b) <=> SlashSegment(t, b)
  BY <1>2, <1>4, <1>6 DEF Baseline!SlashSegment, SlashSegment, Baseline!AllSlashes, AllSlashes
<1>16. \A t : Baseline!Structural(t) = Structural(t)
  <2>1. \A t : Baseline!RealQuotes(t) = RealQuotes(t)
    BY DEF Baseline!RealQuotes, RealQuotes, Baseline!EscapedAt, EscapedAt,
           Baseline!MaximalSlashRun, MaximalSlashRun
  <2>2. \A t, p : Baseline!IncomingString(t, p) <=> IncomingString(t, p)
    BY <1>1, <2>1 DEF Baseline!IncomingString, IncomingString, Baseline!QuotesBefore, QuotesBefore
  <2> QED BY <1>10, <2>2 DEF Baseline!Structural, Structural, Baseline!InString, InString
<1> QED BY <1>1, <1>2, <1>3, <1>5, <1>6, <1>7, <1>8, <1>9, <1>12, <1>14, <1>15, <1>16

LEMMA GpjsonOperators ==
  /\ \A S : Gpjson!Cardinality(S) = Cardinality(S)
  /\ \A t : Gpjson!Size(t) = Size(t) /\ Gpjson!WordCount(t) = WordCount(t)
  /\ \A a, b : Gpjson!CeilDiv(a, b) = CeilDiv(a, b)
  /\ \A t : Gpjson!SegmentBytes(t) = SegmentBytes(t)
  /\ \A t, from, to : Gpjson!ByteRange(t, from, to) = ByteRange(t, from, to)
  /\ \A t, from, e, p : Gpjson!EscapeOnArrival(t, from, e, p) = EscapeOnArrival(t, from, e, p)
  /\ \A t, from, to, e : Gpjson!OutgoingEscape(t, from, to, e) = OutgoingEscape(t, from, to, e)
  /\ \A class : Gpjson!IsOperator(class) <=> IsOperator(class)
  /\ \A t, b : Gpjson!LookbackStructural(t, b) = LookbackStructural(t, b)
  /\ \A t : Gpjson!Structural(t) = Structural(t)
<1>1. \A S : Gpjson!Cardinality(S) = Cardinality(S)
  BY DEF Gpjson!Cardinality, Cardinality
<1>2. \A t : Gpjson!Size(t) = Size(t)
  BY <1>1 DEF Gpjson!Size, Size
<1>4. \A a, b : Gpjson!CeilDiv(a, b) = CeilDiv(a, b)
  BY DEF Gpjson!CeilDiv, CeilDiv
<1>5. \A t : Gpjson!WordCount(t) = WordCount(t) /\ Gpjson!SegmentBytes(t) = SegmentBytes(t)
  BY <1>2, <1>4 DEF Gpjson!WordCount, WordCount, Gpjson!SegmentBytes, SegmentBytes
<1>6. \A t, from, to : Gpjson!ByteRange(t, from, to) = ByteRange(t, from, to)
  BY DEF Gpjson!ByteRange, ByteRange
<1>7. \A t, from, e, p : Gpjson!EscapeOnArrival(t, from, e, p) = EscapeOnArrival(t, from, e, p)
  BY DEF Gpjson!EscapeOnArrival, EscapeOnArrival
<1>8. \A t, from, to, e : Gpjson!OutgoingEscape(t, from, to, e) = OutgoingEscape(t, from, to, e)
  BY <1>2, <1>7 DEF Gpjson!OutgoingEscape, OutgoingEscape
<1>9. \A class : Gpjson!IsOperator(class) <=> IsOperator(class)
  BY DEF Gpjson!IsOperator, IsOperator
<1>10. \A t : Gpjson!Operators(t) = Operators(t)
  BY <1>9 DEF Gpjson!Operators, Operators
<1>12. \A t, b : Gpjson!LookbackQuotes(t, b) = LookbackQuotes(t, b)
  BY <1>7 DEF Gpjson!LookbackQuotes, LookbackQuotes, Gpjson!LookbackEscape, LookbackEscape
<1>13. \A S, Q, e : Gpjson!OutsideStrings(S, Q, e) = OutsideStrings(S, Q, e)
  BY <1>1 DEF Gpjson!OutsideStrings, OutsideStrings
<1>14. \A t, b : Gpjson!LookbackStructural(t, b) = LookbackStructural(t, b)
  BY <1>10, <1>12, <1>13 DEF Gpjson!LookbackStructural, LookbackStructural
<1>16. \A t : Gpjson!Structural(t) = Structural(t)
  <2>1. \A t : Gpjson!RealQuotes(t) = RealQuotes(t)
    BY DEF Gpjson!RealQuotes, RealQuotes, Gpjson!EscapedAt, EscapedAt,
           Gpjson!MaximalSlashRun, MaximalSlashRun
  <2>2. \A t, p : Gpjson!IncomingString(t, p) <=> IncomingString(t, p)
    BY <1>1, <2>1 DEF Gpjson!IncomingString, IncomingString, Gpjson!QuotesBefore, QuotesBefore
  <2> QED BY <1>10, <2>2 DEF Gpjson!Structural, Structural, Gpjson!InString, InString
<1> QED BY <1>1, <1>2, <1>4, <1>5, <1>6, <1>7, <1>8, <1>9, <1>14, <1>16

LEMMA BaseFacts ==
  ASSUME text \in BaselineTexts
  PROVE  /\ IsText(text) /\ Size(text) \in Nat /\ DOMAIN text = 0 .. Size(text) - 1
         /\ SegBytes \in Nat \ {0} /\ (\E m \in Nat \ {0} : SegBytes = m * WordBytes)
         /\ WordBytes \in Nat \ {0} /\ Segments \in Nat \ {0}
         /\ ScanThreads \in Nat \ {0} /\ Segments % ScanThreads = 0
         /\ WordCount(text) = CeilDiv(Size(text), WordBytes)
         /\ WordCount(text) \in Nat /\ WordCount(text) * WordBytes \in Nat
         /\ Size(text) <= WordCount(text) * WordBytes
         /\ Segments * SegBytes \in Nat /\ WordCount(text) * WordBytes <= Segments * SegBytes
<1>1. /\ IsText(text) /\ WordBytes \in Nat \ {0} /\ Segments \in Nat \ {0}
      /\ ScanThreads \in Nat \ {0} /\ Segments % ScanThreads = 0
  BY BaselineAssumed, BaselineOperators, WordBytesAssumption, SegmentsAssumption
  DEF Baseline!BaselineAssumption
<1>2. Size(text) \in Nat /\ DOMAIN text = 0 .. Size(text) - 1
  BY <1>1, TextDomain
<1>3. WordCount(text) = CeilDiv(Size(text), WordBytes)
  BY DEF WordCount, CeilDiv
<1>4. /\ WordCount(text) \in Nat /\ WordCount(text) * WordBytes \in Nat
      /\ Size(text) <= WordCount(text) * WordBytes
      /\ \A c \in Nat : Size(text) <= c * WordBytes => WordCount(text) <= c
  BY <1>1, <1>2, <1>3, CeilDivFacts
<1>5. /\ SegBytes \in Nat \ {0} /\ \E m \in Nat \ {0} : SegBytes = m * WordBytes
      /\ Size(text) <= Segments * SegBytes
  BY <1>1, SegmentFacts DEF SegBytes
<1>6. PICK m \in Nat \ {0} : SegBytes = m * WordBytes
  BY <1>5
<1>7. Segments * SegBytes \in Nat /\ WordCount(text) * WordBytes <= Segments * SegBytes
  <2> DEFINE c == Segments * m
             n == WordCount(text)
  <2>1. c \in Nat /\ Segments * SegBytes = c * WordBytes
    BY <1>1, <1>6
  <2> HIDE DEF c, n
  <2>2. n \in Nat /\ n <= c
    BY <1>4, <1>5, <2>1 DEF n
  <2>3. n < c => n * WordBytes + WordBytes <= c * WordBytes
    BY <1>1, <2>1, <2>2, Multiples
  <2>4. n * WordBytes \in Nat /\ c * WordBytes \in Nat
    BY <1>1, <2>1, <2>2
  <2>5. n * WordBytes <= c * WordBytes
    BY <1>1, <2>1, <2>2, <2>3, <2>4
  <2> QED BY <2>1, <2>4, <2>5 DEF n
<1> QED BY <1>1, <1>2, <1>3, <1>4, <1>5, <1>7

\* Every bit of the words of the text is in the segment of one thread of the grid.
LEMMA BaseBits ==
  ASSUME text \in BaselineTexts
  PROVE  /\ TextBits \in SUBSET Nat /\ DOMAIN text \in SUBSET TextBits
         /\ \A p \in TextBits : p \div SegBytes \in Segs
         /\ \A i \in Nat : \A p : p \in SegBits(i) <=> p \in TextBits /\ p \div SegBytes = i
         /\ \A i \in Nat : \A p : p \in SegRange(i) <=> p \in DOMAIN text /\ p \div SegBytes = i
         /\ \A i \in Nat : SegRange(i) \in SUBSET SegBits(i)
<1> DEFINE B == SegBytes
           n == WordCount(text) * WordBytes
<1>1. /\ B \in Nat \ {0} /\ Segments \in Nat /\ n \in Nat /\ Segments * B \in Nat /\ n <= Segments * B
      /\ Size(text) \in Nat /\ Size(text) <= n /\ DOMAIN text = 0 .. Size(text) - 1
  BY BaseFacts
<1> HIDE DEF B, n
<1>2. \A p \in TextBits : p \in Nat /\ p < n
  BY <1>1 DEF TextBits, n
<1>3. \A i \in Nat, p \in Nat : i * B <= p /\ p < (i + 1) * B <=> p \div B = i
  BY <1>1, SegmentEnds
<1>4. ASSUME NEW p \in TextBits PROVE p \div B \in Segs
  <2>1. p \in Nat /\ p < Segments * B
    BY <1>1, <1>2
  <2> DEFINE l == p \div B
             r == p % B
  <2>2. l \in Nat /\ r \in 0 .. B - 1 /\ p = l * B + r
    BY <1>1, <2>1, Quotient
  <2> HIDE DEF l, r
  <2>3. Segments < l => Segments * B + B <= l * B
    BY <1>1, <2>2, Multiples
  <2>4. l * B \in Nat
    BY <1>1, <2>2
  <2>5. l = Segments => l * B = Segments * B
    OBVIOUS
  <2>6. ~(Segments < l) /\ l # Segments
    BY <1>1, <2>1, <2>2, <2>3, <2>4, <2>5
  <2> QED BY <1>1, <2>2, <2>6 DEF l, Segs
<1>5. ASSUME NEW i \in Nat, NEW p
      PROVE  /\ p \in SegBits(i) <=> p \in TextBits /\ p \div B = i
             /\ p \in SegRange(i) <=> p \in DOMAIN text /\ p \div B = i
  <2>1. p \in SegBits(i) <=> p \in TextBits /\ i * B <= p /\ p < (i + 1) * B
    BY DEF SegBits, B
  <2>2. p \in SegRange(i) <=> p \in DOMAIN text /\ i * B <= p /\ p < (i + 1) * B
    BY DEF SegRange, ByteRange, B
  <2>3. p \in TextBits \/ p \in DOMAIN text => p \in Nat
    BY <1>1, <1>2
  <2> QED BY <1>3, <2>1, <2>2, <2>3
<1>6. DOMAIN text \in SUBSET TextBits
  BY <1>1 DEF TextBits, n
<1> QED BY <1>2, <1>4, <1>5, <1>6 DEF B

\* Storing the words of one thread leaves those of the others as they are.
LEMMA BasePut ==
  ASSUME text \in BaselineTexts, NEW i \in Nat, NEW bits \in SUBSET SegBits(i),
         NEW bitmap \in SUBSET TextBits
  PROVE  /\ Put(bitmap, SegBits(i), bits) \in SUBSET TextBits
         /\ Put(bitmap, SegBits(i), bits) \cap SegBits(i) = bits
         /\ \A j \in Nat : j # i => Put(bitmap, SegBits(i), bits) \cap SegBits(j) = bitmap \cap SegBits(j)
<1>1. \A p : /\ p \in SegBits(i) <=> p \in TextBits /\ p \div SegBytes = i
             /\ \A j \in Nat : p \in SegBits(j) <=> p \in TextBits /\ p \div SegBytes = j
  BY BaseBits
<1> QED BY <1>1 DEF Put

-----------------------------------------------------------------------------
(***************************************************************************)
(* The inductive invariant of the baseline.  What a kernel has left holds  *)
(* while the later ones run; the row of the quotes is the one that is      *)
(* overwritten, segment by segment.                                        *)
(***************************************************************************)
BaseUnits(name) ==
  IF name \in {"prescan", "rebase"} THEN BaseLanes ELSE IF name = "postscan" THEN {0} ELSE Segs

BaseTyped ==
  /\ text \in BaselineTexts /\ launch \in 0 .. Launches
  /\ stage \in {"idle", "carry", "escape", "quote", "prescan", "postscan", "rebase", "string",
                "structural"}
  /\ escape_bitmap \in SUBSET TextBits /\ quote_or_string_bitmap \in SUBSET TextBits
  /\ structural_bitmap \in SUBSET TextBits
  /\ escape_carry \in [Segs -> {0, 1}] /\ quote_carry \in [Segs -> {0, 1}]
  /\ xor_bases \in [BaseLanes -> {0, 1}]

BaseSchedule ==
  /\ BaseTyped
  /\ pending \in SUBSET Nat
  /\ stage = "idle" => pending = {}
  /\ stage # "idle" => pending \subseteq BaseUnits(stage)

\* What the segments are, for the whole text: the escape that leaves one, its escaped
\* bytes, its quotes, the string bits and the operators outside strings.
SegOutgoing(t) == OutgoingEscape(text, t * SegBytes, (t + 1) * SegBytes, 0)

EscapedOf(t) ==
  {p \in SegRange(t) : EscapeOnArrival(text, t * SegBytes, Entering(text, SegBytes, t), p) = 1}

SegFound(t) == Found(text, SegBytes, t)

StringBits == {p \in TextBits : Cardinality({q \in LookbackQuotes(text, SegBytes) : q <= p}) % 2 = 1}

SegOutput == LookbackStructural(text, SegBytes)

\* The parities that are scanned, and what a lane finds in its run.
SegParities == FoundParities(text, SegBytes)

LaneRun == (Segments + ScanThreads - 1) \div ScanThreads

LaneOfSeg(i) == i \div LaneRun

RunPrefix(i) == OddCount(SegParities, LaneOfSeg(i) * LaneRun, i)

FullPrefix(i) == OddCount(SegParities, 0, i)

LaneBase(l) == OddCount(SegParities, 0, l * LaneRun - 1)

CarriesHold ==
  \A t \in Segs : stage # "idle" /\ (stage = "carry" => t \notin pending) =>
    escape_carry[t] = SegOutgoing(t)

EscapesHold ==
  \A t \in Segs :
    stage \notin {"idle", "carry"} /\ (stage = "escape" => t \notin pending) =>
      escape_bitmap \cap SegBits(t) = EscapedOf(t)

StringPut(t) == stage = "structural" \/ (stage = "string" /\ t \notin pending)

RowHolds ==
  \A t \in Segs :
    stage \notin {"idle", "carry", "escape"} /\ (stage = "quote" => t \notin pending) =>
      quote_or_string_bitmap \cap SegBits(t)
        = IF StringPut(t) THEN StringBits \cap SegBits(t) ELSE SegFound(t)

\* What the kernels have made of the parity of segment i.
CarriedValue(i) ==
  IF stage = "quote" \/ (stage = "prescan" /\ LaneOfSeg(i) \in pending) THEN SegParities[i]
  ELSE IF stage \in {"prescan", "postscan"} \/ (stage = "rebase" /\ LaneOfSeg(i) \in pending)
  THEN RunPrefix(i) ELSE FullPrefix(i)

ScansHold ==
  /\ \A i \in Segs :
       stage \notin {"idle", "carry", "escape"} /\ (stage = "quote" => i \notin pending) =>
         quote_carry[i] = CarriedValue(i)
  /\ (stage = "postscan" /\ pending = {}) \/ stage = "rebase" =>
       \A l \in BaseLanes : xor_bases[l] = LaneBase(l)

StructuralsHold ==
  stage = "structural" =>
    \A t \in Segs \ pending : structural_bitmap \cap SegBits(t) = SegOutput \cap SegBits(t)

BaseOutput == launch > 0 /\ stage = "idle" => structural_bitmap = SegOutput

BaseInv ==
  /\ BaseSchedule /\ CarriesHold /\ EscapesHold /\ RowHolds /\ ScansHold /\ StructuralsHold
  /\ BaseOutput

BaselineInv == InBaseline => BaseInv

-----------------------------------------------------------------------------
(***************************************************************************)
(* The steps of the two programs, in one form.                             *)
(***************************************************************************)
BaseRuns(name, t) ==
  /\ stage = name /\ t \in pending /\ pending' = pending \ {t}
  /\ UNCHANGED <<text, launch, stage>>

CarryRead(carry, t) == IF t = 0 THEN 0 ELSE carry[t - 1]

CarryStep(t) ==
  /\ BaseRuns("carry", t)
  /\ escape_carry' = [escape_carry EXCEPT ![t] = SegOutgoing(t)]
  /\ UNCHANGED <<escape_bitmap, quote_or_string_bitmap, quote_carry, xor_bases, structural_bitmap>>

EscapedFrom(t) ==
  {p \in SegRange(t) : EscapeOnArrival(text, t * SegBytes, CarryRead(escape_carry, t), p) = 1}

EscapeStep(t) ==
  /\ BaseRuns("escape", t)
  /\ escape_bitmap' = Put(escape_bitmap, SegBits(t), EscapedFrom(t))
  /\ UNCHANGED <<escape_carry, quote_or_string_bitmap, quote_carry, xor_bases, structural_bitmap>>

QuotesLeft(t) == {p \in SegRange(t) : text[p] = "quote"} \ escape_bitmap

QuoteStep(t) ==
  /\ BaseRuns("quote", t)
  /\ quote_or_string_bitmap' = Put(quote_or_string_bitmap, SegBits(t), QuotesLeft(t))
  /\ quote_carry' = [quote_carry EXCEPT ![t] = Cardinality(QuotesLeft(t)) % 2]
  /\ UNCHANGED <<escape_carry, escape_bitmap, xor_bases, structural_bitmap>>

PreScanStep(t) ==
  /\ BaseRuns("prescan", t)
  /\ quote_carry' = [i \in DOMAIN quote_carry |->
                       IF i \in Segs /\ LaneOfSeg(i) = t THEN OddCount(quote_carry, t * LaneRun, i)
                       ELSE quote_carry[i]]
  /\ UNCHANGED <<escape_carry, escape_bitmap, quote_or_string_bitmap, xor_bases, structural_bitmap>>

TotalsOfRuns == [k \in 0 .. ScanThreads - 2 |-> quote_carry[LaneRun * (k + 1) - 1]]

PostScanStep ==
  /\ BaseRuns("postscan", 0)
  /\ xor_bases' = [t \in BaseLanes |-> OddCount(TotalsOfRuns, 0, t - 1)]
  /\ UNCHANGED <<escape_carry, escape_bitmap, quote_or_string_bitmap, quote_carry, structural_bitmap>>

RebaseStep(t) ==
  /\ BaseRuns("rebase", t)
  /\ quote_carry' = [i \in DOMAIN quote_carry |->
                       IF i \in Segs /\ LaneOfSeg(i) = t THEN (quote_carry[i] + xor_bases[t]) % 2
                       ELSE quote_carry[i]]
  /\ UNCHANGED <<escape_carry, escape_bitmap, quote_or_string_bitmap, xor_bases, structural_bitmap>>

\* The string bits of the words of segment t that thread t computes from its quotes.
StringsFrom(t) ==
  {p \in SegBits(t) :
     ((Cardinality({q \in quote_or_string_bitmap : t * SegBytes <= q /\ q <= p}) % 2)
        + CarryRead(quote_carry, t)) % 2 = 1}

StringsStep(t) ==
  /\ BaseRuns("string", t)
  /\ quote_or_string_bitmap' = Put(quote_or_string_bitmap, SegBits(t), StringsFrom(t))
  /\ UNCHANGED <<escape_carry, escape_bitmap, quote_carry, xor_bases, structural_bitmap>>

OperatorsLeft(t) == {p \in SegRange(t) : IsOperator(text[p])} \ quote_or_string_bitmap

StructuralStep(t) ==
  /\ BaseRuns("structural", t)
  /\ structural_bitmap' = Put(structural_bitmap, SegBits(t), OperatorsLeft(t))
  /\ UNCHANGED <<escape_carry, escape_bitmap, quote_or_string_bitmap, quote_carry, xor_bases>>

BaseBuffers == <<escape_carry, escape_bitmap, quote_or_string_bitmap, quote_carry, xor_bases,
                 structural_bitmap>>

LaunchStep ==
  /\ stage = "idle" /\ launch < Launches /\ launch' = launch + 1
  /\ stage' = "carry" /\ pending' = Segs
  /\ UNCHANGED <<text, BaseBuffers>>

NextOf(name) ==
  CASE name = "carry" -> "escape" [] name = "escape" -> "quote" [] name = "quote" -> "prescan"
    [] name = "prescan" -> "postscan" [] name = "postscan" -> "rebase" [] name = "rebase" -> "string"
    [] name = "string" -> "structural" [] OTHER -> "idle"

KernelStep ==
  /\ stage # "idle" /\ pending = {}
  /\ stage' = NextOf(stage)
  /\ pending' = IF stage = "structural" THEN {} ELSE BaseUnits(NextOf(stage))
  /\ UNCHANGED <<text, launch, BaseBuffers>>

BaseSteps ==
  \/ LaunchStep \/ KernelStep \/ PostScanStep
  \/ \E t \in Segs : CarryStep(t) \/ EscapeStep(t) \/ QuoteStep(t) \/ StringsStep(t) \/ StructuralStep(t)
  \/ \E t \in BaseLanes : PreScanStep(t) \/ RebaseStep(t)

LEMMA BaselineTakesSteps ==
  ASSUME BaseTyped, Baseline!Next
  PROVE  BaseSteps
<1>1. /\ Baseline!Threads = Segs /\ Baseline!Scan!ScanLanes = BaseLanes
      /\ \A t : Baseline!From(t) = t * SegBytes /\ Baseline!To(t) = (t + 1) * SegBytes
      /\ \A t : Baseline!ByteRange(text, Baseline!From(t), Baseline!To(t)) = SegRange(t)
      /\ \A t : Baseline!WordBits(t) = SegBits(t)
  BY BaselineOperators
  DEF Baseline!Threads, Segs, Baseline!Scan!ScanLanes, BaseLanes, Baseline!From, Baseline!To,
      SegBytes, SegRange, SegBits, Baseline!WordBits, TextBits
<1>2. /\ \A bitmap, range, bits : Baseline!Put(bitmap, range, bits) = Put(bitmap, range, bits)
      /\ \A carry, t : Baseline!CarryIn(carry, t) = CarryRead(carry, t)
      /\ \A name, t : Baseline!Runs(name, t) <=> BaseRuns(name, t)
  BY DEF Baseline!Put, Put, Baseline!CarryIn, CarryRead, Baseline!Runs, BaseRuns, Baseline!problem
<1>3. \A array, i, j : Baseline!Scan!XorOver(array, i, j) = OddCount(array, i, j)
  <2>1. \A S : Baseline!Scan!Cardinality(S) = Cardinality(S)
    BY DEF Baseline!Scan!Cardinality, Cardinality
  <2> QED BY <2>1 DEF Baseline!Scan!XorOver, OddCount
<1>4. /\ Baseline!Scan!ValuesPerThread(Segments) = LaneRun
      /\ \A t, i : i \in Baseline!Scan!Run(t, Segments) <=> i \in Segs /\ LaneOfSeg(i) = t
      /\ Baseline!Scan!RunTotals(Segments) = TotalsOfRuns
  BY DEF Baseline!Scan!ValuesPerThread, LaneRun, Baseline!Scan!Run, LaneOfSeg, Segs,
         Baseline!Scan!RunTotals, TotalsOfRuns
<1>5. CASE Baseline!Launch
  <2>1. Baseline!Units("carry") = Segs
    BY <1>1 DEF Baseline!Units
  <2> QED BY <1>5, <2>1 DEF Baseline!Launch, LaunchStep, BaseSteps, BaseBuffers, Baseline!escapes,
             Baseline!scan
<1>6. CASE Baseline!NextKernel
  <2>1. \A name \in {"carry", "escape", "quote", "prescan", "postscan", "rebase", "string"} :
          /\ Baseline!Following[name] = NextOf(name)
          /\ Baseline!Units(NextOf(name)) = BaseUnits(NextOf(name))
    BY <1>1 DEF Baseline!Following, NextOf, Baseline!Units, BaseUnits
  <2>2. NextOf("structural") = "idle"
    BY DEF NextOf
  <2> QED BY <1>6, <2>1, <2>2
          DEF Baseline!NextKernel, KernelStep, BaseSteps, BaseBuffers, Baseline!escapes, Baseline!scan,
              Baseline!problem, BaseTyped
<1>7. CASE Baseline!PostScan
  BY <1>1, <1>2, <1>3, <1>4, <1>7
  DEF Baseline!PostScan, Baseline!Scan!PostScan, PostScanStep, BaseSteps, Baseline!escapes
<1>8. ASSUME NEW t \in Segs, Baseline!EscapeCarry(t) PROVE BaseSteps
  <2>1. CarryStep(t)
    BY <1>1, <1>2, <1>8, BaselineOperators
    DEF Baseline!EscapeCarry, CarryStep, SegOutgoing, Baseline!escapes, Baseline!scan
  <2> QED BY <2>1 DEF BaseSteps
<1>9. ASSUME NEW t \in Segs, Baseline!EscapeBitmap(t) PROVE BaseSteps
  <2>1. EscapeStep(t)
    BY <1>1, <1>2, <1>9, BaselineOperators
    DEF Baseline!EscapeBitmap, EscapeStep, EscapedFrom, Baseline!scan
  <2> QED BY <2>1 DEF BaseSteps
<1>10. ASSUME NEW t \in Segs, Baseline!QuoteBitmap(t) PROVE BaseSteps
  <2>1. QuoteStep(t)
    BY <1>1, <1>2, <1>10, BaselineOperators
    DEF Baseline!QuoteBitmap, QuoteStep, QuotesLeft, Baseline!escapes
  <2> QED BY <2>1 DEF BaseSteps
<1>11. ASSUME NEW t \in Segs, Baseline!StringBitmap(t) PROVE BaseSteps
  <2>1. \A quotes, from, p : Baseline!CarriedString(quotes, from, p)
                               = Cardinality({q \in quotes : from <= q /\ q <= p}) % 2
    BY BaselineOperators DEF Baseline!CarriedString
  <2>2. StringsStep(t)
    BY <1>1, <1>2, <1>11, <2>1
    DEF Baseline!StringBitmap, StringsStep, StringsFrom, Baseline!escapes, Baseline!scan, Baseline!Scan!Xor
  <2> QED BY <2>2 DEF BaseSteps
<1>12. ASSUME NEW t \in Segs, Baseline!StructuralBitmap(t) PROVE BaseSteps
  <2>1. StructuralStep(t)
    BY <1>1, <1>2, <1>12, BaselineOperators
    DEF Baseline!StructuralBitmap, StructuralStep, OperatorsLeft, Baseline!escapes, Baseline!scan
  <2> QED BY <2>1 DEF BaseSteps
<1>13. ASSUME NEW t \in BaseLanes, Baseline!PreScan(t) PROVE BaseSteps
  <2>1. PreScanStep(t)
    BY <1>2, <1>3, <1>4, <1>13
    DEF Baseline!PreScan, Baseline!Scan!PreScan, PreScanStep, Baseline!escapes
  <2> QED BY <2>1 DEF BaseSteps
<1>14. ASSUME NEW t \in BaseLanes, Baseline!Rebase(t) PROVE BaseSteps
  <2>1. RebaseStep(t)
    BY <1>2, <1>3, <1>4, <1>14
    DEF Baseline!Rebase, Baseline!Scan!Rebase, RebaseStep, Baseline!escapes, Baseline!Scan!Xor
  <2> QED BY <2>1 DEF BaseSteps
<1> QED BY <1>1, <1>5, <1>6, <1>7, <1>8, <1>9, <1>10, <1>11, <1>12, <1>13, <1>14 DEF Baseline!Next

-----------------------------------------------------------------------------
(***************************************************************************)
(* The prepared program divides words where the baseline divides bytes.    *)
(***************************************************************************)
LEMMA WordsOfBytes ==
  ASSUME NEW width \in Nat \ {0}, NEW m \in Nat \ {0}, NEW p \in Nat
  PROVE  p \div (m * width) = (p \div width) \div m
<1> DEFINE w == p \div width
           r == p % width
           k == w \div m
           j == w % m
<1>1. w \in Nat /\ r \in 0 .. width - 1 /\ p = w * width + r
  BY Quotient
<1> HIDE DEF w, r
<1>2. k \in Nat /\ j \in 0 .. m - 1 /\ w = k * m + j
  BY <1>1, Quotient
<1> HIDE DEF k, j
<1> DEFINE size == m * width
           rest == j * width + r
<1>3. size \in Nat \ {0}
  OBVIOUS
<1>4. rest \in 0 .. size - 1
  <2>1. j \in Nat /\ m \in Nat /\ j < m
    BY <1>2
  <2>2. j * width + width <= m * width /\ j * width \in Nat
    BY <2>1, Multiples
  <2> QED BY <1>1, <1>3, <2>2
<1>5. p = k * size + rest
  <2>1. w * width = (k * m) * width + j * width
    BY <1>2
  <2>2. (k * m) * width = k * size
    BY <1>2
  <2> QED BY <1>1, <1>2, <2>1, <2>2
<1> HIDE DEF size, rest
<1>6. /\ p \div size \in Nat /\ p % size \in 0 .. size - 1
      /\ p = (p \div size) * size + (p % size)
  BY <1>3, Quotient
<1>7. p \div size = k
  <2> DEFINE a == p \div size
             b == p % size
  <2>1. a \in Nat /\ b \in 0 .. size - 1 /\ a * size + b = k * size + rest
    BY <1>5, <1>6
  <2> HIDE DEF a, b
  <2>2. a = k
    BY <1>2, <1>3, <1>4, <2>1, QuotientUnique
  <2> QED BY <2>2 DEF a
<1> QED BY <1>7 DEF size, k, w

LEMMA CeilDivBelow ==
  ASSUME NEW a \in Nat, NEW b \in Nat \ {0}, NEW c \in Nat \ {0}
  PROVE  CeilDiv(CeilDiv(a, c), b) <= CeilDiv(CeilDiv(a, b), c)
<1> DEFINE x == CeilDiv(a, b)
           y == CeilDiv(x, c)
           z == CeilDiv(a, c)
<1>1. x \in Nat /\ a <= x * b
  BY CeilDivFacts
<1> HIDE DEF x
<1>2. y \in Nat /\ x <= y * c
  BY <1>1, CeilDivFacts
<1> HIDE DEF y
<1>3. a <= (y * b) * c
  <2> DEFINE d == y * c
  <2>1. d \in Nat /\ x <= d
    BY <1>2
  <2> HIDE DEF d
  <2>2. x < d => x * b + b <= d * b
    BY <1>1, <2>1, Multiples
  <2>3. x * b \in Nat /\ d * b \in Nat
    BY <1>1, <2>1
  <2>4. x * b <= d * b
    BY <1>1, <2>1, <2>2, <2>3
  <2>5. d * b = (y * b) * c
    BY <1>2 DEF d
  <2> QED BY <1>1, <2>3, <2>4, <2>5
<1>4. y * b \in Nat
  BY <1>2
<1> DEFINE e == y * b
<1>5. e \in Nat /\ a <= e * c
  BY <1>3, <1>4
<1> HIDE DEF e
<1>6. z \in Nat /\ z <= e
  BY <1>5, CeilDivFacts
<1> HIDE DEF z
<1>7. z <= y * b
  BY <1>6 DEF e
<1>8. CeilDiv(z, b) <= y
  BY <1>2, <1>6, <1>7, CeilDivFacts
<1> QED BY <1>8 DEF x, y, z

LEMMA CeilDivsCommute ==
  ASSUME NEW a \in Nat, NEW b \in Nat \ {0}, NEW c \in Nat \ {0}
  PROVE  CeilDiv(CeilDiv(a, c), b) = CeilDiv(CeilDiv(a, b), c)
<1> DEFINE x == CeilDiv(CeilDiv(a, c), b)
           y == CeilDiv(CeilDiv(a, b), c)
<1>1. CeilDiv(a, c) \in Nat /\ CeilDiv(a, b) \in Nat
  BY CeilDivFacts
<1>2. x \in Nat /\ y \in Nat
  BY <1>1, CeilDivFacts
<1>3. x <= y /\ y <= x
  BY CeilDivBelow
<1> HIDE DEF x, y
<1>4. x = y
  BY <1>2, <1>3
<1> QED BY <1>4 DEF x, y

\* The words that thread t of the prepared string stage turns into strings, and those that
\* a byte loop stores, are the words of segment t.
LEMMA PreparedWords ==
  ASSUME text \in BaselineTexts, NEW t \in Segs
  PROVE  /\ \A p \in TextBits : p \div WordBytes \in Gpjson!StringWords(t) <=> p \in SegBits(t)
         /\ \A p \in TextBits : p \div WordBytes \in Gpjson!StoredWords(t) <=> p \in SegBits(t)
         /\ Gpjson!StringWords(t) = {p \div WordBytes : p \in SegRange(t)}
<1> DEFINE B == SegBytes
           W == WordBytes
           n == WordCount(text)
           size == Size(text)
<1>1. /\ B \in Nat \ {0} /\ W \in Nat \ {0} /\ n \in Nat /\ size \in Nat
      /\ Segments \in Nat \ {0} /\ n = CeilDiv(size, W) /\ DOMAIN text = 0 .. size - 1
      /\ n * W \in Nat /\ size <= n * W
  BY BaseFacts
<1>2. PICK m \in Nat \ {0} : B = m * W /\ (size # 0 => m = CeilDiv(CeilDiv(size, Segments), W))
  <2>1. CASE size = 0
    BY <2>1, BaseFacts
  <2>2. CASE size # 0
    <3>1. DOMAIN text # {}
      BY <1>1, <2>2
    <3> DEFINE k == CeilDiv(CeilDiv(size, Segments), W)
    <3>2. B = k * W
      BY <3>1 DEF B, SegBytes, SegmentBytes
    <3>3. k \in Nat
      <4>1. CeilDiv(size, Segments) \in Nat
        BY <1>1, CeilDivFacts
      <4> QED BY <1>1, <4>1, CeilDivFacts
    <3> HIDE DEF k
    <3>4. k # 0
      <4>1. k = 0 => k * W = 0
        BY <1>1
      <4> QED BY <1>1, <3>2, <4>1
    <3> QED BY <3>2, <3>3, <3>4 DEF k
  <2> QED BY <2>1, <2>2
<1>3. size # 0 => CeilDiv(n, Segments) = m
  BY <1>1, <1>2, CeilDivsCommute
<1>5. \A p \in TextBits : p \in Nat /\ p < n * W
  BY <1>1 DEF TextBits
<1>6. /\ \A p : p \in SegBits(t) <=> p \in TextBits /\ p \div B = t
      /\ \A p : p \in SegRange(t) <=> p \in DOMAIN text /\ p \div B = t
      /\ DOMAIN text \in SUBSET TextBits
  BY BaseBits DEF Segs
<1>7. /\ \A w : w \in Gpjson!StringWords(t) <=> w \in 0 .. n - 1 /\ w \div CeilDiv(n, Segments) = t
      /\ Gpjson!StoredWords(t)
           = {p \div W : p \in {q \in SegRange(t) : q % W = W - 1}
                               \cup {q \in {size - 1} : /\ size <= (t + 1) * B /\ size > t * B
                                                        /\ (size - 1) % W # W - 1}}
  <2>1. /\ Gpjson!levelSize = n
        /\ Gpjson!From(t) = t * B /\ Gpjson!To(t) = (t + 1) * B
        /\ Gpjson!ByteRange(text, Gpjson!From(t), Gpjson!To(t)) = SegRange(t)
    BY GpjsonOperators DEF Gpjson!levelSize, Gpjson!From, Gpjson!To, SegRange, SegBytes
  <2> QED BY <2>1, GpjsonOperators DEF Gpjson!StringWords, Gpjson!StoredWords
<1> HIDE DEF B, W, n, size
<1>4. \A w \in Nat : w < n <=> w * W < size
  BY <1>1, CeilDivFacts
<1>8. \A p \in Nat : p \div B = (p \div W) \div m
  BY <1>1, <1>2, WordsOfBytes
\* the bytes of a word
<1>9. ASSUME NEW p \in Nat
      PROVE  /\ p \div W \in Nat /\ p % W \in 0 .. W - 1 /\ p = (p \div W) * W + (p % W)
             /\ (p \div W) * W \in Nat
  <2>1. p \div W \in Nat /\ p % W \in 0 .. W - 1 /\ p = (p \div W) * W + (p % W)
    BY <1>1, Quotient
  <2> DEFINE a == p \div W
  <2>2. a \in Nat
    BY <2>1
  <2> HIDE DEF a
  <2>3. a * W \in Nat
    BY <1>1, <2>2
  <2> QED BY <2>1, <2>3 DEF a
<1>10. ASSUME NEW w \in Nat, NEW i \in 0 .. W - 1
       PROVE  w * W + i \in Nat /\ (w * W + i) \div W = w /\ (w * W + i) % W = i
  <2> DEFINE p == w * W + i
  <2>0. w * W \in Nat /\ i \in Nat
    BY <1>1
  <2>1. p \in Nat
    BY <2>0
  <2> DEFINE a == p \div W
             b == p % W
  <2>2. a \in Nat /\ b \in 0 .. W - 1 /\ p = a * W + b
    BY <1>9, <2>1
  <2> HIDE DEF a, b
  <2>3. a * W + b = w * W + i
    BY <2>2
  <2>4. a = w /\ b = i
    BY <1>1, <2>2, <2>3, QuotientUnique
  <2> QED BY <2>1, <2>4 DEF a, b
<1>11. ASSUME NEW p \in TextBits
       PROVE  p \div W \in 0 .. n - 1 /\ (p \div W) * W < size /\ size # 0
  <2> DEFINE w == p \div W
             r == p % W
  <2>1. w \in Nat /\ r \in 0 .. W - 1 /\ p = w * W + r /\ p < n * W /\ p \in Nat
    BY <1>5, <1>9
  <2> HIDE DEF w, r
  <2>2. n < w => n * W + W <= w * W
    BY <1>1, <2>1, Multiples
  <2>3. w = n => w * W = n * W
    OBVIOUS
  <2>4. w * W \in Nat
    BY <1>1, <2>1
  <2>5. w < n
    BY <1>1, <2>1, <2>2, <2>3, <2>4
  <2>6. w * W < size
    BY <1>4, <2>1, <2>5
  <2> QED BY <1>1, <2>1, <2>4, <2>5, <2>6 DEF w
<1>12. ASSUME NEW p \in TextBits
       PROVE  p \div W \in Gpjson!StringWords(t) <=> p \in SegBits(t)
  BY <1>3, <1>5, <1>6, <1>7, <1>8, <1>11
<1>13. ASSUME NEW p \in TextBits, p \div W \in Gpjson!StoredWords(t)
       PROVE  p \in SegBits(t)
  <2>1. PICK q \in SegRange(t) \cup {size - 1} :
          p \div W = q \div W /\ (q \notin SegRange(t) => q = size - 1 /\ size <= (t + 1) * B /\ size > t * B)
    BY <1>7, <1>13
  <2>2. q \in SegRange(t)
    <3> SUFFICES ASSUME q = size - 1, size <= (t + 1) * B, size > t * B PROVE q \in SegRange(t)
      BY <2>1
    <3>1. t \in Nat /\ t * B \in Nat /\ (t + 1) * B \in Nat
      BY <1>1 DEF Segs
    <3>2. q \in DOMAIN text /\ t * B <= q /\ q < (t + 1) * B
      BY <1>1, <3>1
    <3> QED BY <3>2 DEF SegRange, ByteRange, B
  <2>3. q \in DOMAIN text /\ q \div B = t /\ q \in Nat
    BY <1>1, <1>6, <2>2
  <2> QED BY <1>5, <1>6, <1>8, <2>1, <2>3
<1>14. ASSUME NEW p \in SegBits(t)
       PROVE  p \div W \in Gpjson!StoredWords(t) /\ p \div W \in {q \div W : q \in SegRange(t)}
  <2> DEFINE w == p \div W
             top == w * W + (W - 1)
             last == size - 1
  <2>1. p \in TextBits /\ p \in Nat /\ p \div B = t
    BY <1>5, <1>6
  <2>2. w \in 0 .. n - 1 /\ w \in Nat /\ w * W < size /\ w \div m = t /\ w * W \in Nat
    BY <1>1, <1>8, <1>9, <1>11, <2>1
  <2> HIDE DEF w
  <2>3. W - 1 \in 0 .. W - 1 /\ 0 \in 0 .. W - 1
    BY <1>1
  <2>4. top \in Nat /\ top \div W = w /\ top % W = W - 1
    BY <1>10, <2>2, <2>3
  <2>5. w * W \in SegRange(t) /\ (w * W) \div W = w
    <3>1. (w * W + 0) \div W = w /\ w * W + 0 = w * W
      BY <1>10, <2>2, <2>3
    <3>2. (w * W) \div B = t
      BY <1>8, <2>2, <3>1
    <3>3. w * W \in DOMAIN text
      BY <1>1, <2>2
    <3> QED BY <1>6, <3>1, <3>2, <3>3
  <2>6. CASE top < size
    <3>1. top \in SegRange(t)
      <4>1. top \div B = t
        BY <1>8, <2>2, <2>4
      <4>2. top \in DOMAIN text
        BY <1>1, <2>4, <2>6
      <4> HIDE DEF top
      <4> QED BY <1>6, <4>1, <4>2
    <3> HIDE DEF top
    <3>2. w \in Gpjson!StoredWords(t)
      BY <1>7, <2>4, <3>1
    <3> QED BY <2>5, <3>2 DEF w
  <2>7. CASE ~(top < size)
    <3> DEFINE i == last - w * W
    <3>1. i \in 0 .. W - 1 /\ i # W - 1 /\ last = w * W + i /\ last \in Nat /\ last < size
      BY <1>1, <2>2, <2>4, <2>7
    <3> HIDE DEF i
    <3>2. last \div W = w /\ last % W = i
      BY <1>10, <2>2, <3>1
    <3>3. last \in SegRange(t)
      <4>1. last \div B = t
        BY <1>8, <2>2, <3>1, <3>2
      <4>2. last \in DOMAIN text
        BY <1>1, <3>1
      <4> QED BY <1>6, <4>1, <4>2
    <3>4. size <= (t + 1) * B /\ size > t * B
      <4>1. t \in Nat /\ t * B \in Nat /\ (t + 1) * B \in Nat
        BY <1>1 DEF Segs
      <4>2. t * B <= last /\ last < (t + 1) * B
        BY <3>3 DEF SegRange, ByteRange, B
      <4> QED BY <1>1, <4>1, <4>2
    <3>5. w \in Gpjson!StoredWords(t)
      BY <1>7, <3>1, <3>2, <3>4
    <3> QED BY <2>5, <3>5 DEF w
  <2> QED BY <2>6, <2>7
<1>15. Gpjson!StringWords(t) = {p \div W : p \in SegRange(t)}
  <2>1. ASSUME NEW w \in Gpjson!StringWords(t) PROVE w \in {p \div W : p \in SegRange(t)}
    <3>1. w \in 0 .. n - 1 /\ w \in Nat /\ w < n
      BY <1>1, <1>7
    <3>2. w * W < size /\ w * W \in Nat /\ (w * W + 0) \div W = w /\ w * W + 0 = w * W
      BY <1>1, <1>4, <1>10, <3>1
    <3>3. w * W \in TextBits
      BY <1>1, <1>6, <3>2
    <3>4. w * W \in SegBits(t)
      BY <1>12, <3>2, <3>3
    <3> QED BY <1>14, <3>2, <3>4
  <2>2. ASSUME NEW p \in SegRange(t) PROVE p \div W \in Gpjson!StringWords(t)
    <3>1. p \in SegBits(t) /\ p \in TextBits
      BY <1>6
    <3> QED BY <1>12, <3>1
  <2> QED BY <2>1, <2>2
<1> QED BY <1>12, <1>13, <1>14, <1>15 DEF W

\* The prepared program takes the steps of the baseline, word for word.
LEMMA GpjsonTakesSteps ==
  ASSUME BaseTyped, Gpjson!gpjson_driver
  PROVE  BaseSteps
<1>0. text \in BaselineTexts
  BY DEF BaseTyped
<1>1. /\ Gpjson!Threads = Segs /\ Gpjson!Scan!ScanLanes = BaseLanes
      /\ \A t : Gpjson!From(t) = t * SegBytes /\ Gpjson!To(t) = (t + 1) * SegBytes
      /\ \A t : Gpjson!ByteRange(text, Gpjson!From(t), Gpjson!To(t)) = SegRange(t)
      /\ Gpjson!levelSize = WordCount(text)
  BY GpjsonOperators
  DEF Gpjson!Threads, Segs, Gpjson!Scan!ScanLanes, BaseLanes, Gpjson!From, Gpjson!To,
      SegBytes, SegRange, Gpjson!levelSize
<1>2. /\ \A bitmap, range, bits : Gpjson!Put(bitmap, range, bits) = Put(bitmap, range, bits)
      /\ \A carry, t : Gpjson!CarryIn(carry, t) = CarryRead(carry, t)
      /\ \A name, t : Gpjson!Runs(name, t) <=> BaseRuns(name, t)
  BY DEF Gpjson!Put, Put, Gpjson!CarryIn, CarryRead, Gpjson!Runs, BaseRuns, Gpjson!problem
<1>3. \A array, i, j : Gpjson!Scan!XorOver(array, i, j) = OddCount(array, i, j)
  <2>1. \A S : Gpjson!Scan!Cardinality(S) = Cardinality(S)
    BY DEF Gpjson!Scan!Cardinality, Cardinality
  <2> QED BY <2>1 DEF Gpjson!Scan!XorOver, OddCount
<1>4. /\ Gpjson!Scan!ValuesPerThread(Segments) = LaneRun
      /\ \A t, i : i \in Gpjson!Scan!Run(t, Segments) <=> i \in Segs /\ LaneOfSeg(i) = t
      /\ Gpjson!Scan!RunTotals(Segments) = TotalsOfRuns
  BY DEF Gpjson!Scan!ValuesPerThread, LaneRun, Gpjson!Scan!Run, LaneOfSeg, Segs,
         Gpjson!Scan!RunTotals, TotalsOfRuns
\* the words that a byte loop stores
<1>a. ASSUME NEW t \in Segs, NEW bits \in SUBSET SegRange(t), NEW bitmap \in SUBSET TextBits
      PROVE  Gpjson!Store(bitmap, Gpjson!StoredWords(t), bits) = Put(bitmap, SegBits(t), bits)
  <2>1. \A p \in TextBits : p \div WordBytes \in Gpjson!StoredWords(t) <=> p \in SegBits(t)
    BY <1>0, PreparedWords
  <2>2. bits \in SUBSET SegBits(t) /\ SegBits(t) \in SUBSET TextBits
    <3>1. t \in Nat
      BY DEF Segs
    <3>2. SegRange(t) \in SUBSET SegBits(t)
      BY <1>0, <3>1, BaseBits
    <3> QED BY <3>2 DEF SegBits
  <2> DEFINE range == {p \in bitmap \cup bits : p \div WordBytes \in Gpjson!StoredWords(t)}
  <2>3. \A p \in bitmap \cup bits : p \in range <=> p \in SegBits(t)
    BY <2>1, <2>2
  <2>4. Gpjson!Store(bitmap, Gpjson!StoredWords(t), bits) = Put(bitmap, range, bits)
    BY <1>2 DEF Gpjson!Store
  <2> HIDE DEF range
  <2> QED BY <2>2, <2>3, <2>4 DEF Put
<1>5. CASE Gpjson!Launch
  <2>1. Gpjson!Units("carry") = Segs
    BY <1>1 DEF Gpjson!Units
  <2> QED BY <1>5, <2>1 DEF Gpjson!Launch, LaunchStep, BaseSteps, BaseBuffers, Gpjson!escapes,
             Gpjson!scan
<1>6. CASE Gpjson!NextKernel
  <2>1. \A name \in {"carry", "escape", "quote", "prescan", "postscan", "rebase", "string"} :
          /\ Gpjson!Following[name] = NextOf(name)
          /\ Gpjson!Units(NextOf(name)) = BaseUnits(NextOf(name))
    BY <1>1 DEF Gpjson!Following, NextOf, Gpjson!Units, BaseUnits
  <2>2. NextOf("structural") = "idle"
    BY DEF NextOf
  <2> QED BY <1>6, <2>1, <2>2
          DEF Gpjson!NextKernel, KernelStep, BaseSteps, BaseBuffers, Gpjson!escapes, Gpjson!scan,
              Gpjson!problem, BaseTyped
<1>7. CASE Gpjson!gpjson_xor_post_scan
  BY <1>1, <1>2, <1>3, <1>4, <1>7
  DEF Gpjson!gpjson_xor_post_scan, Gpjson!PostScan, Gpjson!Scan!PostScan, PostScanStep, BaseSteps,
      Gpjson!escapes
<1>8. ASSUME NEW t \in Segs, Gpjson!gpjson_escape_carry(t) PROVE BaseSteps
  <2>1. CarryStep(t)
    BY <1>1, <1>2, <1>8, GpjsonOperators
    DEF Gpjson!gpjson_escape_carry, Gpjson!EscapeCarry, CarryStep, SegOutgoing, Gpjson!escapes, Gpjson!scan
  <2> QED BY <2>1 DEF BaseSteps
<1>9. ASSUME NEW t \in Segs, Gpjson!gpjson_escape_index(t) PROVE BaseSteps
  <2>1. /\ BaseRuns("escape", t)
        /\ escape_bitmap' = Gpjson!Store(escape_bitmap, Gpjson!StoredWords(t), EscapedFrom(t))
        /\ UNCHANGED <<escape_carry, quote_or_string_bitmap, quote_carry, xor_bases, structural_bitmap>>
    BY <1>1, <1>2, <1>9, GpjsonOperators DEF Gpjson!gpjson_escape_index, EscapedFrom, Gpjson!scan
  <2>2. EscapedFrom(t) \in SUBSET SegRange(t) /\ escape_bitmap \in SUBSET TextBits
    BY DEF EscapedFrom, BaseTyped
  <2>3. EscapeStep(t)
    BY <1>a, <2>1, <2>2 DEF EscapeStep
  <2> QED BY <2>3 DEF BaseSteps
<1>10. ASSUME NEW t \in Segs, Gpjson!gpjson_quote_index(t) PROVE BaseSteps
  <2>1. /\ BaseRuns("quote", t)
        /\ quote_or_string_bitmap'
             = Gpjson!Store(quote_or_string_bitmap, Gpjson!StoredWords(t), QuotesLeft(t))
        /\ quote_carry' = [quote_carry EXCEPT ![t] = Cardinality(QuotesLeft(t)) % 2]
        /\ UNCHANGED <<escape_carry, escape_bitmap, xor_bases, structural_bitmap>>
    BY <1>1, <1>2, <1>10, GpjsonOperators DEF Gpjson!gpjson_quote_index, QuotesLeft, Gpjson!escapes
  <2>2. QuotesLeft(t) \in SUBSET SegRange(t) /\ quote_or_string_bitmap \in SUBSET TextBits
    BY DEF QuotesLeft, BaseTyped
  <2>3. QuoteStep(t)
    BY <1>a, <2>1, <2>2 DEF QuoteStep
  <2> QED BY <2>3 DEF BaseSteps
<1>11. ASSUME NEW t \in Segs, Gpjson!gpjson_string_index(t) PROVE BaseSteps
  <2> DEFINE bits == {p \in 0 .. WordCount(text) * WordBytes - 1 : p \div WordBytes \in Gpjson!StringWords(t)}
             first == CHOOSE p \in bits : \A q \in bits : p <= q
             strings == {p \in bits :
                           ((Cardinality({q \in quote_or_string_bitmap : first <= q /\ q <= p}) % 2)
                              + CarryRead(quote_carry, t)) % 2 = 1}
  <2>1. /\ BaseRuns("string", t)
        /\ quote_or_string_bitmap' = Put(quote_or_string_bitmap, bits, strings)
        /\ UNCHANGED <<escape_carry, escape_bitmap, quote_carry, xor_bases, structural_bitmap>>
    BY <1>1, <1>2, <1>11, GpjsonOperators
    DEF Gpjson!gpjson_string_index, Gpjson!CarriedString, Gpjson!escapes, Gpjson!scan, Gpjson!Scan!Xor
  <2>2. bits = SegBits(t)
    <3>1. \A p \in TextBits : p \div WordBytes \in Gpjson!StringWords(t) <=> p \in SegBits(t)
      BY <1>0, PreparedWords
    <3>2. bits = {p \in TextBits : p \div WordBytes \in Gpjson!StringWords(t)}
      BY DEF TextBits
    <3>3. SegBits(t) \in SUBSET TextBits
      BY DEF SegBits
    <3> HIDE DEF bits
    <3> QED BY <3>1, <3>2, <3>3
  <2>3. bits # {} => first = t * SegBytes
    <3> SUFFICES ASSUME SegBits(t) # {} PROVE first = t * SegBytes
      BY <2>2
    <3>1. /\ t * SegBytes \in Nat /\ SegBits(t) \in SUBSET TextBits /\ TextBits \in SUBSET Nat
          /\ \A p \in SegBits(t) : t * SegBytes <= p
      <4>1. t \in Nat /\ SegBytes \in Nat
        BY <1>0, BaseFacts DEF Segs
      <4>2. t * SegBytes \in Nat
        BY <4>1
      <4> QED BY <1>0, <4>2, BaseBits DEF SegBits
    <3>2. t * SegBytes \in SegBits(t)
      <4>1. PICK p \in SegBits(t) : TRUE
        OBVIOUS
      <4>2. p \in Nat /\ t * SegBytes <= p /\ p < (t + 1) * SegBytes /\ p <= WordCount(text) * WordBytes - 1
            /\ (t + 1) * SegBytes = t * SegBytes + SegBytes /\ SegBytes \in Nat \ {0}
            /\ WordCount(text) * WordBytes \in Nat
        <5>1. t \in Nat /\ SegBytes \in Nat \ {0} /\ WordCount(text) * WordBytes \in Nat
          BY <1>0, BaseFacts DEF Segs
        <5>2. (t + 1) * SegBytes = t * SegBytes + SegBytes
          BY <5>1
        <5> QED BY <3>1, <4>1, <5>1, <5>2 DEF SegBits, TextBits
      <4>3. t * SegBytes \in TextBits
        BY <3>1, <4>2 DEF TextBits
      <4> QED BY <3>1, <4>2, <4>3 DEF SegBits
    <3> DEFINE start == t * SegBytes
    <3>3. first = CHOOSE p \in SegBits(t) : \A q \in SegBits(t) : p <= q
      BY <2>2
    <3>4. /\ start \in SegBits(t) /\ start \in Nat /\ SegBits(t) \in SUBSET Nat
          /\ \A q \in SegBits(t) : start <= q
      BY <3>1, <3>2
    <3> HIDE DEF start, first
    <3>5. \A p \in SegBits(t) : (\A q \in SegBits(t) : p <= q) => p = start
      <4> SUFFICES ASSUME NEW p \in SegBits(t), \A q \in SegBits(t) : p <= q PROVE p = start
        OBVIOUS
      <4>1. p <= start /\ start <= p /\ p \in Nat
        BY <3>4
      <4> QED BY <3>4, <4>1
    <3> QED BY <3>3, <3>4, <3>5 DEF start
  <2>4. strings = StringsFrom(t)
    <3> HIDE DEF first, bits
    <3>1. CASE bits = {}
      BY <2>2, <3>1 DEF StringsFrom
    <3>2. CASE bits # {}
      BY <2>2, <2>3, <3>2 DEF StringsFrom
    <3> QED BY <3>1, <3>2
  <2> HIDE DEF strings, bits
  <2>5. StringsStep(t)
    BY <2>1, <2>2, <2>4 DEF StringsStep
  <2> QED BY <2>5 DEF BaseSteps
<1>12. ASSUME NEW t \in Segs, Gpjson!gpjson_structural_bitmap(t) PROVE BaseSteps
  <2>1. /\ BaseRuns("structural", t)
        /\ structural_bitmap' = Gpjson!Store(structural_bitmap, Gpjson!StoredWords(t), OperatorsLeft(t))
        /\ UNCHANGED <<escape_carry, escape_bitmap, quote_or_string_bitmap, quote_carry, xor_bases>>
    BY <1>1, <1>2, <1>12, GpjsonOperators
    DEF Gpjson!gpjson_structural_bitmap, OperatorsLeft, Gpjson!escapes, Gpjson!scan
  <2>2. OperatorsLeft(t) \in SUBSET SegRange(t) /\ structural_bitmap \in SUBSET TextBits
    BY DEF OperatorsLeft, BaseTyped
  <2>3. StructuralStep(t)
    BY <1>a, <2>1, <2>2 DEF StructuralStep
  <2> QED BY <2>3 DEF BaseSteps
<1>13. ASSUME NEW t \in BaseLanes, Gpjson!gpjson_xor_pre_scan(t) PROVE BaseSteps
  <2>1. PreScanStep(t)
    BY <1>2, <1>3, <1>4, <1>13
    DEF Gpjson!gpjson_xor_pre_scan, Gpjson!PreScan, Gpjson!Scan!PreScan, PreScanStep, Gpjson!escapes
  <2> QED BY <2>1 DEF BaseSteps
<1>14. ASSUME NEW t \in BaseLanes, Gpjson!gpjson_xor_rebase(t) PROVE BaseSteps
  <2>1. RebaseStep(t)
    BY <1>2, <1>3, <1>4, <1>14
    DEF Gpjson!gpjson_xor_rebase, Gpjson!Rebase, Gpjson!Scan!Rebase, RebaseStep, Gpjson!escapes,
        Gpjson!Scan!Xor
  <2> QED BY <2>1 DEF BaseSteps
<1> QED BY <1>1, <1>5, <1>6, <1>7, <1>8, <1>9, <1>10, <1>11, <1>12, <1>13, <1>14
        DEF Gpjson!gpjson_driver

-----------------------------------------------------------------------------
(***************************************************************************)
(* The steps keep the invariant.                                           *)
(***************************************************************************)
LEMMA BaseSame ==
  ASSUME text' = text
  PROVE  /\ SegBytes' = SegBytes /\ TextBits' = TextBits /\ SegParities' = SegParities
         /\ StringBits' = StringBits /\ SegOutput' = SegOutput
         /\ \A t : /\ SegRange(t)' = SegRange(t) /\ SegBits(t)' = SegBits(t)
                   /\ SegOutgoing(t)' = SegOutgoing(t) /\ EscapedOf(t)' = EscapedOf(t)
                   /\ SegFound(t)' = SegFound(t)
                   /\ RunPrefix(t)' = RunPrefix(t) /\ FullPrefix(t)' = FullPrefix(t)
                   /\ LaneBase(t)' = LaneBase(t) /\ LaneOfSeg(t)' = LaneOfSeg(t)
<1>1. SegBytes' = SegBytes /\ TextBits' = TextBits
  BY DEF SegBytes, TextBits
<1>2. SegParities' = SegParities /\ StringBits' = StringBits /\ SegOutput' = SegOutput
  BY <1>1 DEF SegParities, StringBits, SegOutput
<1>3. \A t : /\ SegRange(t)' = SegRange(t) /\ SegBits(t)' = SegBits(t)
             /\ SegOutgoing(t)' = SegOutgoing(t) /\ SegFound(t)' = SegFound(t)
             /\ LaneOfSeg(t)' = LaneOfSeg(t)
  BY <1>1 DEF SegRange, SegBits, SegOutgoing, SegFound, LaneOfSeg
<1>4. \A t : EscapedOf(t)' = EscapedOf(t)
  BY <1>1, <1>3 DEF EscapedOf
<1>5. \A t : /\ RunPrefix(t)' = RunPrefix(t) /\ FullPrefix(t)' = FullPrefix(t)
             /\ LaneBase(t)' = LaneBase(t)
  BY <1>2 DEF RunPrefix, FullPrefix, LaneBase, LaneOfSeg, OddCount
<1> QED BY <1>1, <1>2, <1>3, <1>4, <1>5

\* The lanes of the scan share out the segments in runs.
LEMMA BaseLaneFacts ==
  ASSUME text \in BaselineTexts
  PROVE  /\ LaneRun \in Nat \ {0} /\ Segments \in Nat \ {0} /\ ScanThreads \in Nat \ {0}
         /\ \A i \in Segs : /\ LaneOfSeg(i) \in BaseLanes
                            /\ i \in LaneOfSeg(i) * LaneRun .. LaneOfSeg(i) * LaneRun + LaneRun - 1
         /\ \A l \in BaseLanes :
              /\ l \in Nat /\ l * LaneRun \in Segs /\ l * LaneRun + LaneRun - 1 \in Segs
              /\ LaneOfSeg(l * LaneRun + LaneRun - 1) = l
              /\ \A i \in l * LaneRun .. l * LaneRun + LaneRun - 1 : i \in Segs /\ LaneOfSeg(i) = l
<1>1. /\ Segments \in Nat \ {0} /\ ScanThreads \in Nat \ {0} /\ Segments % ScanThreads = 0
  BY BaseFacts
<1> DEFINE V == LaneRun
<1>2. V \in Nat \ {0} /\ Segments = V * ScanThreads
  BY <1>1, RunLengths DEF LaneRun
<1> HIDE DEF V
<1>3. /\ \A i \in Segs : i \div V \in BaseLanes /\ (i \div V) * V \in 0 .. i
      /\ \A l \in BaseLanes : /\ l * V \in Segs /\ l * V + V - 1 \in Segs
                              /\ \A i \in l * V .. l * V + V - 1 : i \in Segs /\ i \div V = l
  BY <1>1, <1>2, RunsOfLanes DEF Segs, BaseLanes
<1>4. ASSUME NEW i \in Segs PROVE i \in (i \div V) * V .. (i \div V) * V + V - 1
  <2> DEFINE l == i \div V
             r == i % V
  <2>1. i \in Nat
    BY DEF Segs
  <2>2. l \in Nat /\ r \in 0 .. V - 1 /\ i = l * V + r
    BY <1>2, <2>1, Quotient
  <2> HIDE DEF l, r
  <2>3. l * V \in Nat
    BY <1>2, <2>2
  <2>4. i \in l * V .. l * V + V - 1
    BY <1>2, <2>1, <2>2, <2>3
  <2> QED BY <2>4 DEF l
<1>5. ASSUME NEW l \in BaseLanes PROVE l \in Nat /\ (l * V + V - 1) \div V = l
  <2> DEFINE a == l * V
  <2>1. l \in Nat
    BY DEF BaseLanes
  <2>2. a \in Nat
    BY <1>2, <2>1
  <2>a. \A i \in a .. a + V - 1 : i \div V = l
    BY <1>3
  <2> HIDE DEF a
  <2>3. a + V - 1 \in a .. a + V - 1
    BY <1>2, <2>2
  <2>4. (a + V - 1) \div V = l
    BY <2>a, <2>3
  <2> QED BY <2>1, <2>4 DEF a
<1> QED BY <1>1, <1>2, <1>3, <1>4, <1>5 DEF V, LaneOfSeg

LEMMA BaseTypeFacts ==
  ASSUME text \in BaselineTexts
  PROVE  /\ \A t \in Nat : SegOutgoing(t) \in {0, 1} /\ SegParities[t] \in {0, 1}
         /\ \A t \in Nat : /\ EscapedOf(t) \in SUBSET SegBits(t) /\ SegFound(t) \in SUBSET SegBits(t)
                           /\ SegBits(t) \in SUBSET TextBits
         /\ \A i \in Segs : RunPrefix(i) \in {0, 1} /\ FullPrefix(i) \in {0, 1}
         /\ \A l \in BaseLanes : LaneBase(l) \in {0, 1}
         /\ StringBits \in SUBSET TextBits /\ SegOutput \in SUBSET TextBits
<1>1. IsText(text) /\ SegBytes \in Nat \ {0}
  BY BaseFacts
<1>2. ASSUME NEW t \in Nat PROVE SegOutgoing(t) \in {0, 1} /\ SegParities[t] \in {0, 1}
  <2>1. t * SegBytes \in Nat /\ (t + 1) * SegBytes \in Nat /\ t * SegBytes <= (t + 1) * SegBytes
    BY <1>1, SegmentEnds
  <2>2. SegOutgoing(t) \in {0, 1}
    BY <1>1, <2>1, OutgoingFacts DEF SegOutgoing
  <2>3. Cardinality(Found(text, SegBytes, t)) \in Nat
    BY <1>1, FoundIsLookback, FS_CardinalityType
  <2>4. SegParities[t] \in {0, 1}
    BY <2>3 DEF SegParities, FoundParities
  <2> QED BY <2>2, <2>4
<1>3. ASSUME NEW t \in Nat
      PROVE  /\ EscapedOf(t) \in SUBSET SegBits(t) /\ SegFound(t) \in SUBSET SegBits(t)
             /\ SegBits(t) \in SUBSET TextBits
  <2>1. SegRange(t) \in SUBSET SegBits(t)
    BY BaseBits
  <2>2. SegFound(t) \in SUBSET SegRange(t)
    BY DEF SegFound, Found, QuotesFrom, SegRange
  <2> QED BY <2>1, <2>2 DEF EscapedOf, SegBits
<1>4. ASSUME NEW i \in Segs PROVE RunPrefix(i) \in {0, 1} /\ FullPrefix(i) \in {0, 1}
  <2>1. LaneOfSeg(i) * LaneRun \in Int /\ i \in Int
    <3>1. LaneOfSeg(i) \in Nat /\ LaneRun \in Nat
      BY BaseLaneFacts
    <3> QED BY <3>1 DEF Segs
  <2> QED BY <2>1, OddCountFacts DEF RunPrefix, FullPrefix
<1>5. ASSUME NEW l \in BaseLanes PROVE LaneBase(l) \in {0, 1}
  <2>1. l * LaneRun - 1 \in Int
    <3>1. l \in Nat /\ LaneRun \in Nat
      BY BaseLaneFacts
    <3> QED BY <3>1
  <2> QED BY <2>1, OddCountFacts DEF LaneBase
<1>6. StringBits \in SUBSET TextBits
  BY DEF StringBits
<1>7. SegOutput \in SUBSET TextBits
  BY BaseBits DEF SegOutput, LookbackStructural, OutsideStrings, Operators
<1> QED BY <1>2, <1>3, <1>4, <1>5, <1>6, <1>7

LEMMA BaseStarts ==
  ASSUME Baseline!Init \/ Gpjson!Init
  PROVE  BaseInv
<1>1. /\ text \in BaselineTexts /\ launch = 0 /\ stage = "idle" /\ pending = {}
      /\ \E garbage \in {0, 1} :
           LET bits == {p \in TextBits : garbage = 1}
           IN /\ escape_bitmap = bits /\ quote_or_string_bitmap = bits
              /\ structural_bitmap = bits
              /\ escape_carry = [t \in Segs |-> garbage]
              /\ quote_carry = [t \in Segs |-> garbage]
              /\ xor_bases = [t \in BaseLanes |-> garbage]
  <2>1. CASE Baseline!Init
    BY <2>1, BaselineOperators
    DEF Baseline!Init, TextBits, Baseline!Threads, Segs, Baseline!Scan!ScanLanes, BaseLanes
  <2>2. CASE Gpjson!Init
    BY <2>2, GpjsonOperators
    DEF Gpjson!Init, TextBits, Gpjson!Threads, Segs, Gpjson!Scan!ScanLanes, BaseLanes
  <2> QED BY <2>1, <2>2
<1>2. Launches \in Nat
  BY BaselineAssumed DEF Baseline!BaselineAssumption
<1>3. BaseTyped
  BY <1>1, <1>2 DEF BaseTyped
<1> QED BY <1>1, <1>3 DEF BaseInv, BaseSchedule, CarriesHold, EscapesHold, RowHolds, ScansHold,
                          StructuralsHold, BaseOutput

LEMMA BaseStutters ==
  ASSUME BaseInv, UNCHANGED <<text, launch, stage, pending, BaseBuffers>>
  PROVE  BaseInv'
<1>1. UNCHANGED <<text, launch, stage, pending, escape_carry, escape_bitmap, quote_or_string_bitmap,
                  quote_carry, xor_bases, structural_bitmap>>
  BY DEF BaseBuffers
<1>2. /\ TextBits' = TextBits /\ SegParities' = SegParities
      /\ StringBits' = StringBits /\ SegOutput' = SegOutput
      /\ \A t : /\ SegBits(t)' = SegBits(t) /\ SegOutgoing(t)' = SegOutgoing(t)
                /\ EscapedOf(t)' = EscapedOf(t) /\ SegFound(t)' = SegFound(t)
                /\ RunPrefix(t)' = RunPrefix(t) /\ FullPrefix(t)' = FullPrefix(t)
                /\ LaneBase(t)' = LaneBase(t) /\ LaneOfSeg(t)' = LaneOfSeg(t)
  BY <1>1, BaseSame
<1>3. BaseSchedule'
  BY <1>1, <1>2 DEF BaseInv, BaseSchedule, BaseTyped, BaseUnits
<1>4. CarriesHold' /\ EscapesHold'
  BY <1>1, <1>2 DEF BaseInv, CarriesHold, EscapesHold
<1>5. RowHolds'
  BY <1>1, <1>2 DEF BaseInv, RowHolds, StringPut
<1>6. ScansHold'
  <2>1. \A i : CarriedValue(i)' = CarriedValue(i)
    BY <1>1, <1>2 DEF CarriedValue
  <2> QED BY <1>1, <1>2, <2>1 DEF BaseInv, ScansHold
<1>7. StructuralsHold' /\ BaseOutput'
  BY <1>1, <1>2 DEF BaseInv, StructuralsHold, BaseOutput
<1> QED BY <1>3, <1>4, <1>5, <1>6, <1>7 DEF BaseInv

LEMMA BaseLaunches ==
  ASSUME BaseInv, LaunchStep
  PROVE  BaseInv'
<1>1. /\ stage' = "carry" /\ pending' = Segs /\ launch \in Nat /\ launch' = launch + 1
      /\ launch < Launches /\ Launches \in Nat
      /\ UNCHANGED <<text, escape_carry, escape_bitmap, quote_or_string_bitmap,
                     quote_carry, xor_bases, structural_bitmap>>
  BY BaselineAssumed
  DEF LaunchStep, BaseBuffers, BaseInv, BaseSchedule, BaseTyped, Baseline!BaselineAssumption
<1>2. TextBits' = TextBits
  BY <1>1, BaseSame
<1>3. BaseTyped'
  BY <1>1, <1>2 DEF BaseInv, BaseSchedule, BaseTyped
<1>4. Segs \in SUBSET Nat /\ BaseUnits("carry") = Segs
  BY DEF Segs, BaseUnits
<1> QED BY <1>1, <1>3, <1>4 DEF BaseInv, BaseSchedule, CarriesHold, EscapesHold, RowHolds, ScansHold,
                                StructuralsHold, BaseOutput

LEMMA BaseNextKernel ==
  ASSUME BaseInv, KernelStep
  PROVE  BaseInv'
<1>1. /\ stage # "idle" /\ pending = {} /\ stage' = NextOf(stage)
      /\ pending' = (IF stage = "structural" THEN {} ELSE BaseUnits(stage'))
      /\ UNCHANGED <<text, launch, escape_carry, escape_bitmap, quote_or_string_bitmap,
                     quote_carry, xor_bases, structural_bitmap>>
      /\ BaseTyped /\ text \in BaselineTexts
  BY DEF KernelStep, BaseBuffers, BaseInv, BaseSchedule, BaseTyped
<1>2. /\ TextBits' = TextBits /\ SegParities' = SegParities
      /\ StringBits' = StringBits /\ SegOutput' = SegOutput
      /\ \A t : /\ SegBits(t)' = SegBits(t) /\ SegOutgoing(t)' = SegOutgoing(t)
                /\ EscapedOf(t)' = EscapedOf(t) /\ SegFound(t)' = SegFound(t)
                /\ RunPrefix(t)' = RunPrefix(t) /\ FullPrefix(t)' = FullPrefix(t)
                /\ LaneBase(t)' = LaneBase(t) /\ LaneOfSeg(t)' = LaneOfSeg(t)
  BY <1>1, BaseSame
<1>3. \/ stage = "carry" /\ stage' = "escape" /\ pending' = Segs
      \/ stage = "escape" /\ stage' = "quote" /\ pending' = Segs
      \/ stage = "quote" /\ stage' = "prescan" /\ pending' = BaseLanes
      \/ stage = "prescan" /\ stage' = "postscan" /\ pending' = {0}
      \/ stage = "postscan" /\ stage' = "rebase" /\ pending' = BaseLanes
      \/ stage = "rebase" /\ stage' = "string" /\ pending' = Segs
      \/ stage = "string" /\ stage' = "structural" /\ pending' = Segs
      \/ stage = "structural" /\ stage' = "idle" /\ pending' = {}
  BY <1>1 DEF BaseTyped, NextOf, BaseUnits
<1>4. BaseSchedule'
  <2>1. BaseTyped'
    BY <1>1, <1>2, <1>3 DEF BaseTyped
  <2>2. Segs \in SUBSET Nat /\ BaseLanes \in SUBSET Nat /\ {0} \in SUBSET Nat
    BY DEF Segs, BaseLanes
  <2>3. stage' # "idle" => pending' = BaseUnits(stage)'
    BY <1>1, <1>3 DEF BaseUnits
  <2>4. pending' \in SUBSET Nat
    <3>1. pending' \in {Segs, BaseLanes, {0}, {}}
      BY <1>3
    <3> QED BY <2>2, <3>1
  <2>5. stage' = "idle" => pending' = {}
    BY <1>3
  <2> QED BY <2>1, <2>3, <2>4, <2>5 DEF BaseSchedule
<1>5. CarriesHold'
  BY <1>1, <1>2, <1>3 DEF BaseInv, CarriesHold
<1>6. EscapesHold'
  BY <1>1, <1>2, <1>3 DEF BaseInv, EscapesHold
<1>7. RowHolds'
  BY <1>1, <1>2, <1>3 DEF BaseInv, RowHolds, StringPut
<1>8. ScansHold'
  <2>1. \A i \in Segs : LaneOfSeg(i) \in BaseLanes
    BY <1>1, BaseLaneFacts
  <2>2. ASSUME NEW i \in Segs, stage' \notin {"idle", "carry", "escape", "quote"}
        PROVE  quote_carry[i] = CarriedValue(i) /\ CarriedValue(i)' = CarriedValue(i)
    <3>1. quote_carry[i] = CarriedValue(i)
      BY <1>1, <1>3, <2>2 DEF BaseInv, ScansHold
    <3>2. CarriedValue(i)' = CarriedValue(i)
      BY <1>1, <1>2, <1>3, <2>1, <2>2 DEF CarriedValue
    <3> QED BY <3>1, <3>2
  <2>3. stage' = "quote" => pending' = Segs
    BY <1>3
  <2>4. ~(stage' = "postscan" /\ pending' = {}) /\ (stage' = "rebase" => stage = "postscan")
    BY <1>3
  <2>5. stage = "postscan" => \A l \in BaseLanes : xor_bases[l] = LaneBase(l)
    BY <1>1 DEF BaseInv, ScansHold
  <2> QED BY <1>1, <1>2, <2>2, <2>3, <2>4, <2>5 DEF ScansHold
<1>9. StructuralsHold'
  BY <1>1, <1>3 DEF StructuralsHold
<1>10. BaseOutput'
  <2> SUFFICES ASSUME stage = "structural" PROVE structural_bitmap = SegOutput
    BY <1>1, <1>2, <1>3 DEF BaseOutput
  <2>1. structural_bitmap \in SUBSET TextBits /\ SegOutput \in SUBSET TextBits
    BY <1>1, BaseTypeFacts DEF BaseTyped
  <2>2. ASSUME NEW p \in TextBits PROVE p \in structural_bitmap <=> p \in SegOutput
    <3>1. PICK t \in Segs : p \in SegBits(t)
      <4>1. p \div SegBytes \in Segs /\ p \div SegBytes \in Nat
        BY <1>1, BaseBits DEF Segs
      <4> QED BY <1>1, <4>1, BaseBits
    <3>2. structural_bitmap \cap SegBits(t) = SegOutput \cap SegBits(t)
      BY <1>1 DEF BaseInv, StructuralsHold
    <3> QED BY <3>1, <3>2
  <2> QED BY <2>1, <2>2
<1> QED BY <1>4, <1>5, <1>6, <1>7, <1>8, <1>9, <1>10 DEF BaseInv

\* What a step of a kernel need not be asked about.
LEMMA BaseStep ==
  ASSUME BaseInv, NEW name, NEW t, name # "idle", BaseRuns(name, t)
  PROVE  /\ stage = name /\ stage' = name /\ t \in pending /\ pending' = pending \ {t}
         /\ text' = text /\ launch' = launch /\ text \in BaselineTexts /\ BaseTyped
         /\ t \in BaseUnits(name)
         /\ BaseTyped' => BaseSchedule'
         /\ UNCHANGED escape_carry /\ name # "carry" => CarriesHold'
         /\ UNCHANGED escape_bitmap /\ name # "escape" => EscapesHold'
         /\ UNCHANGED quote_or_string_bitmap /\ name \notin {"quote", "string"} => RowHolds'
         /\ UNCHANGED <<quote_carry, xor_bases>> /\ name \notin {"quote", "prescan", "postscan", "rebase"}
              => ScansHold'
         /\ name # "structural" => StructuralsHold'
         /\ BaseOutput'
<1>1. /\ stage = name /\ stage' = name /\ t \in pending /\ pending' = pending \ {t}
      /\ text' = text /\ launch' = launch /\ text \in BaselineTexts /\ BaseTyped
      /\ t \in BaseUnits(name)
  BY DEF BaseRuns, BaseInv, BaseSchedule, BaseTyped
<1>2. /\ \A i : /\ SegBits(i)' = SegBits(i) /\ SegOutgoing(i)' = SegOutgoing(i)
                /\ EscapedOf(i)' = EscapedOf(i) /\ SegFound(i)' = SegFound(i)
                /\ FullPrefix(i)' = FullPrefix(i)
      /\ StringBits' = StringBits
  BY <1>1, BaseSame
<1>3. BaseTyped' => BaseSchedule'
  <2>1. BaseUnits(stage)' = BaseUnits(stage) /\ (stage' = "idle" <=> stage = "idle")
    BY <1>1 DEF BaseUnits
  <2>2. /\ pending \in SUBSET Nat /\ pending \subseteq BaseUnits(stage) /\ stage # "idle"
    BY <1>1 DEF BaseInv, BaseSchedule
  <2>3. pending' \in SUBSET Nat /\ pending' \subseteq BaseUnits(stage)
    BY <1>1, <2>2
  <2> QED BY <2>1, <2>2, <2>3 DEF BaseSchedule
<1>4. UNCHANGED escape_carry /\ name # "carry" => CarriesHold'
  BY <1>1, <1>2 DEF BaseInv, CarriesHold
<1>5. UNCHANGED escape_bitmap /\ name # "escape" => EscapesHold'
  BY <1>1, <1>2 DEF BaseInv, EscapesHold
<1>6. UNCHANGED quote_or_string_bitmap /\ name \notin {"quote", "string"} => RowHolds'
  BY <1>1, <1>2 DEF BaseInv, RowHolds, StringPut
<1>7. UNCHANGED <<quote_carry, xor_bases>> /\ name \notin {"quote", "prescan", "postscan", "rebase"}
        => ScansHold'
  <2> SUFFICES ASSUME UNCHANGED <<quote_carry, xor_bases>>,
                      name \notin {"quote", "prescan", "postscan", "rebase"}
               PROVE  ScansHold'
    OBVIOUS
  <2>1. \A i : CarriedValue(i) = FullPrefix(i) /\ CarriedValue(i)' = FullPrefix(i)
    BY <1>1, <1>2 DEF CarriedValue
  <2> QED BY <1>1, <2>1 DEF BaseInv, ScansHold
<1>8. name # "structural" => StructuralsHold'
  BY <1>1 DEF StructuralsHold
<1>9. BaseOutput'
  BY <1>1 DEF BaseOutput
<1> QED BY <1>1, <1>3, <1>4, <1>5, <1>6, <1>7, <1>8, <1>9

LEMMA BaseCarry ==
  ASSUME BaseInv, NEW t \in Segs, CarryStep(t)
  PROVE  BaseInv'
<1>1. /\ BaseRuns("carry", t)
      /\ escape_carry' = [escape_carry EXCEPT ![t] = SegOutgoing(t)]
      /\ UNCHANGED <<escape_bitmap, quote_or_string_bitmap, quote_carry, xor_bases, structural_bitmap>>
  BY DEF CarryStep
<1>2. /\ stage = "carry" /\ stage' = "carry" /\ pending' = pending \ {t}
      /\ text' = text /\ launch' = launch /\ text \in BaselineTexts /\ BaseTyped
  BY <1>1, BaseStep
<1>3. /\ BaseTyped' => BaseSchedule'
      /\ EscapesHold' /\ RowHolds' /\ ScansHold' /\ StructuralsHold' /\ BaseOutput'
  BY <1>1, BaseStep
<1>4. SegOutgoing(t) \in {0, 1} /\ TextBits' = TextBits /\ \A i : SegOutgoing(i)' = SegOutgoing(i)
  BY <1>2, BaseTypeFacts, BaseSame DEF Segs
<1>5. BaseTyped'
  BY <1>1, <1>2, <1>4 DEF BaseTyped
<1>6. CarriesHold'
  BY <1>1, <1>2, <1>4 DEF BaseInv, CarriesHold, BaseTyped
<1> QED BY <1>3, <1>5, <1>6 DEF BaseInv

\* The escape that the segment before hands on is the one with which the lookback enters.
LEMMA BaseEscape ==
  ASSUME BaseInv, NEW t \in Segs, EscapeStep(t)
  PROVE  BaseInv'
<1>1. /\ BaseRuns("escape", t)
      /\ escape_bitmap' = Put(escape_bitmap, SegBits(t), EscapedFrom(t))
      /\ UNCHANGED <<escape_carry, quote_or_string_bitmap, quote_carry, xor_bases, structural_bitmap>>
  BY DEF EscapeStep
<1>2. /\ stage = "escape" /\ stage' = "escape" /\ pending' = pending \ {t} /\ t \in Nat
      /\ text' = text /\ launch' = launch /\ text \in BaselineTexts /\ BaseTyped
  BY <1>1, BaseStep DEF Segs
<1>3. /\ BaseTyped' => BaseSchedule'
      /\ CarriesHold' /\ RowHolds' /\ ScansHold' /\ StructuralsHold' /\ BaseOutput'
  BY <1>1, BaseStep
<1>4. CarryRead(escape_carry, t) = Entering(text, SegBytes, t)
  <2>1. CASE t = 0
    BY <2>1 DEF CarryRead, Entering
  <2>2. CASE t # 0
    <3>1. t - 1 \in Segs /\ (t - 1) + 1 = t
      BY <1>2, <2>2, BaseFacts DEF Segs
    <3>2. escape_carry[t - 1] = SegOutgoing(t - 1)
      BY <1>2, <3>1 DEF BaseInv, CarriesHold
    <3>3. SegOutgoing(t - 1) = OutgoingEscape(text, (t - 1) * SegBytes, t * SegBytes, 0)
      BY <3>1 DEF SegOutgoing
    <3> QED BY <2>2, <3>2, <3>3 DEF CarryRead, Entering
  <2> QED BY <2>1, <2>2
<1>5. EscapedFrom(t) = EscapedOf(t)
  BY <1>4 DEF EscapedFrom, EscapedOf
<1>6. EscapedOf(t) \in SUBSET SegBits(t) /\ escape_bitmap \in SUBSET TextBits
  BY <1>2, BaseTypeFacts DEF BaseTyped
<1>7. /\ escape_bitmap' \in SUBSET TextBits /\ escape_bitmap' \cap SegBits(t) = EscapedOf(t)
      /\ \A j \in Nat : j # t => escape_bitmap' \cap SegBits(j) = escape_bitmap \cap SegBits(j)
  <2> DEFINE bits == EscapedOf(t)
  <2>1. bits \in SUBSET SegBits(t) /\ escape_bitmap' = Put(escape_bitmap, SegBits(t), bits)
    BY <1>1, <1>5, <1>6
  <2> HIDE DEF bits
  <2>2. /\ escape_bitmap' \in SUBSET TextBits /\ escape_bitmap' \cap SegBits(t) = bits
        /\ \A j \in Nat : j # t => escape_bitmap' \cap SegBits(j) = escape_bitmap \cap SegBits(j)
    BY <1>2, <1>6, <2>1, BasePut
  <2> QED BY <2>2 DEF bits
<1>8. /\ TextBits' = TextBits /\ \A j : EscapedOf(j)' = EscapedOf(j) /\ SegBits(j)' = SegBits(j)
  BY <1>2, BaseSame
<1>9. BaseTyped'
  BY <1>1, <1>2, <1>7, <1>8 DEF BaseTyped
<1>10. EscapesHold'
  BY <1>2, <1>7, <1>8 DEF BaseInv, EscapesHold, Segs
<1> QED BY <1>3, <1>9, <1>10 DEF BaseInv

\* The quotes that are not marked as escaped are those of the lookback.
LEMMA BaseQuote ==
  ASSUME BaseInv, NEW t \in Segs, QuoteStep(t)
  PROVE  BaseInv'
<1>1. /\ BaseRuns("quote", t)
      /\ quote_or_string_bitmap' = Put(quote_or_string_bitmap, SegBits(t), QuotesLeft(t))
      /\ quote_carry' = [quote_carry EXCEPT ![t] = Cardinality(QuotesLeft(t)) % 2]
      /\ UNCHANGED <<escape_carry, escape_bitmap, xor_bases, structural_bitmap>>
  BY DEF QuoteStep
<1>2. /\ stage = "quote" /\ stage' = "quote" /\ pending' = pending \ {t} /\ t \in Nat
      /\ text' = text /\ launch' = launch /\ text \in BaselineTexts /\ BaseTyped
  BY <1>1, BaseStep DEF Segs
<1>3. /\ BaseTyped' => BaseSchedule'
      /\ CarriesHold' /\ EscapesHold' /\ StructuralsHold' /\ BaseOutput'
  BY <1>1, BaseStep
<1>4. QuotesLeft(t) = SegFound(t)
  <2>1. escape_bitmap \cap SegBits(t) = EscapedOf(t)
    BY <1>2 DEF BaseInv, EscapesHold
  <2>2. SegRange(t) \in SUBSET SegBits(t)
    BY <1>2, BaseBits
  <2>3. \A p \in SegRange(t) : EscapeOnArrival(text, t * SegBytes, Entering(text, SegBytes, t), p) \in {0, 1}
    <3> SUFFICES ASSUME NEW p \in SegRange(t)
                 PROVE  EscapeOnArrival(text, t * SegBytes, Entering(text, SegBytes, t), p) \in {0, 1}
      OBVIOUS
    <3>1. /\ IsText(text) /\ SegBytes \in Nat \ {0} /\ t * SegBytes \in Nat
          /\ Entering(text, SegBytes, t) \in {0, 1}
      BY <1>2, BaseFacts, SegmentEnds, EnteringFacts
    <3>2. p \in Nat /\ t * SegBytes <= p
      <4>1. p \in DOMAIN text /\ t * SegBytes <= p
        BY DEF SegRange, ByteRange
      <4> QED BY <3>1, <4>1, TextDomain
    <3> DEFINE from == t * SegBytes
               e == Entering(text, SegBytes, t)
    <3>3. from \in Nat /\ e \in {0, 1} /\ from <= p /\ p \in Nat
      BY <3>1, <3>2
    <3> HIDE DEF from, e
    <3>4. PICK k : LoopRun(text, from, p, k)
      BY <3>3, LoopRunExists
    <3>5. k \in 0 .. p - from
      BY <3>4 DEF LoopRun
    <3>6. EscapeOnArrival(text, from, e, p) = (IF k = p - from THEN k + e ELSE k) % 2
      BY <3>3, <3>4, LoopRunIsTheRun
    <3>7. EscapeOnArrival(text, from, e, p) \in {0, 1}
      BY <3>3, <3>5, <3>6
    <3> QED BY <3>7 DEF from, e
  <2>4. SegFound(t) = {p \in SegRange(t) : /\ text[p] = "quote"
                         /\ EscapeOnArrival(text, t * SegBytes, Entering(text, SegBytes, t), p) = 0}
    BY DEF SegFound, Found, QuotesFrom, SegRange
  <2> QED BY <2>1, <2>2, <2>3, <2>4 DEF QuotesLeft, EscapedOf
<1>5. Cardinality(QuotesLeft(t)) % 2 = SegParities[t]
  BY <1>2, <1>4 DEF SegParities, FoundParities, SegFound
<1>6. /\ SegFound(t) \in SUBSET SegBits(t) /\ quote_or_string_bitmap \in SUBSET TextBits
      /\ SegParities[t] \in {0, 1}
  BY <1>2, BaseTypeFacts DEF BaseTyped
<1>7. /\ quote_or_string_bitmap' \in SUBSET TextBits
      /\ quote_or_string_bitmap' \cap SegBits(t) = SegFound(t)
      /\ \A j \in Nat : j # t =>
           quote_or_string_bitmap' \cap SegBits(j) = quote_or_string_bitmap \cap SegBits(j)
  <2> DEFINE bits == SegFound(t)
  <2>1. bits \in SUBSET SegBits(t)
        /\ quote_or_string_bitmap' = Put(quote_or_string_bitmap, SegBits(t), bits)
    BY <1>1, <1>4, <1>6
  <2> HIDE DEF bits
  <2>2. /\ quote_or_string_bitmap' \in SUBSET TextBits
        /\ quote_or_string_bitmap' \cap SegBits(t) = bits
        /\ \A j \in Nat : j # t =>
             quote_or_string_bitmap' \cap SegBits(j) = quote_or_string_bitmap \cap SegBits(j)
    BY <1>2, <1>6, <2>1, BasePut
  <2> QED BY <2>2 DEF bits
<1>8. /\ TextBits' = TextBits /\ SegParities' = SegParities
      /\ \A j : SegFound(j)' = SegFound(j) /\ SegBits(j)' = SegBits(j)
  BY <1>2, BaseSame
<1>9. BaseTyped'
  BY <1>1, <1>2, <1>5, <1>6, <1>7, <1>8 DEF BaseTyped
<1>10. RowHolds'
  BY <1>2, <1>7, <1>8 DEF BaseInv, RowHolds, StringPut, Segs
<1>11. ScansHold'
  <2>1. \A i : CarriedValue(i) = SegParities[i] /\ CarriedValue(i)' = SegParities[i]
    BY <1>2, <1>8 DEF CarriedValue
  <2>2. ASSUME NEW i \in Segs, i \notin pending' PROVE quote_carry'[i] = SegParities[i]
    <3>1. CASE i = t
      BY <1>1, <1>2, <1>5, <3>1 DEF BaseTyped
    <3>2. CASE i # t
      BY <1>1, <1>2, <2>1, <2>2, <3>2 DEF BaseTyped, BaseInv, ScansHold
    <3> QED BY <3>1, <3>2
  <2> QED BY <1>2, <2>1, <2>2 DEF ScansHold
<1> QED BY <1>3, <1>9, <1>10, <1>11 DEF BaseInv

\* A kernel of the scan leaves the bitmaps as they are.
LEMMA BaseScanStep ==
  ASSUME BaseInv, NEW name \in {"prescan", "postscan", "rebase"}, NEW t, BaseRuns(name, t),
         UNCHANGED <<escape_carry, escape_bitmap, quote_or_string_bitmap, structural_bitmap>>,
         quote_carry' \in [Segs -> {0, 1}], xor_bases' \in [BaseLanes -> {0, 1}],
         ScansHold'
  PROVE  BaseInv'
<1>1. /\ stage' = name /\ text' = text /\ launch' = launch /\ BaseTyped /\ stage = name
      /\ BaseTyped' => BaseSchedule'
      /\ CarriesHold' /\ EscapesHold' /\ RowHolds' /\ StructuralsHold' /\ BaseOutput'
  BY BaseStep
<1>2. TextBits' = TextBits
  BY <1>1, BaseSame
<1>3. BaseTyped'
  BY <1>1, <1>2 DEF BaseTyped
<1> QED BY <1>1, <1>3 DEF BaseInv

LEMMA BasePreScan ==
  ASSUME BaseInv, NEW t \in BaseLanes, PreScanStep(t)
  PROVE  BaseInv'
<1>1. /\ BaseRuns("prescan", t)
      /\ quote_carry' = [i \in DOMAIN quote_carry |->
                           IF i \in Segs /\ LaneOfSeg(i) = t THEN OddCount(quote_carry, t * LaneRun, i)
                           ELSE quote_carry[i]]
      /\ UNCHANGED <<escape_carry, escape_bitmap, quote_or_string_bitmap, xor_bases, structural_bitmap>>
  BY DEF PreScanStep
<1>2. /\ stage = "prescan" /\ stage' = "prescan" /\ pending' = pending \ {t} /\ t \in pending
      /\ text' = text /\ text \in BaselineTexts /\ BaseTyped
  BY <1>1, BaseStep
<1>3. /\ LaneRun \in Nat \ {0} /\ t \in Nat
      /\ \A i \in t * LaneRun .. t * LaneRun + LaneRun - 1 : i \in Segs /\ LaneOfSeg(i) = t
      /\ \A i \in Segs : i \in LaneOfSeg(i) * LaneRun .. LaneOfSeg(i) * LaneRun + LaneRun - 1
  BY <1>2, BaseLaneFacts
<1>4. \A i \in Segs : quote_carry[i] = CarriedValue(i)
  BY <1>2 DEF BaseInv, ScansHold
<1>5. ASSUME NEW i \in Segs, LaneOfSeg(i) = t
      PROVE  OddCount(quote_carry, t * LaneRun, i) = RunPrefix(i)
  <2>1. \A k \in t * LaneRun .. t * LaneRun + LaneRun - 1 : quote_carry[k] = SegParities[k]
    BY <1>2, <1>3, <1>4 DEF CarriedValue
  <2>2. i \in t * LaneRun .. t * LaneRun + LaneRun - 1
    BY <1>3, <1>5
  <2> DEFINE start == t * LaneRun
             parity == SegParities
  <2>3. start \in Nat /\ i \in Nat /\ \A k \in start .. i : k \in start .. start + LaneRun - 1
    BY <1>3, <2>2
  <2>4. \A k \in start .. i : quote_carry[k] = parity[k]
    BY <2>1, <2>3
  <2> HIDE DEF start, parity
  <2>5. OddCount(quote_carry, start, i) = OddCount(parity, start, i)
    BY <2>3, <2>4, OddCountCongruent
  <2> QED BY <1>5, <2>5 DEF RunPrefix, start, parity
<1>6. \A i \in Segs : quote_carry'[i] = IF LaneOfSeg(i) = t THEN RunPrefix(i) ELSE quote_carry[i]
  BY <1>1, <1>2, <1>5 DEF BaseTyped
<1>7. quote_carry' \in [Segs -> {0, 1}]
  <2>1. \A i \in Segs : RunPrefix(i) \in {0, 1} /\ quote_carry[i] \in {0, 1}
    BY <1>2, BaseTypeFacts DEF BaseTyped
  <2>2. quote_carry' = [i \in Segs |-> quote_carry'[i]]
    BY <1>1, <1>2 DEF BaseTyped
  <2> QED BY <1>6, <2>1, <2>2
<1>8. ScansHold'
  <2>1. /\ SegParities' = SegParities
        /\ \A i : LaneOfSeg(i)' = LaneOfSeg(i) /\ RunPrefix(i)' = RunPrefix(i)
    BY <1>2, BaseSame
  <2>2. ASSUME NEW i \in Segs PROVE quote_carry'[i] = CarriedValue(i)'
    BY <1>2, <1>4, <1>6, <2>1 DEF CarriedValue
  <2> QED BY <1>2, <2>2 DEF ScansHold
<1> QED BY <1>1, <1>2, <1>7, <1>8, BaseScanStep DEF BaseTyped

LEMMA BasePostScan ==
  ASSUME BaseInv, PostScanStep
  PROVE  BaseInv'
<1>1. /\ BaseRuns("postscan", 0)
      /\ xor_bases' = [t \in BaseLanes |-> OddCount(TotalsOfRuns, 0, t - 1)]
      /\ UNCHANGED <<escape_carry, escape_bitmap, quote_or_string_bitmap, quote_carry, structural_bitmap>>
  BY DEF PostScanStep
<1>2. /\ stage = "postscan" /\ stage' = "postscan" /\ pending' = pending \ {0}
      /\ text' = text /\ text \in BaselineTexts /\ BaseTyped
  BY <1>1, BaseStep
<1>3. /\ LaneRun \in Nat \ {0} /\ ScanThreads \in Nat \ {0}
      /\ \A l \in BaseLanes : /\ l \in Nat /\ l * LaneRun + LaneRun - 1 \in Segs
                              /\ LaneOfSeg(l * LaneRun + LaneRun - 1) = l
  BY <1>2, BaseLaneFacts
<1>4. ASSUME NEW l \in BaseLanes PROVE xor_bases'[l] = LaneBase(l)
  <2> DEFINE V == LaneRun
             parity == SegParities
             totals == TotalsOfRuns
  <2>1. l \in Nat /\ l <= ScanThreads - 1
    BY <1>3 DEF BaseLanes
  <2>2. ASSUME NEW k \in 0 .. l - 1 PROVE totals[k] = OddCount(parity, k * V, k * V + V - 1)
    <3>1. k \in 0 .. ScanThreads - 2 /\ k \in BaseLanes /\ k \in Nat
      BY <1>3, <2>1 DEF BaseLanes
    <3>2. V * (k + 1) - 1 = k * V + V - 1
      BY <1>3, <3>1
    <3> DEFINE i == k * V + V - 1
    <3>3. i \in Segs /\ LaneOfSeg(i) = k
      BY <1>3, <3>1
    <3>4. totals[k] = quote_carry[i]
      BY <3>1, <3>2 DEF TotalsOfRuns
    <3> HIDE DEF i
    <3>5. quote_carry[i] = RunPrefix(i)
      BY <1>2, <3>3 DEF BaseInv, ScansHold, CarriedValue
    <3>6. RunPrefix(i) = OddCount(SegParities, k * LaneRun, i)
      BY <3>3 DEF RunPrefix
    <3> QED BY <3>4, <3>5, <3>6 DEF i
  <2>3. V \in Nat \ {0} /\ AreTotals(totals, parity, V, l)
    BY <1>3, <2>2 DEF AreTotals
  <2> HIDE DEF totals, V, parity
  <2>4. OddCount(totals, 0, l - 1) = OddCount(parity, 0, l * V - 1)
    BY <2>1, <2>3, TotalsScan
  <2> QED BY <1>1, <2>4 DEF LaneBase, V, parity, totals
<1>5. xor_bases' \in [BaseLanes -> {0, 1}]
  <2>1. \A l \in BaseLanes : LaneBase(l) \in {0, 1}
    BY <1>2, BaseTypeFacts
  <2> QED BY <1>1, <1>4, <2>1
<1>6. ScansHold'
  <2>1. /\ \A i : LaneBase(i)' = LaneBase(i) /\ RunPrefix(i)' = RunPrefix(i)
    BY <1>2, BaseSame
  <2>2. \A i : CarriedValue(i) = RunPrefix(i) /\ CarriedValue(i)' = RunPrefix(i)
    BY <1>2, <2>1 DEF CarriedValue
  <2> QED BY <1>1, <1>2, <1>4, <2>1, <2>2 DEF BaseInv, ScansHold
<1> QED BY <1>1, <1>2, <1>5, <1>6, BaseScanStep DEF BaseTyped

LEMMA BaseRebase ==
  ASSUME BaseInv, NEW t \in BaseLanes, RebaseStep(t)
  PROVE  BaseInv'
<1>1. /\ BaseRuns("rebase", t)
      /\ quote_carry' = [i \in DOMAIN quote_carry |->
                           IF i \in Segs /\ LaneOfSeg(i) = t THEN (quote_carry[i] + xor_bases[t]) % 2
                           ELSE quote_carry[i]]
      /\ UNCHANGED <<escape_carry, escape_bitmap, quote_or_string_bitmap, xor_bases, structural_bitmap>>
  BY DEF RebaseStep
<1>2. /\ stage = "rebase" /\ stage' = "rebase" /\ pending' = pending \ {t} /\ t \in pending
      /\ text' = text /\ text \in BaselineTexts /\ BaseTyped
  BY <1>1, BaseStep
<1>3. /\ LaneRun \in Nat \ {0} /\ t \in Nat
      /\ \A i \in Segs : i \in LaneOfSeg(i) * LaneRun .. LaneOfSeg(i) * LaneRun + LaneRun - 1
  BY <1>2, BaseLaneFacts
<1>4. /\ \A i \in Segs : quote_carry[i] = CarriedValue(i)
      /\ \A l \in BaseLanes : xor_bases[l] = LaneBase(l)
  BY <1>2 DEF BaseInv, ScansHold
<1>5. ASSUME NEW i \in Segs, LaneOfSeg(i) = t
      PROVE  (quote_carry[i] + xor_bases[t]) % 2 = FullPrefix(i)
  <2>1. quote_carry[i] = OddCount(SegParities, t * LaneRun, i)
    BY <1>2, <1>4, <1>5 DEF CarriedValue, RunPrefix
  <2>2. i \in t * LaneRun .. t * LaneRun + LaneRun - 1
    BY <1>3, <1>5
  <2>3. (OddCount(SegParities, t * LaneRun, i) + OddCount(SegParities, 0, t * LaneRun - 1)) % 2
          = OddCount(SegParities, 0, i)
    BY <1>3, <2>2, RunRebased
  <2> QED BY <1>4, <2>1, <2>3 DEF LaneBase, FullPrefix
<1>6. \A i \in Segs : quote_carry'[i] = IF LaneOfSeg(i) = t THEN FullPrefix(i) ELSE quote_carry[i]
  BY <1>1, <1>2, <1>5 DEF BaseTyped
<1>7. quote_carry' \in [Segs -> {0, 1}]
  <2>1. \A i \in Segs : FullPrefix(i) \in {0, 1} /\ quote_carry[i] \in {0, 1}
    BY <1>2, BaseTypeFacts DEF BaseTyped
  <2>2. quote_carry' = [i \in Segs |-> quote_carry'[i]]
    BY <1>1, <1>2 DEF BaseTyped
  <2> QED BY <1>6, <2>1, <2>2
<1>8. ScansHold'
  <2>1. \A i : /\ LaneOfSeg(i)' = LaneOfSeg(i) /\ RunPrefix(i)' = RunPrefix(i)
               /\ FullPrefix(i)' = FullPrefix(i) /\ LaneBase(i)' = LaneBase(i)
    BY <1>2, BaseSame
  <2>2. ASSUME NEW i \in Segs PROVE quote_carry'[i] = CarriedValue(i)'
    BY <1>2, <1>4, <1>6, <2>1 DEF CarriedValue
  <2> QED BY <1>1, <1>2, <1>4, <2>1, <2>2 DEF ScansHold
<1> QED BY <1>1, <1>2, <1>7, <1>8, BaseScanStep DEF BaseTyped

-----------------------------------------------------------------------------
(***************************************************************************)
(* The row of the quotes becomes that of the strings, and the output.      *)
(***************************************************************************)
\* What a thread finds in its quotes and in the parity of those before its segment is the
\* parity of all quotes so far.
LEMMA StringsOfSegment ==
  ASSUME text \in BaselineTexts, NEW t \in Segs, NEW p \in SegBits(t), NEW e,
         e = OddCount(SegParities, 0, t - 1)
  PROVE  (((Cardinality({q \in SegFound(t) : q <= p}) % 2) + e) % 2 = 1) <=> p \in StringBits
<1> DEFINE from == t * SegBytes
           LQ == LookbackQuotes(text, SegBytes)
           inside == {q \in SegFound(t) : q <= p}
           before == {q \in LQ : q < from}
           all == {q \in LQ : q <= p}
<1>1. /\ IsText(text) /\ SegBytes \in Nat \ {0} /\ t \in Nat
      /\ TextBits \in SUBSET Nat /\ p \in TextBits /\ p \in Nat
      /\ from \in Nat /\ from <= p /\ p < (t + 1) * SegBytes
  <2>1. IsText(text) /\ SegBytes \in Nat \ {0} /\ t \in Nat /\ TextBits \in SUBSET Nat
    BY BaseFacts, BaseBits DEF Segs
  <2>2. from \in Nat
    BY <2>1, SegmentEnds
  <2> QED BY <2>1, <2>2 DEF SegBits
<1>2. e = Cardinality(before) % 2
  BY <1>1, ParityBeforeSegment DEF SegParities
<1>3. /\ SegFound(t) = {q \in LQ : from <= q /\ q < (t + 1) * SegBytes}
      /\ LQ \in SUBSET Nat /\ \A S \in SUBSET LQ : IsFiniteSet(S) /\ Cardinality(S) \in Nat
  BY <1>1, FoundIsLookback, LookbackFinite DEF SegFound
<1> DEFINE to == (t + 1) * SegBytes
<1>4. to \in Nat /\ from \in Nat
  BY <1>1, SegmentEnds
<1>10. /\ from \in Nat /\ to \in Nat /\ p \in Nat /\ from <= p /\ p < to /\ LQ \in SUBSET Nat
       /\ SegFound(t) = {q \in LQ : from <= q /\ q < to}
       /\ \A S \in SUBSET LQ : IsFiniteSet(S) /\ Cardinality(S) \in Nat
  BY <1>1, <1>3, <1>4
<1> HIDE DEF from, to, LQ
<1>5. all = before \cup inside /\ before \cap inside = {}
  <2>1. \A q \in LQ : q <= p <=> (q < from \/ (from <= q /\ q < to /\ q <= p))
    BY <1>10
  <2>2. \A q \in LQ : ~(q < from /\ from <= q)
    BY <1>10
  <2>3. inside = {q \in LQ : from <= q /\ q < to /\ q <= p}
    BY <1>10
  <2>4. \A q : /\ q \in all <=> q \in LQ /\ q <= p
               /\ q \in before <=> q \in LQ /\ q < from
    OBVIOUS
  <2>5. \A q : q \in inside <=> q \in LQ /\ from <= q /\ q < to /\ q <= p
    BY <2>3
  <2> HIDE DEF all, before, inside
  <2>6. \A q : q \in all <=> q \in before \/ q \in inside
    BY <2>1, <2>4, <2>5
  <2>7. \A q : ~(q \in before /\ q \in inside)
    BY <2>2, <2>4, <2>5
  <2> QED BY <2>6, <2>7
<1>6. /\ IsFiniteSet(before) /\ Cardinality(before) \in Nat
      /\ IsFiniteSet(inside) /\ Cardinality(inside) \in Nat
      /\ IsFiniteSet(all) /\ Cardinality(all) \in Nat
  <2>1. before \in SUBSET LQ /\ inside \in SUBSET LQ /\ all \in SUBSET LQ
    BY <1>10
  <2> HIDE DEF before, inside, all
  <2> QED BY <1>10, <2>1
<1> HIDE DEF before, inside, all
<1>7. Cardinality(all) % 2 = ((Cardinality(before) % 2) + (Cardinality(inside) % 2)) % 2
  BY <1>5, <1>6, ParityOfUnion
<1>8. ((Cardinality(inside) % 2) + e) % 2 = Cardinality(all) % 2
  BY <1>2, <1>6, <1>7
<1>9. p \in StringBits <=> Cardinality(all) % 2 = 1
  BY <1>1 DEF StringBits, all, LQ
<1> QED BY <1>8, <1>9 DEF inside

\* A thread that overwrites its words reads no others, and the parity that it is told is
\* that of the quotes before its segment.
LEMMA BaseStrings ==
  ASSUME BaseInv, NEW t \in Segs, StringsStep(t)
  PROVE  BaseInv'
<1>1. /\ BaseRuns("string", t)
      /\ quote_or_string_bitmap' = Put(quote_or_string_bitmap, SegBits(t), StringsFrom(t))
      /\ UNCHANGED <<escape_carry, escape_bitmap, quote_carry, xor_bases, structural_bitmap>>
  BY DEF StringsStep
<1>2. /\ stage = "string" /\ stage' = "string" /\ pending' = pending \ {t} /\ t \in Nat /\ t \in pending
      /\ text' = text /\ launch' = launch /\ text \in BaselineTexts /\ BaseTyped
  BY <1>1, BaseStep DEF Segs
<1>3. /\ BaseTyped' => BaseSchedule'
      /\ CarriesHold' /\ EscapesHold' /\ ScansHold' /\ StructuralsHold' /\ BaseOutput'
  BY <1>1, BaseStep
<1>4. CarryRead(quote_carry, t) = OddCount(SegParities, 0, t - 1)
  <2>1. CASE t = 0
    <3>1. t - 1 \in Int /\ t - 1 < 0
      BY <2>1
    <3>2. OddCount(SegParities, 0, t - 1) = 0
      BY <3>1, OddCountFacts
    <3> QED BY <2>1, <3>2 DEF CarryRead
  <2>2. CASE t # 0
    <3>1. t - 1 \in Segs
      BY <1>2, <2>2, BaseFacts DEF Segs
    <3>2. quote_carry[t - 1] = FullPrefix(t - 1)
      BY <1>2, <3>1 DEF BaseInv, ScansHold, CarriedValue
    <3> QED BY <2>2, <3>2 DEF CarryRead, FullPrefix
  <2> QED BY <2>1, <2>2
<1>5. quote_or_string_bitmap \cap SegBits(t) = SegFound(t)
  BY <1>2 DEF BaseInv, RowHolds, StringPut
<1>6. ASSUME NEW p \in SegBits(t)
      PROVE  {q \in quote_or_string_bitmap : t * SegBytes <= q /\ q <= p} = {q \in SegFound(t) : q <= p}
  <2>1. /\ quote_or_string_bitmap \in SUBSET TextBits /\ TextBits \in SUBSET Nat
        /\ t * SegBytes \in Nat /\ (t + 1) * SegBytes \in Nat /\ p \in TextBits
    <3>1. SegBytes \in Nat
      BY <1>2, BaseFacts
    <3>2. t * SegBytes \in Nat /\ (t + 1) * SegBytes \in Nat
      BY <1>2, <3>1
    <3> QED BY <1>2, <3>2, BaseBits DEF BaseTyped, SegBits
  <2> DEFINE from == t * SegBytes
             to == (t + 1) * SegBytes
  <2>2. from \in Nat /\ to \in Nat /\ p < to
    BY <2>1 DEF SegBits
  <2>3. \A q : q \in SegBits(t) <=> q \in TextBits /\ from <= q /\ q < to
    BY DEF SegBits
  <2> HIDE DEF from, to
  <2>4. \A q \in quote_or_string_bitmap : from <= q /\ q <= p => q \in SegBits(t)
    BY <2>1, <2>2, <2>3
  <2>5. \A q \in SegBits(t) : from <= q
    BY <2>3
  <2>6. {q \in quote_or_string_bitmap : from <= q /\ q <= p} = {q \in SegFound(t) : q <= p}
    BY <1>5, <2>4, <2>5
  <2> QED BY <2>6 DEF from
<1>7. StringsFrom(t) = StringBits \cap SegBits(t)
  <2>1. \A p \in SegBits(t) :
          p \in StringsFrom(t)
            <=> ((Cardinality({q \in SegFound(t) : q <= p}) % 2) + OddCount(SegParities, 0, t - 1)) % 2 = 1
    BY <1>4, <1>6 DEF StringsFrom
  <2>2. \A p \in SegBits(t) : p \in StringsFrom(t) <=> p \in StringBits
    BY <1>2, <2>1, StringsOfSegment
  <2> QED BY <2>2 DEF StringsFrom
<1>8. /\ quote_or_string_bitmap' \in SUBSET TextBits
      /\ quote_or_string_bitmap' \cap SegBits(t) = StringBits \cap SegBits(t)
      /\ \A j \in Nat : j # t =>
           quote_or_string_bitmap' \cap SegBits(j) = quote_or_string_bitmap \cap SegBits(j)
  <2> DEFINE bits == StringBits \cap SegBits(t)
  <2>1. bits \in SUBSET SegBits(t) /\ quote_or_string_bitmap \in SUBSET TextBits
        /\ quote_or_string_bitmap' = Put(quote_or_string_bitmap, SegBits(t), bits)
    BY <1>1, <1>2, <1>7 DEF BaseTyped
  <2> HIDE DEF bits
  <2>2. /\ quote_or_string_bitmap' \in SUBSET TextBits
        /\ quote_or_string_bitmap' \cap SegBits(t) = bits
        /\ \A j \in Nat : j # t =>
             quote_or_string_bitmap' \cap SegBits(j) = quote_or_string_bitmap \cap SegBits(j)
    BY <1>2, <2>1, BasePut
  <2> QED BY <2>2 DEF bits
<1>9. /\ TextBits' = TextBits /\ StringBits' = StringBits
      /\ \A j : SegFound(j)' = SegFound(j) /\ SegBits(j)' = SegBits(j)
  BY <1>2, BaseSame
<1>10. BaseTyped'
  BY <1>1, <1>2, <1>8, <1>9 DEF BaseTyped
<1>11. RowHolds'
  BY <1>2, <1>8, <1>9 DEF BaseInv, RowHolds, StringPut, Segs
<1> QED BY <1>3, <1>10, <1>11 DEF BaseInv

LEMMA BaseStructural ==
  ASSUME BaseInv, NEW t \in Segs, StructuralStep(t)
  PROVE  BaseInv'
<1>1. /\ BaseRuns("structural", t)
      /\ structural_bitmap' = Put(structural_bitmap, SegBits(t), OperatorsLeft(t))
      /\ UNCHANGED <<escape_carry, escape_bitmap, quote_or_string_bitmap, quote_carry, xor_bases>>
  BY DEF StructuralStep
<1>2. /\ stage = "structural" /\ stage' = "structural" /\ pending' = pending \ {t} /\ t \in Nat
      /\ text' = text /\ launch' = launch /\ text \in BaselineTexts /\ BaseTyped
  BY <1>1, BaseStep DEF Segs
<1>3. /\ BaseTyped' => BaseSchedule'
      /\ CarriesHold' /\ EscapesHold' /\ RowHolds' /\ ScansHold' /\ BaseOutput'
  BY <1>1, BaseStep
<1>4. OperatorsLeft(t) = SegOutput \cap SegBits(t)
  <2>1. quote_or_string_bitmap \cap SegBits(t) = StringBits \cap SegBits(t)
    BY <1>2 DEF BaseInv, RowHolds, StringPut
  <2>2. /\ DOMAIN text \in SUBSET TextBits
        /\ \A p : p \in SegRange(t) <=> p \in DOMAIN text /\ p \div SegBytes = t
        /\ \A p : p \in SegBits(t) <=> p \in TextBits /\ p \div SegBytes = t
    BY <1>2, BaseBits
  <2>3. \A p \in DOMAIN text : /\ Cardinality({q \in LookbackQuotes(text, SegBytes) : q <= p}) \in Nat
    BY <1>2, BaseFacts, LookbackFinite
  <2>4. \A p \in DOMAIN text :
          p \in StringBits <=> ~((Cardinality({q \in LookbackQuotes(text, SegBytes) : q <= p}) + 0) % 2 = 0)
    BY <2>2, <2>3 DEF StringBits
  <2>5. \A p : p \in SegOutput <=> /\ p \in DOMAIN text /\ IsOperator(text[p])
                                   /\ p \notin StringBits
    BY <2>4 DEF SegOutput, LookbackStructural, OutsideStrings, Operators
  <2>6. \A p : p \in OperatorsLeft(t) <=> /\ p \in SegRange(t) /\ IsOperator(text[p])
                                          /\ p \notin quote_or_string_bitmap
    BY DEF OperatorsLeft
  <2> QED BY <2>1, <2>2, <2>5, <2>6
<1>5. /\ structural_bitmap' \in SUBSET TextBits
      /\ structural_bitmap' \cap SegBits(t) = SegOutput \cap SegBits(t)
      /\ \A j \in Nat : j # t => structural_bitmap' \cap SegBits(j) = structural_bitmap \cap SegBits(j)
  <2> DEFINE bits == SegOutput \cap SegBits(t)
  <2>1. bits \in SUBSET SegBits(t) /\ structural_bitmap \in SUBSET TextBits
        /\ structural_bitmap' = Put(structural_bitmap, SegBits(t), bits)
    BY <1>1, <1>2, <1>4 DEF BaseTyped
  <2> HIDE DEF bits
  <2>2. /\ structural_bitmap' \in SUBSET TextBits
        /\ structural_bitmap' \cap SegBits(t) = bits
        /\ \A j \in Nat : j # t => structural_bitmap' \cap SegBits(j) = structural_bitmap \cap SegBits(j)
    BY <1>2, <2>1, BasePut
  <2> QED BY <2>2 DEF bits
<1>6. /\ TextBits' = TextBits /\ SegOutput' = SegOutput /\ \A j : SegBits(j)' = SegBits(j)
  BY <1>2, BaseSame
<1>7. BaseTyped'
  BY <1>1, <1>2, <1>5, <1>6 DEF BaseTyped
<1>8. StructuralsHold'
  BY <1>2, <1>5, <1>6 DEF BaseInv, StructuralsHold, Segs
<1> QED BY <1>3, <1>7, <1>8 DEF BaseInv

-----------------------------------------------------------------------------
(***************************************************************************)
(* Every state of the two programs.                                        *)
(***************************************************************************)
THEOREM BaselineInvariant == StreamsSpec => []BaselineInv
<1>1. StreamsInit => BaselineInv
  BY BaseStarts DEF StreamsInit, BaselineInv, InBaseline
<1>2. BaselineInv /\ [StreamsNext]_allVars => BaselineInv'
  <2> SUFFICES ASSUME BaselineInv, [StreamsNext]_allVars, InBaseline' PROVE BaseInv'
    BY DEF BaselineInv
  <2>1. benchmark' = benchmark /\ InBaseline /\ BaseInv
    BY DEF StreamsNext, allVars, InBaseline, BaselineInv
  <2>2. \/ Baseline!Next \/ Gpjson!gpjson_driver
        \/ UNCHANGED <<text, launch, stage, pending, BaseBuffers>>
    <3>1. benchmark \in {"gp_baseline", "gp_input"}
      BY <2>1 DEF InBaseline
    <3>2. CASE UNCHANGED allVars
      <4>1. UNCHANGED <<text, launch, stage, pending, escape_carry, xor_bases>>
        BY <3>2 DEF allVars, vars, problem, schedule, escapes, scan
      <4>2. UNCHANGED <<escape_bitmap, quote_or_string_bitmap, quote_carry, structural_bitmap>>
        BY <3>2 DEF allVars, OfBaseline
      <4> QED BY <4>1, <4>2 DEF BaseBuffers
    <3>3. CASE StreamsNext
      BY <3>1, <3>3 DEF StreamsNext
    <3> QED BY <3>2, <3>3
  <2>3. CASE UNCHANGED <<text, launch, stage, pending, BaseBuffers>>
    BY <2>1, <2>3, BaseStutters
  <2>4. CASE Baseline!Next \/ Gpjson!gpjson_driver
    <3>1. BaseSteps
      BY <2>1, <2>4, BaselineTakesSteps, GpjsonTakesSteps DEF BaseInv, BaseSchedule
    <3> QED BY <2>1, <3>1, BaseLaunches, BaseNextKernel, BasePostScan, BaseCarry, BaseEscape, BaseQuote,
               BaseStrings, BaseStructural, BasePreScan, BaseRebase DEF BaseSteps
  <2> QED BY <2>2, <2>3, <2>4
<1> QED BY <1>1, <1>2, PTL DEF StreamsSpec

\* While the threads of the string kernel overwrite the row, in any order, the segments
\* that have been turned hold strings and the others still hold quotes; and the prepared
\* program, whose string kernel divides words and not bytes, divides them alike.
LEMMA BaseRow ==
  ASSUME BaseInv, stage = "string", NEW t \in Segs, NEW p \in SegRange(t)
  PROVE  p \in quote_or_string_bitmap
           <=> IF t \in pending THEN p \in LookbackQuotes(text, SegBytes)
               ELSE Cardinality({q \in LookbackQuotes(text, SegBytes) : q <= p}) % 2 = 1
<1>1. text \in BaselineTexts /\ t \in Nat
  BY DEF BaseInv, BaseSchedule, BaseTyped, Segs
<1>2. p \in SegBits(t) /\ SegBits(t) \in SUBSET TextBits
  BY <1>1, BaseBits DEF SegBits
<1>3. quote_or_string_bitmap \cap SegBits(t)
        = IF t \notin pending THEN StringBits \cap SegBits(t) ELSE SegFound(t)
  BY DEF BaseInv, RowHolds, StringPut
<1>4. CASE t \notin pending
  BY <1>2, <1>3, <1>4 DEF StringBits
<1>5. CASE t \in pending
  <2>1. SegFound(t) = {q \in LookbackQuotes(text, SegBytes) : t * SegBytes <= q /\ q < (t + 1) * SegBytes}
    <3>1. IsText(text) /\ SegBytes \in Nat \ {0}
      BY <1>1, BaseFacts
    <3> QED BY <1>1, <3>1, FoundIsLookback DEF SegFound
  <2>2. t * SegBytes <= p /\ p < (t + 1) * SegBytes
    BY <1>2 DEF SegBits
  <2>3. p \in quote_or_string_bitmap <=> p \in SegFound(t)
    BY <1>2, <1>3, <1>5
  <2> QED BY <1>5, <2>1, <2>2, <2>3
<1> QED BY <1>4, <1>5

LEMMA BaseStringsReplace ==
  ASSUME BaseInv
  PROVE  Baseline!StringsReplaceQuotes
<1>1. /\ Baseline!Threads = Segs /\ \A t : Baseline!SegmentBytes(t) = SegmentBytes(t)
      /\ \A t : Baseline!From(t) = t * SegBytes /\ Baseline!To(t) = (t + 1) * SegBytes
      /\ \A t : Baseline!ByteRange(text, Baseline!From(t), Baseline!To(t)) = SegRange(t)
      /\ \A b : Baseline!LookbackQuotes(text, b) = LookbackQuotes(text, b)
      /\ \A S : Baseline!Cardinality(S) = Cardinality(S)
  BY BaselineOperators
  DEF Baseline!Threads, Segs, Baseline!From, Baseline!To, SegBytes, SegRange
<1> SUFFICES ASSUME stage = "string", NEW t \in Segs, NEW p \in SegRange(t)
             PROVE  p \in quote_or_string_bitmap
                      <=> IF t \in pending THEN p \in LookbackQuotes(text, SegBytes)
                          ELSE Cardinality({q \in LookbackQuotes(text, SegBytes) : q <= p}) % 2 = 1
  BY <1>1 DEF Baseline!StringsReplaceQuotes, SegBytes
<1> QED BY BaseRow

LEMMA GpjsonDivides ==
  ASSUME text \in BaselineTexts
  PROVE  Gpjson!DivisionsAgree
<1>1. /\ Gpjson!Threads = Segs
      /\ \A t : Gpjson!ByteRange(text, Gpjson!From(t), Gpjson!To(t)) = SegRange(t)
  BY GpjsonOperators DEF Gpjson!Threads, Segs, Gpjson!From, Gpjson!To, SegBytes, SegRange
<1> QED BY <1>1, PreparedWords DEF Gpjson!DivisionsAgree

\* A segment of backslashes that hides something fails the assertion of its thread.
LEMMA AssertionsExclude ==
  ASSUME text \in BaselineTexts, \A t \in Segs : Gpjson!EscapeAssertion(t)
  PROVE  ~HidingSegment(text, SegBytes)
<1> SUFFICES ASSUME HidingSegment(text, SegBytes) PROVE FALSE
  OBVIOUS
<1>1. PICK s \in Nat \ {0} : /\ (s + 1) * SegBytes < Size(text)
                             /\ AllSlashes(text, s * SegBytes, (s + 1) * SegBytes)
  BY DEF HidingSegment
<1>2. /\ IsText(text) /\ Size(text) \in Nat /\ DOMAIN text = 0 .. Size(text) - 1
      /\ SegBytes \in Nat \ {0}
  BY BaseFacts
<1> DEFINE from == s * SegBytes
           to == (s + 1) * SegBytes
<1>3. from \in Nat /\ to \in Nat /\ from < to /\ to < Size(text)
  <2>1. from \in Nat /\ (s + 1) * SegBytes = s * SegBytes + SegBytes
    BY <1>2
  <2> HIDE DEF from
  <2>2. to = from + SegBytes
    BY <2>1 DEF from
  <2> QED BY <1>1, <1>2, <2>1, <2>2
<1>4. SegRange(s) = from .. to - 1
  <2>1. SegRange(s) = {p \in DOMAIN text : from <= p /\ p < to}
    BY DEF SegRange, ByteRange
  <2> HIDE DEF from, to
  <2> QED BY <1>2, <1>3, <2>1
<1>5. s \in Segs
  <2>1. from \in SegRange(s) /\ from \in TextBits
    <3>1. from \in from .. to - 1
      BY <1>3
    <3>2. from \in SegRange(s)
      BY <1>4, <3>1
    <3> QED BY <3>2, BaseBits
  <2> QED BY <2>1, BaseBits
<1>6. {p \in SegRange(s) : text[p] = "slash"} = from .. to - 1
  BY <1>1, <1>4 DEF AllSlashes, SegRange
<1>7. Cardinality(from .. to - 1) = to - from
  <2> HIDE DEF from, to
  <2> QED BY <1>3, FS_Interval
<1>8. Gpjson!EscapeAssertion(s) <=> Cardinality({p \in SegRange(s) : text[p] = "slash"}) # to - from
  BY GpjsonOperators DEF Gpjson!EscapeAssertion, Gpjson!From, Gpjson!To, SegBytes, SegRange
<1> QED BY <1>5, <1>6, <1>7, <1>8

\* The buffers of the gpJSON baseline have their types, the row is overwritten segment by
\* segment, and after every launch the bitmap is the one of a lookback of one segment,
\* which is the specified one for every input without a whole segment of backslashes.
THEOREM BaselineOutput ==
  StreamsSpec => [](benchmark \in {"gp_baseline", "gp_input"} =>
                      /\ Baseline!TypeOK /\ Baseline!StringsReplaceQuotes
                      /\ Baseline!OutputIsLookback /\ Baseline!CorrectWithoutSlashSegments)
<1>1. BaselineInv => (benchmark \in {"gp_baseline", "gp_input"} =>
                        /\ Baseline!TypeOK /\ Baseline!StringsReplaceQuotes
                        /\ Baseline!OutputIsLookback /\ Baseline!CorrectWithoutSlashSegments)
  <2> SUFFICES ASSUME BaseInv
               PROVE  /\ Baseline!TypeOK /\ Baseline!StringsReplaceQuotes
                      /\ Baseline!OutputIsLookback /\ Baseline!CorrectWithoutSlashSegments
    BY DEF BaselineInv, InBaseline
  <2>1. BaseTyped /\ BaseSchedule /\ BaseOutput /\ text \in BaselineTexts
    BY DEF BaseInv, BaseSchedule, BaseTyped
  <2>2. Baseline!TypeOK
    <3>1. /\ Baseline!Threads = Segs /\ Baseline!Scan!ScanLanes = BaseLanes
          /\ 0 .. Baseline!WordCount(text) * WordBytes - 1 = TextBits
      BY BaselineOperators
      DEF Baseline!Threads, Segs, Baseline!Scan!ScanLanes, BaseLanes, TextBits
    <3>2. pending \subseteq Segs
      <4>1. {0} \subseteq Segs /\ BaseLanes \subseteq Segs
        <5>1. Segments \in Nat \ {0} /\ ScanThreads \in Nat \ {0} /\ Segments % ScanThreads = 0
          BY <2>1, BaseFacts
        <5>2. \A l \in BaseLanes : l * LaneRun \in Segs /\ l \in Nat /\ LaneRun \in Nat \ {0}
          BY <2>1, BaseLaneFacts
        <5>3. \A l \in BaseLanes : l <= l * LaneRun /\ l \in Nat /\ l * LaneRun \in 0 .. Segments - 1
          <6> SUFFICES ASSUME NEW l \in BaseLanes
                       PROVE  l <= l * LaneRun /\ l \in Nat /\ l * LaneRun \in 0 .. Segments - 1
            OBVIOUS
          <6> DEFINE V == LaneRun
          <6>1. l \in Nat /\ V \in Nat \ {0} /\ l * V \in 0 .. Segments - 1
            BY <5>2 DEF Segs
          <6> HIDE DEF V
          <6>2. l <= l * V
            BY <6>1
          <6> QED BY <6>1, <6>2 DEF V
        <5>4. \A l \in BaseLanes : l \in Segs
          <6> SUFFICES ASSUME NEW l \in BaseLanes PROVE l \in Segs
            OBVIOUS
          <6> DEFINE m == l * LaneRun
          <6>1. l <= m /\ l \in Nat /\ m \in 0 .. Segments - 1
            BY <5>3
          <6> HIDE DEF m
          <6> QED BY <5>1, <6>1 DEF Segs
        <5> QED BY <5>1, <5>4 DEF Segs
      <4>2. stage # "idle" => BaseUnits(stage) \subseteq Segs
        BY <4>1 DEF BaseUnits
      <4> QED BY <2>1, <4>2 DEF BaseSchedule
    <3>3. stage \in DOMAIN Baseline!Following \cup {"idle", "structural"}
      BY <2>1 DEF BaseTyped, Baseline!Following
    <3> QED BY <2>1, <3>1, <3>2, <3>3 DEF Baseline!TypeOK, BaseTyped
  <2>3. Baseline!StringsReplaceQuotes
    BY BaseStringsReplace
  <2>4. Baseline!OutputIsLookback
    BY <2>1, BaselineOperators DEF Baseline!OutputIsLookback, BaseOutput, SegOutput, SegBytes
  <2>5. Baseline!CorrectWithoutSlashSegments
    <3> SUFFICES ASSUME launch > 0, stage = "idle", ~SlashSegment(text, SegBytes)
                 PROVE  structural_bitmap = Structural(text)
      BY BaselineOperators DEF Baseline!CorrectWithoutSlashSegments, SegBytes
    <3>1. IsText(text) /\ SegBytes \in Nat \ {0}
      BY <2>1, BaseFacts
    <3>2. ~HidingSegment(text, SegBytes)
      BY <3>1, HidingIsSlash
    <3>3. SegOutput = Structural(text)
      BY <3>1, <3>2, LookbackExact DEF SegOutput
    <3> QED BY <2>1, <3>3 DEF BaseOutput
  <2> QED BY <2>2, <2>3, <2>4, <2>5
<1> QED BY <1>1, BaselineInvariant, PTL

\* The program prepared from it, which stores words and divides the string kernel by
\* words, leaves the same bitmap; where the assertion that it defines away holds in every
\* segment, that bitmap is the specified one.
THEOREM PreparedOutput ==
  StreamsSpec => [](benchmark = "gp_input" => Gpjson!DivisionsAgree /\ Gpjson!RightIfAsserted)
<1>1. BaselineInv => (benchmark = "gp_input" => Gpjson!DivisionsAgree /\ Gpjson!RightIfAsserted)
  <2> SUFFICES ASSUME BaseInv PROVE Gpjson!DivisionsAgree /\ Gpjson!RightIfAsserted
    BY DEF BaselineInv, InBaseline
  <2>1. BaseOutput /\ text \in BaselineTexts /\ IsText(text) /\ SegBytes \in Nat \ {0}
    <3>1. BaseOutput /\ text \in BaselineTexts
      BY DEF BaseInv, BaseSchedule, BaseTyped
    <3> QED BY <3>1, BaseFacts
  <2>2. Gpjson!Threads = Segs
    BY DEF Gpjson!Threads, Segs
  <2>3. (\A t \in Segs : Gpjson!EscapeAssertion(t)) => SegOutput = Structural(text)
    BY <2>1, AssertionsExclude, LookbackExact DEF SegOutput
  <2>4. launch > 0 /\ stage = "idle" => structural_bitmap = SegOutput
    BY <2>1 DEF BaseOutput
  <2>5. Gpjson!RightIfAsserted
    BY <2>2, <2>3, <2>4, GpjsonOperators DEF Gpjson!RightIfAsserted, SegOutput, SegBytes
  <2> QED BY <2>1, <2>5, GpjsonDivides
<1> QED BY <1>1, BaselineInvariant, PTL

-----------------------------------------------------------------------------
(***************************************************************************)
(* The control and the targeted baselines, and what the programs have in   *)
(* common.  Stage brings the theorems of StageMajorProofs; its definitions *)
(* are those of Targeted under another name.                               *)
(***************************************************************************)
InTargeted == benchmark = "targeted"

Stage == INSTANCE StageMajorProofs WITH Texts <- TargetedTexts, Threads <- TileThreads

LEMMA TargetedIsStage ==
  /\ Stage!TilesAssumption
  /\ Targeted!Init <=> Stage!Init
  /\ Targeted!Next <=> Stage!Next
  /\ Targeted!vars = Stage!vars
  /\ Targeted!TypeOK <=> Stage!TypeOK
  /\ Targeted!QuoteRowFollowsStages <=> Stage!QuoteRowFollowsStages
  /\ Targeted!CarryEntersTile <=> Stage!CarryEntersTile
  /\ Targeted!ScanIsInclusive <=> Stage!ScanIsInclusive
  /\ Targeted!ErrorWordComplete <=> Stage!ErrorWordComplete
  /\ Targeted!OutputCorrect <=> Stage!OutputCorrect
<1>1. Stage!TilesAssumption
  BY TargetedAssumed
  DEF Targeted!TilesAssumption, Stage!TilesAssumption, Targeted!AllPrograms, Stage!AllPrograms,
      Targeted!IsText, Stage!IsText, Targeted!Size, Stage!Size, Targeted!ByteClass, Stage!ByteClass,
      Targeted!Cardinality, Stage!Cardinality
\* Everything the two modules define and these formulas rest on: expanded, they are the same.
<1> USE DEF Targeted!Init, Targeted!Lanes, Targeted!Registers, Targeted!PaddedWords,
          Targeted!Tiles, Targeted!WordCount, Targeted!Size, Targeted!Cardinality,
          Targeted!Garbage, Targeted!Bits, Targeted!Next, Targeted!Step, Targeted!Start,
          Targeted!ClearsTogether, Targeted!LoopHead, Targeted!TilesOfThread, Targeted!FirstStep,
          Targeted!Ending, Targeted!input, Targeted!bitmaps, Targeted!quotes_rows,
          Targeted!Classify, Targeted!Word, Targeted!WordAt, Targeted!Slash, Targeted!SlashWord,
          Targeted!BitsWhere, Targeted!QuoteWord, Targeted!OperatorWord, Targeted!OpenCloseWord,
          Targeted!Flagged, Targeted!Advance, Targeted!PublishError, Targeted!shared,
          Targeted!ShareSlashes, Targeted!Resolve, Targeted!IncomingEscape, Targeted!LooksBack,
          Targeted!PossibleEscaped, Targeted!LastLane, Targeted!TileEscape, Targeted!TrailingOnes,
          Targeted!SelectedQuotes, Targeted!FilterEscapedQuotes, Targeted!EscapedBits,
          Targeted!OutgoingEscape, Targeted!CarryEscape, Targeted!NextTile, Targeted!LoadParity,
          Targeted!Parity, Targeted!ReadRound, Targeted!Xor, Targeted!WriteRound,
          Targeted!EmitStrings, Targeted!CarriedParity, Targeted!InStringBits,
          Targeted!InStringCandidate, Targeted!Invert, Targeted!PrefixXor, Targeted!CarryParity,
          Targeted!Filter, Targeted!Barriers, Targeted!Barrier, Targeted!Together,
          Targeted!AfterBarrier, Targeted!MoreRounds, Targeted!Launch, Targeted!vars,
          Targeted!TypeOK, Targeted!Rows, Targeted!QuoteRowFollowsStages, Targeted!Passed,
          Targeted!TrueQuotes, Targeted!WordOf, Targeted!RealQuotes, Targeted!EscapedAt,
          Targeted!MaximalSlashRun, Targeted!InStringWord, Targeted!IncomingString,
          Targeted!QuotesBefore, Targeted!CarryEntersTile, Targeted!EscapeEnters,
          Targeted!ParityEnters, Targeted!ScanIsInclusive, Targeted!ErrorWordComplete,
          Targeted!HasFlagged, Targeted!OutputCorrect, Targeted!StructuralWord,
          Targeted!Structural, Targeted!Operators, Targeted!IsOperator, Targeted!InString,
          Targeted!OpenCloseResult, Targeted!OpenClose, Targeted!OpenCloses, Targeted!IsOpenClose,
          Stage!Init, Stage!Lanes, Stage!Registers, Stage!PaddedWords, Stage!Tiles,
          Stage!WordCount, Stage!Size, Stage!Cardinality, Stage!Garbage, Stage!Bits, Stage!Next,
          Stage!Step, Stage!Start, Stage!ClearsTogether, Stage!LoopHead, Stage!TilesOfThread,
          Stage!FirstStep, Stage!Ending, Stage!input, Stage!bitmaps, Stage!quotes_rows,
          Stage!Classify, Stage!Word, Stage!WordAt, Stage!Slash, Stage!SlashWord, Stage!BitsWhere,
          Stage!QuoteWord, Stage!OperatorWord, Stage!OpenCloseWord, Stage!Flagged, Stage!Advance,
          Stage!PublishError, Stage!shared, Stage!ShareSlashes, Stage!Resolve,
          Stage!IncomingEscape, Stage!LooksBack, Stage!PossibleEscaped, Stage!LastLane,
          Stage!TileEscape, Stage!TrailingOnes, Stage!SelectedQuotes, Stage!FilterEscapedQuotes,
          Stage!EscapedBits, Stage!OutgoingEscape, Stage!CarryEscape, Stage!NextTile,
          Stage!LoadParity, Stage!Parity, Stage!ReadRound, Stage!Xor, Stage!WriteRound,
          Stage!EmitStrings, Stage!CarriedParity, Stage!InStringBits, Stage!InStringCandidate,
          Stage!Invert, Stage!PrefixXor, Stage!CarryParity, Stage!Filter, Stage!Barriers,
          Stage!Barrier, Stage!Together, Stage!AfterBarrier, Stage!MoreRounds, Stage!Launch,
          Stage!vars, Stage!TypeOK, Stage!Rows, Stage!QuoteRowFollowsStages, Stage!Passed,
          Stage!TrueQuotes, Stage!WordOf, Stage!RealQuotes, Stage!EscapedAt,
          Stage!MaximalSlashRun, Stage!InStringWord, Stage!IncomingString, Stage!QuotesBefore,
          Stage!CarryEntersTile, Stage!EscapeEnters, Stage!ParityEnters, Stage!ScanIsInclusive,
          Stage!ErrorWordComplete, Stage!HasFlagged, Stage!OutputCorrect, Stage!StructuralWord,
          Stage!Structural, Stage!Operators, Stage!IsOperator, Stage!InString,
          Stage!OpenCloseResult, Stage!OpenClose, Stage!OpenCloses, Stage!IsOpenClose
<1>2. Targeted!Init <=> Stage!Init
  OBVIOUS
<1>3. Targeted!Next <=> Stage!Next
  OBVIOUS
<1>4. Targeted!vars = Stage!vars
  OBVIOUS
<1>5. Targeted!TypeOK <=> Stage!TypeOK
  OBVIOUS
<1>6. Targeted!QuoteRowFollowsStages <=> Stage!QuoteRowFollowsStages
  OBVIOUS
<1>7. Targeted!CarryEntersTile <=> Stage!CarryEntersTile
  OBVIOUS
<1>8. Targeted!ScanIsInclusive <=> Stage!ScanIsInclusive
  OBVIOUS
<1>9. Targeted!ErrorWordComplete <=> Stage!ErrorWordComplete
  OBVIOUS
<1>10. Targeted!OutputCorrect <=> Stage!OutputCorrect
  OBVIOUS
<1> QED BY <1>1, <1>2, <1>3, <1>4, <1>5, <1>6, <1>7, <1>8, <1>9, <1>10

TargetedInv == InTargeted => Stage!StageInv

\* The targeted baseline keeps the invariant of StageMajorProofs.
THEOREM TargetedInvariant == StreamsSpec => []TargetedInv
<1>1. StreamsInit => TargetedInv
  <2>1. Stage!Init => Stage!StageInv
    BY TargetedIsStage, WordBytesAssumption, Stage!InitStage DEF Stage!TilesAssumption
  <2> QED BY <2>1, TargetedIsStage DEF StreamsInit, TargetedInv, InTargeted
<1>2. TargetedInv /\ [StreamsNext]_allVars => TargetedInv'
  <2>1. Stage!StageInv /\ [Stage!Next]_(Stage!vars) => Stage!StageInv'
    BY TargetedIsStage, WordBytesAssumption, Stage!NextStage DEF Stage!TilesAssumption
  <2> SUFFICES ASSUME TargetedInv, [StreamsNext]_allVars, benchmark' = "targeted" PROVE Stage!StageInv'
    BY DEF TargetedInv, InTargeted
  <2>2. CASE StreamsNext
    <3>1. benchmark = "targeted" /\ Targeted!Next
      BY <2>2 DEF StreamsNext
    <3> QED BY <2>1, <3>1, TargetedIsStage DEF TargetedInv, InTargeted
  <2>3. CASE UNCHANGED allVars
    <3>1. benchmark = "targeted" /\ UNCHANGED Stage!vars
      BY <2>3 DEF allVars, vars, problem, OfErrors, OfTargeted, Stage!vars, Stage!input, Stage!shared,
                  Stage!bitmaps, Stage!quotes_rows
    <3> QED BY <2>1, <3>1 DEF TargetedInv, InTargeted
  <2> QED BY <2>2, <2>3
<1> QED BY <1>1, <1>2, PTL DEF StreamsSpec

LEMMA StageProperties ==
  Stage!StageInv => /\ Targeted!TypeOK /\ Targeted!QuoteRowFollowsStages /\ Targeted!CarryEntersTile
                    /\ Targeted!ScanIsInclusive /\ Targeted!ErrorWordComplete /\ Targeted!OutputCorrect
<1> USE DEF Stage!TilesAssumption
<1>1. Stage!StageInv => Stage!TypeOK
  BY TargetedIsStage, WordBytesAssumption, Stage!StageIsTyped
<1>2. Stage!StageInv => Stage!QuoteRowFollowsStages
  BY TargetedIsStage, WordBytesAssumption, Stage!QuoteRowFollows
<1>3. Stage!StageInv => Stage!CarryEntersTile
  BY TargetedIsStage, WordBytesAssumption, Stage!CarryEnters
<1>4. Stage!StageInv => Stage!ScanIsInclusive
  BY TargetedIsStage, WordBytesAssumption, Stage!ScanInclusive
<1>5. Stage!StageInv => Stage!ErrorWordComplete
  BY TargetedIsStage, WordBytesAssumption, Stage!ErrorsComplete
<1>6. Stage!StageInv => Stage!OutputCorrect
  BY TargetedIsStage, WordBytesAssumption, Stage!OutputRight
<1> QED BY <1>1, <1>2, <1>3, <1>4, <1>5, <1>6, TargetedIsStage

\* The error word of a cuJSON input counts all its threads: in the hierarchy and the
\* control, where no launch clears it, from the end of the first kernel on; in the targeted
\* baseline, where one thread publishes it for the others, from the end of the first kernel.
THEOREM StreamsErrorsComplete == StreamsSpec => []ErrorWordComplete
<1>1. HierarchyInv => (InHierarchy => Cu!ErrorWordComplete)
  BY DEF HierarchyInv, CuInv, ErrorsHold, Cu!ErrorWordComplete
<1>2. ControlInv => (InControl => Cu!ErrorWordComplete)
  BY DEF ControlInv, ControlHolds, ErrorsHold, Cu!ErrorWordComplete
<1>3. TargetedInv => (InTargeted => Targeted!ErrorWordComplete)
  BY StageProperties DEF TargetedInv
<1>4. HierarchyInv /\ ControlInv /\ TargetedInv => ErrorWordComplete
  BY <1>1, <1>2, <1>3 DEF ErrorWordComplete, InHierarchy, InControl, InTargeted
<1> QED BY <1>4, HierarchyInvariant, ControlInvariant, TargetedInvariant, PTL

\* What a thread of the targeted baseline is about to combine with its tile are the escape
\* and the parity with which a sequential scan arrives there, and the inclusive XOR of the
\* parities of the tile, for every number of threads.
THEOREM TargetedIncomingStates ==
  StreamsSpec => [](InTargeted => Targeted!CarryEntersTile /\ Targeted!ScanIsInclusive)
<1>1. TargetedInv => (InTargeted => Targeted!CarryEntersTile /\ Targeted!ScanIsInclusive)
  BY StageProperties DEF TargetedInv
<1> QED BY <1>1, TargetedInvariant, PTL

\* Each stage finds, word by word, what the one before it left in the row that gpJSON
\* overwrites in place.
THEOREM TargetedStagesFollow == StreamsSpec => [](InTargeted => Targeted!QuoteRowFollowsStages)
<1>1. TargetedInv => (InTargeted => Targeted!QuoteRowFollowsStages)
  BY StageProperties DEF TargetedInv
<1> QED BY <1>1, TargetedInvariant, PTL

\* The rows the four kernels leave are the specified bitmaps, and at every moment the
\* shared memory and the rows have their types.
THEOREM TargetedOutputCorrect ==
  StreamsSpec => [](InTargeted => Targeted!OutputCorrect /\ Targeted!TypeOK)
<1>1. TargetedInv => (InTargeted => Targeted!OutputCorrect /\ Targeted!TypeOK)
  BY StageProperties DEF TargetedInv
<1> QED BY <1>1, TargetedInvariant, PTL

\* The control is right, up to one flip where a string enters, in every word whose quotes
\* it predicts right; and the summaries of the backslashes that it leaves, composed word
\* after word, say which escape enters a word.
THEOREM ControlIsRightWherePredicted == StreamsSpec => [](InControl => CuControlRight)
<1>1. ControlInv => (InControl => CuControlRight)
  <2> SUFFICES ASSUME ControlHolds, Cu!LaunchComplete, NEW w \in Cu!Words
               PROVE  LET entered == IncomingString(text, w * WordBytes)
                          ends    == {p \in 0 .. w - 1 : slash_transitions[p] # 1}
                      IN
                      /\ w < WordCount(text) /\ Cu!QuotesGiven(w, 0) = Cu!TrueQuotes(w) =>
                           /\ structural[w] = IF entered THEN OperatorWord(text, w) \ StructuralWord(text, w)
                                              ELSE StructuralWord(text, w)
                           /\ filtered_open_close[w] = structural[w] \cap OpenCloseWord(text, w)
                      /\ LET escape == IF ends = {} THEN 0
                                       ELSE slash_transitions[CHOOSE p \in ends : \A q \in ends : q <= p] \div 2
                         IN  w < WordCount(text) => Cu!TrueQuotes(w) = Cu!QuotesGiven(w, escape)
    BY DEF ControlInv, CuControlRight
  <2>1. text \in CuTexts /\ Speculated = Cu!Words /\ w \in Nat
    <3>1. text \in CuTexts /\ launch > 0 /\ pending = {}
      BY DEF ControlHolds, ControlSchedule, CuTyped, Cu!LaunchComplete
    <3> QED BY <3>1, CuGeometry DEF Speculated
  <2>2. /\ structural[w] = Cu!Outside(w, Predicted(w), OperatorWord(text, w))
        /\ filtered_open_close[w] = structural[w] \cap OpenCloseWord(text, w)
        /\ \A v \in Cu!Words : slash_transitions[v] = SlashTransition(v)
    BY <2>1 DEF ControlHolds, PredictionsHold
  <2>3. Cu!QuotesGiven(w, 0) = Cu!TrueQuotes(w) =>
          structural[w] = IF IncomingString(text, w * WordBytes)
                          THEN OperatorWord(text, w) \ StructuralWord(text, w)
                          ELSE StructuralWord(text, w)
    BY <2>1, <2>2, PredictionUpToFlip DEF Predicted
  <2>4. Cu!TrueQuotes(w) = Cu!QuotesGiven(w, EscapeAt(text, w))
    BY <2>1, TrueQuotesFacts
  <2> QED BY <2>1, <2>2, <2>3, <2>4, TransitionsCompose
<1> QED BY <1>1, ControlInvariant, PTL

\* The string state that every item of both hierarchies is told is the one that enters it,
\* and the states that enter a tile of the targeted baseline are the sequential ones.
THEOREM StreamsIncomingStates == StreamsSpec => []IncomingStates
<1>1. GpHierarchyInv => (benchmark = "gp_hierarchy" => PrefixIsIncomingString)
  BY GpPrefixes DEF GpHierarchyInv, InGpHierarchy
<1>2. GpHierarchyInv /\ (InHierarchy => Cu!IncomingIsStringState)
        /\ (InTargeted => Targeted!CarryEntersTile /\ Targeted!ScanIsInclusive) => IncomingStates
  BY <1>1 DEF InHierarchy, InTargeted, IncomingStates
<1> QED BY <1>2, GpHierarchyInvariant, HierarchyIncomingStates, TargetedIncomingStates, PTL

\* The row that is overwritten in place holds, at every moment, what the threads have left
\* of it: the gpJSON baseline turns it segment by segment, in any order of the threads, the
\* prepared program, whose threads divide words, too, and the targeted baseline word by word.
THEOREM StreamsStringsReplaceQuotes == StreamsSpec => []StringsReplaceQuotes
<1>1. BaselineInv => (benchmark \in {"gp_baseline", "gp_input"} => Baseline!StringsReplaceQuotes)
  BY BaseStringsReplace DEF BaselineInv, InBaseline
<1>2. BaselineInv => (benchmark = "gp_input" => Gpjson!DivisionsAgree)
  BY GpjsonDivides DEF BaselineInv, InBaseline, BaseInv, BaseSchedule, BaseTyped
<1>3. BaselineInv /\ (InTargeted => Targeted!QuoteRowFollowsStages) => StringsReplaceQuotes
  BY <1>1, <1>2 DEF StringsReplaceQuotes, InTargeted
<1> QED BY <1>3, BaselineInvariant, TargetedStagesFollow, PTL

\* The baseline and all mappings of the hierarchy leave one and the same bitmap.
THEOREM StreamsOutputsAreLookback == StreamsSpec => []OutputsAreLookback
<1>1. /\ (benchmark = "gp_hierarchy" =>
            TypeOK /\ OutputIsLookback /\ CorrectWithoutSlashSegments)
      /\ (benchmark \in {"gp_baseline", "gp_input"} =>
            /\ Baseline!TypeOK /\ Baseline!StringsReplaceQuotes
            /\ Baseline!OutputIsLookback /\ Baseline!CorrectWithoutSlashSegments)
      => OutputsAreLookback
  BY DEF OutputsAreLookback
<1> QED BY <1>1, GpHierarchyOutput, BaselineOutput, PTL

\* What every benchmark leaves is right: both hierarchies, the targeted baselines and, where
\* no segment hides one, the gpJSON baseline and what is prepared from it leave the
\* specified bitmaps, the controls are right where their predictions are, and at every
\* moment the buffers have their types.
THEOREM StreamsOutputsCorrect == StreamsSpec => []OutputsCorrect
<1>1. ControlInv => (InControl => Cu!TypeOK)
  BY CuTypedIsTypeOK DEF ControlInv, ControlHolds, ControlSchedule
<1>2. /\ (benchmark = "gp_hierarchy" => TypeOK /\ OutputIsLookback /\ CorrectWithoutSlashSegments)
      /\ (InGpControl => GpControlRight /\ TypeOK)
      /\ (benchmark \in {"gp_baseline", "gp_input"} =>
            /\ Baseline!TypeOK /\ Baseline!StringsReplaceQuotes
            /\ Baseline!OutputIsLookback /\ Baseline!CorrectWithoutSlashSegments)
      /\ (benchmark = "gp_input" => Gpjson!DivisionsAgree /\ Gpjson!RightIfAsserted)
      /\ (InHierarchy => Cu!TypeOK) /\ (InHierarchy => Cu!OutputCorrect)
      /\ ControlInv /\ (InControl => CuControlRight)
      /\ (InTargeted => Targeted!OutputCorrect /\ Targeted!TypeOK)
      => OutputsCorrect
  BY <1>1 DEF OutputsCorrect, StreamsTypeOK, InGpControl, InHierarchy, InControl, InTargeted
<1> QED BY <1>2, GpHierarchyOutput, GpControlIsRightWherePredicted, BaselineOutput, PreparedOutput,
           HierarchyTypeOK, HierarchyOutputCorrect, ControlInvariant, ControlIsRightWherePredicted,
           TargetedOutputCorrect, PTL

=============================================================================
