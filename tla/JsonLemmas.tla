----------------------------- MODULE JsonLemmas -----------------------------
(***************************************************************************)
(* Facts about the specification of the tokenizers and the word operations *)
(* of the kernels that the correctness proofs share: how the state of a    *)
(* scanner moves by one byte, the parity that a lookback over backslash    *)
(* words finds, the quotes that survive the filter, and the in-string word *)
(* built from them.                                                        *)
(***************************************************************************)
EXTENDS JsonText, FiniteSetTheorems, WellFoundedInduction, TLAPS

\* The bytes of a text of n bytes are at 0 .. n-1.
LEMMA TextDomain ==
  ASSUME NEW text, IsText(text)
  PROVE  /\ Size(text) \in Nat
         /\ DOMAIN text = 0 .. Size(text) - 1
         /\ IsFiniteSet(DOMAIN text)
         /\ \A p \in DOMAIN text : text[p] \in ByteClass
<1>1. Size(text) \in Nat /\ text \in [0 .. Size(text) - 1 -> ByteClass]
  BY DEF IsText
<1>2. IsFiniteSet(0 .. Size(text) - 1)
  BY <1>1, FS_Interval
<1>3. QED
  BY <1>1, <1>2

\* Two maximal runs of backslashes that end at the same byte are the same run.
LEMMA SlashRunUnique ==
  ASSUME NEW text, NEW p \in Nat, NEW k, NEW j,
         MaximalSlashRun(text, p, k), MaximalSlashRun(text, p, j)
  PROVE  k = j
<1>1. k \in 0 .. p /\ j \in 0 .. p
  BY DEF MaximalSlashRun
<1>2. ASSUME NEW a \in 0 .. p, NEW b \in 0 .. p, a < b,
             MaximalSlashRun(text, p, a), MaximalSlashRun(text, p, b)
      PROVE  FALSE
  <2>1. a < p /\ p - a - 1 \in (p - b) .. (p - 1)
    BY <1>2
  <2>2. text[p - a - 1] # "slash" /\ text[p - a - 1] = "slash"
    BY <1>2, <2>1 DEF MaximalSlashRun
  <2>3. QED
    BY <2>2
<1>3. QED
  BY <1>1, <1>2

\* A byte is escaped exactly when the maximal run before it is odd.
LEMMA EscapedByRun ==
  ASSUME NEW text, NEW p \in Nat, NEW k, MaximalSlashRun(text, p, k)
  PROVE  EscapedAt(text, p) <=> k % 2 = 1
<1>1. k \in 0 .. p
  BY DEF MaximalSlashRun
<1>2. ASSUME NEW j \in 0 .. p, MaximalSlashRun(text, p, j)
      PROVE  j = k
  BY <1>2, SlashRunUnique
<1>3. QED
  BY <1>1, <1>2 DEF EscapedAt

\* One byte further the run is one longer, or broken.
LEMMA SlashRunStep ==
  ASSUME NEW text, NEW p \in Nat, NEW k, MaximalSlashRun(text, p, k)
  PROVE  MaximalSlashRun(text, p + 1, IF text[p] = "slash" THEN k + 1 ELSE 0)
<1>1. k \in 0 .. p
  BY DEF MaximalSlashRun
<1>2. CASE text[p] = "slash"
  <2>1. k + 1 \in 0 .. p + 1
    BY <1>1
  <2>2. ASSUME NEW q \in ((p + 1) - (k + 1)) .. ((p + 1) - 1)
        PROVE  text[q] = "slash"
    <3>1. q = p \/ q \in (p - k) .. (p - 1)
      BY <1>1, <2>2
    <3>2. QED
      BY <3>1, <1>2 DEF MaximalSlashRun
  <2>3. ASSUME k + 1 < p + 1
        PROVE  text[(p + 1) - (k + 1) - 1] # "slash"
    <3>1. k < p /\ (p + 1) - (k + 1) - 1 = p - k - 1
      BY <2>3, <1>1
    <3>2. QED
      BY <3>1 DEF MaximalSlashRun
  <2>4. QED
    BY <1>2, <2>1, <2>2, <2>3 DEF MaximalSlashRun
<1>3. CASE text[p] # "slash"
  <2>1. (p + 1) - 0 - 1 = p /\ 0 \in 0 .. p + 1
    OBVIOUS
  <2>2. \A q \in ((p + 1) - 0) .. ((p + 1) - 1) : text[q] = "slash"
    OBVIOUS
  <2>3. QED
    BY <1>3, <2>1, <2>2 DEF MaximalSlashRun
<1>4. QED
  BY <1>2, <1>3

\* The run before the first byte is empty.
LEMMA SlashRunStart ==
  ASSUME NEW text
  PROVE  MaximalSlashRun(text, 0, 0)
BY DEF MaximalSlashRun

-----------------------------------------------------------------------------
\* A sequential scanner starts outside strings.
LEMMA StringStart ==
  ASSUME NEW text, IsText(text)
  PROVE  IncomingString(text, 0) = FALSE
<1>1. QuotesBefore(text, 0) = {}
  BY TextDomain DEF QuotesBefore, RealQuotes
<1>2. QED
  BY <1>1, FS_EmptySet DEF IncomingString

\* The in-string state flips at a real quote and nowhere else.
LEMMA StringStep ==
  ASSUME NEW text, IsText(text), NEW p \in DOMAIN text
  PROVE  IncomingString(text, p + 1) <=>
           (IncomingString(text, p) # (p \in RealQuotes(text)))
<1> DEFINE Q == QuotesBefore(text, p)
<1>1. DOMAIN text = 0 .. Size(text) - 1 /\ Size(text) \in Nat /\ IsFiniteSet(DOMAIN text)
  BY TextDomain
<1>2. RealQuotes(text) \subseteq DOMAIN text
  BY DEF RealQuotes
<1>3. IsFiniteSet(Q) /\ Cardinality(Q) \in Nat
  <2>1. Q \in SUBSET DOMAIN text
    BY <1>2 DEF QuotesBefore
  <2>2. IsFiniteSet(Q)
    BY <1>1, <2>1, FS_Subset
  <2>3. QED
    BY <2>2, FS_CardinalityType
<1>4. CASE p \in RealQuotes(text)
  <2>1. QuotesBefore(text, p + 1) = Q \cup {p}
    BY <1>1, <1>2, <1>4 DEF QuotesBefore
  <2>2. p \notin Q
    BY <1>1 DEF QuotesBefore
  <2>3. Cardinality(QuotesBefore(text, p + 1)) = Cardinality(Q) + 1
    BY <1>3, <2>1, <2>2, FS_AddElement
  <2>4. (Cardinality(Q) + 1) % 2 = 1 <=> ~(Cardinality(Q) % 2 = 1)
    BY <1>3
  <2>5. QED
    BY <1>4, <2>3, <2>4 DEF IncomingString
<1>5. CASE p \notin RealQuotes(text)
  <2>1. QuotesBefore(text, p + 1) = Q
    BY <1>1, <1>2, <1>5 DEF QuotesBefore
  <2>2. QED
    BY <1>5, <2>1 DEF IncomingString
<1>6. QED
  BY <1>4, <1>5

-----------------------------------------------------------------------------
\* Well-foundedness of the naturals, for a set instead of a predicate.
LEMMA LeastElement ==
  ASSUME NEW A \in SUBSET Nat, A # {}
  PROVE  \E n \in A : \A m \in A : n <= m
<1> DEFINE R == OpToRel(<, Nat)
<1>1. PICK n \in A : \A m \in A : ~ (<<m, n>> \in R)
  BY NatLessThanWellFounded, WFMin
<1>2. \A m \in A : ~ (m < n)
  BY <1>1 DEF OpToRel
<1> QED BY <1>2

-----------------------------------------------------------------------------
(***************************************************************************)
(* Positions of a word.                                                    *)
(***************************************************************************)
LEMMA WordStart ==
  ASSUME NEW w \in Nat
  PROVE  /\ WordBytes \in Nat \ {0}
         /\ w * WordBytes \in Nat
         /\ (w * WordBytes) % 2 = 0
         /\ (w + 1) * WordBytes = w * WordBytes + WordBytes
<1>1. PICK h \in Nat : WordBytes = 2 * h
  BY WordBytesAssumption
<1>2. w * WordBytes = 2 * (w * h) /\ w * h \in Nat
  BY <1>1
<1>3. \A n \in Nat : (2 * n) % 2 = 0
  OBVIOUS
<1> QED BY <1>1, <1>2, <1>3, WordBytesAssumption

LEMMA TrailingOnesFacts ==
  ASSUME NEW word \in SUBSET Bits, word # Bits
  PROVE  LET n == TrailingOnes(word) IN
           /\ n \in 0 .. WordBytes - 1
           /\ WordBytes - 1 - n \notin word
           /\ \A b \in (WordBytes - n) .. (WordBytes - 1) : b \in word
<1> DEFINE A == {n \in 0 .. WordBytes - 1 : WordBytes - 1 - n \notin word}
<1>0. WordBytes \in Nat \ {0}
  BY WordBytesAssumption
<1>1. A # {}
  <2>1. PICK b \in Bits : b \notin word
    OBVIOUS
  <2>2. b \in 0 .. WordBytes - 1
    BY <2>1 DEF Bits
  <2>3. WordBytes - 1 - b \in A
    BY <1>0, <2>1, <2>2
  <2> QED BY <2>3
<1>2. PICK n \in A : \A m \in A : n <= m
  <2>1. A \in SUBSET Nat
    OBVIOUS
  <2> QED BY <1>1, <2>1, LeastElement
<1>3. ASSUME NEW b \in (WordBytes - n) .. (WordBytes - 1)
      PROVE  b \in word
  <2>1. WordBytes - 1 - b \in 0 .. WordBytes - 1 /\ WordBytes - 1 - b < n
    BY <1>0, <1>2
  <2>2. WordBytes - 1 - b \notin A
    BY <1>2, <2>1
  <2>3. WordBytes - 1 - (WordBytes - 1 - b) = b
    BY <1>0
  <2> QED BY <2>1, <2>2, <2>3
<1>4. \E k \in 0 .. WordBytes - 1 :
        /\ WordBytes - 1 - k \notin word
        /\ \A b \in (WordBytes - k) .. (WordBytes - 1) : b \in word
  BY <1>2, <1>3
<1> QED BY <1>4 DEF TrailingOnes

-----------------------------------------------------------------------------
(***************************************************************************)
(* The escape state that enters a word.                                    *)
(***************************************************************************)

\* The bytes from word u + 1 up to word w are backslashes of the text.
LEMMA TrailingOnesType ==
  ASSUME NEW word \in SUBSET Bits
  PROVE  /\ TrailingOnes(word) \in 0 .. WordBytes
         /\ TrailingOnes(word) = WordBytes <=> word = Bits
<1>1. CASE word = Bits
  BY <1>1, WordBytesAssumption DEF TrailingOnes
<1>2. CASE word # Bits
  BY <1>2, TrailingOnesFacts, WordBytesAssumption
<1> QED BY <1>1, <1>2

SlashesBetween(text, u, w) ==
  \A q \in ((u + 1) * WordBytes) .. (w * WordBytes - 1) :
    q \in DOMAIN text /\ text[q] = "slash"

\* The run that reaches the beginning of a word, or the end of the text, begins in the
\* nearest word before it that is not all backslashes.
LEMMA RunBehindWord ==
  ASSUME NEW text, IsText(text), NEW w \in Nat, NEW u \in Nat, u < w,
         w * WordBytes <= Size(text),
         SlashesBetween(text, u, w),
         SlashWord(text, u) # Bits
  PROVE  LET n == TrailingOnes(SlashWord(text, u)) IN
           \E r : MaximalSlashRun(text, w * WordBytes, r) /\ r % 2 = n % 2
<1> DEFINE word == SlashWord(text, u)
           n == TrailingOnes(word)
           W == WordBytes
           P == w * W
           U == (u + 1) * W
           r == P - U + n
<1>1. word \in SUBSET Bits
  BY DEF SlashWord, BitsWhere
<1>2. /\ n \in 0 .. W - 1 /\ W - 1 - n \notin word
      /\ \A b \in (W - n) .. (W - 1) : b \in word
  BY <1>1, TrailingOnesFacts
<1>3. /\ W \in Nat \ {0} /\ P \in Nat /\ U \in Nat /\ u * W \in Nat
      /\ P % 2 = 0 /\ U % 2 = 0 /\ U = u * W + W
  BY WordStart
<1>4. U <= P
  <2>1. PICK d \in Nat : w = u + 1 + d
    <3>1. w - u - 1 \in Nat /\ w = u + 1 + (w - u - 1)
      OBVIOUS
    <3> QED BY <3>1
  <2>2. P = U + d * W /\ d * W \in Nat
    BY <1>3, <2>1
  <2> QED BY <1>3, <2>2
<1>5. DOMAIN text = 0 .. Size(text) - 1 /\ Size(text) \in Nat /\ P <= Size(text)
  BY TextDomain
<1> HIDE DEF W, P, U, n
<1>6. r \in 0 .. P /\ r % 2 = n % 2
  BY <1>2, <1>3, <1>4
<1>7. ASSUME NEW q \in (P - r) .. (P - 1)
      PROVE  text[q] = "slash"
  <2>1. CASE q >= U
    BY <1>3, <2>1 DEF SlashesBetween, U, P, W
  <2>2. CASE q < U
    <3>1. q - u * W \in (W - n) .. (W - 1) /\ u * W + (q - u * W) = q
      BY <1>2, <1>3, <2>2
    <3>2. q - u * W \in word
      BY <1>2, <3>1
    <3> QED BY <3>1, <3>2 DEF SlashWord, BitsWhere, W
  <2> QED BY <1>3, <2>1, <2>2
<1>8. r < P => text[P - r - 1] # "slash"
  <2>1. P - r - 1 = u * W + (W - 1 - n)
    BY <1>2, <1>3
  <2>2. W - 1 - n \in Bits
    BY <1>2, <1>3 DEF Bits, W
  <2>3. P - r - 1 \in DOMAIN text
    BY <1>2, <1>3, <1>4, <1>5
  <2> QED BY <1>2, <2>1, <2>2, <2>3 DEF SlashWord, BitsWhere, W
<1>9. MaximalSlashRun(text, P, r)
  BY <1>6, <1>7, <1>8 DEF MaximalSlashRun
<1> QED BY <1>6, <1>9 DEF n, P, W

\* A lookback that meets a word that is not all ones stops at the parity of
\* the run that reaches the word it started from.
LEMMA LookbackStops ==
  ASSUME NEW text, IsText(text), NEW w \in Nat, NEW u \in Nat, u < w,
         w * WordBytes \in DOMAIN text,
         SlashesBetween(text, u, w),
         SlashWord(text, u) # Bits
  PROVE  LET n == TrailingOnes(SlashWord(text, u)) IN
           \E r : MaximalSlashRun(text, w * WordBytes, r) /\ r % 2 = n % 2
<1>1. w * WordBytes <= Size(text)
  BY TextDomain
<1> QED BY <1>1, RunBehindWord

\* A lookback that meets a word of backslashes only goes one word further.
LEMMA LookbackContinues ==
  ASSUME NEW text, IsText(text), NEW w \in Nat, NEW u \in Nat, u < w,
         SlashesBetween(text, u, w),
         TrailingOnes(SlashWord(text, u)) = WordBytes
  PROVE  SlashesBetween(text, u - 1, w)
<1> DEFINE W == WordBytes
<1>1. SlashWord(text, u) = Bits
  <2> SUFFICES ASSUME SlashWord(text, u) # Bits PROVE FALSE
    OBVIOUS
  <2>1. SlashWord(text, u) \in SUBSET Bits
    BY DEF SlashWord, BitsWhere
  <2>2. TrailingOnes(SlashWord(text, u)) \in 0 .. W - 1
    BY <2>1, TrailingOnesFacts
  <2> QED BY <2>2, WordStart
<1>2. /\ W \in Nat \ {0} /\ u * W \in Nat /\ (u + 1) * W = u * W + W
  BY WordStart
<1>3. ASSUME NEW q \in (u * W) .. (w * W - 1)
      PROVE  q \in DOMAIN text /\ text[q] = "slash"
  <2>0. w * W \in Nat
    BY WordStart
  <2>1. CASE q >= (u + 1) * W
    <3>1. q \in ((u + 1) * W) .. (w * W - 1)
      BY <1>2, <2>0, <2>1
    <3> QED BY <3>1 DEF SlashesBetween
  <2>2. CASE q < (u + 1) * W
    <3>1. q - u * W \in Bits /\ u * W + (q - u * W) = q
      BY <1>2, <2>2 DEF Bits
    <3>2. q - u * W \in SlashWord(text, u)
      BY <1>1, <3>1
    <3> QED BY <3>1, <3>2 DEF SlashWord, BitsWhere
  <2> QED BY <1>2, <2>0, <2>1, <2>2
<1>4. (u - 1) + 1 = u
  OBVIOUS
<1> QED BY <1>3, <1>4 DEF SlashesBetween

\* A lookback that runs off the text has seen an even number of backslashes.
LEMMA LookbackRunsOff ==
  ASSUME NEW text, NEW w \in Nat, SlashesBetween(text, -1, w)
  PROVE  \E r : MaximalSlashRun(text, w * WordBytes, r) /\ r % 2 = 0
<1> DEFINE P == w * WordBytes
<1>1. P \in Nat /\ P % 2 = 0 /\ (-1 + 1) * WordBytes = 0
  BY WordStart
<1>2. \A q \in 0 .. P - 1 : text[q] = "slash"
  BY <1>1 DEF SlashesBetween
<1>3. MaximalSlashRun(text, P, P)
  BY <1>1, <1>2 DEF MaximalSlashRun
<1> QED BY <1>1, <1>3

-----------------------------------------------------------------------------
(***************************************************************************)
(* The quotes that delimit strings.                                        *)
(***************************************************************************)
RealQuoteWord(text, w) == WordOf(RealQuotes(text), w)

\* With the parity of the run that reaches the word, the filter keeps exactly
\* the quotes that are not escaped.
LEMMA FilterWithParity ==
  ASSUME NEW text, IsText(text), NEW w \in Nat, NEW incoming \in {0, 1},
         NEW r, MaximalSlashRun(text, w * WordBytes, r), r % 2 = incoming
  PROVE  FilterEscapedQuotes(QuoteWord(text, w), SlashWord(text, w), incoming)
           = RealQuoteWord(text, w)
<1> DEFINE W == WordBytes
           P == w * W
           slash == SlashWord(text, w)
<1>1. W \in Nat \ {0} /\ P \in Nat /\ r \in 0 .. P
  BY WordStart DEF MaximalSlashRun
<1>2. DOMAIN text = 0 .. Size(text) - 1 /\ Size(text) \in Nat
  BY TextDomain
<1>3. ASSUME NEW b \in Bits, P + b \in DOMAIN text
      PROVE  b \in EscapedBits(slash, incoming) <=> EscapedAt(text, P + b)
  <2>0. b \in 0 .. W - 1 /\ P + b \in Nat
    BY <1>1 DEF Bits
  <2>1. \A j \in 0 .. b : P + j \in DOMAIN text /\ (j \in slash <=> text[P + j] = "slash")
    BY <1>1, <1>2, <1>3, <2>0 DEF SlashWord, BitsWhere, Bits
  <2>2. \A q \in P .. P + b : q - P \in 0 .. b /\ P + (q - P) = q
    BY <1>1, <2>0
  <2>3. ASSUME NEW k \in 0 .. b, \A j \in (b - k) .. (b - 1) : j \in slash,
               k < b => b - k - 1 \notin slash
        PROVE  MaximalSlashRun(text, P + b, IF k = b THEN b + r ELSE k)
    <3>1. ASSUME NEW q \in (P + b - k) .. (P + b - 1) PROVE text[q] = "slash"
      <4>1. q - P \in (b - k) .. (b - 1) /\ q - P \in 0 .. b /\ P + (q - P) = q
        BY <1>1, <2>0
      <4> QED BY <2>1, <2>3, <4>1
    <3>2. CASE k < b
      <4>1. P + b - k - 1 = P + (b - k - 1) /\ b - k - 1 \in 0 .. b
        BY <1>1, <2>0, <3>2
      <4>2. text[P + b - k - 1] # "slash"
        BY <2>1, <2>3, <3>2, <4>1
      <4> QED BY <1>1, <2>0, <3>1, <3>2, <4>2 DEF MaximalSlashRun
    <3>3. CASE k = b
      <4>1. ASSUME NEW q \in (P + b - (b + r)) .. (P + b - 1) PROVE text[q] = "slash"
        <5>1. q < P => q \in (P - r) .. (P - 1)
          BY <1>1, <2>0
        <5>2. q >= P => q \in (P + b - k) .. (P + b - 1)
          BY <1>1, <2>0, <3>3
        <5> QED BY <1>1, <3>1, <5>1, <5>2 DEF MaximalSlashRun
      <4>2. b + r < P + b => text[P + b - (b + r) - 1] # "slash"
        <5>1. P + b - (b + r) - 1 = P - r - 1
          BY <1>1, <2>0
        <5> QED BY <1>1, <2>0, <5>1 DEF MaximalSlashRun
      <4> QED BY <1>1, <2>0, <3>3, <4>1, <4>2 DEF MaximalSlashRun
    <3> QED BY <2>0, <3>2, <3>3
  <2>4. ASSUME b \in EscapedBits(slash, incoming) PROVE EscapedAt(text, P + b)
    <3>1. PICK k \in 0 .. b :
            /\ \A j \in (b - k) .. (b - 1) : j \in slash
            /\ k < b => b - k - 1 \notin slash
            /\ (IF k = b THEN k + incoming ELSE k) % 2 = 1
      BY <2>4 DEF EscapedBits
    <3>2. MaximalSlashRun(text, P + b, IF k = b THEN b + r ELSE k)
      BY <2>3, <3>1
    <3>3. (IF k = b THEN b + r ELSE k) % 2 = 1
      BY <1>1, <2>0, <3>1
    <3> QED BY <2>0, <3>2, <3>3, EscapedByRun
  <2>5. ASSUME EscapedAt(text, P + b) PROVE b \in EscapedBits(slash, incoming)
    <3>1. PICK m \in 0 .. P + b : MaximalSlashRun(text, P + b, m) /\ m % 2 = 1
      BY <2>5 DEF EscapedAt
    <3>2. /\ \A q \in (P + b - m) .. (P + b - 1) : text[q] = "slash"
          /\ m < P + b => text[P + b - m - 1] # "slash"
      <4> DEFINE p == P + b
      <4>1. MaximalSlashRun(text, p, m)
        BY <3>1
      <4> HIDE DEF p
      <4>2. /\ \A q \in (p - m) .. (p - 1) : text[q] = "slash"
            /\ m < p => text[p - m - 1] # "slash"
        BY <4>1 DEF MaximalSlashRun
      <4> QED BY <1>1, <2>0, <4>2 DEF p
    <3>3. CASE m < b
      <4>1. \A j \in (b - m) .. (b - 1) : j \in slash
        <5> SUFFICES ASSUME NEW j \in (b - m) .. (b - 1) PROVE j \in slash
          OBVIOUS
        <5>1. P + j \in (P + b - m) .. (P + b - 1) /\ j \in 0 .. b
          BY <1>1, <2>0, <3>1, <3>3
        <5> QED BY <2>1, <3>2, <5>1
      <4>2. b - m - 1 \notin slash
        <5>1. P + b - m - 1 = P + (b - m - 1) /\ b - m - 1 \in 0 .. b /\ m < P + b
          BY <1>1, <2>0, <3>1, <3>3
        <5> QED BY <2>1, <3>2, <5>1
      <4>3. m \in 0 .. b /\ m # b
        BY <2>0, <3>1, <3>3
      <4> QED BY <3>1, <4>1, <4>2, <4>3 DEF EscapedBits
    <3>4. CASE m >= b
      <4>1. \A j \in (b - b) .. (b - 1) : j \in slash
        <5> SUFFICES ASSUME NEW j \in 0 .. (b - 1) PROVE j \in slash
          BY <2>0
        <5>1. P + j \in (P + b - m) .. (P + b - 1) /\ j \in 0 .. b
          BY <1>1, <2>0, <3>1, <3>4
        <5> QED BY <2>1, <3>2, <5>1
      <4>2. MaximalSlashRun(text, P + b, b + r)
        BY <2>0, <2>3, <4>1
      <4>3. m = b + r
        BY <2>0, <3>1, <4>2, SlashRunUnique
      <4>4. (b + incoming) % 2 = 1
        BY <1>1, <2>0, <3>1, <4>3
      <4> QED BY <2>0, <4>1, <4>4 DEF EscapedBits
    <3> QED BY <1>1, <2>0, <3>1, <3>3, <3>4
  <2> QED BY <2>4, <2>5
<1> QED
  BY <1>3 DEF FilterEscapedQuotes, QuoteWord, BitsWhere, RealQuoteWord, WordOf, RealQuotes

\* When no backslash precedes a quote of the word, no parity is needed.
LEMMA FilterWithoutParity ==
  ASSUME NEW text, IsText(text), NEW w \in Nat,
         PossibleEscaped(QuoteWord(text, w), SlashWord(text, w)) = {}
  PROVE  FilterEscapedQuotes(QuoteWord(text, w), SlashWord(text, w), 0)
           = RealQuoteWord(text, w)
<1> DEFINE W == WordBytes
           P == w * W
           quote == QuoteWord(text, w)
           slash == SlashWord(text, w)
<1>1. W \in Nat \ {0} /\ P \in Nat
  BY WordStart
<1>2. DOMAIN text = 0 .. Size(text) - 1 /\ Size(text) \in Nat
  BY TextDomain
<1>3. ASSUME NEW b \in quote
      PROVE  b \notin EscapedBits(slash, 0) /\ ~EscapedAt(text, P + b)
  <2>1. b \in 0 .. W - 1 /\ b # 0 /\ b - 1 \notin slash /\ P + b \in DOMAIN text
    BY <1>3 DEF PossibleEscaped, QuoteWord, BitsWhere, Bits
  <2>2. b - 1 \in Bits /\ P + (b - 1) = P + b - 0 - 1 /\ P + (b - 1) \in DOMAIN text
    BY <1>1, <1>2, <2>1 DEF Bits
  <2>3. text[P + b - 0 - 1] # "slash"
    BY <2>1, <2>2 DEF SlashWord, BitsWhere
  <2>4. MaximalSlashRun(text, P + b, 0)
    BY <1>1, <2>1, <2>3 DEF MaximalSlashRun
  <2>5. ~EscapedAt(text, P + b)
    BY <1>1, <2>1, <2>4, EscapedByRun
  <2>6. ASSUME NEW k \in 0 .. b, \A j \in (b - k) .. (b - 1) : j \in slash
        PROVE  k = 0
    BY <2>1, <2>6
  <2>7. b \notin EscapedBits(slash, 0)
    BY <2>1, <2>6 DEF EscapedBits
  <2> QED BY <2>5, <2>7
<1> QED
  BY <1>3 DEF FilterEscapedQuotes, QuoteWord, BitsWhere, RealQuoteWord, WordOf, RealQuotes

-----------------------------------------------------------------------------
(***************************************************************************)
(* The in-string word.                                                     *)
(***************************************************************************)

\* The state after byte b of a word is the state before the word, flipped by
\* each real quote up to b.
LEMMA StringInWord ==
  ASSUME NEW text, IsText(text), NEW w \in Nat, NEW b \in Bits
  PROVE  IncomingString(text, w * WordBytes + b + 1) <=>
           ~(IncomingString(text, w * WordBytes) <=> b \in PrefixXor(RealQuoteWord(text, w)))
<1> DEFINE P == w * WordBytes
           quotes == RealQuoteWord(text, w)
           A == QuotesBefore(text, P)
           low == {q \in quotes : q <= b}
           B == {p \in RealQuotes(text) : P <= p /\ p <= P + b}
           shift == [q \in low |-> P + q]
<1>1. P \in Nat /\ b \in 0 .. WordBytes - 1 /\ WordBytes \in Nat \ {0}
  BY WordStart DEF Bits
<1>2. RealQuotes(text) \subseteq DOMAIN text /\ DOMAIN text \subseteq Nat /\ IsFiniteSet(DOMAIN text)
  BY TextDomain DEF RealQuotes
<1>3. IsFiniteSet(A) /\ IsFiniteSet(B)
  BY <1>2, FS_Subset DEF QuotesBefore
<1>4. QuotesBefore(text, P + b + 1) = A \cup B /\ A \cap B = {}
  BY <1>1, <1>2 DEF QuotesBefore
<1>5. IsFiniteSet(low)
  <2>1. low \in SUBSET (0 .. WordBytes - 1)
    BY DEF RealQuoteWord, WordOf, Bits
  <2>2. IsFiniteSet(0 .. WordBytes - 1)
    BY <1>1, FS_Interval
  <2> QED BY <2>1, <2>2, FS_Subset
<1>6. shift \in Bijection(low, B)
  <2>1. \A q \in low : q \in 0 .. b /\ P + q \in B
    BY <1>1 DEF RealQuoteWord, WordOf, Bits
  <2>2. \A p \in B : p - P \in low /\ P + (p - P) = p
    <3> SUFFICES ASSUME NEW p \in B PROVE p - P \in low /\ P + (p - P) = p
      OBVIOUS
    <3>1. p - P \in 0 .. b /\ P + (p - P) = p
      BY <1>1, <1>2
    <3>2. p - P \in Bits
      BY <1>1, <3>1 DEF Bits
    <3> QED BY <3>1, <3>2 DEF RealQuoteWord, WordOf
  <2>3. shift \in [low -> B]
    BY <2>1
  <2>4. \A q, s \in low : shift[q] = shift[s] => q = s
    BY <1>1, <2>1
  <2>5. \A p \in B : \E q \in low : shift[q] = p
    BY <2>2
  <2> HIDE DEF shift, low, B
  <2>6. shift \in Injection(low, B) /\ shift \in Surjection(low, B)
    BY <2>3, <2>4, <2>5 DEF Injection, Surjection, IsInjective
  <2> QED BY <2>6 DEF Bijection
<1>7. Cardinality(B) = Cardinality(low) /\ Cardinality(low) \in Nat /\ Cardinality(A) \in Nat
  BY <1>3, <1>5, <1>6, FS_Bijection, FS_CardinalityType DEF ExistsBijection
<1>8. Cardinality(A \cup B) = Cardinality(A) + Cardinality(low)
  <2>1. Cardinality(A \cap B) = 0
    BY <1>4, FS_EmptySet
  <2>2. Cardinality(A \cup B) = Cardinality(A) + Cardinality(B) - Cardinality(A \cap B)
    BY <1>3, FS_Union
  <2> HIDE DEF A, B, low
  <2> QED BY <1>7, <2>1, <2>2
<1>9. b \in PrefixXor(quotes) <=> Cardinality(low) % 2 = 1
  BY DEF PrefixXor
<1>10. \A m, n \in Nat : (m + n) % 2 = 1 <=> ~(m % 2 = 1 <=> n % 2 = 1)
  OBVIOUS
<1>11. IncomingString(text, P + b + 1) <=> (Cardinality(A) + Cardinality(low)) % 2 = 1
  BY <1>4, <1>8 DEF IncomingString
<1>12. IncomingString(text, P) <=> Cardinality(A) % 2 = 1
  BY DEF IncomingString
<1>13. (Cardinality(A) + Cardinality(low)) % 2 = 1 <=>
         ~(Cardinality(A) % 2 = 1 <=> Cardinality(low) % 2 = 1)
  <2> HIDE DEF A, low
  <2> QED BY <1>7, <1>10
<1> HIDE DEF A, low, P, quotes
<1>14. IncomingString(text, P + b + 1) <=>
         ~(IncomingString(text, P) <=> b \in PrefixXor(quotes))
  BY <1>9, <1>11, <1>12, <1>13
<1> QED BY <1>14 DEF P, quotes

\* The candidate selected by the state at the start of the word is the
\* specified in-string word.
LEMMA CandidateIsInStringWord ==
  ASSUME NEW text, IsText(text), NEW w \in Nat
  PROVE  InStringCandidate(RealQuoteWord(text, w), IncomingString(text, w * WordBytes))
           = InStringWord(text, w)
<1> DEFINE quotes == RealQuoteWord(text, w)
           before == IncomingString(text, w * WordBytes)
<1>1. \A b \in Bits : IncomingString(text, w * WordBytes + b + 1) <=>
                        ~(before <=> b \in PrefixXor(quotes))
  BY StringInWord
<1>2. before \in BOOLEAN
  BY DEF IncomingString
<1>3. PrefixXor(quotes) \subseteq Bits
  BY DEF PrefixXor
<1>4. CASE before
  BY <1>1, <1>3, <1>4 DEF InStringCandidate, Invert, InStringWord
<1>5. CASE ~before
  <2>1. \A b \in Bits :
          IncomingString(text, w * WordBytes + b + 1) <=> b \in PrefixXor(quotes)
    BY <1>1, <1>5
  <2>2. InStringWord(text, w) = PrefixXor(quotes)
    BY <1>3, <2>1 DEF InStringWord
  <2> QED BY <1>5, <2>2 DEF InStringCandidate
<1> QED BY <1>2, <1>4, <1>5

\* The top bit of a word carries the state into the next one.
LEMMA TopBitCarries ==
  ASSUME NEW text, NEW w \in Nat
  PROVE  TopBit(InStringWord(text, w)) <=> IncomingString(text, (w + 1) * WordBytes)
<1>1. WordBytes - 1 \in Bits
  BY WordBytesAssumption DEF Bits
<1>2. w * WordBytes + (WordBytes - 1) + 1 = (w + 1) * WordBytes
  BY WordStart
<1> QED BY <1>1, <1>2 DEF TopBit, InStringWord

LEMMA FirstWordOutside ==
  ASSUME NEW text, IsText(text)
  PROVE  IncomingString(text, 0 * WordBytes) = FALSE
<1>1. 0 * WordBytes = 0
  BY WordStart
<1> QED BY <1>1, StringStart

\* Masking the class bits with the in-string word gives the specified bitmaps.
LEMMA MaskedIsSpecified ==
  ASSUME NEW text, IsText(text), NEW w \in Nat
  PROVE  /\ OperatorWord(text, w) \ InStringWord(text, w) = StructuralWord(text, w)
         /\ OpenCloseWord(text, w) \ InStringWord(text, w) = OpenCloseResult(text, w)
<1>1. \A p \in DOMAIN text :
        /\ p \in Structural(text) <=>
             text[p] \in {"bracket", "separator"} /\ ~IncomingString(text, p + 1)
        /\ p \in OpenClose(text) <=> text[p] \in {"bracket"} /\ ~IncomingString(text, p + 1)
  BY DEF Structural, OpenClose, Operators, OpenCloses, InString, IsOperator, IsOpenClose
<1>2. Structural(text) \subseteq DOMAIN text /\ OpenClose(text) \subseteq DOMAIN text
  BY DEF Structural, OpenClose, Operators, OpenCloses
<1>3. ASSUME NEW b \in Bits
      PROVE  /\ b \in OperatorWord(text, w) \ InStringWord(text, w)
                  <=> b \in StructuralWord(text, w)
             /\ b \in OpenCloseWord(text, w) \ InStringWord(text, w)
                  <=> b \in OpenCloseResult(text, w)
  BY <1>1, <1>2 DEF OperatorWord, OpenCloseWord, BitsWhere, InStringWord, StructuralWord,
                    OpenCloseResult, WordOf
<1>4. /\ OperatorWord(text, w) \subseteq Bits /\ OpenCloseWord(text, w) \subseteq Bits
      /\ StructuralWord(text, w) \subseteq Bits /\ OpenCloseResult(text, w) \subseteq Bits
  BY DEF OperatorWord, OpenCloseWord, BitsWhere, StructuralWord, OpenCloseResult, WordOf
<1> QED BY <1>3, <1>4

-----------------------------------------------------------------------------
(***************************************************************************)
(* Parities of an array of bits: how many of array[i] ... array[j] are 1,  *)
(* modulo 2, which is what the XOR scans of the kernels compute.           *)
(***************************************************************************)
OddCount(array, i, j) == Cardinality({k \in i .. j : array[k] = 1}) % 2

LEMMA FiniteRange ==
  ASSUME NEW i \in Int, NEW j \in Int, NEW S \in SUBSET (i .. j)
  PROVE  IsFiniteSet(S) /\ Cardinality(S) \in Nat
<1>1. IsFiniteSet(i .. j)
  BY FS_Interval
<1> QED BY <1>1, FS_Subset, FS_CardinalityType

\* Two disjoint sets.
LEMMA ParityOfUnion ==
  ASSUME NEW A, NEW B, IsFiniteSet(A), IsFiniteSet(B), A \cap B = {}
  PROVE  Cardinality(A \cup B) % 2 = ((Cardinality(A) % 2) + (Cardinality(B) % 2)) % 2
<1>1. Cardinality(A \cup B) = Cardinality(A) + Cardinality(B) - Cardinality(A \cap B)
  BY FS_Union
<1>2. Cardinality(A) \in Nat /\ Cardinality(B) \in Nat /\ Cardinality(A \cap B) = 0
  BY FS_CardinalityType, FS_EmptySet
<1> QED BY <1>1, <1>2

LEMMA OddCountFacts ==
  ASSUME NEW array, NEW i \in Int, NEW j \in Int
  PROVE  /\ OddCount(array, i, j) \in {0, 1}
         /\ j < i => OddCount(array, i, j) = 0
         /\ OddCount(array, i, i) = IF array[i] = 1 THEN 1 ELSE 0
<1> DEFINE S == {k \in i .. j : array[k] = 1}
           T == {k \in i .. i : array[k] = 1}
<1>1. S \in SUBSET (i .. j) /\ OddCount(array, i, j) = Cardinality(S) % 2
  BY DEF OddCount
<1>2. OddCount(array, i, i) = Cardinality(T) % 2
  BY DEF OddCount
<1>3. j < i => S = {}
  OBVIOUS
<1>4. T = IF array[i] = 1 THEN {i} ELSE {}
  OBVIOUS
<1> HIDE DEF S, T
<1>5. Cardinality(S) \in Nat
  BY <1>1, FiniteRange
<1>6. j < i => Cardinality(S) = 0
  BY <1>3, FS_EmptySet
<1>7. Cardinality(T) = IF array[i] = 1 THEN 1 ELSE 0
  BY <1>4, FS_EmptySet, FS_Singleton
<1> QED BY <1>1, <1>2, <1>5, <1>6, <1>7

LEMMA OddCountSplit ==
  ASSUME NEW array, NEW i \in Int, NEW m \in Int, NEW j \in Int, i <= m + 1, m <= j
  PROVE  OddCount(array, i, j) = (OddCount(array, i, m) + OddCount(array, m + 1, j)) % 2
<1> DEFINE A == {k \in i .. m : array[k] = 1}
           B == {k \in (m + 1) .. j : array[k] = 1}
<1>1. {k \in i .. j : array[k] = 1} = A \cup B
  OBVIOUS
<1>2. /\ OddCount(array, i, j) = Cardinality(A \cup B) % 2
      /\ OddCount(array, i, m) = Cardinality(A) % 2
      /\ OddCount(array, m + 1, j) = Cardinality(B) % 2
  BY <1>1 DEF OddCount
<1>3. A \cap B = {} /\ A \in SUBSET (i .. m) /\ B \in SUBSET ((m + 1) .. j) /\ m + 1 \in Int
  OBVIOUS
<1> HIDE DEF A, B
<1>4. /\ IsFiniteSet(A) /\ IsFiniteSet(B)
      /\ Cardinality(A) \in Nat /\ Cardinality(B) \in Nat
  BY <1>3, FiniteRange
<1>5. Cardinality(A \cup B) % 2 = ((Cardinality(A) % 2) + (Cardinality(B) % 2)) % 2
  BY <1>3, <1>4, ParityOfUnion
<1> QED BY <1>2, <1>4, <1>5

LEMMA OddCountCongruent ==
  ASSUME NEW array, NEW other, NEW i \in Int, NEW j \in Int,
         \A k \in i .. j : array[k] = other[k]
  PROVE  OddCount(array, i, j) = OddCount(other, i, j)
<1>1. {k \in i .. j : array[k] = 1} = {k \in i .. j : other[k] = 1}
  OBVIOUS
<1> QED BY <1>1 DEF OddCount

\* The totals of consecutive runs of the same length add up to the total of all.
LEMMA OddCountOfRuns ==
  ASSUME NEW array, NEW totals, NEW size \in Nat \ {0}, NEW n \in Nat,
         \A k \in 0 .. n : totals[k] = OddCount(array, k * size, k * size + size - 1)
  PROVE  OddCount(totals, 0, n) = OddCount(array, 0, n * size + size - 1)
<1> DEFINE P(m) == OddCount(totals, 0, m) = OddCount(array, 0, m * size + size - 1)
           bad == {m \in 0 .. n : ~P(m)}
<1> SUFFICES ASSUME bad # {} PROVE FALSE
  OBVIOUS
<1>1. PICK m \in bad : \A l \in bad : m <= l
  <2>1. bad \in SUBSET Nat
    OBVIOUS
  <2> HIDE DEF bad
  <2> QED BY <2>1, LeastElement
<1>2. m \in Nat /\ m \in 0 .. n /\ m * size \in Nat
  BY <1>1
<1>3. OddCount(totals, m, m) = totals[m]
  <2>1. totals[m] \in {0, 1}
    BY <1>2, OddCountFacts
  <2> QED BY <1>2, <2>1, OddCountFacts
<1>4. CASE m = 0
  BY <1>1, <1>2, <1>3, <1>4
<1>5. CASE m # 0
  <2>1. m - 1 \in 0 .. n /\ m - 1 \in Nat
    BY <1>2, <1>5
  <2>2. P(m - 1)
    BY <1>1, <1>2, <2>1
  <2>3. (m - 1) * size + size - 1 = m * size - 1
    BY <1>2, <2>1
  <2>4. OddCount(totals, 0, m) = (OddCount(totals, 0, m - 1) + OddCount(totals, m, m)) % 2
    <3>1. m - 1 \in Int /\ m \in Int /\ 0 <= (m - 1) + 1 /\ m - 1 <= m /\ (m - 1) + 1 = m
      BY <1>2
    <3>2. OddCount(totals, 0, m)
            = (OddCount(totals, 0, m - 1) + OddCount(totals, (m - 1) + 1, m)) % 2
      BY <3>1, OddCountSplit
    <3> QED BY <3>1, <3>2
  <2>5. OddCount(array, 0, m * size + size - 1)
          = (OddCount(array, 0, m * size - 1) + OddCount(array, m * size, m * size + size - 1)) % 2
    <3> DEFINE a == m * size
    <3>1. a \in Nat
      BY <1>2
    <3> HIDE DEF a
    <3>2. a - 1 \in Int /\ a + size - 1 \in Int /\ 0 <= (a - 1) + 1 /\ a - 1 <= a + size - 1
          /\ (a - 1) + 1 = a
      BY <3>1
    <3>3. OddCount(array, 0, a + size - 1)
            = (OddCount(array, 0, a - 1) + OddCount(array, (a - 1) + 1, a + size - 1)) % 2
      BY <3>2, OddCountSplit
    <3> QED BY <3>2, <3>3 DEF a
  <2>6. totals[m] = OddCount(array, m * size, m * size + size - 1)
    BY <1>2
  <2> QED BY <1>1, <1>3, <2>2, <2>3, <2>4, <2>5, <2>6
<1> QED BY <1>4, <1>5

-----------------------------------------------------------------------------
(***************************************************************************)
(* The escape and the string state at any word of a text.                  *)
(***************************************************************************)

\* Some maximal run of backslashes, possibly empty, ends before every byte.
LEMMA RunExists ==
  ASSUME NEW text, NEW p \in Nat
  PROVE  \E k : MaximalSlashRun(text, p, k)
<1> DEFINE ends == {k \in 0 .. p : k < p => text[p - k - 1] # "slash"}
<1>1. p \in ends /\ ends \in SUBSET Nat
  OBVIOUS
<1>2. PICK k \in ends : \A j \in ends : k <= j
  <2> HIDE DEF ends
  <2> QED BY <1>1, LeastElement
<1>3. ASSUME NEW q \in (p - k) .. (p - 1) PROVE text[q] = "slash"
  <2>1. p - q - 1 \in 0 .. p /\ p - q - 1 < k /\ p - (p - q - 1) - 1 = q /\ p - q - 1 < p
    BY <1>2, <1>3
  <2> QED BY <1>2, <2>1
<1> QED BY <1>2, <1>3 DEF MaximalSlashRun

\* Words of backslashes hand on the escape that enters the first of them.
LEMMA EscapePasses ==
  ASSUME NEW text, NEW u \in Nat, NEW w \in Nat, u <= w, SlashesBetween(text, u - 1, w)
  PROVE  EscapedAt(text, u * WordBytes) <=> EscapedAt(text, w * WordBytes)
<1> DEFINE U == u * WordBytes
           P == w * WordBytes
<1>1. /\ U \in Nat /\ U % 2 = 0 /\ (u - 1) + 1 = u
      /\ P \in Nat /\ P % 2 = 0
  <2>1. U \in Nat /\ U % 2 = 0
    BY WordStart
  <2>2. P \in Nat /\ P % 2 = 0
    BY WordStart
  <2> HIDE DEF U, P
  <2> QED BY <2>1, <2>2
<1>2. U <= P
  <2>1. PICK d \in Nat : w = u + d
    <3>1. w - u \in Nat /\ w = u + (w - u)
      OBVIOUS
    <3> QED BY <3>1
  <2>2. P = U + d * WordBytes /\ d * WordBytes \in Nat
    BY <2>1, WordBytesAssumption
  <2> QED BY <1>1, <2>2
<1>3. \A q \in U .. P - 1 : text[q] = "slash"
  BY <1>1 DEF SlashesBetween
<1> HIDE DEF U, P
<1>4. PICK r : MaximalSlashRun(text, U, r)
  BY <1>1, RunExists
<1>5. r \in 0 .. U
  BY <1>4 DEF MaximalSlashRun
<1> DEFINE s == P - U + r
<1>6. s \in 0 .. P /\ s % 2 = r % 2 /\ P - s = U - r
  BY <1>1, <1>2, <1>5
<1>7. \A q \in (P - s) .. (P - 1) : text[q] = "slash"
  <2> SUFFICES ASSUME NEW q \in (P - s) .. (P - 1) PROVE text[q] = "slash"
    OBVIOUS
  <2>1. q \in (U - r) .. (U - 1) \/ q \in U .. P - 1
    BY <1>1, <1>2, <1>5, <1>6
  <2> QED BY <1>3, <1>4, <2>1 DEF MaximalSlashRun
<1>8. s < P => text[P - s - 1] # "slash"
  BY <1>1, <1>2, <1>4, <1>5, <1>6 DEF MaximalSlashRun
<1>9. MaximalSlashRun(text, P, s)
  BY <1>6, <1>7, <1>8 DEF MaximalSlashRun
<1>10. /\ EscapedAt(text, U) <=> r % 2 = 1
       /\ EscapedAt(text, P) <=> s % 2 = 1
  BY <1>1, <1>4, <1>9, EscapedByRun
<1> QED BY <1>6, <1>10 DEF U, P

\* The parity of the quotes before word w.
ParityBeforeWord(text, w) == Cardinality(QuotesBefore(text, w * WordBytes)) % 2

LEMMA ParityTypes ==
  ASSUME NEW text, IsText(text)
  PROVE  /\ \A w \in Nat : ParityBeforeWord(text, w) \in {0, 1}
         /\ \A word \in SUBSET Bits : Parity(word) \in {0, 1}
<1>1. \A word \in SUBSET Bits : Cardinality(word) \in Nat
  <2>1. 0 \in Int /\ WordBytes - 1 \in Int
    BY WordBytesAssumption
  <2> QED BY <2>1, FiniteRange DEF Bits
<1>2. \A w \in Nat : Cardinality(QuotesBefore(text, w * WordBytes)) \in Nat
  <2>1. \A w : QuotesBefore(text, w * WordBytes) \in SUBSET DOMAIN text
    BY DEF QuotesBefore, RealQuotes
  <2> QED BY <2>1, TextDomain, FS_Subset, FS_CardinalityType
<1> QED BY <1>1, <1>2 DEF ParityBeforeWord, Parity

\* A word flips the string state when it has an odd number of real quotes.
LEMMA ParityStep ==
  ASSUME NEW text, IsText(text), NEW w \in Nat
  PROVE  ParityBeforeWord(text, w + 1)
           = (ParityBeforeWord(text, w) + Parity(RealQuoteWord(text, w))) % 2
<1> DEFINE quotes == RealQuoteWord(text, w)
<1>1. quotes \in SUBSET Bits
  BY DEF RealQuoteWord, WordOf
<1>2. /\ WordBytes - 1 \in Bits
      /\ w * WordBytes + (WordBytes - 1) + 1 = (w + 1) * WordBytes
  <2>1. /\ WordBytes \in Nat \ {0} /\ w * WordBytes \in Nat
        /\ (w + 1) * WordBytes = w * WordBytes + WordBytes
    BY WordStart
  <2> QED BY <2>1 DEF Bits
<1>3. {q \in quotes : q <= WordBytes - 1} = quotes
  BY <1>1, WordBytesAssumption DEF Bits
<1>4. WordBytes - 1 \in PrefixXor(quotes) <=> Parity(quotes) = 1
  BY <1>2, <1>3 DEF PrefixXor, Parity
<1>5. IncomingString(text, (w + 1) * WordBytes) <=>
        ~(IncomingString(text, w * WordBytes) <=> Parity(quotes) = 1)
  BY <1>2, <1>4, StringInWord
<1>6. /\ IncomingString(text, (w + 1) * WordBytes) <=> ParityBeforeWord(text, w + 1) = 1
      /\ IncomingString(text, w * WordBytes) <=> ParityBeforeWord(text, w) = 1
  BY DEF IncomingString, ParityBeforeWord
<1>7. /\ ParityBeforeWord(text, w) \in {0, 1} /\ ParityBeforeWord(text, w + 1) \in {0, 1}
      /\ Parity(quotes) \in {0, 1}
  BY <1>1, ParityTypes
<1> HIDE DEF quotes
<1>8. ParityBeforeWord(text, w + 1) = (ParityBeforeWord(text, w) + Parity(quotes)) % 2
  BY <1>5, <1>6, <1>7
<1> QED BY <1>8 DEF quotes

\* An XOR scan over the quote parities of words finds the parity before each of them.
LEMMA ParityOverWords ==
  ASSUME NEW text, IsText(text), NEW first \in Nat, NEW n \in Nat, NEW array,
         \A k \in 0 .. n - 1 : array[k] = Parity(RealQuoteWord(text, first + k))
  PROVE  ParityBeforeWord(text, first + n)
           = (ParityBeforeWord(text, first) + OddCount(array, 0, n - 1)) % 2
<1> DEFINE P(m) == ParityBeforeWord(text, first + m)
                     = (ParityBeforeWord(text, first) + OddCount(array, 0, m - 1)) % 2
           bad == {m \in 0 .. n : ~P(m)}
<1> SUFFICES ASSUME bad # {} PROVE FALSE
  <2>1. n \in 0 .. n
    OBVIOUS
  <2>2. bad = {} => P(n)
    <3> HIDE DEF P
    <3> QED BY <2>1
  <2> QED BY <2>2
<1>1. PICK m \in bad : \A l \in bad : m <= l
  <2>1. bad \in SUBSET Nat
    OBVIOUS
  <2> HIDE DEF bad
  <2> QED BY <2>1, LeastElement
<1>2. m \in Nat /\ m \in 0 .. n
  BY <1>1
<1>3. ParityBeforeWord(text, first) \in {0, 1}
  BY ParityTypes
<1>4. CASE m = 0
  <2>1. OddCount(array, 0, m - 1) = 0
    BY <1>4, OddCountFacts
  <2> QED BY <1>1, <1>3, <1>4, <2>1
<1>5. CASE m # 0
  <2>1. m - 1 \in 0 .. n /\ m - 1 \in Nat /\ m - 1 \in 0 .. n - 1 /\ first + (m - 1) \in Nat
        /\ first + (m - 1) + 1 = first + m
    BY <1>2, <1>5
  <2>2. P(m - 1)
    BY <1>1, <1>2, <2>1
  <2>3. ParityBeforeWord(text, first + m)
          = (ParityBeforeWord(text, first + (m - 1)) + array[m - 1]) % 2
    BY <2>1, ParityStep
  <2>4. OddCount(array, 0, m - 1) = (OddCount(array, 0, (m - 1) - 1) + array[m - 1]) % 2
    <3>1. /\ 0 \in Int /\ (m - 1) - 1 \in Int /\ m - 1 \in Int /\ 0 <= ((m - 1) - 1) + 1
          /\ (m - 1) - 1 <= m - 1 /\ ((m - 1) - 1) + 1 = m - 1
      BY <2>1
    <3>2. OddCount(array, 0, m - 1)
            = (OddCount(array, 0, (m - 1) - 1) + OddCount(array, ((m - 1) - 1) + 1, m - 1)) % 2
      BY <3>1, OddCountSplit
    <3>3. array[m - 1] \in {0, 1}
      <4>1. RealQuoteWord(text, first + (m - 1)) \in SUBSET Bits
        BY DEF RealQuoteWord, WordOf
      <4> QED BY <2>1, <4>1, ParityTypes
    <3>4. OddCount(array, m - 1, m - 1) = array[m - 1]
      BY <2>1, <3>3, OddCountFacts
    <3> QED BY <3>1, <3>2, <3>4
  <2>5. OddCount(array, 0, (m - 1) - 1) \in {0, 1} /\ array[m - 1] \in {0, 1}
    <3>1. RealQuoteWord(text, first + (m - 1)) \in SUBSET Bits
      BY DEF RealQuoteWord, WordOf
    <3> QED BY <2>1, <3>1, ParityTypes, OddCountFacts
  <2> DEFINE a == ParityBeforeWord(text, first)
             b == OddCount(array, 0, (m - 1) - 1)
             c == array[m - 1]
             d == ParityBeforeWord(text, first + (m - 1))
             e == OddCount(array, 0, m - 1)
             f == ParityBeforeWord(text, first + m)
  <2>6. d = (a + b) % 2 /\ f = (d + c) % 2 /\ e = (b + c) % 2 /\ ~(f = (a + e) % 2)
    BY <1>1, <2>2, <2>3, <2>4
  <2>7. a \in {0, 1} /\ b \in {0, 1} /\ c \in {0, 1}
    BY <1>3, <2>5
  <2> HIDE DEF a, b, c, d, e, f
  <2> QED BY <2>6, <2>7
<1> QED BY <1>4, <1>5

-----------------------------------------------------------------------------
(***************************************************************************)
(* Division by a width, for widths and multiples that are variables.       *)
(***************************************************************************)
LEMMA Multiples ==
  ASSUME NEW width \in Nat, NEW a \in Nat, NEW b \in Nat, a < b
  PROVE  a * width \in Nat /\ b * width \in Nat /\ a * width + width <= b * width
<1>1. PICK d \in Nat : b = a + 1 + d
  <2>1. b - a - 1 \in Nat /\ b = a + 1 + (b - a - 1)
    OBVIOUS
  <2> QED BY <2>1
<1>2. b * width = a * width + width + d * width /\ d * width \in Nat /\ a * width \in Nat
  BY <1>1
<1> QED BY <1>2

LEMMA Quotient ==
  ASSUME NEW width \in Nat \ {0}, NEW p \in Nat
  PROVE  /\ p \div width \in Nat /\ p % width \in 0 .. width - 1
         /\ p = (p \div width) * width + (p % width)
OBVIOUS

LEMMA QuotientUnique ==
  ASSUME NEW width \in Nat \ {0}, NEW a \in Nat, NEW b \in Nat,
         NEW i \in 0 .. width - 1, NEW j \in 0 .. width - 1,
         a * width + i = b * width + j
  PROVE  a = b /\ i = j
<1>1. ~(a < b) /\ ~(b < a)
  BY Multiples
<1> QED BY <1>1

LEMMA GreatestElement ==
  ASSUME NEW n \in Nat, NEW A \in SUBSET (0 .. n), A # {}
  PROVE  \E k \in A : \A m \in A : m <= k
<1> DEFINE B == {d \in 0 .. n : n - d \in A}
<1>1. B \in SUBSET Nat
  OBVIOUS
<1>2. B # {}
  <2>1. PICK k \in A : TRUE
    OBVIOUS
  <2>2. n - k \in 0 .. n /\ n - (n - k) = k
    OBVIOUS
  <2> QED BY <2>1, <2>2
<1>3. PICK d \in B : \A m \in B : d <= m
  <2> HIDE DEF B
  <2> QED BY <1>1, <1>2, LeastElement
<1>4. ASSUME NEW m \in A PROVE m <= n - d
  <2>1. n - m \in 0 .. n /\ n - (n - m) = m
    OBVIOUS
  <2> QED BY <1>3, <2>1
<1> QED BY <1>3, <1>4

-----------------------------------------------------------------------------
(***************************************************************************)
(* The escape that enters a word.                                          *)
(***************************************************************************)
EscapeAt(t, w) ==
  IF w * WordBytes <= Size(t) /\ EscapedAt(t, w * WordBytes) THEN 1 ELSE 0

\* A word that is not all backslashes hands on the parity of those at its end.
LEMMA EscapeLeaves ==
  ASSUME NEW t, IsText(t), NEW w \in Nat, SlashWord(t, w) # Bits
  PROVE  TrailingOnes(SlashWord(t, w)) % 2 = EscapeAt(t, w + 1)
<1> DEFINE n == TrailingOnes(SlashWord(t, w))
           P == (w + 1) * WordBytes
<1>1. SlashWord(t, w) \in SUBSET Bits
  BY DEF SlashWord, BitsWhere
<1>2. /\ n \in 0 .. WordBytes - 1
      /\ \A b \in (WordBytes - n) .. (WordBytes - 1) : b \in SlashWord(t, w)
  BY <1>1, TrailingOnesFacts
<1>3. /\ WordBytes \in Nat \ {0} /\ w * WordBytes \in Nat /\ P = w * WordBytes + WordBytes
  BY WordStart
<1>4. Size(t) \in Nat /\ DOMAIN t = 0 .. Size(t) - 1
  BY TextDomain
<1>5. CASE P <= Size(t)
  <2>1. SlashesBetween(t, w, w + 1)
    BY <1>3 DEF SlashesBetween
  <2>2. PICK r : MaximalSlashRun(t, P, r) /\ r % 2 = n % 2
    BY <1>5, <2>1, RunBehindWord
  <2>3. EscapedAt(t, P) <=> r % 2 = 1
    BY <1>3, <2>2, EscapedByRun
  <2>4. n % 2 \in {0, 1}
    <3> HIDE DEF n
    <3> QED BY <1>2, <1>3
  <2> HIDE DEF n, P
  <2>5. n % 2 = IF EscapedAt(t, P) THEN 1 ELSE 0
    BY <2>2, <2>3, <2>4
  <2> QED BY <1>5, <2>5 DEF EscapeAt, n, P
<1>6. CASE ~(P <= Size(t))
  <2>1. w * WordBytes + (WordBytes - 1) \notin DOMAIN t
    BY <1>3, <1>4, <1>6
  <2>2. WordBytes - 1 \notin SlashWord(t, w)
    BY <2>1 DEF SlashWord, BitsWhere
  <2>3. n = 0
    <3> HIDE DEF n
    <3> QED BY <1>2, <1>3, <2>2
  <2> QED BY <1>6, <2>3 DEF EscapeAt
<1> QED BY <1>5, <1>6

\* Words of backslashes hand on what enters the first of them.
LEMMA EscapeOver ==
  ASSUME NEW t, IsText(t), NEW u \in Nat, NEW w \in Nat, u <= w,
         \A v \in u .. w - 1 : SlashWord(t, v) = Bits
  PROVE  EscapeAt(t, u) = EscapeAt(t, w)
<1>1. CASE u = w
  BY <1>1
<1>2. CASE u < w
  <2>1. /\ WordBytes \in Nat \ {0} /\ u * WordBytes \in Nat /\ w * WordBytes \in Nat
        /\ u * WordBytes < w * WordBytes
    BY <1>2, WordBytesAssumption, Multiples
  <2>2. ASSUME NEW q \in u * WordBytes .. w * WordBytes - 1
        PROVE  q \in DOMAIN t /\ t[q] = "slash"
    <3> DEFINE v == q \div WordBytes
               b == q % WordBytes
    <3>0. q \in Nat
      BY <2>1
    <3>1. q \in Nat /\ v \in Nat /\ b \in 0 .. WordBytes - 1 /\ q = v * WordBytes + b
      BY <2>1, <3>0, Quotient
    <3> HIDE DEF v, b
    <3>2. v * WordBytes \in Nat
      BY <2>1, <3>1
    <3>3. ~(v < u)
      <4>1. v < u => v * WordBytes + WordBytes <= u * WordBytes
        BY <2>1, <3>1, Multiples
      <4> QED BY <2>1, <3>1, <3>2, <4>1
    <3>4. ~(w < v) /\ w # v
      <4>1. w < v => w * WordBytes + WordBytes <= v * WordBytes
        BY <2>1, <3>1, Multiples
      <4> QED BY <2>1, <3>1, <3>2, <4>1
    <3>5. v \in u .. w - 1
      BY <3>1, <3>3, <3>4
    <3>6. b \in SlashWord(t, v)
      BY <3>1, <3>5 DEF Bits
    <3> QED BY <3>1, <3>6 DEF SlashWord, BitsWhere
  <2>3. SlashesBetween(t, u - 1, w)
    <3>1. (u - 1) + 1 = u
      OBVIOUS
    <3> QED BY <2>2, <3>1 DEF SlashesBetween
  <2>4. EscapedAt(t, u * WordBytes) <=> EscapedAt(t, w * WordBytes)
    BY <1>2, <2>3, EscapePasses
  <2>5. w * WordBytes <= Size(t) /\ u * WordBytes <= Size(t)
    <3>1. w * WordBytes - 1 \in DOMAIN t
      BY <2>1, <2>2
    <3> QED BY <2>1, <3>1, TextDomain
  <2> QED BY <2>4, <2>5 DEF EscapeAt
<1> QED BY <1>1, <1>2

LEMMA FirstWordUnescaped ==
  ASSUME NEW t
  PROVE  EscapeAt(t, 0) = 0
<1>1. 0 * WordBytes = 0
  BY WordBytesAssumption
<1>2. ~ EscapedAt(t, 0)
  BY DEF EscapedAt
<1> QED BY <1>1, <1>2 DEF EscapeAt

\* A word that holds a byte of the text is counted.
LEMMA ByteInWordCount ==
  ASSUME NEW t, IsText(t), NEW w \in Nat, NEW b \in Bits, w * WordBytes + b \in DOMAIN t
  PROVE  w < WordCount(t)
<1> DEFINE W == WordBytes
           n == Size(t)
           q == (n + W - 1) \div W
           r == (n + W - 1) % W
<1>1. W \in Nat \ {0} /\ n \in Nat /\ w * W \in Nat /\ b \in 0 .. W - 1 /\ w * W + b < n
  BY TextDomain, WordStart, WordBytesAssumption DEF Bits
<1>2. n + W - 1 \in Nat
  BY <1>1
<1>3. q \in Nat /\ r \in 0 .. W - 1 /\ n + W - 1 = q * W + r
  BY <1>1, <1>2, Quotient
<1>4. WordCount(t) = q
  BY DEF WordCount
<1> HIDE DEF q, r, n, W
<1>5. q * W \in Nat /\ (w * W) + W <= q * W + r
  BY <1>1, <1>3
<1>6. q <= w => FALSE
  <2>1. q < w => q * W + W <= w * W
    BY <1>1, <1>3, Multiples
  <2> QED BY <1>1, <1>3, <1>5, <2>1
<1> QED BY <1>3, <1>4, <1>6

\* With the escape that enters it, the filter keeps the real quotes of a word, also past
\* the end of the text.
LEMMA FilterAtWord ==
  ASSUME NEW t, IsText(t), NEW w \in Nat
  PROVE  FilterEscapedQuotes(QuoteWord(t, w), SlashWord(t, w), EscapeAt(t, w)) = RealQuoteWord(t, w)
<1> DEFINE quote == QuoteWord(t, w)
<1>1. CASE w * WordBytes <= Size(t)
  <2>1. w * WordBytes \in Nat
    BY WordStart
  <2>2. PICK r : MaximalSlashRun(t, w * WordBytes, r)
    BY <2>1, RunExists
  <2>3. EscapedAt(t, w * WordBytes) <=> r % 2 = 1
    BY <2>1, <2>2, EscapedByRun
  <2>4. r \in Nat
    BY <2>1, <2>2 DEF MaximalSlashRun
  <2>5. r % 2 = EscapeAt(t, w) /\ EscapeAt(t, w) \in {0, 1}
    BY <1>1, <2>3, <2>4 DEF EscapeAt
  <2> QED BY <2>2, <2>5, FilterWithParity
<1>2. CASE ~(w * WordBytes <= Size(t))
  <2>1. \A b \in Bits : w * WordBytes + b \notin DOMAIN t
    <3>1. /\ w * WordBytes \in Nat /\ Size(t) \in Nat /\ DOMAIN t = 0 .. Size(t) - 1
          /\ \A b \in Bits : b \in Nat
      BY WordStart, TextDomain, WordBytesAssumption DEF Bits
    <3> QED BY <1>2, <3>1
  <2>2. quote = {} /\ RealQuoteWord(t, w) = {}
    BY <2>1 DEF QuoteWord, BitsWhere, RealQuoteWord, WordOf, RealQuotes
  <2> QED BY <2>2 DEF FilterEscapedQuotes
<1> QED BY <1>1, <1>2

\* Where no quote follows a backslash, or begins a word that an escape enters, the filter
\* keeps all.
LEMMA FilterKeepsAll ==
  ASSUME NEW t, NEW w \in Nat, NEW e \in {0, 1},
         \A b \in QuoteWord(t, w) : b - 1 \notin SlashWord(t, w) /\ (e = 1 => b # 0)
  PROVE  FilterEscapedQuotes(QuoteWord(t, w), SlashWord(t, w), e) = QuoteWord(t, w)
<1> DEFINE quote == QuoteWord(t, w)
           slash == SlashWord(t, w)
<1>1. ASSUME NEW b \in quote PROVE b \notin EscapedBits(slash, e)
  <2>1. b \in Nat /\ b - 1 \notin slash /\ (e = 1 => b # 0)
    BY WordBytesAssumption DEF QuoteWord, BitsWhere, Bits
  <2>2. ASSUME NEW n \in 0 .. b, \A j \in (b - n) .. (b - 1) : j \in slash PROVE n = 0
    BY <2>1, <2>2
  <2> HIDE DEF slash
  <2> QED BY <2>1, <2>2 DEF EscapedBits
<1> QED BY <1>1 DEF FilterEscapedQuotes

\* The escape that enters a word matters exactly when a quote follows the backslashes,
\* if any, at the beginning of the word.
LEMMA EscapeMatters ==
  ASSUME NEW t, NEW w \in Nat
  PROVE  FilterEscapedQuotes(QuoteWord(t, w), SlashWord(t, w), 0)
           # FilterEscapedQuotes(QuoteWord(t, w), SlashWord(t, w), 1)
         <=> \E b \in QuoteWord(t, w) : \A a \in 0 .. b - 1 : a \in SlashWord(t, w)
<1> DEFINE quote == QuoteWord(t, w)
           slash == SlashWord(t, w)
           Leads(b) == \A a \in 0 .. b - 1 : a \in slash
<1>1. /\ quote \in SUBSET Bits /\ slash \in SUBSET Bits /\ Bits \subseteq Nat
      /\ quote \cap slash = {}
  BY WordBytesAssumption DEF QuoteWord, SlashWord, BitsWhere, Bits
<1> HIDE DEF quote, slash
<1>2. ASSUME NEW b \in Bits, NEW e \in {0, 1}, Leads(b)
      PROVE  b \in EscapedBits(slash, e) <=> (b + e) % 2 = 1
  <2>1. b \in Nat
    BY <1>1
  <2>2. ASSUME NEW n \in 0 .. b, n < b => b - n - 1 \notin slash PROVE n = b
    BY <1>2, <2>1, <2>2
  <2>3. \A j \in (b - b) .. (b - 1) : j \in slash
    BY <1>2, <2>1
  <2> QED BY <2>1, <2>2, <2>3 DEF EscapedBits
<1>3. ASSUME NEW b \in Bits, ~Leads(b)
      PROVE  b \in EscapedBits(slash, 0) <=> b \in EscapedBits(slash, 1)
  <2>1. b \in Nat
    BY <1>1
  <2>2. ASSUME NEW n \in 0 .. b, \A j \in (b - n) .. (b - 1) : j \in slash PROVE n # b
    BY <1>3, <2>1, <2>2
  <2> QED BY <2>1, <2>2 DEF EscapedBits
<1>4. ASSUME NEW b \in Bits, Leads(b)
      PROVE  b \in EscapedBits(slash, 0) <=> ~(b \in EscapedBits(slash, 1))
  <2>1. b \in Nat
    BY <1>1
  <2>2. b % 2 = 1 <=> ~((b + 1) % 2 = 1)
    BY <2>1
  <2>3. b \in EscapedBits(slash, 0) <=> (b + 0) % 2 = 1
    BY <1>2, <1>4
  <2>4. b \in EscapedBits(slash, 1) <=> (b + 1) % 2 = 1
    BY <1>2, <1>4
  <2> QED BY <2>1, <2>2, <2>3, <2>4
<1>5. FilterEscapedQuotes(quote, slash, 0) # FilterEscapedQuotes(quote, slash, 1)
        <=> \E b \in quote : Leads(b)
  BY <1>1, <1>3, <1>4 DEF FilterEscapedQuotes
<1> QED BY <1>5 DEF quote, slash

-----------------------------------------------------------------------------
(***************************************************************************)
(* The place of a number among those of a set.                             *)
(***************************************************************************)
\* How many members of M are below w.
Rank(M, w) == Cardinality({v \in M : v < w})

LEMMA RankFacts ==
  ASSUME NEW M \in SUBSET Int, IsFiniteSet(M)
  PROVE  /\ Cardinality(M) \in Nat
         /\ \A w \in M : Rank(M, w) \in 0 .. Cardinality(M) - 1
         /\ \A u, w \in M : Rank(M, u) = Rank(M, w) => u = w
         /\ \A k \in 0 .. Cardinality(M) - 1 : \E w \in M : Rank(M, w) = k
<1> DEFINE below(w) == {v \in M : v < w}
           size == Cardinality(M)
           rank == [w \in M |-> Cardinality(below(w))]
<1>1. size \in Nat
  BY FS_CardinalityType
<1>2. \A w \in M : IsFiniteSet(below(w)) /\ Cardinality(below(w)) \in Nat
  <2> SUFFICES ASSUME NEW w \in M PROVE IsFiniteSet(below(w)) /\ Cardinality(below(w)) \in Nat
    OBVIOUS
  <2>1. below(w) \in SUBSET M
    OBVIOUS
  <2> QED BY <2>1, FS_Subset, FS_CardinalityType
<1>3. ASSUME NEW u \in M, NEW w, below(u) \cup {u} \subseteq w, w \in SUBSET M
      PROVE  IsFiniteSet(w) /\ Cardinality(below(u)) + 1 <= Cardinality(w)
  <2>1. IsFiniteSet(w)
    BY <1>3, FS_Subset
  <2>2. u \notin below(u)
    OBVIOUS
  <2>3. Cardinality(below(u) \cup {u}) = Cardinality(below(u)) + 1
    <3> HIDE DEF below
    <3> QED BY <1>2, <2>2, FS_AddElement
  <2>4. Cardinality(below(u) \cup {u}) <= Cardinality(w)
    <3> DEFINE s == below(u) \cup {u}
    <3>1. s \in SUBSET w
      BY <1>3
    <3> HIDE DEF s
    <3>2. Cardinality(s) <= Cardinality(w)
      BY <2>1, <3>1, FS_Subset
    <3> QED BY <3>2 DEF s
  <2> QED BY <2>1, <2>3, <2>4
<1>4. \A w \in M : Cardinality(below(w)) \in 0 .. size - 1
  <2> SUFFICES ASSUME NEW w \in M PROVE Cardinality(below(w)) \in 0 .. size - 1
    OBVIOUS
  <2>1. below(w) \cup {w} \subseteq M
    OBVIOUS
  <2>2. Cardinality(below(w)) + 1 <= size
    BY <1>3, <2>1
  <2> QED BY <1>1, <1>2, <2>2
<1>5. ASSUME NEW u \in M, NEW w \in M, u < w
      PROVE  Cardinality(below(u)) # Cardinality(below(w))
  <2>0. \A v \in M : v \in Int
    OBVIOUS
  <2>1. below(w) \in SUBSET M /\ u \in below(w)
    BY <1>5
  <2>2. \A v \in M : v < u => v < w
    BY <1>5, <2>0
  <2>3. below(u) \cup {u} \subseteq below(w)
    BY <2>1, <2>2
  <2>4. Cardinality(below(u)) + 1 <= Cardinality(below(w))
    BY <1>3, <2>1, <2>3
  <2> QED BY <1>2, <2>4
<1>6. \A u, w \in M : Cardinality(below(u)) = Cardinality(below(w)) => u = w
  <2> SUFFICES ASSUME NEW u \in M, NEW w \in M, Cardinality(below(u)) = Cardinality(below(w)), u # w
               PROVE  FALSE
    OBVIOUS
  <2>1. u < w \/ w < u
    OBVIOUS
  <2> QED BY <1>5, <2>1
<1>7. \A k \in 0 .. size - 1 : \E w \in M : Cardinality(below(w)) = k
  <2>1. \A w \in M : rank[w] = Cardinality(below(w))
    OBVIOUS
  <2> HIDE DEF below, rank
  <2>2. rank \in [M -> 0 .. size - 1]
    BY <1>4 DEF rank
  <2>3. rank \in Injection(M, 0 .. size - 1)
    BY <1>6, <2>1, <2>2 DEF Injection, IsInjective
  <2>4. IsFiniteSet(0 .. size - 1) /\ Cardinality(0 .. size - 1) = size
    BY <1>1, FS_Interval
  <2>5. rank \in Surjection(M, 0 .. size - 1)
    BY <2>3, <2>4, FS_Injection
  <2>6. \A k \in 0 .. size - 1 : \E w \in M : rank[w] = k
    BY <2>5 DEF Surjection
  <2> QED BY <2>1, <2>6
<1>8. \A w : Rank(M, w) = Cardinality(below(w))
  BY DEF Rank
<1> HIDE DEF below
<1> QED BY <1>1, <1>4, <1>6, <1>7, <1>8

\* The first count of these words are those of S, each of them once.
Enumerates(words, count, S) ==
  /\ count = Cardinality(S)
  /\ \A j, k \in 0 .. count - 1 : j # k => words[j] # words[k]
  /\ \A k \in 0 .. count - 1 : words[k] \in S
  /\ \A x \in S : \E k \in 0 .. count - 1 : words[k] = x

\* Each of M is written at its rank behind the first count words, and nothing else is.
AppendsInOrder(appended, words, count, M, D) ==
  /\ 0 .. count + Cardinality(M) - 1 \subseteq D
  /\ \A k \in D : IF \E w \in M : count + Rank(M, w) = k
                  THEN appended[k] \in M /\ count + Rank(M, appended[k]) = k
                  ELSE appended[k] = words[k]

\* A queue to which the members of a set are appended in their order.
LEMMA AppendedInOrder ==
  ASSUME NEW M \in SUBSET Int, IsFiniteSet(M),
         NEW S, IsFiniteSet(S), S \cap M = {},
         NEW count, NEW D, NEW words, NEW appended,
         Enumerates(words, count, S), AppendsInOrder(appended, words, count, M, D)
  PROVE  Enumerates(appended, count + Cardinality(M), S \cup M)
<1> DEFINE size == Cardinality(M)
           rank(w) == Rank(M, w)
<1>1. /\ size \in Nat /\ count \in Nat
      /\ \A w \in M : rank(w) \in 0 .. size - 1
      /\ \A u, w \in M : rank(u) = rank(w) => u = w
      /\ \A k \in 0 .. size - 1 : \E w \in M : rank(w) = k
      /\ 0 .. count + size - 1 \subseteq D /\ count = Cardinality(S)
      /\ \A j, k \in 0 .. count - 1 : j # k => words[j] # words[k]
      /\ \A k \in 0 .. count - 1 : words[k] \in S
      /\ \A x \in S : \E k \in 0 .. count - 1 : words[k] = x
  BY RankFacts, FS_CardinalityType DEF Enumerates, AppendsInOrder
<1>2. \A k \in D : IF \E w \in M : count + rank(w) = k
                   THEN appended[k] \in M /\ count + rank(appended[k]) = k
                   ELSE appended[k] = words[k]
  BY DEF AppendsInOrder
<1>3. count + size = Cardinality(S \cup M)
  <2>1. Cardinality(S \cup M) = Cardinality(S) + Cardinality(M) - Cardinality(S \cap M)
    BY FS_Union
  <2>2. Cardinality(S \cap M) = 0
    BY FS_EmptySet
  <2> HIDE DEF size
  <2>3. size = Cardinality(M)
    BY DEF size
  <2> QED BY <1>1, <2>1, <2>2, <2>3
<1> HIDE DEF rank
<1>4. ASSUME NEW k \in 0 .. count - 1 PROVE k \in D /\ appended[k] = words[k] /\ words[k] \in S
  <2>1. k \in D
    BY <1>1
  <2>2. ~ \E w \in M : count + rank(w) = k
    BY <1>1
  <2>3. words[k] \in S
    BY <1>1
  <2> HIDE DEF size
  <2> QED BY <1>2, <2>1, <2>2, <2>3
<1>5. ASSUME NEW w \in M
      PROVE  /\ count + rank(w) \in D /\ appended[count + rank(w)] = w
             /\ count + rank(w) \in count .. count + size - 1
  <2>1. count + rank(w) \in count .. count + size - 1 /\ count + rank(w) \in D
    BY <1>1
  <2>2. \A u \in M : count + rank(u) = count + rank(w) => u = w
    <3>1. \A u \in M : rank(u) \in Nat
      BY <1>1
    <3>2. ASSUME NEW u \in M, count + rank(u) = count + rank(w) PROVE u = w
      <4>1. rank(u) = rank(w)
        BY <1>1, <3>1, <3>2
      <4> QED BY <1>1, <4>1
    <3> QED BY <3>2
  <2> QED BY <1>2, <2>1, <2>2
<1>6. ASSUME NEW k \in count .. count + size - 1
      PROVE  \E w \in M : count + rank(w) = k
  <2>1. k - count \in 0 .. size - 1
    BY <1>1
  <2>2. PICK w \in M : rank(w) = k - count
    BY <1>1, <2>1
  <2> QED BY <1>1, <2>2
<1> HIDE DEF size
<1>7. ASSUME NEW k \in 0 .. count + size - 1
      PROVE  \/ k \in 0 .. count - 1 /\ appended[k] = words[k] /\ appended[k] \in S
             \/ \E w \in M : k = count + rank(w) /\ appended[k] = w
  <2>1. CASE k \in 0 .. count - 1
    BY <1>4, <2>1
  <2>2. CASE k \in count .. count + size - 1
    <3>1. PICK w \in M : count + rank(w) = k
      BY <1>6, <2>2
    <3>2. appended[count + rank(w)] = w
      BY <1>5
    <3> QED BY <3>1, <3>2
  <2>3. k \in 0 .. count - 1 \/ k \in count .. count + size - 1
    BY <1>1
  <2> QED BY <2>1, <2>2, <2>3
<1>8. ASSUME NEW j \in 0 .. count + size - 1, NEW k \in 0 .. count + size - 1, j # k
      PROVE  appended[j] # appended[k]
  <2>1. \/ j \in 0 .. count - 1 /\ appended[j] = words[j] /\ appended[j] \in S
        \/ \E w \in M : j = count + rank(w) /\ appended[j] = w
    BY <1>7
  <2>2. \/ k \in 0 .. count - 1 /\ appended[k] = words[k] /\ appended[k] \in S
        \/ \E w \in M : k = count + rank(w) /\ appended[k] = w
    BY <1>7
  <2> QED BY <1>1, <1>8, <2>1, <2>2
<1>9. \A k \in 0 .. count + size - 1 : appended[k] \in S \cup M
  <2> SUFFICES ASSUME NEW k \in 0 .. count + size - 1 PROVE appended[k] \in S \cup M
    OBVIOUS
  <2>1. \/ k \in 0 .. count - 1 /\ appended[k] = words[k] /\ appended[k] \in S
        \/ \E w \in M : k = count + rank(w) /\ appended[k] = w
    BY <1>7
  <2> QED BY <2>1
<1>10. \A x \in S \cup M : \E k \in 0 .. count + size - 1 : appended[k] = x
  <2>1. \A x \in S : \E k \in 0 .. count - 1 : words[k] = x
    BY <1>1
  <2>2. 0 .. count - 1 \subseteq 0 .. count + size - 1 /\ count .. count + size - 1 \subseteq 0 .. count + size - 1
    BY <1>1
  <2> QED BY <1>4, <1>5, <2>1, <2>2
<1>11. \A j, k \in 0 .. count + size - 1 : j # k => appended[j] # appended[k]
  BY <1>8
<1>12. Enumerates(appended, count + size, S \cup M)
  <2>1. count \in Nat /\ size \in Nat
    BY <1>1
  <2> QED BY <1>3, <1>9, <1>10, <1>11, <2>1 DEF Enumerates
<1> QED BY <1>12 DEF size

-----------------------------------------------------------------------------
(***************************************************************************)
(* A group of consecutive words: the words of a tile, the one below a lane *)
(* at which its lookback stops, and what the last lane hands on.           *)
(***************************************************************************)
LEMMA GroupsCover ==
  ASSUME NEW width \in Nat \ {0}, NEW n \in Nat
  PROVE  /\ n * width \in Nat
         /\ \A k \in 0 .. n - 1, l \in 0 .. width - 1 : k * width + l \in 0 .. n * width - 1
         /\ \A w \in 0 .. n * width - 1 :
              \E l \in 0 .. width - 1, k \in 0 .. n - 1 : w = k * width + l
<1>1. n * width \in Nat
  OBVIOUS
<1>2. ASSUME NEW k \in 0 .. n - 1, NEW l \in 0 .. width - 1
      PROVE  k * width + l \in 0 .. n * width - 1
  <2>1. k \in Nat /\ k < n
    OBVIOUS
  <2>2. k * width + width <= n * width /\ k * width \in Nat
    BY <2>1, Multiples
  <2> QED BY <1>1, <2>2
<1>3. ASSUME NEW w \in 0 .. n * width - 1
      PROVE  \E l \in 0 .. width - 1, k \in 0 .. n - 1 : w = k * width + l
  <2> DEFINE k == w \div width
             l == w % width
  <2>1. w \in Nat /\ w < n * width
    BY <1>1
  <2>2. k \in Nat /\ l \in 0 .. width - 1 /\ w = k * width + l
    BY <2>1, Quotient
  <2> HIDE DEF k, l
  <2>3. k * width \in Nat
    BY <2>2
  <2>4. n < k => n * width + width <= k * width
    BY <2>2, Multiples
  <2>5. k < n
    BY <1>1, <2>1, <2>2, <2>3, <2>4
  <2> QED BY <2>2, <2>5
<1> QED BY <1>1, <1>2, <1>3

LEMMA EscapeReaches ==
  ASSUME NEW t, IsText(t), NEW w \in Nat
  PROVE  (IF \E k \in 0 .. Size(t) : /\ k % 2 = 1 /\ w * WordBytes \in k .. Size(t)
                                     /\ MaximalSlashRun(t, w * WordBytes, k)
          THEN 1 ELSE 0) = EscapeAt(t, w)
<1> DEFINE P == w * WordBytes
<1>1. P \in Nat /\ Size(t) \in Nat
  BY WordBytesAssumption, TextDomain
<1> HIDE DEF P
<1>2. (\E k \in 0 .. Size(t) : k % 2 = 1 /\ P \in k .. Size(t) /\ MaximalSlashRun(t, P, k))
         <=> P <= Size(t) /\ EscapedAt(t, P)
  BY <1>1 DEF EscapedAt
<1> QED BY <1>2 DEF EscapeAt, P

\* The nearest word below a lane that is not all backslashes, or else the group before,
\* says whether an escape enters the lane's word.
NearestEscape(lane, slashes, carried) ==
  LET ends == {k \in 0 .. lane - 1 : TrailingOnes(slashes[k]) # WordBytes}
  IN IF ends = {} THEN carried
     ELSE TrailingOnes(slashes[CHOOSE k \in ends : \A j \in ends : j <= k]) % 2

LEMMA NearestEscapeFinds ==
  ASSUME NEW t, IsText(t), NEW first \in Nat, NEW lane \in Nat, NEW slashes,
         \A j \in 0 .. lane - 1 : slashes[j] = SlashWord(t, first + j)
  PROVE  NearestEscape(lane, slashes, EscapeAt(t, first)) = EscapeAt(t, first + lane)
<1> DEFINE ends == {j \in 0 .. lane - 1 : TrailingOnes(slashes[j]) # WordBytes}
<1>1. \A j \in 0 .. lane - 1 : TrailingOnes(slashes[j]) = WordBytes <=> SlashWord(t, first + j) = Bits
  <2> SUFFICES ASSUME NEW j \in 0 .. lane - 1
               PROVE  TrailingOnes(SlashWord(t, first + j)) = WordBytes <=> SlashWord(t, first + j) = Bits
    OBVIOUS
  <2>1. SlashWord(t, first + j) \in SUBSET Bits
    BY DEF SlashWord, BitsWhere
  <2> QED BY <2>1, TrailingOnesType
\* from the lane or group start after which all words are backslashes
<1>2. ASSUME NEW j \in 0 .. lane, \A i \in j .. lane - 1 : i \notin ends
      PROVE  EscapeAt(t, first + j) = EscapeAt(t, first + lane)
  <2>1. ASSUME NEW v \in first + j .. first + lane - 1 PROVE SlashWord(t, v) = Bits
    <3>1. v - first \in j .. lane - 1 /\ v - first \in 0 .. lane - 1 /\ first + (v - first) = v
      OBVIOUS
    <3> QED BY <1>1, <1>2, <3>1
  <2>2. first + j \in Nat /\ first + lane \in Nat /\ first + j <= first + lane
    OBVIOUS
  <2> QED BY <2>1, <2>2, EscapeOver
<1>3. CASE ends = {}
  <2>1. EscapeAt(t, first + 0) = EscapeAt(t, first + lane)
    BY <1>2, <1>3
  <2>2. first + 0 = first
    OBVIOUS
  <2> QED BY <1>3, <2>1, <2>2 DEF NearestEscape
<1>4. CASE ends # {}
  <2>1. ends \in SUBSET (0 .. lane)
    OBVIOUS
  <2>2. \E m \in ends : \A j \in ends : j <= m
    <3> HIDE DEF ends
    <3> QED BY <1>4, <2>1, GreatestElement
  <2> DEFINE e == CHOOSE m \in ends : \A j \in ends : j <= m
  <2>3. e \in ends /\ \A j \in ends : j <= e
    <3> HIDE DEF ends
    <3> QED BY <2>2
  <2>4. NearestEscape(lane, slashes, EscapeAt(t, first)) = TrailingOnes(slashes[e]) % 2
    BY <1>4 DEF NearestEscape
  <2> HIDE DEF e
  <2>5. e \in 0 .. lane - 1 /\ e + 1 \in 0 .. lane /\ SlashWord(t, first + e) # Bits
        /\ slashes[e] = SlashWord(t, first + e)
    <3>1. e \in 0 .. lane - 1 /\ TrailingOnes(slashes[e]) # WordBytes
      BY <2>3
    <3> QED BY <1>1, <3>1
  <2>6. first + e \in Nat /\ first + e + 1 = first + (e + 1)
    BY <2>5
  <2>7. TrailingOnes(slashes[e]) % 2 = EscapeAt(t, first + (e + 1))
    BY <2>5, <2>6, EscapeLeaves
  <2>8. \A i \in (e + 1) .. lane - 1 : i \notin ends
    BY <2>3, <2>5
  <2> QED BY <1>2, <2>4, <2>5, <2>7, <2>8
<1> QED BY <1>3, <1>4

\* A word no escape can reach keeps all its quotes.
LEMMA NothingToFilter ==
  ASSUME NEW t, IsText(t), NEW w \in Nat,
         PossibleEscaped(QuoteWord(t, w), SlashWord(t, w)) = {}
  PROVE  QuoteWord(t, w) = RealQuoteWord(t, w)
<1>1. FilterEscapedQuotes(QuoteWord(t, w), SlashWord(t, w), 0) = RealQuoteWord(t, w)
  BY FilterWithoutParity
<1>2. \A b \in QuoteWord(t, w) : b - 1 \notin SlashWord(t, w) /\ (0 = 1 => b # 0)
  BY DEF PossibleEscaped
<1> QED BY <1>1, <1>2, FilterKeepsAll

\* What a word hands on if it knows, where it is all backslashes, what has entered it.
LEMMA EscapeHandedOn ==
  ASSUME NEW t, IsText(t), NEW w \in Nat, NEW incoming,
         SlashWord(t, w) = Bits => incoming = EscapeAt(t, w)
  PROVE  (IF SlashWord(t, w) = Bits THEN incoming ELSE TrailingOnes(SlashWord(t, w)) % 2)
           = EscapeAt(t, w + 1)
<1>1. CASE SlashWord(t, w) = Bits
  <2>1. \A v \in w .. (w + 1) - 1 : SlashWord(t, v) = Bits
    BY <1>1
  <2> QED BY <1>1, <2>1, EscapeOver
<1>2. CASE SlashWord(t, w) # Bits
  BY <1>2, EscapeLeaves
<1> QED BY <1>1, <1>2

-----------------------------------------------------------------------------
(***************************************************************************)
(* Segments of B bytes, and how many of them cover a bytes.                *)
(***************************************************************************)
LEMMA SegmentEnds ==
  ASSUME NEW B \in Nat \ {0}, NEW i \in Nat
  PROVE  /\ i * B \in Nat /\ (i + 1) * B \in Nat /\ (i + 1) * B = i * B + B /\ i * B <= (i + 1) * B
         /\ i # 0 => (i - 1) * B \in Nat /\ (i - 1) * B <= i * B /\ (i - 1) * B = i * B - B
         /\ \A p \in Nat : i * B <= p /\ p < (i + 1) * B <=> p \div B = i
<1>1. i * B \in Nat /\ (i + 1) * B \in Nat /\ (i + 1) * B = i * B + B
  OBVIOUS
<1>2. i # 0 => (i - 1) * B \in Nat /\ (i - 1) * B = i * B - B
  <2> SUFFICES ASSUME i # 0 PROVE (i - 1) * B \in Nat /\ (i - 1) * B = i * B - B
    OBVIOUS
  <2>1. i - 1 \in Nat /\ i = (i - 1) + 1
    OBVIOUS
  <2> DEFINE j == i - 1
  <2> HIDE DEF j
  <2>2. j \in Nat /\ i = j + 1
    BY <2>1 DEF j
  <2>3. j * B \in Nat /\ (j + 1) * B = j * B + B
    BY <2>2
  <2>4. j * B = i * B - B
    BY <2>2, <2>3
  <2> QED BY <2>3, <2>4 DEF j
<1>3. ASSUME NEW p \in Nat PROVE i * B <= p /\ p < (i + 1) * B <=> p \div B = i
  <2> DEFINE a == p \div B
             b == p % B
  <2>1. a \in Nat /\ b \in 0 .. B - 1 /\ p = a * B + b
    BY Quotient
  <2> HIDE DEF a, b
  <2>2. a < i => a * B + B <= i * B
    BY <2>1, Multiples
  <2>3. i < a => i * B + B <= a * B
    BY <2>1, Multiples
  <2>4. a * B \in Nat
    BY <2>1
  <2>5. a = i => i * B <= p /\ p < i * B + B
    BY <2>1, <2>4
  <2>6. i * B <= p /\ p < i * B + B => a = i
    BY <1>1, <2>1, <2>2, <2>3, <2>4
  <2> QED BY <1>1, <2>5, <2>6 DEF a
<1> QED BY <1>1, <1>2, <1>3

LEMMA RoundedUp ==
  ASSUME NEW a \in Nat, NEW b \in Nat \ {0}
  PROVE  /\ ((a + b - 1) \div b) \in Nat /\ ((a + b - 1) \div b) * b \in Nat /\ a <= ((a + b - 1) \div b) * b
         /\ \A i \in Nat : i < ((a + b - 1) \div b) <=> i * b < a
         /\ \A c \in Nat : a <= c * b => ((a + b - 1) \div b) <= c
<1> DEFINE q == (a + b - 1) \div b
           r == (a + b - 1) % b
<1>1. q \in Nat /\ r \in 0 .. b - 1 /\ a + b - 1 = q * b + r
  <2>1. a + b - 1 \in Nat
    OBVIOUS
  <2> QED BY <2>1, Quotient
<1> HIDE DEF q, r
<1>3. q * b \in Nat /\ a <= q * b /\ q * b < a + b
  BY <1>1
<1>4. ASSUME NEW i \in Nat PROVE i < q <=> i * b < a
  <2>1. i < q => i * b + b <= q * b
    BY <1>1, Multiples
  <2>2. q < i => q * b + b <= i * b
    BY <1>1, Multiples
  <2>3. i * b \in Nat
    OBVIOUS
  <2> QED BY <1>1, <1>3, <2>1, <2>2, <2>3
<1>5. ASSUME NEW c \in Nat, a <= c * b PROVE q <= c
  <2>1. c * b \in Nat /\ ~(c * b < a)
    BY <1>5
  <2> QED BY <1>1, <1>4, <2>1
<1>6. /\ q \in Nat /\ q * b \in Nat /\ a <= q * b
      /\ \A i \in Nat : i < q <=> i * b < a
      /\ \A c \in Nat : a <= c * b => q <= c
  BY <1>1, <1>3, <1>4, <1>5
<1> QED BY <1>6 DEF q

LEMMA MultipleRemainder ==
  ASSUME NEW c \in Nat, NEW width \in Nat \ {0}
  PROVE  (c * width) % width = 0
<1> DEFINE a == (c * width) \div width
           r == (c * width) % width
<1>1. c * width \in Nat
  OBVIOUS
<1>2. a \in Nat /\ r \in 0 .. width - 1 /\ c * width = a * width + r
  BY <1>1, Quotient
<1> HIDE DEF a, r
<1> DEFINE zero == 0
<1>3. zero \in 0 .. width - 1 /\ c * width + zero = a * width + r
  BY <1>1, <1>2
<1> HIDE DEF zero
<1>4. zero = r
  BY <1>2, <1>3, QuotientUnique
<1> QED BY <1>4 DEF r, zero

-----------------------------------------------------------------------------
(***************************************************************************)
(* The three kernels of the scan, on an array of count values of which     *)
(* each lane has a run of V: parity[i] is what is scanned.                 *)
(***************************************************************************)
LEMMA RunLengths ==
  ASSUME NEW size \in Nat \ {0}, NEW count \in Nat \ {0}, count % size = 0
  PROVE  (count + size - 1) \div size \in Nat \ {0} /\ count = ((count + size - 1) \div size) * size
<1> DEFINE a == count \div size
           V == (count + size - 1) \div size
<1>1. a \in Nat /\ count = a * size
  <2>1. a \in Nat /\ count = a * size + (count % size)
    BY Quotient
  <2> HIDE DEF a
  <2> QED BY <2>1
<1> HIDE DEF a
<1>2. V = a
  <2>1. count + size - 1 = a * size + (size - 1) /\ size - 1 \in 0 .. size - 1 /\ count + size - 1 \in Nat
    BY <1>1
  <2> DEFINE r == (count + size - 1) % size
  <2>2. V \in Nat /\ r \in 0 .. size - 1 /\ count + size - 1 = V * size + r
    BY <2>1, Quotient
  <2> HIDE DEF V, r
  <2>3. V * size + r = a * size + (size - 1)
    BY <2>1, <2>2
  <2> QED BY <1>1, <2>1, <2>2, <2>3, QuotientUnique
<1> HIDE DEF V
<1>3. V \in Nat \ {0} /\ count = V * size
  <2>1. a = 0 => a * size = 0
    OBVIOUS
  <2> QED BY <1>1, <1>2, <2>1
<1> QED BY <1>3 DEF V

LEMMA RunsOfLanes ==
  ASSUME NEW size \in Nat \ {0}, NEW count \in Nat \ {0}, NEW V \in Nat \ {0}, count = V * size
  PROVE  /\ \A i \in 0 .. count - 1 : i \div V \in 0 .. size - 1 /\ (i \div V) * V \in 0 .. i
         /\ \A l \in 0 .. size - 1 : /\ l * V \in 0 .. count - 1 /\ l * V + V - 1 \in 0 .. count - 1
                                  /\ \A i \in l * V .. l * V + V - 1 : i \in 0 .. count - 1 /\ i \div V = l
<1>3. V \in Nat \ {0} /\ count = V * size
  OBVIOUS
<1>4. ASSUME NEW l \in 0 .. size - 1
      PROVE  /\ l * V \in 0 .. count - 1 /\ l * V + V - 1 \in 0 .. count - 1
             /\ \A i \in l * V .. l * V + V - 1 : i \in 0 .. count - 1 /\ i \div V = l
  <2>1. l \in Nat /\ l < size /\ l * V \in Nat /\ (l + 1) * V = l * V + V
    BY <1>3
  <2>2. l * V + V <= size * V
    BY <1>3, <2>1, Multiples
  <2>3. size * V = count
    BY <1>3
  <2>4. l * V + V <= count
    BY <2>2, <2>3
  <2>5. \A i \in l * V .. l * V + V - 1 : i \in Nat /\ l * V <= i /\ i < (l + 1) * V
    BY <1>3, <2>1
  <2>6. \A i \in l * V .. l * V + V - 1 : i \div V = l
    BY <1>3, <2>1, <2>5, SegmentEnds
  <2> QED BY <1>3, <2>1, <2>4, <2>6
<1>5. ASSUME NEW i \in 0 .. count - 1
      PROVE  i \div V \in 0 .. size - 1 /\ (i \div V) * V \in 0 .. i
  <2> DEFINE l == i \div V
             r == i % V
  <2>1. l \in Nat /\ r \in 0 .. V - 1 /\ i = l * V + r
    <3>1. i \in Nat
      OBVIOUS
    <3> QED BY <1>3, <3>1, Quotient
  <2> HIDE DEF l, r
  <2>2. l * V \in Nat /\ l * V <= i
    BY <1>3, <2>1
  <2>3. size < l => size * V + V <= l * V
    BY <1>3, <2>1, Multiples
  <2>4. size * V = count
    BY <1>3
  <2>5. ~(size < l) /\ l # size
    BY <1>3, <2>2, <2>3, <2>4
  <2> QED BY <2>1, <2>2, <2>5 DEF l
<1> QED BY <1>3, <1>4, <1>5

\* What lane l finds in its run.
LEMMA RunScans ==
  ASSUME NEW V \in Nat \ {0}, NEW l \in Nat, NEW values, NEW parity, NEW i \in l * V .. l * V + V - 1,
         \A k \in l * V .. l * V + V - 1 : values[k] = parity[k]
  PROVE  OddCount(values, l * V, i) = OddCount(parity, l * V, i)
<1>1. l * V \in Nat /\ \A k \in l * V .. i : k \in l * V .. l * V + V - 1
  OBVIOUS
<1>2. \A k \in l * V .. i : values[k] = parity[k]
  BY <1>1
<1> QED BY <1>1, <1>2, OddCountCongruent

\* The entries of a row that are the parities of the first runs.
AreTotals(totals, parity, V, l) ==
  \A k \in 0 .. l - 1 : totals[k] = OddCount(parity, k * V, k * V + V - 1)

\* What the one thread finds in the last values of the runs.
LEMMA TotalsScan ==
  ASSUME NEW V \in Nat \ {0}, NEW l \in Nat, NEW totals, NEW parity,
         AreTotals(totals, parity, V, l)
  PROVE  OddCount(totals, 0, l - 1) = OddCount(parity, 0, l * V - 1)
<1>1. CASE l = 0
  <2>1. l - 1 \in Int /\ l * V - 1 \in Int /\ l - 1 < 0 /\ l * V - 1 < 0
    BY <1>1
  <2> QED BY <2>1, OddCountFacts
<1>2. CASE l # 0
  <2>1. \A k \in 0 .. l - 1 : totals[k] = OddCount(parity, k * V, k * V + V - 1)
    BY DEF AreTotals
  <2> DEFINE n == l - 1
  <2>2. n \in Nat /\ n * V + V - 1 = l * V - 1 /\ 0 .. n = 0 .. l - 1
    BY <1>2
  <2> HIDE DEF n
  <2>3. OddCount(totals, 0, n) = OddCount(parity, 0, n * V + V - 1)
    BY <2>1, <2>2, OddCountOfRuns
  <2> QED BY <2>2, <2>3 DEF n
<1> QED BY <1>1, <1>2

\* What adding the base of its lane makes of a value.
LEMMA RunRebased ==
  ASSUME NEW V \in Nat \ {0}, NEW l \in Nat, NEW parity, NEW i \in l * V .. l * V + V - 1
  PROVE  (OddCount(parity, l * V, i) + OddCount(parity, 0, l * V - 1)) % 2 = OddCount(parity, 0, i)
<1> DEFINE a == l * V
<1>1. a \in Nat /\ i \in Nat /\ a <= i
  OBVIOUS
<1> HIDE DEF a
<1>2. a - 1 \in Int /\ 0 <= (a - 1) + 1 /\ a - 1 <= i /\ (a - 1) + 1 = a
  BY <1>1
<1>3. OddCount(parity, 0, i) = (OddCount(parity, 0, a - 1) + OddCount(parity, (a - 1) + 1, i)) % 2
  BY <1>1, <1>2, OddCountSplit
<1>4. OddCount(parity, 0, a - 1) \in {0, 1} /\ OddCount(parity, a, i) \in {0, 1}
  BY <1>1, <1>2, OddCountFacts
<1>5. OddCount(parity, 0, i) = (OddCount(parity, a, i) + OddCount(parity, 0, a - 1)) % 2
  BY <1>2, <1>3, <1>4
<1> QED BY <1>5 DEF a

=============================================================================
