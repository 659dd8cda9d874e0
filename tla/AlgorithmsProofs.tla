-------------------------- MODULE AlgorithmsProofs --------------------------
(***************************************************************************)
(* Proofs about the algorithms of MCAlgorithms, each as a specification of *)
(* its own, for every input and geometry, and about what MCAlgorithms says *)
(* of it when it is the one that runs.                                     *)
(***************************************************************************)
EXTENDS MCAlgorithms, JsonLemmas

-----------------------------------------------------------------------------
(***************************************************************************)
(* The sequential oracles (CpuReference) compute the specified bitmaps,    *)
(* for every text.  The bitmaps alone are not inductive: what the next     *)
(* byte adds depends on the scalar state.  slash_run is the maximal run    *)
(* before the byte; escape is the parity of that run, which has to be      *)
(* carried as an existential because the toggling loop does not count.     *)
(***************************************************************************)
CountState ==
  /\ MaximalSlashRun(text, count.position, count.slash_run)
  /\ count.in_string = IncomingString(text, count.position)

ToggleState ==
  /\ \E k \in 0 .. toggle.position :
        MaximalSlashRun(text, toggle.position, k) /\ (toggle.escape <=> k % 2 = 1)
  /\ toggle.in_string = IncomingString(text, toggle.position)

OracleInv ==
  /\ TypeOK
  /\ CountState
  /\ ToggleState
  /\ CountOracleCorrect
  /\ ToggleOracleCorrect

-----------------------------------------------------------------------------
\* Extending a bitmap that is right up to byte p by the bit of byte p.
LEMMA UptoStep ==
  ASSUME NEW bitmap \in SUBSET Nat, NEW p \in Nat
  PROVE  Upto(bitmap, p + 1) = Upto(bitmap, p) \cup {q \in {p} : q \in bitmap}
<1>1. \A q \in bitmap : q < p + 1 <=> q < p \/ q = p
  OBVIOUS
<1>2. Upto(bitmap, p + 1) \subseteq Upto(bitmap, p) \cup {q \in {p} : q \in bitmap}
  BY <1>1 DEF Upto
<1>3. Upto(bitmap, p) \cup {q \in {p} : q \in bitmap} \subseteq Upto(bitmap, p + 1)
  BY <1>1 DEF Upto
<1>4. QED
  BY <1>2, <1>3

LEMMA UptoStart ==
  ASSUME NEW bitmap \in SUBSET Nat
  PROVE  Upto(bitmap, 0) = {}
<1>1. \A q \in bitmap : ~(q < 0)
  OBVIOUS
<1>2. QED
  BY <1>1 DEF Upto

\* The output bits of one byte, in terms of the state after it.
LEMMA OutputBits ==
  ASSUME IsText(text), NEW p \in DOMAIN text
  PROVE  /\ p \in Structural(text) <=> IsOperator(text[p]) /\ ~IncomingString(text, p + 1)
         /\ p \in OpenClose(text) <=> IsOpenClose(text[p]) /\ ~IncomingString(text, p + 1)
         /\ Structural(text) \in SUBSET Nat
         /\ OpenClose(text) \in SUBSET Nat
BY TextDomain DEF Structural, OpenClose, Operators, OpenCloses, InString

-----------------------------------------------------------------------------
LEMMA OracleInit == Init => OracleInv
<1> SUFFICES ASSUME Init PROVE OracleInv
  OBVIOUS
<1>1. text \in Texts /\ IsText(text)
  BY TextsAssumption DEF Init
<1>2. Size(text) \in Nat
  BY <1>1, TextDomain
<1>3. MaximalSlashRun(text, 0, 0) /\ IncomingString(text, 0) = FALSE
  BY <1>1, SlashRunStart, StringStart
<1>4. Structural(text) \in SUBSET Nat /\ OpenClose(text) \in SUBSET Nat
  BY <1>1, TextDomain DEF Structural, OpenClose, Operators, OpenCloses
<1>5. TypeOK
  BY <1>1, <1>2 DEF Init, TypeOK
<1>6. CountState /\ ToggleState
  <2>1. CountState
    BY <1>3 DEF Init, CountState
  <2>2. 0 \in 0 .. 0 /\ ~(0 % 2 = 1)
    OBVIOUS
  <2>3. toggle.position = 0 /\ toggle.escape = FALSE /\ toggle.in_string = FALSE
    BY DEF Init
  <2>4. ToggleState
    BY <1>3, <2>2, <2>3 DEF ToggleState
  <2>5. QED
    BY <2>1, <2>4
<1>7. CountOracleCorrect /\ ToggleOracleCorrect
  BY <1>4, UptoStart DEF Init, CountOracleCorrect, ToggleOracleCorrect
<1>8. QED
  BY <1>5, <1>6, <1>7 DEF OracleInv

LEMMA CountByteStep ==
  ASSUME OracleInv, CountByte
  PROVE  OracleInv'
<1> DEFINE p == count.position
           is_quote == text[p] = "quote" /\ count.slash_run % 2 = 0
           in_string == count.in_string # is_quote
<1>1. text \in Texts /\ IsText(text) /\ p \in DOMAIN text /\ p \in Nat
  BY TextsAssumption DEF OracleInv, TypeOK, CountByte
<1>2. /\ Size(text) \in Nat /\ DOMAIN text = 0 .. Size(text) - 1
      /\ text[p] \in ByteClass
  BY <1>1, TextDomain
<1>3. /\ text' = text /\ toggle' = toggle
      /\ count' = [position   |-> p + 1,
                   slash_run  |-> IF text[p] = "slash" THEN count.slash_run + 1 ELSE 0,
                   in_string  |-> in_string,
                   structural |-> count.structural \cup
                                  {q \in {p} : ~in_string /\ IsOperator(text[p])},
                   open_close |-> count.open_close \cup
                                  {q \in {p} : ~in_string /\ IsOpenClose(text[p])}]
  BY DEF CountByte, NextPosition, NextSlashRun
<1>4. is_quote <=> p \in RealQuotes(text)
  <2>1. EscapedAt(text, p) <=> count.slash_run % 2 = 1
    BY <1>1, EscapedByRun DEF OracleInv, CountState
  <2>2. count.slash_run \in Nat
    BY DEF OracleInv, TypeOK
  <2>3. QED
    BY <1>1, <2>1, <2>2 DEF RealQuotes
<1>5. in_string = IncomingString(text, p + 1)
  <2>1. IncomingString(text, p + 1) <=> (IncomingString(text, p) # (p \in RealQuotes(text)))
    BY <1>1, StringStep
  <2>2. count.in_string = IncomingString(text, p)
    BY DEF OracleInv, CountState
  <2>3. IncomingString(text, p + 1) \in BOOLEAN /\ in_string \in BOOLEAN
    BY DEF IncomingString
  <2>4. QED
    BY <2>1, <2>2, <2>3, <1>4
<1>6. TypeOK'
  <2>1. p + 1 \in Nat /\ p + 1 <= Size(text)
    BY <1>1, <1>2
  <2>2. in_string \in BOOLEAN
    OBVIOUS
  <2>3. QED
    BY <1>1, <1>3, <2>1, <2>2 DEF OracleInv, TypeOK
<1>7. CountState'
  <2>1. MaximalSlashRun(text, p + 1, IF text[p] = "slash" THEN count.slash_run + 1 ELSE 0)
    BY <1>1, SlashRunStep DEF OracleInv, CountState
  <2>2. QED
    BY <2>1, <1>3, <1>5 DEF CountState
<1>8. ToggleState' /\ ToggleOracleCorrect'
  BY <1>3 DEF OracleInv, ToggleState, ToggleOracleCorrect
<1>9. CountOracleCorrect'
  <2>1. /\ p \in Structural(text) <=> ~in_string /\ IsOperator(text[p])
        /\ p \in OpenClose(text) <=> ~in_string /\ IsOpenClose(text[p])
        /\ Structural(text) \in SUBSET Nat /\ OpenClose(text) \in SUBSET Nat
    BY <1>1, <1>5, OutputBits
  <2>2. /\ Upto(Structural(text), p + 1) =
             Upto(Structural(text), p) \cup {q \in {p} : q \in Structural(text)}
        /\ Upto(OpenClose(text), p + 1) =
             Upto(OpenClose(text), p) \cup {q \in {p} : q \in OpenClose(text)}
    BY <1>1, <2>1, UptoStep
  <2>3. /\ count.structural = Upto(Structural(text), p)
        /\ count.open_close = Upto(OpenClose(text), p)
    BY DEF OracleInv, CountOracleCorrect
  <2>4. /\ count'.structural = Upto(Structural(text), p + 1)
        /\ count'.open_close = Upto(OpenClose(text), p + 1)
    BY <1>3, <2>1, <2>2, <2>3
  <2>5. QED
    BY <1>3, <2>4 DEF CountOracleCorrect
<1>10. QED
  BY <1>6, <1>7, <1>8, <1>9 DEF OracleInv

LEMMA ToggleByteStep ==
  ASSUME OracleInv, ToggleByte
  PROVE  OracleInv'
<1> DEFINE p == toggle.position
           in_string == toggle.in_string # (text[p] = "quote" /\ ~toggle.escape)
<1>1. text \in Texts /\ IsText(text) /\ p \in DOMAIN text /\ p \in Nat
  BY TextsAssumption DEF OracleInv, TypeOK, ToggleByte
<1>2. /\ Size(text) \in Nat /\ DOMAIN text = 0 .. Size(text) - 1
      /\ text[p] \in ByteClass
  BY <1>1, TextDomain
<1>3. /\ text' = text /\ count' = count
      /\ toggle' = [position   |-> p + 1,
                    escape     |-> text[p] = "slash" /\ ~toggle.escape,
                    in_string  |-> in_string,
                    structural |-> toggle.structural \cup
                                   {q \in {p} : ~in_string /\ IsOperator(text[p])}]
  BY DEF ToggleByte, NextPosition, NextEscape
<1>4. PICK k \in 0 .. p :
        MaximalSlashRun(text, p, k) /\ (toggle.escape <=> k % 2 = 1)
  BY DEF OracleInv, ToggleState
<1>5. toggle.escape <=> EscapedAt(text, p)
  BY <1>1, <1>4, EscapedByRun
<1>6. in_string = IncomingString(text, p + 1)
  <2>1. IncomingString(text, p + 1) <=> (IncomingString(text, p) # (p \in RealQuotes(text)))
    BY <1>1, StringStep
  <2>2. toggle.in_string = IncomingString(text, p)
    BY DEF OracleInv, ToggleState
  <2>3. (text[p] = "quote" /\ ~toggle.escape) <=> p \in RealQuotes(text)
    BY <1>1, <1>5 DEF RealQuotes
  <2>4. IncomingString(text, p + 1) \in BOOLEAN /\ in_string \in BOOLEAN
    BY DEF IncomingString
  <2>5. QED
    BY <2>1, <2>2, <2>3, <2>4
<1>7. TypeOK'
  <2>1. p + 1 \in Nat /\ p + 1 <= Size(text)
    BY <1>1, <1>2
  <2>2. in_string \in BOOLEAN /\ (text[p] = "slash" /\ ~toggle.escape) \in BOOLEAN
    OBVIOUS
  <2>3. QED
    BY <1>1, <1>3, <2>1, <2>2 DEF OracleInv, TypeOK
<1>8. ToggleState'
  <2>1. DEFINE j == IF text[p] = "slash" THEN k + 1 ELSE 0
  <2>2. MaximalSlashRun(text, p + 1, j) /\ j \in 0 .. p + 1
    BY <1>1, <1>4, SlashRunStep
  <2>3. (text[p] = "slash" /\ ~toggle.escape) <=> j % 2 = 1
    BY <1>1, <1>4
  <2>4. QED
    BY <2>2, <2>3, <1>3, <1>6 DEF ToggleState
<1>9. CountState' /\ CountOracleCorrect'
  BY <1>3 DEF OracleInv, CountState, CountOracleCorrect
<1>10. ToggleOracleCorrect'
  <2>1. /\ p \in Structural(text) <=> ~in_string /\ IsOperator(text[p])
        /\ Structural(text) \in SUBSET Nat
    BY <1>1, <1>6, OutputBits
  <2>2. Upto(Structural(text), p + 1) =
          Upto(Structural(text), p) \cup {q \in {p} : q \in Structural(text)}
    BY <1>1, <2>1, UptoStep
  <2>3. toggle.structural = Upto(Structural(text), p)
    BY DEF OracleInv, ToggleOracleCorrect
  <2>4. toggle'.structural = Upto(Structural(text), p + 1)
    BY <1>3, <2>1, <2>2, <2>3
  <2>5. QED
    BY <1>3, <2>4 DEF ToggleOracleCorrect
<1>11. QED
  BY <1>7, <1>8, <1>9, <1>10 DEF OracleInv

LEMMA OracleStep == OracleInv /\ [Next]_vars => OracleInv'
<1> SUFFICES ASSUME OracleInv, [Next]_vars PROVE OracleInv'
  OBVIOUS
<1>1. CASE ToggleByte
  BY <1>1, ToggleByteStep
<1>2. CASE CountByte
  BY <1>2, CountByteStep
<1>3. CASE UNCHANGED vars
  BY <1>3 DEF vars, OracleInv, TypeOK, CountState, ToggleState, CountOracleCorrect,
              ToggleOracleCorrect
<1>4. QED
  BY <1>1, <1>2, <1>3 DEF Next

\* The oracles run or stay at the start of an empty text.
LEMMA OraclesRun == AlgorithmsSpec => []OracleInv
<1>1. AlgorithmsInit => Init
  BY DEF AlgorithmsInit, IdleOracle
<1>2. [AlgorithmsNext]_allVars => [Next]_vars
  BY DEF AlgorithmsNext, allVars, OfOracle, vars
<1> QED BY <1>1, <1>2, OracleInit, OracleStep, PTL DEF AlgorithmsSpec

\* makeCpuReference and gpCpuStructuralBitmap compute the specified structural
\* and open-close bitmaps, byte by byte, whatever the text.
THEOREM CountOracleIsCorrect == AlgorithmsSpec => []CountOracleCorrect
<1>1. OracleInv => CountOracleCorrect
  BY DEF OracleInv
<1> QED BY <1>1, OraclesRun, PTL

\* gp4CpuStructuralBitmap computes the same structural bitmap with a one-bit
\* escape flag instead of a run length.
THEOREM ToggleOracleIsCorrect == AlgorithmsSpec => []ToggleOracleCorrect
<1>1. OracleInv => ToggleOracleCorrect
  BY DEF OracleInv
<1> QED BY <1>1, OraclesRun, PTL

-----------------------------------------------------------------------------
(***************************************************************************)
(* GPJSON's prefix XOR (XorScanPasses), for any number of scan threads and *)
(* of parities.  The invariant gives the value of every entry at every     *)
(* moment: which threads have passed their runs decides it.                *)
(***************************************************************************)
Count == Scan!Count

RunLength == Scan!ValuesPerThread(Count)

LaneOf(i) == i \div RunLength

ScanTyped ==
  /\ Count \in Nat \ {0} /\ Count % ScanThreads = 0
  /\ parities \in [0 .. Count - 1 -> {0, 1}]
  /\ values \in [0 .. Count - 1 -> {0, 1}]
  /\ bases \in [Scan!ScanLanes -> {0, 1}]
  /\ kernel \in {"prescan", "rebase"} /\ pending \subseteq Scan!ScanLanes

ScannedValue(i) ==
  IF kernel = "prescan" /\ LaneOf(i) \in pending THEN parities[i]
  ELSE IF kernel = "prescan" \/ LaneOf(i) \in pending
       THEN OddCount(parities, LaneOf(i) * RunLength, i)
       ELSE OddCount(parities, 0, i)

ScanInv ==
  /\ ScanTyped
  /\ \A i \in 0 .. Count - 1 : values[i] = ScannedValue(i)
  /\ kernel = "rebase" =>
       \A l \in Scan!ScanLanes : bases[l] = OddCount(parities, 0, l * RunLength - 1)

LEMMA ScanXorOver ==
  \A array, i, j : Scan!XorOver(array, i, j) = OddCount(array, i, j)
<1>1. \A S : Scan!Cardinality(S) = Cardinality(S)
  BY DEF Scan!Cardinality, Cardinality
<1> QED BY <1>1 DEF Scan!XorOver, OddCount

LEMMA ScanCountIs == Count = Cardinality(DOMAIN parities)
BY DEF Count, Scan!Count, Scan!Cardinality, Cardinality

LEMMA ScanLanesFacts ==
  ASSUME ScanTyped
  PROVE  /\ ScanThreads \in Nat \ {0} /\ Scan!ScanLanes = 0 .. ScanThreads - 1
         /\ RunLength \in Nat \ {0}
         /\ \A i \in 0 .. Count - 1 :
              /\ LaneOf(i) \in Scan!ScanLanes
              /\ i \in LaneOf(i) * RunLength .. LaneOf(i) * RunLength + RunLength - 1
         /\ \A l \in Scan!ScanLanes :
              /\ l \in Nat /\ l * RunLength \in 0 .. Count - 1
              /\ l * RunLength + RunLength - 1 \in 0 .. Count - 1
              /\ \A i \in l * RunLength .. l * RunLength + RunLength - 1 :
                   i \in 0 .. Count - 1 /\ LaneOf(i) = l
<1>1. ScanThreads \in Nat \ {0} /\ Scan!ScanLanes = 0 .. ScanThreads - 1
  BY ScanAssumed DEF Scan!ScanThreadsAssumption, Scan!ScanLanes
<1>2. RunLength = (Count + ScanThreads - 1) \div ScanThreads
  BY DEF RunLength, Scan!ValuesPerThread
<1>3. Count \in Nat \ {0} /\ Count % ScanThreads = 0
  BY DEF ScanTyped
<1> HIDE DEF Count, RunLength
<1>4. RunLength \in Nat \ {0} /\ Count = RunLength * ScanThreads
  BY <1>1, <1>2, <1>3, RunLengths
<1>5. /\ \A i \in 0 .. Count - 1 : i \div RunLength \in 0 .. ScanThreads - 1
      /\ \A l \in 0 .. ScanThreads - 1 :
           /\ l * RunLength \in 0 .. Count - 1 /\ l * RunLength + RunLength - 1 \in 0 .. Count - 1
           /\ \A i \in l * RunLength .. l * RunLength + RunLength - 1 :
                i \in 0 .. Count - 1 /\ i \div RunLength = l
  BY <1>1, <1>3, <1>4, RunsOfLanes
<1>6. ASSUME NEW i \in 0 .. Count - 1
      PROVE  i \in LaneOf(i) * RunLength .. LaneOf(i) * RunLength + RunLength - 1
  <2> DEFINE l == i \div RunLength
             r == i % RunLength
  <2>1. l \in Nat /\ r \in 0 .. RunLength - 1 /\ i = l * RunLength + r
    BY <1>4, Quotient
  <2> HIDE DEF l, r
  <2>2. l * RunLength \in Nat
    BY <1>4, <2>1
  <2>3. i \in l * RunLength .. l * RunLength + RunLength - 1
    BY <1>4, <2>1, <2>2
  <2> QED BY <2>3 DEF l, LaneOf
<1>7. \A l \in Scan!ScanLanes : l \in Nat
  BY <1>1
<1> QED BY <1>1, <1>4, <1>5, <1>6, <1>7 DEF LaneOf

LEMMA ScanInit == Scan!Init => ScanInv
<1> SUFFICES ASSUME Scan!Init PROVE ScanInv
  OBVIOUS
<1>1. ScanThreads \in Nat \ {0} /\ MaxItems \in Nat \ {0}
  BY ScanAssumed DEF Scan!ScanThreadsAssumption, Scan!MaxItemsAssumption
<1>2. PICK items \in 1 .. MaxItems :
        parities \in [0 .. Scan!PaddedScanCount(items) - 1 -> {0, 1}]
  BY DEF Scan!Init
<1> DEFINE c == (items + ScanThreads - 1) \div ScanThreads
           n == c * ScanThreads
<1>3. c \in Nat /\ n \in Nat /\ items <= n /\ n % ScanThreads = 0
  <2>1. items \in Nat
    BY <1>1
  <2>2. c \in Nat /\ c * ScanThreads \in Nat /\ items <= c * ScanThreads
    BY <1>1, <2>1, RoundedUp
  <2> HIDE DEF c
  <2> QED BY <1>1, <2>2, MultipleRemainder
<1>4. parities \in [0 .. n - 1 -> {0, 1}]
  BY <1>2 DEF Scan!PaddedScanCount
<1> HIDE DEF n
<1>5. Count = n /\ n \in Nat \ {0}
  <2>1. DOMAIN parities = 0 .. n - 1
    BY <1>4
  <2>2. Cardinality(0 .. n - 1) = n
    BY <1>3, FS_Interval
  <2> QED BY <1>1, <1>3, <2>1, <2>2, ScanCountIs
<1>6. values = parities /\ kernel = "prescan" /\ pending = Scan!ScanLanes
      /\ bases \in [Scan!ScanLanes -> {0, 1}]
  BY DEF Scan!Init
<1>7. ScanTyped
  BY <1>3, <1>4, <1>5, <1>6 DEF ScanTyped
<1>8. \A i \in 0 .. Count - 1 : LaneOf(i) \in pending
  BY <1>6, <1>7, ScanLanesFacts
<1> QED BY <1>6, <1>7, <1>8 DEF ScanInv, ScannedValue

\* What a step that leaves the parities alone leaves alone with them.
LEMMA ScanSame ==
  ASSUME parities' = parities
  PROVE  Count' = Count /\ RunLength' = RunLength /\ \A i : LaneOf(i)' = LaneOf(i)
<1>1. Count' = Count
  BY DEF Count, Scan!Count, Scan!Cardinality
<1>2. RunLength' = RunLength
  BY <1>1 DEF RunLength, Scan!ValuesPerThread
<1> QED BY <1>1, <1>2 DEF LaneOf

\* gp4OriginalXorPreScanKernel: a thread takes the prefixes of its own run.
LEMMA ScanPre ==
  ASSUME ScanInv, NEW t \in Scan!ScanLanes, Scan!Pre(t)
  PROVE  ScanInv'
<1>1. /\ kernel = "prescan" /\ t \in pending /\ pending' = pending \ {t}
      /\ kernel' = kernel /\ parities' = parities /\ bases' = bases
      /\ values' = [i \in DOMAIN values |->
                      IF i \in Scan!Run(t, Count) THEN OddCount(values, t * RunLength, i) ELSE values[i]]
  BY ScanXorOver DEF Scan!Pre, Scan!PreScan, RunLength, Count
<1>2. ScanTyped
  BY DEF ScanInv
<1>3. Count' = Count /\ RunLength' = RunLength /\ \A i : LaneOf(i)' = LaneOf(i)
  BY <1>1, ScanSame
<1>4. \A i : i \in Scan!Run(t, Count) <=> i \in 0 .. Count - 1 /\ LaneOf(i) = t
  BY DEF Scan!Run, LaneOf, RunLength
<1>5. ASSUME NEW i \in 0 .. Count - 1, LaneOf(i) = t
      PROVE  OddCount(values, t * RunLength, i) = OddCount(parities, t * RunLength, i)
  <2>1. RunLength \in Nat \ {0} /\ t \in Nat /\ i \in t * RunLength .. t * RunLength + RunLength - 1
    BY <1>2, <1>5, ScanLanesFacts
  <2>2. \A k \in t * RunLength .. t * RunLength + RunLength - 1 : values[k] = parities[k]
    BY <1>1, <1>2, ScanLanesFacts DEF ScanInv, ScannedValue
  <2> QED BY <2>1, <2>2, RunScans
<1>6. \A i \in 0 .. Count - 1 :
        values'[i] = IF LaneOf(i) = t THEN OddCount(parities, t * RunLength, i) ELSE values[i]
  BY <1>1, <1>2, <1>4, <1>5 DEF ScanTyped
<1>7. \A i \in 0 .. Count - 1 : values'[i] = ScannedValue(i)'
  BY <1>1, <1>3, <1>6 DEF ScanInv, ScannedValue, OddCount
<1>8. \A i \in 0 .. Count - 1 : OddCount(parities, t * RunLength, i) \in {0, 1}
  <2>1. t * RunLength \in Int
    BY <1>2, ScanLanesFacts
  <2> QED BY <2>1, OddCountFacts
<1>9. values' \in [0 .. Count - 1 -> {0, 1}]
  <2>1. values' = [i \in 0 .. Count - 1 |-> values'[i]]
    BY <1>1, <1>2 DEF ScanTyped
  <2> QED BY <1>2, <1>6, <1>8, <2>1 DEF ScanTyped
<1>10. ScanTyped'
  BY <1>1, <1>2, <1>3, <1>9 DEF ScanTyped, Scan!ScanLanes
<1> QED BY <1>1, <1>3, <1>7, <1>10 DEF ScanInv

\* gp4OriginalXorPostScanKernel: one thread scans the last values of the runs.
LEMMA ScanPost ==
  ASSUME ScanInv, Scan!Post
  PROVE  ScanInv'
<1>1. /\ kernel = "prescan" /\ pending = {} /\ kernel' = "rebase" /\ pending' = Scan!ScanLanes
      /\ parities' = parities /\ values' = values
      /\ bases' = [t \in Scan!ScanLanes |-> OddCount(Scan!RunTotals(Count), 0, t - 1)]
  BY ScanXorOver DEF Scan!Post, Scan!PostScan, Count
<1>2. ScanTyped
  BY DEF ScanInv
<1>3. Count' = Count /\ RunLength' = RunLength /\ \A i : LaneOf(i)' = LaneOf(i)
  BY <1>1, ScanSame
<1>4. \A i \in 0 .. Count - 1 : values[i] = OddCount(parities, LaneOf(i) * RunLength, i)
  BY <1>1 DEF ScanInv, ScannedValue
<1>5. ASSUME NEW l \in Scan!ScanLanes
      PROVE  /\ bases'[l] = OddCount(parities, 0, l * RunLength - 1)
             /\ bases'[l] \in {0, 1}
  <2> DEFINE totals == Scan!RunTotals(Count)
             V == RunLength
  <2>1. V \in Nat \ {0} /\ l \in Nat /\ l <= ScanThreads - 1 /\ ScanThreads \in Nat
    BY <1>2, ScanLanesFacts
  <2>2. ASSUME NEW k \in 0 .. l - 1 PROVE totals[k] = OddCount(parities, k * V, k * V + V - 1)
    <3>1. k \in 0 .. ScanThreads - 2 /\ k \in Nat
      BY <2>1
    <3>2. totals[k] = values[V * (k + 1) - 1]
      BY <3>1 DEF Scan!RunTotals, RunLength
    <3>3. V * (k + 1) - 1 = k * V + V - 1
      <4> HIDE DEF V
      <4> QED BY <2>1, <3>1
    <3>4. k \in Scan!ScanLanes
      BY <1>2, <3>1, <2>1, ScanLanesFacts
    <3>5. k * V + V - 1 \in 0 .. Count - 1 /\ LaneOf(k * V + V - 1) = k
      <4>1. /\ k * V \in Int /\ k * V + V - 1 \in 0 .. Count - 1
            /\ \A i \in k * V .. k * V + V - 1 : LaneOf(i) = k
        BY <1>2, <3>4, ScanLanesFacts
      <4> HIDE DEF V
      <4>2. k * V + V - 1 \in k * V .. k * V + V - 1
        BY <2>1, <3>1
      <4> QED BY <4>1, <4>2
    <3> HIDE DEF V
    <3>6. values[k * V + V - 1] = OddCount(parities, k * V, k * V + V - 1)
      BY <1>4, <3>5 DEF V
    <3> QED BY <3>2, <3>3, <3>6
  <2>3. bases'[l] = OddCount(totals, 0, l - 1)
    BY <1>1
  <2> HIDE DEF totals, V
  <2>4. OddCount(totals, 0, l - 1) = OddCount(parities, 0, l * V - 1)
    <3>1. V \in Nat \ {0} /\ l \in Nat
      BY <2>1
    <3>2. AreTotals(totals, parities, V, l)
      BY <2>2 DEF AreTotals
    <3> QED BY <3>1, <3>2, TotalsScan
  <2>5. OddCount(parities, 0, l * V - 1) \in {0, 1}
    <3>1. l * V - 1 \in Int
      BY <2>1
    <3> QED BY <3>1, OddCountFacts
  <2> QED BY <2>3, <2>4, <2>5 DEF V
<1>6. bases' \in [Scan!ScanLanes -> {0, 1}]
  BY <1>1, <1>5
<1>7. ScanTyped'
  BY <1>1, <1>2, <1>3, <1>6 DEF ScanTyped, Scan!ScanLanes
<1>8. \A i \in 0 .. Count - 1 : values'[i] = ScannedValue(i)'
  <2>1. \A i \in 0 .. Count - 1 : LaneOf(i)' \in pending'
    BY <1>1, <1>2, <1>3, ScanLanesFacts
  <2> QED BY <1>1, <1>3, <1>4, <2>1 DEF ScannedValue, OddCount
<1>9. \A l \in Scan!ScanLanes : bases'[l] = OddCount(parities, 0, l * RunLength - 1)'
  BY <1>1, <1>3, <1>5 DEF OddCount
<1> QED BY <1>3, <1>7, <1>8, <1>9 DEF ScanInv, Scan!ScanLanes

\* gp4OriginalXorRebaseKernel: a thread adds its base to its run.
LEMMA ScanRebase ==
  ASSUME ScanInv, NEW t \in Scan!ScanLanes, Scan!Re(t)
  PROVE  ScanInv'
<1>1. /\ kernel = "rebase" /\ t \in pending /\ pending' = pending \ {t}
      /\ kernel' = kernel /\ parities' = parities /\ bases' = bases
      /\ values' = [i \in DOMAIN values |->
                      IF i \in Scan!Run(t, Count) THEN (values[i] + bases[t]) % 2 ELSE values[i]]
  BY DEF Scan!Re, Scan!Rebase, Scan!Xor, Count
<1>2. ScanTyped
  BY DEF ScanInv
<1>3. Count' = Count /\ RunLength' = RunLength /\ \A i : LaneOf(i)' = LaneOf(i)
  BY <1>1, ScanSame
<1>4. \A i : i \in Scan!Run(t, Count) <=> i \in 0 .. Count - 1 /\ LaneOf(i) = t
  BY DEF Scan!Run, LaneOf, RunLength
<1>5. ASSUME NEW i \in 0 .. Count - 1, LaneOf(i) = t
      PROVE  (values[i] + bases[t]) % 2 = OddCount(parities, 0, i)
  <2>1. RunLength \in Nat \ {0} /\ t \in Nat /\ i \in t * RunLength .. t * RunLength + RunLength - 1
    BY <1>2, <1>5, ScanLanesFacts
  <2>2. values[i] = OddCount(parities, t * RunLength, i)
    BY <1>1, <1>5 DEF ScanInv, ScannedValue
  <2>3. bases[t] = OddCount(parities, 0, t * RunLength - 1)
    BY <1>1 DEF ScanInv
  <2> DEFINE V == RunLength
  <2>4. V \in Nat \ {0} /\ t \in Nat /\ i \in t * V .. t * V + V - 1
    BY <2>1
  <2> HIDE DEF V
  <2>5. (OddCount(parities, t * V, i) + OddCount(parities, 0, t * V - 1)) % 2
          = OddCount(parities, 0, i)
    BY <2>4, RunRebased
  <2> QED BY <2>2, <2>3, <2>5 DEF V
<1>6. \A i \in 0 .. Count - 1 :
        values'[i] = IF LaneOf(i) = t THEN OddCount(parities, 0, i) ELSE values[i]
  BY <1>1, <1>2, <1>4, <1>5 DEF ScanTyped
<1>7. \A i \in 0 .. Count - 1 : values'[i] = ScannedValue(i)'
  BY <1>1, <1>3, <1>6 DEF ScanInv, ScannedValue, OddCount
<1>8. \A i \in 0 .. Count - 1 : OddCount(parities, 0, i) \in {0, 1}
  BY OddCountFacts
<1>9. values' \in [0 .. Count - 1 -> {0, 1}]
  <2>1. values' = [i \in 0 .. Count - 1 |-> values'[i]]
    BY <1>1, <1>2 DEF ScanTyped
  <2> QED BY <1>2, <1>6, <1>8, <2>1 DEF ScanTyped
<1>10. ScanTyped'
  BY <1>1, <1>2, <1>3, <1>9 DEF ScanTyped, Scan!ScanLanes
<1>11. \A l \in Scan!ScanLanes : bases'[l] = OddCount(parities, 0, l * RunLength - 1)'
  BY <1>1, <1>3 DEF ScanInv, OddCount
<1> QED BY <1>1, <1>3, <1>7, <1>10, <1>11 DEF ScanInv, Scan!ScanLanes

LEMMA ScanStep == ScanInv /\ [Scan!Next]_(Scan!vars) => ScanInv'
<1> SUFFICES ASSUME ScanInv, [Scan!Next]_(Scan!vars) PROVE ScanInv'
  OBVIOUS
<1>1. CASE Scan!Post
  BY <1>1, ScanPost
<1>2. ASSUME NEW t \in Scan!ScanLanes, Scan!Pre(t) PROVE ScanInv'
  BY <1>2, ScanPre
<1>3. ASSUME NEW t \in Scan!ScanLanes, Scan!Re(t) PROVE ScanInv'
  BY <1>3, ScanRebase
<1>4. CASE UNCHANGED Scan!vars
  <2>1. UNCHANGED <<values, bases, parities, kernel, pending>>
    BY <1>4 DEF Scan!vars
  <2>2. Count' = Count /\ RunLength' = RunLength /\ \A i : LaneOf(i)' = LaneOf(i)
    BY <2>1, ScanSame
  <2>3. ScanTyped'
    BY <2>1, <2>2 DEF ScanInv, ScanTyped, Scan!ScanLanes
  <2>4. \A i : ScannedValue(i)' = ScannedValue(i)
    BY <2>1, <2>2 DEF ScannedValue, OddCount
  <2>5. \A i \in 0 .. Count - 1 : values'[i] = ScannedValue(i)'
    BY <2>1, <2>4 DEF ScanInv
  <2>6. \A l \in Scan!ScanLanes : bases'[l] = OddCount(parities, 0, l * RunLength - 1)' \/ kernel # "rebase"
    BY <2>1, <2>2 DEF ScanInv, OddCount
  <2> QED BY <2>1, <2>2, <2>3, <2>5, <2>6 DEF ScanInv, Scan!ScanLanes
<1> QED BY <1>1, <1>2, <1>3, <1>4 DEF Scan!Next

LEMMA ScanHolds ==
  ScanInv => Scan!TypeOK /\ Scan!RunEndsExist /\ Scan!PartialScan /\ Scan!ScanIsPrefixXor
<1> SUFFICES ASSUME ScanInv
             PROVE  Scan!TypeOK /\ Scan!RunEndsExist /\ Scan!PartialScan /\ Scan!ScanIsPrefixXor
  OBVIOUS
<1>1. ScanTyped
  BY DEF ScanInv
<1>2. Scan!TypeOK
  BY <1>1 DEF ScanTyped, Scan!TypeOK, Count
<1>3. Scan!RunEndsExist
  <2> SUFFICES ASSUME NEW k \in 0 .. ScanThreads - 2
               PROVE  RunLength * (k + 1) - 1 \in DOMAIN values
    BY DEF Scan!RunEndsExist, RunLength, Count
  <2>1. /\ k \in Scan!ScanLanes /\ k \in Nat /\ RunLength \in Nat
        /\ k * RunLength + RunLength - 1 \in 0 .. Count - 1
    <3>1. k \in Scan!ScanLanes
      BY <1>1, ScanLanesFacts
    <3> QED BY <1>1, <3>1, ScanLanesFacts
  <2>2. RunLength * (k + 1) - 1 = k * RunLength + RunLength - 1
    <3> HIDE DEF RunLength
    <3> QED BY <2>1
  <2> QED BY <1>1, <2>1, <2>2 DEF ScanTyped
<1>4. DOMAIN values = 0 .. Count - 1
  BY <1>1 DEF ScanTyped
<1>5. Scan!PartialScan
  BY <1>4, ScanXorOver DEF Scan!PartialScan, ScanInv, ScannedValue, LaneOf, RunLength, Count
<1>6. Scan!ScanIsPrefixXor
  BY <1>4, ScanXorOver DEF Scan!ScanIsPrefixXor, Scan!Done, ScanInv, ScannedValue
<1> QED BY <1>2, <1>3, <1>5, <1>6

\* The inductive invariant, while the scan is the algorithm that runs.
ScanRuns == algorithm = "scan" => ScanInv

\* The three kernels of GPJSON's scan leave the inclusive prefix XOR of any parities, for
\* any number of threads and in any order of them, and read no run end that does not exist.
THEOREM ScanComputesPrefixXor == AlgorithmsSpec => []ScanIsPrefixXor
<1>1. AlgorithmsInit => ScanRuns
  BY ScanInit DEF AlgorithmsInit, ScanRuns
<1>2. ScanRuns /\ [AlgorithmsNext]_allVars => ScanRuns'
  <2> SUFFICES ASSUME ScanRuns, [AlgorithmsNext]_allVars, algorithm' = "scan" PROVE ScanInv'
    BY DEF ScanRuns
  <2>1. algorithm = "scan"
    BY DEF AlgorithmsNext, allVars
  <2>2. [Scan!Next]_(Scan!vars)
    BY <2>1 DEF AlgorithmsNext, allVars, OfScan, Scan!vars
  <2> QED BY <2>1, <2>2, ScanStep DEF ScanRuns
<1>3. ScanRuns => ScanIsPrefixXor
  BY ScanHolds DEF ScanRuns, ScanIsPrefixXor
<1> QED BY <1>1, <1>2, <1>3, PTL DEF AlgorithmsSpec

-----------------------------------------------------------------------------
(***************************************************************************)
(* The staged baselines (ChunkPipelines), for every text, chunk size and   *)
(* association of the scan.  What a chunk's summary means is what it does  *)
(* to the state in which the sequential reference enters the chunk.        *)
(***************************************************************************)
Length == Chunk!Size(bytes)

\* The states of the sequential reference.
Reached == Chunk!StatesOf(format, bytes)

\* What a summary makes of the state that enters.
Acts(p, s) ==
  IF format = "xml" THEN p[s] ELSE IF format = "csv" THEN (s + p) % 2 ELSE (s + p) % 4

Masked(class) == IF class \in Chunk!MaskedClasses THEN class ELSE "other"

Summarized(c) ==
  \/ kernel \in {"scan", "apply", "done"}
  \/ kernel = "summarize" /\ c \notin pending

ChunkText ==
  /\ Length \in Nat \ {0}
  /\ bytes \in [0 .. Length - 1 -> Chunk!ByteClasses]
  /\ format \in Chunk!Formats

ChunkInv ==
  /\ ChunkText
  /\ Chunk!TypeOK
  /\ kernel # "classify" => masks = [i \in 0 .. Length - 1 |-> Masked(bytes[i])]
  /\ \A c \in Chunk!Chunks :
       Summarized(c) => /\ Acts(summary[c], Reached[Chunk!Begin(c)]) = Reached[Chunk!End(c)]
                        /\ newline_count[c] = Chunk!Newlines(c)
  /\ Chunk!PrefixIsState
  /\ Chunk!AppliedChunksCorrect

\* Induction over an interval, for a set.
LEMMA OverInterval ==
  ASSUME NEW lo \in Int, NEW hi \in Int, NEW A, lo \in A,
         \A i \in lo .. hi - 1 : i \in A => i + 1 \in A
  PROVE  \A i \in lo .. hi : i \in A
<1> DEFINE Bad == {k \in Nat : lo + k <= hi /\ lo + k \notin A}
<1>1. SUFFICES ASSUME Bad # {} PROVE FALSE
  <2> SUFFICES ASSUME NEW i \in lo .. hi, i \notin A PROVE Bad # {}
    OBVIOUS
  <2>1. i - lo \in Nat /\ lo + (i - lo) = i
    OBVIOUS
  <2>2. i - lo \in Bad
    BY <2>1
  <2> QED BY <2>2
<1>2. PICK k \in Bad : \A j \in Bad : k <= j
  BY <1>1, LeastElement
<1>3. k # 0
  OBVIOUS
<1>4. k - 1 \in Nat /\ ~(k <= k - 1) /\ lo + (k - 1) \in lo .. hi - 1 /\ (lo + (k - 1)) + 1 = lo + k
  BY <1>3
<1>5. lo + (k - 1) \in A
  BY <1>2, <1>4
<1> QED BY <1>4, <1>5

\* How many elements of a set lie in an interval that ends before i.
Below(S, lo, i) == Cardinality({k \in lo .. i - 1 : k \in S})

LEMMA BelowNext ==
  ASSUME NEW S, NEW lo \in Int, NEW i \in Int, lo <= i
  PROVE  /\ Below(S, lo, i) \in Nat /\ Below(S, lo, i) <= i - lo
         /\ Below(S, lo, i + 1) = Below(S, lo, i) + IF i \in S THEN 1 ELSE 0
<1> DEFINE A == {k \in lo .. i - 1 : k \in S}
           B == {k \in lo .. i + 1 - 1 : k \in S}
<1>2. A \in SUBSET (lo .. i - 1) /\ i \notin A /\ B = IF i \in S THEN A \cup {i} ELSE A
  OBVIOUS
<1> HIDE DEF A, B
<1>3. IsFiniteSet(A) /\ Cardinality(A) \in Nat
  <2>1. i - 1 \in Int
    OBVIOUS
  <2> QED BY <1>2, <2>1, FiniteRange
<1>4. Cardinality(A) <= i - lo
  <2>1. IsFiniteSet(lo .. i - 1) /\ Cardinality(lo .. i - 1) = i - lo
    <3> DEFINE j == i - 1
    <3>1. j \in Int /\ (IF lo > j THEN 0 ELSE j - lo + 1) = i - lo
      OBVIOUS
    <3> HIDE DEF j
    <3>2. IsFiniteSet(lo .. j) /\ Cardinality(lo .. j) = IF lo > j THEN 0 ELSE j - lo + 1
      BY <3>1, FS_Interval
    <3> QED BY <3>1, <3>2 DEF j
  <2> QED BY <1>2, <2>1, FS_Subset
<1>5. Cardinality(B) = Cardinality(A) + IF i \in S THEN 1 ELSE 0
  BY <1>2, <1>3, FS_AddElement
<1> QED BY <1>3, <1>4, <1>5 DEF A, B, Below

LEMMA BelowFacts ==
  ASSUME NEW S, NEW lo \in Int
  PROVE  /\ Below(S, lo, lo) = 0
         /\ \A i \in Int : lo <= i =>
              /\ Below(S, lo, i) \in Nat /\ Below(S, lo, i) <= i - lo
              /\ Below(S, lo, i + 1) = Below(S, lo, i) + IF i \in S THEN 1 ELSE 0
<1>1. Below(S, lo, lo) = 0
  <2>1. {k \in lo .. lo - 1 : k \in S} = {}
    OBVIOUS
  <2> QED BY <2>1, FS_EmptySet DEF Below
<1> QED BY <1>1, BelowNext

LEMMA ChunkCardinality == \A S : Chunk!Cardinality(S) = Cardinality(S)
BY DEF Chunk!Cardinality, Cardinality

-----------------------------------------------------------------------------
\* The automata, class by class.
LEMMA StepType ==
  ASSUME NEW f \in Chunk!Formats, NEW s \in Chunk!States(f), NEW class
  PROVE  Chunk!Step(f, s, class) \in Chunk!States(f)
<1>1. CASE f = "csv"
  BY <1>1 DEF Chunk!Step, Chunk!States
<1>2. CASE f = "fastq"
  BY <1>2 DEF Chunk!Step, Chunk!States
<1>3. CASE f = "xml"
  <2>1. s \in 0 .. 3
    BY <1>3 DEF Chunk!States
  <2>2. CASE s = 0
    BY <1>3, <2>2 DEF Chunk!Step, Chunk!States, Chunk!XmlStep
  <2>3. CASE s = 1
    BY <1>3, <2>3 DEF Chunk!Step, Chunk!States, Chunk!XmlStep
  <2>4. CASE s = 2
    BY <1>3, <2>4 DEF Chunk!Step, Chunk!States, Chunk!XmlStep
  <2>5. CASE s = 3
    BY <1>3, <2>5 DEF Chunk!Step, Chunk!States, Chunk!XmlStep
  <2> QED BY <2>1, <2>2, <2>3, <2>4, <2>5
<1> QED BY <1>1, <1>2, <1>3 DEF Chunk!Formats

\* A kernel that reads the mask bytes takes the step, and emits what, the reference does.
LEMMA MaskSuffices ==
  ASSUME format \in Chunk!Formats, NEW s \in Chunk!States(format), NEW class
  PROVE  /\ Chunk!Step(format, s, Masked(class)) = Chunk!Step(format, s, class)
         /\ Chunk!Emits(format, s, Masked(class)) <=> Chunk!Emits(format, s, class)
<1>1. CASE format = "csv"
  BY <1>1 DEF Chunk!Step, Chunk!Emits, Masked, Chunk!MaskedClasses
<1>2. CASE format = "fastq"
  BY <1>2 DEF Chunk!Step, Chunk!Emits, Masked, Chunk!MaskedClasses
<1>3. CASE format = "xml"
  <2>1. s \in 0 .. 3
    BY <1>3 DEF Chunk!States
  <2>2. Masked(class) = IF class \in {"lt", "gt", "slash", "eq", "dquote", "squote"} THEN class ELSE "other"
    BY <1>3 DEF Masked, Chunk!MaskedClasses
  <2>3. /\ Chunk!Step(format, s, class) = Chunk!XmlStep(s, class)
        /\ Chunk!Step(format, s, Masked(class)) = Chunk!XmlStep(s, Masked(class))
        /\ Chunk!Emits(format, s, class) = Chunk!XmlEmits(s, class)
        /\ Chunk!Emits(format, s, Masked(class)) = Chunk!XmlEmits(s, Masked(class))
    BY <1>3 DEF Chunk!Step, Chunk!Emits
  <2> HIDE DEF Masked
  <2>4. CASE s = 0
    BY <2>2, <2>3, <2>4 DEF Chunk!XmlStep, Chunk!XmlEmits
  <2>5. CASE s = 1
    BY <2>2, <2>3, <2>5 DEF Chunk!XmlStep, Chunk!XmlEmits
  <2>6. CASE s = 2
    BY <2>2, <2>3, <2>6 DEF Chunk!XmlStep, Chunk!XmlEmits
  <2>7. CASE s = 3
    BY <2>2, <2>3, <2>7 DEF Chunk!XmlStep, Chunk!XmlEmits
  <2> QED BY <2>1, <2>4, <2>5, <2>6, <2>7
<1> QED BY <1>1, <1>2, <1>3 DEF Chunk!Formats

-----------------------------------------------------------------------------
\* The states over an interval: tlapm knows a recursive function only once one exists.
AreStates(g, f, classes, lo, hi, a) ==
  g = [i \in lo .. hi |-> IF i = lo THEN a ELSE Chunk!Step(f, g[i - 1], classes[i - 1])]

LEMMA StatesExist ==
  ASSUME NEW f, NEW classes, NEW lo \in Int, NEW hi \in Int, lo <= hi, NEW a
  PROVE  \E g : AreStates(g, f, classes, lo, hi, a)
<1> DEFINE Good(k, g) == g = [i \in lo .. lo + k |-> IF i = lo THEN a ELSE Chunk!Step(f, g[i - 1], classes[i - 1])]
           Bad == {k \in Nat : k <= hi - lo /\ ~ \E g : Good(k, g)}
<1>1. SUFFICES ASSUME Bad # {} PROVE FALSE
  <2>1. hi - lo \in Nat /\ lo + (hi - lo) = hi /\ hi - lo <= hi - lo
    OBVIOUS
  <2>2. \E g : Good(hi - lo, g)
    <3> HIDE DEF Good
    <3> QED BY <2>1
  <2> QED BY <2>1, <2>2 DEF AreStates
<1>2. PICK k \in Bad : \A j \in Bad : k <= j
  BY <1>1, LeastElement
<1>3. CASE k = 0
  <2> DEFINE g == [i \in lo .. lo |-> a]
  <2>1. Good(0, g)
    OBVIOUS
  <2> QED BY <1>3, <2>1
<1>4. CASE k # 0
  <2>1. k - 1 \in Nat /\ k \in Nat /\ k - 1 <= hi - lo /\ ~(k <= k - 1)
    BY <1>4
  <2>2. PICK h : Good(k - 1, h)
    BY <1>2, <2>1
  <2> DEFINE g == [i \in lo .. lo + k |-> IF i = lo + k THEN Chunk!Step(f, h[i - 1], classes[i - 1]) ELSE h[i]]
  <2>3. \A i \in lo .. lo + k - 1 : g[i] = h[i]
    BY <2>1
  <2>4. \A i \in lo .. lo + k : g[i] = IF i = lo THEN a ELSE Chunk!Step(f, g[i - 1], classes[i - 1])
    <3> TAKE i \in lo .. lo + k
    <3>1. CASE i = lo
      BY <2>1, <2>2, <2>3, <3>1
    <3>2. CASE i # lo
      <4>1. i - 1 \in lo .. lo + k - 1 /\ i \in Int
        BY <2>1, <3>2
      <4>2. g[i - 1] = h[i - 1]
        BY <2>3, <4>1
      <4>3. g[i] = Chunk!Step(f, h[i - 1], classes[i - 1])
        <5>1. CASE i = lo + k
          BY <5>1
        <5>2. CASE i # lo + k
          <6>1. i \in lo .. lo + (k - 1)
            BY <2>1, <5>2
          <6>2. g[i] = h[i]
            BY <5>2
          <6> HIDE DEF g
          <6> QED BY <2>2, <6>1, <6>2, <3>2
        <5> QED BY <5>1, <5>2
      <4> HIDE DEF g
      <4> QED BY <4>2, <4>3, <3>2
    <3> QED BY <3>1, <3>2
  <2>5. Good(k, g)
    <3>1. g = [i \in lo .. lo + k |-> g[i]]
      OBVIOUS
    <3> HIDE DEF g
    <3> QED BY <2>4, <3>1
  <2> QED BY <2>5
<1> QED BY <1>3, <1>4

Follows(g, f, classes, lo, hi, a) ==
  /\ g[lo] = a
  /\ \A i \in lo .. hi - 1 : g[i + 1] = Chunk!Step(f, g[i], classes[i])
  /\ \A i \in lo .. hi : g[i] \in Chunk!States(f)

LEMMA AreStatesFacts ==
  ASSUME NEW lo \in Int, NEW hi \in Int, lo <= hi, NEW f \in Chunk!Formats, NEW classes,
         NEW a \in Chunk!States(f), NEW g, AreStates(g, f, classes, lo, hi, a)
  PROVE  Follows(g, f, classes, lo, hi, a)
<1>1. g[lo] = a
  BY DEF AreStates
<1>2. ASSUME NEW i \in lo .. hi - 1 PROVE g[i + 1] = Chunk!Step(f, g[i], classes[i])
  <2>1. i + 1 \in lo .. hi /\ i + 1 # lo /\ (i + 1) - 1 = i
    OBVIOUS
  <2> QED BY <2>1 DEF AreStates
<1> DEFINE A == {i \in Int : g[i] \in Chunk!States(f)}
<1>3. lo \in A /\ \A i \in lo .. hi - 1 : i \in A => i + 1 \in A
  BY <1>1, <1>2, StepType
<1>4. \A i \in lo .. hi : i \in A
  <2> HIDE DEF A
  <2> QED BY <1>3, OverInterval
<1> QED BY <1>1, <1>2, <1>4 DEF Follows

LEMMA StatesOfFacts ==
  ASSUME NEW f \in Chunk!Formats, NEW t, NEW n \in Nat, n = Chunk!Size(t)
  PROVE  AreStates(Chunk!StatesOf(f, t), f, t, 0, n, 0)
<1>0. 0 \in Int /\ n \in Int /\ 0 <= n
  OBVIOUS
<1>1. \E g : AreStates(g, f, t, 0, n, 0)
  BY <1>0, StatesExist
<1> QED BY <1>1 DEF AreStates, Chunk!StatesOf

LEMMA ReachedFacts ==
  ASSUME ChunkText
  PROVE  /\ Reached[0] = 0
         /\ \A i \in 0 .. Length - 1 : Reached[i + 1] = Chunk!Step(format, Reached[i], bytes[i])
         /\ \A i \in 0 .. Length : Reached[i] \in Chunk!States(format)
<1> DEFINE n == Length
<1>1. n \in Nat /\ n = Chunk!Size(bytes) /\ format \in Chunk!Formats
  BY DEF ChunkText, Length
<1>2. 0 \in Chunk!States(format)
  BY DEF Chunk!States
<1> HIDE DEF n
<1>3. AreStates(Reached, format, bytes, 0, n, 0)
  BY <1>1, StatesOfFacts DEF Reached
<1>4. 0 \in Int /\ n \in Int /\ 0 <= n
  BY <1>1
<1>5. Follows(Reached, format, bytes, 0, n, 0)
  BY <1>1, <1>2, <1>3, <1>4, AreStatesFacts
<1> QED BY <1>5 DEF n, Follows

LEMMA StatesFromFacts ==
  ASSUME NEW c, NEW s, NEW lo \in Int, NEW hi \in Int, lo <= hi,
         lo = Chunk!Begin(c), hi = Chunk!End(c)
  PROVE  AreStates(Chunk!StatesFrom(c, s), format, masks, lo, hi, s)
<1>1. \E g : AreStates(g, format, masks, lo, hi, s)
  BY StatesExist
<1> QED BY <1>1 DEF AreStates, Chunk!StatesFrom

-----------------------------------------------------------------------------
\* Where the chunks lie.
LEMMA ChunksTile ==
  ASSUME ChunkText
  PROVE  /\ DOMAIN bytes = 0 .. Length - 1
         /\ \E m \in Nat \ {0} : Chunk!Chunks = 0 .. m - 1
         /\ Chunk!Begin(0) = 0
         /\ \A c \in Chunk!Chunks :
              /\ c \in Nat /\ Chunk!Begin(c) \in Nat /\ Chunk!End(c) \in Nat
              /\ Chunk!Begin(c) < Chunk!End(c) /\ Chunk!End(c) <= Length
              /\ Chunk!End(c) - Chunk!Begin(c) <= ChunkBytes
              /\ c + 1 \in Chunk!Chunks => Chunk!End(c) = Chunk!Begin(c + 1)
              /\ Chunk!ChunkOf(c) = {i \in 0 .. Length - 1 : c * ChunkBytes <= i /\ i < c * ChunkBytes + ChunkBytes}
<1>1. Length \in Nat \ {0} /\ ChunkBytes \in Nat \ {0}
  BY ChunksAssumed DEF ChunkText, Chunk!ChunkAssumption
<1>2. DOMAIN bytes = 0 .. Length - 1
  BY DEF ChunkText
<1> DEFINE m == (Length + ChunkBytes - 1) \div ChunkBytes
<1>3. Chunk!Chunks = 0 .. m - 1
  BY DEF Chunk!Chunks, Chunk!CeilDiv, Length
<1>4. m \in Nat /\ \A i \in Nat : i < m <=> i * ChunkBytes < Length
  BY <1>1, RoundedUp
<1> HIDE DEF m
<1>5. m # 0
  <2>1. 0 * ChunkBytes < Length
    BY <1>1
  <2> QED BY <1>4, <2>1
<1>6. Chunk!Begin(0) = 0
  BY <1>1 DEF Chunk!Begin
<1>7. ASSUME NEW c \in Chunk!Chunks
      PROVE  /\ c \in Nat /\ Chunk!Begin(c) \in Nat /\ Chunk!End(c) \in Nat
             /\ Chunk!Begin(c) < Chunk!End(c) /\ Chunk!End(c) <= Length
             /\ Chunk!End(c) - Chunk!Begin(c) <= ChunkBytes
             /\ c + 1 \in Chunk!Chunks => Chunk!End(c) = Chunk!Begin(c + 1)
             /\ Chunk!ChunkOf(c) = {i \in 0 .. Length - 1 : c * ChunkBytes <= i /\ i < c * ChunkBytes + ChunkBytes}
  <2> DEFINE b == c * ChunkBytes
             e == IF b + ChunkBytes < Length THEN b + ChunkBytes ELSE Length
  <2>1. c \in Nat /\ c < m
    BY <1>3, <1>4
  <2>2. b \in Nat /\ (c + 1) * ChunkBytes = b + ChunkBytes /\ b < Length
    BY <1>1, <1>4, <2>1
  <2>3. Chunk!Begin(c) = b /\ Chunk!End(c) = e /\ Chunk!Begin(c + 1) = b + ChunkBytes
    BY <2>2 DEF Chunk!Begin, Chunk!End, Length
  <2>4. c + 1 \in Chunk!Chunks => b + ChunkBytes < Length
    BY <1>3, <1>4, <2>1, <2>2
  <2>5. Chunk!ChunkOf(c) = b .. e - 1
    BY <2>3 DEF Chunk!ChunkOf
  <2> HIDE DEF b
  <2>6. b .. e - 1 = {i \in 0 .. Length - 1 : b <= i /\ i < b + ChunkBytes}
    BY <1>1, <2>2
  <2> QED BY <1>1, <2>1, <2>2, <2>3, <2>4, <2>5, <2>6 DEF b
<1> QED BY <1>2, <1>3, <1>4, <1>5, <1>6, <1>7

LEMMA ChunksDisjoint ==
  ASSUME ChunkText, NEW c \in Chunk!Chunks, NEW d \in Chunk!Chunks,
         NEW i \in Chunk!ChunkOf(c), i \in Chunk!ChunkOf(d)
  PROVE  c = d
<1>1. /\ c \in Nat /\ d \in Nat /\ i \in Nat /\ ChunkBytes \in Nat
      /\ c * ChunkBytes <= i /\ i < c * ChunkBytes + ChunkBytes
      /\ d * ChunkBytes <= i /\ i < d * ChunkBytes + ChunkBytes
  BY ChunksTile, ChunksAssumed DEF Chunk!ChunkAssumption
<1>2. c * ChunkBytes \in Nat /\ d * ChunkBytes \in Nat
  BY <1>1
<1>3. ~(c < d) /\ ~(d < c)
  BY <1>1, <1>2, Multiples
<1> QED BY <1>1, <1>3

\* A chunk has its output words whole, but for what lies behind the text.
LEMMA WordsWhole ==
  ASSUME ChunkText, NEW c \in Chunk!Chunks, NEW w \in Chunk!WordsOf(c)
  PROVE  /\ w \in Chunk!Words
         /\ w * OutputWordBytes \in Chunk!ChunkOf(c)
         /\ \A b \in 0 .. OutputWordBytes - 1 :
              w * OutputWordBytes + b \in 0 .. Length - 1 => w * OutputWordBytes + b \in Chunk!ChunkOf(c)
<1>1. /\ Length \in Nat \ {0} /\ ChunkBytes \in Nat \ {0} /\ OutputWordBytes \in Nat \ {0}
      /\ ChunkBytes % OutputWordBytes = 0
  BY ChunksAssumed DEF ChunkText, Chunk!ChunkAssumption
<1>2. PICK i \in Chunk!ChunkOf(c) : w = i \div OutputWordBytes
  BY DEF Chunk!WordsOf
<1>3. /\ c \in Nat /\ i \in 0 .. Length - 1 /\ c * ChunkBytes <= i /\ i < c * ChunkBytes + ChunkBytes
      /\ Chunk!ChunkOf(c) = {k \in 0 .. Length - 1 : c * ChunkBytes <= k /\ k < c * ChunkBytes + ChunkBytes}
  BY ChunksTile
<1> DEFINE q == ChunkBytes \div OutputWordBytes
<1>4. q \in Nat /\ ChunkBytes = q * OutputWordBytes
  BY <1>1, Quotient
<1> HIDE DEF q
<1> DEFINE o == OutputWordBytes
           x == c * q
<1>5. x \in Nat /\ c * ChunkBytes = x * o /\ c * ChunkBytes + ChunkBytes = (x + q) * o
  BY <1>1, <1>3, <1>4
<1>6. w \in Nat /\ w * o \in Nat /\ w * o <= i /\ i < w * o + o
  <2> DEFINE r == i % o
  <2>1. i \in Nat /\ o \in Nat \ {0}
    BY <1>1, <1>3
  <2>2. w \in Nat /\ r \in 0 .. o - 1 /\ i = w * o + r
    BY <1>2, <2>1, Quotient
  <2> HIDE DEF r, o
  <2>3. w * o \in Nat
    BY <2>1, <2>2
  <2> QED BY <2>1, <2>2, <2>3
<1>7. o \in Nat \ {0} /\ x * o \in Nat /\ (x + q) * o \in Nat /\ x + q \in Nat
  BY <1>1, <1>4, <1>5
<1> HIDE DEF x, o
<1>8. x <= w
  <2> SUFFICES ASSUME w < x PROVE FALSE
    BY <1>5, <1>6
  <2>1. w * o + o <= x * o
    BY <1>5, <1>6, <1>7, Multiples
  <2> QED BY <1>3, <1>5, <1>6, <1>7, <2>1
<1>9. w < x + q
  <2> SUFFICES ASSUME x + q <= w PROVE FALSE
    BY <1>6, <1>7
  <2>1. (x + q) * o <= w * o
    <3>1. CASE x + q = w
      BY <3>1, <1>6
    <3>2. CASE x + q < w
      BY <3>2, <1>6, <1>7, Multiples
    <3> QED BY <2>1, <3>1, <3>2, <1>6, <1>7
  <2> QED BY <1>3, <1>5, <1>6, <1>7, <2>1
<1>10. x * o <= w * o /\ w * o + o <= (x + q) * o
  <2>1. x * o <= w * o
    <3>1. CASE x = w
      BY <3>1, <1>6
    <3>2. CASE x < w
      BY <3>2, <1>5, <1>6, <1>7, Multiples
    <3> QED BY <3>1, <3>2, <1>5, <1>6, <1>8
  <2>2. w * o + o <= (x + q) * o
    BY <1>6, <1>7, <1>9, Multiples
  <2> QED BY <2>1, <2>2
<1>11. w * o < Length
  BY <1>1, <1>3, <1>6
<1>12. w \in Chunk!Words
  <2>1. w < (Length + o - 1) \div o /\ (Length + o - 1) \div o \in Nat
    BY <1>1, <1>6, <1>7, <1>11, RoundedUp
  <2>2. Chunk!Words = 0 .. ((Length + o - 1) \div o) - 1
    BY DEF Chunk!Words, Chunk!CeilDiv, Length, o
  <2> QED BY <1>6, <2>1, <2>2
<1>13. ASSUME NEW b \in 0 .. o - 1, w * o + b \in 0 .. Length - 1 PROVE w * o + b \in Chunk!ChunkOf(c)
  BY <1>3, <1>5, <1>6, <1>7, <1>10, <1>13
<1>14. w * o \in Chunk!ChunkOf(c)
  BY <1>1, <1>3, <1>5, <1>6, <1>7, <1>10, <1>11
<1> QED BY <1>12, <1>13, <1>14 DEF o

\* What a step that leaves the text alone leaves alone with it.
LEMMA ChunkSame ==
  ASSUME bytes' = bytes
  PROVE  /\ Length' = Length /\ Chunk!Chunks' = Chunk!Chunks /\ Chunk!Words' = Chunk!Words
         /\ \A c : /\ Chunk!Begin(c)' = Chunk!Begin(c) /\ Chunk!End(c)' = Chunk!End(c)
                   /\ Chunk!ChunkOf(c)' = Chunk!ChunkOf(c) /\ Chunk!WordsOf(c)' = Chunk!WordsOf(c)
<1>1. Length' = Length /\ Chunk!Chunks' = Chunk!Chunks /\ Chunk!Words' = Chunk!Words
  BY DEF Length, Chunk!Chunks, Chunk!Words, Chunk!CeilDiv, Chunk!Size, Chunk!Cardinality
<1>2. \A c : Chunk!Begin(c)' = Chunk!Begin(c) /\ Chunk!End(c)' = Chunk!End(c)
  BY DEF Chunk!Begin, Chunk!End, Chunk!Size, Chunk!Cardinality
<1>3. \A c : Chunk!ChunkOf(c)' = Chunk!ChunkOf(c)
  BY <1>2 DEF Chunk!ChunkOf
<1>4. \A c : Chunk!WordsOf(c)' = Chunk!WordsOf(c)
  BY <1>3 DEF Chunk!WordsOf
<1> QED BY <1>1, <1>2, <1>3, <1>4

-----------------------------------------------------------------------------
\* From the state in which the reference enters, a chunk's thread goes through the states
\* of the reference.
LEMMA EnteredChunk ==
  ASSUME ChunkText, masks = [i \in 0 .. Length - 1 |-> Masked(bytes[i])],
         NEW c \in Chunk!Chunks
  PROVE  /\ \A i \in Chunk!Begin(c) .. Chunk!End(c) :
              Chunk!StatesFrom(c, Reached[Chunk!Begin(c)])[i] = Reached[i]
         /\ Chunk!EmitsFrom(c, Reached[Chunk!Begin(c)]) = Chunk!Emitted(format, bytes) \cap Chunk!ChunkOf(c)
<1> DEFINE lo == Chunk!Begin(c)
           hi == Chunk!End(c)
           s == Reached[lo]
           g == Chunk!StatesFrom(c, s)
<1>1. /\ lo \in Nat /\ hi \in Nat /\ lo < hi /\ hi <= Length /\ Length \in Nat
      /\ format \in Chunk!Formats /\ DOMAIN bytes = 0 .. Length - 1
  BY ChunksTile DEF ChunkText
<1>2. Chunk!ChunkOf(c) = lo .. hi - 1
  BY DEF Chunk!ChunkOf
<1>3. /\ \A i \in 0 .. Length - 1 : Reached[i + 1] = Chunk!Step(format, Reached[i], bytes[i])
      /\ \A i \in 0 .. Length : Reached[i] \in Chunk!States(format)
  BY ReachedFacts
<1>4. AreStates(g, format, masks, lo, hi, s)
  <2>1. lo \in Int /\ hi \in Int /\ lo <= hi
    BY <1>1
  <2> QED BY <2>1, StatesFromFacts
<1> HIDE DEF lo, hi, g
<1>5. Follows(g, format, masks, lo, hi, s)
  <2>1. lo \in Int /\ hi \in Int /\ lo <= hi /\ s \in Chunk!States(format)
    BY <1>1, <1>3
  <2> HIDE DEF s
  <2> QED BY <1>1, <1>4, <2>1, AreStatesFacts
<1> DEFINE A == {i \in Int : g[i] = Reached[i]}
<1>6. lo \in A
  BY <1>1, <1>5 DEF Follows
<1>7. ASSUME NEW i \in lo .. hi - 1, i \in A PROVE i + 1 \in A
  <2>1. i \in 0 .. Length - 1 /\ i + 1 \in Int
    BY <1>1
  <2>2. g[i + 1] = Chunk!Step(format, Reached[i], Masked(bytes[i]))
    BY <1>5, <1>7, <2>1 DEF Follows
  <2>3. Chunk!Step(format, Reached[i], Masked(bytes[i])) = Chunk!Step(format, Reached[i], bytes[i])
    BY <1>1, <1>3, <2>1, MaskSuffices
  <2> QED BY <1>3, <2>1, <2>2, <2>3
<1>8. \A i \in lo .. hi : g[i] = Reached[i]
  <2>1. lo \in Int /\ hi \in Int
    BY <1>1
  <2>2. \A i \in lo .. hi : i \in A
    <3> HIDE DEF A
    <3> QED BY <1>6, <1>7, <2>1, OverInterval
  <2> QED BY <2>2
<1>9. Chunk!EmitsFrom(c, s) = Chunk!Emitted(format, bytes) \cap Chunk!ChunkOf(c)
  <2>1. Chunk!EmitsFrom(c, s) = {i \in lo .. hi - 1 : Chunk!Emits(format, g[i], masks[i])}
    BY <1>2 DEF Chunk!EmitsFrom, g
  <2>2. Chunk!Emitted(format, bytes) = {i \in 0 .. Length - 1 : Chunk!Emits(format, Reached[i], bytes[i])}
    BY <1>1 DEF Chunk!Emitted, Reached
  <2>3. ASSUME NEW i \in lo .. hi - 1
        PROVE  /\ i \in 0 .. Length - 1
               /\ Chunk!Emits(format, g[i], masks[i]) <=> Chunk!Emits(format, Reached[i], bytes[i])
    <3>1. i \in 0 .. Length - 1 /\ i \in lo .. hi
      BY <1>1
    <3>2. g[i] = Reached[i] /\ masks[i] = Masked(bytes[i])
      BY <1>8, <3>1
    <3> QED BY <1>1, <1>3, <3>1, <3>2, MaskSuffices
  <2> QED BY <1>2, <2>1, <2>2, <2>3
<1> QED BY <1>8, <1>9 DEF lo, hi, g

\* CSV and FASTQ: a state is the one that entered, moved by what was counted since.
LEMMA CountedState ==
  ASSUME ChunkText, NEW class, NEW width \in Nat \ {0},
         \/ format = "csv" /\ class = "dquote" /\ width = 2
         \/ format = "fastq" /\ class = "newline" /\ width = 4,
         NEW lo \in Nat, NEW hi \in Nat, hi <= Length
  PROVE  \A i \in lo .. hi :
           Reached[i] = (Reached[lo] + Below({k \in 0 .. Length - 1 : bytes[k] = class}, lo, i)) % width
<1> DEFINE S == {k \in 0 .. Length - 1 : bytes[k] = class}
           A == {i \in Int : lo <= i /\ Reached[i] = (Reached[lo] + Below(S, lo, i)) % width}
<1>1. CASE hi < lo
  BY <1>1
<1>2. CASE lo <= hi
  <2>1. /\ \A i \in 0 .. Length - 1 : Reached[i + 1] = Chunk!Step(format, Reached[i], bytes[i])
        /\ \A i \in 0 .. Length : Reached[i] \in Chunk!States(format)
        /\ Length \in Nat
    BY ReachedFacts DEF ChunkText
  <2>2. \A i \in 0 .. Length : Reached[i] \in 0 .. width - 1
    BY <2>1 DEF Chunk!States
  <2>3. lo \in A
    <3>1. Reached[lo] \in 0 .. width - 1
      BY <1>2, <2>1, <2>2
    <3>2. Below(S, lo, lo) = 0
      <4> HIDE DEF S
      <4>1. lo \in Int
        OBVIOUS
      <4> QED BY <4>1, BelowFacts
    <3>3. Reached[lo] % width = Reached[lo]
      BY <3>1
    <3> QED BY <3>1, <3>2, <3>3
  <2>4. ASSUME NEW i \in lo .. hi - 1, i \in A PROVE i + 1 \in A
    <3>1. i \in 0 .. Length - 1 /\ i \in Int /\ lo <= i
      BY <2>1
    <3>2. /\ Below(S, lo, i) \in Nat
          /\ Below(S, lo, i + 1) = Below(S, lo, i) + IF i \in S THEN 1 ELSE 0
      <4>1. lo \in Int
        OBVIOUS
      <4> HIDE DEF S
      <4> QED BY <3>1, <4>1, BelowNext
    <3>3. Reached[i + 1] = Chunk!Step(format, Reached[i], bytes[i])
      BY <2>1, <3>1
    <3>4. i \in S <=> bytes[i] = class
      BY <3>1
    <3>5. Reached[lo] \in 0 .. width - 1 /\ Reached[i] \in 0 .. width - 1
      BY <1>2, <2>1, <2>2, <3>1
    <3> DEFINE x == Below(S, lo, i)
               y == Below(S, lo, i + 1)
               a == Reached[lo]
    <3>6. Reached[i] = (a + x) % width
      BY <2>4
    <3>7. y = x + IF bytes[i] = class THEN 1 ELSE 0
      BY <3>2, <3>4
    <3>8. x \in Nat /\ a \in Nat
      BY <3>2, <3>5
    <3> HIDE DEF x, y, a, S
    <3>9. Reached[i + 1] = (a + y) % width
      <4>1. CASE format = "csv"
        <5>1. width = 2 /\ class = "dquote" /\ Reached[i + 1] = IF bytes[i] = "dquote" THEN 1 - Reached[i] ELSE Reached[i]
          BY <3>3, <4>1 DEF Chunk!Step
        <5> QED BY <5>1, <3>6, <3>7, <3>8
      <4>2. CASE format = "fastq"
        <5>1. width = 4 /\ class = "newline" /\ Reached[i + 1] = IF bytes[i] = "newline" THEN (Reached[i] + 1) % 4 ELSE Reached[i]
          BY <3>3, <4>2 DEF Chunk!Step
        <5> QED BY <5>1, <3>6, <3>7, <3>8
      <4> QED BY <4>1, <4>2
    <3> QED BY <3>1, <3>9 DEF y, a
  <2>5. \A i \in lo .. hi : i \in A
    <3>1. lo \in Int /\ hi \in Int
      OBVIOUS
    <3> HIDE DEF A
    <3> QED BY <2>3, <2>4, <3>1, OverInterval
  <2> QED BY <2>5
<1> QED BY <1>1, <1>2

LEMMA SummaryMeans ==
  ASSUME ChunkText, masks = [i \in 0 .. Length - 1 |-> Masked(bytes[i])],
         NEW c \in Chunk!Chunks
  PROVE  /\ Chunk!SummaryOf(c) \in Chunk!Summaries
         /\ Acts(Chunk!SummaryOf(c), Reached[Chunk!Begin(c)]) = Reached[Chunk!End(c)]
         /\ Chunk!Newlines(c) \in 0 .. ChunkBytes
         /\ format = "fastq" =>
              Chunk!Newlines(c) = Below({k \in 0 .. Length - 1 : bytes[k] = "newline"},
                                        Chunk!Begin(c), Chunk!End(c))
<1> DEFINE lo == Chunk!Begin(c)
           hi == Chunk!End(c)
           Found(class) == {k \in 0 .. Length - 1 : bytes[k] = class}
<1>1. /\ lo \in Nat /\ hi \in Nat /\ lo < hi /\ hi <= Length /\ Length \in Nat /\ hi - lo <= ChunkBytes
      /\ format \in Chunk!Formats /\ ChunkBytes \in Nat
  BY ChunksTile, ChunksAssumed DEF ChunkText, Chunk!ChunkAssumption
<1>2. Chunk!ChunkOf(c) = lo .. hi - 1
  BY DEF Chunk!ChunkOf
<1>3. \A i \in 0 .. Length : Reached[i] \in Chunk!States(format)
  BY ReachedFacts
<1> HIDE DEF lo, hi
<1>4. ASSUME NEW class \in Chunk!MaskedClasses, class # "other"
      PROVE  Chunk!Cardinality({i \in Chunk!ChunkOf(c) : masks[i] = class}) = Below(Found(class), lo, hi)
  <2>1. {i \in Chunk!ChunkOf(c) : masks[i] = class} = {k \in lo .. hi - 1 : k \in Found(class)}
    BY <1>1, <1>2, <1>4 DEF Masked
  <2> QED BY <2>1, ChunkCardinality DEF Below
<1>5. Chunk!Newlines(c) \in 0 .. ChunkBytes
  <2> DEFINE N == {k \in 0 .. Length - 1 : masks[k] = "newline"}
  <2>1. {i \in Chunk!ChunkOf(c) : masks[i] = "newline"} = {k \in lo .. hi - 1 : k \in N}
    BY <1>1, <1>2
  <2>2. Chunk!Newlines(c) = Below(N, lo, hi)
    BY <2>1, ChunkCardinality DEF Chunk!Newlines, Below
  <2>3. lo \in Int /\ hi \in Int /\ lo <= hi
    BY <1>1
  <2> HIDE DEF N
  <2>4. Below(N, lo, hi) \in Nat /\ Below(N, lo, hi) <= hi - lo
    BY <2>3, BelowFacts
  <2> QED BY <1>1, <2>2, <2>4
<1>6. CASE format = "csv"
  <2>1. "dquote" \in Chunk!MaskedClasses
    BY <1>6 DEF Chunk!MaskedClasses
  <2>2. Chunk!SummaryOf(c) = Below(Found("dquote"), lo, hi) % 2
    BY <1>4, <1>6, <2>1 DEF Chunk!SummaryOf
  <2>3. Reached[hi] = (Reached[lo] + Below(Found("dquote"), lo, hi)) % 2
    BY <1>1, <1>6, CountedState
  <2>4. Below(Found("dquote"), lo, hi) \in Nat
    <3> DEFINE S == Found("dquote")
    <3>1. lo \in Int /\ hi \in Int /\ lo <= hi
      BY <1>1
    <3> HIDE DEF S
    <3>2. Below(S, lo, hi) \in Nat
      BY <3>1, BelowFacts
    <3> QED BY <3>2 DEF S
  <2>5. Reached[lo] \in 0 .. 1
    BY <1>1, <1>3, <1>6 DEF Chunk!States
  <2> HIDE DEF Found
  <2>6. Chunk!SummaryOf(c) \in 0 .. 1
    BY <2>2, <2>4
  <2>7. Acts(Chunk!SummaryOf(c), Reached[lo]) = Reached[hi]
    BY <1>6, <2>2, <2>3, <2>4, <2>5 DEF Acts
  <2> QED BY <1>5, <1>6, <2>6, <2>7 DEF lo, hi, Chunk!Summaries, Chunk!States
<1>7. CASE format = "fastq"
  <2>1. "newline" \in Chunk!MaskedClasses
    BY <1>7 DEF Chunk!MaskedClasses
  <2>2. Chunk!Newlines(c) = Below(Found("newline"), lo, hi)
    BY <1>4, <2>1 DEF Chunk!Newlines
  <2>3. Chunk!SummaryOf(c) = Below(Found("newline"), lo, hi) % 4
    BY <1>7, <2>2 DEF Chunk!SummaryOf
  <2>4. Reached[hi] = (Reached[lo] + Below(Found("newline"), lo, hi)) % 4
    BY <1>1, <1>7, CountedState
  <2>5. Below(Found("newline"), lo, hi) \in Nat
    BY <1>5, <2>2
  <2>6. Reached[lo] \in 0 .. 3
    BY <1>1, <1>3, <1>7 DEF Chunk!States
  <2>7. Chunk!SummaryOf(c) \in 0 .. 3 /\ Acts(Chunk!SummaryOf(c), Reached[lo]) = Reached[hi]
    <3> HIDE DEF Found
    <3> QED BY <1>7, <2>3, <2>4, <2>5, <2>6 DEF Acts
  <2> QED BY <1>5, <1>7, <2>2, <2>7 DEF lo, hi, Chunk!Summaries, Chunk!States
<1>8. CASE format = "xml"
  <2>1. Chunk!SummaryOf(c) = [s \in 0 .. 3 |-> Chunk!StatesFrom(c, s)[hi]]
    BY <1>8 DEF Chunk!SummaryOf, hi
  <2>2. ASSUME NEW s \in 0 .. 3 PROVE Chunk!StatesFrom(c, s)[hi] \in 0 .. 3
    <3>1. AreStates(Chunk!StatesFrom(c, s), format, masks, lo, hi, s)
      BY <1>1, StatesFromFacts DEF lo, hi
    <3>2. s \in Chunk!States(format)
      BY <1>8 DEF Chunk!States
    <3>3. Follows(Chunk!StatesFrom(c, s), format, masks, lo, hi, s)
      BY <1>1, <3>1, <3>2, AreStatesFacts
    <3> QED BY <1>1, <1>8, <3>3 DEF Follows, Chunk!States
  <2>3. Reached[lo] \in 0 .. 3
    BY <1>1, <1>3, <1>8 DEF Chunk!States
  <2>4. Chunk!StatesFrom(c, Reached[lo])[hi] = Reached[hi]
    <3>1. \A i \in lo .. hi : Chunk!StatesFrom(c, Reached[lo])[i] = Reached[i]
      BY EnteredChunk DEF lo, hi
    <3>2. hi \in lo .. hi
      BY <1>1
    <3> QED BY <3>1, <3>2
  <2>5. Acts(Chunk!SummaryOf(c), Reached[lo]) = Reached[hi]
    BY <1>8, <2>1, <2>3, <2>4 DEF Acts
  <2>6. Chunk!SummaryOf(c) \in [0 .. 3 -> 0 .. 3]
    BY <2>1, <2>2
  <2> QED BY <1>5, <1>8, <2>5, <2>6 DEF lo, hi, Chunk!Summaries
<1> QED BY <1>1, <1>6, <1>7, <1>8 DEF Chunk!Formats

-----------------------------------------------------------------------------
(***************************************************************************)
(* The scan: whatever the association, the merged summaries of adjoining   *)
(* chunks take the state that enters the first to the one that leaves the  *)
(* last.                                                                   *)
(***************************************************************************)
LEMMA MergeMeans ==
  ASSUME format \in Chunk!Formats, NEW p \in Chunk!Summaries, NEW q \in Chunk!Summaries,
         NEW s \in Chunk!States(format)
  PROVE  /\ Chunk!Merge(p, q) \in Chunk!Summaries
         /\ Acts(Chunk!Merge(p, q), s) = Acts(q, Acts(p, s))
         /\ Acts(p, s) \in Chunk!States(format)
<1>1. CASE format = "csv"
  <2>1. p \in 0 .. 1 /\ q \in 0 .. 1 /\ s \in 0 .. 1
    BY <1>1 DEF Chunk!Summaries, Chunk!States
  <2> QED BY <1>1, <2>1 DEF Chunk!Summaries, Chunk!States, Chunk!Merge, Acts
<1>2. CASE format = "fastq"
  <2>1. p \in 0 .. 3 /\ q \in 0 .. 3 /\ s \in 0 .. 3
    BY <1>2 DEF Chunk!Summaries, Chunk!States
  <2>2. Chunk!Merge(p, q) = (p + q) % 4 /\ Acts(p, s) = (s + p) % 4
    BY <1>2 DEF Chunk!Merge, Acts
  <2>3. (s + ((p + q) % 4)) % 4 = (((s + p) % 4) + q) % 4
    BY <2>1
  <2>4. (p + q) % 4 \in 0 .. 3 /\ (s + p) % 4 \in 0 .. 3
    BY <2>1
  <2>5. /\ Acts(Chunk!Merge(p, q), s) = (s + ((p + q) % 4)) % 4
        /\ Acts(q, Acts(p, s)) = (((s + p) % 4) + q) % 4
    BY <1>2, <2>2 DEF Acts
  <2> QED BY <1>2, <2>2, <2>3, <2>4, <2>5 DEF Chunk!Summaries, Chunk!States
<1>3. CASE format = "xml"
  <2>1. p \in [0 .. 3 -> 0 .. 3] /\ q \in [0 .. 3 -> 0 .. 3] /\ s \in 0 .. 3
    BY <1>3 DEF Chunk!Summaries, Chunk!States
  <2>2. Chunk!Merge(p, q) = [k \in 0 .. 3 |-> q[p[k]]]
    BY <1>3 DEF Chunk!Merge
  <2> QED BY <1>3, <2>1, <2>2 DEF Chunk!Summaries, Chunk!States, Acts
<1> QED BY <1>1, <1>2, <1>3 DEF Chunk!Formats

LEMMA IdentityMeans ==
  ASSUME format \in Chunk!Formats
  PROVE  /\ Chunk!Identity \in Chunk!Summaries
         /\ \A s \in Chunk!States(format) : Acts(Chunk!Identity, s) = s
         /\ \A p \in Chunk!Summaries : Chunk!StateOfPrefix(p) = Acts(p, 0)
<1>1. CASE format = "csv"
  BY <1>1 DEF Chunk!Summaries, Chunk!States, Chunk!Identity, Chunk!StateOfPrefix, Acts
<1>2. CASE format = "fastq"
  BY <1>2 DEF Chunk!Summaries, Chunk!States, Chunk!Identity, Chunk!StateOfPrefix, Acts
<1>3. CASE format = "xml"
  BY <1>3 DEF Chunk!Summaries, Chunk!States, Chunk!Identity, Chunk!StateOfPrefix, Acts
<1> QED BY <1>1, <1>2, <1>3 DEF Chunk!Formats

\* The results of merging i up to j, out of those of shorter stretches.
Joined(g, i, m, j) == {Chunk!Merge(first, second) : first \in g[<<i, m>>], second \in g[<<m, j>>]}

MergedFrom(g, i, j) ==
  IF j <= i THEN {Chunk!Identity}
  ELSE IF j = i + 1 THEN {summary[i]}
  ELSE UNION {Joined(g, i, m, j) : m \in i + 1 .. j - 1}

AreMerged(g, n) == g = [stretch \in (0 .. n) \X (0 .. n) |-> MergedFrom(g, stretch[1], stretch[2])]

LEMMA MergedCongruent ==
  ASSUME NEW g, NEW h, NEW i \in Int, NEW j \in Int,
         \A m \in i + 1 .. j - 1 : g[<<i, m>>] = h[<<i, m>>] /\ g[<<m, j>>] = h[<<m, j>>]
  PROVE  MergedFrom(g, i, j) = MergedFrom(h, i, j)
<1>1. \A m \in i + 1 .. j - 1 : Joined(g, i, m, j) = Joined(h, i, m, j)
  BY DEF Joined
<1>2. {Joined(g, i, m, j) : m \in i + 1 .. j - 1} = {Joined(h, i, m, j) : m \in i + 1 .. j - 1}
  BY <1>1
<1> QED BY <1>2 DEF MergedFrom

LEMMA MergedExist ==
  ASSUME NEW n \in Nat
  PROVE  \E g : AreMerged(g, n)
<1> DEFINE D == (0 .. n) \X (0 .. n)
           Good(k, g) == \A i, j \in 0 .. n : j - i <= k => g[<<i, j>>] = MergedFrom(g, i, j)
           Bad == {k \in Nat : ~ \E g : Good(k, g)}
<1>1. ASSUME Bad # {} PROVE FALSE
  <2>1. PICK k \in Bad : \A l \in Bad : k <= l
    BY <1>1, LeastElement
  <2>2. k \in Nat /\ ~ \E g : Good(k, g)
    OBVIOUS
  <2>3. PICK h : \A i, j \in 0 .. n : j - i <= k - 1 => h[<<i, j>>] = MergedFrom(h, i, j)
    <3>1. CASE k = 0
      <4> DEFINE z == [stretch \in D |-> {Chunk!Identity}]
      <4>1. \A i, j \in 0 .. n : j - i <= k - 1 => z[<<i, j>>] = MergedFrom(z, i, j)
        <5> SUFFICES ASSUME NEW i \in 0 .. n, NEW j \in 0 .. n, j - i <= k - 1
                     PROVE  z[<<i, j>>] = MergedFrom(z, i, j)
          OBVIOUS
        <5>1. j <= i
          BY <3>1
        <5>2. z[<<i, j>>] = {Chunk!Identity}
          OBVIOUS
        <5> HIDE DEF z
        <5> QED BY <5>1, <5>2 DEF MergedFrom
      <4> QED BY <4>1
    <3>2. CASE k # 0
      <4>1. k - 1 \in Nat /\ ~(k <= k - 1)
        BY <2>2, <3>2
      <4>2. \E g : Good(k - 1, g)
        BY <2>1, <4>1
      <4> QED BY <4>2
    <3> QED BY <3>1, <3>2
  <2> DEFINE g == [stretch \in D |-> MergedFrom(h, stretch[1], stretch[2])]
  <2>4. \A i, j \in 0 .. n : g[<<i, j>>] = MergedFrom(h, i, j)
    OBVIOUS
  <2> HIDE DEF g
  <2>5. \A i, j \in 0 .. n : j - i <= k - 1 => g[<<i, j>>] = h[<<i, j>>]
    BY <2>3, <2>4
  <2>6. ASSUME NEW i \in 0 .. n, NEW j \in 0 .. n, j - i <= k PROVE g[<<i, j>>] = MergedFrom(g, i, j)
    <3>1. ASSUME NEW m \in i + 1 .. j - 1 PROVE g[<<i, m>>] = h[<<i, m>>] /\ g[<<m, j>>] = h[<<m, j>>]
      <4>1. m \in 0 .. n /\ m - i <= k - 1 /\ j - m <= k - 1
        BY <2>2, <2>6
      <4> QED BY <2>5, <4>1
    <3>2. i \in Int /\ j \in Int
      OBVIOUS
    <3> QED BY <2>4, <3>1, <3>2, MergedCongruent
  <2>7. Good(k, g)
    BY <2>6
  <2> QED BY <2>2, <2>7
<1>2. PICK g : \A i, j \in 0 .. n : g[<<i, j>>] = MergedFrom(g, i, j)
  <2>1. \E g : Good(n, g)
    BY <1>1
  <2>2. PICK g : Good(n, g)
    BY <2>1
  <2>3. \A i, j \in 0 .. n : j - i <= n
    OBVIOUS
  <2> QED BY <2>2, <2>3
<1> DEFINE h == [stretch \in D |-> g[stretch]]
<1>3. \A i, j \in 0 .. n : h[<<i, j>>] = g[<<i, j>>]
  OBVIOUS
<1>4. ASSUME NEW i \in 0 .. n, NEW j \in 0 .. n PROVE g[<<i, j>>] = MergedFrom(h, i, j)
  <2>1. ASSUME NEW m \in i + 1 .. j - 1 PROVE g[<<i, m>>] = h[<<i, m>>] /\ g[<<m, j>>] = h[<<m, j>>]
    <3>1. m \in 0 .. n
      OBVIOUS
    <3> HIDE DEF h
    <3> QED BY <1>3, <3>1
  <2>2. i \in Int /\ j \in Int
    OBVIOUS
  <2> HIDE DEF h
  <2>3. MergedFrom(g, i, j) = MergedFrom(h, i, j)
    BY <2>1, <2>2, MergedCongruent
  <2> QED BY <1>2, <2>3
<1>5. h = [stretch \in D |-> MergedFrom(h, stretch[1], stretch[2])]
  BY <1>4
<1> QED BY <1>5 DEF AreMerged

LEMMA AssociationsFacts ==
  ASSUME Chunk!Cardinality(Chunk!Chunks) \in Nat
  PROVE  AreMerged(Chunk!Associations, Chunk!Cardinality(Chunk!Chunks))
<1> DEFINE D == (0 .. Chunk!Cardinality(Chunk!Chunks)) \X (0 .. Chunk!Cardinality(Chunk!Chunks))
           Choice == CHOOSE g : g = [stretch \in D |-> MergedFrom(g, stretch[1], stretch[2])]
<1>1. \E g : g = [stretch \in D |-> MergedFrom(g, stretch[1], stretch[2])]
  BY MergedExist DEF AreMerged
<1>2. Choice = [stretch \in D |-> MergedFrom(Choice, stretch[1], stretch[2])]
  BY <1>1
<1>3. Chunk!Associations = Choice
  BY DEF MergedFrom, Joined, Chunk!Associations
<1> QED BY <1>2, <1>3 DEF AreMerged

\* What every association of the summaries of chunks i, ..., j - 1 is and does.
Carries(v, i, j) ==
  /\ v \in Chunk!Summaries
  /\ Acts(v, Reached[Chunk!Begin(i)]) = Reached[Chunk!Begin(j)]

LEMMA AssociationsMean ==
  ASSUME ChunkText,
         \A c \in Chunk!Chunks :
           /\ summary[c] \in Chunk!Summaries
           /\ Acts(summary[c], Reached[Chunk!Begin(c)]) = Reached[Chunk!End(c)]
  PROVE  \A i, j \in Chunk!Chunks : i <= j => \A v \in Chunk!Associations[<<i, j>>] : Carries(v, i, j)
<1>1. PICK m \in Nat \ {0} : Chunk!Chunks = 0 .. m - 1
  BY ChunksTile
<1>2. Chunk!Cardinality(Chunk!Chunks) = m
  BY <1>1, ChunkCardinality, FS_Interval
<1> DEFINE g == Chunk!Associations
<1>3. AreMerged(g, m)
  BY <1>2, AssociationsFacts
<1> HIDE DEF g
<1>4. \A i, j \in Chunk!Chunks : g[<<i, j>>] = MergedFrom(g, i, j)
  BY <1>1, <1>3 DEF AreMerged
<1>5. \A c \in Chunk!Chunks : Reached[Chunk!Begin(c)] \in Chunk!States(format)
  BY ChunksTile, ReachedFacts DEF ChunkText
<1> DEFINE Bad == {d \in Nat : \E i, j \in Chunk!Chunks : j - i = d /\ \E v \in g[<<i, j>>] : ~Carries(v, i, j)}
<1>6. ASSUME Bad # {} PROVE FALSE
  <2>1. PICK d \in Bad : \A e \in Bad : d <= e
    BY <1>6, LeastElement
  <2>2. PICK i \in Chunk!Chunks, j \in Chunk!Chunks : j - i = d /\ \E v \in g[<<i, j>>] : ~Carries(v, i, j)
    OBVIOUS
  <2>3. PICK v \in g[<<i, j>>] : ~Carries(v, i, j)
    BY <2>2
  <2>4. i \in Nat /\ j \in Nat /\ i <= j /\ d \in Nat /\ format \in Chunk!Formats
    BY <1>1, <2>2 DEF ChunkText
  <2>5. v \in MergedFrom(g, i, j)
    BY <1>4, <2>3
  <2>6. CASE i = j
    <3>1. v = Chunk!Identity
      BY <2>4, <2>5, <2>6 DEF MergedFrom
    <3> QED BY <1>5, <2>3, <2>4, <2>6, <3>1, IdentityMeans DEF Carries
  <2>7. CASE j = i + 1
    <3>1. v = summary[i]
      BY <2>4, <2>5, <2>7 DEF MergedFrom
    <3>2. Chunk!End(i) = Chunk!Begin(j)
      BY <2>7, ChunksTile
    <3> QED BY <2>3, <3>1, <3>2 DEF Carries
  <2>8. CASE i + 1 < j
    <3>1. PICK k \in i + 1 .. j - 1 : v \in Joined(g, i, k, j)
      BY <2>4, <2>5, <2>8 DEF MergedFrom
    <3>2. PICK p \in g[<<i, k>>], q \in g[<<k, j>>] : v = Chunk!Merge(p, q)
      BY <3>1 DEF Joined
    <3>3. k \in Chunk!Chunks /\ k - i \in Nat /\ j - k \in Nat /\ ~(d <= k - i) /\ ~(d <= j - k)
      BY <1>1, <2>2, <2>4
    <3>4. Carries(p, i, k) /\ Carries(q, k, j)
      BY <2>1, <3>2, <3>3
    <3>5. /\ p \in Chunk!Summaries /\ Acts(p, Reached[Chunk!Begin(i)]) = Reached[Chunk!Begin(k)]
          /\ q \in Chunk!Summaries /\ Acts(q, Reached[Chunk!Begin(k)]) = Reached[Chunk!Begin(j)]
      BY <3>4 DEF Carries
    <3> QED BY <1>5, <2>3, <2>4, <3>2, <3>5, MergeMeans DEF Carries
  <2> QED BY <2>4, <2>6, <2>7, <2>8
<1>7. ASSUME NEW i \in Chunk!Chunks, NEW j \in Chunk!Chunks, i <= j, NEW v \in g[<<i, j>>]
      PROVE  Carries(v, i, j)
  <2>1. j - i \in Nat
    BY <1>1, <1>7
  <2> QED BY <1>6, <2>1
<1> QED BY <1>7 DEF g

-----------------------------------------------------------------------------
LEMMA ChunkInit == Chunk!Init => ChunkInv
<1> SUFFICES ASSUME Chunk!Init PROVE ChunkInv
  OBVIOUS
<1>1. ChunkText
  BY ChunksAssumed DEF Chunk!Init, Chunk!ChunkAssumption, ChunkText, Length
<1>2. PICK left \in Chunk!Leftovers :
        /\ masks = [i \in DOMAIN bytes |-> left.class]
        /\ summary = [c \in Chunk!Chunks |-> left.summary] /\ prefix = summary
        /\ newline_count = [c \in Chunk!Chunks |-> left.newlines] /\ counts = newline_count
        /\ out = [w \in Chunk!Words |-> left.word]
  BY DEF Chunk!Init
<1>3. format \in Chunk!Formats /\ kernel = "classify" /\ pending = {}
  BY DEF Chunk!Init
<1>4. /\ left.class \in Chunk!ByteClasses /\ left.newlines \in 0 .. ChunkBytes
      /\ left.word \in SUBSET (0 .. OutputWordBytes - 1)
  BY <1>3, ChunksAssumed DEF Chunk!Leftovers, Chunk!ChunkAssumption, Chunk!ByteClasses, Chunk!Formats
<1>5. left.summary \in Chunk!Summaries
  <2>1. CASE format = "csv"
    <3>1. left.summary \in {0, 1}
      BY <2>1 DEF Chunk!Leftovers, Chunk!Identity
    <3> QED BY <2>1, <3>1 DEF Chunk!Summaries, Chunk!States
  <2>2. CASE format = "fastq"
    <3>1. left.summary \in {0, 3}
      BY <2>2 DEF Chunk!Leftovers, Chunk!Identity
    <3> QED BY <2>2, <3>1 DEF Chunk!Summaries, Chunk!States
  <2>3. CASE format = "xml"
    <3>1. left.summary \in {[s \in 0 .. 3 |-> s], [s \in 0 .. 3 |-> 3 - s]}
      BY <2>3 DEF Chunk!Leftovers, Chunk!Identity
    <3>2. [s \in 0 .. 3 |-> s] \in [0 .. 3 -> 0 .. 3] /\ [s \in 0 .. 3 |-> 3 - s] \in [0 .. 3 -> 0 .. 3]
      OBVIOUS
    <3> QED BY <2>3, <3>1, <3>2 DEF Chunk!Summaries
  <2> QED BY <1>3, <2>1, <2>2, <2>3 DEF Chunk!Formats
<1>6. Chunk!TypeOK
  BY <1>2, <1>3, <1>4, <1>5 DEF Chunk!TypeOK
<1> QED BY <1>1, <1>3, <1>6 DEF ChunkInv, Summarized, Chunk!PrefixIsState, Chunk!AppliedChunksCorrect

\* What a step that leaves the text and its format alone leaves alone with them.
LEMMA ReferenceSame ==
  ASSUME bytes' = bytes, format' = format
  PROVE  /\ ChunkText => ChunkText'
         /\ Reached' = Reached /\ Chunk!Emitted(format, bytes)' = Chunk!Emitted(format, bytes)
         /\ \A class : Masked(class)' = Masked(class)
         /\ \A p, s : Acts(p, s)' = Acts(p, s)
         /\ Chunk!Summaries' = Chunk!Summaries
         /\ \A p : Chunk!StateOfPrefix(p)' = Chunk!StateOfPrefix(p)
<1>1. Length' = Length
  BY ChunkSame
<1> QED BY <1>1 DEF ChunkText, Reached, Masked, Chunk!MaskedClasses, Acts, Chunk!Summaries, Chunk!StateOfPrefix

\* The classification.
LEMMA ClassifyKeeps ==
  ASSUME ChunkInv, Chunk!Classify
  PROVE  ChunkInv'
<1>1. /\ masks' = [i \in DOMAIN bytes |-> Masked(bytes[i])]
      /\ kernel = "classify" /\ kernel' = "summarize" /\ pending' = Chunk!Chunks
      /\ format' = format /\ bytes' = bytes /\ summary' = summary /\ newline_count' = newline_count
      /\ prefix' = prefix /\ counts' = counts /\ out' = out
  BY DEF Chunk!Classify, Masked
<1>2. ChunkText /\ Chunk!TypeOK
  BY DEF ChunkInv
<1>3. /\ ChunkText' /\ Chunk!Chunks' = Chunk!Chunks /\ Chunk!Words' = Chunk!Words /\ Length' = Length
      /\ Chunk!Summaries' = Chunk!Summaries
  BY <1>1, <1>2, ChunkSame, ReferenceSame
<1>4. DOMAIN bytes = 0 .. Length - 1
  BY <1>2, ChunksTile
<1>5. masks' = [i \in 0 .. Length - 1 |-> Masked(bytes[i])]'
  BY <1>1, <1>3, <1>4, ReferenceSame
<1>6. \A i \in DOMAIN bytes : Masked(bytes[i]) \in Chunk!ByteClasses
  BY <1>2, <1>4 DEF ChunkText, Masked, Chunk!ByteClasses
<1>7. Chunk!TypeOK'
  BY <1>1, <1>2, <1>3, <1>6 DEF Chunk!TypeOK
<1> QED BY <1>1, <1>3, <1>5, <1>7 DEF ChunkInv, Summarized, Chunk!PrefixIsState, Chunk!AppliedChunksCorrect

\* A chunk is summarized.
LEMMA SummarizeKeeps ==
  ASSUME ChunkInv, NEW c \in Chunk!Chunks, Chunk!Summarize(c)
  PROVE  ChunkInv'
<1>1. /\ kernel = "summarize" /\ c \in pending
      /\ \/ pending = {c} /\ kernel' = "scan" /\ pending' = {}
         \/ kernel' = kernel /\ pending' = pending \ {c}
      /\ summary' = [summary EXCEPT ![c] = Chunk!SummaryOf(c)]
      /\ newline_count' = [newline_count EXCEPT ![c] = Chunk!Newlines(c)]
      /\ format' = format /\ bytes' = bytes /\ masks' = masks
      /\ prefix' = prefix /\ counts' = counts /\ out' = out
  BY DEF Chunk!Summarize, Chunk!Handle
<1>2. ChunkText /\ Chunk!TypeOK /\ masks = [i \in 0 .. Length - 1 |-> Masked(bytes[i])]
  BY <1>1 DEF ChunkInv
<1>3. /\ ChunkText' /\ Chunk!Chunks' = Chunk!Chunks /\ Chunk!Words' = Chunk!Words /\ Length' = Length
      /\ Chunk!Summaries' = Chunk!Summaries /\ Reached' = Reached
      /\ \A d : Chunk!Begin(d)' = Chunk!Begin(d) /\ Chunk!End(d)' = Chunk!End(d)
      /\ \A p, s : Acts(p, s)' = Acts(p, s)
  BY <1>1, <1>2, ChunkSame, ReferenceSame
<1>4. /\ Chunk!SummaryOf(c) \in Chunk!Summaries
      /\ Acts(Chunk!SummaryOf(c), Reached[Chunk!Begin(c)]) = Reached[Chunk!End(c)]
      /\ Chunk!Newlines(c) \in 0 .. ChunkBytes
  BY <1>2, SummaryMeans
<1>5. masks' = [i \in 0 .. Length - 1 |-> Masked(bytes[i])]'
  BY <1>1, <1>2, <1>3, ReferenceSame
<1>6. \A d : Chunk!Newlines(d)' = Chunk!Newlines(d)
  <2>1. \A d : Chunk!ChunkOf(d)' = Chunk!ChunkOf(d)
    BY <1>1, ChunkSame
  <2> QED BY <1>1, <2>1 DEF Chunk!Newlines, Chunk!Cardinality
<1>7. /\ DOMAIN summary = Chunk!Chunks /\ DOMAIN newline_count = Chunk!Chunks
      /\ \A d \in Chunk!Chunks : summary[d] \in Chunk!Summaries /\ newline_count[d] \in 0 .. ChunkBytes
  BY <1>2 DEF Chunk!TypeOK
<1>8. /\ DOMAIN summary' = Chunk!Chunks /\ DOMAIN newline_count' = Chunk!Chunks
      /\ \A d \in Chunk!Chunks :
           /\ summary'[d] = IF d = c THEN Chunk!SummaryOf(c) ELSE summary[d]
           /\ newline_count'[d] = IF d = c THEN Chunk!Newlines(c) ELSE newline_count[d]
  BY <1>1, <1>7
<1>9. newline_count' \in [Chunk!Chunks -> 0 .. ChunkBytes]
  <2>1. newline_count' = [d \in Chunk!Chunks |-> newline_count'[d]]
    BY <1>1, <1>7
  <2> QED BY <1>4, <1>7, <1>8, <2>1
<1>10. Chunk!TypeOK'
  BY <1>1, <1>2, <1>3, <1>4, <1>7, <1>8, <1>9 DEF Chunk!TypeOK
<1>11. ASSUME NEW d \in Chunk!Chunks, Summarized(d)'
       PROVE  /\ Acts(summary'[d], Reached[Chunk!Begin(d)]) = Reached[Chunk!End(d)]
              /\ newline_count'[d] = Chunk!Newlines(d)
  <2>1. CASE d = c
    BY <1>4, <1>8, <2>1
  <2>2. CASE d # c
    <3>1. Summarized(d)
      BY <1>1, <1>11, <2>2 DEF Summarized
    <3> QED BY <1>8, <2>2, <3>1 DEF ChunkInv
  <2> QED BY <2>1, <2>2
<1>12. \A d \in Chunk!Chunks' :
         Summarized(d)' => /\ (Acts(summary[d], Reached[Chunk!Begin(d)]) = Reached[Chunk!End(d)])'
                           /\ (newline_count[d] = Chunk!Newlines(d))'
  BY <1>3, <1>6, <1>11
<1>13. kernel' \in {"summarize", "scan"}
  BY <1>1
<1> QED BY <1>3, <1>5, <1>10, <1>12, <1>13 DEF ChunkInv, Chunk!PrefixIsState, Chunk!AppliedChunksCorrect

\* The scan, however it associates.
LEMMA ScanKeeps ==
  ASSUME ChunkInv, Chunk!Scan
  PROVE  ChunkInv'
<1>1. /\ kernel = "scan" /\ kernel' = "apply" /\ pending' = Chunk!Chunks
      /\ DOMAIN prefix' = Chunk!Chunks
      /\ \A c \in Chunk!Chunks : prefix'[c] \in Chunk!Associations[<<0, c>>]
      /\ format' = format /\ bytes' = bytes /\ masks' = masks
      /\ summary' = summary /\ newline_count' = newline_count /\ counts' = counts /\ out' = out
  BY DEF Chunk!Scan
<1>2. /\ ChunkText /\ Chunk!TypeOK /\ masks = [i \in 0 .. Length - 1 |-> Masked(bytes[i])]
      /\ \A c \in Chunk!Chunks :
           /\ summary[c] \in Chunk!Summaries
           /\ Acts(summary[c], Reached[Chunk!Begin(c)]) = Reached[Chunk!End(c)]
           /\ newline_count[c] = Chunk!Newlines(c)
  BY <1>1 DEF ChunkInv, Summarized, Chunk!TypeOK
<1>3. /\ ChunkText' /\ Chunk!Chunks' = Chunk!Chunks /\ Chunk!Words' = Chunk!Words /\ Length' = Length
      /\ Chunk!Summaries' = Chunk!Summaries /\ Reached' = Reached
      /\ \A d : Chunk!Begin(d)' = Chunk!Begin(d) /\ Chunk!End(d)' = Chunk!End(d)
      /\ \A p, s : Acts(p, s)' = Acts(p, s)
      /\ \A p : Chunk!StateOfPrefix(p)' = Chunk!StateOfPrefix(p)
  BY <1>1, <1>2, ChunkSame, ReferenceSame
<1>4. ASSUME NEW c \in Chunk!Chunks
      PROVE  prefix'[c] \in Chunk!Summaries /\ Chunk!StateOfPrefix(prefix'[c]) = Reached[Chunk!Begin(c)]
  <2>1. 0 \in Chunk!Chunks /\ 0 <= c /\ Chunk!Begin(0) = 0
    BY <1>2, ChunksTile
  <2>2. Carries(prefix'[c], 0, c)
    BY <1>1, <1>2, <2>1, AssociationsMean
  <2>3. Reached[0] = 0 /\ format \in Chunk!Formats
    BY <1>2, ReachedFacts DEF ChunkText
  <2> QED BY <2>1, <2>2, <2>3, IdentityMeans DEF Carries
<1>5. Chunk!TypeOK'
  BY <1>1, <1>2, <1>3, <1>4 DEF Chunk!TypeOK
<1>6. Chunk!PrefixIsState'
  BY <1>1, <1>3, <1>4 DEF Chunk!PrefixIsState, Reached
<1>7. masks' = [i \in 0 .. Length - 1 |-> Masked(bytes[i])]'
  BY <1>1, <1>2, <1>3, ReferenceSame
<1>8. \A d : Chunk!Newlines(d)' = Chunk!Newlines(d)
  <2>1. \A d : Chunk!ChunkOf(d)' = Chunk!ChunkOf(d)
    BY <1>1, ChunkSame
  <2> QED BY <1>1, <2>1 DEF Chunk!Newlines, Chunk!Cardinality
<1>9. \A d \in Chunk!Chunks' :
         /\ (Acts(summary[d], Reached[Chunk!Begin(d)]) = Reached[Chunk!End(d)])'
         /\ (newline_count[d] = Chunk!Newlines(d))'
  BY <1>1, <1>2, <1>3, <1>8
<1>10. Chunk!AppliedChunksCorrect'
  BY <1>1, <1>3 DEF Chunk!AppliedChunksCorrect
<1> QED BY <1>3, <1>5, <1>6, <1>7, <1>9, <1>10 DEF ChunkInv

\* FASTQ: the newlines counted in a chunk, moved by the phase that enters, close as many
\* records as the reference emits in it.
LEMMA RecordsClosed ==
  ASSUME ChunkText, format = "fastq", NEW lo \in Nat, NEW hi \in Nat, lo <= hi, hi <= Length
  PROVE  (Below({k \in 0 .. Length - 1 : bytes[k] = "newline"}, lo, hi) + Reached[lo]) \div 4
           = Below(Chunk!Emitted(format, bytes), lo, hi)
<1> DEFINE S == {k \in 0 .. Length - 1 : bytes[k] = "newline"}
           E == Chunk!Emitted(format, bytes)
           a == Reached[lo]
           A == {i \in Int : lo <= i /\ (Below(S, lo, i) + a) \div 4 = Below(E, lo, i)}
<1>1. E = {i \in 0 .. Length - 1 : bytes[i] = "newline" /\ Reached[i] = 3}
  BY ChunksTile DEF Chunk!Emitted, Chunk!Emits, Reached
<1>2. Length \in Nat /\ a \in 0 .. 3
  BY ReachedFacts DEF ChunkText, Chunk!States
<1>3. \A i \in lo .. hi : Reached[i] = (a + Below(S, lo, i)) % 4
  BY CountedState
<1> HIDE DEF S, E, a
<1>4. lo \in Int /\ hi \in Int /\ Below(S, lo, lo) = 0 /\ Below(E, lo, lo) = 0
  <2>1. lo \in Int /\ hi \in Int
    OBVIOUS
  <2> QED BY <2>1, BelowFacts
<1>5. lo \in A
  BY <1>2, <1>4
<1>6. ASSUME NEW i \in lo .. hi - 1, i \in A PROVE i + 1 \in A
  <2>1. i \in 0 .. Length - 1 /\ i \in Int /\ lo <= i /\ i \in lo .. hi
    BY <1>2
  <2> DEFINE x == Below(S, lo, i)
             y == Below(E, lo, i)
             u == Below(S, lo, i + 1)
             v == Below(E, lo, i + 1)
  <2>2. /\ x \in Nat /\ y \in Nat
        /\ u = x + IF i \in S THEN 1 ELSE 0
        /\ v = y + IF i \in E THEN 1 ELSE 0
    BY <1>4, <2>1, BelowFacts
  <2>3. i \in S <=> bytes[i] = "newline"
    BY <2>1 DEF S
  <2>4. i \in E <=> bytes[i] = "newline" /\ (a + x) % 4 = 3
    BY <1>1, <1>3, <2>1
  <2>5. (x + a) \div 4 = y
    BY <1>6
  <2> HIDE DEF x, y, u, v, S, E, A
  <2>6. (u + a) \div 4 = v
    BY <1>2, <2>2, <2>3, <2>4, <2>5
  <2> QED BY <2>1, <2>6 DEF A, u, v
<1>7. \A i \in lo .. hi : i \in A
  <2> HIDE DEF A
  <2> QED BY <1>4, <1>5, <1>6, OverInterval
<1>8. hi \in A
  BY <1>7
<1> QED BY <1>8 DEF S, E, a

\* What the last kernel leaves for a chunk.
LEMMA ApplyMeans ==
  ASSUME ChunkInv, NEW c \in Chunk!Chunks, Chunk!Apply(c)
  PROVE  /\ format = "xml" => /\ counts' = counts
                              /\ out' = Chunk!StoreWords(c, Chunk!Emitted(format, bytes) \cap Chunk!ChunkOf(c))
         /\ format # "xml" =>
              /\ out' = out
              /\ counts' = [counts EXCEPT ![c] = Cardinality(Chunk!Emitted(format, bytes) \cap Chunk!ChunkOf(c))]
<1>1. kernel = "apply" /\ ChunkText /\ masks = [i \in 0 .. Length - 1 |-> Masked(bytes[i])]
  BY DEF ChunkInv, Chunk!Apply, Chunk!Handle
<1> DEFINE lo == Chunk!Begin(c)
           hi == Chunk!End(c)
           state == Chunk!StateOfPrefix(prefix[c])
<1>2. state = Reached[lo]
  BY <1>1 DEF ChunkInv, Chunk!PrefixIsState, Reached
<1>3. Chunk!EmitsFrom(c, state) = Chunk!Emitted(format, bytes) \cap Chunk!ChunkOf(c)
  BY <1>1, <1>2, EnteredChunk
<1>4. format \in {"csv", "xml", "fastq"}
  BY <1>1 DEF ChunkText, Chunk!Formats
<1>5. CASE format = "csv"
  BY <1>3, <1>5, ChunkCardinality DEF Chunk!Apply
<1>6. CASE format = "xml"
  BY <1>3, <1>6 DEF Chunk!Apply
<1>7. CASE format = "fastq"
  <2>1. /\ out' = out
        /\ counts' = [counts EXCEPT ![c] = (newline_count[c] + state) \div 4]
    BY <1>7 DEF Chunk!Apply, Chunk!CountFromNewlines
  <2>2. newline_count[c] = Below({k \in 0 .. Length - 1 : bytes[k] = "newline"}, lo, hi)
    BY <1>1, <1>7, SummaryMeans DEF ChunkInv, Summarized
  <2>3. lo \in Nat /\ hi \in Nat /\ lo <= hi /\ hi <= Length
    BY <1>1, ChunksTile
  <2>4. (newline_count[c] + state) \div 4 = Below(Chunk!Emitted(format, bytes), lo, hi)
    <3> HIDE DEF lo, hi, state
    <3> QED BY <1>1, <1>2, <1>7, <2>2, <2>3, RecordsClosed
  <2>5. {k \in lo .. hi - 1 : k \in Chunk!Emitted(format, bytes)} = Chunk!Emitted(format, bytes) \cap Chunk!ChunkOf(c)
    BY DEF Chunk!ChunkOf
  <2> QED BY <1>7, <2>1, <2>4, <2>5 DEF Below
<1> QED BY <1>4, <1>5, <1>6, <1>7

\* A chunk is applied.
LEMMA ApplyKeeps ==
  ASSUME ChunkInv, NEW c \in Chunk!Chunks, Chunk!Apply(c)
  PROVE  ChunkInv'
<1> DEFINE emitted == Chunk!Emitted(format, bytes)
           Stored(w) == {b \in 0 .. OutputWordBytes - 1 : w * OutputWordBytes + b \in emitted}
<1>1. /\ kernel = "apply" /\ c \in pending
      /\ \/ pending = {c} /\ kernel' = "done" /\ pending' = Chunk!Chunks
         \/ kernel' = kernel /\ pending' = pending \ {c}
      /\ format' = format /\ bytes' = bytes /\ masks' = masks
      /\ summary' = summary /\ newline_count' = newline_count /\ prefix' = prefix
  BY DEF Chunk!Apply, Chunk!Handle
<1>2. /\ ChunkText /\ Chunk!TypeOK /\ masks = [i \in 0 .. Length - 1 |-> Masked(bytes[i])]
      /\ Chunk!PrefixIsState
      /\ \A d \in Chunk!Chunks :
           /\ Acts(summary[d], Reached[Chunk!Begin(d)]) = Reached[Chunk!End(d)]
           /\ newline_count[d] = Chunk!Newlines(d)
  BY <1>1 DEF ChunkInv, Summarized
<1>3. /\ ChunkText' /\ Chunk!Chunks' = Chunk!Chunks /\ Chunk!Words' = Chunk!Words /\ Length' = Length
      /\ Chunk!Summaries' = Chunk!Summaries /\ Reached' = Reached
      /\ \A d : Chunk!Begin(d)' = Chunk!Begin(d) /\ Chunk!End(d)' = Chunk!End(d)
      /\ \A d : Chunk!ChunkOf(d)' = Chunk!ChunkOf(d) /\ Chunk!WordsOf(d)' = Chunk!WordsOf(d)
      /\ \A p, s : Acts(p, s)' = Acts(p, s)
      /\ \A p : Chunk!StateOfPrefix(p)' = Chunk!StateOfPrefix(p)
      /\ Chunk!Emitted(format, bytes)' = emitted
  BY <1>1, <1>2, ChunkSame, ReferenceSame
<1>4. masks' = [i \in 0 .. Length - 1 |-> Masked(bytes[i])]'
  BY <1>1, <1>2, <1>3, ReferenceSame
<1>5. \A d : Chunk!Newlines(d)' = Chunk!Newlines(d)
  BY <1>1, <1>3 DEF Chunk!Newlines, Chunk!Cardinality
<1>6. /\ format = "xml" => /\ counts' = counts
                           /\ out' = Chunk!StoreWords(c, emitted \cap Chunk!ChunkOf(c))
      /\ format # "xml" => /\ out' = out
                           /\ counts' = [counts EXCEPT ![c] = Cardinality(emitted \cap Chunk!ChunkOf(c))]
  BY ApplyMeans
<1>7. Cardinality(emitted \cap Chunk!ChunkOf(c)) \in 0 .. ChunkBytes
  <2> DEFINE lo == Chunk!Begin(c)
             hi == Chunk!End(c)
  <2>1. emitted \cap Chunk!ChunkOf(c) = {k \in lo .. hi - 1 : k \in emitted}
    BY DEF Chunk!ChunkOf
  <2>2. lo \in Int /\ hi \in Int /\ lo <= hi /\ hi - lo <= ChunkBytes /\ ChunkBytes \in Nat
    BY <1>2, ChunksTile, ChunksAssumed DEF Chunk!ChunkAssumption
  <2> HIDE DEF lo, hi, emitted
  <2>3. Below(emitted, lo, hi) \in Nat /\ Below(emitted, lo, hi) <= hi - lo
    BY <2>2, BelowFacts
  <2> QED BY <2>1, <2>2, <2>3 DEF Below
<1>8. format = "xml" => \A w \in Chunk!Words : out'[w] = IF w \in Chunk!WordsOf(c) THEN Stored(w) ELSE out[w]
  <2> SUFFICES ASSUME format = "xml", NEW w \in Chunk!Words
               PROVE  out'[w] = IF w \in Chunk!WordsOf(c) THEN Stored(w) ELSE out[w]
    OBVIOUS
  <2>1. out'[w] = IF w \in Chunk!WordsOf(c)
                  THEN {b \in 0 .. OutputWordBytes - 1 : w * OutputWordBytes + b \in emitted \cap Chunk!ChunkOf(c)}
                  ELSE out[w]
    BY <1>6 DEF Chunk!StoreWords
  <2>2. emitted \subseteq 0 .. Length - 1
    BY <1>2, ChunksTile DEF Chunk!Emitted
  <2>3. CASE w \in Chunk!WordsOf(c)
    <3>1. \A b \in 0 .. OutputWordBytes - 1 :
            w * OutputWordBytes + b \in emitted => w * OutputWordBytes + b \in Chunk!ChunkOf(c)
      BY <1>2, <2>2, <2>3, WordsWhole
    <3> HIDE DEF emitted
    <3> QED BY <2>1, <2>3, <3>1
  <2>4. CASE w \notin Chunk!WordsOf(c)
    BY <2>1, <2>4
  <2> QED BY <2>3, <2>4
<1>9. Chunk!TypeOK'
  <2>1. counts' \in [Chunk!Chunks -> 0 .. ChunkBytes]
    BY <1>2, <1>6, <1>7 DEF Chunk!TypeOK
  <2>2. out' \in [Chunk!Words -> SUBSET (0 .. OutputWordBytes - 1)]
    <3>1. CASE format # "xml"
      BY <1>2, <1>6, <3>1 DEF Chunk!TypeOK
    <3>2. CASE format = "xml"
      <4>1. out' = [w \in Chunk!Words |-> out'[w]]
        BY <1>6, <3>2 DEF Chunk!StoreWords
      <4>2. \A w \in Chunk!Words : out'[w] \in SUBSET (0 .. OutputWordBytes - 1)
        BY <1>2, <1>8, <3>2 DEF Chunk!TypeOK
      <4> QED BY <4>1, <4>2
    <3> QED BY <3>1, <3>2
  <2> QED BY <1>1, <1>2, <1>3, <2>1, <2>2 DEF Chunk!TypeOK
<1>10. Chunk!PrefixIsState'
  BY <1>1, <1>2, <1>3 DEF Chunk!PrefixIsState, Reached
<1>11. \A d \in Chunk!Chunks' :
         /\ (Acts(summary[d], Reached[Chunk!Begin(d)]) = Reached[Chunk!End(d)])'
         /\ (newline_count[d] = Chunk!Newlines(d))'
  BY <1>1, <1>2, <1>3, <1>5
<1>12. ASSUME NEW d \in Chunk!Chunks, kernel' = "done" \/ (kernel' = "apply" /\ d \notin pending')
       PROVE  IF format = "xml"
              THEN \A w \in Chunk!WordsOf(d) : out'[w] = Stored(w)
              ELSE counts'[d] = Cardinality(emitted \cap Chunk!ChunkOf(d))
  <2>1. d # c => kernel = "apply" /\ d \notin pending
    BY <1>1, <1>12
  <2>2. d # c => IF format = "xml"
                 THEN \A w \in Chunk!WordsOf(d) : out[w] = Stored(w)
                 ELSE counts[d] = Cardinality(emitted \cap Chunk!ChunkOf(d))
    BY <2>1, ChunkCardinality DEF ChunkInv, Chunk!AppliedChunksCorrect
  <2>3. CASE format # "xml"
    <3>1. DOMAIN counts = Chunk!Chunks
      BY <1>2 DEF Chunk!TypeOK
    <3> HIDE DEF emitted
    <3>2. counts'[d] = IF d = c THEN Cardinality(emitted \cap Chunk!ChunkOf(c)) ELSE counts[d]
      BY <1>6, <2>3, <3>1
    <3> QED BY <2>2, <2>3, <3>2
  <2>4. CASE format = "xml"
    <3> SUFFICES ASSUME NEW w \in Chunk!WordsOf(d) PROVE out'[w] = Stored(w)
      BY <2>4
    <3>1. w \in Chunk!Words
      BY <1>2, WordsWhole
    <3>2. d # c => w \notin Chunk!WordsOf(c)
      <4>1. w \in Chunk!WordsOf(c) => w * OutputWordBytes \in Chunk!ChunkOf(c)
        BY <1>2, WordsWhole
      <4>2. w * OutputWordBytes \in Chunk!ChunkOf(d)
        BY <1>2, WordsWhole
      <4> QED BY <1>2, <4>1, <4>2, ChunksDisjoint
    <3> HIDE DEF Stored
    <3> QED BY <1>8, <2>2, <2>4, <3>1, <3>2
  <2> QED BY <2>3, <2>4
<1>13. Chunk!AppliedChunksCorrect'
  <2> SUFFICES ASSUME NEW d \in Chunk!Chunks, kernel' = "done" \/ (kernel' = "apply" /\ d \notin pending')
               PROVE  IF format = "xml"
                      THEN \A w \in Chunk!WordsOf(d) : out'[w] = Stored(w)
                      ELSE counts'[d] = Chunk!Cardinality(emitted \cap Chunk!ChunkOf(d))
    <3>1. /\ Chunk!Chunks' = Chunk!Chunks /\ format' = format /\ Chunk!Emitted(format, bytes)' = emitted
          /\ \A d : Chunk!ChunkOf(d)' = Chunk!ChunkOf(d) /\ Chunk!WordsOf(d)' = Chunk!WordsOf(d)
      BY <1>1, <1>3
    <3> HIDE DEF emitted
    <3> QED BY <3>1 DEF Chunk!AppliedChunksCorrect
  <2>1. Chunk!Cardinality(emitted \cap Chunk!ChunkOf(d)) = Cardinality(emitted \cap Chunk!ChunkOf(d))
    BY ChunkCardinality
  <2>2. IF format = "xml"
        THEN \A w \in Chunk!WordsOf(d) : out'[w] = Stored(w)
        ELSE counts'[d] = Cardinality(emitted \cap Chunk!ChunkOf(d))
    BY <1>12
  <2> QED BY <2>1, <2>2
<1> QED BY <1>3, <1>4, <1>9, <1>10, <1>11, <1>13 DEF ChunkInv

LEMMA ChunkStep == ChunkInv /\ [Chunk!Next]_(Chunk!vars) => ChunkInv'
<1> SUFFICES ASSUME ChunkInv, [Chunk!Next]_(Chunk!vars) PROVE ChunkInv'
  OBVIOUS
<1>1. CASE Chunk!Classify
  BY <1>1, ClassifyKeeps
<1>2. CASE Chunk!Scan
  BY <1>2, ScanKeeps
<1>3. ASSUME NEW c \in Chunk!Chunks, Chunk!Summarize(c) PROVE ChunkInv'
  BY <1>3, SummarizeKeeps
<1>4. ASSUME NEW c \in Chunk!Chunks, Chunk!Apply(c) PROVE ChunkInv'
  BY <1>4, ApplyKeeps
<1>5. CASE UNCHANGED Chunk!vars
  <2>1. /\ format' = format /\ bytes' = bytes /\ kernel' = kernel /\ pending' = pending
        /\ masks' = masks /\ summary' = summary /\ newline_count' = newline_count
        /\ prefix' = prefix /\ counts' = counts /\ out' = out
    BY <1>5 DEF Chunk!vars
  <2>2. /\ ChunkText /\ Chunk!TypeOK
        /\ kernel # "classify" => masks = [i \in 0 .. Length - 1 |-> Masked(bytes[i])]
        /\ Chunk!PrefixIsState /\ Chunk!AppliedChunksCorrect
    BY DEF ChunkInv
  <2>3. /\ ChunkText' /\ Chunk!Chunks' = Chunk!Chunks /\ Chunk!Words' = Chunk!Words /\ Length' = Length
        /\ Chunk!Summaries' = Chunk!Summaries /\ Reached' = Reached
        /\ \A d : Chunk!Begin(d)' = Chunk!Begin(d) /\ Chunk!End(d)' = Chunk!End(d)
        /\ \A d : Chunk!ChunkOf(d)' = Chunk!ChunkOf(d) /\ Chunk!WordsOf(d)' = Chunk!WordsOf(d)
        /\ \A p, s : Acts(p, s)' = Acts(p, s)
        /\ \A p : Chunk!StateOfPrefix(p)' = Chunk!StateOfPrefix(p)
        /\ Chunk!Emitted(format, bytes)' = Chunk!Emitted(format, bytes)
    BY <2>1, <2>2, ChunkSame, ReferenceSame
  <2>4. (kernel # "classify" => masks = [i \in 0 .. Length - 1 |-> Masked(bytes[i])])'
    BY <2>1, <2>2, <2>3, ReferenceSame
  <2>5. \A d : Chunk!Newlines(d)' = Chunk!Newlines(d) /\ (Summarized(d)' <=> Summarized(d))
    BY <2>1, <2>3 DEF Chunk!Newlines, Chunk!Cardinality, Summarized
  <2>6. Chunk!TypeOK'
    BY <2>1, <2>2, <2>3 DEF Chunk!TypeOK
  <2>7. Chunk!PrefixIsState'
    BY <2>1, <2>2, <2>3 DEF Chunk!PrefixIsState, Reached
  <2>8. Chunk!AppliedChunksCorrect'
    <3> SUFFICES ASSUME NEW d \in Chunk!Chunks, kernel = "done" \/ (kernel = "apply" /\ d \notin pending)
                 PROVE  IF format = "xml"
                        THEN \A w \in Chunk!WordsOf(d) :
                               out[w] = {b \in 0 .. OutputWordBytes - 1 :
                                           w * OutputWordBytes + b \in Chunk!Emitted(format, bytes)}
                        ELSE counts[d] = Chunk!Cardinality(Chunk!Emitted(format, bytes) \cap Chunk!ChunkOf(d))
      BY <2>1, <2>3 DEF Chunk!AppliedChunksCorrect, Chunk!Cardinality
    <3> QED BY <2>2 DEF Chunk!AppliedChunksCorrect
  <2>9. \A d \in Chunk!Chunks' :
          Summarized(d)' => /\ (Acts(summary[d], Reached[Chunk!Begin(d)]) = Reached[Chunk!End(d)])'
                            /\ (newline_count[d] = Chunk!Newlines(d))'
    BY <2>1, <2>3, <2>5 DEF ChunkInv
  <2> QED BY <2>3, <2>4, <2>6, <2>7, <2>8, <2>9 DEF ChunkInv
<1> QED BY <1>1, <1>2, <1>3, <1>4, <1>5 DEF Chunk!Next

\* The inductive invariant, while a staged baseline is the algorithm that runs.
ChunksRun == algorithm = "chunks" => ChunkInv

LEMMA ChunksHold == AlgorithmsSpec => []ChunksRun
<1>1. AlgorithmsInit => ChunksRun
  BY ChunkInit DEF AlgorithmsInit, ChunksRun
<1>2. ChunksRun /\ [AlgorithmsNext]_allVars => ChunksRun'
  <2> SUFFICES ASSUME ChunksRun, [AlgorithmsNext]_allVars, algorithm' = "chunks" PROVE ChunkInv'
    BY DEF ChunksRun
  <2>1. algorithm = "chunks"
    BY DEF AlgorithmsNext, allVars
  <2>2. [Chunk!Next]_(Chunk!vars)
    BY <2>1 DEF AlgorithmsNext, allVars, OfChunk, Chunk!vars
  <2> QED BY <2>1, <2>2, ChunkStep DEF ChunksRun
<1> QED BY <1>1, <1>2, PTL DEF AlgorithmsSpec

\* However CUB's scan associates the summaries of the chunks, the state it hands to a
\* chunk is the one in which the sequential CSV, FASTQ or XML reference arrives there,
\* for every text and chunk size and every order of the chunks.
THEOREM PrefixesAreStates == AlgorithmsSpec => []PrefixIsState
<1>1. ChunksRun => PrefixIsState
  BY DEF ChunksRun, ChunkInv, PrefixIsState
<1> QED BY <1>1, ChunksHold, PTL

\* An applied chunk keeps the count, or the whole output words, of the sequential
\* reference: no later chunk takes that away.
THEOREM AppliedChunksAreCorrect == AlgorithmsSpec => []AppliedChunksCorrect
<1>1. ChunksRun => AppliedChunksCorrect
  BY DEF ChunksRun, ChunkInv, AppliedChunksCorrect
<1> QED BY <1>1, ChunksHold, PTL

-----------------------------------------------------------------------------
(***************************************************************************)
(* The UTF-8 check (Utf8Check), for every text and word size.  All that a  *)
(* lane's tables and saturating subtractions come to is one bit: whether   *)
(* two continuation bytes stand where the leads do not ask for them.       *)
(***************************************************************************)
Continues(p) == Utf8!IsContinuation(Utf8!Byte(p))

\* Third and fourth bytes stand at p exactly if a lead asks for them.
AsAsked(p) == (Continues(p - 1) /\ Continues(p)) <=> Utf8!MustContinue(p)

UtfText ==
  /\ Utf8!Size \in Nat
  /\ bytes \in [0 .. Utf8!Size - 1 -> 0 .. 255]

UtfInv ==
  /\ UtfText
  /\ pending \subseteq Utf8!Words
  /\ utf_error \subseteq {7}
  /\ \A w \in Utf8!Words \ pending : \A g \in w * PartsPerWord .. (w + 1) * PartsPerWord - 1 :
       Utf8!GroupErrors(g) \subseteq utf_error
  /\ utf_error # {} => \E g \in Nat : Utf8!GroupErrors(g) # {}

LEMMA ByteType ==
  ASSUME UtfText
  PROVE  /\ \A p : Utf8!Byte(p) \in 0 .. 255
         /\ \A p : Utf8!Byte(p) \in Int
         /\ DOMAIN bytes = 0 .. Utf8!Size - 1
         /\ \A p \in 0 .. Utf8!Size - 1 : Utf8!Byte(p) = bytes[p]
<1>1. DOMAIN bytes = 0 .. Utf8!Size - 1 /\ \A p \in DOMAIN bytes : bytes[p] \in 0 .. 255
  BY DEF UtfText
<1>2. \A p : Utf8!Byte(p) \in 0 .. 255
  BY <1>1 DEF Utf8!Byte
<1>3. \A p : Utf8!Byte(p) \in Int
  BY <1>2
<1>4. \A p \in 0 .. Utf8!Size - 1 : Utf8!Byte(p) = bytes[p]
  BY <1>1 DEF Utf8!Byte
<1> QED BY <1>1, <1>2, <1>3, <1>4

\* The table of the first byte keeps two_continuations, and that for continuation bytes.
LEMMA FirstByteIs ==
  ASSUME NEW previous \in 0 .. 255
  PROVE  Utf8!FirstByte(previous) = IF previous \in 128 .. 191 THEN {7} ELSE {}
<1> DEFINE D == {"too_short", "too_long", "overlong_3", "too_large", "surrogate",
                 "overlong_2", "overlong_4", "too_large_1000", "two_continuations"}
           C == Utf8!PreviousClasses(previous)
<1>1. DOMAIN Utf8!BitOf = D
  BY DEF Utf8!BitOf
<1>2. Utf8!BitsOf({"two_continuations"}) = {7}
  BY DEF Utf8!BitsOf, Utf8!BitOf
<1>3. previous < 128 => "too_long" \in C
  BY <1>1 DEF Utf8!PreviousClasses
<1>4. previous >= 192 => "too_short" \in C
  BY <1>1 DEF Utf8!PreviousClasses
<1>5. previous \in 128 .. 191 => C = {}
  <2> SUFFICES ASSUME previous \in 128 .. 191, NEW class \in C PROVE FALSE
    OBVIOUS
  <2>1. class \in D
    BY <1>1 DEF Utf8!PreviousClasses
  <2>2. CASE class = "too_long"
    BY <2>2 DEF Utf8!PreviousClasses
  <2>3. CASE class = "too_short"
    BY <2>3 DEF Utf8!PreviousClasses
  <2>4. CASE class = "overlong_2"
    BY <2>4 DEF Utf8!PreviousClasses
  <2>5. CASE class = "surrogate"
    BY <2>5 DEF Utf8!PreviousClasses
  <2>6. CASE class = "overlong_3"
    BY <2>6 DEF Utf8!PreviousClasses
  <2>7. CASE class = "overlong_4"
    BY <2>7 DEF Utf8!PreviousClasses
  <2>8. CASE class = "too_large_1000"
    BY <2>8 DEF Utf8!PreviousClasses
  <2>9. CASE class = "too_large"
    BY <2>9 DEF Utf8!PreviousClasses
  <2>10. CASE class = "two_continuations"
    BY <2>10 DEF Utf8!PreviousClasses
  <2> QED BY <2>1, <2>2, <2>3, <2>4, <2>5, <2>6, <2>7, <2>8, <2>9, <2>10
<1> QED BY <1>2, <1>3, <1>4, <1>5 DEF Utf8!FirstByte

LEMMA SecondByteIs ==
  ASSUME NEW current \in 0 .. 255
  PROVE  7 \in Utf8!SecondByteHigh(current) <=> current \in 128 .. 191
<1> DEFINE high == current \div 16
<1>1. high \in 0 .. 15 /\ (high \in 8 .. 11 <=> current \in 128 .. 191)
  OBVIOUS
<1>2. "two_continuations" \in DOMAIN Utf8!BitOf /\ Utf8!BitOf["two_continuations"] = 7
  BY DEF Utf8!BitOf
<1>3. \A class \in DOMAIN Utf8!BitOf : Utf8!BitOf[class] = 7 => class = "two_continuations"
  BY DEF Utf8!BitOf
<1> DEFINE In(class) ==
      CASE class = "too_short"  -> high < 8 \/ high > 11
        [] class \in {"too_long", "overlong_2", "two_continuations"} -> high \in 8 .. 11
        [] class = "too_large"  -> high \in 9 .. 11
        [] class \in {"too_large_1000", "overlong_4"} -> high = 8
        [] class = "surrogate"  -> high \in 10 .. 11
        [] class = "overlong_3" -> FALSE
<1>4. Utf8!SecondByteHigh(current) = {Utf8!BitOf[class] : class \in {c \in DOMAIN Utf8!BitOf : In(c)}}
  BY DEF Utf8!SecondByteHigh, Utf8!BitsOf
<1>5. In("two_continuations") <=> high \in 8 .. 11
  OBVIOUS
<1> HIDE DEF In, high
<1> QED BY <1>1, <1>2, <1>3, <1>4, <1>5

LEMMA LaneErrors ==
  ASSUME UtfText, NEW p \in Int
  PROVE  Utf8!ContinuationBytes(p) = IF AsAsked(p) THEN {} ELSE {7}
<1>1. Utf8!Classification(p) = IF Continues(p - 1) /\ Continues(p) THEN {7} ELSE {}
  <2>1. Utf8!Byte(p - 1) \in 0 .. 255 /\ Utf8!Byte(p) \in 0 .. 255
    BY ByteType
  <2> QED BY <2>1, FirstByteIs, SecondByteIs DEF Utf8!Classification, Continues, Utf8!IsContinuation
<1>2. CASE Utf8!MustContinue(p)
  BY <1>1, <1>2 DEF AsAsked, Utf8!ContinuationBytes, Utf8!SymDiff
<1>3. CASE ~Utf8!MustContinue(p)
  BY <1>1, <1>3 DEF AsAsked, Utf8!ContinuationBytes, Utf8!SymDiff
<1> QED BY <1>2, <1>3

\* What a thread finds in a group, in terms of the leads.
LEMMA GroupErrorsAre ==
  ASSUME UtfText, NEW g \in Int
  PROVE  /\ Utf8!GroupErrors(g) \subseteq {7}
         /\ Utf8!GroupErrors(g) = {} <=> IF Utf8!Ascii(g) THEN ~Utf8!Incomplete(g)
                                         ELSE \A p \in 4 * g .. 4 * g + 3 : AsAsked(p)
<1>1. 4 * g .. 4 * g + 4 - 1 = 4 * g .. 4 * g + 3 /\ 4 * g .. 4 * g + 3 \subseteq Int
  OBVIOUS
<1>2. CASE Utf8!Ascii(g)
  BY <1>2 DEF Utf8!GroupErrors
<1>3. CASE ~Utf8!Ascii(g)
  <2>1. Utf8!GroupErrors(g) = UNION {Utf8!ContinuationBytes(p) : p \in 4 * g .. 4 * g + 3}
    BY <1>1, <1>3 DEF Utf8!GroupErrors, Utf8!Pack
  <2>2. \A p \in 4 * g .. 4 * g + 3 : Utf8!ContinuationBytes(p) = IF AsAsked(p) THEN {} ELSE {7}
    BY <1>1, LaneErrors
  <2> QED BY <1>3, <2>1, <2>2
<1> QED BY <1>2, <1>3

\* A group of ASCII bytes needs no lane: nothing continues in it, and what asks for
\* continuation bytes is before it.
LEMMA AsciiGroup ==
  ASSUME UtfText, NEW g \in Int, Utf8!Ascii(g), ~Utf8!Incomplete(g), NEW p \in 4 * g .. 4 * g + 3
  PROVE  AsAsked(p)
<1>1. \A q \in 4 * g .. 4 * g + 3 : Utf8!Byte(q) < 128
  BY DEF Utf8!Ascii, Utf8!Pack
<1>2. /\ ~(Utf8!Byte(4 * g - 1) > 191) /\ ~(Utf8!Byte(4 * g - 2) > 223)
      /\ ~(Utf8!Byte(4 * g - 3) > 239)
  BY DEF Utf8!Incomplete, Utf8!Pack
<1>3. \A q : Utf8!Byte(q) \in 0 .. 255
  BY ByteType
<1>4. ~Continues(p)
  BY <1>1, <1>3 DEF Continues, Utf8!IsContinuation
<1>5. ~(Utf8!Byte(p - 2) > 223)
  <2>1. p - 2 = 4 * g - 2 \/ p - 2 = 4 * g - 1 \/ p - 2 \in 4 * g .. 4 * g + 3
    OBVIOUS
  <2>2. Utf8!Byte(p - 2) \in Int /\ Utf8!Byte(4 * g - 1) \in Int
    BY <1>3
  <2> QED BY <1>1, <1>2, <2>1, <2>2
<1>6. ~(Utf8!Byte(p - 3) > 239)
  <2>1. p - 3 = 4 * g - 3 \/ p - 3 = 4 * g - 2 \/ p - 3 = 4 * g - 1 \/ p - 3 \in 4 * g .. 4 * g + 3
    OBVIOUS
  <2>2. /\ Utf8!Byte(p - 3) \in Int /\ Utf8!Byte(4 * g - 1) \in Int
        /\ Utf8!Byte(4 * g - 2) \in Int
    BY <1>3
  <2> QED BY <1>1, <1>2, <2>1, <2>2
<1> QED BY <1>4, <1>5, <1>6 DEF AsAsked, Utf8!MustContinue

LEMMA NoErrorsAsAsked ==
  ASSUME UtfText, NEW g \in Int, Utf8!GroupErrors(g) = {}
  PROVE  \A p \in 4 * g .. 4 * g + 3 : AsAsked(p)
BY GroupErrorsAre, AsciiGroup

-----------------------------------------------------------------------------
\* validUtf8: the positions from which the rest of the text is whole characters.
ValidFrom(v, p) ==
  p = Utf8!Size \/ (Utf8!CharacterAt(p) /\ v[p + 1 + Utf8!Continuations(bytes[p])])

AreValid(v) == v = [p \in 0 .. Utf8!Size |-> ValidFrom(v, p)]

LEMMA CharacterFacts ==
  ASSUME UtfText, NEW p \in 0 .. Utf8!Size - 1, Utf8!CharacterAt(p)
  PROVE  \E n \in 0 .. 3 :
           /\ n = Utf8!Continuations(bytes[p]) /\ p + n < Utf8!Size
           /\ n = 0 <=> bytes[p] < 128
           /\ n >= 2 <=> bytes[p] > 223
           /\ n >= 3 <=> bytes[p] > 239
           /\ ~Continues(p)
           /\ \A k \in 1 .. n : Continues(p + k)
<1> DEFINE n == Utf8!Continuations(bytes[p])
           b == bytes[p]
<1>1. b \in 0 .. 255 /\ Utf8!Size \in Nat /\ p \in Nat
  BY DEF UtfText
<1>2. /\ n = (CASE b < 128 -> 0 [] b \in 194 .. 223 -> 1 [] b \in 224 .. 239 -> 2
                [] b \in 240 .. 244 -> 3 [] OTHER -> -1)
  BY DEF Utf8!Continuations
<1>3. /\ n >= 0 /\ p + n < Utf8!Size
      /\ n >= 1 => bytes[p + 1] \in Utf8!SecondRange(b)
      /\ \A k \in 2 .. n : bytes[p + k] \in 128 .. 191
  BY DEF Utf8!CharacterAt
<1> HIDE DEF n, b
<1>4. \/ b < 128 /\ n = 0
      \/ b \in 194 .. 223 /\ n = 1
      \/ b \in 224 .. 239 /\ n = 2
      \/ b \in 240 .. 244 /\ n = 3
  BY <1>1, <1>2, <1>3
<1>5. Utf8!SecondRange(b) \subseteq 128 .. 191
  <2>1. CASE b = 224
    BY <2>1 DEF Utf8!SecondRange
  <2>2. CASE b = 237
    BY <2>2 DEF Utf8!SecondRange
  <2>3. CASE b = 240
    BY <2>3 DEF Utf8!SecondRange
  <2>4. CASE b = 244
    BY <2>4 DEF Utf8!SecondRange
  <2>5. CASE b \notin {224, 237, 240, 244}
    BY <2>5 DEF Utf8!SecondRange
  <2> QED BY <2>1, <2>2, <2>3, <2>4, <2>5
<1>6. ASSUME NEW k \in 1 .. n PROVE Continues(p + k)
  <2>1. p + k \in 0 .. Utf8!Size - 1
    BY <1>1, <1>3, <1>4
  <2>2. bytes[p + k] \in 128 .. 191
    <3>1. CASE k = 1
      BY <1>3, <1>4, <1>5, <3>1
    <3>2. CASE k # 1
      <4>1. k \in 2 .. n
        BY <1>4, <3>2
      <4> QED BY <1>3, <4>1
    <3> QED BY <3>1, <3>2
  <2> QED BY <2>1, <2>2, ByteType DEF Continues, Utf8!IsContinuation, Utf8!Byte
<1>7. ~Continues(p)
  <2>1. Utf8!Byte(p) = b
    BY ByteType DEF Utf8!Byte, b
  <2> QED BY <1>1, <1>4, <2>1 DEF Continues, Utf8!IsContinuation
<1>8. /\ n \in 0 .. 3
      /\ n = 0 <=> b < 128
      /\ n >= 2 <=> b > 223
      /\ n >= 3 <=> b > 239
  BY <1>1, <1>4
<1>9. n = Utf8!Continuations(bytes[p]) /\ b = bytes[p]
  BY DEF n, b
<1> QED BY <1>3, <1>6, <1>7, <1>8, <1>9

LEMMA ValidCongruent ==
  ASSUME UtfText, NEW v, NEW w, NEW p \in 0 .. Utf8!Size,
         \A q \in p + 1 .. Utf8!Size : v[q] = w[q]
  PROVE  ValidFrom(v, p) = ValidFrom(w, p)
<1>1. CASE p = Utf8!Size
  BY <1>1 DEF ValidFrom
<1>2. CASE p # Utf8!Size /\ ~Utf8!CharacterAt(p)
  BY <1>2 DEF ValidFrom
<1>3. CASE p # Utf8!Size /\ Utf8!CharacterAt(p)
  <2>1. p \in 0 .. Utf8!Size - 1 /\ Utf8!Size \in Nat
    BY <1>3 DEF UtfText
  <2>2. PICK n \in 0 .. 3 : n = Utf8!Continuations(bytes[p]) /\ p + n < Utf8!Size
    BY <1>3, <2>1, CharacterFacts
  <2>3. p + 1 + n \in p + 1 .. Utf8!Size
    BY <2>1, <2>2
  <2>4. v[p + 1 + n] = w[p + 1 + n]
    BY <2>3
  <2> QED BY <2>2, <2>4 DEF ValidFrom
<1> QED BY <1>1, <1>2, <1>3

LEMMA ValidExists ==
  ASSUME UtfText
  PROVE  \E v : AreValid(v)
<1> DEFINE n == Utf8!Size
           Good(k, v) == \A p \in 0 .. n : p >= n - k => v[p] = ValidFrom(v, p)
           Bad == {k \in Nat : ~ \E v : Good(k, v)}
<1>1. n \in Nat
  BY DEF UtfText
<1> HIDE DEF n
<1>2. ASSUME Bad # {} PROVE FALSE
  <2>1. PICK k \in Bad : \A l \in Bad : k <= l
    BY <1>2, LeastElement
  <2>2. k \in Nat /\ ~ \E v : Good(k, v)
    OBVIOUS
  <2>3. PICK w : \A p \in 0 .. n : p >= n - k + 1 => w[p] = ValidFrom(w, p)
    <3>1. CASE k = 0
      <4>1. \A p \in 0 .. n : ~(p >= n - k + 1)
        BY <1>1, <3>1
      <4> QED BY <4>1
    <3>2. CASE k # 0
      <4>1. k - 1 \in Nat /\ ~(k <= k - 1) /\ n - (k - 1) = n - k + 1
        BY <1>1, <2>2, <3>2
      <4>2. \E v : Good(k - 1, v)
        BY <2>1, <4>1
      <4> QED BY <4>1, <4>2
    <3> QED BY <3>1, <3>2
  <2> DEFINE v == [p \in 0 .. n |-> ValidFrom(w, p)]
  <2>4. \A p \in 0 .. n : v[p] = ValidFrom(w, p)
    OBVIOUS
  <2> HIDE DEF v
  <2>5. ASSUME NEW p \in 0 .. n, p >= n - k PROVE v[p] = ValidFrom(v, p)
    <3>1. \A q \in p + 1 .. n : q \in 0 .. n /\ q >= n - k + 1
      BY <1>1, <2>2, <2>5
    <3>2. \A q \in p + 1 .. n : v[q] = w[q]
      BY <2>3, <2>4, <3>1
    <3>3. ValidFrom(v, p) = ValidFrom(w, p)
      BY <3>2, ValidCongruent DEF n
    <3> QED BY <2>4, <3>3
  <2>6. Good(k, v)
    BY <2>5
  <2> QED BY <2>2, <2>6
<1>3. PICK v : \A p \in 0 .. n : v[p] = ValidFrom(v, p)
  <2>1. \E v : Good(n, v)
    BY <1>1, <1>2
  <2>2. PICK v : Good(n, v)
    BY <2>1
  <2>3. \A p \in 0 .. n : p >= n - n
    BY <1>1
  <2> QED BY <2>2, <2>3
<1> DEFINE w == [p \in 0 .. n |-> v[p]]
<1>4. \A p \in 0 .. n : w[p] = v[p]
  OBVIOUS
<1>5. ASSUME NEW p \in 0 .. n PROVE v[p] = ValidFrom(w, p)
  <2> HIDE DEF w
  <2>1. \A q \in p + 1 .. n : v[q] = w[q]
    <3>1. \A q \in p + 1 .. n : q \in 0 .. n
      BY <1>1
    <3> QED BY <1>4, <3>1
  <2>2. ValidFrom(v, p) = ValidFrom(w, p)
    BY <2>1, ValidCongruent DEF n
  <2> QED BY <1>3, <2>2
<1>6. w = [p \in 0 .. n |-> ValidFrom(w, p)]
  BY <1>5
<1> QED BY <1>6 DEF AreValid, n

\* Every byte of a valid text lies in a character from whose start the rest is valid.
LEMMA CharactersCover ==
  ASSUME UtfText, Utf8!ValidUtf8
  PROVE  \A p \in 0 .. Utf8!Size - 1 : \E s \in 0 .. p :
           Utf8!CharacterAt(s) /\ p <= s + Utf8!Continuations(bytes[s])
<1> DEFINE n == Utf8!Size
           v == CHOOSE w : w = [p \in 0 .. n |-> ValidFrom(w, p)]
           L(s) == Utf8!Continuations(bytes[s])
           A == {p \in Int : \E s \in 0 .. p : v[s] /\ Utf8!CharacterAt(s) /\ p <= s + L(s)}
<1>1. n \in Nat
  BY DEF UtfText
<1>2. v = [p \in 0 .. n |-> ValidFrom(v, p)]
  <2>1. \E w : w = [p \in 0 .. n |-> ValidFrom(w, p)]
    BY ValidExists DEF AreValid
  <2> QED BY <2>1
<1>3. v[0]
  <2>1. Utf8!ValidUtf8 = v[0]
    BY DEF Utf8!ValidUtf8, ValidFrom
  <2> QED BY <2>1
<1> HIDE DEF n, v
<1>4. \A p \in 0 .. n - 1 : v[p] => Utf8!CharacterAt(p) /\ v[p + 1 + L(p)]
  <2> SUFFICES ASSUME NEW p \in 0 .. n - 1, v[p] PROVE Utf8!CharacterAt(p) /\ v[p + 1 + L(p)]
    OBVIOUS
  <2>1. p \in 0 .. n /\ p # n
    BY <1>1
  <2>2. v[p] = ValidFrom(v, p)
    BY <1>2, <2>1
  <2>3. ValidFrom(v, p)
    BY <2>2
  <2> QED BY <2>1, <2>3 DEF ValidFrom, n
<1>5. \A p \in 0 .. n - 1 : Utf8!CharacterAt(p) => L(p) \in 0 .. 3
  BY CharacterFacts DEF n
<1> HIDE DEF L
<1>6. CASE n = 0
  BY <1>6 DEF n
<1>7. CASE n # 0
  <2>1. 0 \in A
    BY <1>1, <1>3, <1>4, <1>5, <1>7
  <2>2. ASSUME NEW p \in 0 .. n - 1 - 1, p \in A PROVE p + 1 \in A
    <3>1. PICK s \in 0 .. p : v[s] /\ Utf8!CharacterAt(s) /\ p <= s + L(s)
      BY <2>2
    <3>2. L(s) \in 0 .. 3 /\ s \in 0 .. n - 1 /\ p + 1 \in 0 .. n - 1 /\ s \in 0 .. p + 1
      BY <1>1, <1>5, <3>1
    <3>3. CASE p + 1 <= s + L(s)
      BY <3>1, <3>2, <3>3
    <3>4. CASE ~(p + 1 <= s + L(s))
      <4>1. p + 1 = s + 1 + L(s)
        BY <3>1, <3>2, <3>4
      <4>2. v[p + 1]
        BY <1>4, <3>1, <3>2, <4>1
      <4>3. Utf8!CharacterAt(p + 1) /\ L(p + 1) \in 0 .. 3
        BY <1>4, <1>5, <3>2, <4>2
      <4>4. p + 1 \in 0 .. p + 1 /\ p + 1 <= p + 1 + L(p + 1)
        BY <3>2, <4>3
      <4> QED BY <3>2, <4>2, <4>3, <4>4
    <3> QED BY <3>3, <3>4
  <2>3. \A p \in 0 .. n - 1 : p \in A
    <3>1. 0 \in Int /\ n - 1 \in Int
      BY <1>1
    <3> HIDE DEF A
    <3> QED BY <2>1, <2>2, <3>1, OverInterval
  <2> QED BY <2>3 DEF n, L
<1> QED BY <1>6, <1>7

\* A byte that asks for continuation bytes begins a character, and has them.
LEMMA LeadsHaveTheirs ==
  ASSUME UtfText, Utf8!ValidUtf8, NEW q \in Int, Utf8!Byte(q) > 191
  PROVE  \E n \in 1 .. 3 : /\ n >= 2 <=> Utf8!Byte(q) > 223
                           /\ n >= 3 <=> Utf8!Byte(q) > 239
                           /\ \A k \in 1 .. n : Continues(q + k)
<1>1. q \in 0 .. Utf8!Size - 1 /\ Utf8!Byte(q) = bytes[q] /\ Utf8!Size \in Nat
  BY ByteType DEF Utf8!Byte, UtfText
<1>2. PICK s \in 0 .. q : Utf8!CharacterAt(s) /\ q <= s + Utf8!Continuations(bytes[s])
  BY <1>1, CharactersCover
<1>3. s \in 0 .. Utf8!Size - 1
  BY <1>1
<1>4. PICK n \in 0 .. 3 :
        /\ n = Utf8!Continuations(bytes[s]) /\ s + n < Utf8!Size
        /\ n = 0 <=> bytes[s] < 128
        /\ n >= 2 <=> bytes[s] > 223
        /\ n >= 3 <=> bytes[s] > 239
        /\ \A k \in 1 .. n : Continues(s + k)
  BY <1>2, <1>3, CharacterFacts
<1>5. s = q
  <2> SUFFICES ASSUME s # q PROVE FALSE
    OBVIOUS
  <2>1. q - s \in 1 .. n /\ s + (q - s) = q
    BY <1>1, <1>2, <1>4
  <2>2. Continues(q)
    BY <1>4, <2>1
  <2>3. Utf8!Byte(q) \in 128 .. 191
    BY <2>2 DEF Continues, Utf8!IsContinuation
  <2> QED BY <2>3
<1>6. n \in 1 .. 3
  <2>1. bytes[q] \in Int /\ ~(bytes[q] < 128)
    BY <1>1, ByteType
  <2> QED BY <1>4, <1>5, <2>1
<1> QED BY <1>1, <1>4, <1>5, <1>6

LEMMA ValidAsAsked ==
  ASSUME UtfText, Utf8!ValidUtf8, NEW p \in Int
  PROVE  AsAsked(p)
<1>1. ASSUME Utf8!Byte(p - 2) > 223 PROVE Continues(p - 1) /\ Continues(p)
  <2>1. p - 2 \in Int /\ Utf8!Byte(p - 2) \in Int /\ (p - 2) + 1 = p - 1 /\ (p - 2) + 2 = p
    BY ByteType
  <2>2. PICK n \in 1 .. 3 : n >= 2 /\ \A k \in 1 .. n : Continues((p - 2) + k)
    BY <1>1, <2>1, LeadsHaveTheirs
  <2>3. 1 \in 1 .. n /\ 2 \in 1 .. n
    BY <2>2
  <2> QED BY <2>1, <2>2, <2>3
<1>2. ASSUME Utf8!Byte(p - 3) > 239 PROVE Continues(p - 1) /\ Continues(p)
  <2>1. p - 3 \in Int /\ Utf8!Byte(p - 3) \in Int /\ (p - 3) + 2 = p - 1 /\ (p - 3) + 3 = p
    BY ByteType
  <2>2. PICK n \in 1 .. 3 : n >= 3 /\ \A k \in 1 .. n : Continues((p - 3) + k)
    BY <1>2, <2>1, LeadsHaveTheirs
  <2>3. 2 \in 1 .. n /\ 3 \in 1 .. n
    BY <2>2
  <2> QED BY <2>1, <2>2, <2>3
<1>3. ASSUME Continues(p - 1), Continues(p) PROVE Utf8!MustContinue(p)
  <2>1. p \in 0 .. Utf8!Size - 1 /\ p - 1 \in 0 .. Utf8!Size - 1
    <3>1. 0 \notin 128 .. 191
      OBVIOUS
    <3> QED BY <1>3, <3>1, ByteType DEF Continues, Utf8!IsContinuation, Utf8!Byte
  <2>2. PICK s \in 0 .. p : Utf8!CharacterAt(s) /\ p <= s + Utf8!Continuations(bytes[s])
    BY <2>1, CharactersCover
  <2>3. s \in 0 .. Utf8!Size - 1 /\ Utf8!Size \in Nat
    BY <2>1 DEF UtfText
  <2>4. PICK n \in 0 .. 3 :
          /\ p <= s + n
          /\ n >= 2 <=> bytes[s] > 223
          /\ n >= 3 <=> bytes[s] > 239
    BY <2>2, <2>3, CharacterFacts
  <2>5. ~Continues(s)
    BY <2>2, <2>3, CharacterFacts
  <2>6. s # p /\ s # p - 1
    BY <1>3, <2>5
  <2>7. Utf8!Byte(s) = bytes[s] /\ bytes[s] \in Int
    BY <2>3, ByteType
  <2>8. s = p - 2 \/ s = p - 3
    BY <2>1, <2>3, <2>4, <2>6
  <2>9. CASE s = p - 2
    <3>1. n >= 2
      BY <2>1, <2>3, <2>4, <2>9
    <3> QED BY <2>4, <2>7, <2>9, <3>1 DEF Utf8!MustContinue
  <2>10. CASE s = p - 3
    <3>1. n >= 3
      BY <2>1, <2>3, <2>4, <2>10
    <3> QED BY <2>4, <2>7, <2>10, <3>1 DEF Utf8!MustContinue
  <2> QED BY <2>8, <2>9, <2>10
<1> QED BY <1>1, <1>2, <1>3 DEF AsAsked, Utf8!MustContinue

LEMMA ValidHasNoErrors ==
  ASSUME UtfText, Utf8!ValidUtf8, NEW g \in Int
  PROVE  Utf8!GroupErrors(g) = {}
<1>1. \A p \in 4 * g .. 4 * g + 3 : AsAsked(p)
  BY ValidAsAsked
<1>2. ASSUME Utf8!Ascii(g) PROVE ~Utf8!Incomplete(g)
  <2>1. ~Continues(4 * g)
    <3>1. 4 * g \in 4 * g .. 4 * g + 4 - 1
      OBVIOUS
    <3>2. Utf8!Byte(4 * g) < 128 /\ Utf8!Byte(4 * g) \in Int
      BY <1>2, <3>1, ByteType DEF Utf8!Ascii, Utf8!Pack
    <3> QED BY <3>2 DEF Continues, Utf8!IsContinuation
  <2>2. ASSUME NEW d \in 1 .. 3, Utf8!Byte(4 * g - d) > IF d = 1 THEN 191 ELSE IF d = 2 THEN 223 ELSE 239
        PROVE  FALSE
    <3>1. 4 * g - d \in Int /\ Utf8!Byte(4 * g - d) \in Int /\ (4 * g - d) + d = 4 * g
      BY ByteType
    <3>2. Utf8!Byte(4 * g - d) > 191
      BY <2>2, <3>1
    <3>3. PICK n \in 1 .. 3 : /\ n >= 2 <=> Utf8!Byte(4 * g - d) > 223
                              /\ n >= 3 <=> Utf8!Byte(4 * g - d) > 239
                              /\ \A k \in 1 .. n : Continues((4 * g - d) + k)
      BY <3>1, <3>2, LeadsHaveTheirs
    <3>4. d \in 1 .. n
      BY <2>2, <3>1, <3>3
    <3> QED BY <2>1, <3>1, <3>3, <3>4
  <2> QED BY <2>2 DEF Utf8!Incomplete, Utf8!Pack
<1> QED BY <1>1, <1>2, GroupErrorsAre

-----------------------------------------------------------------------------
LEMMA UtfInit == Utf8!Init => UtfInv
<1> SUFFICES ASSUME Utf8!Init PROVE UtfInv
  OBVIOUS
<1>1. UtfText
  BY Utf8Assumed DEF Utf8!Init, Utf8!Utf8Assumption, UtfText, Utf8!Size
<1> QED BY <1>1 DEF Utf8!Init, UtfInv

LEMMA UtfStep == UtfInv /\ [Utf8!Next]_(Utf8!vars) => UtfInv'
<1> SUFFICES ASSUME UtfInv, [Utf8!Next]_(Utf8!vars) PROVE UtfInv'
  OBVIOUS
<1>1. bytes' = bytes
  BY DEF Utf8!Next, Utf8!Check, Utf8!vars
<1>2. Utf8!Size' = Utf8!Size
  BY <1>1 DEF Utf8!Size
<1>3. Utf8!Words' = Utf8!Words /\ (UtfText => UtfText')
  BY <1>1, <1>2 DEF Utf8!Words, UtfText
<1>4. \A g : Utf8!GroupErrors(g)' = Utf8!GroupErrors(g)
  <2>1. \A p : Utf8!Byte(p)' = Utf8!Byte(p)
    BY <1>1 DEF Utf8!Byte
  <2>2. \A p : Utf8!ContinuationBytes(p)' = Utf8!ContinuationBytes(p)
    BY <2>1 DEF Utf8!ContinuationBytes, Utf8!MustContinue, Utf8!Classification
  <2>3. \A g : Utf8!Ascii(g)' = Utf8!Ascii(g) /\ Utf8!Incomplete(g)' = Utf8!Incomplete(g)
    BY <2>1 DEF Utf8!Ascii, Utf8!Incomplete
  <2> QED BY <2>2, <2>3 DEF Utf8!GroupErrors
<1>5. CASE UNCHANGED Utf8!vars
  <2>1. pending' = pending /\ utf_error' = utf_error
    BY <1>5 DEF Utf8!vars
  <2> QED BY <1>3, <1>4, <2>1 DEF UtfInv
<1>6. ASSUME NEW w \in Utf8!Words, Utf8!Check(w) PROVE UtfInv'
  <2> DEFINE G == w * PartsPerWord .. (w + 1) * PartsPerWord - 1
             found == UNION {Utf8!GroupErrors(g) : g \in G}
  <2>1. pending' = pending \ {w} /\ utf_error' = utf_error \cup found
    BY <1>6 DEF Utf8!Check
  <2>2. UtfText
    BY DEF UtfInv
  <2>3. G \subseteq Nat
    <3>1. PartsPerWord \in Nat \ {0}
      BY Utf8Assumed DEF Utf8!Utf8Assumption
    <3>2. w \in Nat
      BY DEF Utf8!Words
    <3>3. w * PartsPerWord \in Nat
      BY <3>1, <3>2
    <3> QED BY <3>3
  <2>4. \A g \in G : Utf8!GroupErrors(g) \subseteq {7}
    BY <2>2, <2>3, GroupErrorsAre
  <2>5. utf_error' \subseteq {7}
    BY <2>1, <2>4 DEF UtfInv
  <2>6. \A v \in Utf8!Words \ pending' : \A g \in v * PartsPerWord .. (v + 1) * PartsPerWord - 1 :
          Utf8!GroupErrors(g) \subseteq utf_error'
    BY <2>1 DEF UtfInv
  <2>7. utf_error' # {} => \E g \in Nat : Utf8!GroupErrors(g) # {}
    BY <2>1, <2>3 DEF UtfInv
  <2>8. pending' \subseteq Utf8!Words
    BY <2>1 DEF UtfInv
  <2> HIDE DEF G, found
  <2> QED BY <1>3, <1>4, <2>2, <2>5, <2>6, <2>7, <2>8 DEF UtfInv
<1> QED BY <1>5, <1>6 DEF Utf8!Next

LEMMA UtfHolds ==
  UtfInv => Utf8!TypeOK /\ Utf8!NeverFlagsValid /\ Utf8!AcceptedContinuations
<1> SUFFICES ASSUME UtfInv PROVE Utf8!TypeOK /\ Utf8!NeverFlagsValid /\ Utf8!AcceptedContinuations
  OBVIOUS
<1>1. UtfText /\ Utf8!Size \in Nat /\ PartsPerWord \in Nat \ {0}
  BY Utf8Assumed DEF UtfInv, UtfText, Utf8!Utf8Assumption
<1>2. Utf8!TypeOK
  BY <1>1 DEF UtfInv, UtfText, Utf8!TypeOK
<1>3. Utf8!NeverFlagsValid
  BY <1>1, ValidHasNoErrors DEF UtfInv, Utf8!NeverFlagsValid
<1>4. ASSUME pending = {}, utf_error = {}, NEW p \in 0 .. Utf8!Size + 2
      PROVE  AsAsked(p)
  <2> DEFINE g == p \div 4
             w == g \div PartsPerWord
             W == 4 * PartsPerWord
             n == Utf8!Size
  <2>1. p \in Nat /\ g \in Nat /\ p \in 4 * g .. 4 * g + 3
    BY <1>1
  <2>2. w \in Nat /\ g \in w * PartsPerWord .. (w + 1) * PartsPerWord - 1
    <3> DEFINE r == g % PartsPerWord
    <3>1. w \in Nat /\ r \in 0 .. PartsPerWord - 1 /\ g = w * PartsPerWord + r
      BY <1>1, <2>1, Quotient
    <3> HIDE DEF w, r, g
    <3>2. w * PartsPerWord \in Nat /\ (w + 1) * PartsPerWord = w * PartsPerWord + PartsPerWord
      BY <1>1, <3>1
    <3> QED BY <1>1, <3>1, <3>2
  <2>3. w \in Utf8!Words
    <3>1. Utf8!Words = 0 .. (n + W - 1) \div W
      BY DEF Utf8!Words, Utf8!WordSize, Utf8!Pack
    <3>2. W \in Nat \ {0} /\ n \in Nat /\ W >= 4
      BY <1>1
    <3>3. w * W <= p
      <4>1. w * W = 4 * (w * PartsPerWord) /\ w * PartsPerWord \in Nat
        BY <1>1, <2>2
      <4> HIDE DEF w, W
      <4> QED BY <1>1, <2>1, <2>2, <4>1
    <3> HIDE DEF W, w, n, g
    <3> DEFINE m == (n + W - 1) \div W
    <3>4. m \in Nat /\ m * W \in Nat /\ n <= m * W
      BY <3>2, RoundedUp
    <3> HIDE DEF m
    <3>5. w <= m
      <4> SUFFICES ASSUME m < w PROVE FALSE
        BY <2>2, <3>4
      <4>1. m * W + W <= w * W /\ w * W \in Nat
        BY <2>2, <3>2, <3>4, Multiples
      <4> QED BY <2>1, <3>2, <3>3, <3>4, <4>1 DEF n
    <3> QED BY <2>2, <3>1, <3>4, <3>5 DEF m
  <2>4. Utf8!GroupErrors(g) = {}
    BY <1>4, <2>2, <2>3 DEF UtfInv
  <2> HIDE DEF g
  <2> QED BY <1>1, <2>1, <2>4, NoErrorsAsAsked
<1>5. Utf8!AcceptedContinuations
  BY <1>4 DEF Utf8!AcceptedContinuations, Utf8!Checked, AsAsked, Continues
<1> QED BY <1>2, <1>3, <1>5

\* The inductive invariant, while the UTF-8 check is the algorithm that runs.
Utf8Runs == algorithm = "utf8" => UtfInv

\* No order of the threads flags a text that validUtf8 accepts, and a text that none of
\* them flags has its third and fourth bytes exactly where its leads ask for them; the
\* groups the fast path skips and the borders of groups and words included.
THEOREM Utf8FlagsAreRight == AlgorithmsSpec => []Utf8FlagsAgree
<1>1. AlgorithmsInit => Utf8Runs
  BY UtfInit DEF AlgorithmsInit, Utf8Runs
<1>2. Utf8Runs /\ [AlgorithmsNext]_allVars => Utf8Runs'
  <2> SUFFICES ASSUME Utf8Runs, [AlgorithmsNext]_allVars, algorithm' = "utf8" PROVE UtfInv'
    BY DEF Utf8Runs
  <2>1. algorithm = "utf8"
    BY DEF AlgorithmsNext, allVars
  <2>2. [Utf8!Next]_(Utf8!vars)
    BY <2>1 DEF AlgorithmsNext, allVars, Utf8!vars
  <2> QED BY <2>1, <2>2, UtfStep DEF Utf8Runs
<1>3. Utf8Runs => Utf8FlagsAgree
  BY UtfHolds DEF Utf8Runs, Utf8FlagsAgree
<1> QED BY <1>1, <1>2, <1>3, PTL DEF AlgorithmsSpec

=============================================================================
