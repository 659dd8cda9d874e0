--------------------------- MODULE ChunkPipelines ---------------------------
(***************************************************************************)
(* The staged CSV, XML and FASTQ baselines: a kernel that classifies every *)
(* byte into mask bytes, one that summarizes every chunk by what it does   *)
(* to the state, CUB's exclusive scan over the summaries, and one that     *)
(* reads every chunk again from the state that enters it.                  *)
(*                                                                         *)
(* The chunks of a kernel are handled in any order.  The per-byte kernel   *)
(* is one step: its threads write a byte each and read only the input.     *)
(* FASTQ sums a chunk with a whole CTA; that is module CtaReduction, here  *)
(* the sum.  The scan associates the summaries in any way.                 *)
(***************************************************************************)
EXTENDS Integers, FiniteSets

(***************************************************************************)
(* The sequential automata of the CSV, XML and FASTQ baselines: the state  *)
(* a scanner has before every byte, and the bytes it emits.  A text is a   *)
(* function from positions to the byte classes the formats tell apart.     *)
(***************************************************************************)
Formats == {"csv", "xml", "fastq"}

ByteClasses == {"lt", "gt", "slash", "eq", "dquote", "squote", "comma", "newline", "other"}

Size(text) == Cardinality(DOMAIN text)

\* CSV: inside quotes or not.  FASTQ: the line of the record.  XML: text, tag,
\* double-quoted and single-quoted value.
States(format) == IF format = "csv" THEN 0 .. 1 ELSE 0 .. 3

XmlStep(state, class) ==
  CASE state = 0 -> IF class = "lt" THEN 1 ELSE 0
    [] state = 1 -> CASE class = "gt" -> 0
                      [] class = "dquote" -> 2
                      [] class = "squote" -> 3
                      [] OTHER -> 1
    [] state = 2 -> IF class = "dquote" THEN 1 ELSE 2
    [] state = 3 -> IF class = "squote" THEN 1 ELSE 3

XmlEmits(state, class) ==
  CASE state = 0 -> class = "lt"
    [] state = 1 -> class \in {"gt", "dquote", "squote", "slash", "eq"}
    [] state = 2 -> class = "dquote"
    [] state = 3 -> class = "squote"

Step(format, state, class) ==
  CASE format = "csv"   -> IF class = "dquote" THEN 1 - state ELSE state
    [] format = "xml"   -> XmlStep(state, class)
    [] format = "fastq" -> IF class = "newline" THEN (state + 1) % 4 ELSE state

Emits(format, state, class) ==
  CASE format = "csv"   -> class = "comma" /\ state = 0
    [] format = "xml"   -> XmlEmits(state, class)
    [] format = "fastq" -> class = "newline" /\ state = 3

(***************************************************************************)
(* The sequential references of the drivers.                               *)
(***************************************************************************)
StatesOf(format, text) ==
  LET before[i \in 0 .. Size(text)] ==
        IF i = 0 THEN 0 ELSE Step(format, before[i - 1], text[i - 1])
  IN before

Emitted(format, text) ==
  {i \in DOMAIN text : Emits(format, StatesOf(format, text)[i], text[i])}

-----------------------------------------------------------------------------

CONSTANTS
  Texts,          \* the inputs of each format
  ChunkBytes,     \* kChunkBytes, FASTQ_CHUNK, XML_STATE_CHUNK
  OutputWordBytes \* XML's output words

ChunkAssumption ==
  /\ \A f \in Formats : \A t \in Texts[f] :
       /\ Size(t) \in Nat \ {0}          \* an empty input never reaches a kernel
       /\ t \in [0 .. Size(t) - 1 -> ByteClasses]
  /\ ChunkBytes \in Nat \ {0} /\ OutputWordBytes \in Nat \ {0}
  /\ ChunkBytes % OutputWordBytes = 0          \* the static_assert of the XML baseline

VARIABLES
  format, text,
  kernel,           \* "classify", "summarize", "scan", "apply", "done"
  pending,          \* chunks the running kernel has not handled
  masks,            \* the class of every byte, as the mask bytes hold it
  summary, newline_count, prefix,
  counts, out

vars == <<format, text, kernel, pending, masks, summary, newline_count, prefix, counts, out>>

CeilDiv(value, divisor) == (value + divisor - 1) \div divisor

Chunks == 0 .. CeilDiv(Size(text), ChunkBytes) - 1
Words  == 0 .. CeilDiv(Size(text), OutputWordBytes) - 1

Begin(c) == c * ChunkBytes

End(c) == IF (c + 1) * ChunkBytes < Size(text) THEN (c + 1) * ChunkBytes ELSE Size(text)

ChunkOf(c) == Begin(c) .. End(c) - 1

-----------------------------------------------------------------------------
(***************************************************************************)
(* Summaries: quote parity, newlines modulo four, outgoing state by        *)
(* incoming state.                                                         *)
(***************************************************************************)

Identity == IF format = "xml" THEN [s \in 0 .. 3 |-> s] ELSE 0

\* Mutant: the second summary is applied first.
Merge_Swapped(first, second) ==
  CASE format = "csv"   -> (first + second) % 2
    [] format = "fastq" -> (first + second) % 4
    [] format = "xml"   -> [s \in 0 .. 3 |-> first[second[s]]]

Merge(first, second) ==
  CASE format = "csv"   -> (first + second) % 2
    [] format = "fastq" -> (first + second) % 4
    [] format = "xml"   -> [s \in 0 .. 3 |-> second[first[s]]]

\* The state a prefix stands for: the automata start in state 0.
StateOfPrefix(p) == IF format = "xml" THEN p[0] ELSE p

\* The states of a scanner that enters the chunk in a given state, read from the masks.
StatesFrom(c, state) ==
  LET before[i \in Begin(c) .. End(c)] ==
        IF i = Begin(c) THEN state ELSE Step(format, before[i - 1], masks[i - 1])
  IN before

Newlines(c) == Cardinality({i \in ChunkOf(c) : masks[i] = "newline"})

SummaryOf(c) ==
  CASE format = "csv"   -> Cardinality({i \in ChunkOf(c) : masks[i] = "dquote"}) % 2
    [] format = "fastq" -> Newlines(c) % 4
    [] format = "xml"   -> [s \in 0 .. 3 |-> StatesFrom(c, s)[End(c)]]

\* Everything an association of summary[i], ..., summary[j - 1] can come to, for every
\* stretch <<i, j>>.
Associations ==
  LET n == Cardinality(Chunks)
      merged[stretch \in (0 .. n) \X (0 .. n)] ==
        LET i == stretch[1]
            j == stretch[2] IN
        IF j <= i THEN {Identity}
        ELSE IF j = i + 1 THEN {summary[i]}
        ELSE UNION {{Merge(first, second) : first \in merged[<<i, m>>], second \in merged[<<m, j>>]} :
                      m \in i + 1 .. j - 1}
  IN merged

-----------------------------------------------------------------------------
\* What an earlier launch, or nobody, left in the buffers: of every element, either of two
\* values. cudaMalloc clears nothing.
Leftovers ==
  {[class   |-> "other", summary |-> Identity, newlines |-> 0, word |-> {}],
   [class   |-> CASE format = "csv" -> "dquote" [] format = "xml" -> "lt" [] format = "fastq" -> "newline",
    summary |-> CASE format = "csv" -> 1 [] format = "xml" -> [s \in 0 .. 3 |-> 3 - s] [] format = "fastq" -> 3,
    newlines |-> ChunkBytes,
    word    |-> 0 .. OutputWordBytes - 1]}

Init ==
  /\ format \in Formats /\ text \in Texts[format]
  /\ kernel = "classify" /\ pending = {}
  /\ \E left \in Leftovers :
       /\ masks = [i \in DOMAIN text |-> left.class]
       /\ summary = [c \in Chunks |-> left.summary] /\ prefix = summary
       /\ newline_count = [c \in Chunks |-> left.newlines] /\ counts = newline_count
       /\ out = [w \in Words |-> left.word]

\* The classes a format has no mask for are left out.
MaskedClasses ==
  CASE format = "csv"   -> {"dquote", "comma"}
    [] format = "xml"   -> {"lt", "gt", "slash", "eq", "dquote", "squote"}
    [] format = "fastq" -> {"newline"}

Classify ==
  /\ kernel = "classify"
  /\ masks' = [i \in DOMAIN text |-> IF text[i] \in MaskedClasses THEN text[i] ELSE "other"]
  /\ kernel' = "summarize" /\ pending' = Chunks
  /\ UNCHANGED <<format, text, summary, newline_count, prefix, counts, out>>

\* The next kernel starts when the last chunk of this one is done.
Handle(c, this, next) ==
  /\ kernel = this /\ c \in pending
  /\ IF pending = {c}
     THEN kernel' = next /\ pending' = IF next = "scan" THEN {} ELSE Chunks
     ELSE kernel' = kernel /\ pending' = pending \ {c}

Summarize(c) ==
  /\ Handle(c, "summarize", "scan")
  /\ summary' = [summary EXCEPT ![c] = SummaryOf(c)]
  /\ newline_count' = [newline_count EXCEPT ![c] = Newlines(c)]
  /\ UNCHANGED <<format, text, masks, prefix, counts, out>>

\* cub::DeviceScan::ExclusiveScan with the operator and identity of the format: the
\* association is CUB's own affair.
Scan ==
  /\ kernel = "scan"
  /\ \E p \in [Chunks -> UNION {Associations[<<0, c>>] : c \in Chunks}] :
       /\ \A c \in Chunks : p[c] \in Associations[<<0, c>>]
       /\ prefix' = p
  /\ kernel' = "apply" /\ pending' = Chunks
  /\ UNCHANGED <<format, text, masks, summary, newline_count, counts, out>>

\* Mutant: the phase that enters the chunk is left out.
CountFromNewlines_NoPhase(newlines, state) == newlines \div 4

\* (newline_count + state) >> 2: the newlines that close a record.
CountFromNewlines(newlines, state) == (newlines + state) \div 4

EmitsFrom(c, state) ==
  {i \in ChunkOf(c) : Emits(format, StatesFrom(c, state)[i], masks[i])}

WordsOf(c) == {i \div OutputWordBytes : i \in ChunkOf(c)}

\* XML: the chunk stores every word it has a byte of, whole.
StoreWords(c, emits) ==
  [w \in Words |->
     IF w \in WordsOf(c)
     THEN {b \in 0 .. OutputWordBytes - 1 : w * OutputWordBytes + b \in emits}
     ELSE out[w]]

Apply(c) ==
  LET state == StateOfPrefix(prefix[c]) IN
  /\ Handle(c, "apply", "done")
  /\ CASE format = "csv" ->
            counts' = [counts EXCEPT ![c] = Cardinality(EmitsFrom(c, state))] /\ UNCHANGED out
       [] format = "fastq" ->
            counts' = [counts EXCEPT ![c] = CountFromNewlines(newline_count[c], state)] /\ UNCHANGED out
       [] format = "xml" ->
            out' = StoreWords(c, EmitsFrom(c, state)) /\ UNCHANGED counts
  /\ UNCHANGED <<format, text, masks, summary, newline_count, prefix>>

Next == Classify \/ Scan \/ \E c \in Chunks : Summarize(c) \/ Apply(c)

Spec == Init /\ [][Next]_vars

-----------------------------------------------------------------------------
Summaries == IF format = "xml" THEN [0 .. 3 -> 0 .. 3] ELSE States(format)

\* The type of the buffers.
TypeOK ==
  /\ format \in Formats
  /\ kernel \in {"classify", "summarize", "scan", "apply", "done"} /\ pending \subseteq Chunks
  /\ masks \in [DOMAIN text -> ByteClasses]
  /\ DOMAIN summary = Chunks /\ DOMAIN prefix = Chunks
  /\ \A c \in Chunks : summary[c] \in Summaries /\ prefix[c] \in Summaries
  /\ newline_count \in [Chunks -> 0 .. ChunkBytes] /\ counts \in [Chunks -> 0 .. ChunkBytes]
  /\ out \in [Words -> SUBSET (0 .. OutputWordBytes - 1)]

\* However the scan associates the chunk summaries, the state it hands to a chunk is
\* the one in which the sequential reference arrives there.
PrefixIsState ==
  kernel \in {"apply", "done"} =>
    \A c \in Chunks : StateOfPrefix(prefix[c]) = StatesOf(format, text)[Begin(c)]

\* A chunk that has been applied holds what the sequential reference counts or emits
\* in it, whole words for XML, and no later chunk takes that away.
AppliedChunksCorrect ==
  LET emitted == Emitted(format, text) IN
  \A c \in Chunks :
    (kernel = "done" \/ (kernel = "apply" /\ c \notin pending)) =>
      IF format = "xml"
      THEN \A w \in WordsOf(c) : out[w] = {b \in 0 .. OutputWordBytes - 1 : w * OutputWordBytes + b \in emitted}
      ELSE counts[c] = Cardinality(emitted \cap ChunkOf(c))

=============================================================================
