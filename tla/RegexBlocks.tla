----------------------------- MODULE RegexBlocks -----------------------------
(***************************************************************************)
(* The kernel that BitGen generates for a set of regular expressions       *)
(* (inputs/bitgen/regex_0.cu).  One CTA passes over the input in blocks of *)
(* one unit per thread.  A shift crosses from thread to thread through     *)
(* shared memory but never from block to block: consecutive blocks overlap *)
(* instead, and the units of an overlap are computed twice.                *)
(*                                                                         *)
(* The generated body has some thirty character classes and eighty         *)
(* advances.  Here two expressions stand for it that have every form the   *)
(* body has, a chain, a repetition with a lower bound, and one with an     *)
(* upper bound, whose body is a loop over the whole input:                 *)
(*                                                                         *)
(*     b . . b          and          b .{0,2} a . . b                      *)
(*                                                                         *)
(* A stream word is the set of the positions of its one bits; position 0   *)
(* is the first character (the code's most significant bit).               *)
(***************************************************************************)
EXTENDS Integers, FiniteSets

CONSTANTS
  Texts,           \* functions from 0 .. n - 1 to Char
  UnitBits,        \* characters of a unit: 32
  BlockDim,        \* threads of the CTA
  FirstOverlap,    \* units by which the blocks of the first loop overlap: 3
  Overlap          \* the same of the other loops: 1

Char == {"a", "b", "newline"}

\* The longest chain of a loop, three positions here, fits the overlap; an advance is
\* shorter than a unit.
RegexAssumption ==
  /\ UnitBits \in Nat /\ UnitBits > 2
  /\ FirstOverlap \in Nat \ {0} /\ Overlap \in Nat \ {0}
  /\ BlockDim \in Nat /\ BlockDim > FirstOverlap /\ BlockDim > Overlap
  /\ \A t \in Texts : t \in [0 .. Cardinality(DOMAIN t) - 1 -> Char] /\ DOMAIN t # {}

VARIABLES
  text, garbage,         \* the input, and what lies behind the streams in memory
  pc, loop, block, step, \* of every thread: its place in the body
  regs,                  \* its registers
  flip,                  \* its accum_stream and accum_stream_next, swapped or not
  advance_memory,        \* shared
  any_bit,               \* shared: result of bs_all_zeros
  alt, at_2_in_a_row, within, accum, test,
  bs_result

place    == <<pc, loop, block, step>>
streams  == <<alt, at_2_in_a_row, within, accum, test>>
vars     == <<text, garbage, place, regs, flip, advance_memory, any_bit, streams, bs_result>>

Tids == 0 .. BlockDim - 1
UnitPositions == 0 .. UnitBits - 1

Characters == Cardinality(DOMAIN text)
Units == 0 .. (Characters + UnitBits - 1) \div UnitBits - 1

ClassOf == [a |-> {"a"}, b |-> {"b"}, dot |-> {"a", "b"}]

Stride(which) == BlockDim - (IF which = "first" THEN FirstOverlap ELSE Overlap)

Blocks(which) == (Cardinality(Units) + Stride(which) - 1) \div Stride(which)

UnitOf(t) == block[t] * Stride(loop[t]) + t

\* Lanes behind the input read on; what they read is stored by nobody.
Unit(stream, u) == IF u \in Units THEN stream[u] ELSE garbage

ClassUnit(class, u) ==
  IF u \in Units
  THEN {p \in UnitPositions :
          u * UnitBits + p \in DOMAIN text /\ text[u * UnitBits + p] \in ClassOf[class]}
  ELSE garbage

-----------------------------------------------------------------------------
(***************************************************************************)
(* The advances of a loop, in their order: what is advanced, by how many   *)
(* positions, and what becomes of it.                                      *)
(***************************************************************************)
Advances == [first |-> 6, closure |-> 1, last |-> 2]

Operand(which, k, r) ==
  CASE which = "first"   -> <<r.dot, r.b, r.match, r.b, r.cursor, r.within>>[k]
    [] which = "closure" -> r.test \cap r.dot
    [] which = "last"    -> <<r.accum \cap r.within \cap r.a, r.match>>[k]

Distance(which, k) ==
  IF <<which, k>> \in {<<"first", 2>>, <<"last", 1>>} THEN 2 ELSE 1

After(which, k, r, adv) ==
  CASE which = "first" /\ k = 1 -> [r EXCEPT !.at_2 = r.dot \cap adv]
    [] which = "first" /\ k = 2 -> [r EXCEPT !.match = r.at_2 \cap adv]
    [] which = "first" /\ k = 3 -> [r EXCEPT !.match = r.b \cap adv]
    [] which = "first" /\ k = 4 -> [r EXCEPT !.cursor = adv, !.within = adv]
    [] which = "first"          -> [r EXCEPT !.within = @ \cup adv]
    [] which = "closure"        -> [r EXCEPT !.test = adv \ r.accum, !.accum = @ \cup adv]
    [] which = "last" /\ k = 1  -> [r EXCEPT !.match = r.at_2 \cap adv]
    [] which = "last"           -> [r EXCEPT !.match = r.b \cap adv]

\* get_value_with_bit_offset_right: the thread's unit and its neighbour's; the first
\* thread of the CTA has no neighbour.
Advanced(t, distance) ==
  {p \in UnitPositions :
     IF p >= distance THEN p - distance \in advance_memory[t]
     ELSE t > 0 /\ p - distance + UnitBits \in advance_memory[t - 1]}

-----------------------------------------------------------------------------
Idle == [dot |-> {}, a |-> {}, b |-> {}, at_2 |-> {}, match |-> {}, cursor |-> {},
         within |-> {}, test |-> {}, accum |-> {}, alt |-> {}]

\* The caller's streams are zero: the kernel adds to accum and to the result.
Init ==
  /\ text \in Texts /\ garbage \in {{}, UnitPositions}
  /\ pc = [t \in Tids |-> "load"] /\ loop = [t \in Tids |-> "first"]
  /\ block = [t \in Tids |-> 0] /\ step = [t \in Tids |-> 1]
  /\ regs = [t \in Tids |-> Idle] /\ flip = [t \in Tids |-> 0]
  /\ advance_memory = [t \in Tids |-> garbage] /\ any_bit = (garbage # {})
  /\ alt = [u \in Units |-> {}] /\ at_2_in_a_row = alt /\ within = alt
  /\ accum = [half \in {0, 1} |-> alt] /\ test = accum
  /\ bs_result = alt

Goto(t, label) == pc' = [pc EXCEPT ![t] = label]

Loaded(t) ==
  LET u == UnitOf(t) IN
  CASE loop[t] = "first" ->
         [Idle EXCEPT !.dot = ClassUnit("dot", u), !.b = ClassUnit("b", u)]
    [] loop[t] = "closure" ->
         [Idle EXCEPT !.dot = ClassUnit("dot", u), !.test = Unit(test[flip[t]], u),
                      !.accum = Unit(accum[flip[t]], u)]
    [] loop[t] = "last" ->
         [Idle EXCEPT !.a = ClassUnit("a", u), !.b = ClassUnit("b", u), !.alt = Unit(alt, u),
                      !.at_2 = Unit(at_2_in_a_row, u), !.within = Unit(within, u),
                      !.accum = Unit(accum[flip[t]], u)]

Load(t) ==
  /\ pc[t] = "load" /\ Goto(t, "ready")
  /\ regs' = [regs EXCEPT ![t] = Loaded(t)]
  /\ step' = [step EXCEPT ![t] = 1]
  /\ UNCHANGED <<text, garbage, loop, block, flip, advance_memory, any_bit, streams, bs_result>>

\* BSAdvanceRightFunctionSync, between its barriers and behind them.
Write(t) ==
  /\ pc[t] = "write" /\ Goto(t, "written")
  /\ advance_memory' = [advance_memory EXCEPT ![t] = Operand(loop[t], step[t], regs[t])]
  /\ UNCHANGED <<text, garbage, loop, block, step, regs, flip, any_bit, streams, bs_result>>

Read(t) ==
  /\ pc[t] = "read"
  /\ regs' = [regs EXCEPT ![t] =
                After(loop[t], step[t], @, Advanced(t, Distance(loop[t], step[t])))]
  /\ step' = [step EXCEPT ![t] = @ + 1]
  /\ Goto(t, IF step[t] < Advances[loop[t]] THEN "ready" ELSE "store")
  /\ UNCHANGED <<text, garbage, loop, block, flip, advance_memory, any_bit, streams, bs_result>>

Put(stream, u, word) == IF u \in Units THEN [stream EXCEPT ![u] = word] ELSE stream
Add(stream, u, word) == IF u \in Units THEN [stream EXCEPT ![u] = @ \cup word] ELSE stream

NextBlock(t) == block' = [block EXCEPT ![t] = @ + 1]

\* Most streams keep what the last block stores, accum what any block has stored.
StoreFirst(t) ==
  /\ pc[t] = "store" /\ loop[t] = "first" /\ Goto(t, "stored") /\ NextBlock(t)
  /\ alt' = Put(alt, UnitOf(t), regs[t].match)
  /\ at_2_in_a_row' = Put(at_2_in_a_row, UnitOf(t), regs[t].at_2)
  /\ within' = Put(within, UnitOf(t), regs[t].within)
  /\ accum' = [accum EXCEPT ![flip[t]] = Add(@, UnitOf(t), regs[t].cursor)]
  /\ test' = [test EXCEPT ![flip[t]] = Put(@, UnitOf(t), regs[t].cursor)]
  /\ UNCHANGED <<text, garbage, loop, step, regs, flip, advance_memory, any_bit, bs_result>>

\* No barrier here: the thread goes on to its next block at once.
StoreClosure(t) ==
  /\ pc[t] = "store" /\ loop[t] = "closure" /\ NextBlock(t)
  /\ Goto(t, IF block[t] + 1 < Blocks("closure") THEN "load" ELSE "swept")
  /\ accum' = [accum EXCEPT ![1 - flip[t]] = Add(@, UnitOf(t), regs[t].accum)]
  /\ test' = [test EXCEPT ![1 - flip[t]] = Put(@, UnitOf(t), regs[t].test)]
  /\ UNCHANGED <<text, garbage, loop, step, regs, flip, advance_memory, any_bit, alt,
                 at_2_in_a_row, within, bs_result>>

StoreLast(t) ==
  /\ pc[t] = "store" /\ loop[t] = "last" /\ Goto(t, "stored") /\ NextBlock(t)
  /\ bs_result' = Add(bs_result, UnitOf(t), regs[t].alt \cup regs[t].match)
  /\ UNCHANGED <<text, garbage, loop, step, regs, flip, advance_memory, any_bit, streams>>

Swap(t) ==
  /\ pc[t] = "swap" /\ Goto(t, "clear")
  /\ flip' = [flip EXCEPT ![t] = 1 - @]
  /\ UNCHANGED <<text, garbage, loop, block, step, regs, advance_memory, any_bit, streams, bs_result>>

\* bs_all_zeros(test_stream): every thread clears the flag, some set it, all read it.
Clear(t) ==
  /\ pc[t] = "clear" /\ Goto(t, "cleared") /\ any_bit' = FALSE
  /\ UNCHANGED <<text, garbage, loop, block, step, regs, flip, advance_memory, streams, bs_result>>

StridedUnits(t) == {u \in Units : u % BlockDim = t}

Look(t) ==
  /\ pc[t] = "look" /\ Goto(t, "looked")
  /\ any_bit' = (any_bit \/ \E u \in StridedUnits(t) : test[flip[t]][u] # {})
  /\ UNCHANGED <<text, garbage, loop, block, step, regs, flip, advance_memory, streams, bs_result>>

Decide(t) ==
  /\ pc[t] = "decide" /\ Goto(t, IF any_bit THEN "load" ELSE "left")
  /\ loop' = [loop EXCEPT ![t] = IF any_bit THEN "closure" ELSE "last"]
  /\ block' = [block EXCEPT ![t] = 0]
  /\ UNCHANGED <<text, garbage, step, regs, flip, advance_memory, any_bit, streams, bs_result>>

-----------------------------------------------------------------------------
\* __syncthreads, by the pc of the threads that wait there.
Barriers == {"ready", "written", "stored", "swept", "cleared", "looked", "left"}

\* Mutant: a thread takes the flag before all the others have looked.
Together_NoLooked(barrier) == IF barrier = "looked" THEN {{t} : t \in Tids} ELSE {Tids}

\* The threads that wait for each other.
Together(barrier) == {Tids}

AfterBarrier(barrier, t) ==
  CASE barrier = "ready"   -> "write"
    [] barrier = "written" -> "read"
    [] barrier = "stored"  -> IF block[t] < Blocks(loop[t]) THEN "load"
                              ELSE IF loop[t] = "first" THEN "clear" ELSE "exit"
    [] barrier = "swept"   -> "swap"
    [] barrier = "cleared" -> "look"
    [] barrier = "looked"  -> "decide"
    [] barrier = "left"    -> "load"

Barrier(barrier) ==
  /\ \E group \in Together(barrier) :
       /\ \A t \in group : pc[t] = barrier
       /\ pc' = [t \in Tids |-> IF t \in group THEN AfterBarrier(barrier, t) ELSE pc[t]]
  /\ UNCHANGED <<text, garbage, loop, block, step, regs, flip, advance_memory, any_bit, streams,
                 bs_result>>

Step(t) ==
  \/ Load(t) \/ Write(t) \/ Read(t) \/ StoreFirst(t) \/ StoreClosure(t) \/ StoreLast(t)
  \/ Swap(t) \/ Clear(t) \/ Look(t) \/ Decide(t)

Next == (\E t \in Tids : Step(t)) \/ (\E barrier \in Barriers : Barrier(barrier))

\* A resident CTA keeps running.  No thread spins.
Fairness == WF_vars(Next)

Spec == Init /\ [][Next]_vars /\ Fairness

-----------------------------------------------------------------------------
(***************************************************************************)
(* What the expressions say, on the characters from position "from" on.    *)
(***************************************************************************)
In(class, p) == p \in DOMAIN text /\ text[p] \in ClassOf[class]

AllIn(class, first, last) == \A p \in first .. last : In(class, p)

TwoBefore(from, p) == p - 1 >= from /\ AllIn("dot", p - 1, p)

\* "b . . b" matches from p - 3 to p.
ShortMatch(from, p) == p - 3 >= from /\ In("b", p - 3) /\ TwoBefore(from, p - 1) /\ In("b", p)

\* "b .{0,2} a . . b" matches from first to last, n characters after the first.
LongMatch(first, n, last) ==
  /\ last = first + n + 4 /\ In("b", first) /\ AllIn("dot", first + 1, first + n)
  /\ In("a", first + n + 1) /\ TwoBefore(first, last - 1) /\ In("b", last)

WordAt(Positions(_), u) == {p \in UnitPositions : Positions(u * UnitBits + p)}

Matches(p) ==
  ShortMatch(0, p) \/ \E first \in 0 .. p, n \in 0 .. 2 : LongMatch(first, n, p)

\* The positions at which a later block of the loop starts.
Seams(which) == {k * Stride(which) * UnitBits : k \in 1 .. Blocks(which) - 1}

Crosses(which, first, last) == \E s \in Seams(which) : first < s /\ s <= last

\* The matches that no seam of the first loop cuts, nor, in the repetition, one of the second.
UncutMatches(p) ==
  \/ ShortMatch(0, p) /\ ~Crosses("first", p - 3, p)
  \/ \E first \in 0 .. p, n \in 0 .. 2 :
       LongMatch(first, n, p) /\ ~Crosses("first", first, p) /\ ~Crosses("closure", first + 1, first + n)

Exited == \A t \in Tids : pc[t] = "exit"

Word == SUBSET UnitPositions

\* The type of the shared memory and the streams.
TypeOK ==
  /\ pc \in [Tids -> Barriers \cup {"load", "write", "read", "store", "swap", "clear", "look",
                                    "decide", "exit"}]
  /\ loop \in [Tids -> DOMAIN Advances] /\ flip \in [Tids -> {0, 1}]
  /\ advance_memory \in [Tids -> Word] /\ any_bit \in BOOLEAN
  /\ {alt, at_2_in_a_row, within, bs_result} \subseteq [Units -> Word]
  /\ accum \in [{0, 1} -> [Units -> Word]] /\ test \in [{0, 1} -> [Units -> Word]]

\* What a thread is about to store in the first loop is what the characters of its block
\* say: every advance has found the unit its neighbour wrote for it, none of an earlier
\* or a later advance, and nothing from behind the input.
BlockWordsCorrect ==
  \A t \in Tids :
    (pc[t] = "store" /\ loop[t] = "first" /\ UnitOf(t) \in Units) =>
      LET from == block[t] * Stride("first") * UnitBits
          Cursor(p) == p - 1 >= from /\ In("b", p - 1)
          Near(p) == \E n \in 0 .. 2 : Cursor(p - n)
      IN
      /\ regs[t].at_2   = WordAt(LAMBDA p : TwoBefore(from, p), UnitOf(t))
      /\ regs[t].match  = WordAt(LAMBDA p : ShortMatch(from, p), UnitOf(t))
      /\ regs[t].cursor = WordAt(Cursor, UnitOf(t))
      /\ regs[t].within = WordAt(Near, UnitOf(t))

\* The threads leave the loop over the repetition together: they have swapped their
\* streams equally often, and none takes the flag of another round for its own.
RoundsAgree ==
  \A t, u \in Tids :
    /\ {pc[t], pc[u]} \subseteq {"load", "ready", "write", "written", "read", "looked", "decide"}
         => flip[t] = flip[u]
    /\ pc[t] = "decide" => (any_bit <=> \E unit \in Units : test[flip[t]][unit] # {})

\* At any time, what has been reported is a match.
NoFalseMatch == \A u \in Units : bs_result[u] \subseteq WordAt(Matches, u)

\* In the end every match is reported that no seam cuts.
UncutMatchesReported ==
  Exited => \A u \in Units : WordAt(UncutMatches, u) \subseteq bs_result[u]

=============================================================================
