---------------------------- MODULE PrefixChain -----------------------------
(***************************************************************************)
(* What the enumeration kernels promise, without threads, tickets, memory  *)
(* or flags: in every launch each word of every input publishes its        *)
(* in-string bitmap exactly once, after its predecessor has, the bitmap is *)
(* the specified one, and no launch starts before the one before it has    *)
(* published every word.                                                   *)
(***************************************************************************)
EXTENDS JsonText

CONSTANT WordsOf(_)      \* the words of a batch, as pairs <<input, word_id>>

VARIABLES
  batch,
  launch,
  strings                \* published word -> in-string bitmap

Init ==
  /\ launch = 0
  /\ strings = [w \in {} |-> {}]

NextLaunch ==
  /\ launch = 0 \/ DOMAIN strings = WordsOf(batch)
  /\ launch' = launch + 1
  /\ strings' = [w \in {} |-> {}]
  /\ UNCHANGED batch

Publish(w) ==
  /\ launch > 0
  /\ w \in WordsOf(batch) \ DOMAIN strings
  /\ w[2] = 0 \/ <<w[1], w[2] - 1>> \in DOMAIN strings
  /\ strings' = [v \in DOMAIN strings \cup {w} |->
                   IF v = w THEN InStringWord(batch[w[1]], w[2]) ELSE strings[v]]
  /\ UNCHANGED <<batch, launch>>

Next == NextLaunch \/ \E w \in WordsOf(batch) : Publish(w)

Spec == Init /\ [][Next]_<<batch, launch, strings>>

=============================================================================
