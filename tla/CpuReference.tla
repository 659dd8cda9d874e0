---------------------------- MODULE CpuReference ----------------------------
(***************************************************************************)
(* The sequential oracles the drivers compare every GPU result with.       *)
(* gp4CpuStructuralBitmap toggles an `escape` flag; gpCpuStructuralBitmap  *)
(* and cuJSON's makeCpuReference count the current run of backslashes and  *)
(* test its parity.  Each loop iteration is one action; the two loops are  *)
(* independent and may be interleaved in any way.                          *)
(***************************************************************************)
EXTENDS JsonText

CONSTANT Texts     \* the inputs a run may be started on

ASSUME TextsAssumption == \A text \in Texts : IsText(text)

VARIABLES
  text,            \* the input bytes, never modified
  toggle,          \* locals of gp4CpuStructuralBitmap
  count            \* locals of makeCpuReference / gpCpuStructuralBitmap

vars == <<text, toggle, count>>

Init ==
  /\ text \in Texts
  /\ toggle = [position |-> 0, escape |-> FALSE, in_string |-> FALSE,
               structural |-> {}]
  /\ count  = [position |-> 0, slash_run |-> 0, in_string |-> FALSE,
               structural |-> {}, open_close |-> {}]

\* Mutant: the toggling loop forgets that an escaped backslash does not escape.
NextEscape_EverySlash(class, escape) == class = "slash"

NextEscape(class, escape) == class = "slash" /\ ~escape

\* Mutant: the counting loop does not clear the run at another byte.
NextSlashRun_NoReset(class, run) == IF class = "slash" THEN run + 1 ELSE run

NextSlashRun(class, run) == IF class = "slash" THEN run + 1 ELSE 0

NextPosition(p) == p + 1

ToggleByte ==
  LET p     == toggle.position
      class == text[p]
      in_string == toggle.in_string # (class = "quote" /\ ~toggle.escape)
  IN  /\ p \in DOMAIN text
      /\ toggle' = [position   |-> NextPosition(p),
                    escape     |-> NextEscape(class, toggle.escape),
                    in_string  |-> in_string,
                    structural |-> toggle.structural \cup
                                   {q \in {p} : ~in_string /\ IsOperator(class)}]
      /\ UNCHANGED <<text, count>>

CountByte ==
  LET p     == count.position
      class == text[p]
      real_quote == class = "quote" /\ count.slash_run % 2 = 0
      in_string  == count.in_string # real_quote
  IN  /\ p \in DOMAIN text
      /\ count' = [position   |-> NextPosition(p),
                   slash_run  |-> NextSlashRun(class, count.slash_run),
                   in_string  |-> in_string,
                   structural |-> count.structural \cup
                                  {q \in {p} : ~in_string /\ IsOperator(class)},
                   open_close |-> count.open_close \cup
                                  {q \in {p} : ~in_string /\ IsOpenClose(class)}]
      /\ UNCHANGED <<text, toggle>>

Next == ToggleByte \/ CountByte

Spec == Init /\ [][Next]_vars

-----------------------------------------------------------------------------
Upto(bitmap, p) == {q \in bitmap : q < p}

TypeOK ==
  /\ text \in Texts
  /\ toggle \in [position: Nat, escape: BOOLEAN, in_string: BOOLEAN,
                 structural: SUBSET DOMAIN text]
  /\ count \in [position: Nat, slash_run: Nat, in_string: BOOLEAN,
                structural: SUBSET DOMAIN text,
                open_close: SUBSET DOMAIN text]
  /\ toggle.position <= Size(text)
  /\ count.position <= Size(text)

\* At every byte, the bitmaps the counting oracle has produced so far are the
\* specified ones: an operator is kept exactly when the number of quotes up to
\* it that no odd run of backslashes escapes is even.
CountOracleCorrect ==
  /\ count.structural = Upto(Structural(text), count.position)
  /\ count.open_close = Upto(OpenClose(text), count.position)

\* The toggling oracle meets the same specification, so the gpJSON and cuJSON
\* drivers accept the same outputs.
ToggleOracleCorrect == toggle.structural = Upto(Structural(text), toggle.position)

=============================================================================
