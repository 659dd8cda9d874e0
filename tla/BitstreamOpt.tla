----------------------------- MODULE BitstreamOpt -----------------------------
(***************************************************************************)
(* bitstream-opt on a CUDA program: recovery makes a pipeline of the       *)
(* kernels a driver launches, or of the facts a frontend found in their    *)
(* source, and the other passes go on from there.                          *)
(***************************************************************************)
EXTENDS CompilerPasses, FactRecovery

CONSTANTS Programs,     \* the chains of kernels that come in
          FactPrograms  \* the fact groups that come in

VARIABLES kernels,      \* the chain, <<>> if another input came in
          facts         \* the fact groups, <<>> if another input came in

optVars == <<vars, kernels, facts>>

\* Either a pipeline comes in, or kernels or facts and no pipeline yet.
OptInit ==
  \/ Init /\ kernels = <<>> /\ facts = <<>>
  \/ /\ \/ kernels \in Programs /\ facts = <<>>
        \/ facts \in FactPrograms /\ kernels = <<>>
     /\ in_order \in Orders
     /\ source = NoPipeline /\ pipeline = NoPipeline /\ analysis = NoAnalysis
     /\ proved = FALSE /\ last = "none" /\ outcome = "ok"

BitstreamRecoverSemantics ==
  /\ outcome = "ok" /\ last = "none"
  /\ \/ facts # <<>> /\ pipeline' = recoverFromFacts(facts)
     \/ kernels # <<>> /\ pipeline' = recoverFromGenericMlir(kernels)
  /\ pipeline'.stages # <<>>
  /\ source' = pipeline'
  /\ last' = "recover-access-graph"
  /\ outcome' = IF ModuleVerifies(pipeline', analysis) THEN "ok" ELSE "invalid"
  /\ UNCHANGED <<in_order, analysis, proved>>

OptNext ==
  /\ \/ BitstreamRecoverSemantics
     \/ pipeline.stages # <<>> /\ Next
  /\ UNCHANGED <<kernels, facts>>

OptSpec == OptInit /\ [][OptNext]_optVars

-----------------------------------------------------------------------------
Recovered == last = "recover-access-graph"

\* The loads or stores of a kernel that an access or a projection of the pipeline stands for.
SourcesOf(k, op, access) ==
  {i \in DOMAIN k.body : /\ k.body[i].op = op /\ k.body[i].buffer = access.buffer
                         /\ IndexExpression(k, Context(k), k.body[i].index) = access.index.expression}

\* Each domain stated of the carried state of a stage, and the loops that carry one.
StatedDomains(stage) ==
  ({stage.state_domain} \cup {stage.recurrences[r].state_domain : r \in DOMAIN stage.recurrences}) \ {NoDomain}

StateLoops(k) == {l \in DOMAIN k.loops : LaneMatches(k, l) # {}}

JointStates(k, known, l) ==
  LET lanes == {b \in DOMAIN k.loops[l].initial :
                  \E lane \in LaneMatches(k, l) : k.loops[l].update[b] \in lane.roots}
  IN  FoldLeft(LAMBDA product, b : product * Cardinality(known.carried[<<l, b>>]), 1, SetToSeq(lanes))

\* With `known' of the words during stage s, its domains bound what is carried and stored ...
DomainsBoundWords(k, stage, known) ==
  /\ Cardinality(StateLoops(k)) = 1 =>
       \A d \in StatedDomains(stage) : \A l \in StateLoops(k) : JointStates(k, known, l) <= d
  /\ \A n \in DOMAIN stage.accesses :
       stage.accesses[n].value_domain # NoDomain =>
         Cardinality(StoredWords(k, known,
             SourcesOf(k, "store", stage.accesses[n]) \cap ExecutedStores(k, known)))
           <= stage.accesses[n].value_domain

\* ... and a projection has an outcome for each kind of word.
OutcomesBoundKinds(k, stage, known) ==
  \A n \in DOMAIN stage.projections :
    WordKinds(k, known, SourcesOf(k, "load", stage.projections[n])) <= stage.projections[n].domain

\* Whatever recovery says of a finite domain is so: a carried state, however many lanes it has
\* and wherever its input comes from, takes no more values than its domain, and neither
\* do all the stores that a recovered write stands for.
DomainsBoundValues ==
  Recovered =>
    \A s \in DOMAIN kernels :
      kernels[s].root # "scan_call" =>
        DomainsBoundWords(kernels[s], pipeline.stages[s], KnownDuring(kernels, s))

\* A projection of a read keeps all that the kernel tells apart: words the kernel treats
\* differently, by what it stores, carries on, branches on or addresses, are at most as many
\* kinds as the projection has outcomes. Of facts that is so of one variable loaded from the element,
\* or of all the expressions that read it.
ProjectionsSuffice ==
  Recovered =>
    /\ \A s \in DOMAIN kernels :
         pipeline.stages[s].projections # <<>> =>
           OutcomesBoundKinds(kernels[s], pipeline.stages[s], KnownDuring(kernels, s))
    /\ \A s \in DOMAIN EnteredStages(facts) :
         FactProjectionsSuffice(EnteredStages(facts)[s], pipeline.stages[s])

\* Every element that the source of a stage reads, through whatever name, has an edge of its own
\* to the last stage that writes the buffer: no read or located store among the facts is lost
\* on the way to the pipeline, and every read of the pipeline has one edge.
SourceReadsHaveEdges ==
  /\ EdgesAreReads
  /\ Recovered =>
       \A s \in DOMAIN EnteredStages(facts) :
         EnteredStages(facts)[s].entry # "library_scan" =>
           FactAccessesKept(EnteredStages(facts)[s], pipeline.stages[s])

=============================================================================
