------------------------ MODULE WorkflowContextProofs ------------------------
(***************************************************************************)
(* Proofs about WorkflowContext for every set of workflows, however long,   *)
(* and whatever their references, loops and branches are.                   *)
(***************************************************************************)
EXTENDS WorkflowContext, SequenceTheorems, TLAPS

USE IdsAssumption, PlansAssumption, TextKindsAssumption, BoundsAssumption

-----------------------------------------------------------------------------
(* What a run relies on while it has not ended: its workflow was found valid. *)

Busy == pc \notin {"validate", "over"}

RunInv ==
  /\ pc = "validate" => step = 1
  /\ Busy => Valid
  /\ pc = "call" => left > 0
  /\ pc = "item" => Looped(step)
  /\ pc = "finish" /\ ~Looped(step) => content # Nothing /\ content.step = step
  /\ content.step \in {0, step}

TypeInv == TypeOK /\ RunInv

LEMMA PlanFacts ==
  ASSUME plan \in Plans
  PROVE  /\ plan \in Seq(PlanStep) /\ Len(plan) \in Nat /\ Positions = 1..Len(plan)
         /\ \A s \in Positions :
              /\ plan[s] \in PlanStep
              /\ s \in DOMAIN Ids /\ Ids[s] \in Keys /\ Name(s) \in Keys
              /\ plan[s].var # NoVariable => plan[s].var \in Variables /\ plan[s].var \in Keys
<1>1. plan \in Seq(PlanStep) /\ Len(plan) \in Nat /\ Positions = 1..Len(plan)
  BY LenProperties DEF Positions
<1>2. ASSUME NEW s \in Positions PROVE plan[s] \in PlanStep /\ s \in DOMAIN Ids
  <2>1. plan[s] \in PlanStep
    BY <1>1, <1>2, ElementOfSeq
  <2>2. DOMAIN Ids = 1..Len(Ids) /\ Len(Ids) \in Nat /\ Len(plan) <= Len(Ids)
    BY LenProperties
  <2> QED BY <1>1, <1>2, <2>1, <2>2
<1> QED BY <1>1, <1>2 DEF Keys, Identifiers, Variables

LEMMA Points ==
  /\ {"validate", "enter", "item", "call", "finish", "branch", "over"} \subseteq Pcs
  /\ Nothing \in Value /\ NoRef.suffix \in Suffixes
  /\ \A kind \in Kinds : step \in Nat => Made(kind) \in Value /\ Made(kind).step = step
  BY DEF Pcs, Nothing, Value, Kinds, NoRef, Suffixes, Made

\* Positive facts about the kinds of handles.
HandleKinds == {"url", "asset", "artifact"}

LEMMA KindsOfHandles ==
  ASSUME NEW kinds \in Texts \cup {Image, Video}
  PROVE  /\ DOMAIN kinds \subseteq Suffixes \ {"output", "variable"}
         /\ \A suffix \in DOMAIN kinds : kinds[suffix] \in HandleKinds
<1>1. CASE kinds = <<>>
  BY <1>1
<1>2. CASE kinds \in {[asset |-> "asset"], [artifact |-> "artifact"],
                      [asset |-> "asset", artifact |-> "artifact"], Image, Video}
  BY <1>2 DEF Image, Video, Suffixes, HandleKinds
<1> QED BY <1>1, <1>2 DEF Texts

-----------------------------------------------------------------------------
(* How the context changes: each of the three ways, key by key.              *)

\* The keys of the step that runs.
Own == {Ids[step], Name(step)}

LEMMA PublishedValues ==
  ASSUME TypeOK, step \in Positions, NEW suffix \in Suffixes, NEW value \in Value
  PROVE  /\ Published(suffix, value) \in [Suffixes -> [Keys -> Value]]
         /\ \A u \in Suffixes, key \in Keys :
              Published(suffix, value)[u][key] =
                IF u = suffix /\ key \in Own THEN value ELSE context[u][key]
<1>1. Ids[step] \in Keys /\ Name(step) \in Keys
  BY PlanFacts DEF TypeOK
<1>2. context \in [Suffixes -> [Keys -> Value]]
  BY DEF TypeOK
<1> QED BY <1>1, <1>2 DEF Published, Own

LEMMA HandleValues ==
  ASSUME TypeOK, step \in Positions, NEW kinds \in Texts \cup {Image, Video}
  PROVE  /\ Handles(kinds) \in [Suffixes -> [Keys -> Value]]
         /\ \A u \in Suffixes, key \in Keys :
              Handles(kinds)[u][key] =
                IF u \in DOMAIN kinds /\ key \in Own THEN Made(kinds[u]) ELSE context[u][key]
<1>1. ASSUME NEW u \in DOMAIN kinds
      PROVE  u \in Suffixes /\ Made(kinds[u]) \in Value
  <2>1. u \in Suffixes /\ kinds[u] \in Kinds
    BY KindsOfHandles DEF HandleKinds, Kinds
  <2>2. step \in Nat
    BY PlanFacts DEF TypeOK
  <2> QED BY <2>1, <2>2, Points
<1>2. context \in [Suffixes -> [Keys -> Value]]
  BY DEF TypeOK
<1>3. ASSUME NEW u \in Suffixes
      PROVE  /\ Handles(kinds)[u] \in [Keys -> Value]
             /\ \A key \in Keys : Handles(kinds)[u][key] =
                  IF u \in DOMAIN kinds /\ key \in Own THEN Made(kinds[u]) ELSE context[u][key]
  <2>1. CASE u \in DOMAIN kinds
    <3>1. Handles(kinds)[u] = Published(u, Made(kinds[u]))[u]
      BY <2>1 DEF Handles
    <3> QED BY <1>1, <2>1, <3>1, PublishedValues
  <2>2. CASE u \notin DOMAIN kinds
    BY <1>2, <2>2 DEF Handles
  <2> QED BY <2>1, <2>2
<1>4. Handles(kinds) \in [Suffixes -> [Keys -> Value]]
  <2>1. Handles(kinds) = [u \in Suffixes |-> Handles(kinds)[u]]
    BY DEF Handles
  <2> QED BY <1>3, <2>1
<1> QED BY <1>3, <1>4

LEMMA ItemValues ==
  ASSUME TypeOK, step \in Positions, plan[step].var \in Keys
  PROVE  /\ WithItem(plan[step].var) \in [Suffixes -> [Keys -> Value]]
         /\ \A u \in Suffixes, key \in Keys :
              WithItem(plan[step].var)[u][key] =
                IF u \in {"output", "variable"} /\ key = plan[step].var
                THEN Made("item") ELSE context[u][key]
<1>1. context \in [Suffixes -> [Keys -> Value]] /\ Made("item") \in Value
  BY PlanFacts, Points DEF TypeOK, Kinds
<1>2. {"output", "variable"} \subseteq Suffixes
  BY DEF Suffixes
<1> QED BY <1>1, <1>2 DEF WithItem

\* The step publishes under its id and its name, through some kinds of results.
Publishes ==
  \E U \in SUBSET (Suffixes \ {"variable"}) :
    \A u \in Suffixes, key \in Keys :
      IF u \in U /\ key \in Own
      THEN /\ context'[u][key] = context'[u][Ids[step]]
           /\ context'[u][key].step = step /\ context'[u][key] # Nothing
      ELSE context'[u][key] = context[u][key]

\* The item of a loop becomes known.
Takes ==
  /\ plan[step].var \in Variables /\ Looped(step)
  /\ \A u \in Suffixes, key \in Keys :
       context'[u][key] = IF u \in {"output", "variable"} /\ key = plan[step].var
                          THEN Made("item") ELSE context[u][key]

LEMMA RunningPlan ==
  ASSUME TypeInv, Busy
  PROVE  /\ step \in Positions /\ step \in Nat /\ step # 0 /\ Valid
         /\ plan[step] \in PlanStep /\ Ids[step] \in Keys /\ Name(step) \in Keys
         /\ Looped(step) => plan[step].var \in Variables /\ plan[step].var \in Keys
<1>1. step \in Positions /\ Valid
  BY DEF TypeInv, TypeOK, RunInv, Busy
<1>2. Looped(step) => plan[step].var # NoVariable
  BY <1>1 DEF Valid, LoopOk
<1> QED BY <1>1, <1>2, PlanFacts DEF TypeInv, TypeOK

LEMMA CallPublishes ==
  ASSUME TypeInv, pc = "call", NEW kinds \in Texts \cup {Image, Video}, context' = Handles(kinds)
  PROVE  /\ context' \in [Suffixes -> [Keys -> Value]] /\ Publishes
         /\ \A u \in DOMAIN kinds, key \in Own : context'[u][key] # Nothing
<1>1. /\ step \in Positions /\ step \in Nat /\ step # 0 /\ TypeOK
      /\ Ids[step] \in Keys /\ Name(step) \in Keys
  BY RunningPlan DEF Busy, TypeInv
<1>2. /\ context' \in [Suffixes -> [Keys -> Value]]
      /\ \A u \in Suffixes, key \in Keys : context'[u][key] =
           IF u \in DOMAIN kinds /\ key \in Own THEN Made(kinds[u]) ELSE context[u][key]
  BY <1>1, HandleValues
<1>3. ASSUME NEW u \in DOMAIN kinds
      PROVE  u \in Suffixes /\ Made(kinds[u]).step = step /\ Made(kinds[u]) # Nothing
  BY <1>1, KindsOfHandles DEF Made, Nothing
<1>4. DOMAIN kinds \in SUBSET (Suffixes \ {"variable"})
  BY KindsOfHandles
<1>5. Own \subseteq Keys /\ Ids[step] \in Own
  BY <1>1 DEF Own
<1>6. Publishes
  <2>1. ASSUME NEW u \in Suffixes, NEW key \in Keys
        PROVE  IF u \in DOMAIN kinds /\ key \in Own
               THEN /\ context'[u][key] = context'[u][Ids[step]]
                    /\ context'[u][key].step = step /\ context'[u][key] # Nothing
               ELSE context'[u][key] = context[u][key]
    BY <1>2, <1>3, <1>5
  <2> QED BY <1>4, <2>1 DEF Publishes
<1> QED BY <1>2, <1>3, <1>5, <1>6

LEMMA FinishPublishes ==
  ASSUME TypeInv, Finish
  PROVE  /\ context' \in [Suffixes -> [Keys -> Value]] /\ Publishes
         /\ \A key \in Own : context'["output"][key] # Nothing
<1> DEFINE value == IF Looped(step) THEN Made("list") ELSE content
<1>1. /\ step \in Positions /\ step \in Nat /\ step # 0 /\ TypeOK
      /\ Ids[step] \in Keys /\ Name(step) \in Keys
  BY RunningPlan DEF Busy, TypeInv, Finish
<1>2. value \in Value /\ value # Nothing /\ value.step = step
  <2>1. CASE Looped(step)
    BY <1>1, <2>1 DEF Made, Value, Kinds, Nothing
  <2>2. CASE ~Looped(step)
    BY <2>2 DEF TypeInv, TypeOK, RunInv, Finish
  <2> QED BY <2>1, <2>2
<1>3. "output" \in Suffixes /\ {"output"} \in SUBSET (Suffixes \ {"variable"})
  BY DEF Suffixes
<1>4. context' = Published("output", value)
  BY DEF Finish
<1> HIDE DEF value
<1>5. /\ context' \in [Suffixes -> [Keys -> Value]]
      /\ \A u \in Suffixes, key \in Keys : context'[u][key] =
           IF u = "output" /\ key \in Own THEN value ELSE context[u][key]
  <2>1. /\ Published("output", value) \in [Suffixes -> [Keys -> Value]]
        /\ \A u \in Suffixes, key \in Keys : Published("output", value)[u][key] =
             IF u = "output" /\ key \in Own THEN value ELSE context[u][key]
    BY <1>1, <1>2, <1>3, PublishedValues
  <2> QED BY <1>4, <2>1
<1>6. Own \subseteq Keys /\ Ids[step] \in Own
  BY <1>1 DEF Own
<1>7. ASSUME NEW u \in Suffixes, NEW key \in Keys
      PROVE  IF u \in {"output"} /\ key \in Own
             THEN /\ context'[u][key] = context'[u][Ids[step]]
                  /\ context'[u][key].step = step /\ context'[u][key] # Nothing
             ELSE context'[u][key] = context[u][key]
  BY <1>2, <1>5, <1>6
<1>8. Publishes
  BY <1>3, <1>7 DEF Publishes
<1> QED BY <1>2, <1>3, <1>5, <1>6, <1>8

-----------------------------------------------------------------------------
(* Type correctness.                                                         *)

LEMMA InitTyped == Init => TypeInv
<1> SUFFICES ASSUME Init PROVE TypeInv
  OBVIOUS
<1>1. context \in [Suffixes -> [Keys -> Value]]
  BY Points DEF Init
<1>2. TypeOK
  BY <1>1, Points DEF Init, TypeOK, Outcomes
<1>3. RunInv
  BY DEF Init, RunInv, Busy, Nothing
<1> QED BY <1>2, <1>3 DEF TypeInv

\* What a plan decides stays.
LEMMA SamePlan ==
  ASSUME UNCHANGED plan
  PROVE  /\ Positions' = Positions /\ Keys' = Keys /\ Identifiers' = Identifiers
         /\ Variables' = Variables /\ \A s : Name(s)' = Name(s) /\ (Looped(s) <=> Looped(s)')
         /\ Valid' <=> Valid
<1>1. Positions' = Positions
  BY DEF Positions
<1>2. \A s : Name(s)' = Name(s) /\ (Looped(s) <=> Looped(s)')
  BY DEF Name, Looped
<1>3. Variables' = Variables
  BY DEF Variables, Positions
<1>4. Identifiers' = Identifiers
  BY DEF Identifiers, Positions, Name
<1>5. Keys' = Keys
  BY <1>3, <1>4 DEF Keys
<1>6. Valid' <=> Valid
  BY <1>1, <1>2, <1>4
     DEF Valid, ConditionOk, LoopOk, ConfigOk, KnownOrItem, Known, Looped
<1> QED BY <1>1, <1>2, <1>3, <1>4, <1>5, <1>6

\* A step that keeps the plan and ends the run.
LEMMA EndTyped ==
  ASSUME TypeInv, NEW how \in Outcomes, NEW ref, ref.suffix \in Suffixes, End(how, ref),
         UNCHANGED plan, context' \in [Suffixes -> [Keys -> Value]],
         started' \in [Positions -> 0..MaxVisits]
  PROVE  TypeInv'
<1>1. pc' = "over" /\ outcome' = how /\ missing' = ref /\ UNCHANGED <<step, left, content>>
  BY DEF End, GoTo
<1>2. TypeOK'
  BY <1>1, SamePlan, Points DEF TypeInv, TypeOK
<1>3. RunInv'
  BY <1>1 DEF TypeInv, RunInv, Busy
<1> QED BY <1>2, <1>3 DEF TypeInv

\* A step of a run that goes on at a position of its plan.
LEMMA GoesOnTyped ==
  ASSUME TypeInv, NEW point \in Pcs \ {"validate", "over"}, pc' = point, Running,
         UNCHANGED plan, step' \in Positions, left' \in 0..(MaxItems + 1),
         content' \in Value, context' \in [Suffixes -> [Keys -> Value]],
         started' \in [Positions -> 0..MaxVisits], Valid,
         point = "call" => left' > 0, point = "item" => Looped(step'),
         point = "finish" /\ ~Looped(step') => content' # Nothing /\ content'.step = step',
         content'.step \in {0, step'}
  PROVE  TypeInv'
<1>1. TypeOK'
  BY SamePlan DEF TypeInv, TypeOK, Running, result
<1>2. Valid'
  BY SamePlan
<1>3. RunInv'
  BY <1>2 DEF RunInv, Busy, Looped
<1> QED BY <1>1, <1>3 DEF TypeInv

LEMMA ValidateTyped == ASSUME TypeInv, Validate PROVE TypeInv'
<1>1. /\ UNCHANGED <<plan, context, started>> /\ TypeOK /\ pc = "validate"
      /\ context \in [Suffixes -> [Keys -> Value]] /\ started \in [Positions -> 0..MaxVisits]
  BY DEF Validate, TypeInv, TypeOK
<1>2. CASE End("rejected", NoRef)
  BY <1>1, <1>2, EndTyped, Points DEF Outcomes
<1>3. CASE Valid /\ GoTo("enter") /\ Running
  <2>1. pc' = "enter" /\ "enter" \in Pcs /\ UNCHANGED <<step, left, content>>
    BY <1>3, Points DEF GoTo
  <2>2. step \in Positions
    BY <1>1, <1>3, PlanFacts DEF TypeInv, TypeOK, RunInv, Valid
  <2>3. /\ left \in 0..(MaxItems + 1) /\ content \in Value /\ content.step \in {0, step}
    BY DEF TypeInv, TypeOK, RunInv
  <2> QED BY <1>1, <1>3, <2>1, <2>2, <2>3, GoesOnTyped
<1> QED BY <1>2, <1>3 DEF Validate

LEMMA EnterTyped == ASSUME TypeInv, Enter PROVE TypeInv'
<1>1. /\ UNCHANGED <<plan, context>> /\ TypeOK /\ pc = "enter" /\ Valid
      /\ context \in [Suffixes -> [Keys -> Value]]
      /\ step \in Positions /\ plan[step] \in PlanStep /\ content \in Value
      /\ content.step \in {0, step}
  BY RunningPlan DEF Enter, TypeInv, TypeOK, RunInv, Busy
<1>2. started' \in [Positions -> 0..MaxVisits]
  <2>1. started \in [Positions -> 0..MaxVisits] /\ started[step] < MaxVisits
    BY DEF Enter, TypeInv, TypeOK
  <2>2. started[step] + 1 \in 0..MaxVisits
    BY <1>1, <2>1
  <2> QED BY <2>1, <2>2 DEF Enter
<1>3. plan[step].source.suffix \in Suffixes
  BY <1>1 DEF PlanStep, Reference
<1>4. CASE End("unresolved", plan[step].source) \/ End("failed", plan[step].source)
  BY <1>1, <1>2, <1>3, <1>4, EndTyped DEF Outcomes
<1>5. CASE /\ ~Looped(step) /\ Running
           /\ pc' = "call" /\ left' = 1 /\ UNCHANGED <<step, content>>
  <2>1. left' \in 0..(MaxItems + 1) /\ left' > 0 /\ "call" \in Pcs
    BY <1>5, Points
  <2> QED BY <1>1, <1>2, <1>5, <2>1, GoesOnTyped
<1>6. CASE /\ Looped(step) /\ Running
           /\ pc' = "item" /\ left' \in 0..MaxItems /\ UNCHANGED <<step, content>>
  <2>1. left' \in 0..(MaxItems + 1) /\ "item" \in Pcs
    BY <1>6, Points
  <2> QED BY <1>1, <1>2, <1>6, <2>1, GoesOnTyped
<1> QED BY <1>4, <1>5, <1>6 DEF Enter

LEMMA ItemTyped == ASSUME TypeInv, BeginItem PROVE TypeInv' /\ (UNCHANGED context \/ Takes)
<1>1. /\ UNCHANGED <<plan, started, step, left, content>> /\ Running
      /\ TypeOK /\ pc = "item" /\ Valid /\ step \in Positions /\ Looped(step)
      /\ context \in [Suffixes -> [Keys -> Value]] /\ started \in [Positions -> 0..MaxVisits]
      /\ content \in Value /\ content.step \in {0, step} /\ left \in 0..(MaxItems + 1)
      /\ plan[step].var \in Variables /\ plan[step].var \in Keys
  BY RunningPlan DEF BeginItem, GoTo, TypeInv, TypeOK, RunInv, Busy
<1>2. {"finish", "call"} \subseteq Pcs
  BY Points
<1>3. CASE left = 0 /\ GoTo("finish") /\ UNCHANGED context
  BY <1>1, <1>2, <1>3, GoesOnTyped DEF GoTo
<1>4. CASE left > 0 /\ GoTo("call") /\ context' = WithItem(plan[step].var)
  <2>1. Takes /\ context' \in [Suffixes -> [Keys -> Value]]
    BY <1>1, <1>4, ItemValues DEF Takes
  <2> QED BY <1>1, <1>2, <1>4, <2>1, GoesOnTyped DEF GoTo
<1> QED BY <1>3, <1>4 DEF BeginItem

LEMMA TemplatesTyped ==
  ASSUME NEW s, plan[s] \in PlanStep
  PROVE  Templates(s) \subseteq Reference
BY DEF Templates, Unchecked, PlanStep

LEMMA CallTyped == ASSUME TypeInv, Call PROVE TypeInv' /\ (UNCHANGED context \/ Publishes)
<1>1. /\ UNCHANGED <<plan, started>>
      /\ TypeOK /\ pc = "call" /\ Valid /\ step \in Positions /\ step \in Nat
      /\ context \in [Suffixes -> [Keys -> Value]] /\ started \in [Positions -> 0..MaxVisits]
      /\ left \in 0..(MaxItems + 1) /\ left > 0 /\ plan[step] \in PlanStep
  BY RunningPlan DEF Call, TypeInv, TypeOK, RunInv, Busy
<1>2. ASSUME NEW ref \in Templates(step) \cup {NoRef}, NEW how \in {"unresolved", "failed"},
             End(how, ref), UNCHANGED context
      PROVE  TypeInv'
  <2>1. ref.suffix \in Suffixes
    BY <1>1, TemplatesTyped, Points DEF Reference
  <2> QED BY <1>1, <1>2, <2>1, EndTyped DEF Outcomes
<1>3. ASSUME NEW kind \in TextKinds \cup {"result"}, NEW kinds \in Texts \cup {Image, Video},
             Produce(kind, Handles(kinds))
      PROVE  TypeInv' /\ Publishes
  <2>1. /\ context' = Handles(kinds) /\ left' = left - 1 /\ content' = Made(kind)
        /\ UNCHANGED step /\ Running /\ pc' = IF Looped(step) THEN "item" ELSE "finish"
    BY <1>3 DEF Produce
  <2>2. context' \in [Suffixes -> [Keys -> Value]] /\ Publishes
    BY <1>1, <2>1, CallPublishes
  <2>3. /\ content' \in Value /\ content'.step = step /\ content' # Nothing
        /\ left' \in 0..(MaxItems + 1)
    BY <1>1, <2>1 DEF Made, Value, Kinds, Nothing
  <2>4. {"item", "finish"} \subseteq Pcs
    BY Points
  <2>5. CASE Looped(step)
    BY <1>1, <2>1, <2>2, <2>3, <2>4, <2>5, GoesOnTyped
  <2>6. CASE ~Looped(step)
    BY <1>1, <2>1, <2>2, <2>3, <2>4, <2>6, SamePlan, GoesOnTyped
  <2> QED BY <2>2, <2>5, <2>6
<1>4. PromptGaps \subseteq Templates(step)
  BY DEF PromptGaps, Unresolved
<1> QED BY <1>2, <1>3, <1>4 DEF Call

LEMMA FinishTyped == ASSUME TypeInv, Finish PROVE TypeInv' /\ Publishes
<1>1. /\ UNCHANGED <<plan, started, step, left, content>> /\ Running /\ pc' = "branch"
      /\ TypeOK /\ pc = "finish" /\ Valid /\ step \in Positions
      /\ started \in [Positions -> 0..MaxVisits]
      /\ content \in Value /\ content.step \in {0, step} /\ left \in 0..(MaxItems + 1)
  BY RunningPlan DEF Finish, GoTo, TypeInv, TypeOK, RunInv, Busy
<1>2. "branch" \in Pcs
  BY Points
<1> QED BY <1>1, <1>2, FinishPublishes, GoesOnTyped

LEMMA BranchTyped == ASSUME TypeInv, Branch PROVE TypeInv'
<1>1. /\ UNCHANGED <<plan, context, started>>
      /\ TypeOK /\ pc = "branch" /\ Valid /\ step \in Positions
      /\ context \in [Suffixes -> [Keys -> Value]] /\ started \in [Positions -> 0..MaxVisits]
      /\ plan[step] \in PlanStep
  BY RunningPlan DEF Branch, TypeInv, TypeOK, RunInv, Busy
<1>2. NoRef.suffix \in Suffixes /\ plan[step].condition.suffix \in Suffixes
  BY <1>1, Points DEF PlanStep, Reference
<1>3. CASE End("unresolved", plan[step].condition) \/ End("completed", NoRef)
  BY <1>1, <1>2, <1>3, EndTyped DEF Outcomes
<1>4. ASSUME NEW next \in Targets, next # 0, pc' = "enter", step' = next, left' = 0,
             content' = Nothing, Running
      PROVE  TypeInv'
  <2>1. next \in Positions
    <3>1. Following \in Positions \cup {0}
      BY DEF Following
    <3>2. plan[step].condition # NoRef =>
            {plan[step].onTrue, plan[step].onFalse} \subseteq Positions \cup {0}
      BY <1>1 DEF Valid, ConditionOk
    <3> QED BY <1>4, <3>1, <3>2 DEF Targets
  <2>2. "enter" \in Pcs /\ content' \in Value /\ content'.step = 0 /\ left' \in 0..(MaxItems + 1)
    BY <1>4, Points DEF Nothing
  <2> QED BY <1>1, <1>4, <2>1, <2>2, GoesOnTyped
<1> QED BY <1>3, <1>4 DEF Branch

LEMMA NextTyped ==
  ASSUME TypeInv, [Next]_vars
  PROVE  TypeInv' /\ UNCHANGED plan /\ (UNCHANGED context \/ (Busy /\ (Publishes \/ Takes)))
<1>1. CASE UNCHANGED vars
  <2>1. UNCHANGED <<plan, context, pc, step, left, content, started, outcome, missing>>
    BY <1>1 DEF vars, control, result
  <2>2. TypeOK'
    BY <2>1, SamePlan DEF TypeInv, TypeOK
  <2>3. RunInv'
    BY <2>1, SamePlan DEF TypeInv, RunInv, Busy
  <2> QED BY <2>1, <2>2, <2>3 DEF TypeInv
<1>2. CASE Validate \/ Enter \/ Branch
  BY <1>2, ValidateTyped, EnterTyped, BranchTyped DEF Validate, Enter, Branch
<1>3. CASE BeginItem
  BY <1>3, ItemTyped DEF BeginItem, Busy
<1>4. CASE Call
  BY <1>4, CallTyped DEF Call, Busy
<1>5. CASE Finish
  BY <1>5, FinishTyped DEF Finish, Busy
<1> QED BY <1>1, <1>2, <1>3, <1>4, <1>5 DEF Next

(* Type correctness, and that a run that goes on is one of a valid workflow: a *)
(* branch leads to a step there is, and a loop has a variable.                *)
THEOREM TypeInvariant == Spec => []TypeInv
  BY InitTyped, NextTyped, PTL DEF Spec

(* Every dictionary of the context, and the position of the run, stay in range. *)
THEOREM TypeCorrect == Spec => []TypeOK
<1>1. TypeInv => TypeOK
  BY DEF TypeInv
<1> QED BY <1>1, TypeInvariant, PTL

-----------------------------------------------------------------------------
(* Names and ids.                                                            *)

\* What a step writes, it writes under its own id and name, or an item's.
LEMMA NamesKept ==
  ASSUME TypeInv, NamesAgreeWithIds, UNCHANGED plan,
         UNCHANGED context \/ (Busy /\ (Publishes \/ Takes))
  PROVE  NamesAgreeWithIds'
<1> SUFFICES ASSUME NEW s \in Positions, NEW suffix \in Suffixes \ {"variable"}, OwnName(s)
             PROVE  /\ context'[suffix][Ids[s]] = context'[suffix][Name(s)]
                    /\ context'[suffix][Ids[s]].step \in {0, s}
  <2>1. \A s : OwnName(s)' => OwnName(s)
    BY SamePlan DEF OwnName
  <2> QED BY <2>1, SamePlan DEF NamesAgreeWithIds
<1>1. /\ context[suffix][Ids[s]] = context[suffix][Name(s)]
      /\ context[suffix][Ids[s]].step \in {0, s}
  BY DEF NamesAgreeWithIds
<1>2. Ids[s] \in Keys /\ Name(s) \in Keys /\ s \in DOMAIN Ids
  BY PlanFacts DEF TypeInv, TypeOK
<1>3. CASE UNCHANGED context
  BY <1>1, <1>3
<1>4. CASE Busy /\ Publishes
  <2>1. PICK U \in SUBSET (Suffixes \ {"variable"}) :
          \A u \in Suffixes, key \in Keys :
            IF u \in U /\ key \in Own
            THEN /\ context'[u][key] = context'[u][Ids[step]]
                 /\ context'[u][key].step = step /\ context'[u][key] # Nothing
            ELSE context'[u][key] = context[u][key]
    BY <1>4 DEF Publishes
  <2>2. CASE s = step
    BY <1>1, <1>2, <2>1, <2>2 DEF Own
  <2>3. CASE s # step
    <3>1. step \in Positions /\ step \in DOMAIN Ids
      BY <1>4, RunningPlan, PlanFacts DEF TypeInv, TypeOK
    <3>2. Ids[s] \notin Own
      BY <1>2, <2>3, <3>1 DEF Own, OwnName
    <3>3. Name(s) \notin Own
      BY <2>3, <3>1 DEF Own, OwnName
    <3> QED BY <1>1, <1>2, <2>1, <3>2, <3>3
  <2> QED BY <2>2, <2>3
<1>5. CASE Takes
  <2>1. Ids[s] # plan[step].var /\ Name(s) # plan[step].var
    BY <1>5 DEF Takes, OwnName
  <2> QED BY <1>1, <1>2, <1>5, <2>1 DEF Takes
<1> QED BY <1>3, <1>4, <1>5

(* The id and the name of a step always lead to the same value, of that step:   *)
(* neither the results of other steps nor the items of a loop get in between.  *)
THEOREM NamesAndIdsAgree == Spec => []NamesAgreeWithIds
<1>1. Init => NamesAgreeWithIds
  <2> SUFFICES ASSUME Init PROVE NamesAgreeWithIds
    OBVIOUS
  <2>1. \A s \in Positions : Ids[s] \in Keys /\ Name(s) \in Keys
    BY PlanFacts DEF Init
  <2>2. context = [suffix \in Suffixes |-> [key \in Keys |-> Nothing]]
    BY DEF Init
  <2> QED BY <2>1, <2>2 DEF NamesAgreeWithIds, Nothing
<1>2. TypeInv /\ NamesAgreeWithIds /\ [Next]_vars => NamesAgreeWithIds'
  BY NextTyped, NamesKept
<1> QED BY <1>1, <1>2, TypeInvariant, PTL DEF Spec

-----------------------------------------------------------------------------
(* What a run fails on.                                                      *)

\* An outcome is the end, and what a run fails on stays that of its last step.
OutcomeInv == (pc # "over" => outcome = "running") /\ UnresolvedIsKnown

LEMMA UnresolvedKept == TypeInv /\ OutcomeInv /\ [Next]_vars => OutcomeInv'
<1> SUFFICES ASSUME TypeInv, OutcomeInv, [Next]_vars PROVE OutcomeInv'
  OBVIOUS
<1>1. UNCHANGED plan /\ Identifiers' = Identifiers
  BY NextTyped, SamePlan
<1>2. ASSUME (Running /\ pc # "over") \/ UNCHANGED vars PROVE OutcomeInv'
  BY <1>1, <1>2 DEF Running, vars, control, result, OutcomeInv, UnresolvedIsKnown, Unchecked
<1>3. ASSUME NEW how, NEW ref, End(how, ref),
             how # "unresolved" \/ KnownOrItem(ref) \/ ref \in Unchecked(step)
      PROVE  OutcomeInv'
  BY <1>1, <1>3 DEF End, GoTo, OutcomeInv, UnresolvedIsKnown, KnownOrItem, Known, Unchecked
<1>4. CASE Validate
  BY <1>2, <1>3, <1>4 DEF Validate
<1>5. CASE Enter
  <2>1. Looped(step) => KnownOrItem(plan[step].source)
    <3>1. Valid /\ step \in Positions
      BY <1>5, RunningPlan DEF Enter, Busy
    <3> QED BY <3>1 DEF Valid, LoopOk, KnownOrItem
  <2> QED BY <1>2, <1>3, <1>5, <2>1 DEF Enter
<1>6. CASE BeginItem \/ Finish
  BY <1>2, <1>6 DEF BeginItem, Finish
<1>7. CASE Call
  <2>1. \A ref \in PromptGaps : KnownOrItem(ref) \/ ref \in Unchecked(step)
    <3>1. Valid /\ step \in Positions
      BY <1>7, RunningPlan DEF Call, Busy
    <3> QED BY <3>1 DEF Valid, ConfigOk, PromptGaps, Unresolved, Templates
  <2> QED BY <1>2, <1>3, <1>7, <2>1 DEF Call, Produce
<1>8. CASE Branch
  <2>1. plan[step].condition # NoRef => KnownOrItem(plan[step].condition)
    <3>1. Valid /\ step \in Positions
      BY <1>8, RunningPlan DEF Branch, Busy
    <3> QED BY <3>1 DEF Valid, ConditionOk
  <2> QED BY <1>2, <1>3, <1>8, <2>1 DEF Branch
<1> QED BY <1>2, <1>4, <1>5, <1>6, <1>7, <1>8 DEF Next

(* A run of a validated workflow that ends on a reference ends on one the       *)
(* validator knows, in the values of its configs, its loop sources and its      *)
(* conditions, or on one in the name or the keys that a prompt resolves too.  *)
THEOREM UnresolvedNames == Spec => []UnresolvedIsKnown
<1>1. Init => OutcomeInv
  BY DEF Init, OutcomeInv, UnresolvedIsKnown
<1>2. OutcomeInv => UnresolvedIsKnown
  BY DEF OutcomeInv
<1> QED BY <1>1, <1>2, UnresolvedKept, TypeInvariant, PTL DEF Spec

-----------------------------------------------------------------------------
(* A pipeline whose steps refer to earlier ones.                             *)

\* Something is found under the key.
Stored(suffix, key) == context[suffix][key] # Nothing

\* All that step t offers but its output, and all of it, can be found.
Handled(t) ==
  \A suffix \in Suffixes \ {"output", "variable"} :
    Offers(t, suffix) => Stored(suffix, Ids[t]) /\ Stored(suffix, Name(t))

Available(t) == Handled(t) /\ Stored("output", Ids[t]) /\ Stored("output", Name(t))

\* What the steps so far have left for those to come.
ReadyInv ==
  WellFormed /\ Busy =>
    /\ \A t \in 1..(step - 1) : Available(t)
    /\ pc = "finish" => Handled(step)
    /\ pc = "branch" => Available(step)
    /\ pc = "call" /\ Looped(step) => /\ Stored("output", plan[step].var)
                                      /\ Stored("variable", plan[step].var)

LEMMA NothingIsForgotten ==
  ASSUME TypeInv, UNCHANGED context \/ (Busy /\ (Publishes \/ Takes)),
         NEW suffix \in Suffixes, NEW key \in Keys, Stored(suffix, key)
  PROVE  Stored(suffix, key)'
<1>1. CASE UNCHANGED context
  BY <1>1 DEF Stored
<1>2. CASE Publishes
  BY <1>2 DEF Publishes, Stored
<1>3. CASE Takes
  <2>1. Made("item") # Nothing
    BY DEF Made, Nothing
  <2> QED BY <1>3, <2>1 DEF Takes, Stored
<1> QED BY <1>1, <1>2, <1>3

LEMMA StaysAvailable ==
  ASSUME TypeInv, UNCHANGED plan, UNCHANGED context \/ (Busy /\ (Publishes \/ Takes)),
         NEW t \in Positions
  PROVE  /\ Available(t) => Available(t)'
         /\ Handled(t) => Handled(t)'
<1>1. Ids[t] \in Keys /\ Name(t) \in Keys /\ "output" \in Suffixes
  BY PlanFacts DEF TypeInv, TypeOK, Suffixes
<1>2. \A suffix : Offers(t, suffix) <=> Offers(t, suffix)'
  BY DEF Offers, Looped, Image, Video
<1>3. Name(t)' = Name(t)
  BY SamePlan
<1>4. \A suffix \in Suffixes, key \in Keys : Stored(suffix, key) => Stored(suffix, key)'
  BY NothingIsForgotten
<1>5. Handled(t) => Handled(t)'
  BY <1>1, <1>2, <1>3, <1>4 DEF Handled
<1> QED BY <1>1, <1>3, <1>4, <1>5 DEF Available

\* A reference to an earlier step, or to the item, resolves.
LEMMA ReferencesResolve ==
  ASSUME TypeInv, ReadyInv, WellFormed, Busy, NEW ref,
         \/ ref \in Templates(step) /\ pc = "call"
         \/ ref = plan[step].source /\ Looped(step)
  PROVE  Resolved(ref) # Nothing
<1>1. /\ step \in Positions /\ plan[step] \in PlanStep /\ step \in Nat
      /\ Looped(step) => plan[step].var \in Keys
  BY RunningPlan
<1>2. ref.suffix \in Suffixes
  BY <1>1, TemplatesTyped DEF PlanStep, Reference
<1>3. ASSUME NEW t \in 1..(step - 1), ref.to \in {Ids[t], Name(t)}, Offers(t, ref.suffix)
      PROVE  Resolved(ref) # Nothing
  <2>1. Available(t) /\ t \in Positions
    BY <1>1, PlanFacts DEF ReadyInv, TypeInv, TypeOK
  <2>2. ref.to \in Keys
    BY <1>3, <2>1, PlanFacts DEF TypeInv, TypeOK
  <2>3. CASE ref.suffix \in {"output", "variable"}
    BY <1>3, <2>1, <2>2, <2>3 DEF Available, Stored, Resolved, Lookup
  <2>4. CASE ref.suffix \notin {"output", "variable"}
    BY <1>2, <1>3, <2>1, <2>2, <2>4 DEF Available, Handled, Stored, Resolved, Lookup
  <2> QED BY <2>3, <2>4
<1>4. CASE /\ Looped(step) /\ ref # plan[step].source /\ ref.to = plan[step].var
           /\ ref.suffix \in {"output", "variable"}
  BY <1>1, <1>4 DEF ReadyInv, Stored, Resolved, Lookup
<1>5. \/ \E t \in 1..(step - 1) : ref.to \in {Ids[t], Name(t)} /\ Offers(t, ref.suffix)
      \/ /\ Looped(step) /\ ref # plan[step].source /\ ref.to = plan[step].var
         /\ ref.suffix \in {"output", "variable"}
  BY <1>1 DEF WellFormed, Looped
<1> QED BY <1>3, <1>4, <1>5

LEMMA InitReady == Init => ReadyInv /\ WellFormedResolves
  BY DEF Init, ReadyInv, Busy, WellFormedResolves

LEMMA SameWellFormed == ASSUME UNCHANGED plan PROVE WellFormed' <=> WellFormed
<1>1. \A s : OwnName(s)' <=> OwnName(s)
  BY SamePlan DEF OwnName
<1>2. \A s, suffix : Offers(s, suffix)' <=> Offers(s, suffix)
  BY DEF Offers, Looped, Image, Video
<1>3. \A s : Templates(s)' = Templates(s)
  BY DEF Templates, Unchecked
<1> QED BY <1>1, <1>2, <1>3, SamePlan DEF WellFormed

\* A step that stays where it is leaves what the earlier ones left.
LEMMA ReadyStays ==
  ASSUME TypeInv, ReadyInv, [Next]_vars, WellFormed, Busy, UNCHANGED step
  PROVE  \A t \in 1..(step - 1) : Available(t)'
<1>1. step \in Positions /\ Positions = 1..Len(plan) /\ Len(plan) \in Nat
  BY RunningPlan, PlanFacts DEF TypeInv, TypeOK
<1> SUFFICES ASSUME NEW t \in 1..(step - 1) PROVE Available(t)'
  OBVIOUS
<1>2. t \in Positions /\ Available(t)
  BY <1>1 DEF ReadyInv
<1> QED BY <1>2, NextTyped, StaysAvailable

LEMMA ReadyKept ==
  ASSUME TypeInv, ReadyInv, WellFormedResolves, [Next]_vars
  PROVE  ReadyInv' /\ WellFormedResolves'
<1>0. /\ UNCHANGED plan /\ (WellFormed' <=> WellFormed)
      /\ UNCHANGED context \/ (Busy /\ (Publishes \/ Takes))
  BY NextTyped, SameWellFormed
<1>1. CASE ~WellFormed
  BY <1>0, <1>1 DEF ReadyInv, WellFormedResolves
<1>2. CASE WellFormed /\ UNCHANGED vars
  <2>1. UNCHANGED <<plan, context, pc, step, outcome>>
    BY <1>2 DEF vars, control, result
  <2>2. /\ Busy' = Busy /\ \A t : Looped(t)' = Looped(t)
        /\ \A t : Handled(t)' <=> Handled(t)
        /\ \A t : Available(t)' <=> Available(t)
    <3>1. \A t, suffix : Offers(t, suffix)' <=> Offers(t, suffix)
      BY <2>1 DEF Offers, Looped, Image, Video
    <3>2. \A t : Handled(t)' <=> Handled(t)
      BY <2>1, <3>1 DEF Handled, Stored, Name
    <3> QED BY <2>1, <3>2 DEF Busy, Looped, Available, Stored, Name
  <2> QED BY <1>2, <2>1, <2>2 DEF ReadyInv, WellFormedResolves, Stored
<1>3. ASSUME WellFormed, End("rejected", NoRef) \/ End("completed", NoRef)
                         \/ \E ref : End("failed", ref)
      PROVE  ReadyInv' /\ WellFormedResolves'
  BY <1>3 DEF End, GoTo, ReadyInv, Busy, WellFormedResolves
<1>4. ASSUME Running PROVE WellFormedResolves'
  BY <1>0, <1>4 DEF Running, result, WellFormedResolves
<1>5. CASE WellFormed /\ Validate
  <2>1. CASE GoTo("enter") /\ Running
    <3>1. step' = 1 /\ pc' = "enter"
      BY <1>5, <2>1 DEF GoTo, Validate, TypeInv, RunInv
    <3> QED BY <1>4, <2>1, <3>1 DEF ReadyInv
  <2> QED BY <1>3, <1>5, <2>1 DEF Validate
<1>6. CASE WellFormed /\ Enter
  <2>1. Busy
    BY <1>6 DEF Enter, Busy
  <2>2. Looped(step) => Resolved(plan[step].source) # Nothing
    BY <1>6, <2>1, ReferencesResolve
  <2>3. CASE UNCHANGED step /\ Running /\ (pc' = "item" \/ (pc' = "call" /\ ~Looped(step)))
    <3>1. \A t \in 1..(step - 1) : Available(t)'
      BY <1>6, <2>1, <2>3, ReadyStays
    <3> QED BY <1>0, <1>4, <2>3, <3>1, SamePlan DEF ReadyInv
  <2> QED BY <1>3, <1>6, <2>2, <2>3 DEF Enter
<1>7. CASE WellFormed /\ BeginItem
  <2>1. Busy /\ UNCHANGED step /\ Running /\ Looped(step) /\ step \in Positions
    BY <1>7, RunningPlan DEF BeginItem, GoTo, Busy, TypeInv, RunInv
  <2>2. \A t \in 1..(step - 1) : Available(t)'
    BY <1>7, <2>1, ReadyStays
  <2>3. CASE pc' = "finish"
    <3>1. Handled(step)'
      BY <1>0, <2>1, SamePlan DEF Handled, Offers
    <3> QED BY <1>4, <2>1, <2>2, <2>3, <3>1 DEF ReadyInv
  <2>4. CASE pc' = "call" /\ context' = WithItem(plan[step].var)
    <3>1. {"output", "variable"} \subseteq Suffixes /\ Made("item") # Nothing
      BY DEF Suffixes, Made, Nothing
    <3>2. Stored("output", plan[step].var)' /\ Stored("variable", plan[step].var)'
      BY <1>0, <2>1, <2>4, <3>1, RunningPlan, ItemValues DEF Stored, TypeInv
    <3> QED BY <1>0, <1>4, <2>1, <2>2, <2>4, <3>2 DEF ReadyInv
  <2> QED BY <1>7, <2>3, <2>4 DEF BeginItem, GoTo
<1>8. CASE WellFormed /\ Call
  <2>1. Busy /\ pc = "call" /\ step \in Positions /\ Name(step)' = Name(step)
    <3>1. pc = "call" /\ Busy
      BY <1>8 DEF Call, Busy
    <3>2. Name(step)' = plan'[step'].name /\ UNCHANGED step
      BY <1>8 DEF Name, Call, Produce, End, GoTo
    <3> QED BY <1>0, <3>1, <3>2, RunningPlan DEF Name
  <2>2. PromptGaps = {}
    <3> SUFFICES ASSUME NEW ref \in PromptGaps PROVE FALSE
      OBVIOUS
    <3>1. ref \in Templates(step) /\ Resolved(ref) = Nothing
      BY DEF PromptGaps, Unresolved
    <3> QED BY <1>8, <2>1, <3>1, ReferencesResolve
  <2>3. ASSUME NEW kind, NEW kinds \in Texts \cup {Image, Video}, Produce(kind, Handles(kinds)),
               plan[step].operation = "image" => kinds = Image,
               plan[step].operation = "video" => kinds = Video
        PROVE  ReadyInv' /\ WellFormedResolves'
    <3>1. /\ context' = Handles(kinds) /\ UNCHANGED step /\ Running
          /\ pc' = IF Looped(step) THEN "item" ELSE "finish"
      BY <2>3 DEF Produce
    <3>2. \A t \in 1..(step - 1) : Available(t)'
      BY <1>8, <2>1, <3>1, ReadyStays
    <3>3. Handled(step)'
      <4> SUFFICES ASSUME NEW suffix \in Suffixes \ {"output", "variable"}, Offers(step, suffix)'
                   PROVE  Stored(suffix, Ids[step])' /\ Stored(suffix, Name(step))'
        BY <3>1 DEF Handled
      <4>1. Offers(step, suffix)
        BY <1>0, <3>1 DEF Offers, Looped, Image, Video
      <4>2. suffix \in DOMAIN kinds
        BY <2>3, <4>1 DEF Offers
      <4>3. \A key \in Own : context'[suffix][key] # Nothing
        BY <2>1, <3>1, <4>2, CallPublishes
      <4> QED BY <2>1, <3>1, <4>3 DEF Stored, Own
    <3> QED BY <1>4, <3>1, <3>2, <3>3 DEF ReadyInv
  <2> QED BY <1>3, <1>8, <2>2, <2>3 DEF Call
<1>9. CASE WellFormed /\ Finish
  <2>1. Busy /\ UNCHANGED step /\ Running /\ pc' = "branch" /\ step \in Positions
    BY <1>9, RunningPlan DEF Finish, GoTo, Busy
  <2>2. \A t \in 1..(step - 1) : Available(t)'
    BY <1>9, <2>1, ReadyStays
  <2>3. Handled(step)'
    BY <1>0, <1>9, <2>1, StaysAvailable DEF Finish, ReadyInv
  <2>4. Stored("output", Ids[step])' /\ Stored("output", Name(step))'
    BY <1>0, <1>9, <2>1, FinishPublishes, SamePlan DEF Stored, Own
  <2>5. Available(step)'
    BY <2>1, <2>3, <2>4 DEF Available
  <2> QED BY <1>4, <2>1, <2>2, <2>5 DEF ReadyInv
<1>10. CASE WellFormed /\ Branch
  <2>1. /\ Busy /\ pc = "branch" /\ UNCHANGED context /\ step \in Positions
        /\ Positions = 1..Len(plan) /\ Len(plan) \in Nat
    BY <1>10, RunningPlan, PlanFacts DEF Branch, Busy, TypeInv, TypeOK
  <2>2. plan[step].condition = NoRef
    BY <1>10, <2>1 DEF WellFormed
  <2>3. CASE pc' = "enter" /\ step' = step + 1 /\ Running
    <3>1. ASSUME NEW t \in 1..(step' - 1) PROVE Available(t)'
      <4>1. t \in Positions /\ Available(t)
        BY <1>10, <2>1, <2>3, <3>1 DEF ReadyInv
      <4> QED BY <1>0, <4>1, StaysAvailable
    <3> QED BY <1>4, <2>3, <3>1 DEF ReadyInv
  <2>4. Targets \subseteq {0, step + 1}
    BY <2>2 DEF Targets, Following
  <2> QED BY <1>3, <1>10, <2>2, <2>3, <2>4 DEF Branch
<1> QED BY <1>1, <1>2, <1>5, <1>6, <1>7, <1>8, <1>9, <1>10 DEF Next

(* A sequence of steps, however long, that refer to what earlier steps offer,   *)
(* or to the item of their own loop, never ends on a reference.               *)
THEOREM PipelinesResolve == Spec => []WellFormedResolves
<1>1. Init => ReadyInv /\ WellFormedResolves
  BY InitReady
<1>2. TypeInv /\ ReadyInv /\ WellFormedResolves /\ [Next]_vars => ReadyInv' /\ WellFormedResolves'
  BY ReadyKept
<1> QED BY <1>1, <1>2, TypeInvariant, PTL DEF Spec
=============================================================================
