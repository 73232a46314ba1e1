--------------------------- MODULE WorkflowContext ---------------------------
(***************************************************************************)
(* What the steps of one run know of each other: the validator that admits  *)
(* a workflow, the context its steps publish to, and the resolver, prompt   *)
(* builder and condition evaluator that read from it.                      *)
(*                                                                         *)
(* Module WorkflowRuntime leaves open whether a prompt, a loop source or a  *)
(* condition resolves; here that is decided by what ran before.            *)
(***************************************************************************)
EXTENDS Naturals, Sequences

CONSTANTS
  Ids,                  \* the step ids, by position
  Plans,                \* the workflows considered, each the sequence of its steps
  TextKinds,            \* what a provider's content may be
  MaxItems,             \* bound: items of a list
  MaxVisits             \* bound: executions of one step

Suffixes == {"output", "image", "video", "asset", "artifact", "variable"}

\* {{to.suffix}}; a reference without a suffix reads a variable.
NoRef == [to |-> "", suffix |-> "output"]

NoVariable == ""

Reference == [to : STRING, suffix : Suffixes]

(* The references of a step, by where they stand: in the values of its config   *)
(* that the operation resolves (refs) and in those it does not (options), in the *)
(* keys of a prompt that is an object (labels), and in its name (named), which   *)
(* stands in for a prompt that is not set.  A target of 0 is a next_step that is *)
(* not set.                                                                    *)
PlanStep == [name : STRING, operation : {"text", "image", "video"},
             refs : SUBSET Reference, options : SUBSET Reference,
             labels : SUBSET Reference, named : SUBSET Reference, prompted : BOOLEAN,
             source : Reference, var : STRING, condition : Reference,
             onTrue : Nat, onFalse : Nat]

ASSUME IdsAssumption ==
  Ids \in Seq(STRING) /\ \A s, t \in DOMAIN Ids : Ids[s] = Ids[t] => s = t
ASSUME PlansAssumption == \A p \in Plans : p \in Seq(PlanStep) /\ Len(p) <= Len(Ids)
ASSUME TextKindsAssumption == TextKinds \subseteq {"text", "list"}
ASSUME BoundsAssumption == {MaxItems, MaxVisits} \subseteq Nat

VARIABLES
  plan,                 \* the workflow: its steps in their order, never changed
  context,              \* the six dictionaries of WorkflowContext
  pc, step,             \* control of the run, and the position of current_step
  left,                 \* items still to do
  content,              \* the result of the last item
  started,              \* how often each step was entered
  outcome, missing      \* how the run ended, and on which reference

control == <<pc, step, left, content>>
result  == <<outcome, missing>>
vars    == <<plan, context, control, started, result>>

-----------------------------------------------------------------------------
Positions == DOMAIN plan

Name(s) == plan[s].name

Looped(s) == plan[s].source # NoRef

Variables == {plan[s].var : s \in Positions} \ {NoVariable}

\* all_identifiers of the validator.
Identifiers == {Ids[s] : s \in Positions} \cup {Name(s) : s \in Positions}

Keys == Identifiers \cup Variables \cup {"item"}

Kinds == {"nothing", "text", "list", "result", "url", "asset", "artifact", "item"}

Value == [kind : Kinds, step : Nat]

Nothing == [kind |-> "nothing", step |-> 0]

Made(kind) == [kind |-> kind, step |-> step]

Outcomes == {"running", "rejected", "unresolved", "failed", "completed"}

Pcs == {"validate", "enter", "item", "call", "finish", "branch", "over"}

-----------------------------------------------------------------------------
(* WorkflowValidator.  Positions stand for the order column, whose duplicates   *)
(* it refuses; syntax and missing fields are left out.                        *)

Known(ref) == ref.to \in Identifiers

KnownOrItem(ref) == Known(ref) \/ ref.to = "item"

ConditionOk(s) ==
  plan[s].condition # NoRef =>
    /\ KnownOrItem(plan[s].condition)
    /\ {plan[s].onTrue, plan[s].onFalse} \subseteq Positions \cup {0}

\* Mutant: the references of a loop source are not looked at.
LoopOkUnchecked(s) == Looped(s) => plan[s].var # NoVariable

LoopOk(s) == Looped(s) => plan[s].var # NoVariable /\ Known(plan[s].source)

\* Only what the values of the config contain, but all of that.
ConfigOk(s) == \A ref \in plan[s].refs \cup plan[s].options : KnownOrItem(ref)

Valid ==
  /\ plan # <<>>
  /\ \A s \in Positions : ConditionOk(s) /\ LoopOk(s) /\ ConfigOk(s)

-----------------------------------------------------------------------------
(* WorkflowContext and VariableResolver.                                     *)

\* Mutant: a result is found under the step's id only.
PublishedById(suffix, value) ==
  [context EXCEPT ![suffix] = [@ EXCEPT ![Ids[step]] = value]]

\* The context once the step has published a value, by its id and by its name.
Published(suffix, value) ==
  [context EXCEPT ![suffix] = [@ EXCEPT ![Ids[step]] = value, ![Name(step)] = value]]

\* A loop item is a variable, and an output under the variable's name.
WithItem(var) ==
  [context EXCEPT !["output"]   = [@ EXCEPT ![var] = Made("item")],
                  !["variable"] = [@ EXCEPT ![var] = Made("item")]]

Lookup(suffix, key) == IF key \in Keys THEN context[suffix][key] ELSE Nothing

\* Mutant: the original contract of loop variables is forgotten.
ResolvedWithoutFallback(ref) == Lookup(ref.suffix, ref.to)

Resolved(ref) ==
  IF ref.suffix = "variable" /\ Lookup("variable", ref.to) = Nothing
  THEN Lookup("output", ref.to)
  ELSE Lookup(ref.suffix, ref.to)

Unresolved(refs) == {ref \in refs : Resolved(ref) = Nothing}

(* What a prompt resolves that is no value of the config: str() of an object     *)
(* has its keys, and the default prompt is the name.  A render has no prompt.   *)
Unchecked(s) ==
  IF plan[s].operation = "video" THEN {}
  ELSE plan[s].labels \cup (IF plan[s].prompted THEN {} ELSE plan[s].named)

\* The user and the system template, or the input asset of a render.
Templates(s) == plan[s].refs \cup Unchecked(s)

\* All of them are resolved whole, before anything is called.
PromptGaps == Unresolved(Templates(step))

-----------------------------------------------------------------------------
Init ==
  /\ plan \in Plans
  /\ context = [suffix \in Suffixes |-> [key \in Keys |-> Nothing]]
  /\ pc = "validate" /\ step = 1 /\ left = 0 /\ content = Nothing
  /\ started = [s \in Positions |-> 0]
  /\ outcome = "running" /\ missing = NoRef

GoTo(point) == pc' = point /\ UNCHANGED <<step, left, content>>

Running == UNCHANGED result

End(how, ref) ==
  /\ GoTo("over")
  /\ outcome' = how
  /\ missing' = ref

Validate ==
  /\ pc = "validate"
  /\ IF Valid THEN GoTo("enter") /\ Running ELSE End("rejected", NoRef)
  /\ UNCHANGED <<plan, context, started>>

\* Without a loop source there is one item; with one, the source must be a list.
Enter ==
  LET source == plan[step].source IN
  /\ pc = "enter"
  /\ started[step] < MaxVisits
  /\ started' = [started EXCEPT ![step] = @ + 1]
  /\ \/ /\ ~Looped(step)
        /\ pc' = "call" /\ left' = 1 /\ UNCHANGED <<step, content>>
        /\ Running
     \/ /\ Looped(step) /\ Resolved(source).kind = "list"
        /\ pc' = "item" /\ left' \in 0..MaxItems /\ UNCHANGED <<step, content>>
        /\ Running
     \/ Looped(step) /\ Resolved(source) = Nothing /\ End("unresolved", source)
     \/ /\ Looped(step) /\ Resolved(source).kind \notin {"nothing", "list"}
        /\ End("failed", source)
  /\ UNCHANGED <<plan, context>>

BeginItem ==
  /\ pc = "item"
  /\ \/ left = 0 /\ GoTo("finish") /\ UNCHANGED context
     \/ left > 0 /\ GoTo("call") /\ context' = WithItem(plan[step].var)
  /\ Running /\ UNCHANGED <<plan, started>>

\* What an item publishes: a handle of each kind in the set.
Handles(kinds) ==
  [suffix \in Suffixes |->
     IF suffix \in DOMAIN kinds THEN Published(suffix, Made(kinds[suffix]))[suffix]
                                ELSE context[suffix]]

Image == [image |-> "url", asset |-> "asset", artifact |-> "artifact"]

Video == [video |-> "url", asset |-> "asset", artifact |-> "artifact"]

\* A text may come with an artifact, with an asset, with both or with neither.
Texts == {<<>>, [asset |-> "asset"], [artifact |-> "artifact"],
          [asset |-> "asset", artifact |-> "artifact"]}

Produce(kind, published) ==
  /\ context' = published
  /\ pc' = IF Looped(step) THEN "item" ELSE "finish"
  /\ left' = left - 1
  /\ content' = Made(kind)
  /\ UNCHANGED step
  /\ Running

(* The prompts are resolved before the provider is called.  A render wants the  *)
(* id of an asset, which a text or an item may happen to be.  A provider, the   *)
(* renderer or the storage may fail.                                          *)
Call ==
  LET operation == plan[step].operation
      renderable == \A ref \in Templates(step) : Resolved(ref).kind \in {"asset", "text", "item"}
  IN
  /\ pc = "call"
  /\ \/ \E ref \in PromptGaps : End("unresolved", ref) /\ UNCHANGED context
     \/ /\ PromptGaps = {}
        /\ \/ /\ operation = "text"
              /\ \E kind \in TextKinds, kinds \in Texts : Produce(kind, Handles(kinds))
           \/ operation = "image" /\ Produce("result", Handles(Image))
           \/ operation = "video" /\ renderable /\ Produce("result", Handles(Video))
           \/ End("failed", NoRef) /\ UNCHANGED context
  /\ UNCHANGED <<plan, started>>

Finish ==
  /\ pc = "finish"
  /\ context' = Published("output", IF Looped(step) THEN Made("list") ELSE content)
  /\ GoTo("branch")
  /\ Running /\ UNCHANGED <<plan, started>>

-----------------------------------------------------------------------------
(* ConditionEvaluator, and the next step.                                    *)

\* Mutant: the list of steps is run past its end.
FollowingUnchecked == step + 1

Following == IF step + 1 \in Positions THEN step + 1 ELSE 0

Targets ==
  IF plan[step].condition = NoRef THEN {Following}
  ELSE {IF target = 0 THEN Following ELSE target :
          target \in {plan[step].onTrue, plan[step].onFalse}}

Branch ==
  LET condition == plan[step].condition IN
  /\ pc = "branch"
  /\ \/ /\ condition # NoRef /\ Resolved(condition) = Nothing
        /\ End("unresolved", condition)
     \/ /\ condition = NoRef \/ Resolved(condition) # Nothing
        /\ \E next \in Targets :
             IF next = 0 THEN End("completed", NoRef)
             ELSE /\ pc' = "enter" /\ step' = next /\ left' = 0 /\ content' = Nothing
                  /\ Running
  /\ UNCHANGED <<plan, context, started>>

Next == Validate \/ Enter \/ BeginItem \/ Call \/ Finish \/ Branch

Spec == Init /\ [][Next]_vars

-----------------------------------------------------------------------------
(* Properties.                                                             *)

\* Every variable stays in its range, and current_step is a step.
TypeOK ==
  /\ plan \in Plans
  /\ context \in [Suffixes -> [Keys -> Value]]
  /\ pc \in Pcs
  /\ pc \notin {"validate", "over"} => step \in Positions
  /\ left \in 0..(MaxItems + 1)
  /\ content \in Value
  /\ started \in [Positions -> 0..MaxVisits]
  /\ outcome \in Outcomes
  /\ missing.suffix \in Suffixes

\* No other step and no loop variable has the name or the id of step s.
OwnName(s) ==
  /\ \A t \in Positions : Name(t) = Name(s) => t = s
  /\ Name(s) \notin Variables \cup {"item"} \cup {Ids[t] : t \in Positions}
  /\ Ids[s] \notin Variables \cup {"item"} \cup {Name(t) : t \in Positions}

(* A step may be referred to by its id or by its name, through every kind of    *)
(* result and at any time of the run: both mean the same value, of that step.   *)
NamesAgreeWithIds ==
  \A s \in Positions, suffix \in Suffixes \ {"variable"} :
    OwnName(s) =>
      /\ context[suffix][Ids[s]] = context[suffix][Name(s)]
      /\ context[suffix][Ids[s]].step \in {0, s}

(* The validator looks ahead at every place a run resolves, but for two: a      *)
(* validated workflow that fails on a reference does so on a step that has not  *)
(* run, or has not produced this, or on the item of a loop.  It fails on a name *)
(* that nobody knows only where a step's own name is its prompt, or in the keys *)
(* of a prompt that is an object.                                             *)
UnresolvedIsKnown ==
  outcome = "unresolved" =>
    missing.to \in Identifiers \cup {"item"} \/ missing \in Unchecked(step)

\* What a step offers to its successors whatever it is given.
Offers(t, suffix) ==
  \/ suffix \in {"output", "variable"}
  \/ ~Looped(t) /\ \/ plan[t].operation = "image" /\ suffix \in DOMAIN Image
                   \/ plan[t].operation = "video" /\ suffix \in DOMAIN Video

\* A sequence of steps that refer to earlier ones, or to their own loop item.
WellFormed ==
  \A s \in Positions :
    /\ OwnName(s)
    /\ plan[s].condition = NoRef
    /\ \A ref \in Templates(s) \cup ({plan[s].source} \ {NoRef}) :
         \/ \E t \in 1..(s - 1) : ref.to \in {Ids[t], Name(t)} /\ Offers(t, ref.suffix)
         \/ /\ Looped(s) /\ ref # plan[s].source /\ ref.to = plan[s].var
            /\ ref.suffix \in {"output", "variable"}

(* "the next step resolves that value while its prompt is composed": a          *)
(* sequential pipeline in which steps refer to earlier ones never fails on a    *)
(* reference.                                                                  *)
WellFormedResolves == WellFormed => outcome # "unresolved"
=============================================================================
