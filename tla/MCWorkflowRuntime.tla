-------------------------- MODULE MCWorkflowRuntime --------------------------
(* Model-checking instances of WorkflowRuntime: the workflows.                *)
EXTENDS WorkflowRuntime

Plain(op) == [operation |-> op, loop |-> FALSE, condition |-> FALSE,
              onTrue |-> 0, onFalse |-> 0]

Looped(op) == [Plain(op) EXCEPT !.loop = TRUE]

Branch(op, yes, no) == [Plain(op) EXCEPT !.condition = TRUE, !.onTrue = yes, !.onFalse = no]

\* The pipeline of RUNTIME_MVP.md, its image step repeated for every scene.
Pipeline == <<Plain("text"), Looped("image"), Plain("video")>>

Short == <<Looped("image"), Plain("video")>>

\* Branches over a step, into the next one by default, to no step, and backwards.
Skip     == <<Branch("text", 3, 0), Plain("unsupported"), Plain("image")>>
Fallback == <<Branch("text", 0, 0), Looped("text")>>
Dangling == <<Branch("text", 2, 0)>>
Back     == <<Plain("text"), Branch("text", 1, 0)>>

AllPlans   == {Pipeline, Skip, Fallback, Dangling, Back, <<>>}
ShortPlans == {Short, Fallback, <<Looped("video")>>}
OnePlan    == {Fallback}
=============================================================================
