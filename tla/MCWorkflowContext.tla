-------------------------- MODULE MCWorkflowContext --------------------------
(* A model-checking instance of WorkflowContext: three steps, of which the     *)
(* first is plain, the second may loop or branch, and the third refers to both. *)
EXTENDS WorkflowContext

StepIds == <<"s1", "s2", "s3">>

Ref(to, suffix) == [to |-> to, suffix |-> suffix]

Simple(name, op, refs) ==
  [name |-> name, operation |-> op, refs |-> refs, options |-> {}, labels |-> {},
   named |-> {}, prompted |-> TRUE, source |-> NoRef, var |-> NoVariable, condition |-> NoRef, onTrue |-> 0, onFalse |-> 0]

Firsts == {Simple("a", op, {}) : op \in {"text", "image"}}

Refs == {Ref(to, suffix) : to \in {"s1", "a"}, suffix \in {"output", "image", "asset"}}

Bodies(name, refs) ==
  {Simple(name, "text", {ref}) : ref \in refs} \cup {Simple(name, "video", {ref}) : ref \in refs}

Loops(name) ==
  {[Simple(name, "image", {ref}) EXCEPT !.source = source, !.var = var] :
     ref \in {Ref("item", "variable"), Ref("b", "output")},
     source \in {Ref("a", "output"), Ref("a", "variable"), Ref("items", "output")},
     var \in {"item", "c", NoVariable}}

Branches(name) ==
  {[Simple(name, "text", {}) EXCEPT !.condition = ref, !.onTrue = target] :
     ref \in {Ref(name, "output"), Ref("c", "output"), Ref("nobody", "output")},
     target \in {1, 3, 4}}

\* A name that is a template itself, and may be the prompt or not.
Titled(name, ref) ==
  {[Simple(name, op, {}) EXCEPT !.named = {ref}, !.prompted = prompted] :
     op \in {"text", "image"}, prompted \in BOOLEAN}

Unknown == Ref("nobody", "variable")

\* References in the keys of a prompt, and in options that no operation resolves.
Keyed ==
  {[Simple("b", op, {}) EXCEPT !.labels = labels, !.options = options] :
     op \in {"text", "image"}, labels \in {{}, {Unknown}},
     options \in {{}, {Unknown}, {Ref("a", "image")}}}

Unlisted ==
  Titled("{{nobody}}", Unknown) \cup Titled("{{s1.asset}}", Ref("s1", "asset")) \cup Keyed
  \cup {[Simple("b", "video", {Ref("a", "asset")}) EXCEPT !.options = {Unknown}]}

Seconds(name) == Bodies(name, Refs) \cup Loops(name) \cup Branches(name)

LaterRefs ==
  Refs \cup {Ref("b", suffix) : suffix \in {"output", "video", "asset", "artifact"}}
       \cup {Ref("item", "variable"), Ref("s2", "variable"), Ref("audience", "variable")}

Pipelines ==
  {<<first, second, third>> : first \in Firsts, second \in Seconds("b"),
                              third \in Bodies("c", LaterRefs)}

\* Two steps of one name.
Namesakes == {<<first, second, Simple("c", "text", {Ref("a", "asset")})>> :
                first \in Firsts, second \in Seconds("a")}

\* A step that resolves what the validator does not look at, or the other way.
Unchecks == {<<first, second, Simple("c", "text", {Ref("s2", "output")})>> :
               first \in Firsts, second \in Unlisted}

Workflows == Pipelines \cup (Namesakes \cup (Unchecks \cup {<<>>}))
=============================================================================
