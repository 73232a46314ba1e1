------------------------ MODULE MCAutomaticPublishing ------------------------
(* Model-checking instances of AutomaticPublishing: a video for every item.   *)
EXTENDS AutomaticPublishing

LoopedVideo == {<<[operation |-> "video", loop |-> TRUE, condition |-> FALSE,
                   onTrue |-> 0, onFalse |-> 0]>>}
=============================================================================
