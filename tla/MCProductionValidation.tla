----------------------- MODULE MCProductionValidation -----------------------
(* Model-checking instances of ProductionValidation: an environment that is     *)
(* ready, and those that differ from it in one respect (the flags that only       *)
(* decide one verdict of the dry run are represented by one of them).           *)
EXTENDS ProductionValidation

Good ==
  [secrets |-> Secrets, accepted |-> TRUE, production |-> TRUE, private |-> TRUE,
   https |-> TRUE, virtual |-> TRUE, optIn |-> "off", project |-> "existing",
   migrated |-> TRUE, connection |-> "ready", worker |-> "ready"]

AlmostGood ==
  {[Good EXCEPT !.secrets = Secrets \ {s}] : s \in Secrets}
  \cup {[Good EXCEPT ![flag] = FALSE] :
          flag \in {"accepted", "production", "migrated"}}
  \cup {[Good EXCEPT !.optIn = value] : value \in {"true", "other"}}
  \cup {[Good EXCEPT !.project = value] : value \in {"unset", "malformed", "unknown"}}
  \cup {[Good EXCEPT !.connection = value] : value \in {"none", "unreadable", "unscoped"}}
  \cup {[Good EXCEPT !.worker = value] : value \in {"down", "without_ffmpeg"}}

NearlyReady == {Good} \cup AlmostGood

OnlyReady == {[Good EXCEPT !.optIn = "true"]}
=============================================================================
