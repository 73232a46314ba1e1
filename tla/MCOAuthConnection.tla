-------------------------- MODULE MCOAuthConnection --------------------------
(* Model-checking instances of OAuthConnection: requests and connections are    *)
(* interchangeable.                                                           *)
EXTENDS OAuthConnection, TLC

Symmetry == Permutations(Connections) \cup Permutations(Handlers)
=============================================================================
