---------------------------- MODULE MCFilterChain ----------------------------
(* Small instances of FilterChain for model checking. *)
EXTENDS FilterChain
SomeConfigs == {1, Unset}
==============================================================================
