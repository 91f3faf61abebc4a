--------------------------- MODULE MCServerSetup ---------------------------
(***************************************************************************)
(* An instance of ServerSetup: words of 1024 values with units of 8, so    *)
(* that 2G wraps to 0, -1 reads as unset and 700 is read as 511, the       *)
(* largest signed number; one of the library's types and one that only     *)
(* another module has.                                                     *)
(***************************************************************************)
EXTENDS ServerSetup

MCTypes   == {"urlencoded", "json"}
MCBuiltIn == [t \in MCTypes |-> IF t = "urlencoded" THEN "urlencoded"
                                ELSE "none"]
MCSizes   == {<<-1, "">>, <<5, "">>, <<1, "K">>, <<2, "G">>, <<700, "">>}
=============================================================================
