------------------------------ MODULE MCClient ------------------------------
(* Client on a small instance: two spellings of one resolution, another    *)
(* resolution without a TTL, and one that is not valid.                    *)
EXTENDS Client, Resolutions

CONSTANTS f1, k1, k2

MCRequests == {"1h", "60", "45M", "2x"}
MCKeys == {"60", "45"}
MCKeyOf ==
    [r \in MCRequests |->
        LET w == NormalizeResolution(r) IN IF w = Unknown THEN Nothing ELSE w]
MCTTL == "60" :> 1 @@ "45" :> 0
MCBatches == {<<"1h", "2x", "45M">>, <<"1h", "60">>, <<>>}
MCSolo == {f1}
MCAsks == f1 :> "60"
MCClosers == {k1, k2}
=============================================================================
