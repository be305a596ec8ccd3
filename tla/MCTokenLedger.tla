---------------------------- MODULE MCTokenLedger ----------------------------
(* Small instances of TokenLedger: a keeper that has its ticket from the       *)
(* building lane and a session bound to a padded id.                           *)
EXTENDS TokenLedger

CONSTANTS s1, s2, t1, t2

MCRates == ("fable" :> 3)
MCTokens == ("fable" :> 2) @@ ("unknown" :> 1)
MCMarked == (s1 :> None) @@ (s2 :> [tix |-> t1, padded |-> TRUE])

Posted(tier) == "other" :> [tokens |-> 5, micros |-> 15, tier |-> tier]
MCForeign == {<<>>, Posted("estimated")}

Budget(kinds) == [k \in Kinds |-> Cardinality({i \in DOMAIN kinds : kinds[i] = k})]

MCBudgets == {Budget(e) : e \in {
    <<"message", "message", "kill">>, <<"message", "kill", "crash">>,
    <<"message", "late", "kill">>,
    <<"message", "message", "lose">>,
    <<"message", "message", "rewrite">>}}
=============================================================================
