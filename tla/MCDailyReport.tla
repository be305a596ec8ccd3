---------------------------- MODULE MCDailyReport ----------------------------
(* Small instances of DailyReport. *)
EXTENDS DailyReport

CONSTANTS m1, m2

Budget(kinds) == [k \in Kinds |-> Cardinality({i \in DOMAIN kinds : kinds[i] = k})]

MCBudgets == {Budget(e) : e \in {
    <<"lost", "lost">>, <<"leave", "asleep">>, <<"upgrade", "delete">>,
    <<"error">>, <<"crash">>, <<"forget">>, <<"readonly">>, <<"render">>}}
=============================================================================
