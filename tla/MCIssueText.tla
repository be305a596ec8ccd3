----------------------------- MODULE MCIssueText -----------------------------
(* Two machines, and bodies put together from the pieces people write. *)
EXTENDS IssueText, TLC

CONSTANTS Losses, Revisions

MCLimit == [k \in Kinds |-> IF k = "revise" THEN Revisions ELSE Losses]

\* A heading, prose, a blank line, the fence of a legacy ticket, one somebody
\* pasted from a generated body, one without its end, and an example.
Pieces == {<<"dod">>, <<"h3">>, <<"text">>, <<"blank">>,
           <<"yaml", "header", "c1", "fence">>,
           <<"yaml", "mark", "header", "c2", "fence">>,
           <<"yaml", "header", "c2", "text">>,
           <<"yaml", "text", "fence">>}

\* Prose or a block may stand before the heading; under it anything.
Opening == {<<"dod">>, <<"text">>, <<"yaml", "mark", "header", "c2", "fence">>}
Closing == {<<"dod">>, <<"text">>, <<"yaml", "header", "c1", "fence">>,
          <<"yaml", "mark", "header", "c2", "fence">>}

Bodies == {Reread(a \o b \o c) : a \in Opening, b \in Pieces \ {<<"blank">>}, c \in Closing}

Ticket(body, dod, slug) ==
    [body |-> body, dod |-> dod, slug |-> slug, type |-> "bug", gates |-> {},
     tags |-> {}, lane |-> "open", status |-> None, state |-> None, why |-> None]

Dods == {None, <<>>, <<"c1">>, <<"c1", "c2">>}

Texts == {Ticket(b, d, "named") : b \in Bodies, d \in {<<>>, <<"c1">>}}
           \cup {Ticket(b, d, s) : d \in Dods \cup {Malformed}, s \in {"named", None},
                    b \in {Reread(a) : a \in Pieces} \cup {<<"text", "blank", "blank">>,
                                             <<"dod", "blank", "blank", "blank">>}}

\* The same text with every label and state.
Fields == {[Ticket(<<"dod">>, <<"c1">>, "named") EXCEPT
              !.type = y, !.gates = g, !.tags = l, !.lane = a[1], !.status = a[2]] :
              y \in KnownTypes \cup {"other", None}, g \in SUBSET Gates,
              l \in SUBSET {[key |-> "tag", value |-> "other"], [key |-> "type", value |-> "other"]},
              a \in {<<"open", None>>, <<"done", None>>, <<"done", "cancelled">>}}

\* A ticket that is moved between two machines looks the same from either end.
Symmetry == Permutations(Machines)

MCFiled == Texts \cup Fields
=============================================================================
