----------------------------- MODULE MCTicketPage -----------------------------
(* Every page of a few lines, quoted ones among them. *)
EXTENDS TicketPage

MCTyped == [kind : Kinds, depth : {0}]
             \cup [kind : {"text", "blank", "bullet", "fence", "pipe"}, depth : {1}]
             \cup [kind : {"text"}, depth : {2}]
=============================================================================
