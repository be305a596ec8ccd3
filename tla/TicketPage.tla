------------------------------ MODULE TicketPage ------------------------------
(* The page of a ticket: md_to_html of tools/build_kanban.py, run by the pass  *)
(* that holds the project's lock on text anybody may have typed.  It scans the *)
(* lines of the body, a block at a time, and calls itself for a quotation.     *)
EXTENDS Integers, Sequences

CONSTANTS
    Typed,  \* the lines people type
    Longest \* bound: lines of a ticket file

\* dashes is a rule and the fence of the frontmatter, hash a # without a space
\* after it, separator the second line of a table.
Kinds == {"text", "blank", "heading", "hash", "dashes", "fence", "bullet",
          "number", "pipe", "separator"}

\* A line under its > signs, and its place in the file.
Line == [kind : Kinds, depth : Nat, no : Nat]

ASSUME TypedAssumption ==
    Typed \subseteq [kind : Kinds, depth : Nat] /\ Longest \in Nat

VARIABLES
    page,  \* the file
    stack, \* the calls of md_to_html, the outermost first: lines and cursor
    out    \* what was rendered: the block and the place of each line in it

vars == <<page, stack, out>>

Is(line, kinds) == line.depth = 0 /\ line.kind \in kinds
Quotes(line) == line.depth > 0
Bars(line) == Is(line, {"pipe", "separator"})

\* strip_frontmatter: without a closing fence there is no frontmatter.
Body(lines) ==
    LET closing == {k \in DOMAIN lines : k > 1 /\ Is(lines[k], {"dashes"})}
    IN  IF lines = <<>> \/ ~Is(lines[1], {"dashes"}) \/ closing = {} THEN lines
        ELSE SubSeq(lines, 1 + CHOOSE k \in closing : \A j \in closing : k <= j,
                    Len(lines))

Init ==
    /\ \E n \in 0..Longest : \E typed \in [1..n -> Typed] :
        page = [k \in 1..n |-> [kind |-> typed[k].kind, depth |-> typed[k].depth, no |-> k]]
    /\ stack = <<[lines |-> Body(page), i |-> 1]>>
    /\ out = <<>>

-----------------------------------------------------------------------------
(* The innermost call and its current line *)

Depth == Len(stack)
Lines == stack[Depth].lines
Here == stack[Depth].i
Scanning == stack # <<>> /\ Here <= Len(Lines)
At(kinds) == Scanning /\ Is(Lines[Here], kinds)

\* The first line from i on at which a block ends.
Until(i, Stops(_)) ==
    CHOOSE j \in i..(Len(Lines) + 1) :
        /\ j <= Len(Lines) => Stops(j)
        /\ \A k \in i..(j - 1) : ~Stops(k)

Advance(j) == stack' = [stack EXCEPT ![Depth].i = j]
Emit(block, a, b) ==
    out' = out \o [k \in 1..(b - a + 1) |-> [block |-> block, no |-> Lines[a + k - 1].no]]

\* Lines from Here up to j are a block.
Block(block, j) == Emit(block, Here, j - 1) /\ Advance(j) /\ UNCHANGED page

-----------------------------------------------------------------------------
(* The branches of md_to_html, in their order *)

\* An unclosed fence runs to the end of the text.
Fence ==
    LET Closes(j) == Lines[j].depth = 0 /\ Lines[j].kind = "fence"
        end == Until(Here + 1, Closes)
    IN  /\ At({"fence"})
        /\ Emit("pre", Here + 1, end - 1) /\ Advance(end + 1) /\ UNCHANGED page

Rule == At({"dashes"}) /\ Block("hr", Here + 1)

Heading == At({"heading"}) /\ Block("h", Here + 1)

Unquoted(line) == [line EXCEPT !.depth = @ - 1]

Quote ==
    LET Stops(j) == ~Quotes(Lines[j])
        end == Until(Here, Stops)
    IN  /\ Scanning /\ Quotes(Lines[Here])
        /\ stack' = Append([stack EXCEPT ![Depth].i = end],
               [lines |-> [k \in 1..(end - Here) |-> Unquoted(Lines[Here + k - 1])],
                i |-> 1])
        /\ UNCHANGED <<page, out>>

StartsTable == Here < Len(Lines) /\ Is(Lines[Here + 1], {"separator"})

Table ==
    LET Stops(j) == ~Bars(Lines[j])
    IN  /\ Scanning /\ Bars(Lines[Here]) /\ StartsTable
        /\ Block("table", Until(Here + 2, Stops))

\* A blank line inside a list: the next line that is not blank is an item.
Resumes(j, marker) == \E k \in (j + 1)..Len(Lines) :
    /\ Is(Lines[k], {marker})
    /\ \A b \in j..(k - 1) : Is(Lines[b], {"blank"})

\* Any other line without a marker of its own continues the item above, a rule
\* too.
List(marker, other) ==
    LET Stops(j) == \/ Is(Lines[j], {"blank"}) /\ ~Resumes(j, marker)
                    \/ Is(Lines[j], {"heading", "hash", "fence", other})
                    \/ Bars(Lines[j]) \/ Quotes(Lines[j])
    IN  At({marker}) /\ Block("list", Until(Here, Stops))

Bullets == List("bullet", "number")
Numbers == List("number", "bullet")

Blank == At({"blank"}) /\ Advance(Here + 1) /\ UNCHANGED <<page, out>>

EndsParagraph(j) ==
    \/ Is(Lines[j], {"blank", "heading", "fence", "bullet", "number", "dashes"})
    \/ Bars(Lines[j]) \/ Quotes(Lines[j])

\* A bug, issue 363: the current line may end the paragraph it starts.
ParagraphMaybeEmpty ==
    /\ At({"text", "hash", "pipe", "separator"}) /\ ~(Bars(Lines[Here]) /\ StartsTable)
    /\ Block("p", Until(Here, EndsParagraph))

\* The current line goes in whatever it starts with.
Paragraph ==
    /\ At({"text", "hash", "pipe", "separator"}) /\ ~(Bars(Lines[Here]) /\ StartsTable)
    /\ Block("p", Until(Here + 1, EndsParagraph))

Return ==
    /\ stack # <<>> /\ Here > Len(Lines)
    /\ stack' = SubSeq(stack, 1, Depth - 1)
    /\ UNCHANGED <<page, out>>

Next == Fence \/ Rule \/ Heading \/ Quote \/ Table \/ Bullets \/ Numbers \/ Blank
          \/ Paragraph \/ Return

Spec == Init /\ [][Next]_vars

\* md_to_html is a sequential program: it takes its next step.
FairSpec == Spec /\ WF_vars(Next)

-----------------------------------------------------------------------------
(* Properties *)

TypeOK ==
    /\ \A k \in DOMAIN page : page[k] \in Line /\ page[k].no = k
    /\ \A d \in DOMAIN stack :
        /\ stack[d].i \in Nat \ {0}
        /\ \A k \in DOMAIN stack[d].lines : stack[d].lines[k] \in Line
    /\ \A n \in DOMAIN out : out[n].no \in DOMAIN page

\* What a reader must find on the page: a line that holds words.
Words == {Body(page)[k].no : k \in {k \in DOMAIN Body(page) :
            Body(page)[k].kind \in {"text", "heading", "hash", "bullet", "number", "pipe"}}}

Places(no) == {n \in DOMAIN out : out[n].no = no}

\* Whatever was typed, the render comes to its end, and then every line with
\* words is on the page once and in the order of the file.  A line no branch
\* takes would hang the pass that holds the lock (issue 363).
EveryLineIsRendered ==
    <>[](/\ stack = <<>>
         /\ \A no \in Words : \E n \in Places(no) : Places(no) = {n}
         /\ \A m, n \in DOMAIN out : m < n => out[m].no < out[n].no)
=============================================================================
