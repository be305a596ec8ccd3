------------------------------ MODULE IssueText ------------------------------
(***************************************************************************)
(* A ticket's text on its way between the files of two machines and its    *)
(* Issue: the codec of tools/ticket_serializer.py, and the reads and       *)
(* writes of tools/adt_sync.py that apply it.  The body on the Issue       *)
(* carries what the Issue has no field for: the Definition of Done as a    *)
(* generated fence, the slug as a trailing comment.  AdtSync follows the   *)
(* lane of a ticket through the same passes and takes its text for one     *)
(* value.                                                                  *)
(*                                                                         *)
(* A text is the sequence of its lines, as split at each newline: the      *)
(* empty text is one blank line, a text that ends in a newline has a blank *)
(* last line.                                                              *)
(***************************************************************************)
EXTENDS Naturals, Sequences, FiniteSets

CONSTANTS
    Machines,
    Conditions, \* entry lines of a Definition of Done
    Slugs,      \* ticket names; as a line of a text, the comment with that name
    Fallback,   \* the slug of a file rebuilt from an Issue that names none
    KnownTypes, \* types that from_issue takes from a label (bug, enhancement, task)
    Gates,      \* review gates (GATE_KEYS)
    None,       \* no file, no key, no label
    Malformed,  \* a done_evidence that is not a list of entries
    Filed,      \* the tickets people file
    Limit       \* bound: how often each kind of event happens

\* dod is "### Definition of Done", h3 another heading of that level; fence a
\* bare ```, yaml an opening ```yaml, which closes nothing; mark the line that
\* marks a fence as generated, header "done_evidence:".
Plain == {"dod", "h3", "yaml", "fence", "mark", "header", "blank", "text"}
Line == Plain \cup Conditions \cup Slugs

Kinds == {"revise", "lose"}

\* A label of an Issue; a tag is a label with a key of its own.
Label == [key : {"type", "gate", "tag"}, value : KnownTypes \cup Gates \cup {"other"}]

ASSUME IssueTextAssumption ==
    /\ Fallback \in Slugs
    /\ Conditions \cap (Plain \cup Slugs) = {} /\ Plain \cap Slugs = {}
    /\ Limit \in [Kinds -> Nat]
    /\ \A t \in Filed : /\ t.body \in Seq(Line) /\ t.body # <<>>
                        /\ t.dod \in Seq(Conditions) \cup {None, Malformed}
                        /\ t.slug \in Slugs \cup {None}

VARIABLES
    file,   \* file[m]: the ticket in m's cache
    hash,   \* hash[m]: the ticket m's sidecar remembers as pushed
    issue,  \* the Issue
    stale,  \* stale[m]: the Issue's updatedAt is not the one in m's file
    agreed, \* agreed[m], history: no session has touched m's file, and no push has
            \* brought a session's work to the Issue, since m last met the Issue
    sent,   \* history: the ticket that was pushed last
    used    \* used[k]: how many events of kind k happened

vars == <<file, hash, issue, stale, agreed, sent, used>>

-----------------------------------------------------------------------------
(* Files: emit_md and parse_md *)

\* s without its leading blank lines.
Unled(s) ==
    LET n == CHOOSE n \in 0..Len(s) :
                 /\ \A k \in 1..n : s[k] = "blank"
                 /\ n < Len(s) => s[n + 1] # "blank"
    IN  SubSeq(s, n + 1, Len(s))

OrEmpty(s) == IF s = <<>> THEN <<"blank">> ELSE s

EndsInNewline(b) == Len(b) > 1 /\ b[Len(b)] = "blank"

\* A body after it was written to a file and read again: the file ends in one
\* newline whether the body does or not, and the reader takes one away.
Reread(b) == OrEmpty(Unled(IF EndsInNewline(b) THEN SubSeq(b, 1, Len(b) - 1) ELSE b))

-----------------------------------------------------------------------------
(* The slug trailer *)

\* b up to a trailer that ends it and stands after a blank line, or alone.
WithoutTrailer(b) ==
    LET c == IF EndsInNewline(b) THEN SubSeq(b, 1, Len(b) - 1) ELSE b
        n == Len(c)
    IN  IF c[n] \in Slugs /\ n = 1 THEN <<"blank">>
        ELSE IF c[n] \in Slugs /\ n > 2 /\ c[n - 1] = "blank" THEN SubSeq(c, 1, n - 2)
        ELSE b

SlugOn(b) ==
    IF WithoutTrailer(b) = b THEN None
    ELSE IF EndsInNewline(b) THEN b[Len(b) - 1] ELSE b[Len(b)]

WithTrailer(b, slug) ==
    LET base == WithoutTrailer(b)
    IN  IF slug = None THEN b
        ELSE (IF base = <<"blank">> THEN <<>> ELSE base \o <<"blank">>)
               \o <<slug, "blank">>

\* A bug, ADT-322: the bodies are compared with the trailers on them.
DiffersRaw(b, c) == b # c

\* _body_differs: a trailer alone is no reason to write.
Differs(b, c) == WithoutTrailer(b) # WithoutTrailer(c)

-----------------------------------------------------------------------------
(* The Definition of Done in the body *)

First(K) == CHOOSE k \in K : \A j \in K : k <= j

Headings(b) == {k \in DOMAIN b : b[k] = "dod"}

\* _dod_section: the lines after the first heading, up to the next one.
Section(b) ==
    LET h == First(Headings(b))
        next == {k \in (h + 1)..Len(b) : b[k] \in {"dod", "h3"}}
    IN  [from |-> h + 1, to |-> IF next = {} THEN Len(b) ELSE First(next) - 1]

\* A bug: a fence without its end runs on over the next one, to the end of that.
ClosesLater(b, i, j) ==
    b[j] = "fence" /\ \A k \in i..(j - 1) : b[k] # "fence"

\* A fence whose content starts at i closes at j: no fence line between them.
Closes(b, i, j) ==
    b[j] = "fence" /\ \A k \in i..(j - 1) : b[k] \notin {"fence", "yaml"}

\* The fences of section s that open with the lines of `lead`.
Fences(b, s, lead) ==
    {f \in [from : s.from..s.to, to : s.from..s.to] :
        /\ f.from + Len(lead) <= f.to
        /\ SubSeq(b, f.from, f.from + Len(lead) - 1) = lead
        /\ Closes(b, f.from + Len(lead), f.to)}

Leftmost(F) == CHOOSE f \in F : \A g \in F : f.from <= g.from

Marked == <<"yaml", "mark", "header">>
Unmarked == <<"yaml", "header">>

\* The text of fence f gives way to lines that end in a newline, or to nothing.
Replaced(b, f, lines) ==
    SubSeq(b, 1, f.from - 1) \o lines
      \o (IF f.to = Len(b) THEN <<"blank">> ELSE SubSeq(b, f.to + 1, Len(b)))

\* A new fence under the heading, a blank line below it.
Inserted(b, s, lines) ==
    LET rest == Unled(SubSeq(b, s.from, s.to))
        tail == SubSeq(b, s.to + 1, Len(b))
    IN  SubSeq(b, 1, s.from - 1) \o lines \o <<"blank">>
          \o (IF rest = <<>> /\ tail = <<>> THEN <<"blank">> ELSE rest \o tail)

\* The generated fence: the entries as emit_md writes them into frontmatter.
Block(dod) == Marked \o dod \o <<"fence">>

\* _render_dod_block: the body with the fence `dod` asks for.  Without a heading
\* there is no place for it; with nothing to show only a generated fence goes.
Rendered(b, dod) ==
    LET s == Section(b)
        marked == Fences(b, s, Marked)
        unmarked == Fences(b, s, Unmarked)
    IN  IF dod \in {None, Malformed} \/ Headings(b) = {} THEN b
        ELSE IF dod = <<>>
        THEN IF marked = {} THEN b ELSE Replaced(b, Leftmost(marked), <<>>)
        ELSE IF marked \cup unmarked = {} THEN Inserted(b, s, Block(dod))
        ELSE Replaced(b, Leftmost(IF marked # {} THEN marked ELSE unmarked), Block(dod))

\* What the generated fence in section s lists, up to a line that is no entry.
DodIn(b, s) ==
    LET F == Fences(b, s, Marked)
        f == Leftmost(F)
        inner == SubSeq(b, f.from + Len(Marked), f.to - 1)
        other == {k \in DOMAIN inner : inner[k] \notin Conditions \cup {"blank"}}
        isEntry(l) == l \in Conditions
    IN  IF Headings(b) = {} \/ F = {} THEN None
        ELSE SelectSeq(IF other = {} THEN inner ELSE SubSeq(inner, 1, First(other) - 1),
                       isEntry)

\* A bug, ADT-273: the reader searches the whole body, the writer one section.
DodAnywhere(b) == DodIn(b, [from |-> 1, to |-> Len(b)])

\* _dod_from_body
DodOn(b) == DodIn(b, Section(b))

-----------------------------------------------------------------------------
(* Labels and state *)

LabelsOf(t) == {[key |-> "type", value |-> t.type] : x \in {t.type} \ {None}}
                 \cup {[key |-> "gate", value |-> g] : g \in t.gates}
                 \cup t.tags

\* The type a label names, if from_issue knows it; it meets one of them last.
TypesIn(labels) == {v \in KnownTypes : [key |-> "type", value |-> v] \in labels}

\* What is left for tags: a gate nobody knows is dropped, a type is kept.
TagsIn(labels) == {l \in labels : /\ l.key # "gate"
                                  /\ l.key = "type" => l.value \notin KnownTypes}

\* _derive_state: whether a ticket is closed, and why.
Derived(t) == IF t.status = "cancelled" THEN [closed |-> TRUE, why |-> "not_planned"]
              ELSE IF t.lane = "done" THEN [closed |-> TRUE, why |-> "completed"]
              ELSE [closed |-> FALSE, why |-> None]

\* A file that says it is closed but not why, as the render leaves it, gets the
\* reason its status gives.
StateOf(t) ==
    IF t.state = None THEN Derived(t)
    ELSE [closed |-> t.state = "closed",
          why    |-> IF t.state = "closed" /\ t.why = None THEN Derived(t).why ELSE t.why]

-----------------------------------------------------------------------------
(* to_issue and from_issue *)

ToIssue(t) ==
    [body   |-> WithTrailer(Rendered(t.body, t.dod), t.slug),
     labels |-> LabelsOf(t),
     lane   |-> t.lane,
     closed |-> StateOf(t).closed,
     why    |-> StateOf(t).why]

\* The files an Issue may be rebuilt as: its labels come in an order of GitHub's.
FromIssue(i) ==
    {[body   |-> Reread(WithoutTrailer(i.body)),
      dod    |-> DodOn(WithoutTrailer(i.body)),
      slug   |-> IF SlugOn(i.body) = None THEN Fallback ELSE SlugOn(i.body),
      type   |-> v,
      gates  |-> {g \in Gates : [key |-> "gate", value |-> g] \in i.labels},
      tags   |-> TagsIn(i.labels),
      lane   |-> i.lane,
      status |-> None,
      state  |-> IF i.closed THEN "closed" ELSE "open",
      why    |-> i.why] :
     v \in IF TypesIn(i.labels) = {} THEN {None} ELSE TypesIn(i.labels)}

-----------------------------------------------------------------------------
(* Sessions and accidents *)

Init ==
    \E t \in Filed, m \in Machines :
        /\ file = [n \in Machines |-> IF n = m THEN t ELSE None]
        /\ hash = [n \in Machines |-> None]
        /\ issue = None
        /\ stale = [n \in Machines |-> FALSE]
        /\ agreed = [n \in Machines |-> FALSE]
        /\ sent = t
        /\ used = [k \in Kinds |-> 0]

Spend(k) == used[k] < Limit[k] /\ used' = [used EXCEPT ![k] = @ + 1]

\* A session revises the Definition of Done, down to nothing or beyond repair.
Revise(m, dod) ==
    /\ file[m] # None /\ file[m].dod # dod
    /\ Spend("revise")
    /\ file' = [file EXCEPT ![m].dod = dod]
    /\ agreed' = [agreed EXCEPT ![m] = FALSE]
    /\ UNCHANGED <<hash, issue, stale, sent>>

\* A machine's cache is lost, with the sidecar that lies in it or without.
Lose(m) ==
    /\ file[m] # None /\ issue # None
    /\ Spend("lose")
    /\ file' = [file EXCEPT ![m] = None]
    /\ \E h \in {None, hash[m]} : hash' = [hash EXCEPT ![m] = h]
    /\ UNCHANGED <<issue, stale, agreed, sent>>

-----------------------------------------------------------------------------
(* The passes *)

Dirty(m) == file[m] # None /\ file[m] # hash[m]

NoBody == <<"text">>   \* "(no body)"

\* The first push creates the Issue, with a stand-in for an empty body, and
\* writes its number into the file.
Create(m) ==
    /\ issue = None /\ Dirty(m)
    /\ issue' = [ToIssue(file[m]) EXCEPT !.body = IF @ = <<"blank">> THEN NoBody ELSE @]
    /\ file' = [file EXCEPT ![m].body = Reread(@)]
    /\ hash' = [hash EXCEPT ![m] = file'[m]]
    /\ sent' = file[m]
    /\ agreed' = [n \in Machines |-> n = m]
    /\ stale' = [n \in Machines |-> TRUE]
    /\ UNCHANGED used

\* Later ones write what differs; closing again does not change the reason.
Update(m) ==
    LET want == ToIssue(file[m])
        edited == [issue EXCEPT
            !.body = IF Differs(@, want.body) THEN want.body ELSE @,
            !.labels = want.labels, !.lane = want.lane, !.closed = want.closed,
            !.why = IF want.closed = issue.closed THEN @ ELSE want.why]
    IN  /\ issue # None /\ Dirty(m)
        /\ issue' = edited
        /\ stale' = IF edited = issue THEN stale ELSE [n \in Machines |-> TRUE]
        /\ hash' = [hash EXCEPT ![m] = file[m]]
        /\ sent' = file[m]
        /\ agreed' = IF agreed[m] THEN agreed ELSE [n \in Machines |-> n = m]
        /\ UNCHANGED <<file, used>>

\* The pull writes fields GitHub owns into a file: the whole file is rewritten.
PullWrite(m) ==
    /\ file[m] # None /\ issue # None /\ stale[m]
    /\ file' = [file EXCEPT ![m].body = Reread(@)]
    /\ stale' = [stale EXCEPT ![m] = FALSE]
    /\ UNCHANGED <<hash, issue, agreed, sent, used>>

\* A machine without a file rebuilds it from the Issue alone.
Rebuild(m) ==
    /\ file[m] = None /\ issue # None
    /\ \E t \in FromIssue(issue) : file' = [file EXCEPT ![m] = t]
    /\ agreed' = [agreed EXCEPT ![m] = TRUE]
    /\ stale' = [stale EXCEPT ![m] = FALSE]
    /\ UNCHANGED <<hash, issue, sent, used>>

\* The render puts the state that folder and status imply into a file that has
\* an Issue; it leaves the reason alone.
Render(m) ==
    LET t == file[m]
        state == IF t.lane = "done" \/ t.status = "cancelled" THEN "closed" ELSE "open"
    IN  /\ t # None /\ issue # None /\ t.state # state
        /\ file' = [file EXCEPT ![m].state = state]
        /\ UNCHANGED <<hash, issue, stale, agreed, sent, used>>

Next ==
    \E m \in Machines :
        \/ Create(m) \/ Update(m) \/ PullWrite(m) \/ Rebuild(m) \/ Render(m) \/ Lose(m)
        \/ \E dod \in {t.dod : t \in Filed} : Revise(m, dod)

Spec == Init /\ [][Next]_vars

-----------------------------------------------------------------------------
(* Properties *)

\* Every body on the way is a text: one line at least, whatever was cut from it.
TypeOK ==
    /\ \A m \in Machines : \A t \in {file[m], hash[m]} \ {None} :
         /\ t.body \in Seq(Line) /\ t.body # <<>>
         /\ t.dod \in Seq(Conditions) \cup {None, Malformed}
         /\ t.slug \in Slugs \cup {None} /\ t.tags \subseteq Label
    /\ issue # None => /\ issue.body \in Seq(Line) /\ issue.body # <<>>
                       /\ issue.labels \subseteq Label
    /\ stale \in [Machines -> BOOLEAN] /\ agreed \in [Machines -> BOOLEAN]
    /\ used \in [Kinds -> Nat]

\* Nobody pasted a second generated block into the section.
OneBlockAtMost(b) ==
    Headings(b) = {} \/ Cardinality(Fences(b, Section(b), Marked)) <= 1

\* The Issue alone is enough to rebuild the ticket that was pushed last: its
\* Definition of Done if the body has a place for one, no conditions that a
\* session has deleted, its name, its labels and whether and why it is closed.
\* _dod_section says why reader and writer must agree on the block, _SLUG_TRAILER
\* why the slug travels.
IssueCarriesTicket ==
    issue # None =>
        \A t \in FromIssue(issue) :
            /\ (sent.dod \notin {None, Malformed, <<>>} /\ Headings(sent.body) # {}
                    => t.dod = sent.dod)
            /\ (sent.dod = <<>> /\ OneBlockAtMost(sent.body) => t.dod \in {None, <<>>})
            /\ (sent.slug # None => t.slug = sent.slug)
            /\ LabelsOf(t) = LabelsOf(sent)
            /\ StateOf(t) = StateOf(sent)

IsProse(l) == l \in {"text", "dod", "h3"}

\* The lines of b that no fence holds.
Outside(b) ==
    {k \in DOMAIN b : ~ \E i \in 1..(k - 1), j \in (k + 1)..Len(b) :
                          /\ b[i] = "yaml" /\ b[j] = "fence"
                          /\ \A n \in (i + 1)..(j - 1) : b[n] \notin {"yaml", "fence"}}

\* Whatever the body looks like, the generated block takes the place of one
\* fence at most: no prose outside of fences is lost on the way to the Issue
\* (_FENCE_BODY, _FENCE_CLOSE).
ProseSurvives ==
    issue # None =>
        Cardinality({k \in Outside(sent.body) : IsProse(sent.body[k])})
          <= Len(SelectSeq(issue.body, IsProse))

\* b without blank lines at its ends.
Words(b) ==
    LET said == {k \in DOMAIN b : b[k] # "blank"}
    IN  IF said = {} THEN <<>>
        ELSE SubSeq(b, First(said), CHOOSE k \in said : \A j \in said : j <= k)

\* A push that no session asked for, because a rebuild, a pull or a render made
\* the file differ from the hash, changes nothing on the Issue but blank lines
\* around its body or the stand-in for an empty one, and is no rewrite of a
\* trailer alone: what machines only pass on to each other says the same for ever
\* (_body_differs, ADT-322; _push_hash).
UneditedPushKeepsWords ==
    [][\A m \in Machines :
         Update(m) /\ agreed[m] /\ issue' # issue =>
           LET old == WithoutTrailer(issue.body)
               now == WithoutTrailer(issue'.body)
           IN  /\ [issue' EXCEPT !.body = issue.body] = issue
               /\ now # old
               /\ \/ Words(now) = Words(old)
                  \/ {Words(now), Words(old)} = {<<>>, NoBody}]_vars
=============================================================================
