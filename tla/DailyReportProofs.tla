------------------------- MODULE DailyReportProofs -------------------------
(***************************************************************************)
(* An install pings under one id, and accidents are the only source of     *)
(* further ones, for any number of machines and days.                      *)
(*                                                                         *)
(* The ids a machine has used do not suffice for an invariant: an id that  *)
(* is drawn, or about to be minted by a render, will be used.  IdInv       *)
(* counts those along, and says that a machine without an id has already   *)
(* paid for the next one: it never had any, or an accident took the last.  *)
(*                                                                         *)
(* And a machine has one comment on an Issue.  Balance counts the comments *)
(* it will still post there when nothing else goes wrong, and the one that *)
(* a folder gone read-only during a report will not let it remember.       *)
(***************************************************************************)
EXTENDS DailyReport, FiniteSetTheorems, SequenceTheorems, TLAPS

Labels == {"idle", "find", "create", "close", "update", "post", "save", "read",
           "ping", "mint", "send"}

Drawing(m) == pc[m] \in {"mint", "send"}

TypeInv ==
    /\ pc \in [Machines -> Labels]
    /\ rendering \in [Machines -> BOOLEAN]
    /\ writable \in [Machines -> BOOLEAN] /\ alive \in [Machines -> BOOLEAN]
    /\ id \in [Machines -> Nat] /\ drawn \in [Machines -> Nat]
    /\ minted \in Nat
    /\ sent \in [Machines -> SUBSET Nat]
    /\ used \in [Kinds -> Nat]

Accidents == used["forget"] + used["readonly"] + used["render"]

\* Every id m has used or has in hand.
IdsOf(m) == sent[m] \cup ({id[m], drawn[m]} \ {0})

\* A render that has found no id will mint one.
Coming(m) == IF rendering[m] THEN 1 ELSE 0

\* After what was paid for, one more.
Paid(S, m) == Cardinality(S) + Coming(m) <= Accidents

IdInv(m) ==
    /\ IsFiniteSet(sent[m])
    /\ pc[m] # "idle" => alive[m]
    /\ Drawing(m) <=> drawn[m] # 0
    /\ Cardinality(IdsOf(m)) + Coming(m) <= 1 + Accidents
    /\ alive[m] /\ id[m] = 0 =>
         /\ pc[m] # "send" => Paid(sent[m], m)
         /\ pc[m] = "send" \/ (pc[m] = "mint" /\ ~writable[m]) => Paid(IdsOf(m), m)

PingInv == TypeInv /\ \A m \in Machines : IdInv(m)

-----------------------------------------------------------------------------
\* What a set of ids gains with one more, and what a part of it can count.
LEMMA OneMore ==
    ASSUME NEW S, NEW T, NEW x, IsFiniteSet(S), T \subseteq S \cup {x}
    PROVE  IsFiniteSet(T) /\ Cardinality(T) \in Nat /\ Cardinality(S) \in Nat
             /\ Cardinality(T) <= Cardinality(S) + 1
<1>1. IsFiniteSet(S \cup {x}) /\ Cardinality(S \cup {x}) <= Cardinality(S) + 1
        /\ Cardinality(S) \in Nat /\ Cardinality(S \cup {x}) \in Nat
    BY FS_AddElement, FS_CardinalityType
<1>2. IsFiniteSet(T) /\ Cardinality(T) <= Cardinality(S \cup {x}) /\ Cardinality(T) \in Nat
    BY <1>1, FS_Subset, FS_CardinalityType
<1> QED
    BY <1>1, <1>2

LEMMA Fewer ==
    ASSUME NEW S, NEW T, IsFiniteSet(S), T \subseteq S
    PROVE  IsFiniteSet(T) /\ Cardinality(T) \in Nat /\ Cardinality(S) \in Nat
             /\ Cardinality(T) <= Cardinality(S)
BY FS_Subset, FS_CardinalityType

LEMMA IdsAreFinite ==
    ASSUME NEW m \in Machines, IsFiniteSet(sent[m])
    PROVE  IsFiniteSet(IdsOf(m)) /\ Cardinality(IdsOf(m)) \in Nat /\ Cardinality(sent[m]) \in Nat
             /\ Cardinality(sent[m]) <= Cardinality(IdsOf(m))
<1>1. IsFiniteSet(sent[m] \cup {id[m]})
    BY FS_AddElement
<1>2. IsFiniteSet((sent[m] \cup {id[m]}) \cup {drawn[m]})
    BY <1>1, FS_AddElement
<1>3. IsFiniteSet(IdsOf(m))
    BY <1>2, FS_Subset DEF IdsOf
<1> QED
    BY <1>3, Fewer DEF IdsOf

\* An event counts, and the accidents among them do.
LEMMA Spending ==
    ASSUME TypeInv, NEW k \in Kinds, used' = [used EXCEPT ![k] = @ + 1]
    PROVE  /\ used' \in [Kinds -> Nat] /\ Accidents \in Nat
           /\ Accidents' = Accidents + (IF k \in {"forget", "readonly", "render"} THEN 1 ELSE 0)
<1>1. used \in [Kinds -> Nat] /\ {"forget", "readonly", "render"} \subseteq Kinds
    BY DEF TypeInv, Kinds
<1> QED
    BY <1>1 DEF Accidents

LEMMA PingInit == Init => PingInv
<1> SUFFICES ASSUME Init PROVE PingInv
    OBVIOUS
<1>1. TypeInv
    BY DEF Init, TypeInv, Labels, Kinds
<1>2. ASSUME NEW m \in Machines PROVE IdInv(m)
    <2>1. sent[m] = {} /\ IdsOf(m) = {} /\ Coming(m) = 0 /\ Accidents = 0
        BY DEF Init, IdsOf, Coming, Accidents, Kinds
    <2>2. pc[m] = "idle" /\ drawn[m] = 0
        BY DEF Init
    <2> QED
        BY <2>1, <2>2, FS_EmptySet DEF IdInv, Paid, Drawing
<1> QED
    BY <1>1, <1>2 DEF PingInv

\* Whatever leaves a machine's ids alone, and does not begin or end a draw.
LEMMA Quiet ==
    ASSUME PingInv, TypeInv', NEW m \in Machines, Accidents' \in Nat, Accidents' >= Accidents,
           sent'[m] = sent[m], id'[m] = id[m], drawn'[m] = drawn[m], Coming(m)' = Coming(m),
           alive'[m] = alive[m],
           \/ pc'[m] = pc[m] /\ (writable'[m] = writable[m] \/ writable'[m])
           \/ ~Drawing(m) /\ ~Drawing(m)' /\ (pc'[m] # "idle" => alive[m])
    PROVE  IdInv(m)'
<1>1. IdInv(m) /\ Accidents \in Nat /\ Coming(m) \in Nat /\ pc[m] \in Labels /\ pc'[m] \in Labels
    BY DEF PingInv, TypeInv, Accidents, Coming, Kinds
<1>2. IdsOf(m)' = IdsOf(m)
    BY DEF IdsOf
<1>3. Cardinality(IdsOf(m)) \in Nat /\ Cardinality(sent[m]) \in Nat
    BY <1>1, IdsAreFinite DEF IdInv
<1> QED
    BY <1>1, <1>2, <1>3 DEF IdInv, Paid, Drawing

\* What a step may do to used: nothing, or one event more.
Counted(ks) == UNCHANGED used \/ \E k \in ks : used' = [used EXCEPT ![k] = @ + 1]

LEMMA Counting ==
    ASSUME TypeInv, NEW ks \in SUBSET Kinds, Counted(ks)
    PROVE  /\ used' \in [Kinds -> Nat] /\ Accidents \in Nat /\ Accidents' \in Nat
           /\ Accidents' >= Accidents
<1>1. CASE UNCHANGED used
    <2>1. Accidents' = Accidents /\ used' = used
        BY <1>1 DEF Accidents
    <2>2. used \in [Kinds -> Nat] /\ Accidents \in Nat
        BY DEF TypeInv, Accidents, Kinds
    <2> QED
        BY <2>1, <2>2
<1>2. CASE \E k \in ks : used' = [used EXCEPT ![k] = @ + 1]
    <2>1. PICK k \in Kinds : used' = [used EXCEPT ![k] = @ + 1]
        BY <1>2
    <2>2. /\ used' \in [Kinds -> Nat] /\ Accidents \in Nat
          /\ Accidents' = Accidents + (IF k \in {"forget", "readonly", "render"} THEN 1 ELSE 0)
        BY <2>1, Spending
    <2> QED
        BY <2>2
<1> QED
    BY <1>1, <1>2 DEF Counted

\* Finding the Issue and writing the comment: no id is looked at.
LEMMA ReportStep ==
    ASSUME PingInv, NEW m \in Machines,
           \/ Tick(m) \/ Find(m) \/ Create(m) \/ Close(m) \/ Update(m) \/ Post(m)
           \/ Save(m) \/ Read(m) \/ Fail(m)
    PROVE  PingInv'
<1>1. PICK l \in Labels \ {"idle", "mint", "send"} : pc' = [pc EXCEPT ![m] = l]
    BY DEF Tick, Find, Create, Close, Update, Post, Save, Read, Fail, ToPing, Write, Goto, Labels
<1>2. ~Drawing(m) /\ alive[m]
    BY DEF PingInv, IdInv, Drawing,
           Tick, Find, Create, Close, Update, Post, Save, Read, Fail
<1>3. /\ UNCHANGED <<id, drawn, sent, minted, rendering, writable, alive>>
      /\ Counted({"lost", "error"})
    BY DEF Tick, Find, Create, Close, Update, Post, Save, Read, Fail, files, world, Spend, Counted
<1>4. used' \in [Kinds -> Nat] /\ Accidents' \in Nat /\ Accidents' >= Accidents
    BY <1>3, Counting DEF PingInv, Kinds
<1>5. TypeInv'
    BY <1>1, <1>3, <1>4 DEF PingInv, TypeInv
<1>6. ASSUME NEW n \in Machines PROVE IdInv(n)'
    <2>1. Coming(n)' = Coming(n)
        BY <1>3 DEF Coming
    <2>2. \/ pc'[n] = pc[n]
          \/ ~Drawing(n) /\ ~Drawing(n)' /\ (pc'[n] # "idle" => alive[n])
        BY <1>1, <1>2 DEF PingInv, TypeInv, Drawing
    <2> QED
        BY <1>3, <1>4, <1>5, <2>1, <2>2, Quiet
<1> QED
    BY <1>5, <1>6 DEF PingInv

\* Days, people and repairs.
LEMMA OutsideStep ==
    ASSUME PingInv,
           NextDay \/ DeleteComment \/ \E m \in Machines : Upgrade(m) \/ Repair(m)
    PROVE  PingInv'
<1>1. /\ UNCHANGED <<pc, id, drawn, sent, minted, rendering, alive>>
      /\ Counted({"asleep", "delete", "upgrade"})
    BY DEF NextDay, DeleteComment, Upgrade, Repair, files, locals, world, Spend, Counted
<1>2. /\ writable' \in [Machines -> BOOLEAN]
      /\ \A n \in Machines : writable'[n] = writable[n] \/ writable'[n]
    BY DEF NextDay, DeleteComment, Upgrade, Repair, world, PingInv, TypeInv
<1>3. used' \in [Kinds -> Nat] /\ Accidents' \in Nat /\ Accidents' >= Accidents
    BY <1>1, Counting DEF PingInv, Kinds
<1>4. TypeInv'
    BY <1>1, <1>2, <1>3 DEF PingInv, TypeInv
<1>5. ASSUME NEW n \in Machines PROVE IdInv(n)'
    <2>1. Coming(n)' = Coming(n)
        BY <1>1 DEF Coming
    <2> QED
        BY <1>1, <1>2, <1>3, <1>4, <2>1, Quiet
<1> QED
    BY <1>4, <1>5 DEF PingInv

\* A step of m's leaves the other machines to themselves.
LEMMA Others ==
    ASSUME PingInv, TypeInv', Accidents' \in Nat, Accidents' >= Accidents,
           NEW n \in Machines,
           sent'[n] = sent[n], id'[n] = id[n], drawn'[n] = drawn[n], pc'[n] = pc[n],
           rendering'[n] = rendering[n], writable'[n] = writable[n], alive'[n] = alive[n]
    PROVE  IdInv(n)'
BY Quiet DEF Coming

\* The ping: an id is read or drawn, written and used.
LEMMA RunOnceStep == ASSUME PingInv, NEW m \in Machines, RunOnce(m) PROVE PingInv'
<1> USE DEF RunOnce, Exit, Drop, Goto, Stamp, Due, world
<1>1. /\ UNCHANGED <<id, sent, used, rendering, writable, alive>> /\ pc[m] = "ping"
      /\ \A n \in Machines \ {m} : pc'[n] = pc[n] /\ drawn'[n] = drawn[n]
    BY DEF PingInv, TypeInv
<1>2. Accidents' = Accidents /\ Accidents \in Nat
    BY <1>1 DEF Accidents, PingInv, TypeInv, Kinds
<1>3. TypeInv'
    BY <1>1 DEF PingInv, TypeInv, Labels
<1>4. ASSUME NEW n \in Machines \ {m} PROVE IdInv(n)'
    BY <1>1, <1>2, <1>3, Others
<1>5. IdInv(m)'
    <2>1. /\ IdInv(m) /\ drawn[m] = 0 /\ alive[m] /\ Coming(m)' = Coming(m) /\ Coming(m) \in Nat
        BY <1>1 DEF PingInv, IdInv, Drawing, Coming
    <2>2. \/ pc'[m] = "idle" /\ drawn'[m] = 0
          \/ id[m] # 0 /\ pc'[m] = "send" /\ drawn'[m] = id[m]
          \/ id[m] = 0 /\ pc'[m] = "mint" /\ drawn'[m] = minted + 1 /\ minted + 1 # 0 /\ writable[m]
        BY <1>1 DEF PingInv, TypeInv
    <2>3. CASE pc'[m] = "idle" /\ drawn'[m] = 0
        BY <2>1, <2>3, <1>1, <1>2, <1>3, Quiet DEF Drawing
    <2>4. CASE id[m] # 0 /\ pc'[m] = "send" /\ drawn'[m] = id[m]
        <3>1. IdsOf(m)' = IdsOf(m)
            BY <2>1, <2>4, <1>1 DEF IdsOf
        <3> QED
            BY <3>1, <2>1, <2>4, <1>1, <1>2 DEF IdInv, Drawing
    <2>5. CASE id[m] = 0 /\ pc'[m] = "mint" /\ drawn'[m] = minted + 1 /\ minted + 1 # 0 /\ writable[m]
        <3>1. IdsOf(m)' \subseteq sent[m] \cup {minted + 1}
            BY <2>5, <1>1 DEF IdsOf
        <3>2. /\ IsFiniteSet(sent[m]) /\ Cardinality(IdsOf(m)') <= Cardinality(sent[m]) + 1
              /\ Cardinality(IdsOf(m)') \in Nat /\ Cardinality(sent[m]) \in Nat
            BY <3>1, <2>1, OneMore DEF IdInv
        <3>3. Cardinality(sent[m]) + Coming(m) <= Accidents
            BY <2>1, <2>5, <1>1 DEF IdInv, Paid
        <3> QED
            BY <3>2, <3>3, <2>1, <2>5, <1>1, <1>2 DEF IdInv, Drawing, Paid
    <2> QED
        BY <2>2, <2>3, <2>4, <2>5
<1> QED
    BY <1>3, <1>4, <1>5 DEF PingInv

LEMMA MintStep == ASSUME PingInv, NEW m \in Machines, Mint(m) PROVE PingInv'
<1> USE DEF Mint, Goto, world
<1>1. /\ UNCHANGED <<drawn, sent, used, rendering, writable, alive>>
      /\ pc[m] = "mint" /\ pc'[m] = "send" /\ id'[m] = IF writable[m] THEN drawn[m] ELSE id[m]
      /\ \A n \in Machines \ {m} : pc'[n] = pc[n] /\ id'[n] = id[n]
    BY DEF PingInv, TypeInv
<1>2. Accidents' = Accidents /\ Accidents \in Nat
    BY <1>1 DEF Accidents, PingInv, TypeInv, Kinds
<1>3. TypeInv'
    BY <1>1 DEF PingInv, TypeInv, Labels
<1>4. ASSUME NEW n \in Machines \ {m} PROVE IdInv(n)'
    BY <1>1, <1>2, <1>3, Others
<1>5. IdInv(m)'
    <2>1. IdInv(m) /\ drawn[m] # 0 /\ Coming(m)' = Coming(m) /\ Coming(m) \in Nat
        BY <1>1 DEF PingInv, IdInv, Drawing, Coming
    <2>2. CASE writable[m]
        <3>1. IdsOf(m)' \subseteq IdsOf(m)
            BY <2>2, <1>1 DEF IdsOf
        <3>2. /\ Cardinality(IdsOf(m)') <= Cardinality(IdsOf(m))
              /\ Cardinality(IdsOf(m)') \in Nat /\ Cardinality(IdsOf(m)) \in Nat
            BY <3>1, <2>1, IdsAreFinite, Fewer DEF IdInv
        <3> QED
            BY <3>2, <2>1, <2>2, <1>1, <1>2 DEF IdInv, Drawing
    <2>3. CASE ~writable[m]
        <3>1. IdsOf(m)' = IdsOf(m)
            BY <2>3, <1>1 DEF IdsOf
        <3> QED
            BY <3>1, <2>1, <2>3, <1>1, <1>2 DEF IdInv, Drawing, Paid
    <2> QED
        BY <2>2, <2>3
<1> QED
    BY <1>3, <1>4, <1>5 DEF PingInv

LEMMA SendStep == ASSUME PingInv, NEW m \in Machines, Send(m) PROVE PingInv'
<1> USE DEF Send, Exit, Drop, Goto, world, files
<1>1. /\ UNCHANGED <<id, minted, rendering, writable, alive>> /\ Counted({"error"})
      /\ pc[m] = "send" /\ pc'[m] = "idle" /\ drawn'[m] = 0
      /\ sent'[m] = sent[m] \/ sent'[m] = sent[m] \cup {drawn[m]}
      /\ \A n \in Machines \ {m} : pc'[n] = pc[n] /\ drawn'[n] = drawn[n] /\ sent'[n] = sent[n]
    BY DEF PingInv, TypeInv, Spend, Counted
<1>2. used' \in [Kinds -> Nat] /\ Accidents \in Nat /\ Accidents' \in Nat /\ Accidents' >= Accidents
    BY <1>1, Counting DEF PingInv, Kinds
<1>3. TypeInv'
    BY <1>1, <1>2 DEF PingInv, TypeInv, Labels
<1>4. ASSUME NEW n \in Machines \ {m} PROVE IdInv(n)'
    BY <1>1, <1>2, <1>3, Others
<1>5. IdInv(m)'
    <2>1. /\ IdInv(m) /\ drawn[m] # 0 /\ Coming(m)' = Coming(m) /\ Coming(m) \in Nat
        BY <1>1 DEF PingInv, IdInv, Drawing, Coming
    <2>2. IdsOf(m)' \subseteq IdsOf(m) /\ sent'[m] \subseteq IdsOf(m)
        BY <2>1, <1>1 DEF IdsOf
    <2>3. /\ Cardinality(IdsOf(m)') <= Cardinality(IdsOf(m)) /\ IsFiniteSet(sent'[m])
          /\ Cardinality(sent'[m]) <= Cardinality(IdsOf(m)) /\ Cardinality(sent'[m]) \in Nat
          /\ Cardinality(IdsOf(m)') \in Nat /\ Cardinality(IdsOf(m)) \in Nat
        BY <2>1, <2>2, IdsAreFinite, Fewer DEF IdInv
    <2>4. alive[m] /\ id[m] = 0 => Cardinality(IdsOf(m)) + Coming(m) <= Accidents
        <3>1. alive[m] /\ id[m] = 0 => Paid(IdsOf(m), m)
            BY <2>1, <1>1, Zenon DEF IdInv
        <3> QED
            BY <3>1, Zenon DEF Paid
    <2>5. alive'[m] = alive[m] /\ id'[m] = id[m] /\ pc'[m] = "idle" /\ drawn'[m] = 0
        BY <1>1
    <2>6. Cardinality(IdsOf(m)) + Coming(m) <= 1 + Accidents
        BY <2>1 DEF IdInv
    <2>7. ~Drawing(m)'
        BY <2>5 DEF Drawing
    <2>8. Cardinality(IdsOf(m)') + Coming(m)' <= 1 + Accidents'
        BY <2>1, <2>3, <2>6, <1>2
    <2>9. alive'[m] /\ id'[m] = 0 => Cardinality(sent'[m]) + Coming(m)' <= Accidents'
        BY <2>1, <2>3, <2>4, <2>5, <1>2
    <2> QED
        BY <2>3, <2>5, <2>7, <2>8, <2>9 DEF IdInv, Paid
<1> QED
    BY <1>3, <1>4, <1>5 DEF PingInv

\* A killed process, a deleted folder, an uninstalled machine, a folder that
\* cannot be written.
LEMMA LossStep ==
    ASSUME PingInv, NEW m \in Machines, Crash(m) \/ Forget(m) \/ Leave(m) \/ ReadOnly(m)
    PROVE  PingInv'
<1> USE DEF Crash, Forget, Leave, ReadOnly, Forgotten, Exit, Drop, Goto, world, files, locals
<1>1. /\ UNCHANGED <<sent, minted, rendering>> /\ Counted(Kinds)
      /\ \A n \in Machines \ {m} : pc'[n] = pc[n] /\ drawn'[n] = drawn[n] /\ id'[n] = id[n]
                                   /\ alive'[n] = alive[n] /\ writable'[n] = writable[n]
    BY DEF PingInv, TypeInv, Spend, Counted, Kinds
<1>2. used' \in [Kinds -> Nat] /\ Accidents \in Nat /\ Accidents' \in Nat /\ Accidents' >= Accidents
    BY <1>1, Counting DEF PingInv
<1>3. TypeInv'
    <2>1. /\ pc' \in [Machines -> Labels] /\ drawn' \in [Machines -> Nat]
          /\ id' \in [Machines -> Nat]
        BY DEF PingInv, TypeInv, Labels
    <2>2. /\ alive' \in [Machines -> BOOLEAN] /\ writable' \in [Machines -> BOOLEAN]
        BY DEF PingInv, TypeInv
    <2> QED
        BY <2>1, <2>2, <1>1, <1>2 DEF PingInv, TypeInv
<1>4. ASSUME NEW n \in Machines \ {m} PROVE IdInv(n)'
    BY <1>1, <1>2, <1>3, Others
<1>5. IdInv(m)'
    <2>1. /\ IdInv(m) /\ Coming(m)' = Coming(m) /\ Coming(m) \in Nat /\ id[m] \in Nat
        BY <1>1 DEF PingInv, TypeInv, Coming
    <2>2. IdsOf(m)' \subseteq IdsOf(m) /\ sent'[m] = sent[m]
        BY <1>1 DEF IdsOf, PingInv, TypeInv
    <2>3. /\ Cardinality(IdsOf(m)') <= Cardinality(IdsOf(m)) /\ IsFiniteSet(sent[m])
          /\ Cardinality(sent[m]) <= Cardinality(IdsOf(m)) /\ Cardinality(sent[m]) \in Nat
          /\ Cardinality(IdsOf(m)') \in Nat /\ Cardinality(IdsOf(m)) \in Nat
        BY <2>1, <2>2, IdsAreFinite, Fewer DEF IdInv
    <2>4. CASE Crash(m)
        <3>1. pc'[m] = "idle" /\ drawn'[m] = 0
            BY <2>4 DEF PingInv, TypeInv
        <3>2. id'[m] = id[m] /\ alive'[m] = alive[m]
            BY <2>4
        <3>3. id[m] = 0 /\ alive[m] => Paid(sent[m], m) \/ Paid(IdsOf(m), m)
            BY <2>1, Zenon DEF IdInv
        <3>4. id[m] = 0 /\ alive[m] => Cardinality(sent[m]) + Coming(m) <= Accidents
            BY <3>3, <2>1, <2>3, <1>2 DEF Paid
        <3>5. Cardinality(IdsOf(m)) + Coming(m) <= 1 + Accidents /\ ~Drawing(m)'
            BY <3>1, <2>1 DEF IdInv, Drawing
        <3>6. Cardinality(IdsOf(m)') + Coming(m)' <= 1 + Accidents'
            BY <3>5, <2>1, <2>3, <1>2
        <3>7. id'[m] = 0 /\ alive'[m] => Cardinality(sent'[m]) + Coming(m)' <= Accidents'
            BY <3>2, <3>4, <2>1, <2>2, <2>3, <1>2
        <3> QED
            BY <3>1, <3>5, <3>6, <3>7, <2>2, <2>3 DEF IdInv, Paid
    <2>5. CASE Forget(m)
        <3>1. Accidents' = Accidents + 1
            BY <2>5, Spending DEF PingInv, Spend, Kinds
        <3>2. UNCHANGED <<pc, drawn, alive, writable>>
            BY <2>5
        <3> QED
            BY <3>1, <3>2, <2>1, <2>2, <2>3, <1>2 DEF IdInv, Drawing, Paid
    <2>6. CASE Leave(m)
        <3>1. pc'[m] = "idle" /\ drawn'[m] = 0 /\ ~alive'[m]
            BY <2>6 DEF PingInv, TypeInv
        <3> QED
            BY <3>1, <2>1, <2>2, <2>3, <1>2 DEF IdInv, Drawing, Paid
    <2>7. CASE ReadOnly(m)
        <3>1. Accidents' = Accidents + 1
            BY <2>7, Spending DEF PingInv, Spend, Kinds
        <3>2. UNCHANGED <<pc, drawn, alive, id>>
            BY <2>7
        <3> QED
            BY <3>1, <3>2, <2>1, <2>2, <2>3, <1>2 DEF IdInv, Drawing, Paid
    <2> QED
        BY <2>4, <2>5, <2>6, <2>7
<1> QED
    BY <1>3, <1>4, <1>5 DEF PingInv

\* A board rendered by hand mints an id of its own when it found none.
LEMMA RenderStep ==
    ASSUME PingInv, NEW m \in Machines, RenderReads(m) \/ RenderMints(m)
    PROVE  PingInv'
<1> USE DEF RenderReads, RenderMints, files, locals
<1>1. /\ UNCHANGED <<pc, drawn, sent, writable, alive>> /\ Counted({"render"})
      /\ \A n \in Machines \ {m} : rendering'[n] = rendering[n] /\ id'[n] = id[n]
    BY DEF PingInv, TypeInv, Spend, Counted
<1>2. used' \in [Kinds -> Nat] /\ Accidents \in Nat /\ Accidents' \in Nat /\ Accidents' >= Accidents
    BY <1>1, Counting DEF PingInv, Kinds
<1>3. TypeInv'
    <2>1. id' \in [Machines -> Nat] /\ minted' \in Nat
        BY DEF PingInv, TypeInv
    <2>2. rendering' \in [Machines -> BOOLEAN]
        BY DEF PingInv, TypeInv
    <2> QED
        BY <2>1, <2>2, <1>1, <1>2 DEF PingInv, TypeInv
<1>4. ASSUME NEW n \in Machines \ {m} PROVE IdInv(n)'
    BY <1>1, <1>2, <1>3, Others
<1>5. IdInv(m)'
    <2>1. IdInv(m) /\ id[m] \in Nat /\ minted \in Nat
        BY DEF PingInv, TypeInv
    <2>2. CASE RenderReads(m)
        <3>1. Accidents' = Accidents + 1
            BY <2>2, Spending DEF PingInv, Spend, Kinds
        <3>2. Coming(m) = 0 /\ Coming(m)' = 1 /\ id' = id
            BY <2>2 DEF Coming, PingInv, TypeInv
        <3>3. IdsOf(m)' = IdsOf(m)
            BY <1>1, <3>2 DEF IdsOf
        <3>4. Cardinality(IdsOf(m)) \in Nat /\ Cardinality(sent[m]) \in Nat
            BY <2>1, IdsAreFinite DEF IdInv
        <3> QED
            BY <3>1, <3>2, <3>3, <3>4, <2>1, <1>1, <1>2 DEF IdInv, Drawing, Paid
    <2>3. CASE RenderMints(m)
        <3>1. Coming(m) = 1 /\ Coming(m)' = 0 /\ Accidents' = Accidents
            BY <2>3 DEF Coming, PingInv, TypeInv, Accidents
        <3>2. CASE writable[m] /\ alive[m]
            <4>1. id'[m] = minted + 1 /\ id'[m] # 0
                BY <2>1, <2>3, <3>2 DEF PingInv, TypeInv
            <4>2. IdsOf(m)' \subseteq IdsOf(m) \cup {minted + 1}
                BY <1>1, <4>1 DEF IdsOf
            <4>3. /\ Cardinality(IdsOf(m)') <= Cardinality(IdsOf(m)) + 1
                  /\ Cardinality(IdsOf(m)') \in Nat /\ Cardinality(IdsOf(m)) \in Nat
                BY <2>1, <4>2, IdsAreFinite, OneMore DEF IdInv
            <4> QED
                BY <4>1, <4>3, <3>1, <2>1, <1>1, <1>2 DEF IdInv, Drawing
        <3>3. CASE ~(writable[m] /\ alive[m])
            <4>1. id'[m] = id[m]
                BY <2>3, <3>3
            <4>2. IdsOf(m)' = IdsOf(m)
                BY <1>1, <4>1 DEF IdsOf
            <4>3. Cardinality(IdsOf(m)) \in Nat /\ Cardinality(sent[m]) \in Nat
                BY <2>1, IdsAreFinite DEF IdInv
            <4> QED
                BY <4>1, <4>2, <4>3, <3>1, <2>1, <1>1, <1>2 DEF IdInv, Drawing, Paid
        <3> QED
            BY <3>2, <3>3
    <2> QED
        BY <2>2, <2>3
<1> QED
    BY <1>3, <1>4, <1>5 DEF PingInv

LEMMA PingStep == PingInv /\ [Next]_vars => PingInv'
<1> SUFFICES ASSUME PingInv, [Next]_vars PROVE PingInv'
    OBVIOUS
<1>1. CASE UNCHANGED vars
    BY <1>1 DEF vars, files, locals, world, PingInv, TypeInv, IdInv, Drawing, Paid, IdsOf,
                Coming, Accidents
<1>2. CASE Next
    BY <1>2, ReportStep, OutsideStep, RunOnceStep, MintStep, SendStep, LossStep, RenderStep
       DEF Next, Step
<1> QED
    BY <1>1, <1>2

\* However many days pass and machines there are: an install pings under one id,
\* and under one more at most for each state folder that was deleted or could
\* not be written, and each board rendered by hand before it had an id.
THEOREM OneIdEach == Spec => []IdsAreAccidental
<1>1. ASSUME PingInv PROVE IdsAreAccidental
    <2> SUFFICES ASSUME NEW m \in Machines
                 PROVE  Cardinality(sent[m])
                          <= 1 + used["forget"] + used["readonly"] + used["render"]
        BY DEF IdsAreAccidental
    <2>1. IdInv(m) /\ Coming(m) \in Nat /\ Accidents \in Nat /\ used \in [Kinds -> Nat]
        BY <1>1 DEF PingInv, TypeInv, Coming, Accidents, Kinds
    <2>2. /\ Cardinality(sent[m]) <= Cardinality(IdsOf(m))
          /\ Cardinality(sent[m]) \in Nat /\ Cardinality(IdsOf(m)) \in Nat
        BY <2>1, IdsAreFinite DEF IdInv
    <2>3. Cardinality(sent[m]) <= 1 + Accidents
        BY <2>1, <2>2 DEF IdInv
    <2> QED
        BY <2>1, <2>2, <2>3 DEF Accidents, Kinds
<1> QED
    BY <1>1, PingInit, PingStep, PTL DEF Spec

-----------------------------------------------------------------------------
(* One comment on an Issue *)

Reporting == {"close", "update", "post", "save"}

Mishaps == used["error"] + used["lost"] + used["crash"] + used["forget"]
           + used["delete"] + used["readonly"]

\* The comments of m on the Issue i.
Mine(i, m) == {c \in DOMAIN comments : comments[c].issue = i /\ comments[c].by = m}

\* The next report of m finds its comment on the Issue everybody uses.
Recorded(m) == /\ state[m] # None /\ state[m].issue = 1
               /\ ~comments[state[m].comment].gone

\* The comments that m will still post on i when nothing else goes wrong.
Owed(i, m) ==
    IF pc[m] \in Reporting /\ at[m] = i
    THEN IF pc[m] \in {"update", "save"} /\ ~comments[mine[m]].gone THEN 0 ELSE 1
    ELSE IF i = 1 /\ alive[m] /\ ~Recorded(m) THEN 1 ELSE 0

\* A folder that became read-only during a report will not say what was posted.
Locked(m) == IF ~writable[m] /\ pc[m] \in Reporting \cup {"find", "create"} THEN 1 ELSE 0

Balance(i, m) == Cardinality(Mine(i, m)) + Owed(i, m) + Locked(m) <= 1 + Mishaps

Comment == [issue : Nat, by : Machines, age : Nat, commit : Versions, gone : BOOLEAN]

ReportTypes ==
    /\ issues \in Seq({"open", "closed"})
    /\ comments \in Seq(Comment)
    /\ commit \in [Machines -> Versions]
    /\ at \in [Machines -> Nat] /\ mine \in [Machines -> Nat]
    /\ state \in [Machines -> [issue : Nat, comment : Nat] \cup {None}]

\* What a machine knows is there.  Who creates an Issue has not reported before.
Place(m) ==
    /\ state[m] # None => /\ state[m].issue \in DOMAIN issues
                          /\ state[m].comment \in DOMAIN comments
    /\ pc[m] \in Reporting => at[m] \in DOMAIN issues
    /\ pc[m] \in {"update", "save"} => mine[m] \in DOMAIN comments
    /\ pc[m] = "create" => state[m] = None
    /\ pc[m] \in Reporting /\ at[m] # 1 => state[m] = None
    /\ ~writable[m] => used["readonly"] >= 1

ReportInv ==
    /\ PingInv /\ ReportTypes
    /\ \A c \in DOMAIN comments : comments[c].issue \in DOMAIN issues
    /\ \A m \in Machines : Place(m) /\ \A i \in Nat : Balance(i, m)

LEMMA NoneIsNoRecord ==
    /\ MaxAge \in Nat \ {0} /\ First \in Versions
    /\ None \notin [issue : Nat, comment : Nat]
BY DailyReportAssumption

LEMMA Numbers ==
    ASSUME PingInv, ReportTypes, NEW m \in Machines, NEW i
    PROVE  /\ IsFiniteSet(Mine(i, m)) /\ Cardinality(Mine(i, m)) \in Nat
           /\ Owed(i, m) \in {0, 1} /\ Locked(m) \in {0, 1}
           /\ Mishaps \in Nat /\ Mishaps >= used["readonly"] /\ used["readonly"] \in Nat
<1>1. Len(comments) \in Nat /\ DOMAIN comments = 1 .. Len(comments)
    BY LenProperties DEF ReportTypes
<1>2. IsFiniteSet(DOMAIN comments) /\ Mine(i, m) \subseteq DOMAIN comments
    BY <1>1, FS_Interval DEF Mine
<1>3. IsFiniteSet(Mine(i, m)) /\ Cardinality(Mine(i, m)) \in Nat
    BY <1>2, FS_Subset, FS_CardinalityType
<1>4. used \in [Kinds -> Nat]
    BY DEF PingInv, TypeInv
<1> QED BY <1>3, <1>4 DEF Owed, Locked, Mishaps, Kinds

\* An accident is counted, other events are not.
LEMMA Mishap ==
    ASSUME PingInv, NEW k \in Kinds, Spend(k)
    PROVE  /\ Mishaps \in Nat /\ Mishaps' \in Nat
           /\ Mishaps' = Mishaps + (IF k \in {"error", "lost", "crash", "forget", "delete",
                                              "readonly"} THEN 1 ELSE 0)
           /\ used'["readonly"] \in Nat /\ used'["readonly"] >= used["readonly"]
           /\ k = "readonly" => used'["readonly"] >= 1
<1>1. used \in [Kinds -> Nat] /\ used' = [used EXCEPT ![k] = @ + 1]
    BY DEF PingInv, TypeInv, Spend
<1> QED BY <1>1 DEF Mishaps, Kinds

\* What a step of m's leaves to the others.
Acts(m) ==
    /\ DOMAIN issues \subseteq DOMAIN issues'
    /\ DOMAIN comments \subseteq DOMAIN comments'
    /\ \A c \in DOMAIN comments : /\ comments'[c].issue = comments[c].issue
                                  /\ comments'[c].by = comments[c].by
                                  /\ comments'[c].gone = comments[c].gone
    /\ \A c \in DOMAIN comments' \ DOMAIN comments :
           comments'[c].by = m /\ comments'[c].issue \in DOMAIN issues
    /\ \A n \in Machines \ {m} :
           /\ pc'[n] = pc[n] /\ at'[n] = at[n] /\ mine'[n] = mine[n]
           /\ state'[n] = state[n] /\ writable'[n] = writable[n] /\ alive'[n] = alive[n]
    /\ Mishaps' \in Nat /\ Mishaps' >= Mishaps
    /\ used'["readonly"] \in Nat /\ used'["readonly"] >= used["readonly"]

LEMMA ActorStep ==
    ASSUME ReportInv, PingInv', ReportTypes', NEW m \in Machines, Acts(m),
           Place(m)', \A i \in Nat : Balance(i, m)'
    PROVE  ReportInv'
<1>1. \A c \in DOMAIN comments' : comments'[c].issue \in DOMAIN issues'
    BY DEF Acts, ReportInv
<1>2. ASSUME NEW n \in Machines \ {m} PROVE Place(n)' /\ \A i \in Nat : Balance(i, n)'
    <2>1. /\ Place(n) /\ pc'[n] = pc[n] /\ at'[n] = at[n] /\ mine'[n] = mine[n]
          /\ state'[n] = state[n] /\ writable'[n] = writable[n] /\ alive'[n] = alive[n]
          /\ used["readonly"] \in Nat
        BY Numbers DEF ReportInv, Acts
    <2>2. Place(n)'
        BY <2>1 DEF Acts, Place
    <2>3. ASSUME NEW i \in Nat PROVE Balance(i, n)'
        <3>1. Mine(i, n)' = Mine(i, n)
            BY DEF Acts, Mine
        <3>2. Owed(i, n)' = Owed(i, n)
            <4>1. pc[n] \in {"update", "save"} => comments'[mine[n]].gone = comments[mine[n]].gone
                BY <2>1 DEF Place, Acts
            <4>2. state[n] # None =>
                      comments'[state[n].comment].gone = comments[state[n].comment].gone
                BY <2>1 DEF Place, Acts
            <4>3. Recorded(n)' <=> Recorded(n)
                BY <2>1, <4>2 DEF Recorded
            <4> QED BY <2>1, <4>1, <4>3 DEF Owed
        <3>3. Locked(n)' = Locked(n)
            BY <2>1 DEF Locked
        <3>4. Balance(i, n) /\ Mishaps' \in Nat /\ Mishaps' >= Mishaps
            BY DEF ReportInv, Acts
        <3>5. /\ Cardinality(Mine(i, n)) \in Nat /\ Owed(i, n) \in Nat /\ Locked(n) \in Nat
              /\ Mishaps \in Nat
            BY Numbers DEF ReportInv
        <3> QED BY <3>1, <3>2, <3>3, <3>4, <3>5 DEF Balance
    <2> QED BY <2>2, <2>3
<1> QED BY <1>1, <1>2 DEF ReportInv

\* A step after which m has posted no more and owes no more, or after an accident.
LEMMA NoMore ==
    ASSUME ReportInv, PingInv', ReportTypes', NEW m \in Machines, NEW i \in Nat,
           Mine(i, m)' = Mine(i, m), Locked(m)' <= Locked(m), Mishaps' >= Mishaps,
           Owed(i, m)' <= Owed(i, m) \/ Mishaps' = Mishaps + 1
    PROVE  Balance(i, m)'
<1>1. /\ Cardinality(Mine(i, m)) \in Nat /\ Owed(i, m) \in {0, 1} /\ Locked(m) \in {0, 1}
      /\ Mishaps \in Nat /\ Balance(i, m)
    BY Numbers DEF ReportInv
<1>2. Owed(i, m)' \in {0, 1} /\ Locked(m)' \in {0, 1} /\ Mishaps' \in Nat
    <2>1. ReportTypes' /\ PingInv' => /\ Mishaps' \in Nat
        BY DEF Mishaps, PingInv, TypeInv, Kinds
    <2> QED BY <2>1 DEF Owed, Locked
<1> QED BY <1>1, <1>2 DEF Balance

\* m's own part of a step that writes no comment.
StaysUnwritten(m) ==
    /\ UNCHANGED <<issues, comments, commit>>
    /\ at' \in [Machines -> Nat] /\ mine' \in [Machines -> Nat]
    /\ state' \in [Machines -> [issue : Nat, comment : Nat] \cup {None}]
    /\ \A n \in Machines \ {m} :
           /\ pc'[n] = pc[n] /\ at'[n] = at[n] /\ mine'[n] = mine[n]
           /\ state'[n] = state[n] /\ writable'[n] = writable[n] /\ alive'[n] = alive[n]
    /\ Mishaps' \in Nat /\ Mishaps' >= Mishaps
    /\ used'["readonly"] \in Nat /\ used'["readonly"] >= used["readonly"]

LEMMA UnwrittenStep ==
    ASSUME ReportInv, PingInv', NEW m \in Machines, StaysUnwritten(m), Place(m)',
           Locked(m)' <= Locked(m),
           (\A i \in Nat : Owed(i, m)' <= Owed(i, m)) \/ Mishaps' = Mishaps + 1
    PROVE  ReportInv'
<1>1. ReportTypes' /\ Acts(m)
    BY DEF StaysUnwritten, ReportInv, ReportTypes, Acts
<1>2. \A i \in Nat : Mine(i, m)' = Mine(i, m)
    BY DEF StaysUnwritten, Mine
<1>3. \A i \in Nat : Balance(i, m)'
    BY <1>1, <1>2, NoMore DEF Acts
<1> QED BY <1>1, <1>3, ActorStep

\* Nothing happened but what does not count.
LEMMA Harmless ==
    ASSUME PingInv,
           \/ UNCHANGED used
           \/ Spend("upgrade") \/ Spend("render") \/ Spend("asleep") \/ Spend("leave")
    PROVE  /\ Mishaps' \in Nat /\ Mishaps' = Mishaps
           /\ used'["readonly"] \in Nat /\ used'["readonly"] >= used["readonly"]
<1>1. CASE UNCHANGED used
    <2>1. used \in [Kinds -> Nat]
        BY DEF PingInv, TypeInv
    <2>2. Mishaps \in Nat /\ used["readonly"] \in Nat
        BY <2>1 DEF Mishaps, Kinds
    <2>3. Mishaps' = Mishaps /\ used'["readonly"] = used["readonly"]
        BY <1>1 DEF Mishaps
    <2> QED BY <2>2, <2>3
<1>2. CASE Spend("upgrade") \/ Spend("render") \/ Spend("asleep") \/ Spend("leave")
    <2>1. {"upgrade", "render", "asleep", "leave"} \subseteq Kinds
        BY DEF Kinds
    <2>2. PICK k \in {"upgrade", "render", "asleep", "leave"} : Spend(k)
        BY <1>2
    <2> QED BY <2>1, <2>2, Mishap
<1> QED BY <1>1, <1>2

\* Between the reports, and when one is over.
LEMMA ElsewhereFine ==
    ASSUME ReportInv, PingInv', NEW m \in Machines,
           \/ Tick(m) \/ Read(m) \/ RunOnce(m) \/ Mint(m) \/ RenderReads(m) \/ RenderMints(m)
           \/ Upgrade(m) \/ Repair(m)
    PROVE  ReportInv'
<1>1. PingInv /\ ReportTypes /\ Place(m) /\ \A i \in Nat : Balance(i, m)
    BY DEF ReportInv
<1>2. UNCHANGED used \/ Spend("upgrade") \/ Spend("render")
    BY DEF Tick, Read, RunOnce, Mint, RenderReads, RenderMints, Upgrade, Repair
<1>3. /\ UNCHANGED <<issues, comments, state, alive>>
      /\ at' \in [Machines -> Nat] /\ mine' \in [Machines -> Nat]
      /\ \A n \in Machines \ {m} : /\ pc'[n] = pc[n] /\ at'[n] = at[n] /\ mine'[n] = mine[n]
                                   /\ writable'[n] = writable[n]
    <2>1. UNCHANGED <<issues, comments, state, alive>>
        BY DEF Tick, Read, RunOnce, Mint, RenderReads, RenderMints, Upgrade, Repair, github,
               files, world
    <2>2. at' \in {at, [at EXCEPT ![m] = 0]} /\ mine' \in {mine, [mine EXCEPT ![m] = 0]}
        BY DEF Tick, Read, RunOnce, Mint, RenderReads, RenderMints, Upgrade, Repair,
               ToPing, Exit, Drop, locals
    <2>3. \/ UNCHANGED pc
          \/ \E l \in Labels : pc' = [pc EXCEPT ![m] = l]
        <3>1. \/ UNCHANGED pc
              \/ \E l \in {"idle", "find", "ping", "mint", "send"} : pc' = [pc EXCEPT ![m] = l]
            BY DEF Tick, Read, RunOnce, Mint, RenderReads, RenderMints, Upgrade, Repair,
                   Goto, ToPing, Exit, locals
        <3> QED BY <3>1 DEF Labels
    <2>4. writable' \in {writable, [writable EXCEPT ![m] = TRUE]}
        BY DEF Tick, Read, RunOnce, Mint, RenderReads, RenderMints, Upgrade, Repair, world
    <2>5. /\ at' \in [Machines -> Nat] /\ mine' \in [Machines -> Nat]
          /\ \A n \in Machines \ {m} : at'[n] = at[n] /\ mine'[n] = mine[n]
        <3>1. at \in [Machines -> Nat] /\ mine \in [Machines -> Nat]
            BY <1>1 DEF ReportTypes
        <3>2. at' \in [Machines -> Nat] /\ \A n \in Machines \ {m} : at'[n] = at[n]
            BY <2>2, <3>1
        <3>3. mine' \in [Machines -> Nat] /\ \A n \in Machines \ {m} : mine'[n] = mine[n]
            BY <2>2, <3>1
        <3> QED BY <3>2, <3>3
    <2>6. \A n \in Machines \ {m} : pc'[n] = pc[n]
        BY <1>1, <2>3 DEF PingInv, TypeInv
    <2>7. \A n \in Machines \ {m} : writable'[n] = writable[n]
        BY <1>1, <2>4 DEF PingInv, TypeInv
    <2> QED BY <2>1, <2>5, <2>6, <2>7
<1>4. commit' \in [Machines -> Versions]
    BY <1>1 DEF Tick, Read, RunOnce, Mint, RenderReads, RenderMints, Upgrade, Repair,
           world, ReportTypes
<1>5. \/ /\ pc'[m] = pc[m] /\ at' = at /\ mine' = mine
         /\ writable'[m] = writable[m] \/ writable'[m]
      \/ /\ pc[m] \notin Reporting \cup {"create"} /\ pc'[m] \notin Reporting \cup {"create"}
         /\ pc'[m] = "find" => writable'[m]
         /\ writable'[m] = writable[m]
    BY <1>1 DEF Tick, Read, RunOnce, Mint, RenderReads, RenderMints, Upgrade, Repair, Goto,
           ToPing, Exit, Drop, Due, locals, world, PingInv, TypeInv, Reporting
<1>6. /\ Mishaps' = Mishaps /\ Mishaps' \in Nat
      /\ used'["readonly"] \in Nat /\ used'["readonly"] >= used["readonly"]
      /\ used["readonly"] \in Nat
    BY <1>1, <1>2, Harmless, Numbers
<1>7. Place(m)'
    BY <1>1, <1>3, <1>5, <1>6 DEF Place, Reporting
<1>8. Recorded(m)' <=> Recorded(m)
    BY <1>3 DEF Recorded
<1>9. \A i \in Nat : Owed(i, m)' <= Owed(i, m)
    <2>1. \A i \in Nat : Owed(i, m)' = Owed(i, m) /\ Owed(i, m) \in {0, 1}
        BY <1>3, <1>5, <1>8 DEF Owed
    <2> QED BY <2>1
<1>10. Locked(m)' <= Locked(m)
    BY <1>5 DEF Locked
<1>11. ReportTypes' /\ Acts(m)
    BY <1>1, <1>3, <1>4, <1>6 DEF ReportTypes, Acts
<1>12. \A i \in Nat : Mine(i, m)' = Mine(i, m)
    BY <1>3 DEF Mine
<1>13. \A i \in Nat : Balance(i, m)'
    BY <1>9, <1>10, <1>11, <1>12, NoMore DEF Acts
<1> QED BY <1>7, <1>11, <1>13, ActorStep

\* A call that fails, a killed process, a deleted folder, one that cannot be written.
LEMMA AccidentFine ==
    ASSUME ReportInv, PingInv', NEW m \in Machines,
           \/ Fail(m) \/ Crash(m) \/ Forget(m) \/ Send(m)
    PROVE  ReportInv'
<1>1. PingInv /\ ReportTypes /\ Place(m) /\ \A i \in Nat : Balance(i, m)
    BY DEF ReportInv
<1>2. /\ UNCHANGED <<issues, comments, commit, writable, alive>>
      /\ at' \in [Machines -> Nat] /\ mine' \in [Machines -> Nat]
      /\ \A n \in Machines \ {m} : pc'[n] = pc[n] /\ at'[n] = at[n] /\ mine'[n] = mine[n]
    <2>1. UNCHANGED <<issues, comments, commit, writable, alive>>
        BY DEF Fail, Crash, Forget, Send, github, files, world
    <2>2. at' \in {at, [at EXCEPT ![m] = 0]} /\ mine' \in {mine, [mine EXCEPT ![m] = 0]}
        BY DEF Fail, Crash, Forget, Send,
               ToPing, Exit, Drop, locals
    <2>3. \/ UNCHANGED pc
          \/ \E l \in Labels : pc' = [pc EXCEPT ![m] = l]
        <3>1. \/ UNCHANGED pc
              \/ \E l \in {"idle", "find", "ping", "mint", "send"} : pc' = [pc EXCEPT ![m] = l]
            BY DEF Fail, Crash, Forget, Send,
                   Goto, ToPing, Exit, locals
        <3> QED BY <3>1 DEF Labels
    <2>4. /\ at' \in [Machines -> Nat] /\ mine' \in [Machines -> Nat]
          /\ \A n \in Machines \ {m} : at'[n] = at[n] /\ mine'[n] = mine[n]
        BY <1>1, <2>2 DEF ReportTypes
    <2>5. \A n \in Machines \ {m} : pc'[n] = pc[n]
        BY <1>1, <2>3 DEF PingInv, TypeInv
    <2> QED BY <2>1, <2>4, <2>5
<1>3. state' = state \/ state' = [state EXCEPT ![m] = None]
    BY DEF Fail, Crash, Forget, Send, Forgotten, files
<1>4. \/ pc'[m] \in {"idle", "ping"}
      \/ UNCHANGED <<pc, at, mine>> /\ state' = [state EXCEPT ![m] = None]
    BY <1>1 DEF Fail, Crash, Forget, Send, Goto, ToPing, Exit, Forgotten, locals, PingInv,
           TypeInv
<1>5. StaysUnwritten(m) /\ Place(m)' /\ Locked(m)' <= Locked(m)
    <2>1. UNCHANGED used \/ \E k \in {"error", "crash", "forget"} : Spend(k)
        BY DEF Fail, Crash, Forget, Send
    <2>2. {"error", "crash", "forget"} \subseteq Kinds
        BY DEF Kinds
    <2>3. /\ Mishaps' \in Nat /\ Mishaps' >= Mishaps /\ used["readonly"] \in Nat
          /\ used'["readonly"] \in Nat /\ used'["readonly"] >= used["readonly"]
        BY <1>1, <2>1, <2>2, Mishap, Harmless, Numbers
    <2>4. StaysUnwritten(m)
        BY <1>1, <1>2, <1>3, <2>3 DEF StaysUnwritten, ReportTypes
    <2>5. state'[m] = state[m] \/ state'[m] = None
        BY <1>1, <1>3 DEF ReportTypes
    <2>6. Place(m)'
        BY <1>1, <1>2, <1>4, <2>3, <2>5 DEF Place, Reporting
    <2>7. Locked(m)' <= Locked(m)
        BY <1>2, <1>4 DEF Locked, Reporting
    <2> QED BY <2>4, <2>6, <2>7
<1>6. \/ \E k \in {"error", "crash", "forget"} : Spend(k)
      \/ pc[m] = "send" /\ pc'[m] = "idle" /\ UNCHANGED state
    BY <1>1 DEF Fail, Crash, Forget, Send, Goto, Exit, files, PingInv, TypeInv
<1>7. CASE \E k \in {"error", "crash", "forget"} : Spend(k)
    <2>1. Mishaps' = Mishaps + 1
        <3>1. {"error", "crash", "forget"} \subseteq Kinds
            BY DEF Kinds
        <3> QED BY <1>1, <1>7, <3>1, Mishap
    <2> QED BY <1>5, <2>1, UnwrittenStep
<1>8. CASE pc[m] = "send" /\ pc'[m] = "idle" /\ UNCHANGED state
    <2>1. Recorded(m)' <=> Recorded(m)
        BY <1>2, <1>8 DEF Recorded
    <2>2. \A i \in Nat : Owed(i, m)' = Owed(i, m) /\ Owed(i, m) \in {0, 1}
        BY <1>2, <1>8, <2>1 DEF Owed, Reporting
    <2>3. \A i \in Nat : Owed(i, m)' <= Owed(i, m)
        BY <2>2
    <2> QED BY <1>5, <2>3, UnwrittenStep
<1> QED BY <1>6, <1>7, <1>8

\* A step that pays for what m owes and cannot note any longer.
LEMMA SettledStep ==
    ASSUME ReportInv, PingInv', NEW m \in Machines, StaysUnwritten(m), Place(m)',
           \A i \in Nat : Owed(i, m)' + Locked(m)' + Mishaps
                              <= Owed(i, m) + Locked(m) + Mishaps'
    PROVE  ReportInv'
<1>1. ReportTypes' /\ Acts(m) /\ Mishaps' \in Nat
    BY DEF StaysUnwritten, ReportInv, ReportTypes, Acts
<1>2. ASSUME NEW i \in Nat PROVE Balance(i, m)'
    <2>1. Mine(i, m)' = Mine(i, m)
        BY DEF StaysUnwritten, Mine
    <2>2. /\ Cardinality(Mine(i, m)) \in Nat /\ Owed(i, m) \in Nat /\ Locked(m) \in Nat
          /\ Mishaps \in Nat /\ Balance(i, m)
        BY Numbers DEF ReportInv
    <2>3. Owed(i, m)' \in Nat /\ Locked(m)' \in Nat
        BY DEF Owed, Locked
    <2> QED BY <1>1, <2>1, <2>2, <2>3 DEF Balance
<1> QED BY <1>1, <1>2, ActorStep

LEMMA FindFine ==
    ASSUME ReportInv, PingInv', NEW m \in Machines, Find(m)
    PROVE  ReportInv'
<1>1. /\ PingInv /\ ReportTypes /\ Place(m) /\ alive[m] /\ pc[m] = "find"
      /\ at \in [Machines -> Nat] /\ mine \in [Machines -> Nat] /\ pc \in [Machines -> Labels]
    BY DEF ReportInv, ReportTypes, PingInv, IdInv, TypeInv, Find
<1>2. UNCHANGED <<issues, comments, commit, state, writable, alive, used>>
    BY DEF Find, github, files, world
<1>3. StaysUnwritten(m) /\ at'[m] = LowestIssue
    <2>1. at' = [at EXCEPT ![m] = LowestIssue] /\ LowestIssue \in Nat
        BY DEF Find, LowestIssue
    <2>2. \E n \in Nat : mine' \in {mine, [mine EXCEPT ![m] = n]}
        <3>1. CASE state[m] # None
            <4>1. state[m].comment \in Nat
                BY <1>1, <3>1 DEF ReportTypes
            <4> QED BY <4>1 DEF Find, Write
        <3>2. CASE state[m] = None
            BY <3>2 DEF Find, Write, Known
        <3> QED BY <3>1, <3>2
    <2>3. \E l \in Labels : pc' = [pc EXCEPT ![m] = l]
        BY DEF Find, Write, Goto, Labels
    <2>4. /\ Mishaps' \in Nat /\ Mishaps' >= Mishaps
          /\ used'["readonly"] \in Nat /\ used'["readonly"] >= used["readonly"]
        BY <1>1, <1>2, Harmless, Numbers
    <2>5. at'[m] = LowestIssue /\ at' \in [Machines -> Nat]
          /\ \A n \in Machines \ {m} : at'[n] = at[n]
        BY <1>1, <2>1
    <2>6. mine' \in [Machines -> Nat] /\ \A n \in Machines \ {m} : mine'[n] = mine[n]
        BY <1>1, <2>2
    <2>7. \A n \in Machines \ {m} : pc'[n] = pc[n]
        BY <1>1, <2>3
    <2> QED BY <1>1, <1>2, <2>4, <2>5, <2>6, <2>7 DEF StaysUnwritten, ReportTypes
<1>4. \/ pc'[m] = "create" /\ state[m] = None
      \/ pc'[m] = "update" /\ at'[m] = 1 /\ Known(m, 1) /\ mine'[m] = state[m].comment
      \/ pc'[m] = "post" /\ at'[m] = 1 /\ ~Known(m, 1)
    <2>1. CASE issues = <<>>
        <3>1. pc'[m] = "create"
            BY <1>1, <2>1 DEF Find, LowestIssue, Goto
        <3>2. state[m] = None
            BY <1>1, <2>1 DEF Place
        <3> QED BY <3>1, <3>2
    <2>2. CASE issues # <<>>
        BY <1>1, <1>3, <2>2 DEF Find, LowestIssue, Goto, Write
    <2> QED BY <2>1, <2>2
<1>5. Place(m)'
    <2>1. pc'[m] \in Reporting => at'[m] \in DOMAIN issues'
        <3>1. issues # <<>> => 1 \in DOMAIN issues
            BY <1>1, EmptySeq, LenProperties DEF ReportTypes
        <3> QED BY <1>1, <1>2, <1>3, <1>4, <3>1 DEF LowestIssue, Reporting
    <2>2. pc'[m] \in Reporting => at'[m] = 1
        BY <1>4 DEF Reporting
    <2> QED BY <1>1, <1>2, <1>4, <2>1, <2>2 DEF Place, Known
<1>6. \A i \in Nat : Owed(i, m)' <= Owed(i, m)
    <2>1. Recorded(m)' <=> Recorded(m)
        BY <1>2 DEF Recorded
    <2>2. \A i \in Nat : Owed(i, m) = IF i = 1 /\ ~Recorded(m) THEN 1 ELSE 0
        BY <1>1 DEF Owed, Reporting
    <2>3. Known(m, 1) => (comments[state[m].comment].gone <=> ~Recorded(m))
        BY DEF Known, Recorded
    <2>4. ~Known(m, 1) => ~Recorded(m)
        BY DEF Known, Recorded
    <2>5. \A i \in Nat : Owed(i, m)' = IF i = 1 /\ ~Recorded(m) THEN 1 ELSE 0
        BY <1>1, <1>2, <1>4, <2>1, <2>3, <2>4 DEF Owed, Reporting
    <2> QED BY <2>2, <2>5
<1>7. Locked(m)' <= Locked(m)
    BY <1>1, <1>2 DEF Locked
<1> QED BY <1>3, <1>5, <1>6, <1>7, UnwrittenStep

\* machine-report.json is written, or cannot be.
LEMMA SaveFine ==
    ASSUME ReportInv, PingInv', NEW m \in Machines, Save(m)
    PROVE  ReportInv'
<1>1. /\ PingInv /\ ReportTypes /\ Place(m) /\ alive[m] /\ pc[m] = "save"
      /\ at \in [Machines -> Nat] /\ mine \in [Machines -> Nat] /\ pc \in [Machines -> Labels]
    BY DEF ReportInv, ReportTypes, PingInv, IdInv, TypeInv, Save
<1>2. UNCHANGED <<issues, comments, commit, writable, alive, used>>
    BY DEF Save, github, world
<1>3. /\ Mishaps' = Mishaps /\ Mishaps' \in Nat /\ used["readonly"] \in Nat
      /\ used'["readonly"] \in Nat /\ used'["readonly"] >= used["readonly"]
    BY <1>1, <1>2, Harmless, Numbers
<1>4. CASE writable[m]
    <2>1. /\ state' = [state EXCEPT ![m] = [issue |-> at[m], comment |-> mine[m]]]
          /\ pc' = [pc EXCEPT ![m] = "read"] /\ UNCHANGED <<at, mine>>
        BY <1>4 DEF Save, Goto
    <2>2. [issue |-> at[m], comment |-> mine[m]] \in [issue : Nat, comment : Nat]
        BY <1>1
    <2>3. StaysUnwritten(m)
        BY <1>1, <1>2, <1>3, <2>1, <2>2 DEF StaysUnwritten, ReportTypes
    <2>4. /\ state'[m] # None /\ state'[m].issue = at[m] /\ state'[m].comment = mine[m]
          /\ pc'[m] = "read"
        BY <1>1, <2>1, <2>2, NoneIsNoRecord DEF ReportTypes
    <2>5. at[m] \in DOMAIN issues /\ mine[m] \in DOMAIN comments
        BY <1>1 DEF Place, Reporting
    <2>6. Place(m)'
        BY <1>1, <1>2, <1>3, <2>4, <2>5 DEF Place, Reporting
    <2>7. Locked(m)' <= Locked(m)
        BY <1>4, <1>2 DEF Locked
    <2>8. \A i \in Nat : Owed(i, m)' <= Owed(i, m)
        <3>1. Recorded(m)' <=> (at[m] = 1 /\ ~comments[mine[m]].gone)
            BY <1>2, <2>4 DEF Recorded
        <3>2. at[m] # 1 => ~Recorded(m)
            BY <1>1 DEF Place, Reporting, Recorded
        <3>3. \A i \in Nat : Owed(i, m)' = IF i = 1 /\ ~Recorded(m)' THEN 1 ELSE 0
            BY <1>1, <1>2, <2>4 DEF Owed, Reporting
        <3>4. \A i \in Nat : Owed(i, m) \in {0, 1}
            BY DEF Owed
        <3>5. Recorded(m)' \/ Owed(1, m) = 1
            BY <1>1, <3>1, <3>2 DEF Owed, Reporting
        <3>6. \A i \in Nat : Owed(i, m)' = 0 \/ Owed(i, m) = 1
            BY <3>3, <3>5
        <3> QED BY <3>3, <3>4, <3>6
    <2> QED BY <2>3, <2>6, <2>7, <2>8, UnwrittenStep
<1>5. CASE ~writable[m]
    <2>1. /\ at' = [at EXCEPT ![m] = 0] /\ mine' = [mine EXCEPT ![m] = 0]
          /\ pc' = [pc EXCEPT ![m] = "ping"] /\ UNCHANGED state
        BY <1>5 DEF Save, ToPing, Goto, Drop
    <2>2. StaysUnwritten(m)
        BY <1>1, <1>2, <1>3, <2>1 DEF StaysUnwritten, ReportTypes
    <2>3. Place(m)'
        BY <1>1, <1>2, <1>3, <2>1 DEF Place, Reporting
    <2>4. Locked(m)' = 0 /\ Locked(m) = 1
        BY <1>1, <1>5, <2>1 DEF Locked, Reporting
    <2>5. \A i \in Nat : Owed(i, m)' \in {0, 1} /\ Owed(i, m) \in {0, 1}
        BY DEF Owed
    <2>6. \A i \in Nat : Owed(i, m)' + Locked(m)' + Mishaps
                             <= Owed(i, m) + Locked(m) + Mishaps'
        BY <1>3, <2>4, <2>5
    <2> QED BY <2>2, <2>3, <2>6, SettledStep
<1> QED BY <1>4, <1>5

\* A machine that was uninstalled owes nothing, one that lost its folder notes nothing.
LEMMA WithdrawnFine ==
    ASSUME ReportInv, PingInv', NEW m \in Machines, Leave(m) \/ ReadOnly(m)
    PROVE  ReportInv'
<1>1. /\ PingInv /\ ReportTypes /\ Place(m) /\ used["readonly"] \in Nat
      /\ at \in [Machines -> Nat] /\ mine \in [Machines -> Nat] /\ pc \in [Machines -> Labels]
      /\ alive \in [Machines -> BOOLEAN] /\ writable \in [Machines -> BOOLEAN]
    BY Numbers DEF ReportInv, ReportTypes, PingInv, TypeInv
<1>2. UNCHANGED <<issues, comments, commit>>
    BY DEF Leave, ReadOnly, github
<1>3. CASE Leave(m)
    <2>1. /\ at' = [at EXCEPT ![m] = 0] /\ mine' = [mine EXCEPT ![m] = 0]
          /\ pc' = [pc EXCEPT ![m] = "idle"] /\ state' = [state EXCEPT ![m] = None]
          /\ alive' = [alive EXCEPT ![m] = FALSE] /\ UNCHANGED writable
        BY <1>3 DEF Leave, Exit, Drop, Goto, Forgotten
    <2>2. /\ Mishaps' = Mishaps /\ Mishaps' \in Nat /\ Mishaps' >= Mishaps
          /\ used'["readonly"] \in Nat /\ used'["readonly"] >= used["readonly"]
        BY <1>1, <1>3, Harmless DEF Leave
    <2>3. StaysUnwritten(m)
        BY <1>1, <1>2, <2>1, <2>2 DEF StaysUnwritten, ReportTypes
    <2>4. pc'[m] = "idle" /\ ~alive'[m] /\ state'[m] = None
        BY <1>1, <2>1 DEF ReportTypes
    <2>5. Place(m)'
        BY <1>1, <2>1, <2>2, <2>4 DEF Place, Reporting
    <2>6. Locked(m)' <= Locked(m)
        BY <2>4 DEF Locked, Reporting
    <2>7. \A i \in Nat : Owed(i, m)' = 0 /\ Owed(i, m) \in {0, 1}
        BY <2>4 DEF Owed, Reporting
    <2>8. \A i \in Nat : Owed(i, m)' <= Owed(i, m)
        BY <2>7
    <2> QED BY <2>3, <2>5, <2>6, <2>8, UnwrittenStep
<1>4. CASE ReadOnly(m)
    <2>1. /\ UNCHANGED <<at, mine, pc, state, alive>>
          /\ writable' = [writable EXCEPT ![m] = FALSE] /\ writable[m]
        BY <1>4 DEF ReadOnly, files, locals
    <2>2. /\ Mishaps' = Mishaps + 1 /\ Mishaps' \in Nat /\ Mishaps \in Nat
          /\ used'["readonly"] \in Nat /\ used'["readonly"] >= used["readonly"]
          /\ used'["readonly"] >= 1
        BY <1>1, <1>4, Mishap DEF ReadOnly, Kinds
    <2>3. StaysUnwritten(m)
        BY <1>1, <1>2, <2>1, <2>2 DEF StaysUnwritten, ReportTypes
    <2>4. Place(m)'
        BY <1>1, <1>2, <2>1, <2>2 DEF Place
    <2>5. Locked(m)' \in {0, 1} /\ Locked(m) = 0
        BY <2>1 DEF Locked
    <2>6. Recorded(m)' <=> Recorded(m)
        BY <1>2, <2>1 DEF Recorded
    <2>7. \A i \in Nat : Owed(i, m)' = Owed(i, m) /\ Owed(i, m) \in {0, 1}
        BY <1>2, <2>1, <2>6 DEF Owed
    <2>8. \A i \in Nat : Owed(i, m)' + Locked(m)' + Mishaps
                             <= Owed(i, m) + Locked(m) + Mishaps'
        BY <2>2, <2>5, <2>7
    <2> QED BY <2>3, <2>4, <2>8, SettledStep
<1> QED BY <1>3, <1>4

\* What the steps that talk to GitHub leave alone.
Talks(m) ==
    /\ UNCHANGED <<commit, state, writable, alive>>
    /\ at' \in [Machines -> Nat] /\ mine' \in [Machines -> Nat]
    /\ \A n \in Machines \ {m} : pc'[n] = pc[n] /\ at'[n] = at[n] /\ mine'[n] = mine[n]
    /\ Mishaps' \in Nat /\ Mishaps' >= Mishaps
    /\ used'["readonly"] \in Nat /\ used'["readonly"] >= used["readonly"]

\* The call was carried out and counted, or its answer was lost and the report ends.
LEMMA Talking ==
    ASSUME ReportInv, NEW m \in Machines, Create(m) \/ Close(m) \/ Update(m) \/ Post(m)
    PROVE  /\ Talks(m)
           /\ \/ UNCHANGED used
              \/ Mishaps' = Mishaps + 1 /\ pc'[m] \in {"ping", "post"}
<1>1. /\ PingInv /\ at \in [Machines -> Nat] /\ mine \in [Machines -> Nat]
      /\ state \in [Machines -> [issue : Nat, comment : Nat] \cup {None}]
      /\ pc \in [Machines -> Labels] /\ issues \in Seq({"open", "closed"})
      /\ comments \in Seq(Comment)
    BY DEF ReportInv, ReportTypes, PingInv, TypeInv
<1>2. UNCHANGED <<commit, state, writable, alive>>
    BY DEF Create, Close, Update, Post, files, world
<1>3. /\ UNCHANGED used \/ Spend("lost") \/ Spend("error")
      /\ UNCHANGED used \/ (pc' = [pc EXCEPT ![m] = "ping"])
                        \/ (pc' = [pc EXCEPT ![m] = "post"])
    BY DEF Create, Close, Update, Post, ToPing, Goto
<1>4. {"lost", "error"} \subseteq Kinds
    BY DEF Kinds
<1>5. /\ Mishaps' \in Nat /\ Mishaps' >= Mishaps
      /\ used'["readonly"] \in Nat /\ used'["readonly"] >= used["readonly"]
      /\ UNCHANGED used \/ Mishaps' = Mishaps + 1
    BY <1>1, <1>3, <1>4, Mishap, Harmless
<1>6. \E n \in Nat : at' \in {at, [at EXCEPT ![m] = n]}
    <2>1. CASE Create(m)
        <3>1. Len(issues') \in Nat
            BY <1>1, <2>1, AppendProperties, LenProperties DEF Create
        <3> QED BY <2>1, <3>1 DEF Create, ToPing, Drop
    <2>2. CASE Close(m) \/ Update(m) \/ Post(m)
        BY <2>2 DEF Close, Update, Post, ToPing, Drop
    <2> QED BY <2>1, <2>2
<1>7. \E n \in Nat : mine' \in {mine, [mine EXCEPT ![m] = n]}
    <2>1. CASE Create(m) \/ Update(m)
        BY <2>1 DEF Create, Update, ToPing, Drop
    <2>2. CASE Close(m)
        <3>1. Known(m, at[m]) => state[m].comment \in Nat
            BY <1>1 DEF Known
        <3> QED BY <2>2, <3>1 DEF Close, Write, ToPing, Drop
    <2>3. CASE Post(m)
        <3>1. Len(comments') \in Nat
            <4>1. comments' = Append(comments, [issue |-> at[m], by |-> m, age |-> 0,
                                                commit |-> commit[m], gone |-> FALSE])
                BY <2>3 DEF Post
            <4>2. [issue |-> at[m], by |-> m, age |-> 0, commit |-> commit[m], gone |-> FALSE]
                      \in Comment
                BY <1>1 DEF Comment, ReportInv, ReportTypes
            <4> QED BY <1>1, <4>1, <4>2, AppendProperties, LenProperties
        <3> QED BY <2>3, <3>1 DEF Post, ToPing, Drop
    <2> QED BY <2>1, <2>2, <2>3
<1>8. \E l \in Labels : pc' = [pc EXCEPT ![m] = l]
    BY DEF Create, Close, Update, Post, Write, ToPing, Goto, Labels
<1>9. at' \in [Machines -> Nat] /\ \A n \in Machines \ {m} : at'[n] = at[n]
    BY <1>1, <1>6
<1>10. mine' \in [Machines -> Nat] /\ \A n \in Machines \ {m} : mine'[n] = mine[n]
    BY <1>1, <1>7
<1>11. \A n \in Machines \ {m} : pc'[n] = pc[n]
    BY <1>1, <1>8
<1>12. UNCHANGED used \/ pc'[m] \in {"ping", "post"}
    BY <1>1, <1>3
<1> QED BY <1>2, <1>5, <1>9, <1>10, <1>11, <1>12 DEF Talks

\* A report that ends: the answer of a call was lost.
LEMMA EndFine ==
    ASSUME ReportInv, PingInv', NEW m \in Machines, Talks(m), Mishaps' = Mishaps + 1,
           pc'[m] = "ping", UNCHANGED comments,
           issues' \in Seq({"open", "closed"}), DOMAIN issues \subseteq DOMAIN issues'
    PROVE  ReportInv'
<1>1. ReportTypes' /\ Acts(m) /\ Place(m) /\ used["readonly"] \in Nat
    BY Numbers DEF Talks, ReportInv, ReportTypes, Acts
<1>2. Place(m)'
    BY <1>1 DEF Talks, Place, Reporting
<1>3. Locked(m)' <= Locked(m)
    BY DEF Locked, Reporting
<1>4. \A i \in Nat : Mine(i, m)' = Mine(i, m)
    BY DEF Mine
<1>5. \A i \in Nat : Balance(i, m)'
    BY <1>1, <1>3, <1>4, NoMore DEF Talks
<1> QED BY <1>1, <1>2, <1>5, ActorStep

LEMMA CreateFine ==
    ASSUME ReportInv, PingInv', NEW m \in Machines, Create(m)
    PROVE  ReportInv'
<1>1. /\ PingInv /\ ReportTypes /\ Place(m) /\ alive[m] /\ pc[m] = "create" /\ state[m] = None
      /\ at \in [Machines -> Nat] /\ pc \in [Machines -> Labels]
      /\ \A c \in DOMAIN comments : comments[c].issue \in DOMAIN issues
    BY DEF ReportInv, ReportTypes, PingInv, IdInv, TypeInv, Create, Place
<1>2. Talks(m) /\ UNCHANGED comments
    BY Talking DEF Create
<1>3. /\ issues' \in Seq({"open", "closed"}) /\ Len(issues') = Len(issues) + 1
      /\ DOMAIN issues = 1 .. Len(issues) /\ DOMAIN issues' = 1 .. Len(issues')
      /\ Len(issues) \in Nat
    <2>1. issues' = Append(issues, "open") /\ issues \in Seq({"open", "closed"})
        BY <1>1 DEF Create, ReportTypes
    <2>2. issues' \in Seq({"open", "closed"}) /\ Len(issues') = Len(issues) + 1
        BY <2>1, AppendProperties
    <2> QED BY <2>1, <2>2, LenProperties
<1>4. ReportTypes' /\ Acts(m) /\ used["readonly"] \in Nat
    <2>1. DOMAIN issues \subseteq DOMAIN issues'
        BY <1>3
    <2>2. ReportTypes'
        BY <1>1, <1>2, <1>3 DEF Talks, ReportTypes
    <2>3. Acts(m)
        BY <1>2, <2>1 DEF Talks, Acts
    <2> QED BY <1>1, <2>2, <2>3, Numbers
<1>5. CASE at' = [at EXCEPT ![m] = Len(issues')] /\ pc' = [pc EXCEPT ![m] = "close"]
           /\ UNCHANGED used
    <2>1. at'[m] = Len(issues') /\ pc'[m] = "close" /\ state'[m] = None
          /\ UNCHANGED <<state, writable, alive>>
        BY <1>1, <1>2, <1>5 DEF Talks
    <2>2. Place(m)'
        BY <1>1, <1>3, <1>5, <2>1 DEF Place, Reporting
    <2>3. Locked(m)' = Locked(m) /\ Mishaps' = Mishaps
        BY <1>1, <1>5, <2>1 DEF Locked, Reporting, Mishaps
    <2>4. ASSUME NEW i \in Nat PROVE Balance(i, m)'
        <3>1. Mine(i, m)' = Mine(i, m)
            BY <1>2 DEF Mine
        <3>2. CASE i = Len(issues')
            <4>1. Mine(i, m) = {}
                BY <1>1, <1>3, <3>2 DEF Mine
            <4>2. Cardinality(Mine(i, m)) = 0
                BY <4>1, FS_EmptySet
            <4>3. Locked(m) <= Mishaps /\ Locked(m) \in Nat /\ Mishaps \in Nat
                BY <1>1, Numbers DEF Locked, Place
            <4>4. Owed(i, m)' \in {0, 1}
                BY DEF Owed
            <4> QED BY <2>3, <3>1, <4>2, <4>3, <4>4 DEF Balance
        <3>3. CASE i # Len(issues')
            <4>1. Recorded(m)' <=> Recorded(m)
                BY <1>2, <2>1 DEF Recorded
            <4>2. Owed(i, m)' = Owed(i, m)
                BY <1>1, <2>1, <3>3, <4>1 DEF Owed, Reporting
            <4>3. Balance(i, m)
                BY DEF ReportInv
            <4> QED BY <2>3, <3>1, <4>2, <4>3 DEF Balance
        <3> QED BY <3>2, <3>3
    <2> QED BY <1>4, <2>2, <2>4, ActorStep
<1>6. CASE Spend("lost") /\ ToPing(m)
    <2>1. Mishaps' = Mishaps + 1
        BY <1>1, <1>6, Mishap DEF Kinds
    <2>2. pc'[m] = "ping"
        BY <1>1, <1>6 DEF ToPing, Goto
    <2>3. DOMAIN issues \subseteq DOMAIN issues'
        BY <1>3
    <2> QED BY <1>2, <1>3, <2>1, <2>2, <2>3, EndFine
<1> QED BY <1>5, <1>6 DEF Create, Goto

LEMMA CloseFine ==
    ASSUME ReportInv, PingInv', NEW m \in Machines, Close(m)
    PROVE  ReportInv'
<1>1. /\ PingInv /\ ReportTypes /\ Place(m) /\ alive[m] /\ pc[m] = "close"
      /\ at \in [Machines -> Nat] /\ pc \in [Machines -> Labels]
      /\ mine \in [Machines -> Nat] /\ at[m] \in DOMAIN issues
      /\ state[m] # None => state[m].comment \in DOMAIN comments
    BY DEF ReportInv, ReportTypes, PingInv, IdInv, TypeInv, Close, Place, Reporting
<1>2. Talks(m) /\ UNCHANGED comments
    BY Talking DEF Close
<1>3. issues' \in Seq({"open", "closed"}) /\ DOMAIN issues' = DOMAIN issues
    <2>1. issues' = [issues EXCEPT ![at[m]] = "closed"] /\ issues \in Seq({"open", "closed"})
        BY <1>1 DEF Close, ReportTypes
    <2>2. DOMAIN issues = 1 .. Len(issues)
        BY <2>1, LenProperties
    <2> QED BY <1>1, <2>1, <2>2, ExceptSeq
<1>4. ReportTypes' /\ Acts(m) /\ used["readonly"] \in Nat
    BY <1>1, <1>2, <1>3, Numbers DEF Talks, ReportTypes, Acts
<1>5. CASE Write(m, at[m]) /\ UNCHANGED <<at, used>>
    <2>1. \/ pc'[m] = "update" /\ state[m] # None /\ mine'[m] = state[m].comment
          \/ pc'[m] = "post"
        BY <1>1, <1>5 DEF Write, Goto, Known
    <2>2. UNCHANGED <<state, writable, alive, at>> /\ Mishaps' = Mishaps /\ Mishaps' \in Nat
        BY <1>2, <1>5 DEF Talks, Mishaps
    <2>3. Place(m)'
        BY <1>1, <1>3, <1>5, <1>2, <2>1, <2>2 DEF Place, Reporting
    <2>4. Locked(m)' <= Locked(m)
        BY <1>1, <2>1, <2>2 DEF Locked, Reporting
    <2>5. ASSUME NEW i \in Nat PROVE Balance(i, m)'
        <3>1. Mine(i, m)' = Mine(i, m)
            BY <1>2 DEF Mine
        <3>2. Recorded(m)' <=> Recorded(m)
            BY <1>2, <2>2 DEF Recorded
        <3>3. Owed(i, m) \in {0, 1} /\ Owed(i, m)' \in {0, 1}
            BY DEF Owed
        <3>4. i = at[m] => Owed(i, m) = 1
            BY <1>1 DEF Owed, Reporting
        <3>5. i # at[m] => Owed(i, m)' = Owed(i, m)
            BY <1>1, <2>1, <2>2, <3>2 DEF Owed, Reporting
        <3>6. Owed(i, m)' <= Owed(i, m)
            BY <3>3, <3>4, <3>5
        <3> QED BY <1>4, <2>2, <2>4, <3>1, <3>6, NoMore DEF Acts
    <2> QED BY <1>4, <2>3, <2>5, ActorStep
<1>6. CASE Spend("lost") /\ ToPing(m)
    <2>1. Mishaps' = Mishaps + 1
        BY <1>1, <1>6, Mishap DEF Kinds
    <2>2. pc'[m] = "ping"
        BY <1>1, <1>6 DEF ToPing, Goto
    <2> QED BY <1>2, <1>3, <2>1, <2>2, EndFine
<1> QED BY <1>5, <1>6 DEF Close

\* The comment is rewritten, the known one or another machine's on the same Issue.
LEMMA UpdateFine ==
    ASSUME ReportInv, PingInv', NEW m \in Machines, Update(m)
    PROVE  ReportInv'
<1>1. /\ PingInv /\ ReportTypes /\ Place(m) /\ alive[m] /\ pc[m] = "update"
      /\ pc \in [Machines -> Labels] /\ mine[m] \in DOMAIN comments /\ mine[m] \in Nat
    BY DEF ReportInv, ReportTypes, PingInv, IdInv, TypeInv, Update, Place
<1>2. Talks(m) /\ UNCHANGED <<issues, at, mine>>
    BY Talking DEF Update
<1>3. /\ comments' \in Seq(Comment) /\ DOMAIN comments' = DOMAIN comments
      /\ \A c \in DOMAIN comments : /\ comments'[c].issue = comments[c].issue
                                    /\ comments'[c].by = comments[c].by
                                    /\ comments'[c].gone = comments[c].gone
    <2> DEFINE new == [comments[mine[m]] EXCEPT !.commit = commit[m], !.age = 0]
    <2>1. comments \in Seq(Comment) /\ commit[m] \in Versions
        BY <1>1 DEF ReportTypes
    <2>2. comments[mine[m]] \in Comment /\ DOMAIN comments = 1 .. Len(comments)
        BY <1>1, <2>1, LenProperties
    <2>3. /\ new \in Comment /\ new.issue = comments[mine[m]].issue
          /\ new.by = comments[mine[m]].by /\ new.gone = comments[mine[m]].gone
        BY <2>1, <2>2 DEF Comment
    <2>4. \/ UNCHANGED comments
          \/ comments' = [comments EXCEPT ![mine[m]] = new]
        BY <1>1, <2>2 DEF Update, Comment
    <2> HIDE DEF new
    <2>5. [comments EXCEPT ![mine[m]] = new] \in Seq(Comment)
        BY <1>1, <2>1, <2>2, <2>3, ExceptSeq
    <2>6. CASE UNCHANGED comments
        BY <2>1, <2>6
    <2>7. CASE comments' = [comments EXCEPT ![mine[m]] = new]
        BY <1>1, <2>3, <2>5, <2>7
    <2> QED BY <2>4, <2>6, <2>7
<1>4. ReportTypes' /\ Acts(m) /\ used["readonly"] \in Nat
    BY <1>1, <1>2, <1>3, Numbers DEF Talks, ReportTypes, Acts
<1>5. \/ pc'[m] = "save" /\ ~comments[mine[m]].gone
      \/ pc'[m] = "post" /\ (comments[mine[m]].gone \/ Mishaps' = Mishaps + 1)
    <2>1. {"lost", "error"} \subseteq Kinds
        BY DEF Kinds
    <2>2. \/ pc'[m] = "save" /\ ~comments[mine[m]].gone
          \/ pc'[m] = "post" /\ (comments[mine[m]].gone \/ Spend("lost") \/ Spend("error"))
        BY <1>1 DEF Update, Goto
    <2> QED BY <1>1, <2>1, <2>2, Mishap
<1>6. Place(m)'
    <2>1. at[m] # 1 => state[m] = None
        BY <1>1 DEF Place, Reporting
    <2> QED BY <1>1, <1>2, <1>3, <1>4, <1>5, <2>1 DEF Place, Talks, Reporting
<1>7. Locked(m)' <= Locked(m)
    BY <1>1, <1>2, <1>5 DEF Locked, Talks, Reporting
<1>8. ASSUME NEW i \in Nat PROVE Balance(i, m)'
    <2>1. Mine(i, m)' = Mine(i, m)
        BY <1>3 DEF Mine
    <2>2. Recorded(m)' <=> Recorded(m)
        BY <1>1, <1>2, <1>3 DEF Recorded, Talks, Place
    <2>3. Owed(i, m) \in {0, 1} /\ Owed(i, m)' \in {0, 1}
        BY DEF Owed
    <2>4. CASE i # at[m]
        <3>1. Owed(i, m)' = Owed(i, m)
            BY <1>1, <1>2, <1>5, <2>2, <2>4 DEF Owed, Talks, Reporting
        <3>2. Owed(i, m)' <= Owed(i, m)
            BY <2>3, <3>1
        <3> QED BY <1>4, <1>7, <2>1, <3>2, NoMore DEF Acts
    <2>5. CASE i = at[m]
        <3>1. comments[mine[m]].gone => Owed(i, m) = 1
            BY <1>1, <2>5 DEF Owed, Reporting
        <3>2. pc'[m] = "save" /\ ~comments[mine[m]].gone => Owed(i, m)' = 0
            BY <1>1, <1>2, <1>3, <2>5 DEF Owed, Reporting
        <3>3. Owed(i, m)' <= Owed(i, m) \/ Mishaps' = Mishaps + 1
            BY <1>5, <2>3, <3>1, <3>2
        <3> QED BY <1>4, <1>7, <2>1, <3>3, NoMore DEF Acts
    <2> QED BY <2>4, <2>5
<1> QED BY <1>4, <1>6, <1>8, ActorStep

\* A comment is posted, which m did owe.
LEMMA PostFine ==
    ASSUME ReportInv, PingInv', NEW m \in Machines, Post(m)
    PROVE  ReportInv'
<1> DEFINE new == [issue |-> at[m], by |-> m, age |-> 0, commit |-> commit[m], gone |-> FALSE]
           k == Len(comments) + 1
<1>1. /\ PingInv /\ ReportTypes /\ Place(m) /\ alive[m] /\ pc[m] = "post"
      /\ pc \in [Machines -> Labels] /\ at[m] \in DOMAIN issues /\ at[m] \in Nat
      /\ mine \in [Machines -> Nat] /\ at \in [Machines -> Nat]
      /\ comments \in Seq(Comment)
    BY DEF ReportInv, ReportTypes, PingInv, IdInv, TypeInv, Post, Place, Reporting
<1>2. Talks(m) /\ UNCHANGED issues
    BY Talking DEF Post
<1>3. /\ new \in Comment /\ new.issue = at[m] /\ new.by = m /\ ~new.gone
      /\ comments' = Append(comments, new)
    BY <1>1 DEF Post, Comment, ReportTypes
<1>4. Len(comments) \in Nat /\ DOMAIN comments = 1 .. Len(comments)
    BY <1>1, LenProperties
<1> HIDE DEF new
<1>5. /\ comments' \in Seq(Comment) /\ Len(comments') = k /\ comments'[k] = new
      /\ \A c \in 1 .. Len(comments) : comments'[c] = comments[c]
    BY <1>1, <1>3, AppendProperties
<1>6. DOMAIN comments' = DOMAIN comments \cup {k} /\ k \notin DOMAIN comments /\ k \in Nat
    <2>1. DOMAIN comments' = 1 .. k
        BY <1>5, LenProperties
    <2> QED BY <1>4, <2>1
<1> HIDE DEF k
<1>7. ReportTypes' /\ Acts(m) /\ used["readonly"] \in Nat
    <2>1. ReportTypes'
        BY <1>1, <1>2, <1>5 DEF Talks, ReportTypes
    <2>2. Acts(m)
        BY <1>1, <1>2, <1>3, <1>4, <1>5, <1>6 DEF Talks, Acts
    <2> QED BY <1>1, <2>1, <2>2, Numbers
<1>8. \/ /\ pc'[m] = "save" /\ mine'[m] = k /\ UNCHANGED <<at, used>>
      \/ pc'[m] = "ping" /\ Mishaps' = Mishaps + 1
    BY <1>1, <1>5, Mishap DEF Post, ToPing, Goto, Kinds
<1>9. Place(m)'
    <2>1. at[m] # 1 => state[m] = None
        BY <1>1 DEF Place, Reporting
    <2> QED BY <1>1, <1>2, <1>6, <1>7, <1>8, <2>1 DEF Place, Talks, Reporting
<1>10. Locked(m)' <= Locked(m)
    BY <1>1, <1>2, <1>8 DEF Locked, Talks, Reporting
<1>11. Recorded(m)' <=> Recorded(m)
    BY <1>1, <1>2, <1>4, <1>5 DEF Recorded, Talks, Place
<1>12. ASSUME NEW i \in Nat PROVE Balance(i, m)'
    <2>1. Owed(i, m) \in {0, 1} /\ Owed(i, m)' \in {0, 1}
        BY DEF Owed
    <2>2. CASE i # at[m]
        <3>1. Mine(i, m)' = Mine(i, m)
            BY <1>3, <1>4, <1>5, <1>6, <2>2 DEF Mine
        <3>2. Owed(i, m)' = Owed(i, m)
            BY <1>1, <1>2, <1>8, <1>11, <2>2 DEF Owed, Talks, Reporting
        <3>3. Owed(i, m)' <= Owed(i, m)
            BY <2>1, <3>2
        <3> QED BY <1>7, <1>10, <3>1, <3>3, NoMore DEF Acts
    <2>3. CASE i = at[m]
        <3>1. Mine(i, m)' = Mine(i, m) \cup {k} /\ k \notin Mine(i, m)
            BY <1>3, <1>4, <1>5, <1>6, <2>3 DEF Mine
        <3>2. /\ IsFiniteSet(Mine(i, m)) /\ Cardinality(Mine(i, m)) \in Nat
              /\ Locked(m) \in {0, 1} /\ Mishaps \in Nat /\ Balance(i, m)
            BY Numbers DEF ReportInv
        <3>3. Cardinality(Mine(i, m)') = Cardinality(Mine(i, m)) + 1
            BY <3>1, <3>2, FS_AddElement
        <3>4. Owed(i, m) = 1
            BY <1>1, <2>3 DEF Owed, Reporting
        <3>5. Locked(m)' \in {0, 1}
            BY DEF Locked
        <3>6. CASE pc'[m] = "save" /\ mine'[m] = k /\ UNCHANGED <<at, used>>
            <4>1. Owed(i, m)' = 0
                BY <1>3, <1>5, <2>3, <3>6 DEF Owed, Reporting
            <4>2. Mishaps' = Mishaps
                BY <3>6 DEF Mishaps
            <4> QED BY <1>10, <3>2, <3>3, <3>4, <3>5, <4>1, <4>2 DEF Balance
        <3>7. CASE pc'[m] = "ping" /\ Mishaps' = Mishaps + 1
            BY <1>10, <2>1, <3>2, <3>3, <3>4, <3>5, <3>7 DEF Balance
        <3> QED BY <1>8, <3>6, <3>7
    <2> QED BY <2>2, <2>3
<1> QED BY <1>7, <1>9, <1>12, ActorStep

\* A day passes for all comments; a human deletes one.
LEMMA ForAllFine ==
    ASSUME ReportInv, PingInv', NextDay \/ DeleteComment
    PROVE  ReportInv'
<1>1. PingInv /\ ReportTypes /\ \A m \in Machines : used["readonly"] \in Nat
    BY Numbers DEF ReportInv
<1>2. UNCHANGED <<issues, commit, state, at, mine, pc, writable, alive>>
    BY DEF NextDay, DeleteComment, files, locals, world
<1>3. /\ Mishaps' \in Nat /\ Mishaps' >= Mishaps
      /\ used'["readonly"] \in Nat /\ used'["readonly"] >= used["readonly"]
      /\ DeleteComment => Mishaps' = Mishaps + 1
    BY <1>1, Harmless, Mishap DEF NextDay, DeleteComment, Kinds
<1>4. comments \in Seq(Comment) /\ Len(comments) \in Nat /\ DOMAIN comments = 1 .. Len(comments)
    BY <1>1, LenProperties DEF ReportTypes
<1>5. /\ comments' \in Seq(Comment) /\ DOMAIN comments' = DOMAIN comments
      /\ \A c \in DOMAIN comments : /\ comments'[c].issue = comments[c].issue
                                    /\ comments'[c].by = comments[c].by
                                    /\ DeleteComment \/ comments'[c].gone = comments[c].gone
    <2>1. \A c \in DOMAIN comments : comments[c] \in Comment
        BY <1>4
    <2>2. CASE NextDay
        <3> DEFINE old(c) == [comments[c] EXCEPT !.age = IF @ > MaxAge THEN @ ELSE @ + 1]
        <3>1. comments' = [c \in 1 .. Len(comments) |-> old(c)]
            BY <1>4, <2>2 DEF NextDay
        <3>2. \A c \in 1 .. Len(comments) :
                  /\ old(c) \in Comment /\ old(c).issue = comments[c].issue
                  /\ old(c).by = comments[c].by /\ old(c).gone = comments[c].gone
            BY <1>4, <2>1, NoneIsNoRecord DEF Comment
        <3> HIDE DEF old
        <3>3. comments' \in [1 .. Len(comments) -> Comment]
            BY <3>1, <3>2
        <3>4. comments' \in Seq(Comment)
            BY <1>4, <3>3, SeqDef
        <3> QED BY <1>4, <3>1, <3>2, <3>3, <3>4
    <2>3. CASE DeleteComment
        <3>1. PICK c \in DOMAIN comments : comments' = [comments EXCEPT ![c].gone = TRUE]
            BY <2>3 DEF DeleteComment
        <3> DEFINE left == [comments[c] EXCEPT !.gone = TRUE]
        <3>2. left \in Comment /\ left.issue = comments[c].issue /\ left.by = comments[c].by
            BY <2>1 DEF Comment
        <3>3. comments' = [comments EXCEPT ![c] = left]
            BY <2>1, <3>1 DEF Comment
        <3> HIDE DEF left
        <3>4. comments' \in Seq(Comment)
            BY <1>4, <3>2, <3>3, ExceptSeq
        <3> QED BY <2>3, <3>2, <3>3, <3>4
    <2> QED BY <2>2, <2>3
<1>6. ReportTypes'
    BY <1>1, <1>2, <1>5 DEF ReportTypes
<1>7. \A c \in DOMAIN comments' : comments'[c].issue \in DOMAIN issues'
    BY <1>2, <1>5 DEF ReportInv
<1>8. ASSUME NEW m \in Machines PROVE Place(m)'
    BY <1>1, <1>2, <1>3, <1>5 DEF ReportInv, Place
<1>9. ASSUME NEW m \in Machines, NEW i \in Nat PROVE Balance(i, m)'
    <2>1. Mine(i, m)' = Mine(i, m)
        BY <1>5 DEF Mine
    <2>2. Locked(m)' = Locked(m) /\ Locked(m) \in {0, 1}
        BY <1>2 DEF Locked
    <2>3. Locked(m)' <= Locked(m)
        BY <2>2
    <2>4. CASE DeleteComment
        BY <1>3, <1>6, <2>1, <2>3, <2>4, NoMore
    <2>5. CASE ~DeleteComment
        <3>1. Place(m)
            BY DEF ReportInv
        <3>2. Recorded(m)' <=> Recorded(m)
            BY <1>2, <1>5, <2>5, <3>1 DEF Recorded, Place
        <3>3. Owed(i, m)' = Owed(i, m) /\ Owed(i, m) \in {0, 1}
            BY <1>2, <1>5, <2>5, <3>1, <3>2 DEF Owed, Place
        <3>4. Owed(i, m)' <= Owed(i, m)
            BY <3>3
        <3> QED BY <1>3, <1>6, <2>1, <2>3, <3>4, NoMore
    <2> QED BY <2>4, <2>5
<1> QED BY <1>6, <1>7, <1>8, <1>9 DEF ReportInv

LEMMA ReportInit == Init => ReportInv
<1> SUFFICES ASSUME Init PROVE ReportInv
    OBVIOUS
<1>1. PingInv
    BY PingInit
<1>2. ReportTypes
    BY EmptySeq, NoneIsNoRecord DEF Init, ReportTypes
<1>3. DOMAIN comments = {}
    BY DEF Init
<1>4. ASSUME NEW m \in Machines PROVE Place(m)
    BY DEF Init, Place, Reporting
<1>5. ASSUME NEW m \in Machines, NEW i \in Nat PROVE Balance(i, m)
    <2>1. Mine(i, m) = {}
        BY <1>3 DEF Mine
    <2>2. Cardinality(Mine(i, m)) = 0
        BY <2>1, FS_EmptySet
    <2>3. Locked(m) = 0 /\ Mishaps = 0
        BY DEF Init, Locked, Mishaps, Kinds, Reporting
    <2>4. Owed(i, m) \in {0, 1}
        BY DEF Owed
    <2> QED BY <2>2, <2>3, <2>4 DEF Balance
<1> QED BY <1>1, <1>2, <1>3, <1>4, <1>5 DEF ReportInv

LEMMA ReportsStep == ReportInv /\ [Next]_vars => ReportInv'
<1> SUFFICES ASSUME ReportInv, [Next]_vars PROVE ReportInv'
    OBVIOUS
<1>1. PingInv'
    BY PingStep DEF ReportInv
<1>2. CASE UNCHANGED vars
    <2>1. UNCHANGED <<issues, comments, commit, state, at, mine, pc, writable, alive, used>>
        BY <1>2 DEF vars, github, files, locals, world
    <2>2. ReportTypes'
        BY <2>1 DEF ReportInv, ReportTypes
    <2>3. \A m \in Machines : Place(m)' /\ \A i \in Nat : Balance(i, m)'
        BY <2>1 DEF ReportInv, Place, Balance, Mine, Owed, Recorded, Locked, Mishaps
    <2> QED BY <1>1, <2>1, <2>2, <2>3 DEF ReportInv
<1>3. CASE NextDay \/ DeleteComment
    BY <1>1, <1>3, ForAllFine
<1>4. ASSUME NEW m \in Machines,
             \/ Step(m) \/ RenderReads(m) \/ RenderMints(m) \/ Crash(m) \/ Forget(m)
             \/ Leave(m) \/ Upgrade(m) \/ ReadOnly(m) \/ Repair(m)
      PROVE  ReportInv'
    BY <1>1, <1>4, ElsewhereFine, AccidentFine, FindFine, CreateFine, CloseFine, UpdateFine,
       PostFine, SaveFine, WithdrawnFine DEF Step
<1> QED BY <1>2, <1>3, <1>4 DEF Next

\* However many days pass, machines report and Issues are created at once: on one
\* Issue a machine has one comment, and one more at most for each call or answer that
\* was lost, process killed, state folder deleted or read-only and comment deleted
\* (report, machine-report.json).
THEOREM OneCommentEach == Spec => []DuplicatesAreAccidental
<1>1. ASSUME ReportInv PROVE DuplicatesAreAccidental
    <2> SUFFICES ASSUME NEW i \in DOMAIN issues, NEW m \in Machines
                 PROVE  Cardinality(Mine(i, m)) <= 1 + Mishaps
        <3>1. used \in [Kinds -> Nat]
            BY <1>1 DEF ReportInv, PingInv, TypeInv
        <3>2. Mishaps = used["error"] + used["lost"] + used["crash"] + used["forget"]
                        + used["delete"] + used["readonly"]
            BY DEF Mishaps
        <3>3. \A j \in DOMAIN issues, n \in Machines :
                  Cardinality({c \in DOMAIN comments : comments[c].issue = j
                                                       /\ comments[c].by = n})
                    = Cardinality(Mine(j, n))
            BY DEF Mine
        <3>4. 1 + Mishaps = 1 + used["error"] + used["lost"] + used["crash"]
                            + used["forget"] + used["delete"] + used["readonly"]
            BY <3>1, <3>2 DEF Kinds
        <3> QED BY <3>3, <3>4 DEF DuplicatesAreAccidental
    <2>1. i \in Nat
        <3>1. issues \in Seq({"open", "closed"})
            BY <1>1 DEF ReportInv, ReportTypes
        <3> QED BY <3>1, LenProperties
    <2>2. /\ Balance(i, m) /\ Cardinality(Mine(i, m)) \in Nat
          /\ Owed(i, m) \in Nat /\ Locked(m) \in Nat /\ Mishaps \in Nat
        BY <1>1, <2>1, Numbers DEF ReportInv
    <2> QED BY <2>2 DEF Balance
<1> QED BY <1>1, ReportInit, ReportsStep, PTL DEF Spec
=============================================================================
