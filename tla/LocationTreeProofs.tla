------------------------- MODULE LocationTreeProofs -------------------------
(* Proofs about LocationTree, for any number of locations, assets and       *)
(* requests, when requests do not overlap.                                  *)
EXTENDS LocationTree, TLAPS

USE TreeAssumption

LEMMA IdleType == /\ Idle \in Request
                  /\ Idle.pc = "idle"
  BY DEF Idle, Request, Pc

LEMMA InitInv == Init => TreeInv
  <1> SUFFICES ASSUME Init PROVE TreeInv
    OBVIOUS
  <1>1. \A r \in Requests : At(r, "idle")
    <2> SUFFICES ASSUME NEW q \in Requests PROVE req[q].pc = "idle"
      BY DEF At
    <2>1. req[q] = Idle
      BY DEF Init
    <2> QED BY <2>1, IdleType
  <1>2. TypeOK
    BY IdleType DEF Init, TypeOK
  <1>3. NoOrphans /\ Forest
    BY DEF Init, NoOrphans, Forest, Row
  <1>4. Alone
    BY <1>1 DEF Alone
  <1>5. WalkIsSound /\ Checked
    BY <1>1 DEF WalkIsSound, Checked, At
  <1> QED BY <1>2, <1>3, <1>4, <1>5 DEF TreeInv

\* What a step must show of the request it is about, whose record becomes n.
Sound(n) ==
  /\ n.pc = "walk" => \A S \in SUBSET Locations :
       (n.to \in S /\ \A y \in S \ {n.loc} : parent'[y] \in S) => n.cursor \in S
  /\ n.pc = "move" => \A S \in SUBSET Locations :
       (n.to \in S /\ \A y \in S \ {n.loc} : parent'[y] \in S) => Root \in S
  /\ n.pc \in {"children", "delete"} => \A a \in Assets : <<a, n.loc>> \notin placed'
  /\ n.pc = "delete" => \A c \in Locations : parent'[c] # n.loc
  /\ n.pc = "assign" => n.asset \in Assets

OnlyOne(r, n) == /\ req' = [req EXCEPT ![r] = n]
                 /\ \A q \in Requests \ {r} : At(q, "idle")
                 /\ Sound(n)

LEMMA StepInv ==
  ASSUME TreeInv, NEW r \in Requests, NEW n \in Request, OnlyOne(r, n)
  PROVE  Alone' /\ WalkIsSound' /\ Checked' /\ req' \in [Requests -> Request]
  <1>1. req' \in [Requests -> Request]
    BY DEF TreeInv, TypeOK, OnlyOne
  <1>2. \A q \in Requests : req'[q] = IF q = r THEN n ELSE req[q]
    BY DEF TreeInv, TypeOK, OnlyOne
  <1>3. Alone'
    BY <1>2 DEF Alone, At, OnlyOne
  <1>4. WalkIsSound'
    <2> SUFFICES ASSUME NEW q \in Requests
                 PROVE  /\ At(q, "walk")' => Reaches(q, req[q].cursor)'
                        /\ At(q, "move")' => Reaches(q, Root)'
      BY DEF WalkIsSound
    <2>1. CASE q = r
      BY <1>2, <2>1 DEF OnlyOne, Sound, Reaches, At
    <2>2. CASE q # r
      BY <1>2, <2>2 DEF OnlyOne, At
    <2> QED BY <2>1, <2>2
  <1>5. Checked'
    BY <1>2 DEF Checked, OnlyOne, Sound, At, Holds, Childless
  <1> QED BY <1>1, <1>3, <1>4, <1>5

\* A request that ends.
LEMMA EndInv ==
  ASSUME TreeInv, NEW r \in Requests, End(r), ~At(r, "idle")
  PROVE  Alone' /\ WalkIsSound' /\ Checked' /\ req' \in [Requests -> Request]
  <1>1. OnlyOne(r, Idle)
    BY IdleType DEF OnlyOne, Sound, End, TreeInv, Alone
  <1> QED BY <1>1, IdleType, StepInv

LEMMA RefuseInv ==
  ASSUME TreeInv, NEW r \in Requests, Refuse(r), ~At(r, "idle")
  PROVE  TreeInv'
  <1>1. End(r) /\ UNCHANGED <<parent, placed>>
    BY DEF Refuse
  <1>2. NoOrphans' /\ Forest'
    BY <1>1 DEF TreeInv, NoOrphans, Forest, Row
  <1> QED BY <1>1, <1>2, EndInv DEF TreeInv, TypeOK

LEMMA BeginInv ==
  ASSUME ~overlapped', TreeInv, NEW r \in Requests, NEW n \in Request, Begin(r, n), Sound(n)
  PROVE  TreeInv'
  <1>1. OnlyOne(r, n) /\ UNCHANGED <<parent, placed>>
    BY DEF Begin, Arrives, OnlyOne
  <1>2. NoOrphans' /\ Forest'
    BY <1>1 DEF TreeInv, NoOrphans, Forest, Row
  <1> QED BY <1>1, <1>2, StepInv DEF TreeInv, TypeOK

LEMMA GotoInv ==
  ASSUME TreeInv, NEW r \in Requests, ~At(r, "idle"), NEW pc \in Pc, Goto(r, pc),
         UNCHANGED <<parent, placed>>,
         Sound([req[r] EXCEPT !.pc = pc])
  PROVE  TreeInv'
  <1> DEFINE n == [req[r] EXCEPT !.pc = pc]
  <1>1. n \in Request
    BY DEF TreeInv, TypeOK, Request
  <1>2. OnlyOne(r, n)
    BY DEF OnlyOne, Goto, TreeInv, Alone
  <1>3. NoOrphans' /\ Forest'
    BY DEF TreeInv, NoOrphans, Forest, Row
  <1> HIDE DEF n
  <1> QED BY <1>1, <1>2, <1>3, StepInv DEF TreeInv, TypeOK

LEMMA StartInv ==
  ASSUME ~overlapped', TreeInv, NEW r \in Requests, Start(r)
  PROVE  TreeInv'
  <1>t. TypeOK
    BY DEF TreeInv
  <1>1. ASSUME NEW p \in Locations \cup {Root}, BeginCreate(r, p) PROVE TreeInv'
    <2> DEFINE n == [Idle EXCEPT !.pc = "create", !.to = p]
    <2>1. n \in Request /\ Sound(n)
      BY DEF Idle, Request, Pc, Sound
    <2>2. Begin(r, n)
      BY <1>1 DEF BeginCreate
    <2> HIDE DEF n
    <2> QED BY <2>1, <2>2, BeginInv
  <1>2. ASSUME NEW l \in Locations, NEW p \in Locations \cup {Root}, BeginMove(r, l, p)
        PROVE  TreeInv'
    <2>1. Row(l) /\ parent[l] \in Locations \cup {Root} /\ p # l
      BY <1>2 DEF BeginMove, Row
    <2>2. CASE p = Root
      <3> DEFINE n == [Idle EXCEPT !.pc = "move", !.loc = l, !.to = p, !.was = parent[l]]
      <3>1. Begin(r, n)
        BY <1>2, <2>2 DEF BeginMove, Row
      <3>2. /\ n.to = p /\ n.pc = "move" /\ n.loc = l
            /\ n \in Request
        BY <2>1 DEF Idle, Request, Pc
      <3>3. Sound(n)
        BY <2>2, <3>2 DEF Sound
      <3> HIDE DEF n
      <3> QED BY <3>1, <3>2, <3>3, BeginInv
    <2>3. CASE p # Root
      <3> DEFINE n == [Idle EXCEPT !.pc = "walk", !.loc = l, !.to = p, !.was = parent[l],
                                   !.cursor = parent[p], !.seen = {p}]
      <3>1. Begin(r, n) /\ parent[p] \in Locations \cup {Root}
        BY <1>2, <2>3 DEF BeginMove, Row
      <3>2. /\ n.to = p /\ n.pc = "walk" /\ n.loc = l /\ n.cursor = parent[p]
            /\ n \in Request
        BY <2>1, <2>3, <3>1 DEF Idle, Request, Pc
      <3>3. parent' = parent
        BY <3>1 DEF Begin
      <3>4. Sound(n)
        BY <2>1, <3>2, <3>3 DEF Sound
      <3> HIDE DEF n
      <3> QED BY <3>1, <3>2, <3>4, BeginInv
    <2> QED BY <2>2, <2>3
  <1>3. ASSUME NEW l \in Locations, BeginDelete(r, l) PROVE TreeInv'
    <2> DEFINE n == [Idle EXCEPT !.pc = "children", !.loc = l]
    <2>1. Begin(r, n) /\ ~Holds(l)
      BY <1>3 DEF BeginDelete
    <2>2. n \in Request /\ n.pc = "children" /\ n.loc = l
      BY DEF Idle, Request, Pc
    <2>3. Sound(n)
      BY <2>1, <2>2 DEF Sound, Holds, Begin
    <2> HIDE DEF n
    <2> QED BY <2>1, <2>2, <2>3, BeginInv
  <1>4. ASSUME NEW a \in Assets, NEW l \in Locations, BeginAssign(r, a, l) PROVE TreeInv'
    <2> DEFINE n == [Idle EXCEPT !.pc = "assign", !.loc = l, !.asset = a]
    <2>1. n \in Request /\ Sound(n)
      BY DEF Idle, Request, Pc, Sound
    <2>2. Begin(r, n)
      BY <1>4 DEF BeginAssign
    <2> HIDE DEF n
    <2> QED BY <2>1, <2>2, BeginInv
  <1> QED BY <1>1, <1>2, <1>3, <1>4 DEF Start

\* A new row under p is in no loop: no row names it as its parent.
LEMMA CreateKeepsForest ==
  ASSUME TreeInv, NEW l \in Locations, NEW p \in Locations \cup {Root},
         parent[l] = Free, p = Root \/ Row(p),
         parent' = [parent EXCEPT ![l] = p]
  PROVE  Forest' /\ \A x \in Locations : parent'[x] \in Locations => Row(parent[x])' 
  <1>1. \A x \in Locations : parent'[x] = IF x = l THEN p ELSE parent[x]
    BY DEF TreeInv, TypeOK
  <1>2. ~Row(l)
    BY DEF Row
  <1>3. \A x \in Locations : parent[x] # l /\ p # l
    BY <1>2 DEF TreeInv, NoOrphans
  <1>4. ASSUME NEW S \in SUBSET Locations, S # {}
        PROVE  \E x \in S : parent'[x] \notin S
    <2>1. CASE l \notin S
      BY <1>1, <1>4, <2>1 DEF TreeInv, Forest
    <2>2. CASE l \in S /\ S \ {l} = {}
      BY <1>1, <1>3, <2>2
    <2>3. CASE l \in S /\ S \ {l} # {}
      <3>1. PICK x \in S \ {l} : parent[x] \notin S \ {l}
        BY <2>3 DEF TreeInv, Forest
      <3> QED BY <1>1, <1>3, <3>1
    <2> QED BY <2>1, <2>2, <2>3
  <1>5. \A x \in Locations : Row(x) => Row(x)'
    BY <1>1 DEF Row
  <1>6. \A x \in Locations : parent'[x] \in Locations => Row(parent'[x])
    BY <1>1 DEF TreeInv, NoOrphans, Row
  <1>7. \A x \in Locations : parent'[x] \in Locations => Row(parent[x])'
    BY <1>5, <1>6
  <1> QED BY <1>4, <1>7 DEF Forest

\* A row moves under p: the walk showed that no set closed under the parents of
\* the other rows holds p.
LEMMA MoveKeepsForest ==
  ASSUME TreeInv, NEW r \in Requests, Move(r)
  PROVE  Forest' /\ \A x \in Locations : parent'[x] \in Locations => Row(parent[x])'
  <1> DEFINE l == req[r].loc
             p == req[r].to
  <1>1. /\ l \in Locations /\ Row(l) /\ (p = Root \/ Row(p))
        /\ parent' = [parent EXCEPT ![l] = p]
    BY DEF Move, Writes, Row
  <1>2. \A x \in Locations : parent'[x] = IF x = l THEN p ELSE parent[x]
    BY <1>1 DEF TreeInv, TypeOK
  <1>3. \A S \in SUBSET Locations : ~(p \in S /\ \A y \in S \ {l} : parent[y] \in S)
    BY DEF Move, TreeInv, WalkIsSound, Reaches
  <1> HIDE DEF l, p
  <1>4. ASSUME NEW S \in SUBSET Locations, S # {}
        PROVE  \E x \in S : parent'[x] \notin S
    <2>1. CASE l \notin S
      BY <1>2, <1>4, <2>1 DEF TreeInv, Forest
    <2>2. CASE l \in S
      BY <1>2, <1>3, <2>2
    <2> QED BY <2>1, <2>2
  <1>5. \A x \in Locations : Row(x) <=> Row(x)'
    BY <1>1, <1>2 DEF Row
  <1>6. \A x \in Locations : parent'[x] \in Locations => Row(parent'[x])
    BY <1>1, <1>2 DEF TreeInv, NoOrphans, Row
  <1>7. \A x \in Locations : parent'[x] \in Locations => Row(parent[x])'
    BY <1>5, <1>6
  <1> QED BY <1>4, <1>7 DEF Forest

\* The cascade of a childless row is the row.
LEMMA ChildlessCascade ==
  ASSUME NEW l \in Locations, Childless(l)
  PROVE  Cascade(l) = {l}
  <1>1. l \in Subtree(l)
    BY DEF Subtree
  <1>2. ASSUME NEW x \in Subtree(l) PROVE x = l
    <2>1. {l} \in SUBSET Locations
      OBVIOUS
    <2>2. (l \in {l} /\ \A y \in Locations : parent[y] \in {l} => y \in {l}) => x \in {l}
      BY <2>1, Zenon DEF Subtree
    <2> QED BY <2>2 DEF Childless
  <1> QED BY <1>1, <1>2 DEF Cascade, Subtree

LEMMA DeleteStep ==
  ASSUME TreeInv, NEW r \in Requests, Delete(r)
  PROVE  /\ req[r].loc \in Locations /\ Childless(req[r].loc) /\ ~Holds(req[r].loc)
         /\ parent' = [x \in Locations |-> IF x = req[r].loc THEN Gone ELSE parent[x]]
         /\ placed' = placed
         /\ End(r) /\ ~At(r, "idle")
  <1> DEFINE l == req[r].loc
  <1>1. l \in Locations /\ Childless(l) /\ ~Holds(l) /\ End(r) /\ ~At(r, "idle")
    BY DEF Delete, Row, TreeInv, Checked, At
  <1>2. Cascade(l) = {l}
    BY <1>1, ChildlessCascade
  <1>3. /\ parent' = [x \in Locations |-> IF x \in Cascade(l) THEN Gone ELSE parent[x]]
        /\ placed' = {p \in placed : p[2] \notin Cascade(l)}
    BY DEF Delete
  <1>4. \A p \in placed : p[2] # l
    BY <1>1 DEF Holds, TreeInv, TypeOK
  <1> HIDE DEF l
  <1>5. placed' = placed
    BY <1>2, <1>3, <1>4
  <1>6. parent' = [x \in Locations |-> IF x = l THEN Gone ELSE parent[x]]
    BY <1>2, <1>3
  <1> QED BY <1>1, <1>5, <1>6 DEF l

LEMMA ProgressInv ==
  ASSUME TreeInv, NEW r \in Requests, Progress(r)
  PROVE  TreeInv'
  <1>t. TypeOK /\ req[r] \in Request
    BY DEF TreeInv, TypeOK
  <1>1. ASSUME NEW l \in Locations, Create(r, l) PROVE TreeInv'
    <2>1. /\ parent[l] = Free /\ (req[r].to = Root \/ Row(req[r].to))
          /\ parent' = [parent EXCEPT ![l] = req[r].to]
          /\ End(r) /\ ~At(r, "idle") /\ placed' = placed
      BY <1>1 DEF Create, At
    <2>2. req[r].to \in Locations \cup {Root}
      BY <2>1 DEF Row
    <2>3. Forest' /\ \A x \in Locations : parent'[x] \in Locations => Row(parent[x])'
      BY <2>1, <2>2, CreateKeepsForest
    <2>4. parent' \in [Locations -> Locations \cup {Root, Free, Gone}]
      BY <1>t, <2>1, <2>2 DEF TypeOK
    <2>5. \A x \in Locations : Row(x) => Row(x)'
      BY <1>t, <2>1, <2>2 DEF TypeOK, Row
    <2>6. NoOrphans'
      BY <2>1, <2>3, <2>5 DEF TreeInv, NoOrphans, TypeOK
    <2>7. Alone' /\ WalkIsSound' /\ Checked' /\ req' \in [Requests -> Request]
      BY <2>1, EndInv
    <2> QED BY <1>t, <2>1, <2>3, <2>4, <2>6, <2>7 DEF TreeInv, TypeOK
  <1>2. ASSUME Walk(r) PROVE TreeInv'
    <2> DEFINE c == req[r].cursor
               n == Visit(req[r])
    <2>1. /\ At(r, "walk") /\ Row(c) /\ c # req[r].loc
          /\ req' = [req EXCEPT ![r] = n] /\ UNCHANGED <<parent, placed>>
      <3>1. req' = [req EXCEPT ![r] = n]
        BY <1>2 DEF Walk
      <3>2. At(r, "walk") /\ Row(c) /\ c # req[r].loc /\ UNCHANGED <<parent, placed>>
        BY <1>2 DEF Walk, ClosesLoop
      <3> QED BY <3>1, <3>2
    <2>2. c \in Locations /\ parent[c] \in Locations \cup {Root, Free, Gone}
      BY <2>1 DEF Row
    <2>3. /\ n \in Request /\ n.pc = "walk" /\ n.to = req[r].to /\ n.loc = req[r].loc
          /\ n.cursor = parent[c]
      BY <1>t, <2>1, <2>2 DEF Request, At, Visit
    <2>4. Reaches(r, c)
      BY <2>1 DEF TreeInv, WalkIsSound
    <2>5. Sound(n)
      BY <2>1, <2>2, <2>3, <2>4 DEF Sound, Reaches
    <2>6. OnlyOne(r, n)
      BY <2>1, <2>5 DEF OnlyOne, TreeInv, Alone, At
    <2> HIDE DEF n
    <2>7. NoOrphans' /\ Forest'
      BY <2>1 DEF TreeInv, NoOrphans, Forest, Row
    <2> QED BY <1>t, <2>1, <2>3, <2>6, <2>7, StepInv DEF TreeInv, TypeOK
  <1>3. ASSUME WalkEnds(r) PROVE TreeInv'
    <2> DEFINE n == [req[r] EXCEPT !.pc = "move"]
    <2>1. /\ At(r, "walk") /\ ~Row(req[r].cursor) /\ req[r].cursor # req[r].loc
          /\ Goto(r, "move") /\ UNCHANGED <<parent, placed>>
      BY <1>3 DEF WalkEnds, ClosesLoop
    <2>2. n.pc = "move" /\ n.to = req[r].to /\ n.loc = req[r].loc
      BY <1>t DEF Request
    <2>3. Reaches(r, req[r].cursor)
      BY <2>1 DEF TreeInv, WalkIsSound
    <2>4. req[r].cursor \in Locations => parent[req[r].cursor] \notin Locations
      BY <2>1 DEF Row
    <2>5. ASSUME NEW S \in SUBSET Locations, n.to \in S,
                 \A y \in S \ {n.loc} : parent'[y] \in S
          PROVE  FALSE
      BY <2>1, <2>2, <2>3, <2>4, <2>5 DEF Reaches
    <2>6. Sound(n)
      BY <2>2, <2>5 DEF Sound
    <2> QED BY <2>1, <2>6, GotoInv DEF Pc, At
  <1>4. ASSUME Move(r) PROVE TreeInv'
    <2>1. /\ Row(req[r].loc) /\ (req[r].to = Root \/ Row(req[r].to))
          /\ parent' = [parent EXCEPT ![req[r].loc] = req[r].to]
          /\ End(r) /\ ~At(r, "idle") /\ placed' = placed
      BY <1>4 DEF Move, Writes, At
    <2>2. Forest' /\ \A x \in Locations : parent'[x] \in Locations => Row(parent[x])'
      BY <1>4, MoveKeepsForest
    <2>3. req[r].to \in Locations \cup {Root} /\ req[r].loc \in Locations
      BY <2>1 DEF Row
    <2>4. parent' \in [Locations -> Locations \cup {Root, Free, Gone}]
      BY <1>t, <2>1, <2>3 DEF TypeOK
    <2>5. \A x \in Locations : Row(x) => Row(x)'
      BY <1>t, <2>1, <2>3 DEF TypeOK, Row
    <2>6. NoOrphans'
      BY <2>1, <2>2, <2>5 DEF TreeInv, NoOrphans, TypeOK
    <2>7. Alone' /\ WalkIsSound' /\ Checked' /\ req' \in [Requests -> Request]
      BY <2>1, EndInv
    <2> QED BY <1>t, <2>1, <2>2, <2>4, <2>6, <2>7 DEF TreeInv, TypeOK
  <1>5. ASSUME CountChildren(r) PROVE TreeInv'
    <2> DEFINE n == [req[r] EXCEPT !.pc = "delete"]
    <2>1. /\ At(r, "children") /\ Childless(req[r].loc) /\ ~Holds(req[r].loc)
          /\ Goto(r, "delete") /\ UNCHANGED <<parent, placed>>
      BY <1>5 DEF CountChildren, TreeInv, Checked
    <2>2. n.pc = "delete" /\ n.loc = req[r].loc
      BY <1>t DEF Request
    <2>3. Sound(n)
      BY <2>1, <2>2 DEF Sound, Childless, Holds
    <2> QED BY <2>1, <2>3, GotoInv DEF Pc, At
  <1>6. ASSUME Delete(r) PROVE TreeInv'
    <2> DEFINE l == req[r].loc
    <2>1. /\ l \in Locations /\ Childless(l) /\ ~Holds(l)
          /\ parent' = [x \in Locations |-> IF x = l THEN Gone ELSE parent[x]]
          /\ placed' = placed /\ End(r) /\ ~At(r, "idle")
      BY <1>6, DeleteStep
    <2> HIDE DEF l
    <2>2. \A x \in Locations : parent'[x] = IF x = l THEN Gone ELSE parent[x]
      BY <2>1
    <2>3. parent' \in [Locations -> Locations \cup {Root, Free, Gone}]
      BY <1>t, <2>1 DEF TypeOK
    <2>4. Forest'
      BY <2>1, <2>2 DEF TreeInv, Forest
    <2>5. \A x \in Locations : Row(x)' <=> Row(x) /\ x # l
      BY <2>2 DEF Row
    <2>6. \A x \in Locations : parent'[x] \in Locations => Row(parent[x])'
      BY <2>1, <2>2, <2>5 DEF TreeInv, NoOrphans, Childless
    <2>7. \A p \in placed : p[2] # l /\ p[2] \in Locations
      BY <1>t, <2>1 DEF TypeOK, Holds
    <2>8. NoOrphans'
      BY <2>1, <2>5, <2>6, <2>7 DEF TreeInv, NoOrphans
    <2>9. Alone' /\ WalkIsSound' /\ Checked' /\ req' \in [Requests -> Request]
      BY <2>1, EndInv
    <2> QED BY <1>t, <2>1, <2>3, <2>4, <2>8, <2>9 DEF TreeInv, TypeOK
  <1>7. ASSUME Assign(r) PROVE TreeInv'
    <2>1. /\ Row(req[r].loc) /\ End(r) /\ ~At(r, "idle") /\ parent' = parent
          /\ placed' = placed \cup {<<req[r].asset, req[r].loc>>}
      BY <1>7 DEF Assign, At
    <2>2. req[r].asset \in Assets /\ req[r].loc \in Locations
      BY <2>1, <1>7 DEF Assign, TreeInv, Checked, Row
    <2>3. placed' \in SUBSET (Assets \X Locations)
      BY <1>t, <2>1, <2>2 DEF TypeOK
    <2>4. NoOrphans' /\ Forest'
      BY <2>1 DEF TreeInv, NoOrphans, Forest, Row
    <2>5. Alone' /\ WalkIsSound' /\ Checked' /\ req' \in [Requests -> Request]
      BY <2>1, EndInv
    <2> QED BY <1>t, <2>1, <2>3, <2>4, <2>5 DEF TreeInv, TypeOK
  <1>8. ASSUME \/ CreateFails(r) \/ WalkRefuses(r) \/ MoveNothing(r) \/ HasChildren(r)
               \/ DeleteNothing(r) \/ AssignFails(r)
        PROVE  TreeInv'
    BY <1>8, RefuseInv DEF CreateFails, WalkRefuses, MoveNothing, HasChildren, DeleteNothing,
                           AssignFails, At
  <1> QED BY <1>1, <1>2, <1>3, <1>4, <1>5, <1>6, <1>7, <1>8 DEF Progress

\* Once requests have overlapped, they have.
LEMMA Overlaps ==
  ASSUME SerialInv, [Next]_vars
  PROVE  (overlapped => overlapped') /\ overlapped' \in BOOLEAN
  <1>1. ASSUME Arrives PROVE (overlapped => overlapped') /\ overlapped' \in BOOLEAN
    BY <1>1, Zenon DEF Arrives
  <1>2. ASSUME NEW r \in Requests, Start(r) PROVE Arrives
    <2>1. ASSUME NEW n, Begin(r, n) PROVE Arrives
      BY <2>1 DEF Begin
    <2> QED BY <1>2, <2>1, Zenon DEF Start, BeginCreate, BeginMove, BeginDelete, BeginAssign
  <1>3. ASSUME UNCHANGED overlapped PROVE (overlapped => overlapped') /\ overlapped' \in BOOLEAN
    BY <1>3 DEF SerialInv
  <1>4. (\E a \in Assets, l \in Locations : Unassign(a, l)) => Arrives
    BY Zenon DEF Unassign
  <1> QED BY <1>1, <1>2, <1>3, <1>4, Zenon DEF Next, Advance, vars

LEMMA NextInv == SerialInv /\ [Next]_vars => SerialInv'
  <1> SUFFICES ASSUME SerialInv, [Next]_vars PROVE SerialInv'
    OBVIOUS
  <1>1. (overlapped => overlapped') /\ overlapped' \in BOOLEAN
    BY Overlaps
  <1> SUFFICES ASSUME ~overlapped' PROVE TreeInv'
    BY <1>1 DEF SerialInv
  <1>2. TreeInv
    BY <1>1 DEF SerialInv
  <1>3. ASSUME NEW a \in Assets, NEW l \in Locations, Unassign(a, l) PROVE TreeInv'
    <2>1. /\ \A q \in Requests : At(q, "idle")
          /\ placed' \subseteq placed /\ UNCHANGED <<parent, req>>
      BY <1>3 DEF Unassign, Arrives
    <2>2. TypeOK' /\ NoOrphans' /\ Forest' /\ Alone'
      BY <1>2, <2>1 DEF TreeInv, TypeOK, NoOrphans, Forest, Alone, Row, At
    <2>3. WalkIsSound' /\ Checked'
      BY <2>1 DEF WalkIsSound, Checked, At
    <2> QED BY <2>2, <2>3 DEF TreeInv
  <1>4. CASE UNCHANGED vars
    BY <1>2, <1>4 DEF vars, TreeInv, TypeOK, NoOrphans, Forest, Alone, WalkIsSound, Checked, Row,
                      At, Reaches, Holds, Childless
  <1> QED BY <1>2, <1>3, <1>4, ProgressInv, StartInv DEF Next, Advance

\* Until two requests overlap the inductive invariant of the tree holds, for
\* any number of locations, assets and requests.
THEOREM TreeInvariant == Spec => []SerialInv
  <1>1. Init => SerialInv
    BY InitInv DEF Init, SerialInv
  <1> QED BY <1>1, NextInv, PTL DEF Spec

\* The cycle check keeps the tree a forest until two requests overlap.
THEOREM AlwaysForest == Spec => []SerialForest
  <1>1. SerialInv => SerialForest
    BY DEF SerialInv, SerialForest, TreeInv
  <1> QED BY TreeInvariant, <1>1, PTL

\* Until two requests overlap, only an empty location ever goes.
THEOREM OnlyEmptyGo == Spec => SerialDeletesEmpty
  <1> DEFINE Empty == \A l \in Rows \ Rows' : Childless(l) /\ ~Holds(l)
  <1>1. SerialInv /\ SerialInv' /\ [Next]_vars => [~overlapped' => Empty]_vars
    <2> SUFFICES ASSUME SerialInv, SerialInv', Next, ~overlapped' PROVE Empty
      OBVIOUS
    <2>t. TreeInv
      BY Overlaps DEF SerialInv
    <2>1. ASSUME NEW r \in Requests, Delete(r) PROVE Empty
      BY <2>t, <2>1, DeleteStep DEF Rows, Row
    <2>2. ASSUME NEW r \in Requests, NEW l \in Locations, Create(r, l) PROVE Empty
      BY <2>t, <2>2 DEF Create, Rows, Row, TreeInv, TypeOK
    <2>3. ASSUME NEW r \in Requests, Move(r) PROVE Empty
      <3>1. /\ req[r].to \in Locations \cup {Root}
            /\ parent' = [parent EXCEPT ![req[r].loc] = req[r].to]
        BY <2>3 DEF Move, Writes, Row
      <3>2. \A l \in Locations : Row(l) => Row(l)'
        BY <2>t, <3>1 DEF Row, TreeInv, TypeOK
      <3> QED BY <3>2 DEF Rows
    <2>4. ASSUME NEW r \in Requests, Start(r) PROVE parent' = parent
      <3>1. ASSUME NEW n, Begin(r, n) PROVE parent' = parent
        BY <3>1 DEF Begin
      <3> QED BY <2>4, <3>1, Zenon DEF Start, BeginCreate, BeginMove, BeginDelete, BeginAssign
    <2>5. ASSUME NEW r \in Requests, Progress(r), ~Delete(r), ~Move(r),
                 ~\E l \in Locations : Create(r, l)
          PROVE  parent' = parent
      BY <2>5 DEF Progress, CreateFails, Walk, WalkRefuses, WalkEnds, MoveNothing,
                  CountChildren, HasChildren, DeleteNothing, Assign, AssignFails, Refuse
    <2>6. ASSUME NEW a \in Assets, NEW l \in Locations, Unassign(a, l) PROVE parent' = parent
      BY <2>6 DEF Unassign
    <2>7. parent' = parent => Empty
      BY DEF Rows, Row
    <2> HIDE DEF Empty
    <2>8. ASSUME NEW r \in Requests, Progress(r) PROVE Empty
      BY <2>1, <2>2, <2>3, <2>5, <2>7, <2>8
    <2>9. ASSUME NEW r \in Requests, Start(r) PROVE Empty
      BY <2>4, <2>7, <2>9
    <2>10. ASSUME NEW a \in Assets, NEW l \in Locations, Unassign(a, l) PROVE Empty
      BY <2>6, <2>7, <2>10
    <2> QED BY <2>8, <2>9, <2>10 DEF Next, Advance
  <1>2. SerialInv /\ SerialInv' /\ [Next]_vars =>
          [~overlapped' => \A l \in Rows \ Rows' : Childless(l) /\ ~Holds(l)]_vars
    BY <1>1
  <1>3. Spec => []SerialInv
    BY TreeInvariant
  <1> QED BY <1>2, <1>3, PTL DEF Spec, SerialDeletesEmpty

-----------------------------------------------------------------------------
(* What holds however requests overlap.                                    *)

Loose == /\ TypeOK /\ NoOrphans
         /\ \A r \in Requests : At(r, "assign") => req[r].asset \in Assets

\* A step that leaves the tree and the assignments alone and types its request.
LEMMA LooseStep ==
  ASSUME Loose, NEW r \in Requests, NEW n \in Request, req' = [req EXCEPT ![r] = n],
         n.pc = "assign" => n.asset \in Assets, UNCHANGED <<parent, placed>>
  PROVE  Loose'
  <1>1. TypeOK'
    BY DEF Loose, TypeOK
  <1>2. NoOrphans'
    BY DEF Loose, NoOrphans, Row
  <1>3. \A q \in Requests : At(q, "assign")' => req'[q].asset \in Assets
    BY DEF Loose, TypeOK, At
  <1> QED BY <1>1, <1>2, <1>3 DEF Loose

LEMMA LooseFields == \A q \in Request, pc \in Pc : /\ [q EXCEPT !.pc = pc] \in Request
                                                  /\ [q EXCEPT !.pc = pc].pc = pc
  BY DEF Request

LEMMA VisitFields ==
  ASSUME NEW q \in Request, q.cursor \in Locations,
         parent[q.cursor] \in Locations \cup {Root, Free, Gone}
  PROVE  /\ Visit(q) \in Request
         /\ Visit(q).pc = q.pc
         /\ Visit(q).seen = q.seen \cup {q.cursor}
  <1> DEFINE up == parent[q.cursor]
             seen == q.seen \cup {q.cursor}
  <1>1. seen \in SUBSET Locations
    BY DEF Request
  <1>2. Visit(q) = [q EXCEPT !.cursor = up, !.seen = seen]
    BY DEF Visit
  <1> HIDE DEF up, seen
  <1>3. up \in Locations \cup {Root, Free, Gone}
    BY DEF up
  <1>4. /\ [q EXCEPT !.cursor = up, !.seen = seen] \in Request
        /\ [q EXCEPT !.cursor = up, !.seen = seen].pc = q.pc
        /\ [q EXCEPT !.cursor = up, !.seen = seen].seen = seen
    BY <1>1, <1>3 DEF Request
  <1> QED BY <1>2, <1>4 DEF seen

LEMMA LooseStart == ASSUME Loose, NEW r \in Requests, Start(r) PROVE Loose'
  <1>1. ASSUME NEW n \in Request, Begin(r, n), n.pc = "assign" => n.asset \in Assets
        PROVE  Loose'
    BY <1>1, LooseStep DEF Begin
  <1>2. ASSUME NEW p \in Locations \cup {Root}, BeginCreate(r, p) PROVE Loose'
    <2> DEFINE n == [Idle EXCEPT !.pc = "create", !.to = p]
    <2>1. n \in Request /\ n.pc = "create"
      BY DEF Idle, Request, Pc
    <2> QED BY <1>1, <1>2, <2>1 DEF BeginCreate
  <1>3. ASSUME NEW l \in Locations, NEW p \in Locations \cup {Root}, BeginMove(r, l, p) PROVE Loose'
    <2> DEFINE n == [Idle EXCEPT !.pc = "move", !.loc = l, !.to = p, !.was = parent[l]]
               w == [Idle EXCEPT !.pc = "walk", !.loc = l, !.to = p, !.was = parent[l],
                                 !.cursor = parent[p], !.seen = {p}]
    <2>1. Row(l) => n \in Request /\ n.pc = "move"
      BY DEF Idle, Request, Pc, Row
    <2>2. Row(l) /\ Row(p) => w \in Request /\ w.pc = "walk"
      BY DEF Idle, Request, Pc, Row
    <2> QED BY <1>1, <1>3, <2>1, <2>2 DEF BeginMove
  <1>4. ASSUME NEW l \in Locations, BeginDelete(r, l) PROVE Loose'
    <2> DEFINE n == [Idle EXCEPT !.pc = "children", !.loc = l]
    <2>1. n \in Request /\ n.pc = "children"
      BY DEF Idle, Request, Pc
    <2> QED BY <1>1, <1>4, <2>1 DEF BeginDelete
  <1>5. ASSUME NEW a \in Assets, NEW l \in Locations, BeginAssign(r, a, l) PROVE Loose'
    <2> DEFINE n == [Idle EXCEPT !.pc = "assign", !.loc = l, !.asset = a]
    <2>1. n \in Request /\ n.pc = "assign" /\ n.asset = a
      BY DEF Idle, Request, Pc
    <2> QED BY <1>1, <1>5, <2>1 DEF BeginAssign
  <1> QED BY <1>2, <1>3, <1>4, <1>5 DEF Start

\* The end of a request: the tree is well formed, and so is the idle request.
LEMMA LooseEnd ==
  ASSUME Loose, NEW r \in Requests, End(r), NoOrphans',
         parent' \in [Locations -> Locations \cup {Root, Free, Gone}],
         placed' \in SUBSET (Assets \X Locations)
  PROVE  Loose'
  <1>1. TypeOK'
    BY IdleType DEF Loose, TypeOK, End
  <1>2. \A q \in Requests : At(q, "assign")' => req'[q].asset \in Assets
    BY IdleType DEF Loose, TypeOK, At, End
  <1> QED BY <1>1, <1>2 DEF Loose

\* The foreign keys keep rows and assignments together when a subtree goes.
LEMMA CascadeKeepsKeys ==
  ASSUME Loose, NEW r \in Requests, Delete(r)
  PROVE  NoOrphans'
  <1> DEFINE dead == Cascade(req[r].loc)
  <1>1. \A x, y \in Locations : x \in dead /\ parent[y] = x => y \in dead
    BY DEF Cascade, Subtree
  <1>2. /\ parent' = [l \in Locations |-> IF l \in dead THEN Gone ELSE parent[l]]
        /\ placed' = {p \in placed : p[2] \notin dead}
    BY DEF Delete
  <1> HIDE DEF dead
  <1>3. \A l \in Locations : Row(l) /\ l \notin dead => Row(l)'
    BY <1>2 DEF Row
  <1>4. \A l \in Locations : parent'[l] \in Locations => Row(parent[l])'
    <2> SUFFICES ASSUME NEW l \in Locations, parent'[l] \in Locations PROVE Row(parent[l])'
      OBVIOUS
    <2>1. parent'[l] = parent[l] /\ l \notin dead
      BY <1>2, TreeAssumption
    <2>2. Row(parent[l]) /\ parent[l] \in Locations /\ parent[l] \notin dead
      BY <1>1, <2>1, <1>2, TreeAssumption DEF Loose, NoOrphans
    <2>3. \A x : x = parent[l] => Row(x)'
      BY <1>3, <2>2
    <2>4. \A x : x = parent'[l] => Row(x)'
      BY <2>1, <2>3
    <2> QED BY <2>4 DEF Row
  <1>5. \A p \in placed' : Row(p[2])'
    BY <1>2, <1>3 DEF Loose, NoOrphans, TypeOK
  <1> QED BY <1>4, <1>5 DEF NoOrphans

LEMMA LooseProgress == ASSUME Loose, NEW r \in Requests, Progress(r) PROVE Loose'
  <1>t. /\ req[r] \in Request /\ req \in [Requests -> Request]
        /\ parent \in [Locations -> Locations \cup {Root, Free, Gone}]
        /\ placed \in SUBSET (Assets \X Locations)
    BY DEF Loose, TypeOK
  <1>1. CASE Refuse(r)
    BY <1>1, <1>t, LooseEnd DEF Refuse, Loose, NoOrphans, Row
  <1>2. ASSUME NEW pc \in Pc \ {"assign"}, Goto(r, pc), UNCHANGED <<parent, placed>> PROVE Loose'
    <2>1. [req[r] EXCEPT !.pc = pc] \in Request /\ [req[r] EXCEPT !.pc = pc].pc = pc
      BY <1>t, LooseFields
    <2> QED BY <1>2, <1>t, <2>1, LooseStep DEF Goto
  <1>3. CASE Walk(r)
    <2>0. req[r].cursor \in Locations /\ req[r].pc = "walk"
      BY <1>3 DEF Walk, Row, At
    <2>1. Visit(req[r]) \in Request /\ Visit(req[r]).pc = "walk"
      BY <2>0, <1>t, VisitFields
    <2> QED BY <1>3, <2>1, LooseStep DEF Walk
  <1>4. ASSUME NEW l \in Locations, Create(r, l) PROVE Loose'
    <2>1. parent' = [parent EXCEPT ![l] = req[r].to] /\ placed' = placed /\ parent[l] = Free
      BY <1>4 DEF Create
    <2>2. req[r].to = Root \/ (req[r].to \in Locations /\ Row(req[r].to))
      BY <1>4 DEF Create, Row
    <2>3. \A x \in Locations : Row(x) => Row(x)'
      BY <2>1, <2>2, <1>t DEF Row
    <2>4. NoOrphans'
      BY <2>1, <2>2, <2>3, <1>t, TreeAssumption DEF Loose, NoOrphans, Row
    <2> QED BY <1>4, <2>1, <2>2, <2>4, <1>t, LooseEnd DEF Create, Row
  <1>5. CASE Move(r)
    <2>1. /\ parent' = [parent EXCEPT ![req[r].loc] = req[r].to] /\ placed' = placed
          /\ req[r].loc \in Locations
          /\ req[r].to = Root \/ Row(req[r].to)
      BY <1>5 DEF Move, Writes, Row
    <2>2. \A x \in Locations : Row(x) => Row(x)'
      BY <2>1, <1>t DEF Row
    <2>3. NoOrphans'
      BY <2>1, <2>2, <1>t, TreeAssumption DEF Loose, NoOrphans, Row
    <2> QED BY <1>5, <2>1, <2>3, <1>t, LooseEnd DEF Move, Row
  <1>6. CASE Delete(r)
    <2>1. /\ parent' \in [Locations -> Locations \cup {Root, Free, Gone}]
          /\ placed' \in SUBSET (Assets \X Locations)
      BY <1>6, <1>t DEF Delete
    <2> QED BY <1>6, <2>1, CascadeKeepsKeys, LooseEnd DEF Delete
  <1>7. CASE Assign(r)
    <2>1. /\ placed' = placed \cup {<<req[r].asset, req[r].loc>>} /\ parent' = parent
          /\ req[r].asset \in Assets /\ Row(req[r].loc)
      BY <1>7 DEF Assign, Loose
    <2>2. NoOrphans'
      BY <2>1 DEF Loose, NoOrphans, Row
    <2> QED BY <1>7, <1>t, <2>1, <2>2, LooseEnd DEF Assign, Row
  <1>8. CASE WalkEnds(r) \/ CountChildren(r)
    BY <1>8, <1>2 DEF WalkEnds, CountChildren, Pc
  <1> QED
    BY <1>1, <1>3, <1>4, <1>5, <1>6, <1>7, <1>8
    DEF Progress, CreateFails, WalkRefuses, MoveNothing, HasChildren, DeleteNothing, AssignFails

LEMMA LooseNext == Loose /\ [Next]_vars => Loose'
  <1> SUFFICES ASSUME Loose, [Next]_vars PROVE Loose'
    OBVIOUS
  <1>1. CASE UNCHANGED vars
    BY <1>1 DEF vars, Loose, TypeOK, NoOrphans, Row, At
  <1>2. ASSUME NEW a \in Assets, NEW l \in Locations, Unassign(a, l) PROVE Loose'
    BY <1>2 DEF Unassign, Loose, TypeOK, NoOrphans, Row, At
  <1> QED BY <1>1, <1>2, LooseStart, LooseProgress DEF Next, Advance

LEMMA LooseAlways == Spec => []Loose
  <1>1. Init => Loose
    BY IdleType DEF Init, Loose, TypeOK, NoOrphans, At, Row
  <1> QED BY <1>1, LooseNext, PTL DEF Spec

\* The foreign keys hold however requests overlap: no row and no assignment
\* names a location that is gone.
THEOREM KeysAlwaysHold == Spec => []NoOrphans
  <1>1. Loose => NoOrphans
    BY DEF Loose
  <1> QED BY LooseAlways, <1>1, PTL

\* Every turn of the cycle check visits a location it had not visited
\* (_would_cycle), however the tree changes under it.
THEOREM WalkAlwaysAdvances == Spec => WalkAdvances
  <1> DEFINE Fresh(r) == \E l \in Locations \ req[r].seen : req'[r].seen = req[r].seen \cup {l}
             Turn(r) == At(r, "walk") /\ At(r, "walk")' /\ req'[r] # req[r]
  <1>1. ASSUME Loose, NEW r \in Requests, Turn(r), Next PROVE Fresh(r)
    <2>t. req \in [Requests -> Request]
      BY <1>1 DEF Loose, TypeOK
    <2>1. ASSUME NEW q \in Requests, NEW n, req' = [req EXCEPT ![q] = n] PROVE q = r /\ req'[r] = n
      BY <1>1, <2>1, <2>t
    <2>2. ASSUME NEW q \in Requests, Start(q) PROVE FALSE
      <3>1. \A n : ~Begin(q, n)
        BY <1>1, <2>1 DEF Begin, At
      <3> QED BY <2>2, <3>1, Zenon DEF Start, BeginCreate, BeginMove, BeginDelete, BeginAssign
    <2>3. ASSUME NEW q \in Requests, End(q) PROVE FALSE
      BY <1>1, <2>1, <2>3, IdleType DEF End, At
    <2>4. ASSUME NEW q \in Requests, NEW pc \in Pc \ {"walk"}, Goto(q, pc) PROVE FALSE
      BY <1>1, <2>1, <2>4, <2>t, LooseFields DEF Goto, At
    <2>5. ASSUME NEW q \in Requests, Walk(q) PROVE Fresh(r)
      <3>1. q = r /\ req'[r] = Visit(req[r])
        BY <2>1, <2>5 DEF Walk
      <3>2. req[r].cursor \in Locations \ req[r].seen
        BY <2>5, <3>1 DEF Walk, ClosesLoop, Row
      <3>3. Visit(req[r]).seen = req[r].seen \cup {req[r].cursor}
        BY <2>t, <3>2, VisitFields, <1>1 DEF Loose, TypeOK
      <3> QED BY <3>1, <3>2, <3>3
    <2>6. ASSUME NEW q \in Requests, Progress(q), ~Walk(q) PROVE FALSE
      <3>1. End(q) \/ Goto(q, "move") \/ Goto(q, "delete")
        BY <2>6 DEF Progress, CreateFails, WalkRefuses, MoveNothing, HasChildren, DeleteNothing,
                    AssignFails, Refuse, Create, WalkEnds, Move, CountChildren, Delete, Assign
      <3> QED BY <3>1, <2>3, <2>4 DEF Pc
    <2>7. ASSUME NEW a \in Assets, NEW l \in Locations, Unassign(a, l) PROVE FALSE
      BY <1>1, <2>7 DEF Unassign
    <2> QED BY <1>1, <2>2, <2>5, <2>6, <2>7 DEF Next, Advance
  <1>2. Loose /\ [Next]_vars => [\A r \in Requests : Turn(r) => Fresh(r)]_vars
    BY <1>1
  <1>3. Loose /\ [Next]_vars =>
          [\A r \in Requests : At(r, "walk") /\ At(r, "walk")' /\ req'[r] # req[r]
             => \E l \in Locations \ req[r].seen : req'[r].seen = req[r].seen \cup {l}]_vars
    BY <1>2
  <1> QED BY LooseAlways, <1>3, PTL DEF Spec, WalkAdvances
=============================================================================
