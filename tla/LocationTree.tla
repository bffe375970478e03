---------------------------- MODULE LocationTree ----------------------------
(***************************************************************************)
(* The location tree of one household and the places of its assets.  The   *)
(* endpoints run in the thread pool: each reads, checks and then writes,   *)
(* and other requests commit in between.  The cycle check of a reparent    *)
(* walks the ancestors of the new parent with one query per ancestor.  The *)
(* database has foreign keys on: it refuses a row whose parent is gone and *)
(* its ON DELETE CASCADE takes a whole subtree with the assignments in it. *)
(***************************************************************************)
EXTENDS Naturals

CONSTANTS Locations,    \* identifiers that locations may get
          Assets,
          Requests,     \* requests that may be in flight
          Root, Free, Gone    \* parent of a root; of an unused id; of a deleted row

ASSUME TreeAssumption == /\ {Root, Free, Gone} \cap Locations = {}
                         /\ Root # Free /\ Root # Gone /\ Free # Gone

VARIABLES parent,       \* of each location
          placed,       \* the assignments
          req,          \* the requests in flight
          overlapped    \* history: two requests have been in flight at once

vars == <<parent, placed, req, overlapped>>

Pc == {"idle", "create", "walk", "move", "children", "delete", "assign"}
Request == [pc : Pc, loc : Locations \cup {Free}, to : Locations \cup {Root, Free},
            was : Locations \cup {Root, Free}, asset : Assets \cup {Free},
            cursor : Locations \cup {Root, Free, Gone}, seen : SUBSET Locations]
Idle == [pc |-> "idle", loc |-> Free, to |-> Free, was |-> Free, asset |-> Free,
         cursor |-> Free, seen |-> {}]

Row(l) == l \in Locations /\ parent[l] \in Locations \cup {Root}
Rows == {l \in Locations : Row(l)}
At(r, pc) == req[r].pc = pc

Init == /\ parent = [l \in Locations |-> Free]
        /\ placed = {}
        /\ req = [r \in Requests |-> Idle]
        /\ overlapped = FALSE

\* A request that starts while another is in flight overlaps with it.
Arrives == overlapped' = (overlapped \/ \E q \in Requests : ~At(q, "idle"))

\* A request that passed its checks; one that is refused changes nothing.
Begin(r, new) == /\ At(r, "idle")
                 /\ Arrives
                 /\ req' = [req EXCEPT ![r] = new]
                 /\ UNCHANGED <<parent, placed>>
Goto(r, pc) == req' = [req EXCEPT ![r] = [@ EXCEPT !.pc = pc]]
End(r) == req' = [req EXCEPT ![r] = Idle]
Refuse(r) == End(r) /\ UNCHANGED <<parent, placed>>

-----------------------------------------------------------------------------
(* POST /locations                                                         *)

BeginCreate(r, p) == /\ p = Root \/ Row(p)
                     /\ Begin(r, [Idle EXCEPT !.pc = "create", !.to = p])

Create(r, l) == /\ At(r, "create") /\ parent[l] = Free
                /\ req[r].to = Root \/ Row(req[r].to)
                /\ parent' = [parent EXCEPT ![l] = req[r].to]
                /\ End(r) /\ UNCHANGED placed

\* The foreign key refuses a parent that was deleted meanwhile.
CreateFails(r) == /\ At(r, "create") /\ req[r].to # Root /\ ~Row(req[r].to)
                  /\ Refuse(r)

-----------------------------------------------------------------------------
(* PATCH /locations/{id} with a parent_id                                  *)

\* The row and its new parent are loaded, so the walk has its first ancestor.
BeginMove(r, l, p) ==
  /\ Row(l) /\ p # l
  /\ \/ /\ p = Root
        /\ Begin(r, [Idle EXCEPT !.pc = "move", !.loc = l, !.to = p, !.was = parent[l]])
     \/ /\ Row(p)
        /\ Begin(r, [Idle EXCEPT !.pc = "walk", !.loc = l, !.to = p, !.was = parent[l],
                                 !.cursor = parent[p], !.seen = {p}])

\* Mutant: only the new parent itself is looked at.
ClosesLoopHere(r) == req[r].to = req[r].loc
\* Mutant: the walk does not remember where it was.
ClosesLoopAtStart(r) == req[r].cursor = req[r].loc

\* A loop is closed by the row itself, or was there before.
ClosesLoop(r) == req[r].cursor = req[r].loc \/ req[r].cursor \in req[r].seen

\* One turn of _would_cycle.
Visit(q) == [q EXCEPT !.cursor = parent[q.cursor], !.seen = q.seen \cup {q.cursor}]
Walk(r) ==
  /\ At(r, "walk") /\ ~ClosesLoop(r) /\ Row(req[r].cursor)
  /\ req' = [req EXCEPT ![r] = Visit(req[r])]
  /\ UNCHANGED <<parent, placed>>

WalkRefuses(r) == At(r, "walk") /\ ClosesLoop(r) /\ Refuse(r)

\* The walk is over at a root, or at a row that was deleted.
WalkEnds(r) ==
  /\ At(r, "walk") /\ ~ClosesLoop(r) /\ ~Row(req[r].cursor)
  /\ Goto(r, "move") /\ UNCHANGED <<parent, placed>>

\* The update is written only when the loaded row had another parent.
Writes(r) == /\ Row(req[r].loc) /\ req[r].to # req[r].was
             /\ req[r].to = Root \/ Row(req[r].to)

Move(r) == /\ At(r, "move") /\ Writes(r)
           /\ parent' = [parent EXCEPT ![req[r].loc] = req[r].to]
           /\ End(r) /\ UNCHANGED placed

\* Nothing to write, or the row or the parent is gone.
MoveNothing(r) == At(r, "move") /\ ~Writes(r) /\ Refuse(r)

-----------------------------------------------------------------------------
(* DELETE /locations/{id}                                                  *)

\* Mutant: the children are not counted.
ChildlessAlways(l) == TRUE
Childless(l) == \A c \in Locations : parent[c] # l
Holds(l) == \E a \in Assets : <<a, l>> \in placed

BeginDelete(r, l) == /\ Row(l) /\ ~Holds(l)
                     /\ Begin(r, [Idle EXCEPT !.pc = "children", !.loc = l])

CountChildren(r) == /\ At(r, "children") /\ Childless(req[r].loc)
                    /\ Goto(r, "delete") /\ UNCHANGED <<parent, placed>>
HasChildren(r) == At(r, "children") /\ ~Childless(req[r].loc) /\ Refuse(r)

\* What the cascade reaches from l.
Subtree(l) == {x \in Locations : \A S \in SUBSET Locations :
                 (l \in S /\ \A y \in Locations : parent[y] \in S => y \in S) => x \in S}

\* Mutant: without the foreign keys, the rows below stay.
OnlyRow(l) == {l}
Cascade(l) == Subtree(l)

Delete(r) ==
  LET dead == Cascade(req[r].loc) IN
  /\ At(r, "delete") /\ Row(req[r].loc)
  /\ parent' = [l \in Locations |-> IF l \in dead THEN Gone ELSE parent[l]]
  /\ placed' = {p \in placed : p[2] \notin dead}
  /\ End(r)

DeleteNothing(r) == At(r, "delete") /\ ~Row(req[r].loc) /\ Refuse(r)

-----------------------------------------------------------------------------
(* POST and DELETE /assets/{id}/locations                                  *)

BeginAssign(r, a, l) == /\ Row(l) /\ <<a, l>> \notin placed
                        /\ Begin(r, [Idle EXCEPT !.pc = "assign", !.loc = l, !.asset = a])

Assign(r) == /\ At(r, "assign") /\ Row(req[r].loc)
             /\ placed' = placed \cup {<<req[r].asset, req[r].loc>>}
             /\ End(r) /\ UNCHANGED parent

AssignFails(r) == At(r, "assign") /\ ~Row(req[r].loc) /\ Refuse(r)

Unassign(a, l) == /\ Arrives
                  /\ <<a, l>> \in placed
                  /\ placed' = placed \ {<<a, l>>}
                  /\ UNCHANGED <<parent, req>>

-----------------------------------------------------------------------------
Progress(r) == \/ \E l \in Locations : Create(r, l)
               \/ CreateFails(r)
               \/ Walk(r) \/ WalkRefuses(r) \/ WalkEnds(r) \/ Move(r) \/ MoveNothing(r)
               \/ CountChildren(r) \/ HasChildren(r) \/ Delete(r) \/ DeleteNothing(r)
               \/ Assign(r) \/ AssignFails(r)

Start(r) == \/ \E p \in Locations \cup {Root} : BeginCreate(r, p)
            \/ \E l \in Locations, p \in Locations \cup {Root} : BeginMove(r, l, p)
            \/ \E l \in Locations : BeginDelete(r, l)
            \/ \E a \in Assets, l \in Locations : BeginAssign(r, a, l)

\* Only an arrival can make requests overlap.
Advance(r) == Progress(r) /\ UNCHANGED overlapped

Next == \/ \E r \in Requests : Advance(r) \/ Start(r)
        \/ \E a \in Assets, l \in Locations : Unassign(a, l)

Spec == Init /\ [][Next]_vars

-----------------------------------------------------------------------------
(* Properties.                                                             *)

\* Type invariant of the tree, the assignments and the requests.
TypeOK == /\ parent \in [Locations -> Locations \cup {Root, Free, Gone}]
          /\ placed \in SUBSET (Assets \X Locations)
          /\ req \in [Requests -> Request]

\* No loop: every set of rows has one whose parent is not in the set.
Forest == \A S \in SUBSET Locations : S # {} => \E l \in S : parent[l] \notin S

\* No row and no assignment names a location that is gone, however requests
\* overlap.
NoOrphans == /\ \A l \in Locations : parent[l] \in Locations => Row(parent[l])
             /\ \A p \in placed : Row(p[2])

\* Until two requests overlap, the ancestor walk keeps the tree free of loops.
SerialForest == ~overlapped => Forest

\* Until two requests overlap, only a location without assets and children goes.
SerialDeletesEmpty ==
  [][~overlapped' => \A l \in Rows \ Rows' : Childless(l) /\ ~Holds(l)]_vars

\* The cycle check ends, also in a tree that has a loop or changes under it:
\* each of its turns visits a location it had not visited, so it takes at most as
\* many turns as there are locations.
WalkAdvances ==
  [][\A r \in Requests : At(r, "walk") /\ At(r, "walk")' /\ req'[r] # req[r]
        => \E l \in Locations \ req[r].seen : req'[r].seen = req[r].seen \cup {l}]_vars

\* Serial requests: at most one is in flight and what it has read is current.
Alone == \A q, r \in Requests : ~At(q, "idle") /\ ~At(r, "idle") => q = r

\* Every set that holds the new parent and is closed under the parents of all
\* rows but the one that moves, holds the cursor too.
Reaches(r, x) == \A S \in SUBSET Locations :
  (req[r].to \in S /\ \A y \in S \ {req[r].loc} : parent[y] \in S) => x \in S
WalkIsSound == \A r \in Requests :
  /\ At(r, "walk") => Reaches(r, req[r].cursor)
  /\ At(r, "move") => Reaches(r, Root)
Checked == \A r \in Requests :
  /\ At(r, "children") => ~Holds(req[r].loc)
  /\ At(r, "delete") => ~Holds(req[r].loc) /\ Childless(req[r].loc)
  /\ At(r, "assign") => req[r].asset \in Assets

TreeInv == TypeOK /\ NoOrphans /\ Forest /\ Alone /\ WalkIsSound /\ Checked

\* The inductive invariant, until two requests overlap.
SerialInv == overlapped \in BOOLEAN /\ (~overlapped => TreeInv)
=============================================================================
