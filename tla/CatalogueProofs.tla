-------------------------- MODULE CatalogueProofs --------------------------
(* Proofs about Catalogue, for any number of assets, names, keys and        *)
(* requests, when requests do not overlap.                                  *)
EXTENDS Catalogue, TLAPS

USE CatalogueAssumption

LEMMA IdleType == /\ Idle \in Request /\ Idle.pc = "idle"
                  /\ Fresh \in Set
  BY DEF Idle, Request, NoAsset, Fresh, Set

LEMMA InitInv == Init => CatalogueInv
  <1> SUFFICES ASSUME Init PROVE CatalogueInv
    OBVIOUS
  <1>1. \A r \in Requests : At(r, "idle")
    <2> SUFFICES ASSUME NEW q \in Requests PROVE req[q].pc = "idle"
      BY DEF At
    <2>1. req[q] = Idle
      BY DEF Init
    <2> QED BY <2>1, IdleType
  <1>2. TypeOK
    BY IdleType DEF Init, TypeOK
  <1>3. ClaimsMatch
    BY DEF Init, ClaimsMatch, Exists
  <1>4. RedirectedIsMerged /\ RedirectsEnd
    BY DEF Init, RedirectedIsMerged, RedirectsEnd
  <1>5. Alone /\ LoadedIsCurrent /\ CreatesWithStatus
    BY <1>1 DEF Alone, LoadedIsCurrent, CreatesWithStatus, At
  <1> QED BY <1>2, <1>3, <1>4, <1>5 DEF CatalogueInv

\* What request n loaded describes the rows as they are after the step.
Current(n) ==
  /\ n.pc = "create" => n.set.status # None
  /\ n.pc \in {"look", "write"} =>
    /\ n.asset \in Assets /\ row'[n.asset] # NoAsset /\ n.seen = row'[n.asset]
    /\ n.match # 0 => n.match = row'[n.asset].version
    /\ n.set.status # None \/ n.set.name # None
    /\ n.set.status # None => Legal(row'[n.asset].status, n.set.status)
    /\ n.set.into # None => /\ n.set.status = "MERGED" /\ n.set.into # n.asset
                            /\ row'[n.set.into] # NoAsset
                            /\ row'[n.set.into].status # "MERGED"
                            /\ redirect'[n.set.into] = None
    /\ n.pc = "write" =>
         n.old \in Accepted(claims'[n.asset][IF n.set.name # None THEN "name" ELSE "status"])

OnlyOne(r, n) == /\ req' = [req EXCEPT ![r] = n]
                 /\ \A q \in Requests \ {r} : At(q, "idle")
                 /\ Current(n)

LEMMA StepInv ==
  ASSUME CatalogueInv, NEW r \in Requests, NEW n \in Request, OnlyOne(r, n)
  PROVE  Alone' /\ LoadedIsCurrent' /\ CreatesWithStatus' /\ req' \in [Requests -> Request]
  <1>1. req' \in [Requests -> Request]
    BY DEF CatalogueInv, TypeOK, OnlyOne
  <1>2. \A q \in Requests : req'[q] = IF q = r THEN n ELSE req[q]
    BY DEF CatalogueInv, TypeOK, OnlyOne
  <1>3. Alone'
    BY <1>2 DEF Alone, At, OnlyOne
  <1>4. ASSUME NEW q \in Requests, req'[q].pc \in {"look", "write"} PROVE q = r
    BY <1>2, <1>4 DEF OnlyOne, At
  <1>5. LoadedIsCurrent'
    BY <1>2, <1>4 DEF LoadedIsCurrent, OnlyOne, Current, Exists, FirstField, At
  <1>6. CreatesWithStatus'
    BY <1>2 DEF CreatesWithStatus, OnlyOne, Current, At
  <1> QED BY <1>1, <1>3, <1>5, <1>6

LEMMA EndInv ==
  ASSUME CatalogueInv, NEW r \in Requests, End(r), ~At(r, "idle")
  PROVE  Alone' /\ LoadedIsCurrent' /\ CreatesWithStatus' /\ req' \in [Requests -> Request]
  <1>1. OnlyOne(r, Idle)
    BY IdleType DEF OnlyOne, Current, End, CatalogueInv, Alone
  <1> QED BY <1>1, IdleType, StepInv

\* A step that leaves the rows alone.
LEMMA RowsKept ==
  ASSUME CatalogueInv, UNCHANGED rows, Alone', LoadedIsCurrent', CreatesWithStatus',
         req' \in [Requests -> Request]
  PROVE  CatalogueInv'
  <1>1. UNCHANGED <<row, claims, redirect, keys, owner>>
    BY DEF rows
  <1>2. TypeOK'
    BY <1>1 DEF CatalogueInv, TypeOK
  <1>3. ClaimsMatch' /\ RedirectedIsMerged' /\ RedirectsEnd'
    BY <1>1 DEF CatalogueInv, ClaimsMatch, RedirectedIsMerged, RedirectsEnd, Exists
  <1> QED BY <1>2, <1>3 DEF CatalogueInv

LEMMA LoadInv ==
  ASSUME OneAtATime, CatalogueInv, NEW r \in Requests, NEW a \in Assets, NEW match \in Nat,
         NEW set \in Set, Load(r, a, match, set),
         match # 0 => match = row[a].version,
         set.status # None \/ set.name # None,
         set.status # None => Legal(row[a].status, set.status),
         set.into # None => /\ set.status = "MERGED" /\ set.into # a /\ Exists(set.into)
                            /\ row[set.into].status # "MERGED"
  PROVE  CatalogueInv'
  <1> DEFINE n == [Idle EXCEPT !.pc = "look", !.asset = a, !.seen = row[a],
                               !.match = match, !.set = set]
  <1>1. req' = [req EXCEPT ![r] = n] /\ UNCHANGED rows /\ Exists(a)
    BY DEF Load
  <1>2. row[a] \in Row \cup {NoAsset}
    BY DEF CatalogueInv, TypeOK
  <1>3. /\ n.pc = "look" /\ n.asset = a /\ n.seen = row[a] /\ n.match = match /\ n.set = set
        /\ n \in Request
    BY <1>2 DEF Idle, Request
  <1> HIDE DEF n
  <1>4. row' = row /\ redirect' = redirect
    BY <1>1 DEF rows
  <1>5. set.into # None => redirect[set.into] = None
    BY DEF CatalogueInv, RedirectedIsMerged, TypeOK, Set
  <1>6. Current(n)
    BY <1>1, <1>3, <1>4, <1>5 DEF Current, Exists
  <1>7. OnlyOne(r, n)
    BY <1>1, <1>6 DEF OnlyOne, Load, Free
  <1> QED BY <1>1, <1>3, <1>7, StepInv, RowsKept

LEMMA BeginCreateInv ==
  ASSUME OneAtATime, CatalogueInv, NEW r \in Requests, NEW k \in Keys \cup {None},
         NEW s \in Created, NEW m \in Names \cup {None}, BeginCreate(r, k, s, m)
  PROVE  CatalogueInv'
  <1> DEFINE set == [Fresh EXCEPT !.status = s, !.name = m]
             n == [Idle EXCEPT !.pc = "create", !.key = k, !.set = set]
  <1>1. set \in Set /\ set.status = s
    BY DEF Fresh, Set, Statuses
  <1> HIDE DEF set
  <1>2. n \in Request /\ n.pc = "create" /\ n.set = set
    BY <1>1 DEF Idle, Request, NoAsset
  <1>3. s # None
    BY DEF Statuses
  <1>4. req' = [req EXCEPT ![r] = n] /\ UNCHANGED rows
    BY DEF BeginCreate, set
  <1> HIDE DEF n
  <1>5. OnlyOne(r, n)
    BY <1>1, <1>2, <1>3, <1>4 DEF OnlyOne, Current, BeginCreate, Free
  <1> QED BY <1>2, <1>4, <1>5, StepInv, RowsKept

LEMMA CreateInv ==
  ASSUME CatalogueInv, NEW r \in Requests, NEW a \in Assets, Create(r, a)
  PROVE  CatalogueInv'
  <1> DEFINE set == req[r].set
             now == [status |-> set.status, name |-> set.name, version |-> 1]
             id == CHOOSE i \in Ids : TRUE
             made == [f \in Fields |-> IF set[f] = None THEN {} ELSE {[id |-> id, value |-> set[f]]}]
             n == IF req[r].key = None THEN Idle
                  ELSE [Idle EXCEPT !.pc = "register", !.asset = a, !.key = req[r].key]
  <1>1. req[r] \in Request /\ set \in Set /\ set.status # None /\ id \in Ids
    BY DEF CatalogueInv, TypeOK, CreatesWithStatus, Create, Request
  <1>2. /\ row' = [row EXCEPT ![a] = now] /\ claims' = [claims EXCEPT ![a] = made]
        /\ req' = [req EXCEPT ![r] = n] /\ ~Exists(a)
        /\ owner' = [owner EXCEPT ![a] = req[r].key]
        /\ redirect' = redirect /\ keys' = keys
    BY DEF Create, End
  <1>3. n \in Request /\ n.pc \in {"idle", "register"}
    BY <1>1 DEF Idle, Request, NoAsset, Fresh, Set
  <1>4. now \in Row /\ now # NoAsset /\ now.status = set.status /\ now.name = set.name
    BY <1>1 DEF Set, Row, NoAsset
  <1>5. \A f \in Fields : /\ set[f] \in Statuses \cup Names \cup {None} /\ now[f] = set[f]
    BY <1>1, <1>4 DEF Fields, Set
  <1>6. made \in [Fields -> SUBSET Claim]
    BY <1>1, <1>5 DEF Claim
  <1> HIDE DEF now, n, set, id
  <1>7. OnlyOne(r, n)
    BY <1>2, <1>3 DEF OnlyOne, Current, Create, CatalogueInv, Alone, At
  <1>8. Alone' /\ LoadedIsCurrent' /\ CreatesWithStatus' /\ req' \in [Requests -> Request]
    BY <1>3, <1>7, StepInv
  <1>9. row \in [Assets -> Row \cup {NoAsset}] /\ claims \in [Assets -> [Fields -> SUBSET Claim]]
    BY DEF CatalogueInv, TypeOK
  <1>10. TypeOK'
    <2>1. row' \in [Assets -> Row \cup {NoAsset}] /\ claims' \in [Assets -> [Fields -> SUBSET Claim]]
      BY <1>2, <1>4, <1>6, <1>9
    <2>2. req[r].key \in Keys \cup {None}
      BY <1>1 DEF Request
    <2> QED BY <1>2, <1>8, <2>1, <2>2 DEF CatalogueInv, TypeOK
  <1>11. ClaimsMatch'
    <2> SUFFICES ASSUME NEW b \in Assets, NEW f \in Fields
                 PROVE  IF row'[b] # NoAsset /\ row'[b][f] # None
                        THEN \E i \in Ids : claims'[b][f] = {[id |-> i, value |-> row'[b][f]]}
                        ELSE claims'[b][f] = {}
      BY DEF ClaimsMatch, Exists
    <2>1. CASE b = a
      <3>1. row'[a] = now /\ claims'[a][f] = made[f]
        BY <1>2, <1>9
      <3> QED BY <1>1, <1>4, <1>5, <2>1, <3>1
    <2>2. CASE b # a
      BY <1>2, <1>9, <2>2 DEF CatalogueInv, ClaimsMatch, Exists
    <2> QED BY <2>1, <2>2
  <1>12. RedirectedIsMerged'
    BY <1>2, <1>4, <1>9 DEF CatalogueInv, RedirectedIsMerged, Exists
  <1>13. RedirectsEnd'
    BY <1>2 DEF CatalogueInv, RedirectsEnd
  <1> QED BY <1>8, <1>10, <1>11, <1>12, <1>13 DEF CatalogueInv

LEMMA RegisterInv ==
  ASSUME CatalogueInv, NEW r \in Requests, Register(r)
  PROVE  CatalogueInv'
  <1>1. Alone' /\ LoadedIsCurrent' /\ CreatesWithStatus' /\ req' \in [Requests -> Request]
    BY EndInv DEF Register, At
  <1>2. UNCHANGED <<row, claims, redirect, owner>>
    BY DEF Register
  <1>3. keys' \in [Keys -> Assets \cup {None}]
    BY DEF Register, CatalogueInv, TypeOK, Request
  <1>4. TypeOK'
    BY <1>1, <1>2, <1>3 DEF CatalogueInv, TypeOK
  <1>5. ClaimsMatch' /\ RedirectedIsMerged' /\ RedirectsEnd'
    BY <1>2 DEF CatalogueInv, ClaimsMatch, RedirectedIsMerged, RedirectsEnd, Exists
  <1> QED BY <1>1, <1>4, <1>5 DEF CatalogueInv

LEMMA PatchInv ==
  ASSUME OneAtATime, CatalogueInv, NEW r \in Requests, NEW a \in Assets,
         NEW s \in Vocabulary \cup {None}, NEW m \in Names \cup {None}, NEW match \in Nat,
         Patch(r, a, s, m, match)
  PROVE  CatalogueInv'
  <1> DEFINE set == [Fresh EXCEPT !.status = s, !.name = m]
  <1>1. set \in Set /\ set.status = s /\ set.name = m /\ set.into = None
    BY DEF Fresh, Set, Statuses
  <1>2. Load(r, a, match, set)
    BY DEF Patch
  <1> HIDE DEF set
  <1> QED BY <1>1, <1>2, LoadInv DEF Patch, Matches

LEMMA ArchiveInv ==
  ASSUME OneAtATime, CatalogueInv, NEW r \in Requests, NEW a \in Assets, Archive(r, a)
  PROVE  CatalogueInv'
  <1> DEFINE set == [Fresh EXCEPT !.status = "ARCHIVED"]
  <1>1. set \in Set /\ set.status = "ARCHIVED" /\ set.into = None /\ "ARCHIVED" # None
    BY DEF Fresh, Set, Statuses, Vocabulary
  <1>2. Load(r, a, 0, set)
    BY DEF Archive
  <1> HIDE DEF set
  <1> QED BY <1>1, <1>2, LoadInv DEF Archive

LEMMA MergeInv ==
  ASSUME OneAtATime, CatalogueInv, NEW r \in Requests, NEW a \in Assets, NEW w \in Assets,
         Merge(r, a, w)
  PROVE  CatalogueInv'
  <1> DEFINE set == [Fresh EXCEPT !.status = "MERGED", !.into = w]
  <1>1. set \in Set /\ set.status = "MERGED" /\ set.into = w /\ "MERGED" # None
    BY DEF Fresh, Set, Statuses, Vocabulary
  <1>2. Load(r, a, 0, set)
    BY DEF Merge
  <1> HIDE DEF set
  <1> QED BY <1>1, <1>2, LoadInv DEF Merge, Winner

LEMMA LookInv ==
  ASSUME CatalogueInv, NEW r \in Requests, Look(r)
  PROVE  CatalogueInv'
  <1>1. PICK i \in Accepted(claims[req[r].asset][FirstField(r)]) :
          req' = [req EXCEPT ![r] = [@ EXCEPT !.pc = "write", !.old = i]]
    BY Zenon DEF Look
  <1> DEFINE n == [req[r] EXCEPT !.pc = "write", !.old = i]
  <1>2. req[r] \in Request /\ req[r].pc = "look" /\ req[r].asset \in Assets
    BY DEF CatalogueInv, TypeOK, LoadedIsCurrent, Look, At
  <1>3. i \in Ids \cup {NoId}
    BY <1>2 DEF CatalogueInv, TypeOK, Accepted, Claim, FirstField, Fields
  <1>4. /\ n \in Request /\ n.pc = "write" /\ n.old = i /\ n.asset = req[r].asset
        /\ n.seen = req[r].seen /\ n.match = req[r].match /\ n.set = req[r].set
    BY <1>2, <1>3 DEF Request
  <1>5. req' = [req EXCEPT ![r] = n] /\ UNCHANGED rows
    BY <1>1 DEF Look
  <1> HIDE DEF n
  <1>6. row' = row /\ redirect' = redirect /\ claims' = claims
    BY <1>5 DEF rows
  <1>7. n.old \in Accepted(claims'[n.asset][IF n.set.name # None THEN "name" ELSE "status"])
    BY <1>4, <1>6 DEF FirstField
  <1>8. Current(n)
    BY <1>2, <1>4, <1>6, <1>7 DEF Current, CatalogueInv, LoadedIsCurrent, Exists
  <1>9. OnlyOne(r, n)
    BY <1>2, <1>5, <1>8 DEF OnlyOne, CatalogueInv, Alone, At
  <1> QED BY <1>4, <1>5, <1>9, StepInv, RowsKept

LEMMA AbortInv ==
  ASSUME CatalogueInv, NEW r \in Requests, Abort(r)
  PROVE  CatalogueInv'
  BY EndInv, RowsKept DEF Abort

-----------------------------------------------------------------------------
(* The write                                                               *)

\* A field has at most one accepted assertion, so superseding leaves the new one.
LEMMA SupersedeOne ==
  ASSUME CatalogueInv, NEW a \in Assets, NEW f \in Fields, NEW i \in Accepted(claims[a][f]),
         NEW id, NEW v
  PROVE  Supersede(claims[a][f], i, id, v) = {[id |-> id, value |-> v]}
  <1>1. CASE claims[a][f] = {}
    BY <1>1 DEF Supersede
  <1>2. CASE claims[a][f] # {}
    <2>1. PICK x \in Ids : claims[a][f] = {[id |-> x, value |-> row[a][f]]}
      BY <1>2 DEF CatalogueInv, ClaimsMatch
    <2>2. i = x
      BY <2>1 DEF Accepted
    <2> QED BY <2>1, <2>2 DEF Supersede
  <1> QED BY <1>1, <1>2

\* What a loaded request writes, when nothing changed since it loaded.
LEMMA WrittenIs ==
  ASSUME CatalogueInv, NEW r \in Requests, At(r, "write")
  PROVE  LET a == req[r].asset  set == req[r].set IN
         /\ a \in Assets /\ Exists(a) /\ set \in Set /\ row[a] \in Row
         /\ Written(r) \in Row
         /\ \A f \in Fields : Written(r)[f] = IF set[f] # None THEN set[f] ELSE row[a][f]
  <1> DEFINE a == req[r].asset
             set == req[r].set
             now == row[a]
  <1>1. a \in Assets /\ Exists(a) /\ req[r].seen = now
    BY DEF CatalogueInv, LoadedIsCurrent, At
  <1>2. set \in Set /\ now \in Row
    BY <1>1 DEF CatalogueInv, TypeOK, Request, Exists
  <1>3. Written(r) = [status  |-> IF set.status # None THEN set.status ELSE now.status,
                      name    |-> IF set.name # None THEN set.name ELSE now.name,
                      version |-> now.version + 1]
    BY <1>1 DEF Written
  <1> HIDE DEF set, now
  <1>4. Written(r) \in Row
    BY <1>2, <1>3 DEF Row, Set
  <1>5. \A f \in Fields : Written(r)[f] = IF set[f] # None THEN set[f] ELSE now[f]
    BY <1>3 DEF Fields
  <1> QED BY <1>1, <1>2, <1>4, <1>5 DEF set, now

LEMMA WriteInv ==
  ASSUME CatalogueInv, NEW r \in Requests, Write(r)
  PROVE  CatalogueInv'
  <1> DEFINE a == req[r].asset
             set == req[r].set
             now == Written(r)
             id == CHOOSE i \in Ids : New(a, i)
  <1>1. PICK j \in Accepted(claims[a]["status"]) :
          claims' = [claims EXCEPT ![a] =
            [f \in Fields |-> IF set[f] = None THEN claims[a][f]
               ELSE Supersede(claims[a][f], IF f = FirstField(r) THEN req[r].old ELSE j,
                              id, set[f])]]
    BY Zenon DEF Write
  <1>2. /\ At(r, "write") /\ End(r) /\ ~At(r, "idle")
        /\ row' = [row EXCEPT ![a] = now]
        /\ redirect' = IF set.into # None THEN [redirect EXCEPT ![a] = set.into] ELSE redirect
        /\ keys' = keys /\ owner' = owner
        /\ \E i \in Ids : New(a, i)
    BY DEF Write, At
  <1>3. id \in Ids
    BY <1>2
  <1>4. /\ a \in Assets /\ Exists(a) /\ set \in Set /\ row[a] \in Row /\ now \in Row
        /\ \A f \in Fields : now[f] = IF set[f] # None THEN set[f] ELSE row[a][f]
    BY <1>2, WrittenIs
  <1>5. /\ req[r].old \in Accepted(claims[a][FirstField(r)])
        /\ set.status # None => Legal(row[a].status, set.status)
        /\ set.into # None => /\ set.status = "MERGED" /\ set.into # a /\ Exists(set.into)
                              /\ redirect[set.into] = None
    BY <1>2 DEF CatalogueInv, LoadedIsCurrent, At
  <1>6. \A f \in Fields : f # "name" => f = "status"
    BY DEF Fields
  <1>7. \A f \in Fields : set[f] # None /\ f # FirstField(r) => f = "status"
    BY <1>6 DEF FirstField
  <1> HIDE DEF a, set, now, id
  <1>8. row \in [Assets -> Row \cup {NoAsset}] /\ claims \in [Assets -> [Fields -> SUBSET Claim]]
        /\ redirect \in [Assets -> Assets \cup {None}]
    BY DEF CatalogueInv, TypeOK
  <1>9. \A f \in Fields : claims'[a][f] = IF set[f] = None THEN claims[a][f]
                                          ELSE {[id |-> id, value |-> set[f]]}
    <2> SUFFICES ASSUME NEW f \in Fields
                 PROVE  claims'[a][f] = IF set[f] = None THEN claims[a][f]
                                        ELSE {[id |-> id, value |-> set[f]]}
      OBVIOUS
    <2> DEFINE i == IF f = FirstField(r) THEN req[r].old ELSE j
    <2>1. claims'[a][f] = IF set[f] = None THEN claims[a][f]
                          ELSE Supersede(claims[a][f], i, id, set[f])
      BY <1>1, <1>4, <1>8
    <2>2. set[f] # None => i \in Accepted(claims[a][f])
      BY <1>5, <1>7
    <2> HIDE DEF i
    <2>3. set[f] # None => Supersede(claims[a][f], i, id, set[f]) = {[id |-> id, value |-> set[f]]}
      BY <1>4, <2>2, SupersedeOne
    <2> QED BY <2>1, <2>3
  <1>10. \A b \in Assets \ {a} : row'[b] = row[b] /\ claims'[b] = claims[b]
    BY <1>1, <1>2, <1>8
  <1>11. row'[a] = now /\ now # NoAsset
    BY <1>2, <1>4, <1>8 DEF Row, NoAsset
  <1>12. \A f \in Fields : set[f] \in Statuses \cup Names \cup {None}
    BY <1>4 DEF Set, Fields
  <1>13. Alone' /\ LoadedIsCurrent' /\ CreatesWithStatus' /\ req' \in [Requests -> Request]
    BY <1>2, EndInv
  <1>14. TypeOK'
    <2>1. row' \in [Assets -> Row \cup {NoAsset}]
      BY <1>2, <1>4, <1>8
    <2>2. redirect' \in [Assets -> Assets \cup {None}]
      BY <1>2, <1>4, <1>8 DEF Set
    <2>3. ASSUME NEW f \in Fields PROVE claims'[a][f] \in SUBSET Claim
      <3>1. claims[a][f] \in SUBSET Claim
        BY <1>4, <1>8
      <3>2. CASE set[f] = None
        BY <1>9, <3>1, <3>2
      <3>3. CASE set[f] # None
        <4>1. [id |-> id, value |-> set[f]] \in Claim
          BY <1>3, <1>12, <3>3 DEF Claim
        <4> QED BY <1>9, <3>3, <4>1
      <3> QED BY <3>2, <3>3
    <2> DEFINE after == [f \in Fields |-> IF set[f] = None THEN claims[a][f]
               ELSE Supersede(claims[a][f], IF f = FirstField(r) THEN req[r].old ELSE j,
                              id, set[f])]
    <2>4. claims' = [claims EXCEPT ![a] = after]
      BY <1>1
    <2>5. \A f \in Fields : after[f] = claims'[a][f]
      BY <2>4, <1>4, <1>8
    <2>6. after \in [Fields -> SUBSET Claim]
      BY <2>3, <2>5
    <2> HIDE DEF after
    <2>7. claims' \in [Assets -> [Fields -> SUBSET Claim]]
      BY <1>8, <2>4, <2>6
    <2> QED BY <1>2, <1>13, <2>1, <2>2, <2>7 DEF CatalogueInv, TypeOK
  <1>15. ClaimsMatch'
    <2> SUFFICES ASSUME NEW b \in Assets, NEW f \in Fields
                 PROVE  IF row'[b] # NoAsset /\ row'[b][f] # None
                        THEN \E i \in Ids : claims'[b][f] = {[id |-> i, value |-> row'[b][f]]}
                        ELSE claims'[b][f] = {}
      BY DEF ClaimsMatch, Exists
    <2>1. IF row[b] # NoAsset /\ row[b][f] # None
          THEN \E i \in Ids : claims[b][f] = {[id |-> i, value |-> row[b][f]]}
          ELSE claims[b][f] = {}
      BY DEF CatalogueInv, ClaimsMatch, Exists
    <2>2. CASE b # a
      BY <1>10, <2>1, <2>2
    <2>3. CASE b = a /\ set[f] = None
      <3>1. row'[a][f] = row[a][f] /\ claims'[a][f] = claims[a][f] /\ row[a] # NoAsset
        BY <1>4, <1>9, <1>11, <2>3 DEF Exists
      <3> QED BY <1>11, <2>1, <2>3, <3>1
    <2>4. CASE b = a /\ set[f] # None
      <3>1. row'[a][f] = set[f] /\ claims'[a][f] = {[id |-> id, value |-> set[f]]}
        BY <1>4, <1>9, <1>11, <2>4
      <3> QED BY <1>3, <1>11, <2>4, <3>1
    <2> QED BY <2>2, <2>3, <2>4
  <1>16. now.status = IF set.status # None THEN set.status ELSE row[a].status
    BY <1>4 DEF Fields
  <1>17. RedirectedIsMerged'
    <2> SUFFICES ASSUME NEW b \in Assets, redirect'[b] # None
                 PROVE  /\ row'[b] # NoAsset /\ row'[b].status = "MERGED"
                        /\ row'[redirect'[b]] # NoAsset
      BY DEF RedirectedIsMerged, Exists
    <2>1. \A c \in Assets : row[c] # NoAsset => row'[c] # NoAsset
      BY <1>10, <1>11
    <2>2. redirect[b] # None => /\ row[b] # NoAsset /\ row[b].status = "MERGED"
                                /\ row[redirect[b]] # NoAsset /\ redirect[b] \in Assets
      BY <1>8 DEF CatalogueInv, RedirectedIsMerged, Exists
    <2>3. CASE b # a
      <3>1. redirect'[b] = redirect[b]
        BY <1>2, <1>8, <2>3
      <3> QED BY <1>10, <2>1, <2>2, <2>3, <3>1
    <2>4. CASE b = a /\ set.into = None
      <3>1. redirect'[b] = redirect[b] /\ row[a].status = "MERGED"
        BY <1>2, <2>2, <2>4
      <3>2. set.status # None => set.status = "MERGED"
        BY <1>5, <3>1 DEF Legal, NextOf
      <3> QED BY <1>11, <1>16, <2>1, <2>2, <2>4, <3>1, <3>2
    <2>5. CASE b = a /\ set.into # None
      <3>1. redirect'[b] = set.into /\ set.into \in Assets
        BY <1>2, <1>4, <1>8, <2>5 DEF Set
      <3>2. set.status = "MERGED" /\ "MERGED" # None
        BY <1>5, <2>5 DEF Statuses, Vocabulary
      <3> QED BY <1>5, <1>11, <1>16, <2>1, <2>5, <3>1, <3>2 DEF Exists
    <2> QED BY <2>3, <2>4, <2>5
  <1>18. RedirectsEnd'
    <2>1. CASE set.into = None
      BY <1>2, <2>1 DEF CatalogueInv, RedirectsEnd
    <2>2. CASE set.into # None
      <3> SUFFICES ASSUME NEW S \in SUBSET Assets, S # {}
                   PROVE  \E b \in S : redirect'[b] \notin S
        BY DEF RedirectsEnd
      <3>1. PICK b \in S : redirect[b] \notin S
        BY DEF CatalogueInv, RedirectsEnd
      <3>2. redirect' = [redirect EXCEPT ![a] = set.into] /\ set.into \in Assets /\ None \notin S
        BY <1>2, <1>4, <2>2 DEF Set
      <3>3. CASE b # a
        BY <1>8, <3>1, <3>2, <3>3
      <3>4. CASE b = a /\ set.into \notin S
        BY <1>8, <3>2, <3>4
      <3>5. CASE set.into \in S
        <4>1. redirect'[set.into] = None
          BY <1>5, <1>8, <2>2, <3>2
        <4> QED BY <3>2, <3>5, <4>1
      <3> QED BY <3>3, <3>4, <3>5
    <2> QED BY <2>1, <2>2
  <1> QED BY <1>13, <1>14, <1>15, <1>17, <1>18 DEF CatalogueInv

-----------------------------------------------------------------------------
(* Theorems                                                                *)

LEMMA NextInv == OneAtATime /\ CatalogueInv /\ [Next]_vars => CatalogueInv'
  <1> SUFFICES ASSUME OneAtATime, CatalogueInv, [Next]_vars PROVE CatalogueInv'
    OBVIOUS
  <1>1. CASE UNCHANGED vars
    <2>1. UNCHANGED rows /\ req' = req
      BY <1>1 DEF vars, rows
    <2>2. Alone' /\ LoadedIsCurrent' /\ CreatesWithStatus' /\ req' \in [Requests -> Request]
      BY <2>1 DEF rows, CatalogueInv, TypeOK, Alone, LoadedIsCurrent, CreatesWithStatus, At,
                  Exists, FirstField
    <2> QED BY <2>1, <2>2, RowsKept
  <1>2. ASSUME NEW r \in Requests, Progress(r) PROVE CatalogueInv'
    <2>1. CASE Register(r)
      BY <2>1, RegisterInv
    <2>2. CASE Look(r)
      BY <2>2, LookInv
    <2>3. CASE Write(r)
      BY <2>3, WriteInv
    <2>4. CASE \E a \in Assets : Create(r, a)
      BY <2>4, CreateInv
    <2> QED BY <1>2, <2>1, <2>2, <2>3, <2>4 DEF Progress
  <1>3. ASSUME NEW r \in Requests, Start(r) PROVE CatalogueInv'
    <2>1. CASE \E k \in Keys \cup {None}, s \in Created, m \in Names \cup {None} :
                 BeginCreate(r, k, s, m)
      BY <2>1, BeginCreateInv
    <2>2. ASSUME NEW a \in Assets, Archive(r, a) PROVE CatalogueInv'
      BY <2>2, ArchiveInv
    <2>3. ASSUME NEW a \in Assets, NEW w \in Assets, Merge(r, a, w) PROVE CatalogueInv'
      BY <2>3, MergeInv
    <2>4. ASSUME NEW a \in Assets, NEW s \in Vocabulary \cup {None}, NEW m \in Names \cup {None},
                 NEW match \in 0 .. row[a].version, Patch(r, a, s, m, match)
          PROVE  CatalogueInv'
      <3>1. row[a] \in Row
        BY <2>4 DEF Patch, Load, CatalogueInv, TypeOK, Exists
      <3>2. match \in Nat
        BY <3>1 DEF Row
      <3> QED BY <2>4, <3>2, PatchInv
    <2> QED BY <1>3, <2>1, <2>2, <2>3, <2>4 DEF Start
  <1>4. ASSUME NEW r \in Requests, Abort(r) PROVE CatalogueInv'
    BY <1>4, AbortInv
  <1> QED BY <1>1, <1>2, <1>3, <1>4 DEF Next, Advance, Arrive

\* When requests do not overlap the whole catalogue keeps its invariant: what a
\* request loaded is current when it writes, a redirected asset is MERGED.
THEOREM CatalogueInvariant == OneAtATime /\ Spec => []CatalogueInv
  <1> SUFFICES ASSUME OneAtATime PROVE Spec => []CatalogueInv
    OBVIOUS
  <1>1. CatalogueInv /\ [Next]_vars => CatalogueInv'
    BY NextInv
  <1> QED BY <1>1, InitInv, PTL DEF Spec

\* update_asset and merge_asset_redirect, requests not overlapping: every column
\* that has a value has one accepted assertion, which says that value.
THEOREM ClaimsAlwaysMatch == OneAtATime /\ Spec => []ClaimsMatch
  <1>1. CatalogueInv => ClaimsMatch
    BY DEF CatalogueInv
  <1> QED BY <1>1, CatalogueInvariant, PTL

\* merge_asset_redirect, requests not overlapping: following the redirects from
\* any asset ends.
THEOREM RedirectsAlwaysEnd == OneAtATime /\ Spec => []RedirectsEnd
  <1>1. CatalogueInv => RedirectsEnd
    BY DEF CatalogueInv
  <1> QED BY <1>1, CatalogueInvariant, PTL

LEMMA WriteLegal ==
  ASSUME CatalogueInv, NEW r \in Requests, Write(r), NEW b \in Assets,
         row'[b].status # row[b].status
  PROVE  <<row[b].status, row'[b].status>> \in Flow
  <1> DEFINE a == req[r].asset
             t == req[r].set.status
             now == Written(r)
  <1>1. At(r, "write") /\ row' = [row EXCEPT ![a] = now]
    BY DEF Write
  <1>2. a \in Assets /\ row \in [Assets -> Row \cup {NoAsset}]
    BY <1>1, WrittenIs DEF CatalogueInv, TypeOK
  <1>3. now.status = IF t # None THEN t ELSE row[a].status
    BY <1>1, WrittenIs DEF Fields
  <1>4. t # None => Legal(row[a].status, t)
    BY <1>1 DEF CatalogueInv, LoadedIsCurrent, At
  <1> HIDE DEF a, t, now
  <1>5. b = a /\ row'[b].status = t /\ t # None /\ t # row[a].status
    BY <1>1, <1>2, <1>3
  <1> QED BY <1>4, <1>5 DEF Legal, NextOf, Flow

\* patch_asset, delete_asset and merge_asset, requests not overlapping: a status
\* changes only along the edges of the lifecycle.
THEOREM LifecycleAlwaysLegal == OneAtATime /\ Spec => LifecycleLegal
  <1> DEFINE Step == \A a \in Assets :
        Exists(a) /\ row'[a].status # row[a].status => <<row[a].status, row'[a].status>> \in Flow
  <1> SUFFICES ASSUME OneAtATime PROVE Spec => [][Step]_vars
    BY DEF LifecycleLegal
  <1>1. ASSUME CatalogueInv, [Next]_vars, ~ UNCHANGED vars PROVE Step
    <2> SUFFICES ASSUME NEW b \in Assets, Exists(b), row'[b].status # row[b].status
                 PROVE  <<row[b].status, row'[b].status>> \in Flow
      OBVIOUS
    <2>1. row' # row
      OBVIOUS
    <2>2. ASSUME NEW r \in Requests, Progress(r) PROVE <<row[b].status, row'[b].status>> \in Flow
      <3>1. ASSUME NEW a \in Assets, Create(r, a) PROVE FALSE
        BY <3>1, <1>1 DEF Create, CatalogueInv, TypeOK
      <3>2. ~ Register(r) /\ ~ Look(r)
        BY <2>1, Zenon DEF Register, Look, rows
      <3> QED BY <1>1, <2>2, <3>1, <3>2, WriteLegal DEF Progress
    <2>3. ASSUME NEW r \in Requests PROVE ~ Start(r) /\ ~ Abort(r)
      <3>1. ASSUME NEW a, NEW match, NEW set PROVE ~ Load(r, a, match, set)
        BY <2>1, Zenon DEF Load, rows
      <3>2. ASSUME NEW k, NEW s, NEW m PROVE ~ BeginCreate(r, k, s, m)
        BY <2>1, Zenon DEF BeginCreate, rows
      <3>3. ~ Abort(r)
        BY <2>1, Zenon DEF Abort, rows
      <3> QED BY <3>1, <3>2, <3>3, Zenon DEF Start, Archive, Merge, Patch
    <2> QED BY <1>1, <2>2, <2>3 DEF Next, Advance, Arrive
  <1>2. CatalogueInv /\ [Next]_vars => [Step]_vars
    BY <1>1
  <1> QED BY <1>2, CatalogueInvariant, PTL DEF Spec

-----------------------------------------------------------------------------
(* Idempotency keys                                                        *)

\* A step that leaves keys and owners alone and whose request neither creates
\* under a key nor gives up one that it still has to register.
LEMMA KeysStep ==
  ASSUME CatalogueInv, KeysInHand, NEW r \in Requests, NEW n \in Request,
         req' = [req EXCEPT ![r] = n],
         n.pc \in {"create", "register"} /\ n.key # None => keys[n.key] = None,
         ~At(r, "register") \/ req[r].asset \in stray',
         stray \subseteq stray', UNCHANGED <<keys, owner>>
  PROVE  KeysInHand'
  <1>1. \A q \in Requests : req'[q] = IF q = r THEN n ELSE req[q]
    BY DEF CatalogueInv, TypeOK
  <1>2. \A q \in Requests : req'[q].pc \in {"create", "register"} /\ req'[q].key # None
          => keys'[req'[q].key] = None
    BY <1>1 DEF KeysInHand
  <1>3. \A a \in Assets \ stray' : owner'[a] # None =>
          \/ keys'[owner'[a]] = a
          \/ \E q \in Requests : /\ req'[q].pc = "register"
                                /\ req'[q].asset = a /\ req'[q].key = owner'[a]
    <2> SUFFICES ASSUME NEW a \in Assets \ stray', owner[a] # None, keys[owner[a]] # a
                 PROVE  \E q \in Requests : /\ req'[q].pc = "register"
                                          /\ req'[q].asset = a /\ req'[q].key = owner[a]
      OBVIOUS
    <2>1. PICK q \in Requests : At(q, "register") /\ req[q].asset = a /\ req[q].key = owner[a]
      BY DEF KeysInHand
    <2>2. q # r
      BY <2>1
    <2> QED BY <1>1, <2>1, <2>2 DEF At
  <1> QED BY <1>2, <1>3 DEF KeysInHand, At

LEMMA KeysNext == OneAtATime /\ CatalogueInv /\ KeysInHand /\ [Next]_vars => KeysInHand'
  <1> SUFFICES ASSUME OneAtATime, CatalogueInv, KeysInHand, [Next]_vars PROVE KeysInHand'
    OBVIOUS
  <1>t. req \in [Requests -> Request] /\ keys \in [Keys -> Assets \cup {None}]
        /\ owner \in [Assets -> Keys \cup {None}]
    BY DEF CatalogueInv, TypeOK
  <1>1. CASE UNCHANGED vars
    BY <1>1 DEF vars, KeysInHand, At
  <1>2. ASSUME NEW r \in Requests, End(r), ~At(r, "register") \/ req[r].asset \in stray',
               stray \subseteq stray', UNCHANGED <<keys, owner>>
        PROVE  KeysInHand'
    BY <1>2, KeysStep, IdleType DEF End
  <1>3. ASSUME NEW r \in Requests, Abort(r) PROVE KeysInHand'
    BY <1>2, <1>3 DEF Abort, rows
  <1>4. ASSUME NEW r \in Requests, NEW a \in Assets, Create(r, a), UNCHANGED stray PROVE KeysInHand'
    <2>1. /\ owner' = [owner EXCEPT ![a] = req[r].key] /\ keys' = keys
          /\ At(r, "create") /\ \A q \in Requests : q # r => At(q, "idle")
      BY <1>4 DEF Create, CatalogueInv, Alone, At
    <2>2. \A b \in Assets \ stray : b # a /\ owner[b] # None => keys[owner[b]] = b
      BY <2>1 DEF KeysInHand, At
    <2>3. CASE req[r].key = None
      <3>1. req' = [req EXCEPT ![r] = Idle]
        BY <1>4, <2>3 DEF Create, End
      <3>2. \A q \in Requests : req'[q].pc = "idle"
        BY <1>t, <2>1, <3>1, IdleType DEF At
      <3>3. \A b \in Assets \ stray : owner'[b] # None => keys'[owner'[b]] = b
        BY <1>t, <2>1, <2>2, <2>3
      <3> QED BY <1>4, <3>2, <3>3 DEF KeysInHand, At
    <2>4. CASE req[r].key # None
      <3> DEFINE n == [Idle EXCEPT !.pc = "register", !.asset = a, !.key = req[r].key]
      <3>1. req' = [req EXCEPT ![r] = n]
        BY <1>4, <2>4 DEF Create
      <3>2. n.pc = "register" /\ n.asset = a /\ n.key = req[r].key
        BY DEF Idle
      <3> HIDE DEF n
      <3>3. req'[r] = n /\ \A q \in Requests : q # r => req'[q].pc = "idle"
        BY <1>t, <2>1, <3>1 DEF At
      <3>4. keys[req[r].key] = None
        BY <2>1, <2>4 DEF KeysInHand, At
      <3>5. \A q \in Requests : req'[q].pc \in {"create", "register"} /\ req'[q].key # None
              => keys'[req'[q].key] = None
        BY <2>1, <3>2, <3>3, <3>4
      <3>6. \A b \in Assets \ stray' : owner'[b] # None =>
              \/ keys'[owner'[b]] = b
              \/ \E q \in Requests : /\ req'[q].pc = "register"
                                    /\ req'[q].asset = b /\ req'[q].key = owner'[b]
        BY <1>4, <1>t, <2>1, <2>2, <3>2, <3>3
      <3> QED BY <3>5, <3>6 DEF KeysInHand, At
    <2> QED BY <2>3, <2>4
  <1>5. ASSUME NEW r \in Requests, Register(r), UNCHANGED stray PROVE KeysInHand'
    <2> DEFINE k == req[r].key
    <2>1. /\ At(r, "register") /\ owner' = owner /\ req' = [req EXCEPT ![r] = Idle]
          /\ \A q \in Requests : q # r => At(q, "idle")
          /\ keys' = IF keys[k] = None THEN [keys EXCEPT ![k] = req[r].asset] ELSE keys
      BY <1>5 DEF Register, End, CatalogueInv, Alone, At
    <2>2. \A q \in Requests : req'[q].pc = "idle"
      BY <1>t, <2>1, IdleType DEF At
    <2>3. \A a \in Assets \ stray : owner[a] # None =>
            keys[owner[a]] = a \/ (req[r].asset = a /\ k = owner[a])
      BY <2>1 DEF KeysInHand, At
    <2>4. k # None => keys[k] = None
      BY <2>1 DEF KeysInHand, At
    <2> HIDE DEF k
    <2>5. \A a \in Assets \ stray : owner[a] # None => keys'[owner[a]] = a
      BY <1>t, <2>1, <2>3, <2>4, CatalogueAssumption
    <2> QED BY <1>5, <2>1, <2>2, <2>5 DEF KeysInHand, At
  <1>6. ASSUME NEW r \in Requests, Look(r), UNCHANGED stray PROVE KeysInHand'
    <2>1. PICK i \in Accepted(claims[req[r].asset][FirstField(r)]) :
            req' = [req EXCEPT ![r] = [@ EXCEPT !.pc = "write", !.old = i]]
      BY <1>6, Zenon DEF Look
    <2> DEFINE n == [req[r] EXCEPT !.pc = "write", !.old = i]
    <2>2. req[r] \in Request /\ req[r].asset \in Assets /\ At(r, "look")
      BY <1>6 DEF CatalogueInv, TypeOK, LoadedIsCurrent, Look, At
    <2>3. i \in Ids \cup {NoId}
      BY <2>2 DEF CatalogueInv, TypeOK, Accepted, Claim, FirstField, Fields
    <2>4. n \in Request /\ n.pc = "write"
      BY <2>2, <2>3 DEF Request
    <2>5. keys' = keys /\ owner' = owner /\ req' = [req EXCEPT ![r] = n]
      BY <1>6, <2>1 DEF Look, rows
    <2> HIDE DEF n
    <2> QED BY <1>6, <2>2, <2>4, <2>5, KeysStep DEF At
  <1>7. ASSUME NEW r \in Requests, Write(r), UNCHANGED stray PROVE KeysInHand'
    BY <1>2, <1>7 DEF Write, At
  <1>8. ASSUME NEW r \in Requests, Start(r), UNCHANGED stray PROVE KeysInHand'
    <2>0. ASSUME NEW n \in Request, At(r, "idle"), req' = [req EXCEPT ![r] = n], UNCHANGED rows,
                 n.pc \in {"create", "register"} /\ n.key # None => keys[n.key] = None
          PROVE  KeysInHand'
      BY <1>8, <2>0, KeysStep DEF rows, At
    <2>1. ASSUME NEW k \in Keys \cup {None}, NEW s \in Created, NEW m \in Names \cup {None},
                 BeginCreate(r, k, s, m)
          PROVE  KeysInHand'
      <3> DEFINE set == [Fresh EXCEPT !.status = s, !.name = m]
                 n == [Idle EXCEPT !.pc = "create", !.key = k, !.set = set]
      <3>1. set \in Set
        BY DEF Fresh, Set, Statuses
      <3>2. n \in Request /\ n.pc = "create" /\ n.key = k
        BY <3>1, IdleType DEF Idle, Request
      <3>3. req' = [req EXCEPT ![r] = n] /\ UNCHANGED rows /\ At(r, "idle") /\ Unregistered(k)
        BY <2>1 DEF BeginCreate, Free
      <3> HIDE DEF n
      <3> QED BY <2>0, <3>2, <3>3 DEF Unregistered
    <2>2. ASSUME NEW a \in Assets, NEW match \in Nat, NEW set \in Set, Load(r, a, match, set)
          PROVE  KeysInHand'
      <3> DEFINE n == [Idle EXCEPT !.pc = "look", !.asset = a, !.seen = row[a],
                                   !.match = match, !.set = set]
      <3>1. n \in Request /\ n.pc = "look"
        BY IdleType DEF Idle, Request, CatalogueInv, TypeOK
      <3>2. req' = [req EXCEPT ![r] = n] /\ UNCHANGED rows /\ At(r, "idle")
        BY <2>2 DEF Load, Free
      <3> HIDE DEF n
      <3> QED BY <2>0, <3>1, <3>2
    <2>3. ASSUME NEW a \in Assets, Archive(r, a) PROVE KeysInHand'
      <3> DEFINE set == [Fresh EXCEPT !.status = "ARCHIVED"]
      <3>1. set \in Set
        BY DEF Fresh, Set, Statuses, Vocabulary
      <3> QED BY <2>2, <2>3, <3>1 DEF Archive
    <2>4. ASSUME NEW a \in Assets, NEW w \in Assets, Merge(r, a, w) PROVE KeysInHand'
      <3> DEFINE set == [Fresh EXCEPT !.status = "MERGED", !.into = w]
      <3>1. set \in Set
        BY DEF Fresh, Set, Statuses, Vocabulary
      <3> QED BY <2>2, <2>4, <3>1 DEF Merge
    <2>5. ASSUME NEW a \in Assets, NEW s \in Vocabulary \cup {None}, NEW m \in Names \cup {None},
                 NEW match \in 0 .. row[a].version, Patch(r, a, s, m, match)
          PROVE  KeysInHand'
      <3> DEFINE set == [Fresh EXCEPT !.status = s, !.name = m]
      <3>1. set \in Set
        BY DEF Fresh, Set, Statuses
      <3>2. row[a] \in Row
        BY <2>5 DEF Patch, Load, CatalogueInv, TypeOK, Exists
      <3>3. match \in Nat
        BY <3>2 DEF Row
      <3> QED BY <2>2, <2>5, <3>1, <3>3 DEF Patch
    <2> QED BY <1>8, <2>1, <2>3, <2>4, <2>5 DEF Start
  <1>9. ASSUME NEW r \in Requests, Progress(r), UNCHANGED stray PROVE KeysInHand'
    BY <1>4, <1>5, <1>6, <1>7, <1>9 DEF Progress
  <1> QED BY <1>1, <1>3, <1>8, <1>9 DEF Next, Advance, Arrive

\* POST /assets with an idempotency key, requests not overlapping: one key makes
\* one asset, besides those whose request ended before it registered its key.
THEOREM KeyMakesOne == OneAtATime /\ Spec => []OneAssetPerKey
  <1> SUFFICES ASSUME OneAtATime PROVE Spec => []OneAssetPerKey
    OBVIOUS
  <1>1. Init => CatalogueInv /\ KeysInHand
    <2>1. Init => \A q \in Requests : req[q].pc = "idle"
      BY IdleType DEF Init
    <2> QED BY <2>1, InitInv DEF Init, KeysInHand, At
  <1>2. (CatalogueInv /\ KeysInHand) /\ [Next]_vars => (CatalogueInv /\ KeysInHand)'
    BY NextInv, KeysNext
  <1>3. CatalogueInv /\ KeysInHand => OneAssetPerKey
    <2> SUFFICES ASSUME CatalogueInv, KeysInHand, NEW a \in Assets \ stray, NEW b \in Assets \ stray,
                        owner[a] # None, owner[a] = owner[b]
                 PROVE  a = b
      BY DEF OneAssetPerKey
    <2>1. \A r \in Requests : At(r, "register") /\ req[r].key = owner[a] => keys[owner[a]] = None
      BY DEF KeysInHand, At
    <2>2. \A q, r \in Requests : At(q, "register") /\ At(r, "register") => q = r
      BY DEF CatalogueInv, Alone, At
    <2> QED BY <2>1, <2>2, CatalogueAssumption DEF KeysInHand
  <1> QED BY <1>1, <1>2, <1>3, PTL DEF Spec

-----------------------------------------------------------------------------
(* Overlapping requests                                                    *)

\* What the step of a request makes of the rows, whatever it had loaded.
Claimed == /\ NeverUnclaimed
           /\ DOMAIN row = Assets /\ DOMAIN claims = Assets

\* However requests overlap or die, a column that has a value has an accepted
\* assertion (create_asset, upsert_assertion).
THEOREM ColumnsAreClaimed == Spec => []NeverUnclaimed
  <1>1. Init => Claimed
    BY DEF Init, Claimed, NeverUnclaimed, Exists
  <1>2. ASSUME Claimed, [Next]_vars PROVE Claimed'
    <2>1. ASSUME UNCHANGED <<row, claims>> PROVE Claimed'
      BY <2>1, <1>2 DEF Claimed, NeverUnclaimed, Exists
    <2>2. ASSUME NEW r \in Requests, NEW a \in Assets, Create(r, a) PROVE Claimed'
      <3> DEFINE new == req[r].set
      <3>1. /\ row' = [row EXCEPT ![a] = [status |-> new.status, name |-> new.name, version |-> 1]]
            /\ claims' = [claims EXCEPT ![a] =
                 [f \in Fields |-> IF new[f] = None THEN {}
                    ELSE {[id |-> CHOOSE id \in Ids : TRUE, value |-> new[f]]}]]
        BY <2>2 DEF Create
      <3> DEFINE rec == [status |-> new.status, name |-> new.name, version |-> 1]
      <3>a. \A f \in Fields : rec[f] = new[f]
        BY DEF Fields
      <3>b. row'[a] = rec
        BY <1>2, <3>1 DEF Claimed
      <3>c. \A f \in Fields : claims'[a][f] =
              IF new[f] = None THEN {} ELSE {[id |-> CHOOSE id \in Ids : TRUE, value |-> new[f]]}
        BY <1>2, <3>1 DEF Claimed
      <3>2. \A f \in Fields : row'[a][f] = new[f] /\ (new[f] # None => claims'[a][f] # {})
        BY <3>a, <3>b, <3>c
      <3>3. \A b \in Assets : b # a => row'[b] = row[b] /\ claims'[b] = claims[b]
        BY <1>2, <3>1 DEF Claimed
      <3>4. NeverUnclaimed'
        BY <1>2, <3>2, <3>3 DEF Claimed, NeverUnclaimed, Exists
      <3> QED BY <1>2, <3>1, <3>4 DEF Claimed
    <2>3. ASSUME NEW r \in Requests, Write(r) PROVE Claimed'
      <3> DEFINE a == req[r].asset
                 set == req[r].set
      <3>1. row' = [row EXCEPT ![a] = Written(r)]
        BY <2>3 DEF Write
      <3>2. PICK j : claims' = [claims EXCEPT ![a] =
              [f \in Fields |-> IF set[f] = None THEN claims[a][f]
                 ELSE Supersede(claims[a][f], IF f = FirstField(r) THEN req[r].old ELSE j,
                                CHOOSE id \in Ids : New(a, id), set[f])]]
        BY <2>3 DEF Write
      <3>3. \A cs, i, id, v : Supersede(cs, i, id, v) # {}
        BY DEF Supersede
      <3>4. \A f \in Fields : a \in Assets =>
              /\ row'[a][f] = Written(r)[f]
              /\ set[f] # None => claims'[a][f] # {}
              /\ set[f] = None => claims'[a][f] = claims[a][f]
        BY <1>2, <3>1, <3>2, <3>3 DEF Claimed
      <3>5. \A f \in Fields : set[f] = None => Written(r)[f] = row[a][f]
        BY DEF Written, Fields
      <3>6. \A f \in Fields : NoAsset[f] = None
        BY DEF NoAsset, Fields
      <3>7. \A b \in Assets : b # a => row'[b] = row[b] /\ claims'[b] = claims[b]
        BY <1>2, <3>1, <3>2 DEF Claimed
      <3> HIDE DEF a, set
      <3>8. NeverUnclaimed'
        BY <1>2, <3>4, <3>5, <3>6, <3>7 DEF Claimed, NeverUnclaimed, Exists
      <3> QED BY <1>2, <3>1, <3>2, <3>8 DEF Claimed
    <2>4. ASSUME NEW r \in Requests, Start(r) PROVE UNCHANGED <<row, claims>>
      <3> SUFFICES ASSUME ~ UNCHANGED <<row, claims>> PROVE FALSE
        OBVIOUS
      <3>1. ASSUME NEW a, NEW match, NEW set PROVE ~ Load(r, a, match, set)
        BY DEF Load, rows
      <3>2. ASSUME NEW k, NEW s, NEW m PROVE ~ BeginCreate(r, k, s, m)
        BY DEF BeginCreate, rows
      <3>3. ~ Start(r)
        BY <3>1, <3>2, Zenon DEF Start, Archive, Merge, Patch
      <3> QED BY <2>4, <3>3
    <2>5. ASSUME NEW r \in Requests, Register(r) \/ Look(r) \/ Abort(r) PROVE UNCHANGED <<row, claims>>
      BY <2>5, Zenon DEF Register, Look, Abort, rows
    <2>6. ASSUME UNCHANGED vars PROVE UNCHANGED <<row, claims>>
      BY <2>6 DEF vars
    <2> QED BY <1>2, <2>1, <2>2, <2>3, <2>4, <2>5, <2>6 DEF Next, Advance, Arrive, Progress
  <1>3. Claimed => NeverUnclaimed
    BY DEF Claimed
  <1> QED BY <1>1, <1>2, <1>3, PTL DEF Spec
=============================================================================
