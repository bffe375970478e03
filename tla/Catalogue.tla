----------------------------- MODULE Catalogue -----------------------------
(***************************************************************************)
(* The asset endpoints: create with an idempotency key, patch with or      *)
(* without If-Match, archive, merge into a winner.  Each request loads the *)
(* asset, checks, looks up the assertion it supersedes and writes; the     *)
(* endpoints run in the thread pool, so other requests commit in between.  *)
(* The update writes the columns that differ from what was loaded.         *)
(***************************************************************************)
EXTENDS Naturals, FiniteSets

CONSTANTS Assets, Names, Keys, Requests,
          None,
          Created,      \* statuses a create may name (free text in the schema)
          OneAtATime,   \* TRUE: no two requests overlap
          Ids,          \* identifiers of assertions
          NoId,
          MaxVersion    \* bound: versions an asset goes through

Vocabulary == {"DRAFT", "PENDING_REVIEW", "ACTIVE", "ARCHIVED", "DISPOSED", "MERGED"}
Statuses == Vocabulary \cup Created
Fields == {"name", "status"}

ASSUME CatalogueAssumption ==
  /\ None \notin Assets \cup Names \cup Keys \cup Statuses
  /\ NoId \notin Ids /\ Ids # {}
  /\ OneAtATime \in BOOLEAN /\ MaxVersion \in Nat

VARIABLES row,       \* the asset rows
          claims,    \* accepted assertions of each asset and field
          redirect,  \* the accepted merge.merged_into assertion
          keys,      \* asset an idempotency key is registered for
          owner,     \* key an asset was created under
          req,
          stray      \* history: assets whose request ended before it registered their key

vars == <<row, claims, redirect, keys, owner, req, stray>>

NextOf(s) == CASE s = "DRAFT"          -> {"PENDING_REVIEW"}
               [] s = "PENDING_REVIEW" -> {"ACTIVE"}
               [] s = "ACTIVE"         -> {"ARCHIVED", "MERGED"}
               [] s = "ARCHIVED"       -> {"DISPOSED"}
               [] OTHER                -> {}

\* Mutant: the table is not consulted.
AnyStatus(s, t) == t \in Vocabulary
\* validate_transition: a same-status request is a no-op.
Legal(s, t) == t \in Vocabulary /\ (t = s \/ t \in NextOf(s))

NoAsset == [status |-> None, name |-> None, version |-> 0]
Exists(a) == row[a] # NoAsset
\* What a request writes; None leaves a field alone.
Fresh == [status |-> None, name |-> None, into |-> None]
Idle == [pc |-> "idle", asset |-> None, seen |-> NoAsset, match |-> 0, set |-> Fresh,
         old |-> NoId, key |-> None]

At(r, pc) == req[r].pc = pc
End(r) == req' = [req EXCEPT ![r] = Idle]
Goto(r, pc) == req' = [req EXCEPT ![r] = [@ EXCEPT !.pc = pc]]
Free(r) == /\ At(r, "idle")
           /\ OneAtATime => \A q \in Requests : At(q, "idle")
rows == <<row, claims, redirect, keys, owner>>

Init == /\ row = [a \in Assets |-> NoAsset]
        /\ claims = [a \in Assets |-> [f \in Fields |-> {}]]
        /\ redirect = [a \in Assets |-> None]
        /\ keys = [k \in Keys |-> None]
        /\ owner = [a \in Assets |-> None]
        /\ req = [r \in Requests |-> Idle]
        /\ stray = {}

-----------------------------------------------------------------------------
(* POST /assets                                                            *)

\* Mutant: the key is not looked up.
AlwaysNew(k) == TRUE
Unregistered(k) == k # None => keys[k] = None

\* A registered key answers with its asset; an unknown one creates.
BeginCreate(r, k, s, n) ==
  /\ Free(r) /\ Unregistered(k)
  /\ req' = [req EXCEPT ![r] = [Idle EXCEPT !.pc = "create", !.key = k,
                                !.set = [Fresh EXCEPT !.status = s, !.name = n]]]
  /\ UNCHANGED rows

\* create_asset commits the row and an assertion for each supplied field.
Create(r, a) ==
  LET new == req[r].set IN
  /\ At(r, "create") /\ ~Exists(a)
  /\ row' = [row EXCEPT ![a] = [status |-> new.status, name |-> new.name, version |-> 1]]
  /\ claims' = [claims EXCEPT ![a] =
       [f \in Fields |-> IF new[f] = None THEN {}
          ELSE {[id |-> CHOOSE id \in Ids : TRUE, value |-> new[f]]}]]
  /\ owner' = [owner EXCEPT ![a] = req[r].key]
  /\ IF req[r].key = None THEN End(r)
     ELSE req' = [req EXCEPT ![r] = [Idle EXCEPT !.pc = "register", !.asset = a,
                                     !.key = req[r].key]]
  /\ UNCHANGED <<redirect, keys>>

\* The key is registered in a transaction of its own, unless it already is.
Register(r) ==
  /\ At(r, "register")
  /\ keys' = IF keys[req[r].key] = None THEN [keys EXCEPT ![req[r].key] = req[r].asset]
             ELSE keys
  /\ End(r)
  /\ UNCHANGED <<row, claims, redirect, owner>>

-----------------------------------------------------------------------------
(* PATCH, DELETE and merge: load and check                                 *)

Load(r, a, match, set) ==
  /\ Free(r) /\ Exists(a) /\ row[a].version < MaxVersion
  /\ req' = [req EXCEPT ![r] = [Idle EXCEPT !.pc = "look", !.asset = a, !.seen = row[a],
                                            !.match = match, !.set = set]]
  /\ UNCHANGED rows

\* If-Match names a version; 0 stands for a request without it.
Matches(a, match) == match # 0 => row[a].version = match

Patch(r, a, s, n, match) ==
  /\ Matches(a, match)
  /\ s # None \/ n # None
  /\ s # None => Legal(row[a].status, s)
  /\ Load(r, a, match, [Fresh EXCEPT !.status = s, !.name = n])

Archive(r, a) == /\ Legal(row[a].status, "ARCHIVED")
                 /\ Load(r, a, 0, [Fresh EXCEPT !.status = "ARCHIVED"])

\* Mutant: the winner may itself be merged.
AnyWinner(a, w) == Exists(w) /\ w # a
Winner(a, w) == Exists(w) /\ w # a /\ row[w].status # "MERGED"

Merge(r, a, w) ==
  /\ Winner(a, w)
  /\ row[a].status # "MERGED" /\ Legal(row[a].status, "MERGED")
  /\ Load(r, a, 0, [Fresh EXCEPT !.status = "MERGED", !.into = w])

-----------------------------------------------------------------------------
(* Look up, supersede and write                                            *)

FirstField(r) == IF req[r].set.name # None THEN "name" ELSE "status"

\* Mutant: the lookup finds nothing to supersede.
NoAccepted(cs) == {NoId}
\* What upsert_assertion may find in the accepted assertions cs, NoId for none.
Accepted(cs) == IF cs = {} THEN {NoId} ELSE {c.id : c \in cs}

\* The first assertion to supersede is looked up before the transaction writes.
Look(r) ==
  /\ At(r, "look")
  /\ \E i \in Accepted(claims[req[r].asset][FirstField(r)]) :
       req' = [req EXCEPT ![r] = [@ EXCEPT !.pc = "write", !.old = i]]
  /\ UNCHANGED rows

Supersede(set, i, id, v) == {c \in set : c.id # i} \cup {[id |-> id, value |-> v]}

\* An identifier no assertion of the asset has, accepted or held by a request.
New(a, id) == /\ \A f \in Fields : \A c \in claims[a][f] : c.id # id
              /\ \A q \in Requests : req[q].old # id

\* The loaded columns that the request changed, over the row as it is now.
Written(r) ==
  LET now == row[req[r].asset]  was == req[r].seen  set == req[r].set IN
  [status  |-> IF set.status # None /\ set.status # was.status THEN set.status ELSE now.status,
   name    |-> IF set.name # None /\ set.name # was.name THEN set.name ELSE now.name,
   version |-> was.version + 1]

\* One transaction: the columns, the assertions, the redirect.  Every lookup
\* after the first runs under the write lock.
Write(r) ==
  LET a == req[r].asset  set == req[r].set  first == FirstField(r) IN
  /\ At(r, "write")
  /\ row' = [row EXCEPT ![a] = Written(r)]
  /\ \E id \in Ids : New(a, id)
  /\ \E j \in Accepted(claims[a]["status"]) :
       claims' = [claims EXCEPT ![a] =
         [f \in Fields |-> IF set[f] = None THEN claims[a][f]
            ELSE Supersede(claims[a][f], IF f = first THEN req[r].old ELSE j,
                           CHOOSE id \in Ids : New(a, id), set[f])]]
  /\ redirect' = IF set.into # None THEN [redirect EXCEPT ![a] = set.into] ELSE redirect
  /\ End(r)
  /\ UNCHANGED <<keys, owner>>

\* The database stays locked past its timeout, or the process dies.
Abort(r) == /\ ~At(r, "idle")
            /\ stray' = IF At(r, "register") THEN stray \cup {req[r].asset} ELSE stray
            /\ End(r) /\ UNCHANGED rows

-----------------------------------------------------------------------------
Progress(r) == Register(r) \/ Look(r) \/ Write(r) \/ \E a \in Assets : Create(r, a)

Start(r) == \/ \E k \in Keys \cup {None}, s \in Created, n \in Names \cup {None} :
                 BeginCreate(r, k, s, n)
            \/ \E a \in Assets :
                 \/ Archive(r, a)
                 \/ \E w \in Assets : Merge(r, a, w)
                 \/ \E s \in Vocabulary \cup {None}, n \in Names \cup {None},
                       match \in 0 .. row[a].version : Patch(r, a, s, n, match)

Advance(r) == Progress(r) /\ UNCHANGED stray
Arrive(r) == Start(r) /\ UNCHANGED stray

Next == \E r \in Requests : Advance(r) \/ Arrive(r) \/ Abort(r)

Spec == Init /\ [][Next]_vars

-----------------------------------------------------------------------------
(* Properties.                                                             *)

Row == [status : Statuses, name : Names \cup {None}, version : Nat \ {0}]
Set == [status : Statuses \cup {None}, name : Names \cup {None}, into : Assets \cup {None}]
Request == [pc : {"idle", "create", "register", "look", "write"}, asset : Assets \cup {None},
            seen : Row \cup {NoAsset}, match : Nat, set : Set,
            old : Ids \cup {NoId}, key : Keys \cup {None}]
Claim == [id : Ids, value : Statuses \cup Names]

TypeOK == /\ row \in [Assets -> Row \cup {NoAsset}]
          /\ claims \in [Assets -> [Fields -> SUBSET Claim]]
          /\ redirect \in [Assets -> Assets \cup {None}]
          /\ keys \in [Keys -> Assets \cup {None}]
          /\ owner \in [Assets -> Keys \cup {None}]
          /\ req \in [Requests -> Request]

\* A field that has a value has one accepted assertion, which says that value:
\* the history behind a column and the column never disagree.
ClaimsMatch == \A a \in Assets, f \in Fields :
  IF Exists(a) /\ row[a][f] # None
  THEN \E id \in Ids : claims[a][f] = {[id |-> id, value |-> row[a][f]]}
  ELSE claims[a][f] = {}

\* A field that has a value has an accepted assertion, possibly several when
\* requests overlap.
NeverUnclaimed == \A a \in Assets, f \in Fields :
  Exists(a) /\ row[a][f] # None => claims[a][f] # {}

\* Following redirects always ends: every set of assets has one that is not
\* redirected into the set.
RedirectsEnd == \A S \in SUBSET Assets : S # {} => \E a \in S : redirect[a] \notin S

\* A redirected asset is MERGED, and its winner was a row.
RedirectedIsMerged == \A a \in Assets :
  redirect[a] # None => Exists(a) /\ row[a].status = "MERGED" /\ Exists(redirect[a])

\* The blueprint's flow: no asset leaves it, whoever writes the status.
Flow == {<<"DRAFT", "PENDING_REVIEW">>, <<"PENDING_REVIEW", "ACTIVE">>, <<"ACTIVE", "ARCHIVED">>,
         <<"ARCHIVED", "DISPOSED">>, <<"ACTIVE", "MERGED">>}
LifecycleLegal == [][\A a \in Assets :
  Exists(a) /\ row'[a].status # row[a].status => <<row[a].status, row'[a].status>> \in Flow]_vars

\* If-Match "prevents lost updates for two users": a patch that names a version
\* never overwrites a column that another request changed since that version.
NoLostUpdate ==
  [][\A r \in Requests : At(r, "write") /\ req[r].match # 0 /\ Write(r) =>
       LET a == req[r].asset IN
       \A f \in Fields : row[a][f] # req[r].seen[f] => row'[a][f] = row[a][f]]_vars

\* One idempotency key makes one asset, besides those whose request ended
\* between the commit of the asset and the commit of its key.
OneAssetPerKey == \A a, b \in Assets \ stray : owner[a] # None /\ owner[a] = owner[b] => a = b

\* Requests that do not overlap: at most one is in flight, what it loaded is
\* current and what it checked still holds.
Alone == \A q, r \in Requests : ~At(q, "idle") /\ ~At(r, "idle") => q = r
LoadedIsCurrent == \A r \in Requests : req[r].pc \in {"look", "write"} =>
  LET a == req[r].asset  set == req[r].set IN
  /\ a \in Assets /\ Exists(a) /\ req[r].seen = row[a]
  /\ req[r].match # 0 => req[r].match = row[a].version
  /\ set.status # None \/ set.name # None
  /\ set.status # None => Legal(row[a].status, set.status)
  /\ set.into # None => /\ set.status = "MERGED" /\ set.into # a /\ Exists(set.into)
                        /\ row[set.into].status # "MERGED" /\ redirect[set.into] = None
  /\ At(r, "write") => req[r].old \in Accepted(claims[a][FirstField(r)])

CreatesWithStatus == \A r \in Requests : At(r, "create") => req[r].set.status # None

\* A key that has no registered asset yet is in the hands of the one request that
\* creates under it.
KeysInHand == /\ \A r \in Requests : req[r].pc \in {"create", "register"} /\ req[r].key # None
                   => keys[req[r].key] = None
              /\ \A a \in Assets \ stray : owner[a] # None =>
                   \/ keys[owner[a]] = a
                   \/ \E r \in Requests : /\ At(r, "register")
                                         /\ req[r].asset = a /\ req[r].key = owner[a]

\* The inductive invariant of requests that do not overlap.
CatalogueInv == /\ TypeOK /\ Alone /\ LoadedIsCurrent /\ CreatesWithStatus
                /\ ClaimsMatch /\ RedirectedIsMerged /\ RedirectsEnd
=============================================================================
