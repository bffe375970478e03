------------------------ MODULE EvidenceStoreProofs ------------------------
(* Proofs about EvidenceStore, for any sets of requests, contents and       *)
(* households and any number of server processes.                           *)
EXTENDS EvidenceStore, TLAPS

LEMMA FreeType == Free \in Upload /\ Free.pc = "idle"
  BY DEF Free, Upload, Pc

LEMMA InitInv == Init => StoreInv
  <1> SUFFICES ASSUME Init PROVE StoreInv
    OBVIOUS
  <1>1. \A u \in Uploads : up[u].pc = "idle"
    <2> SUFFICES ASSUME NEW v \in Uploads PROVE up[v].pc = "idle"
      OBVIOUS
    <2>1. up[v] = Free
      BY DEF Init
    <2> QED BY <2>1, FreeType
  <1>2. TypeOK
    BY FreeType DEF Init, TypeOK, Stored
  <1>3. RowServed /\ TextsAreFiles
    BY DEF Init, RowServed, RowHasItsFile, TextsAreFiles, Stored
  <1>4. NamesSound
    BY <1>1 DEF Init, NamesSound, Stored, At
  <1> QED BY <1>1, <1>2, <1>3, <1>4 DEF StoreInv, OneStores, PlacedIsThere, Storing, At

StoringPc == {"checked", "writing", "placed"}

\* The upload u becomes r and no row, no transcript and no file goes.  If r
\* stores without a race, it is the only one of its content, which has no row; an
\* original that r has placed is on disk.
Moves(u, r) ==
  /\ up' = [up EXCEPT ![u] = r]
  /\ row' = row /\ text' = text /\ files \subseteq files' /\ mishaps \subseteq mishaps'
  /\ r.pc # "idle" => r.path \in Originals
  /\ r.pc \in StoringPc /\ "race" \notin mishaps' =>
       /\ \A v \in Uploads \ {u} : Storing(v) => up[v].path.digest # r.path.digest
       /\ ~Stored(r.path.digest)
  /\ r.pc = "placed" => r.path \in files'

LEMMA MovesInv ==
  ASSUME StoreInv, NEW u \in Uploads, NEW r \in Upload, Moves(u, r), TypeOK'
  PROVE  StoreInv'
  <1>1. \A v \in Uploads : up'[v] = IF v = u THEN r ELSE up[v]
    BY DEF StoreInv, TypeOK, Moves
  <1>2. \A d : Stored(d)' <=> Stored(d)
    BY DEF Moves, Stored
  <1>3. Survivable' => Survivable
    BY DEF Moves, Survivable
  <1>4. NamesSound'
    BY <1>1, <1>2 DEF StoreInv, NamesSound, Moves, At
  <1>5. OneStores'
    <2> SUFFICES ASSUME "race" \notin mishaps' PROVE
          /\ \A x, y \in Uploads : Storing(x)' /\ Storing(y)' /\ (up[x].path.digest = up[y].path.digest)' => x = y
          /\ \A x \in Uploads : Storing(x)' => ~Stored(up[x].path.digest)'
      BY DEF OneStores
    <2>1. "race" \notin mishaps
      BY DEF Moves
    <2>2. \A x \in Uploads : Storing(x)' <=> IF x = u THEN r.pc \in StoringPc ELSE Storing(x)
      BY <1>1 DEF Storing, StoringPc
    <2>3. \A x, y \in Uploads : Storing(x)' /\ Storing(y)' /\ (up[x].path.digest = up[y].path.digest)' => x = y
      BY <1>1, <2>1, <2>2 DEF StoreInv, OneStores, Moves
    <2>4. \A x \in Uploads : Storing(x)' => ~Stored(up[x].path.digest)'
      BY <1>1, <1>2, <2>1, <2>2 DEF StoreInv, OneStores, Moves, Stored
    <2> QED BY <2>3, <2>4
  <1>6. PlacedIsThere'
    BY <1>1, <1>3 DEF StoreInv, PlacedIsThere, Moves, At, Stored
  <1>7. TextsAreFiles' /\ RowServed'
    BY <1>3 DEF StoreInv, TextsAreFiles, RowServed, RowHasItsFile, Moves, Stored
  <1> QED BY <1>4, <1>5, <1>6, <1>7 DEF StoreInv

\* The upload u stops storing and becomes r.  Rows are added for its own
\* content only; of the files at most its own goes, and while the mishaps are
\* survivable that one is nobody's and about to be nobody's.
Settles(u, r) ==
  LET p == up[u].path IN
  /\ up' = [up EXCEPT ![u] = r]
  /\ text' = text /\ mishaps \subseteq mishaps'
  /\ r.pc \in {"idle", "register"} /\ (r.pc = "register" => r.path = p)
  /\ \A d \in Digests \cup Texts : row'[d] = row[d] \/ (d = p.digest /\ row'[d] = p)
  /\ \A d \in Digests \cup Texts : Stored(d) => row'[d] = row[d]
  /\ row' # row => p.home # Unknown /\ (Survivable => p \in files')
  /\ files \ {p} \subseteq files'
  /\ Survivable' /\ p \notin files' =>
       /\ \A d \in Digests \cup Texts : Stored(d) => row[d] # p
       /\ \A v \in Uploads \ {u} : At(v, "placed") /\ up[v].path = p =>
             p.home = Unknown \/ Stored(p.digest)

LEMMA SettlesInv ==
  ASSUME StoreInv, NEW u \in Uploads, NEW r \in Upload, Settles(u, r),
         ~At(u, "idle"), Storing(u), TypeOK'
  PROVE  StoreInv'
  <1> DEFINE p == up[u].path
  <1>1. \A v \in Uploads : up'[v] = IF v = u THEN r ELSE up[v]
    BY DEF StoreInv, TypeOK, Settles
  <1>p. /\ p \in Originals /\ p.digest \in Digests
    BY DEF StoreInv, NamesSound, Originals
  <1>2. \A d \in Digests \cup Texts : Stored(d) => Stored(d)' /\ row'[d] = row[d]
    BY DEF Settles, Stored
  <1>3. Survivable' => Survivable
    BY DEF Settles, Survivable
  <1>4. NamesSound'
    <2>1. \A v \in Uploads : ~At(v, "idle")' => up'[v].path \in Originals
      BY <1>1, <1>p DEF StoreInv, NamesSound, Settles, At
    <2>2. \A d \in Digests \cup Texts : Stored(d)' => row'[d].home # Unknown
      BY DEF StoreInv, NamesSound, Settles, Stored
    <2>3. \A q \in text' : q.home # Unknown
      BY DEF StoreInv, NamesSound, Settles
    <2> QED BY <2>1, <2>2, <2>3 DEF NamesSound
  <1>5. OneStores'
    <2> SUFFICES ASSUME "race" \notin mishaps'
                 PROVE  /\ \A x, y \in Uploads :
                             Storing(x)' /\ Storing(y)' /\ (up[x].path.digest = up[y].path.digest)' => x = y
                        /\ \A x \in Uploads : Storing(x)' => ~Stored(up[x].path.digest)'
      BY DEF OneStores
    <2>1. "race" \notin mishaps
      BY DEF Settles
    <2>2. \A x \in Uploads : Storing(x)' => x # u /\ up'[x] = up[x] /\ Storing(x)
      BY <1>1 DEF Storing, Settles
    <2>3. \A x, y \in Uploads : Storing(x)' /\ Storing(y)' /\ (up[x].path.digest = up[y].path.digest)' => x = y
      BY <2>1, <2>2 DEF StoreInv, OneStores
    <2>4. ASSUME NEW x \in Uploads, Storing(x)' PROVE ~Stored(up[x].path.digest)'
      <3>1. up'[x] = up[x] /\ x # u /\ Storing(x)  BY <2>2, <2>4
      <3>2. up[x].path.digest # p.digest /\ ~Stored(up[x].path.digest)
        BY <2>1, <3>1 DEF StoreInv, OneStores
      <3>3. up[x].path.digest \in Digests
        BY <3>1 DEF StoreInv, NamesSound, At, Storing, Originals
      <3>4. row'[up[x].path.digest] = row[up[x].path.digest]
        BY <3>2, <3>3 DEF Settles
      <3> QED BY <3>1, <3>2, <3>4 DEF Stored
    <2> QED BY <2>3, <2>4
  <1>6. PlacedIsThere'
    <2> SUFFICES ASSUME Survivable', NEW v \in Uploads, At(v, "placed")',
                        ~Stored(up[v].path.digest)', up'[v].path.home # Unknown
                 PROVE  up'[v].path \in files'
      BY DEF PlacedIsThere
    <2>1. v # u /\ up'[v] = up[v] /\ At(v, "placed")
      BY <1>1 DEF At, Settles
    <2>2. up[v].path \in Originals /\ up[v].path.digest \in Digests
      BY <2>1 DEF StoreInv, NamesSound, At, Originals
    <2>3. ~Stored(up[v].path.digest)
      BY <1>2, <2>1, <2>2 DEF Stored
    <2>4. up[v].path \in files
      BY <1>3, <2>1, <2>3 DEF StoreInv, PlacedIsThere
    <2>5. up[v].path = p => p \in files'
      BY <2>1, <2>3 DEF Settles
    <2> QED BY <2>1, <2>4, <2>5 DEF Settles
  <1>7. TextsAreFiles'
    <2>1. p \notin text
      BY <1>p, StoreAssumption DEF StoreInv, TypeOK
    <2> QED BY <2>1 DEF StoreInv, TextsAreFiles, Settles
  <1>8. RowServed'
    <2> SUFFICES ASSUME Survivable', NEW d \in Digests \cup Texts, Stored(d)'
                 PROVE  row'[d] \in files'
      BY DEF RowServed, RowHasItsFile
    <2>1. CASE row'[d] = row[d]
      <3>1. Stored(d) /\ row[d] \in files
        BY <1>3, <2>1 DEF StoreInv, RowServed, RowHasItsFile, Stored
      <3> QED BY <2>1, <3>1 DEF Settles
    <2>2. CASE row'[d] # row[d]
      BY <1>3, <2>2 DEF Settles
    <2> QED BY <2>1, <2>2
  <1> QED BY <1>4, <1>5, <1>6, <1>7, <1>8 DEF StoreInv

LEMMA GotoType ==
  ASSUME TypeOK, NEW u \in Uploads, NEW pc \in Pc, Goto(u, pc)
  PROVE  \E r \in Upload : /\ up' = [up EXCEPT ![u] = r]
                           /\ r.pc = pc /\ r.path = up[u].path /\ r.key = up[u].key
  <1> DEFINE r == [up[u] EXCEPT !.pc = pc]
  <1>1. up[u] \in Upload
    BY DEF TypeOK
  <1>2. r \in Upload /\ r.pc = pc /\ r.path = up[u].path /\ r.key = up[u].key
    BY <1>1 DEF Upload
  <1>3. up' = [up EXCEPT ![u] = r]
    BY DEF Goto
  <1> QED BY <1>2, <1>3

\* What removal does to the disk: at most the named files go, and a row's own
\* file stays when the row is the one to keep.
LEMMA RemoveFacts ==
  ASSUME NEW p, NEW keep, NEW stuck, Remove(p, keep, stuck)
  PROVE  /\ files \ {p} \subseteq files' /\ files' \subseteq files
         /\ thumbs' \subseteq thumbs
         /\ keep = p => files' = files
  BY DEF Remove

LEMMA UploadStepInv ==
  ASSUME StoreInv, NEW u \in Uploads, UploadStep(u)
  PROVE  StoreInv'
  <1>t. TypeOK
    BY DEF StoreInv
  <1>e. ASSUME End(u) PROVE up' = [up EXCEPT ![u] = Free]
    BY <1>e DEF End
  <1>f. Free \in Upload /\ Free.pc \notin StoringPc
    BY FreeType DEF StoringPc
  <1>p. ~At(u, "idle") => /\ up[u].path \in Originals /\ up[u].path \in Paths
                          /\ up[u].path.digest \in Digests
    BY DEF StoreInv, NamesSound, Originals, Paths
  <1>1. ASSUME NEW p \in Originals, NEW k \in Keys \cup {None}, Arrive(u, p, k)
        PROVE  StoreInv'
    <2> DEFINE r == [pc |-> "reading", path |-> p, key |-> k]
    <2>1. r \in Upload /\ r.pc = "reading" /\ r.path \in Originals
      BY DEF Upload, Pc, Paths, Originals
    <2>2. up' = [up EXCEPT ![u] = r]
      BY <1>1 DEF Arrive
    <2> HIDE DEF r
    <2>3. TypeOK'
      BY <1>t, <1>1, <2>1, <2>2 DEF Arrive, TypeOK, Stored
    <2>4. Moves(u, r)
      BY <1>1, <2>1, <2>2 DEF Arrive, Moves, StoringPc
    <2> QED BY <2>1, <2>3, <2>4, MovesInv
  <1>2. ASSUME Check(u) PROVE StoreInv'
    <2>1. /\ up[u].pc = "reading" /\ mishaps \subseteq mishaps'
          /\ mishaps' \subseteq mishaps \cup {"race"}
          /\ "race" \notin mishaps' =>
               \A v \in Uploads : Storing(v) => up[v].path.digest # up[u].path.digest
          /\ UNCHANGED <<row, files, tmps, thumbs, keys, text>>
      BY <1>2 DEF Check, At
    <2>2. PICK pc \in {"register", "checked"} :
            Goto(u, pc) /\ (pc = "checked" => ~Stored(up[u].path.digest))
      BY <1>2 DEF Check, Known
    <2>3. pc \in Pc
      BY DEF Pc
    <2>4. PICK r \in Upload : /\ up' = [up EXCEPT ![u] = r]
                              /\ r.pc = pc /\ r.path = up[u].path
      BY <1>t, <2>2, <2>3, GotoType
    <2>5. Moves(u, r)
      BY <1>p, <2>1, <2>2, <2>4 DEF Moves, At, StoringPc
    <2>6. TypeOK'
      BY <1>t, <2>1, <2>4 DEF TypeOK, Stored
    <2> QED BY <2>5, <2>6, MovesInv
  <1>s. Storing(u) /\ "race" \notin mishaps =>
          /\ \A v \in Uploads \ {u} : Storing(v) => up[v].path.digest # up[u].path.digest
          /\ ~Stored(up[u].path.digest)
    BY DEF StoreInv, OneStores
  <1>3. ASSUME Refuse(u) \/ PlaceFails(u) \/ Crash(u) PROVE StoreInv'
    <2>1. /\ End(u) /\ UNCHANGED <<row, files, tmps, thumbs, keys, text>>
          /\ mishaps \subseteq mishaps' /\ mishaps' \subseteq mishaps \cup {"crash"}
      BY <1>3 DEF Refuse, PlaceFails, Crash
    <2>2. Moves(u, Free)
      BY <1>e, <1>f, <2>1, FreeType DEF Moves
    <2>3. TypeOK'
      BY <1>t, <1>e, <1>f, <2>1 DEF TypeOK, Stored
    <2> QED BY <1>f, <2>2, <2>3, MovesInv
  <1>4. ASSUME WriteTmp(u) PROVE StoreInv'
    <2>1. Goto(u, "writing") /\ "writing" \in Pc /\ Storing(u) /\ ~At(u, "idle")
      BY <1>4 DEF WriteTmp, Pc, Storing, At
    <2>2. PICK r \in Upload : /\ up' = [up EXCEPT ![u] = r]
                              /\ r.pc = "writing" /\ r.path = up[u].path
      BY <1>t, <2>1, GotoType
    <2>3. Moves(u, r)
      BY <1>4, <1>p, <1>s, <2>1, <2>2 DEF WriteTmp, Moves
    <2>4. TypeOK'
      BY <1>4, <1>t, <1>p, <2>1, <2>2 DEF WriteTmp, TypeOK, Stored
    <2> QED BY <2>3, <2>4, MovesInv
  <1>5. ASSUME NEW drawn \in BOOLEAN, Place(u, drawn) PROVE StoreInv'
    <2>1. Goto(u, "placed") /\ "placed" \in Pc /\ Storing(u) /\ ~At(u, "idle")
      BY <1>5 DEF Place, Pc, Storing, At
    <2>2. PICK r \in Upload : /\ up' = [up EXCEPT ![u] = r]
                              /\ r.pc = "placed" /\ r.path = up[u].path
      BY <1>t, <2>1, GotoType
    <2>3. Moves(u, r)
      BY <1>5, <1>p, <1>s, <2>1, <2>2 DEF Place, Moves
    <2>4. Thumb(up[u].path) \in [home : Households, digest : Digests \cup Texts]
      BY <1>p, <2>1 DEF Thumb, Originals
    <2>5. thumbs' \in SUBSET [home : Households, digest : Digests \cup Texts]
      BY <1>5, <1>t, <2>4 DEF Place, TypeOK
    <2>6. TypeOK'
      BY <1>5, <1>t, <1>p, <2>1, <2>2, <2>5 DEF Place, TypeOK, Stored
    <2> QED BY <2>3, <2>6, MovesInv
  <1>6. ASSUME InsertRow(u) PROVE StoreInv'
    <2> DEFINE p == up[u].path
    <2>1. /\ Goto(u, "register") /\ "register" \in Pc /\ Storing(u) /\ ~At(u, "idle")
          /\ row' = [row EXCEPT ![p.digest] = p] /\ ~Stored(p.digest) /\ p.home # Unknown
          /\ Survivable => p \in files
          /\ UNCHANGED <<files, tmps, thumbs, keys, text, mishaps>>
      BY <1>6 DEF InsertRow, Pc, Storing, At, StoreInv, PlacedIsThere
    <2>2. PICK r \in Upload : /\ up' = [up EXCEPT ![u] = r]
                              /\ r.pc = "register" /\ r.path = p
      BY <1>t, <2>1, GotoType
    <2>3. \A d \in Digests \cup Texts : row'[d] = IF d = p.digest THEN p ELSE row[d]
      BY <1>t, <1>p, <2>1 DEF TypeOK
    <2>4. Survivable' => Survivable
      BY <2>1 DEF Survivable
    <2>5. Settles(u, r)
      BY <1>p, <2>1, <2>2, <2>3, <2>4 DEF Settles, Stored
    <2>6. TypeOK'
      BY <1>t, <1>p, <2>1, <2>2, <2>3 DEF TypeOK, Stored
    <2> QED BY <2>1, <2>5, <2>6, SettlesInv
  <1>7. ASSUME NEW stuck \in SUBSET Artifacts, LoseRace(u, stuck) PROVE StoreInv'
    <2> DEFINE p == up[u].path
    <2>1. /\ Goto(u, "register") /\ "register" \in Pc /\ Storing(u) /\ ~At(u, "idle")
          /\ Stored(p.digest) /\ Remove(p, row[p.digest], stuck)
          /\ mishaps \subseteq mishaps' /\ mishaps' \subseteq mishaps \cup {"unlink"}
          /\ UNCHANGED <<row, tmps, keys, text>>
      BY <1>7 DEF LoseRace, Pc, Storing, At, Unremoved
    <2>2. PICK r \in Upload : /\ up' = [up EXCEPT ![u] = r]
                              /\ r.pc = "register" /\ r.path = p
      BY <1>t, <2>1, GotoType
    <2>3. /\ files \ {p} \subseteq files' /\ files' \subseteq files /\ thumbs' \subseteq thumbs
          /\ row[p.digest] = p => files' = files
      BY <2>1, RemoveFacts
    <2>4. Survivable' /\ p \notin files' => row[p.digest] # p
      BY <1>p, <2>1, <2>3 DEF StoreInv, RowServed, RowHasItsFile, Survivable
    <2>5. Survivable' /\ p \notin files' => \A d \in Digests \cup Texts : Stored(d) => row[d] # p
      BY <1>t, <2>4 DEF TypeOK
    <2>6. Settles(u, r)
      BY <2>1, <2>2, <2>3, <2>5 DEF Settles
    <2>7. TypeOK'
      BY <1>t, <1>p, <2>1, <2>2, <2>3 DEF TypeOK, Stored
    <2> QED BY <2>1, <2>6, <2>7, SettlesInv
  <1>8. ASSUME NEW stuck \in SUBSET Artifacts, InsertFails(u, stuck) PROVE StoreInv'
    <2> DEFINE p == up[u].path
    <2>1. /\ End(u) /\ Storing(u) /\ ~At(u, "idle") /\ Remove(p, NoRow, stuck)
          /\ mishaps \subseteq mishaps' /\ mishaps' \subseteq mishaps \cup {"refusal", "unlink"}
          /\ "refusal" \notin mishaps' => p.home = Unknown /\ ~Stored(p.digest)
          /\ UNCHANGED <<row, tmps, keys, text>>
      BY <1>8 DEF InsertFails, Storing, At, Unremoved
    <2>2. /\ files \ {p} \subseteq files' /\ files' \subseteq files /\ thumbs' \subseteq thumbs
      BY <2>1, RemoveFacts
    <2>3. ASSUME Survivable', "refusal" \in mishaps'
          PROVE  ~Stored(p.digest) /\ \A v \in Uploads \ {u} : At(v, "placed") => up[v].path # p
      <3>1. "race" \notin mishaps
        BY <2>1, <2>3 DEF Survivable
      <3> QED BY <1>s, <2>1, <3>1 DEF Storing, At
    <2>4. Survivable' => \A d \in Digests \cup Texts : Stored(d) => row[d] # p
      BY <1>t, <2>1, <2>3 DEF TypeOK
    <2>5. Survivable' => \A v \in Uploads \ {u} : At(v, "placed") /\ up[v].path = p =>
                            p.home = Unknown \/ Stored(p.digest)
      BY <2>1, <2>3
    <2>6. Settles(u, Free)
      BY <1>e, <2>1, <2>2, <2>4, <2>5, FreeType DEF Settles
    <2>7. TypeOK'
      BY <1>t, <1>e, <1>f, <2>1, <2>2 DEF TypeOK, Stored
    <2> QED BY <1>f, <2>1, <2>6, <2>7, SettlesInv
  <1>9. ASSUME Register(u) PROVE StoreInv'
    <2>1. End(u) /\ At(u, "register") /\ UNCHANGED <<row, files, tmps, thumbs, text, mishaps>>
      BY <1>9 DEF Register, Registers
    <2>2. keys' \in [Keys -> Digests \cup {None}]
      BY <1>9, <1>t, <1>p, <2>1 DEF Register, TypeOK, At
    <2>3. Moves(u, Free)
      BY <1>e, <1>f, <2>1, FreeType DEF Moves
    <2>4. TypeOK'
      BY <1>t, <1>e, <1>f, <2>1, <2>2 DEF TypeOK, Stored
    <2> QED BY <1>f, <2>3, <2>4, MovesInv
  <1> QED BY <1>1, <1>2, <1>3, <1>4, <1>5, <1>6, <1>7, <1>8, <1>9 DEF UploadStep

LEMMA TextStepInv ==
  ASSUME StoreInv, TextStep
  PROVE  StoreInv'
  <1>t. TypeOK
    BY DEF StoreInv
  <1>d. \A u \in Uploads : ~At(u, "idle") => up[u].path.digest \in Digests
    BY DEF StoreInv, NamesSound, Originals
  <1>1. ASSUME NEW h \in Households \ {Unknown}, NEW x \in Texts, WriteText(x, h)
        PROVE  StoreInv'
    <2> DEFINE p == Path(h, x, "txt")
    <2>1. /\ p \in Paths /\ p \in [home : Households, digest : Texts, ext : {"txt"}]
          /\ p.home # Unknown
      BY DEF Path, Paths
    <2> HIDE DEF p
    <2>2. /\ files' = files \cup {p} /\ text' = text \cup {p}
          /\ UNCHANGED <<row, tmps, thumbs, keys, up, mishaps>>
      BY <1>1 DEF WriteText, p
    <2>3. TypeOK'
      BY <1>t, <2>1, <2>2 DEF TypeOK, Stored
    <2>4. NamesSound' /\ OneStores' /\ PlacedIsThere' /\ TextsAreFiles' /\ RowServed'
      BY <2>1, <2>2 DEF StoreInv, NamesSound, OneStores, PlacedIsThere, Survivable, TextsAreFiles,
                  RowServed, RowHasItsFile, Stored, Storing, At
    <2> QED BY <2>3, <2>4 DEF StoreInv
  <1>2. ASSUME NEW p \in text, AbandonText(p) PROVE StoreInv'
    BY <1>2 DEF AbandonText, StoreInv, TypeOK, NamesSound, OneStores, PlacedIsThere, Survivable,
                TextsAreFiles, RowServed, RowHasItsFile, Stored, Storing, At
  <1>3. ASSUME NEW p \in text, CommitText(p) PROVE StoreInv'
    <2>1. /\ row' = [row EXCEPT ![p.digest] = p] /\ text' = text \ {p}
          /\ UNCHANGED <<files, tmps, thumbs, keys, up, mishaps>>
      BY <1>3 DEF CommitText
    <2>2. p \in files /\ p.digest \in Texts /\ p \in Paths /\ p.home # Unknown
      BY <1>t DEF StoreInv, TypeOK, TextsAreFiles, NamesSound, Paths
    <2>3. \A d \in Digests \cup Texts : row'[d] = IF d = p.digest THEN p ELSE row[d]
      BY <1>t, <2>1, <2>2 DEF TypeOK
    <2>4. \A d \in Digests : Stored(d)' <=> Stored(d)
      BY <2>2, <2>3, StoreAssumption DEF Stored
    <2>5. TypeOK'
      BY <1>t, <2>1, <2>2, <2>3 DEF TypeOK, Stored
    <2>6. TextsAreFiles' /\ RowServed' /\ NamesSound'
      BY <2>1, <2>2, <2>3 DEF StoreInv, RowServed, RowHasItsFile, Survivable, TextsAreFiles,
                              NamesSound, Stored, At
    <2>7. OneStores' /\ PlacedIsThere'
      BY <1>d, <2>1, <2>4 DEF StoreInv, OneStores, PlacedIsThere, Survivable, Stored, Storing, At
    <2> QED BY <2>5, <2>6, <2>7 DEF StoreInv
  <1> QED BY <1>1, <1>2, <1>3 DEF TextStep

\* Rows, files, transcripts and uploads fit together, for any number of
\* requests, contents, households and server processes, through crashes,
\* refused writes and abandoned AI steps.
THEOREM StoreInvariant == Spec => []StoreInv
  <1>1. StoreInv /\ [Next]_vars => StoreInv'
    <2> SUFFICES ASSUME StoreInv, [Next]_vars PROVE StoreInv'
      OBVIOUS
    <2>1. CASE UNCHANGED vars
      BY <2>1 DEF vars, StoreInv, TypeOK, NamesSound, OneStores, PlacedIsThere, Survivable,
                  TextsAreFiles, RowServed, RowHasItsFile, Stored, Storing, At
    <2>2. CASE Next
      BY <2>2, TextStepInv, UploadStepInv DEF Next
    <2> QED BY <2>1, <2>2
  <1> QED BY InitInv, <1>1, PTL DEF Spec

\* A row loses its file only when two processes raced and a write was refused:
\* the removal of a lost race and of a refused row never takes another's file.
THEOREM EveryRowServed == Spec => []RowServed
  <1>1. StoreInv => RowServed
    BY DEF StoreInv
  <1> QED BY StoreInvariant, <1>1, PTL

-----------------------------------------------------------------------------
(* Nothing is left on disk without a race and without a crash.             *)

\* Every temporary file is being written, and every original and thumbnail is
\* that of a row or of the upload that placed it.
TmpsTidy == \A p \in tmps : \E u \in Uploads : At(u, "writing") /\ up[u].path = p
FilesTidy == \A p \in files : p.digest \in Digests =>
  row[p.digest] = p \/ \E u \in Uploads : At(u, "placed") /\ up[u].path = p
ThumbsTidy == \A p \in thumbs : /\ p.digest \in Digests
                                /\ \/ Stored(p.digest) /\ row[p.digest].home = p.home
                                   \/ \E u \in Uploads : At(u, "placed") /\ Thumb(up[u].path) = p
Tidy == mishaps \subseteq {"refusal"} => TmpsTidy /\ FilesTidy /\ ThumbsTidy

\* An upload that is neither writing nor placed moves on and the disk stays.
LEMMA TidyQuiet ==
  ASSUME StoreInv, TmpsTidy, FilesTidy, ThumbsTidy, NEW u \in Uploads, NEW r,
         up' = [up EXCEPT ![u] = r], ~At(u, "placed"),
         ~At(u, "writing") \/ up[u].path \notin tmps, UNCHANGED <<row, files, tmps, thumbs>>
  PROVE  TmpsTidy' /\ FilesTidy' /\ ThumbsTidy'
  <1>1. \A v \in Uploads : v # u => up'[v] = up[v]
    BY DEF StoreInv, TypeOK
  <1>2. TmpsTidy'
    BY <1>1 DEF TmpsTidy, At
  <1>3. FilesTidy'
    BY <1>1 DEF FilesTidy, At
  <1>4. ThumbsTidy'
    BY <1>1 DEF ThumbsTidy, At, Stored
  <1> QED BY <1>2, <1>3, <1>4

LEMMA TidyStep ==
  ASSUME StoreInv, Tidy, NEW u \in Uploads, UploadStep(u)
  PROVE  Tidy'
  <1> SUFFICES ASSUME mishaps' \subseteq {"refusal"} PROVE TmpsTidy' /\ FilesTidy' /\ ThumbsTidy'
    BY DEF Tidy
  <1> DEFINE path == up[u].path
  <1>0. mishaps \subseteq mishaps' /\ ~Crash(u)
    BY DEF UploadStep, Arrive, Check, Refuse, WriteTmp, PlaceFails, Place, InsertRow, LoseRace,
           InsertFails, Register, Crash
  <1>1. TmpsTidy /\ FilesTidy /\ ThumbsTidy /\ "race" \notin mishaps
    BY <1>0 DEF Tidy
  <1>s. Storing(u) => ~Stored(path.digest)
    BY <1>1 DEF StoreInv, OneStores
  <1>t. up \in [Uploads -> Upload] /\ files \subseteq Paths
        /\ row \in [Digests \cup Texts -> Paths \cup {NoRow}]
    BY DEF StoreInv, TypeOK
  <1>p. ~At(u, "idle") => path \in Originals /\ path.digest \in Digests
    BY DEF StoreInv, NamesSound, Originals
  <1>g. ASSUME NEW pc \in Pc, Goto(u, pc)
        PROVE  \E r \in Upload : /\ up' = [up EXCEPT ![u] = r] /\ r.pc = pc /\ r.path = path
    BY <1>g, GotoType DEF StoreInv
  <1>2. ASSUME NEW q \in Originals, NEW k \in Keys \cup {None}, Arrive(u, q, k)
        PROVE  TmpsTidy' /\ FilesTidy' /\ ThumbsTidy'
    BY <1>1, <1>2, TidyQuiet DEF Arrive, At
  <1>3. ASSUME Check(u) PROVE TmpsTidy' /\ FilesTidy' /\ ThumbsTidy'
    <2>1. PICK pc \in Pc : Goto(u, pc)
      BY <1>3 DEF Check, Pc
    <2> QED BY <1>1, <1>3, <1>g, <2>1, TidyQuiet DEF Check, At
  <1>4. ASSUME Refuse(u) \/ PlaceFails(u) \/ Register(u) PROVE TmpsTidy' /\ FilesTidy' /\ ThumbsTidy'
    <2>1. /\ up' = [up EXCEPT ![u] = Free] /\ UNCHANGED <<row, files, tmps, thumbs>>
          /\ ~At(u, "placed") /\ (~At(u, "writing") \/ up[u].path \notin tmps)
      BY <1>4 DEF Refuse, PlaceFails, Register, Registers, End, At
    <2> QED BY <1>1, <2>1, TidyQuiet
  <1>5. ASSUME WriteTmp(u) PROVE TmpsTidy' /\ FilesTidy' /\ ThumbsTidy'
    <2>1. PICK r \in Upload : up' = [up EXCEPT ![u] = r] /\ r.pc = "writing" /\ r.path = path
      BY <1>5, <1>g DEF WriteTmp, Pc
    <2>2. \A v \in Uploads : up'[v] = IF v = u THEN r ELSE up[v]
      BY <1>t, <2>1
    <2>3. At(u, "checked") /\ tmps' = tmps \cup {path} /\ UNCHANGED <<row, files, thumbs>>
      BY <1>5 DEF WriteTmp
    <2>4. TmpsTidy'
      BY <1>1, <2>1, <2>2, <2>3 DEF TmpsTidy, At
    <2>5. FilesTidy' /\ ThumbsTidy'
      BY <1>1, <2>2, <2>3 DEF FilesTidy, ThumbsTidy, At, Stored
    <2> QED BY <2>4, <2>5
  <1>6. ASSUME NEW drawn \in BOOLEAN, Place(u, drawn) PROVE TmpsTidy' /\ FilesTidy' /\ ThumbsTidy'
    <2>1. PICK r \in Upload : up' = [up EXCEPT ![u] = r] /\ r.pc = "placed" /\ r.path = path
      BY <1>6, <1>g DEF Place, Pc
    <2>2. \A v \in Uploads : up'[v] = IF v = u THEN r ELSE up[v]
      BY <1>t, <2>1
    <2>3. /\ At(u, "writing") /\ tmps' = tmps \ {path} /\ files' = files \cup {path}
          /\ thumbs' \subseteq thumbs \cup {Thumb(path)} /\ row' = row
      BY <1>6 DEF Place
    <2>7. Thumb(path).digest \in Digests
      BY <1>p, <2>3 DEF At, Thumb
    <2>4. TmpsTidy'
      BY <1>1, <2>2, <2>3 DEF TmpsTidy, At
    <2>5. FilesTidy'
      BY <1>1, <2>1, <2>2, <2>3 DEF FilesTidy, At
    <2>6. ThumbsTidy'
      BY <1>1, <2>1, <2>2, <2>3, <2>7 DEF ThumbsTidy, At, Stored
    <2> QED BY <2>4, <2>5, <2>6
  <1>7. ASSUME InsertRow(u) PROVE TmpsTidy' /\ FilesTidy' /\ ThumbsTidy'
    <2>1. PICK r \in Upload : up' = [up EXCEPT ![u] = r] /\ r.pc = "register" /\ r.path = path
      BY <1>7, <1>g DEF InsertRow, Pc
    <2>2. \A v \in Uploads : up'[v] = IF v = u THEN r ELSE up[v]
      BY <1>t, <2>1
    <2>3. /\ At(u, "placed") /\ row' = [row EXCEPT ![path.digest] = path] /\ ~Stored(path.digest)
          /\ UNCHANGED <<files, tmps, thumbs>>
      BY <1>7 DEF InsertRow
    <2>4. path \in Originals /\ path.digest \in Digests /\ path # NoRow
      BY <1>p, <2>3, StoreAssumption DEF At, NoRow, Originals
    <2>5. row'[path.digest] = path /\ \A d : d # path.digest => row'[d] = row[d]
      BY <1>t, <2>3, <2>4
    <2>6. TmpsTidy'
      BY <1>1, <2>2, <2>3 DEF TmpsTidy, At
    <2>7. FilesTidy'
      <3> SUFFICES ASSUME NEW q \in files, q.digest \in Digests
                   PROVE  \/ row'[q.digest] = q
                          \/ \E v \in Uploads : up'[v].pc = "placed" /\ up'[v].path = q
        BY <2>3 DEF FilesTidy, At
      <3>1. CASE row[q.digest] = q
        <4>1. q # NoRow
          BY StoreAssumption DEF NoRow
        <4> QED BY <2>3, <2>5, <3>1, <4>1 DEF Stored
      <3>2. ASSUME NEW v \in Uploads, At(v, "placed"), up[v].path = q
            PROVE  \/ row'[q.digest] = q
                   \/ \E w \in Uploads : up'[w].pc = "placed" /\ up'[w].path = q
        BY <2>2, <2>5, <3>2 DEF At
      <3> QED BY <1>1, <3>1, <3>2 DEF FilesTidy
    <2>8. ThumbsTidy'
      <3> SUFFICES ASSUME NEW q \in thumbs
                   PROVE  \/ row'[q.digest] # NoRow /\ row'[q.digest].home = q.home
                          \/ \E v \in Uploads : up'[v].pc = "placed" /\ Thumb(up'[v].path) = q
        BY <1>1, <2>3 DEF ThumbsTidy, At, Stored, Thumb
      <3>1. CASE Stored(q.digest) /\ row[q.digest].home = q.home
        BY <2>3, <2>5, <3>1 DEF Stored
      <3>2. ASSUME NEW v \in Uploads, At(v, "placed"), Thumb(up[v].path) = q
            PROVE  \/ row'[q.digest] # NoRow /\ row'[q.digest].home = q.home
                   \/ \E w \in Uploads : up'[w].pc = "placed" /\ Thumb(up'[w].path) = q
        BY <2>2, <2>4, <2>5, <3>2 DEF At, Thumb
      <3> QED BY <1>1, <3>1, <3>2 DEF ThumbsTidy
    <2> QED BY <2>6, <2>7, <2>8
  <1>8. ASSUME NEW stuck, LoseRace(u, stuck) PROVE FALSE
    BY <1>8, <1>s DEF LoseRace, Storing, At
  <1>9. ASSUME NEW stuck, InsertFails(u, stuck) PROVE TmpsTidy' /\ FilesTidy' /\ ThumbsTidy'
    <2>1. /\ At(u, "placed") /\ Remove(path, NoRow, {}) /\ row' = row /\ tmps' = tmps
          /\ up' = [up EXCEPT ![u] = Free]
      <3>1. stuck = {}
        BY <1>9 DEF InsertFails, Unremoved
      <3> QED BY <1>9, <3>1 DEF InsertFails, End
    <2>2. path # NoRow
      BY <1>p, <2>1, StoreAssumption DEF At, NoRow, Originals
    <2>3. files' = files \ {path} /\ thumbs' = thumbs \ {Thumb(path)}
      BY <2>1, <2>2 DEF Remove
    <2>4. \A v \in Uploads : v # u => up'[v] = up[v]
      BY <1>t, <2>1
    <2>5. TmpsTidy'
      BY <1>1, <2>1, <2>4 DEF TmpsTidy, At
    <2>6. FilesTidy'
      BY <1>1, <2>1, <2>3, <2>4 DEF FilesTidy, At
    <2>7. ThumbsTidy'
      BY <1>1, <2>1, <2>3, <2>4 DEF ThumbsTidy, At, Stored
    <2> QED BY <2>5, <2>6, <2>7
  <1> QED BY <1>0, <1>2, <1>3, <1>4, <1>5, <1>6, <1>7, <1>8, <1>9 DEF UploadStep

LEMMA TidyText == ASSUME StoreInv, Tidy, TextStep PROVE Tidy'
  <1> SUFFICES ASSUME mishaps' \subseteq {"refusal"} PROVE TmpsTidy' /\ FilesTidy' /\ ThumbsTidy'
    BY DEF Tidy
  <1>1. UNCHANGED <<tmps, thumbs, up, mishaps>>
    BY DEF TextStep, WriteText, CommitText, AbandonText
  <1>2. TmpsTidy /\ FilesTidy /\ ThumbsTidy
    BY <1>1 DEF Tidy
  <1>3. \A p \in files' : p.digest \in Digests => p \in files
    BY StoreAssumption DEF TextStep, WriteText, CommitText, AbandonText, Path
  <1>4. \A d \in Digests : row'[d] = row[d]
    BY StoreAssumption DEF TextStep, WriteText, CommitText, AbandonText, StoreInv, TypeOK
  <1>5. TmpsTidy' /\ FilesTidy'
    BY <1>1, <1>2, <1>3, <1>4 DEF TmpsTidy, FilesTidy, At
  <1>6. ThumbsTidy'
    BY <1>1, <1>2, <1>4 DEF ThumbsTidy, At, Stored
  <1> QED BY <1>5, <1>6

\* A refused or failed upload leaves nothing (_remove_written_artifacts): with
\* no race, no crash and no file stuck the disk holds what the rows name, for any number of
\* requests and refused writes.
THEOREM NothingLeft == Spec => []NoOrphans
  <1>1. Init => Tidy
    BY DEF Init, Tidy, TmpsTidy, FilesTidy, ThumbsTidy
  <1>2. StoreInv /\ Tidy /\ [Next]_vars => Tidy'
    <2>1. StoreInv /\ Tidy /\ UNCHANGED vars => Tidy'
      BY DEF vars, Tidy, TmpsTidy, FilesTidy, ThumbsTidy, At, Stored
    <2> QED BY <2>1, TidyStep, TidyText DEF Next
  <1>3. Tidy => NoOrphans
    <2> SUFFICES ASSUME TmpsTidy, FilesTidy, ThumbsTidy, \A u \in Uploads : ~Storing(u)
                 PROVE  /\ \A p \in files : p.digest \in Digests => row[p.digest] = p
                        /\ \A p \in thumbs : Stored(p.digest) /\ row[p.digest].home = p.home
                        /\ tmps = {}
      BY DEF Tidy, NoOrphans
    <2>1. \A u \in Uploads : ~At(u, "writing") /\ ~At(u, "placed")
      BY Zenon DEF Storing, At
    <2>2. \A p \in files : p.digest \in Digests => row[p.digest] = p
      BY <2>1 DEF FilesTidy
    <2>3. \A p \in thumbs : Stored(p.digest) /\ row[p.digest].home = p.home
      BY <2>1 DEF ThumbsTidy
    <2>4. tmps = {}
      BY <2>1 DEF TmpsTidy
    <2> QED BY <2>2, <2>3, <2>4
  <1> QED BY <1>1, <1>2, <1>3, StoreInvariant, PTL DEF Spec

-----------------------------------------------------------------------------
(* A key and the upload that registers it name a row that is there.        *)

Registered == /\ KeyNamesRow
              /\ \A u \in Uploads : At(u, "register") => Stored(up[u].path.digest)

\* The upload u becomes r and no row of an original goes.
LEMMA RegisteredStep ==
  ASSUME StoreInv, Registered, NEW u \in Uploads, NEW r, up' = [up EXCEPT ![u] = r],
         \A d \in Digests : Stored(d) => Stored(d)',
         r.pc = "register" => Stored(r.path.digest)',
         \A k \in Keys : keys'[k] = keys[k] \/ row'[keys'[k]] # NoRow
  PROVE  Registered'
  <1>1. \A v \in Uploads : up'[v] = IF v = u THEN r ELSE up[v]
    BY DEF StoreInv, TypeOK
  <1>2. \A v \in Uploads : At(v, "register") => up[v].path.digest \in Digests
    BY DEF StoreInv, NamesSound, At, Originals
  <1>3. \A v \in Uploads : At(v, "register")' => Stored(up[v].path.digest)'
    BY <1>1, <1>2 DEF Registered, At, Stored
  <1>4. \A k \in Keys : keys[k] \in Digests \cup {None}
    BY DEF StoreInv, TypeOK
  <1>5. \A k \in Keys : keys'[k] # None => row'[keys'[k]] # NoRow
    BY <1>4 DEF Registered, KeyNamesRow, Stored
  <1>6. KeyNamesRow'
    BY <1>5 DEF KeyNamesRow, Stored
  <1> QED BY <1>3, <1>6 DEF Registered

LEMMA RegisteredUpload ==
  ASSUME StoreInv, Registered, NEW u \in Uploads, UploadStep(u)
  PROVE  Registered'
  <1> DEFINE path == up[u].path
  <1>t. /\ row \in [Digests \cup Texts -> Paths \cup {NoRow}]
        /\ keys \in [Keys -> Digests \cup {None}]
    BY DEF StoreInv, TypeOK
  <1>p. ~At(u, "idle") => path \in Originals /\ path.digest \in Digests /\ path # NoRow
    BY StoreAssumption DEF StoreInv, NamesSound, Originals, NoRow
  <1>g. ASSUME NEW pc \in Pc, Goto(u, pc)
        PROVE  \E r \in Upload : /\ up' = [up EXCEPT ![u] = r] /\ r.pc = pc /\ r.path = path
    BY <1>g, GotoType DEF StoreInv
  <1>1. ASSUME NEW r, up' = [up EXCEPT ![u] = r], row' = row, keys' = keys, r.pc # "register"
        PROVE  Registered'
    BY <1>1, RegisteredStep DEF Stored
  <1>2. ASSUME NEW q \in Originals, NEW k \in Keys \cup {None}, Arrive(u, q, k) PROVE Registered'
    <2> DEFINE r == [pc |-> "reading", path |-> q, key |-> k]
    <2>1. up' = [up EXCEPT ![u] = r] /\ row' = row /\ keys' = keys
      BY <1>2 DEF Arrive
    <2>2. r.pc # "register"
      OBVIOUS
    <2> HIDE DEF r
    <2> QED BY <1>1, <2>1, <2>2
  <1>3. ASSUME End(u), row' = row, keys' = keys PROVE Registered'
    BY <1>1, <1>3, FreeType DEF End
  <1>4. ASSUME NEW pc \in Pc, Goto(u, pc), row' = row, keys' = keys,
               pc = "register" => Stored(path.digest)
        PROVE  Registered'
    <2>1. PICK r \in Upload : up' = [up EXCEPT ![u] = r] /\ r.pc = pc /\ r.path = path
      BY <1>4, <1>g
    <2> QED BY <1>4, <2>1, RegisteredStep DEF Stored
  <1>5. ASSUME Check(u) PROVE Registered'
    <2>1. PICK pc \in Pc : Goto(u, pc) /\ (pc = "register" => Stored(path.digest))
      BY <1>5 DEF Check, Known, Pc
    <2> QED BY <1>4, <1>5, <2>1 DEF Check
  <1>6. ASSUME \/ WriteTmp(u) \/ \E stuck \in SUBSET Artifacts : LoseRace(u, stuck)
               \/ \E drawn \in BOOLEAN : Place(u, drawn)
        PROVE  Registered'
    <2>1. PICK pc \in Pc : Goto(u, pc) /\ (pc = "register" => Stored(path.digest))
      BY <1>6 DEF WriteTmp, LoseRace, Place, Pc
    <2> QED BY <1>4, <1>6, <2>1 DEF WriteTmp, LoseRace, Place
  <1>7. ASSUME InsertRow(u) PROVE Registered'
    <2>1. PICK r \in Upload : up' = [up EXCEPT ![u] = r] /\ r.pc = "register" /\ r.path = path
      BY <1>7, <1>g DEF InsertRow, Pc
    <2>2. /\ At(u, "placed") /\ row' = [row EXCEPT ![path.digest] = path] /\ keys' = keys
      BY <1>7 DEF InsertRow
    <2>3. row'[path.digest] # NoRow /\ \A d \in Digests : Stored(d) => Stored(d)'
      BY <1>t, <1>p, <2>2 DEF At, Stored
    <2> QED BY <2>1, <2>2, <2>3, RegisteredStep DEF Stored
  <1>8. ASSUME Register(u) PROVE Registered'
    <2>1. /\ up' = [up EXCEPT ![u] = Free] /\ row' = row /\ At(u, "register")
          /\ keys' = keys \/ keys' = [keys EXCEPT ![up[u].key] = path.digest]
      BY <1>8 DEF Register, Registers, End
    <2>2. Stored(path.digest)
      BY <2>1 DEF Registered
    <2>3. \A k \in Keys : keys'[k] = keys[k] \/ row'[keys'[k]] # NoRow
      BY <1>t, <2>1, <2>2 DEF Stored
    <2> QED BY <2>1, <2>3, FreeType, RegisteredStep DEF Stored
  <1> QED
    BY <1>2, <1>3, <1>5, <1>6, <1>7, <1>8
    DEF UploadStep, Refuse, PlaceFails, InsertFails, Crash

\* POST /evidence with an idempotency key: a registered key always names a
\* content whose row exists, whatever races, fails or dies.
THEOREM KeysNameRows == Spec => []KeyNamesRow
  <1>1. Init => Registered
    BY FreeType DEF Init, Registered, KeyNamesRow, At
  <1>2. StoreInv /\ Registered /\ [Next]_vars => Registered'
    <2>1. StoreInv /\ Registered /\ UNCHANGED vars => Registered'
      BY DEF vars, Registered, KeyNamesRow, At, Stored
    <2>2. ASSUME StoreInv, Registered, TextStep PROVE Registered'
      <3>1. \A d \in Digests : row'[d] = row[d]
        BY <2>2, StoreAssumption DEF TextStep, WriteText, CommitText, AbandonText, StoreInv, TypeOK
      <3>2. keys' = keys /\ up' = up
        BY <2>2 DEF TextStep, WriteText, CommitText, AbandonText
      <3>3. \A v \in Uploads : At(v, "register") => up[v].path.digest \in Digests
        BY <2>2 DEF StoreInv, NamesSound, At, Originals
      <3>4. \A k \in Keys : keys[k] \in Digests \cup {None}
        BY <2>2 DEF StoreInv, TypeOK
      <3> QED BY <2>2, <3>1, <3>2, <3>3, <3>4 DEF Registered, KeyNamesRow, At, Stored
    <2> QED BY <2>1, <2>2, RegisteredUpload DEF Next
  <1>3. Registered => KeyNamesRow
    BY DEF Registered
  <1> QED BY <1>1, <1>2, <1>3, StoreInvariant, PTL DEF Spec
=============================================================================
