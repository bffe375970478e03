--------------------------- MODULE EvidenceStore ---------------------------
(***************************************************************************)
(* The evidence store: one row and one file per content.  An upload looks  *)
(* its digest up, writes the file under a name made of household, digest   *)
(* and extension, and only then inserts the row; a row that cannot be      *)
(* inserted takes its files with it.  Transcripts of the AI step go        *)
(* through the same store inside that step's transaction.                  *)
(*                                                                         *)
(* upload_evidence is a coroutine: on one server process its code from the *)
(* digest lookup to the answer runs without another upload in between.     *)
(* With several processes uploads interleave freely, the race the handlers *)
(* of IntegrityError are written for.  What has gone wrong so far is        *)
(* remembered in a history variable, so that a property can say which      *)
(* mishaps it survives.                                                    *)
(***************************************************************************)
EXTENDS Naturals

CONSTANTS Uploads,      \* upload requests that may be in flight
          Digests,      \* contents that are uploaded
          Texts,        \* transcripts (digests of another kind)
          Households,   \* households a request may name
          Unknown,      \* the one of them without a row: the insert is refused
          Exts,         \* file name extensions of the same media type
          Keys,         \* idempotency keys
          None

ASSUME StoreAssumption ==
  /\ Digests \cap Texts = {}
  /\ None \notin Digests \cup Texts \cup Keys

VARIABLES row,      \* storage key of the evidence row of each content
          files,    \* originals on disk
          tmps,     \* half-written originals on disk
          thumbs,   \* thumbnails on disk; their name has no extension
          keys,     \* content each idempotency key is registered for
          up,       \* the uploads in flight
          text,     \* transcripts written by a step that has not committed
          mishaps   \* history: "race", two uploads stored one content at once;
                    \* "refusal", the database refused a write; "unlink", a file could
                    \* not be removed; "crash", a process died

vars == <<row, files, tmps, thumbs, keys, up, text, mishaps>>

-----------------------------------------------------------------------------
NoRow == [home |-> None, digest |-> None, ext |-> None]
Path(h, d, x) == [home |-> h, digest |-> d, ext |-> x]
Paths == [home : Households, digest : Digests \cup Texts, ext : Exts \cup {"txt"}]
Originals == [home : Households, digest : Digests, ext : Exts]
Thumb(p) == [home |-> p.home, digest |-> p.digest]
Stored(d) == row[d] # NoRow

Pc == {"idle", "reading", "checked", "writing", "placed", "register"}
Upload == [pc : Pc, path : Paths \cup {NoRow}, key : Keys \cup {None}]
Free == [pc |-> "idle", path |-> NoRow, key |-> None]

At(u, pc) == up[u].pc = pc
Goto(u, pc) == up' = [up EXCEPT ![u] = [@ EXCEPT !.pc = pc]]
End(u) == up' = [up EXCEPT ![u] = Free]
Storing(u) == up[u].pc \in {"checked", "writing", "placed"}

Init == /\ row = [d \in Digests \cup Texts |-> NoRow]
        /\ files = {} /\ tmps = {} /\ thumbs = {}
        /\ keys = [k \in Keys |-> None]
        /\ up = [u \in Uploads |-> Free]
        /\ text = {} /\ mishaps = {}

-----------------------------------------------------------------------------
\* The request: a key registered for a row of the same household answers from
\* that row; otherwise the body is awaited, and other requests run meanwhile.
Arrive(u, p, k) ==
  /\ At(u, "idle")
  /\ ~(k # None /\ keys[k] # None /\ row[keys[k]].home = p.home)
  /\ up' = [up EXCEPT ![u] = [pc |-> "reading", path |-> p, key |-> k]]
  /\ UNCHANGED <<row, files, tmps, thumbs, keys, text, mishaps>>

\* Mutant: the digest lookup misses.
LookupMisses(d) == FALSE

\* The lookups of upload_evidence and store_evidence by sha256.
Known(d) == Stored(d)

\* A known content is answered with its row; otherwise the store begins.
Check(u) ==
  /\ At(u, "reading")
  /\ Goto(u, IF Known(up[u].path.digest) THEN "register" ELSE "checked")
  /\ mishaps' = mishaps \cup
       IF \E v \in Uploads : Storing(v) /\ up[v].path.digest = up[u].path.digest THEN {"race"} ELSE {}
  /\ UNCHANGED <<row, files, tmps, thumbs, keys, text>>

\* Too large, a media type that does not match, an image that does not decode.
Refuse(u) ==
  /\ At(u, "checked")
  /\ End(u)
  /\ UNCHANGED <<row, files, tmps, thumbs, keys, text, mishaps>>

WriteTmp(u) ==
  /\ At(u, "checked")
  /\ tmps' = tmps \cup {up[u].path}
  /\ Goto(u, "writing")
  /\ UNCHANGED <<row, files, thumbs, keys, text, mishaps>>

\* The rename, then the thumbnails, which are best effort.
Place(u, drawn) ==
  /\ At(u, "writing") /\ up[u].path \in tmps
  /\ tmps' = tmps \ {up[u].path}
  /\ files' = files \cup {up[u].path}
  /\ thumbs' = IF drawn THEN thumbs \cup {Thumb(up[u].path)} ELSE thumbs
  /\ Goto(u, "placed")
  /\ UNCHANGED <<row, keys, text, mishaps>>

\* Another process renamed the same temporary file first.
PlaceFails(u) ==
  /\ At(u, "writing") /\ up[u].path \notin tmps
  /\ End(u)
  /\ UNCHANGED <<row, files, tmps, thumbs, keys, text, mishaps>>

\* Mutant: the files of a row that was refused stay.
LeaveFiles(p, keep, stuck) == UNCHANGED <<files, thumbs>>
\* Mutant: nobody's file is kept.
RemoveAlways(p, keep, stuck) == /\ files' = files \ {p}
                                /\ thumbs' = thumbs \ {Thumb(p)}

\* _remove_written_artifacts: the original and its thumbnails, unless they are
\* the files of the row to keep.  A file that cannot be unlinked is logged and
\* stays.
Artifacts == {"original", "thumbnail"}
Remove(p, keep, stuck) ==
  IF keep = p THEN UNCHANGED <<files, thumbs>>
  ELSE /\ files' = IF "original" \in stuck THEN files ELSE files \ {p}
       /\ thumbs' = IF "thumbnail" \in stuck THEN thumbs ELSE thumbs \ {Thumb(p)}
Unremoved(stuck) == IF stuck = {} THEN {} ELSE {"unlink"}

InsertRow(u) ==
  LET p == up[u].path IN
  /\ At(u, "placed") /\ ~Stored(p.digest) /\ p.home # Unknown
  /\ row' = [row EXCEPT ![p.digest] = p]
  /\ Goto(u, "register")
  /\ UNCHANGED <<files, tmps, thumbs, keys, text, mishaps>>

\* The unique constraint names a winner: its row is the answer.
LoseRace(u, stuck) ==
  LET p == up[u].path IN
  /\ At(u, "placed") /\ Stored(p.digest)
  /\ Remove(p, row[p.digest], stuck)
  /\ mishaps' = mishaps \cup Unremoved(stuck)
  /\ Goto(u, "register")
  /\ UNCHANGED <<row, tmps, keys, text>>

\* The foreign key refuses the household, or the database refuses the write
\* (it is locked, the disk is full): rollback and removal.
InsertFails(u, stuck) ==
  LET p == up[u].path IN
  /\ At(u, "placed")
  /\ mishaps' = mishaps \cup Unremoved(stuck) \cup
       IF p.home = Unknown /\ ~Stored(p.digest) THEN {} ELSE {"refusal"}
  /\ Remove(p, NoRow, stuck)
  /\ End(u)
  /\ UNCHANGED <<row, tmps, keys, text>>

\* Mutant: a key is registered when the request arrives at the store.
RegisterEarly(u) == up[u].pc \in {"checked", "register"}

Registers(u) == At(u, "register")

\* The key is bound to the answer; a commit that fails, as it must when the key
\* is registered already, is rolled back and the answer given all the same.
Register(u) ==
  /\ Registers(u)
  /\ \/ keys' = keys
     \/ /\ up[u].key # None /\ keys[up[u].key] = None
        /\ keys' = [keys EXCEPT ![up[u].key] = up[u].path.digest]
  /\ End(u)
  /\ UNCHANGED <<row, files, tmps, thumbs, text, mishaps>>

-----------------------------------------------------------------------------
\* store_text_evidence: the file at once, the row with the step's commit.  Of
\* two steps with one transcript the second writes the same file again, and its
\* flush waits for the first: it changes nothing before that one is over.
WriteText(t, h) ==
  /\ ~Stored(t) /\ \A p \in text : p.digest # t
  /\ files' = files \cup {Path(h, t, "txt")}
  /\ text' = text \cup {Path(h, t, "txt")}
  /\ UNCHANGED <<row, tmps, thumbs, keys, up, mishaps>>

CommitText(p) ==
  /\ p \in text
  /\ row' = [row EXCEPT ![p.digest] = p]
  /\ text' = text \ {p}
  /\ UNCHANGED <<files, tmps, thumbs, keys, up, mishaps>>

\* The step fails or dies; the file stays.
AbandonText(p) ==
  /\ p \in text
  /\ text' = text \ {p}
  /\ UNCHANGED <<row, files, tmps, thumbs, keys, up, mishaps>>

Crash(u) == /\ ~At(u, "idle") /\ End(u)
            /\ mishaps' = mishaps \cup {"crash"}
            /\ UNCHANGED <<row, files, tmps, thumbs, keys, text>>

UploadStep(u) ==
  \/ \E p \in Originals, k \in Keys \cup {None} :
        Arrive(u, p, k)
  \/ Check(u) \/ Refuse(u) \/ WriteTmp(u) \/ PlaceFails(u)
  \/ \E drawn \in BOOLEAN : Place(u, drawn)
  \/ \E stuck \in SUBSET Artifacts : LoseRace(u, stuck) \/ InsertFails(u, stuck)
  \/ InsertRow(u) \/ Register(u) \/ Crash(u)

TextStep == \/ \E t \in Texts, h \in Households \ {Unknown} : WriteText(t, h)
            \/ \E p \in text : CommitText(p) \/ AbandonText(p)

Next == TextStep \/ \E u \in Uploads : UploadStep(u)

Spec == Init /\ [][Next]_vars

-----------------------------------------------------------------------------
(* Properties.                                                             *)

\* Type invariant of the rows, the disk and the requests.
TypeOK == /\ row \in [Digests \cup Texts -> Paths \cup {NoRow}]
          /\ \A d \in Digests \cup Texts : Stored(d) => row[d].digest = d
          /\ files \in SUBSET Paths /\ tmps \in SUBSET Paths
          /\ thumbs \in SUBSET [home : Households, digest : Digests \cup Texts]
          /\ keys \in [Keys -> Digests \cup {None}]
          /\ up \in [Uploads -> Upload]
          /\ text \in SUBSET [home : Households, digest : Texts, ext : {"txt"}]
          /\ mishaps \in SUBSET {"race", "refusal", "unlink", "crash"}

\* Every evidence row can be served: its file is on disk.
RowHasItsFile == \A d \in Digests \cup Texts : Stored(d) => row[d] \in files

\* It takes a race and a refused write together to lose a row's file: a crash,
\* a refusal, an unknown household and a lost race alone never do.
Survivable == ~({"race", "refusal"} \subseteq mishaps)
RowServed == Survivable => RowHasItsFile

\* A refused or failed upload leaves nothing: as long as no two uploads store one
\* content at once, none dies and every file can be unlinked, every original and
\* thumbnail on disk is that of a row whenever no upload is storing.
NoOrphans == (mishaps \subseteq {"refusal"} /\ \A u \in Uploads : ~Storing(u)) =>
  /\ \A p \in files : p.digest \in Digests => row[p.digest] = p
  /\ \A p \in thumbs : Stored(p.digest) /\ row[p.digest].home = p.home
  /\ tmps = {}

\* A registered key names a content whose row exists: a replay has an answer.
KeyNamesRow == \A k \in Keys : keys[k] # None => Stored(keys[k])

\* An upload names an original, and no row is of the household that has none.
NamesSound == /\ \A u \in Uploads : ~At(u, "idle") => up[u].path \in Originals
              /\ \A d \in Digests \cup Texts : Stored(d) => row[d].home # Unknown
              /\ \A p \in text : p.home # Unknown

\* Without a race an upload that stores is the only one of its content, which has
\* no row.
OneStores == "race" \notin mishaps =>
  /\ \A u, v \in Uploads : Storing(u) /\ Storing(v) /\ up[u].path.digest = up[v].path.digest => u = v
  /\ \A u \in Uploads : Storing(u) => ~Stored(up[u].path.digest)

\* A file that is about to get its row is there.
PlacedIsThere == Survivable => \A u \in Uploads :
  At(u, "placed") /\ ~Stored(up[u].path.digest) /\ up[u].path.home # Unknown
    => up[u].path \in files

\* A transcript whose step has not committed has its file.
TextsAreFiles == text \subseteq files

\* The inductive invariant, for any number of server processes.
StoreInv == /\ TypeOK /\ NamesSound /\ OneStores /\ PlacedIsThere /\ TextsAreFiles
            /\ RowServed
=============================================================================
