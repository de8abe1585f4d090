--------------------------- MODULE SourceVersions ---------------------------
(***************************************************************************)
(* The identity of a canonical event, as the processing ledger and the     *)
(* CORE view see it.                                                       *)
(*                                                                         *)
(* A VERSION stands for one source content of one logical event: two       *)
(* canonical events are the same version exactly when they have the same   *)
(* deduplication key and the same source content fingerprint.  The source  *)
(* revision is read from the fingerprinted payload, so a version           *)
(* determines it.  Key and revision of a version are therefore constants:  *)
(*                                                                         *)
(*   KeyOf[v]       the deduplication key                                  *)
(*   RevisionOf[v]  source_revision_at, a point of time counted in Nat, or *)
(*                  NoRevision where the source exposes no revision        *)
(***************************************************************************)
EXTENDS Naturals

CONSTANTS Key, Version, KeyOf, RevisionOf, NoRevision, NoVersion

(* Whether an event carries a revision depends on its provider and event   *)
(* type only, and both are hashed into the deduplication key: the versions *)
(* of one key all have a revision or none has.                             *)
ASSUME VersionAssumption ==
  /\ KeyOf \in [Version -> Key]
  /\ NoRevision \notin Nat
  /\ RevisionOf \in [Version -> Nat \cup {NoRevision}]
  /\ NoVersion \notin Version
  /\ \A u, v \in Version :
       KeyOf[u] = KeyOf[v] => (RevisionOf[u] = NoRevision <=> RevisionOf[v] = NoRevision)

HasRevision(v) == RevisionOf[v] # NoRevision

(* u carries a strictly later source revision than v.                      *)
Newer(u, v) ==
  HasRevision(u) /\ HasRevision(v) /\ RevisionOf[u] > RevisionOf[v]

(* Another content for a key that has an accepted version: only revisions  *)
(* can order the two.                                                      *)
ResolveRevisionCandidate(previous, incoming) ==
  CASE Newer(incoming, previous) -> "NEWER_REVISION"
    [] Newer(previous, incoming) -> "STALE_REVISION"
    [] OTHER                     -> "REVISION_CONFLICT"

(* The ledger's verdict on an incoming version, given the version it has   *)
(* accepted for the same key (NoVersion if it has no row for it).          *)
Resolve(previous, incoming) ==
  IF previous = NoVersion     THEN "NEW"
  ELSE IF previous = incoming THEN "DUPLICATE"
  ELSE ResolveRevisionCandidate(previous, incoming)

RunsHandler(resolution) == resolution \in {"NEW", "NEWER_REVISION"}

(***************************************************************************)
(* The CORE view of the RAW rows of one key, rows being the set of         *)
(* versions that have at least one row: the version it shows, as a set of  *)
(* at most one.  It shows none for a key with contents it cannot order.    *)
(* Which of several rows of the shown version represents it (the oldest    *)
(* ingestion) makes no difference to the version and is left out.          *)
(***************************************************************************)
UnversionedWinner(rows) ==
  {v \in rows : ~HasRevision(v) /\ \A u \in rows : u = v}

(* Variants of RevisionedWinner: the greatest revision is not looked for;  *)
(* its contents are not compared.                                          *)
AnyRevisionWinner(rows) ==
  {v \in rows : /\ \A u \in rows : HasRevision(u)
                /\ \A u \in rows : u = v \/ RevisionOf[u] # RevisionOf[v]}

UncheckedRevisionWinner(rows) ==
  {v \in rows : /\ \A u \in rows : HasRevision(u)
                /\ \A u \in rows : ~Newer(u, v)}

RevisionedWinner(rows) ==
  {v \in rows : /\ \A u \in rows : HasRevision(u)
                /\ \A u \in rows : u = v \/ Newer(v, u)}

CoreOfRows(rows) == UnversionedWinner(rows) \cup RevisionedWinner(rows)

(* An accepted version a answers for v: it is v, or a later revision.      *)
Covers(a, v) == a # NoVersion /\ (a = v \/ Newer(a, v))

=============================================================================
