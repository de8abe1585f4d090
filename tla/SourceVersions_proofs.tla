------------------------ MODULE SourceVersions_proofs ------------------------
(***************************************************************************)
(* What the ledger's verdict and the CORE view guarantee, for every set of *)
(* keys, versions and revisions.                                           *)
(***************************************************************************)
EXTENDS SourceVersions, TLAPS

(* Revisions order versions strictly: later than later is later, and no    *)
(* two versions are each later than the other.                             *)
LEMMA NewerIsStrictOrder ==
  ASSUME NEW u \in Version, NEW v \in Version, NEW x \in Version
  PROVE  /\ ~(Newer(u, v) /\ Newer(v, u))
         /\ Newer(u, v) /\ Newer(v, x) => Newer(u, x)
BY VersionAssumption DEF Newer, HasRevision

(* What covers a version keeps covering it when a later revision replaces  *)
(* it.                                                                     *)
LEMMA CoverageIsKept ==
  ASSUME NEW a \in Version \cup {NoVersion}, NEW b \in Version, NEW v \in Version,
         Covers(a, v), Newer(b, a)
  PROVE  Covers(b, v)
BY NewerIsStrictOrder, VersionAssumption DEF Covers

(* The ledger's verdicts: the handler runs only for a first or a later     *)
(* version; a duplicate or stale version is covered by the accepted one.   *)
LEMMA ResolveMeaning ==
  ASSUME NEW a \in Version \cup {NoVersion}, NEW v \in Version
  PROVE  /\ Resolve(a, v) \in {"NEW", "DUPLICATE", "NEWER_REVISION",
                               "STALE_REVISION", "REVISION_CONFLICT"}
         /\ RunsHandler(Resolve(a, v)) => a = NoVersion \/ Newer(v, a)
         /\ Resolve(a, v) \in {"DUPLICATE", "STALE_REVISION"} => Covers(a, v)
         /\ Covers(a, v) => Resolve(a, v) \in {"DUPLICATE", "STALE_REVISION"}
<1>1. CASE a = NoVersion
  BY <1>1, VersionAssumption DEF Resolve, RunsHandler, Covers
<1>2. CASE a = v
  BY <1>2, VersionAssumption DEF Resolve, RunsHandler, Covers
<1>3. CASE a \in Version /\ a # v
  <2> DEFINE r == ResolveRevisionCandidate(a, v)
  <2>1. Resolve(a, v) = r /\ a # NoVersion
    BY <1>3, VersionAssumption DEF Resolve
  <2>2. ~(Newer(a, v) /\ Newer(v, a))
    BY <1>3, NewerIsStrictOrder
  <2>3. CASE Newer(v, a)
    <3>1. r = "NEWER_REVISION"
      BY <2>2, <2>3 DEF ResolveRevisionCandidate
    <3> QED
      BY <1>3, <2>1, <2>2, <2>3, <3>1 DEF RunsHandler, Covers
  <2>4. CASE Newer(a, v)
    <3>1. r = "STALE_REVISION"
      BY <2>2, <2>4 DEF ResolveRevisionCandidate
    <3> QED
      BY <1>3, <2>1, <2>2, <2>4, <3>1 DEF RunsHandler, Covers
  <2>5. CASE ~Newer(v, a) /\ ~Newer(a, v)
    <3>1. r = "REVISION_CONFLICT"
      BY <2>5 DEF ResolveRevisionCandidate
    <3> QED
      BY <1>3, <2>1, <2>5, <3>1 DEF RunsHandler, Covers
  <2> QED
    BY <2>3, <2>4, <2>5
<1> QED
  BY <1>1, <1>2, <1>3

(* What the view shows is at least as late as every row of the key.        *)
LEMMA ShownIsLatest ==
  ASSUME NEW rows \in SUBSET Version, NEW v \in CoreOfRows(rows), NEW u \in rows
  PROVE  v \in rows /\ (u = v \/ Newer(v, u))
BY DEF CoreOfRows, UnversionedWinner, RevisionedWinner

(* What the view shows among many rows, it showed among fewer: a version   *)
(* it has withdrawn does not come back with more rows.                     *)
LEMMA ShownAmongFewer ==
  ASSUME NEW more, NEW rows \in SUBSET more, NEW v \in rows, v \in CoreOfRows(more)
  PROVE  v \in CoreOfRows(rows)
BY DEF CoreOfRows, UnversionedWinner, RevisionedWinner

(* The view shows a version exactly when it covers every row of its key.   *)
LEMMA ShownIffCoversAll ==
  ASSUME NEW k \in Key, NEW rows \in SUBSET {v \in Version : KeyOf[v] = k},
         NEW a \in rows, \A v \in rows : Covers(a, v)
  PROVE  CoreOfRows(rows) = {a}
<1>1. a \in CoreOfRows(rows)
  <2>1. CASE HasRevision(a)
    <3>1. \A u \in rows : HasRevision(u)
      BY <2>1, VersionAssumption DEF HasRevision
    <3>2. \A u \in rows : u = a \/ Newer(a, u)
      BY DEF Covers
    <3> QED
      BY <3>1, <3>2 DEF CoreOfRows, RevisionedWinner
  <2>2. CASE ~HasRevision(a)
    <3>1. \A u \in rows : u = a
      BY <2>2 DEF Covers, Newer
    <3> QED
      BY <2>2, <3>1 DEF CoreOfRows, UnversionedWinner
  <2> QED
    BY <2>1, <2>2
<1>2. ASSUME NEW v \in CoreOfRows(rows)
      PROVE  v = a
  <2>1. v \in rows /\ (a = v \/ Newer(v, a))
    BY ShownIsLatest
  <2>2. a = v \/ Newer(a, v)
    BY <2>1 DEF Covers
  <2> QED
    BY <2>1, <2>2, NewerIsStrictOrder
<1> QED
  BY <1>1, <1>2

==============================================================================
