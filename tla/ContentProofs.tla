--------------------------- MODULE ContentProofs ---------------------------
(***************************************************************************)
(* For any number of documents, revisions, slugs and categories: a public  *)
(* path belongs to one document for good, and the canonical route of a     *)
(* document is the path of the revision its readers get.  What readers get *)
(* of it: addresses lead to their posts, redirects end and drafts do not   *)
(* show.  And what an import reads and leaves, whatever happens to its     *)
(* files and whatever fails in its transaction.                            *)
(***************************************************************************)
EXTENDS OfflineImport, SequenceTheorems, FiniteSetTheorems, WellFoundedInduction, TLAPS

---------------------------------------------------------------------------
(* What the steps write. *)

\* Every revision number of a document names a well-typed revision and path.
LEMMA RevisionTypes ==
  ASSUME TypeOK, NEW d \in DocumentIds, NEW r \in DOMAIN revisions[d]
  PROVE  /\ r \in 1..Len(revisions[d])
         /\ revisions[d][r] \in Revision
         /\ revisions[d][r].slug \in Slugs
         /\ revisions[d][r].category \in Placements
         /\ RevisionPath(d, r) \in Paths
<1>1. revisions[d] \in Seq(Revision)
  BY DEF TypeOK
<1>2. r \in 1..Len(revisions[d])
  BY <1>1, LenProperties
<1>3. revisions[d][r] \in Revision
  BY <1>1, <1>2, ElementOfSeq
<1> QED
  BY <1>2, <1>3 DEF Revision, RevisionPath, RoutePath, Paths

\* append_revision_in_transaction_with_category adds one revision, the current
\* one, and leaves the earlier ones of every document alone.
LEMMA AppendRevisionEffect ==
  ASSUME TypeOK, NEW d \in DocumentIds, NEW base \in 1..MaxRevisions,
         NEW slug \in Slugs, NEW category \in Placements,
         NEW key \in Keys \cup {NoKey}, NEW ai \in BOOLEAN,
         AppendRevision(d, base, slug, category, key, ai)
  PROVE  /\ revisions' \in [DocumentIds -> Seq(Revision)]
         /\ Len(revisions'[d]) = Len(revisions[d]) + 1
         /\ \A i \in 1..Len(revisions[d]) : revisions'[d][i] = revisions[d][i]
         /\ revisions'[d][Len(revisions[d]) + 1].slug = slug
         /\ revisions'[d][Len(revisions[d]) + 1].category = category
         /\ revisions'[d][Len(revisions[d]) + 1].key = key
         /\ revisions'[d][Len(revisions[d]) + 1].ai = ai
         /\ \A e \in DocumentIds \ {d} : revisions'[e] = revisions[e]
<1> DEFINE new == [slug |-> slug, category |-> category, parent |-> base,
                   key |-> key, ai |-> ai]
<1>1. new \in Revision
  BY BoundsAssumption DEF Revision
<1>2. revisions[d] \in Seq(Revision)
  BY DEF TypeOK
<1>3. revisions' = [revisions EXCEPT ![d] = Append(revisions[d], new)]
  BY DEF AppendRevision
<1>4. new.slug = slug /\ new.category = category /\ new.key = key /\ new.ai = ai
  OBVIOUS
<1> HIDE DEF new
<1>5. /\ Append(revisions[d], new) \in Seq(Revision)
      /\ Len(Append(revisions[d], new)) = Len(revisions[d]) + 1
      /\ \A i \in 1..Len(revisions[d]) : Append(revisions[d], new)[i] = revisions[d][i]
      /\ Append(revisions[d], new)[Len(revisions[d]) + 1] = new
  BY <1>1, <1>2, AppendProperties
<1>6. revisions'[d] = Append(revisions[d], new)
  BY <1>3 DEF TypeOK
<1>7. \A e \in DocumentIds \ {d} : revisions'[e] = revisions[e]
  BY <1>3 DEF TypeOK
<1>8. revisions' \in [DocumentIds -> Seq(Revision)]
  BY <1>3, <1>5 DEF TypeOK
<1> QED
  BY <1>4, <1>5, <1>6, <1>7, <1>8

\* assign_revision_category_in_transaction changes one placement.
LEMMA AssignEffect ==
  ASSUME TypeOK, NEW d \in DocumentIds, NEW r, NEW category \in Placements,
         AssignRevisionCategory(d, r, category)
  PROVE  /\ revisions' \in [DocumentIds -> Seq(Revision)]
         /\ Len(revisions'[d]) = Len(revisions[d])
         /\ \A i \in 1..Len(revisions[d]) : i # r => revisions'[d][i] = revisions[d][i]
         /\ revisions'[d][r].slug = revisions[d][r].slug
         /\ revisions'[d][r].category = category
         /\ \A e \in DocumentIds \ {d} : revisions'[e] = revisions[e]
<1> DEFINE new == [revisions[d][r] EXCEPT !.category = category]
<1>0. r \in DOMAIN revisions[d]
  BY DEF AssignRevisionCategory
<1>1. new \in Revision /\ new.slug = revisions[d][r].slug /\ new.category = category
  BY <1>0, RevisionTypes DEF Revision
<1>2. revisions[d] \in Seq(Revision) /\ r \in 1..Len(revisions[d])
  BY <1>0, RevisionTypes DEF TypeOK
<1>3. revisions' = [revisions EXCEPT ![d] = [revisions[d] EXCEPT ![r] = new]]
  BY DEF AssignRevisionCategory
<1> HIDE DEF new
<1>4. /\ [revisions[d] EXCEPT ![r] = new] \in Seq(Revision)
      /\ Len([revisions[d] EXCEPT ![r] = new]) = Len(revisions[d])
      /\ \A i \in 1..Len(revisions[d]) :
           [revisions[d] EXCEPT ![r] = new][i] = IF i = r THEN new ELSE revisions[d][i]
  BY <1>1, <1>2, ExceptSeq
<1>5. revisions'[d] = [revisions[d] EXCEPT ![r] = new]
  BY <1>3 DEF TypeOK
<1>6. \A e \in DocumentIds \ {d} : revisions'[e] = revisions[e]
  BY <1>3 DEF TypeOK
<1>7. revisions' \in [DocumentIds -> Seq(Revision)]
  BY <1>3, <1>4 DEF TypeOK
<1> QED
  BY <1>1, <1>2, <1>4, <1>5, <1>6, <1>7

---------------------------------------------------------------------------
(* Types. *)

\* EnsureSeriesItem and SeriesForCategory write positions.
LEMMA SeriesItemTypes ==
  ASSUME TypeOK
  PROVE  /\ \A d \in DocumentIds, c \in Placements :
              EnsureSeriesItem(d, c) /\ (series \subseteq CategorySlugs) =>
                seriesItems' \in [CategorySlugs -> [DocumentIds -> Nat]]
         /\ \A c \in CategorySlugs :
              SeriesForCategory(c) =>
                /\ seriesItems' \in [CategorySlugs -> [DocumentIds -> Nat]]
                /\ series' \in SUBSET CategorySlugs
<1>1. ASSUME NEW d \in DocumentIds, NEW c \in Placements, EnsureSeriesItem(d, c),
             series \subseteq CategorySlugs
      PROVE  seriesItems' \in [CategorySlugs -> [DocumentIds -> Nat]]
  <2>1. CASE UNCHANGED seriesItems
    BY <2>1 DEF TypeOK
  <2>2. CASE c \in series /\ AppendSeriesItem(d, c)
    <3>1. PICK last \in LastPositions(c) :
            seriesItems' = [seriesItems EXCEPT ![c][d] = last + 1]
      BY <2>2 DEF AppendSeriesItem
    <3>2. last \in Nat
      BY <1>1, <2>2 DEF LastPositions, TypeOK
    <3> QED
      BY <1>1, <2>2, <3>1, <3>2 DEF TypeOK
  <2> QED
    BY <1>1, <2>1, <2>2 DEF EnsureSeriesItem
<1>2. ASSUME NEW c \in CategorySlugs, SeriesForCategory(c)
      PROVE  /\ seriesItems' \in [CategorySlugs -> [DocumentIds -> Nat]]
             /\ series' \in SUBSET CategorySlugs
  <2>1. \A d \in DocumentIds : Cardinality(PublishedIn(c) \cap 1..d) \in Nat
    <3> TAKE d \in DocumentIds
    <3>1. IsFiniteSet(1..d)
      BY BoundsAssumption, FS_Interval DEF DocumentIds
    <3>2. PublishedIn(c) \cap 1..d \in SUBSET (1..d)
      OBVIOUS
    <3> QED
      BY <3>1, <3>2, FS_Subset, FS_CardinalityType
  <2>2. \A d \in DocumentIds : seriesItems[c][d] \in Nat
    BY DEF TypeOK
  <2> QED
    BY <1>2, <2>1, <2>2 DEF SeriesForCategory, TypeOK
<1> QED
  BY <1>1, <1>2

\* Each step keeps the types.
LEMMA TypesPreserved ==
  ASSUME TypeOK, [Next]_vars PROVE TypeOK'
<1> USE DEF documentVars, routeVars, categoryVars
<1>1. ASSUME NEW d \in DocumentIds, NEW slug \in Slugs, NEW category \in Placements,
             NEW key \in Keys \cup {NoKey}, CreateDocument(d, slug, category, key)
      PROVE  TypeOK'
  <2> DEFINE new == [slug |-> slug, category |-> category, parent |-> 0,
                     key |-> key, ai |-> FALSE]
  <2>1. new \in Revision
    BY DEF Revision
  <2>2. revisions' = [revisions EXCEPT ![d] = <<new>>]
    BY <1>1 DEF CreateDocument
  <2> HIDE DEF new
  <2>3. <<new>> \in Seq(Revision)
    BY <2>1
  <2>4. revisions' \in [DocumentIds -> Seq(Revision)]
    BY <2>2, <2>3 DEF TypeOK
  <2>5. RoutePath(category, slug) \in Paths
    BY DEF RoutePath, Paths
  <2> QED
    BY <1>1, <2>4, <2>5 DEF TypeOK, CreateDocument
<1>2. ASSUME NEW d \in DocumentIds, NEW base \in 1..MaxRevisions, NEW slug \in Slugs,
             NEW category \in Placements, NEW key \in Keys \cup {NoKey},
             NEW ai \in BOOLEAN, AppendRevision(d, base, slug, category, key, ai),
             audits' \in SUBSET Audit
      PROVE  TypeOK'
  <2>1. revisions' \in [DocumentIds -> Seq(Revision)]
    BY <1>2, AppendRevisionEffect
  <2>2. Len(revisions[d]) + 1 \in Nat
    BY LenProperties DEF TypeOK
  <2>3. RoutePath(category, slug) \in Paths
    BY DEF RoutePath, Paths
  <2> QED
    BY <1>2, <2>1, <2>2, <2>3 DEF TypeOK, AppendRevision
<1>3. ASSUME NEW d \in DocumentIds, NEW base \in 1..MaxRevisions, NEW slug \in Slugs,
             NEW key \in Keys \cup {NoKey}, ReviseDocument(d, base, slug, key)
      PROVE  TypeOK'
  <2>1. revisions[d][base].category \in Placements
    BY <1>3, RevisionTypes DEF ReviseDocument
  <2> QED
    BY <1>2, <1>3, <2>1 DEF ReviseDocument, TypeOK
<1>4. ASSUME NEW d \in DocumentIds, NEW base \in 1..MaxRevisions, NEW slug \in Slugs,
             NEW category \in Placements, NEW key \in Keys \cup {NoKey},
             ReviseAndMove(d, base, slug, category, key)
      PROVE  TypeOK'
  BY <1>2, <1>4 DEF ReviseAndMove, TypeOK
<1>5. ASSUME NEW d \in DocumentIds, NEW base \in 1..MaxRevisions, NEW slug \in Slugs,
             NEW key \in Keys, NEW message \in Messages,
             AppendAiProposal(d, base, slug, key, message)
      PROVE  TypeOK'
  <2>1. revisions[d][base].category \in Placements
    BY <1>5, RevisionTypes DEF AppendAiProposal
  <2>2. Len(revisions[d]) + 1 \in Nat
    BY LenProperties DEF TypeOK
  <2>3. audits' \in SUBSET Audit
    BY <1>5, <2>2 DEF AppendAiProposal, TypeOK, Audit
  <2> QED
    BY <1>2, <1>5, <2>1, <2>3 DEF AppendAiProposal
<1>6. ASSUME NEW d \in DocumentIds, NEW r \in 1..MaxRevisions,
             NEW category \in Placements, AssignRevisionCategory(d, r, category)
      PROVE  TypeOK'
  <2>1. revisions' \in [DocumentIds -> Seq(Revision)]
    BY <1>6, AssignEffect
  <2>2. RoutePath(category, revisions[d][r].slug) \in Paths
    BY <1>6, RevisionTypes DEF AssignRevisionCategory, RoutePath, Paths
  <2> QED
    BY <1>6, <2>1, <2>2 DEF TypeOK, AssignRevisionCategory
<1>7. ASSUME NEW d \in DocumentIds, NEW r \in 1..MaxRevisions, Publish(d, r)
      PROVE  TypeOK'
  <2>1. RevisionPath(d, r) \in Paths
    BY <1>7, RevisionTypes DEF Publish
  <2>2. seriesItems' \in [CategorySlugs -> [DocumentIds -> Nat]]
    BY <1>7, <2>1, SeriesItemTypes DEF Publish, TypeOK, Paths
  <2>3. r \in Nat
    BY BoundsAssumption
  <2> QED
    BY <1>7, <2>1, <2>2, <2>3 DEF TypeOK, Publish
<1>8. ASSUME NEW c \in CategorySlugs, CreateCategory(c) PROVE TypeOK'
  BY <1>8 DEF TypeOK, CreateCategory
<1>9. ASSUME NEW c \in CategorySlugs, ArchiveCategory(c) PROVE TypeOK'
  BY <1>9 DEF TypeOK, ArchiveCategory
<1>10. ASSUME NEW c \in CategorySlugs, CreateSeries(c) PROVE TypeOK'
  BY <1>10, SeriesItemTypes DEF TypeOK, CreateSeries
<1>11. ASSUME NEW c \in CategorySlugs, PromoteCategory(c) PROVE TypeOK'
  BY <1>11, SeriesItemTypes DEF TypeOK, PromoteCategory
<1>12. ASSUME NEW c \in CategorySlugs, NEW requested \in SUBSET DocumentIds,
              NEW rank \in Ranks(requested), ReplaceSeriesOrder(c, requested, rank)
       PROVE  TypeOK'
  <2>1. \A d \in requested : rank[d] \in Nat
    BY DEF Ranks
  <2>2. seriesItems' \in [CategorySlugs -> [DocumentIds -> Nat]]
    BY <1>12, <2>1 DEF ReplaceSeriesOrder, TypeOK
  <2> QED
    BY <1>12, <2>2 DEF TypeOK, ReplaceSeriesOrder
<1>13. CASE UNCHANGED vars
  BY <1>13 DEF vars, TypeOK
<1>14. CASE DocumentStep
  BY <1>1, <1>3, <1>4, <1>5, <1>6, <1>7, <1>14 DEF DocumentStep, DocumentWrite
<1>15. CASE CategoryStep
  BY <1>8, <1>9, <1>10, <1>11, <1>12, <1>15 DEF CategoryStep
<1> QED
  BY <1>13, <1>14, <1>15 DEF Next

\* The tables keep their types.
THEOREM ContentTypes == Spec => []TypeOK
<1>1. Init => TypeOK
  BY EmptySeq DEF Init, TypeOK
<1> QED
  BY <1>1, TypesPreserved, PTL DEF Spec

---------------------------------------------------------------------------
(* Paths: who may claim one.  Every step is of one of three kinds, or leaves *)
(* the two tables of paths and the set of existing categories alone.         *)

\* A draft is created, revised or moved: documents.current_slug changes.
DraftMoves(d, path) ==
  /\ path \in Paths
  /\ RootSlugNotCategory(path)
  /\ RouteAvailable(d, path)
  /\ currentSlug' = [currentSlug EXCEPT ![d] = path]
  /\ UNCHANGED <<routeOwner, categories>>

\* A revision is published: its route is written.
RouteWritten(d, path) ==
  /\ path \in Paths
  /\ RootSlugNotCategory(path)
  /\ RouteAvailable(d, path)
  /\ routeOwner' = [routeOwner EXCEPT ![path] = d]
  /\ UNCHANGED <<currentSlug, categories>>

\* A category comes into existence, with its landing page.
LandingAppears(c) ==
  /\ CategoryLandingAvailable(c)
  /\ categories' = [categories EXCEPT ![c] = "active"]
  /\ UNCHANGED <<currentSlug, routeOwner>>

PathsStay ==
  /\ UNCHANGED <<currentSlug, routeOwner>>
  /\ \A c \in CategorySlugs : categories'[c] = "absent" <=> categories[c] = "absent"

StepKinds ==
  \/ \E d \in DocumentIds : \E path \in Paths : DraftMoves(d, path)
  \/ \E d \in DocumentIds : \E path \in Paths : RouteWritten(d, path)
  \/ \E c \in CategorySlugs : LandingAppears(c)
  \/ PathsStay

\* Each operation of the repository is of one of those kinds.
LEMMA StepIsOfAKind ==
  ASSUME TypeOK, [Next]_vars PROVE StepKinds
<1> USE DEF documentVars, routeVars, categoryVars
<1>1. ASSUME NEW d \in DocumentIds, NEW slug \in Slugs, NEW category \in Placements,
             NEW key \in Keys \cup {NoKey}, CreateDocument(d, slug, category, key)
      PROVE  StepKinds
  <2>1. DraftMoves(d, RoutePath(category, slug))
    BY <1>1 DEF CreateDocument, DraftMoves, RoutePath, Paths
  <2> QED
    BY <2>1 DEF StepKinds, DraftMoves
<1>2. ASSUME NEW d \in DocumentIds, NEW base, NEW slug \in Slugs,
             NEW category \in Placements, NEW key, NEW ai,
             AppendRevision(d, base, slug, category, key, ai)
      PROVE  StepKinds
  <2>1. DraftMoves(d, RoutePath(category, slug))
    BY <1>2 DEF AppendRevision, DraftMoves, RoutePath, Paths
  <2> QED
    BY <2>1 DEF StepKinds, DraftMoves
<1>3. ASSUME NEW d \in DocumentIds, NEW base \in 1..MaxRevisions, NEW slug \in Slugs,
             NEW key, ReviseDocument(d, base, slug, key)
      PROVE  StepKinds
  BY <1>2, <1>3, RevisionTypes DEF ReviseDocument
<1>4. ASSUME NEW d \in DocumentIds, NEW base \in 1..MaxRevisions, NEW slug \in Slugs,
             NEW category \in Placements, NEW key,
             ReviseAndMove(d, base, slug, category, key)
      PROVE  StepKinds
  BY <1>2, <1>4 DEF ReviseAndMove
<1>5. ASSUME NEW d \in DocumentIds, NEW base \in 1..MaxRevisions, NEW slug \in Slugs,
             NEW key, NEW message, AppendAiProposal(d, base, slug, key, message)
      PROVE  StepKinds
  BY <1>2, <1>5, RevisionTypes DEF AppendAiProposal
<1>6. ASSUME NEW d \in DocumentIds, NEW r \in 1..MaxRevisions,
             NEW category \in Placements, AssignRevisionCategory(d, r, category)
      PROVE  StepKinds
  <2>1. RoutePath(category, revisions[d][r].slug) \in Paths
    BY <1>6, RevisionTypes DEF AssignRevisionCategory, RoutePath, Paths
  <2>2. DraftMoves(d, RoutePath(category, revisions[d][r].slug))
    BY <1>6, <2>1 DEF AssignRevisionCategory, DraftMoves
  <2> QED
    BY <2>1, <2>2 DEF StepKinds
<1>7. ASSUME NEW d \in DocumentIds, NEW r \in 1..MaxRevisions, Publish(d, r)
      PROVE  StepKinds
  <2>1. RevisionPath(d, r) \in Paths
    BY <1>7, RevisionTypes DEF Publish
  <2>2. RouteWritten(d, RevisionPath(d, r))
    BY <1>7, <2>1 DEF Publish, RouteWritten
  <2> QED
    BY <2>1, <2>2 DEF StepKinds
<1>8. ASSUME NEW c \in CategorySlugs, CreateCategory(c) \/ CreateSeries(c)
      PROVE  StepKinds
  <2>1. LandingAppears(c)
    BY <1>8 DEF CreateCategory, CreateSeries, LandingAppears
  <2> QED
    BY <2>1 DEF StepKinds
<1>9. ASSUME NEW c \in CategorySlugs, ArchiveCategory(c) PROVE StepKinds
  BY <1>9 DEF ArchiveCategory, TypeOK, StepKinds, PathsStay
<1>10. ASSUME NEW c \in CategorySlugs, NEW requested, NEW rank,
              PromoteCategory(c) \/ ReplaceSeriesOrder(c, requested, rank)
       PROVE  StepKinds
  BY <1>10 DEF PromoteCategory, ReplaceSeriesOrder, StepKinds, PathsStay
<1>11. CASE UNCHANGED vars
  BY <1>11 DEF vars, StepKinds, PathsStay
<1>12. CASE DocumentStep
  BY <1>1, <1>3, <1>4, <1>5, <1>6, <1>7, <1>12 DEF DocumentStep, DocumentWrite
<1>13. CASE CategoryStep
  BY <1>8, <1>9, <1>10, <1>13 DEF CategoryStep
<1> QED
  BY <1>11, <1>12, <1>13 DEF Next

\* A step leaves no path with two claimants.
LEMMA PathOwnedOncePreserved ==
  ASSUME TypeOK, PathOwnedOnce, [Next]_vars PROVE PathOwnedOnce'
<1> USE DEF TypeOK, PathOwnedOnce, Claims, RouteAvailable
<1>1. ASSUME NEW d \in DocumentIds, NEW path \in Paths, DraftMoves(d, path)
      PROVE  PathOwnedOnce'
  BY <1>1, BoundsAssumption, SMTT(30) DEF DraftMoves, DocumentIds
<1>2. ASSUME NEW d \in DocumentIds, NEW path \in Paths, RouteWritten(d, path)
      PROVE  PathOwnedOnce'
  BY <1>2, BoundsAssumption DEF RouteWritten, DocumentIds
<1>3. CASE UNCHANGED <<currentSlug, routeOwner>>
  BY <1>3
<1> QED
  BY <1>1, <1>2, <1>3, StepIsOfAKind DEF StepKinds, LandingAppears, PathsStay

\* No public path, draft, live or historical, is ever claimed by two documents.
THEOREM PathsOwnedOnce == Spec => []PathOwnedOnce
<1>1. Init => PathOwnedOnce
  BY SlugAssumption, BoundsAssumption DEF Init, PathOwnedOnce, Claims, DocumentIds
<1> QED
  BY <1>1, ContentTypes, PathOwnedOncePreserved, PTL DEF Spec

\* A new draft or route at the root is no landing page: its slug would equal
\* its own lower-case form, which the NOCASE comparison excludes.
LEMMA RootPathsAvoidLandings ==
  ASSUME NEW path \in Paths, RootSlugNotCategory(path), NEW c \in CategorySlugs,
         categories[c] # "absent"
  PROVE  path # RoutePath(Root, c)
  BY SlugAssumption DEF RootSlugNotCategory, RoutePath, Paths

\* A step puts no document on a landing page and no landing page on a document.
LEMMA LandingPagesPreserved ==
  ASSUME TypeOK, LandingPagesFree, [Next]_vars PROVE LandingPagesFree'
<1> USE DEF TypeOK, LandingPagesFree, Claims
<1>0. \A c \in CategorySlugs : RoutePath(Root, c) \in Paths
  BY SlugAssumption DEF RoutePath, Paths, Placements
<1>1. ASSUME NEW d \in DocumentIds, NEW path \in Paths, DraftMoves(d, path)
      PROVE  LandingPagesFree'
  BY <1>0, <1>1, RootPathsAvoidLandings DEF DraftMoves
<1>2. ASSUME NEW d \in DocumentIds, NEW path \in Paths, RouteWritten(d, path)
      PROVE  LandingPagesFree'
  BY <1>0, <1>2, RootPathsAvoidLandings DEF RouteWritten
<1>3. ASSUME NEW c \in CategorySlugs, LandingAppears(c) PROVE LandingPagesFree'
  BY <1>0, <1>3, BoundsAssumption DEF LandingAppears, CategoryLandingAvailable, DocumentIds
<1>4. CASE PathsStay
  BY <1>0, <1>4 DEF PathsStay
<1> QED
  BY <1>1, <1>2, <1>3, <1>4, StepIsOfAKind DEF StepKinds

\* The landing page of a category is never also the address of a document.
THEOREM LandingPagesStayFree == Spec => []LandingPagesFree
<1>1. Init => LandingPagesFree
  BY DEF Init, LandingPagesFree
<1> QED
  BY <1>1, ContentTypes, LandingPagesPreserved, PTL DEF Spec

\* Two documents, or a document and the landing page of a category, never
\* answer at the same address, for any set of slugs and any numbers of
\* documents and revisions.
THEOREM AddressClaimsStayDisjoint == Spec => []AddressClaimsDisjoint
<1>1. PathOwnedOnce /\ LandingPagesFree => AddressClaimsDisjoint
  BY DEF AddressClaimsDisjoint
<1> QED
  BY <1>1, PathsOwnedOnce, LandingPagesStayFree, PTL

\* No step removes a route or gives it to another document.
THEOREM RoutesStay == Spec => RoutesPermanent
<1>1. TypeOK /\ [Next]_vars =>
        [\A p \in Paths : routeOwner[p] # 0 => routeOwner'[p] = routeOwner[p]]_vars
  <2> SUFFICES ASSUME TypeOK, [Next]_vars, NEW p \in Paths, routeOwner[p] # 0
               PROVE  routeOwner'[p] = routeOwner[p]
    OBVIOUS
  <2> QED
    BY StepIsOfAKind DEF TypeOK, StepKinds, DraftMoves, RouteWritten, RouteAvailable,
                         LandingAppears, PathsStay
<1> QED
  BY <1>1, ContentTypes, PTL DEF Spec, RoutesPermanent

---------------------------------------------------------------------------
(* Publication: which revision the readers get, and where. *)

\* The published revision and its path outlive every step that does not
\* publish: revisions are only appended, and a placement is only moved on a
\* revision that is not public.
LEMMA CanonicalKept ==
  ASSUME TypeOK, PublicationInv, UNCHANGED <<publishedRevision, routeOwner, canonical>>,
         \A d \in DocumentIds : \A i \in 1..Len(revisions[d]) :
           i = publishedRevision[d] => revisions'[d][i] = revisions[d][i]
  PROVE  CanonicalRouteIsPublished'
<1> SUFFICES ASSUME NEW d \in DocumentIds
             PROVE  {p \in Paths : routeOwner'[p] = d /\ p \in canonical'} =
                      IF publishedRevision'[d] = 0 THEN {}
                        ELSE {RevisionPath(d, publishedRevision[d])'}
  BY DEF CanonicalRouteIsPublished
<1>1. CASE publishedRevision[d] = 0
  BY <1>1 DEF PublicationInv, CanonicalRouteIsPublished
<1>2. CASE publishedRevision[d] # 0
  <2>1. publishedRevision[d] \in 1..Len(revisions[d])
    BY <1>2 DEF PublicationInv, PublishedExists, TypeOK
  <2>2. RevisionPath(d, publishedRevision[d])' = RevisionPath(d, publishedRevision[d])
    BY <2>1 DEF RevisionPath, RoutePath
  <2> QED
    BY <1>2, <2>2 DEF PublicationInv, CanonicalRouteIsPublished
<1> QED
  BY <1>1, <1>2

\* Each step keeps status, pointers and routes in agreement.
LEMMA PublicationPreserved ==
  ASSUME TypeOK, PublicationInv, [Next]_vars PROVE PublicationInv'
<1> USE DEF documentVars, routeVars, categoryVars
<1>0. \A d \in DocumentIds : Len(revisions[d]) \in Nat
  BY LenProperties DEF TypeOK
<1>1. ASSUME NEW d \in DocumentIds, NEW slug \in Slugs, NEW category \in Placements,
             NEW key \in Keys \cup {NoKey}, CreateDocument(d, slug, category, key)
      PROVE  PublicationInv'
  <2> DEFINE new == [slug |-> slug, category |-> category, parent |-> 0,
                     key |-> key, ai |-> FALSE]
  <2>1. publishedRevision[d] = 0
    BY <1>1 DEF CreateDocument, PublicationInv, StatusMatchesPointer, TypeOK
  <2>2. /\ revisions'[d] = <<new>>
        /\ \A e \in DocumentIds \ {d} : revisions'[e] = revisions[e]
    BY <1>1 DEF CreateDocument, TypeOK
  <2>3. new.slug = slug /\ new.category = category
    OBVIOUS
  <2> HIDE DEF new
  <2>4. Len(revisions'[d]) = 1 /\ revisions'[d][1] = new
    BY <2>2
  <2>5. PublishedExists' /\ AbsentIsEmpty'
    BY <1>1, <2>1, <2>2, <2>4 DEF CreateDocument, PublicationInv, PublishedExists,
                                  AbsentIsEmpty, TypeOK
  <2>6. StatusMatchesPointer' /\ RoutesResolve'
    BY <1>1, <2>1 DEF CreateDocument, PublicationInv, StatusMatchesPointer, RoutesResolve,
                      TypeOK
  <2>7. DraftPathIsCurrent'
    BY <1>1, <2>2, <2>3, <2>4 DEF CreateDocument, PublicationInv, DraftPathIsCurrent,
                                  RevisionPath, RoutePath, TypeOK
  <2>8. CanonicalRouteIsPublished'
    BY <1>0, <1>1, <2>1, <2>2, CanonicalKept DEF CreateDocument
  <2> QED
    BY <2>5, <2>6, <2>7, <2>8 DEF PublicationInv
<1>2. ASSUME NEW d \in DocumentIds, NEW base \in 1..MaxRevisions, NEW slug \in Slugs,
             NEW category \in Placements, NEW key \in Keys \cup {NoKey},
             NEW ai \in BOOLEAN, AppendRevision(d, base, slug, category, key, ai)
      PROVE  PublicationInv'
  <2>1. /\ Len(revisions'[d]) = Len(revisions[d]) + 1
        /\ \A i \in 1..Len(revisions[d]) : revisions'[d][i] = revisions[d][i]
        /\ revisions'[d][Len(revisions[d]) + 1].slug = slug
        /\ revisions'[d][Len(revisions[d]) + 1].category = category
        /\ \A e \in DocumentIds \ {d} : revisions'[e] = revisions[e]
    BY <1>2, AppendRevisionEffect
  <2>2. PublishedExists' /\ AbsentIsEmpty'
    BY <1>0, <1>2, <2>1 DEF AppendRevision, PublicationInv, PublishedExists,
                            AbsentIsEmpty, TypeOK
  <2>3. StatusMatchesPointer' /\ RoutesResolve'
    BY <1>2 DEF AppendRevision, PublicationInv, StatusMatchesPointer, RoutesResolve, TypeOK
  <2>4. DraftPathIsCurrent'
    BY <1>0, <1>2, <2>1 DEF AppendRevision, PublicationInv, DraftPathIsCurrent,
                            RevisionPath, RoutePath, TypeOK
  <2>5. CanonicalRouteIsPublished'
    BY <1>2, <2>1, CanonicalKept DEF AppendRevision
  <2> QED
    BY <2>2, <2>3, <2>4, <2>5 DEF PublicationInv
<1>3. ASSUME NEW d \in DocumentIds, NEW base \in 1..MaxRevisions, NEW slug \in Slugs,
             NEW key \in Keys \cup {NoKey}, ReviseDocument(d, base, slug, key)
      PROVE  PublicationInv'
  BY <1>2, <1>3, RevisionTypes DEF ReviseDocument
<1>4. ASSUME NEW d \in DocumentIds, NEW base \in 1..MaxRevisions, NEW slug \in Slugs,
             NEW category \in Placements, NEW key \in Keys \cup {NoKey},
             ReviseAndMove(d, base, slug, category, key)
      PROVE  PublicationInv'
  BY <1>2, <1>4 DEF ReviseAndMove
<1>5. ASSUME NEW d \in DocumentIds, NEW base \in 1..MaxRevisions, NEW slug \in Slugs,
             NEW key \in Keys, NEW message \in Messages,
             AppendAiProposal(d, base, slug, key, message)
      PROVE  PublicationInv'
  BY <1>2, <1>5, RevisionTypes DEF AppendAiProposal
<1>6. ASSUME NEW d \in DocumentIds, NEW r \in 1..MaxRevisions,
             NEW category \in Placements, AssignRevisionCategory(d, r, category)
      PROVE  PublicationInv'
  <2>1. /\ Len(revisions'[d]) = Len(revisions[d])
        /\ \A i \in 1..Len(revisions[d]) : i # r => revisions'[d][i] = revisions[d][i]
        /\ revisions'[d][r].slug = revisions[d][r].slug
        /\ revisions'[d][r].category = category
        /\ \A e \in DocumentIds \ {d} : revisions'[e] = revisions[e]
    BY <1>6, AssignEffect
  <2>2. PublishedExists' /\ AbsentIsEmpty' /\ StatusMatchesPointer' /\ RoutesResolve'
    BY <1>6, <2>1 DEF AssignRevisionCategory, PublicationInv, PublishedExists,
                      AbsentIsEmpty, StatusMatchesPointer, RoutesResolve
  <2>3. DraftPathIsCurrent'
    <3>1. RevisionPath(d, r)' = RoutePath(category, revisions[d][r].slug)
      BY <2>1 DEF RevisionPath
    <3>2. \A e \in DocumentIds \ {d} : \A i : RevisionPath(e, i)' = RevisionPath(e, i)
      BY <2>1 DEF RevisionPath
    <3> QED
      BY <1>6, <2>1, <3>1, <3>2 DEF AssignRevisionCategory, PublicationInv,
                                    DraftPathIsCurrent, TypeOK
  <2>4. CanonicalRouteIsPublished'
    BY <1>6, <2>1, CanonicalKept DEF AssignRevisionCategory
  <2> QED
    BY <2>2, <2>3, <2>4 DEF PublicationInv
<1>7. ASSUME NEW d \in DocumentIds, NEW r \in 1..MaxRevisions, Publish(d, r)
      PROVE  PublicationInv'
  <2> DEFINE path == RevisionPath(d, r)
  <2>1. path \in Paths /\ r \in 1..Len(revisions[d])
    BY <1>7, RevisionTypes DEF Publish
  <2>2. PublishedExists' /\ AbsentIsEmpty'
    BY <1>7, <2>1 DEF Publish, PublicationInv, PublishedExists, AbsentIsEmpty, TypeOK
  <2>3. StatusMatchesPointer'
    BY <1>7, <2>1 DEF Publish, PublicationInv, StatusMatchesPointer, TypeOK
  <2>4. RoutesResolve'
    BY <1>7, <2>1 DEF Publish, PublicationInv, RoutesResolve, TypeOK
  <2>5. DraftPathIsCurrent'
    <3>1. status[d] # "absent"
      BY <2>1 DEF PublicationInv, AbsentIsEmpty
    <3> QED
      BY <1>7, <3>1 DEF Publish, PublicationInv, DraftPathIsCurrent, RevisionPath, TypeOK
  <2>6. CanonicalRouteIsPublished'
    <3> SUFFICES ASSUME NEW e \in DocumentIds
                 PROVE  {p \in Paths : routeOwner'[p] = e /\ p \in canonical'} =
                          IF publishedRevision'[e] = 0 THEN {}
                            ELSE {RevisionPath(e, publishedRevision'[e])}
      BY <1>7 DEF Publish, CanonicalRouteIsPublished, RevisionPath
    <3>1. /\ routeOwner' = [routeOwner EXCEPT ![path] = d]
          /\ canonical' = {p \in canonical : routeOwner[p] # d} \cup {path}
          /\ publishedRevision' = [publishedRevision EXCEPT ![d] = r]
      BY <1>7 DEF Publish
    <3>2. CASE e = d
      <4>1. publishedRevision'[e] = r /\ r # 0
        BY <3>1, <3>2, <2>1 DEF TypeOK
      <4> QED
        BY <2>1, <3>1, <3>2, <4>1 DEF TypeOK
    <3>3. CASE e # d
      <4>1. publishedRevision'[e] = publishedRevision[e]
        BY <3>1, <3>3 DEF TypeOK
      <4>2. {p \in Paths : routeOwner'[p] = e /\ p \in canonical'} =
              {p \in Paths : routeOwner[p] = e /\ p \in canonical}
        <5> HIDE DEF path
        <5>1. routeOwner[path] # e
          BY <1>7, <2>1, <3>3, BoundsAssumption DEF Publish, path, DocumentIds
        <5> QED
          BY <2>1, <3>1, <3>3, <5>1 DEF TypeOK
      <4> QED
        BY <4>1, <4>2 DEF PublicationInv, CanonicalRouteIsPublished
    <3> QED
      BY <3>2, <3>3
  <2> QED
    BY <2>2, <2>3, <2>4, <2>5, <2>6 DEF PublicationInv
<1>8. CASE UNCHANGED <<documentVars, revisions, routeVars>>
  BY <1>8 DEF PublicationInv, PublishedExists, AbsentIsEmpty, StatusMatchesPointer,
              RoutesResolve, DraftPathIsCurrent, CanonicalRouteIsPublished, RevisionPath
<1>9. CASE UNCHANGED vars
  BY <1>8, <1>9 DEF vars
<1>10. CASE DocumentStep
  BY <1>1, <1>3, <1>4, <1>5, <1>6, <1>7, <1>10 DEF DocumentStep, DocumentWrite
<1>11. CASE CategoryStep
  BY <1>8, <1>11 DEF CategoryStep, CreateCategory, ArchiveCategory, CreateSeries,
                     PromoteCategory, ReplaceSeriesOrder
<1> QED
  BY <1>9, <1>10, <1>11 DEF Next

\* The inductive invariant of publication holds in every reachable state.
THEOREM PublicationInvariant == Spec => []PublicationInv
<1>1. Init => PublicationInv
  BY EmptySeq, BoundsAssumption DEF Init, PublicationInv, PublishedExists, AbsentIsEmpty,
     StatusMatchesPointer, RoutesResolve, DraftPathIsCurrent,
     CanonicalRouteIsPublished, DocumentIds
<1> QED
  BY <1>1, ContentTypes, PublicationPreserved, PTL DEF Spec

\* A published document has exactly one canonical route, that of the revision
\* its readers get; an unpublished one has none.
THEOREM CanonicalFollowsPublication == Spec => []CanonicalRouteIsPublished
<1>1. PublicationInv => CanonicalRouteIsPublished
  BY DEF PublicationInv
<1> QED
  BY <1>1, PublicationInvariant, PTL

\* The path stored with a document is the path of its current revision.
THEOREM DraftPathsCurrent == Spec => []DraftPathIsCurrent
<1>1. PublicationInv => DraftPathIsCurrent
  BY DEF PublicationInv
<1> QED
  BY <1>1, PublicationInvariant, PTL

\* Every stored route leads to a published document.
THEOREM RoutesAlwaysResolve == Spec => []RoutesResolve
<1>1. PublicationInv => RoutesResolve
  BY DEF PublicationInv
<1> QED
  BY <1>1, PublicationInvariant, PTL

\* All columns that say what is public agree: the path of the draft, the
\* canonical and the historical routes, the status and the pointer.
THEOREM PublicationStaysConsistent == Spec => []PublicationConsistent
<1>1. PublicationInv => PublicationConsistent
  BY DEF PublicationInv, PublicationConsistent
<1> QED
  BY <1>1, PublicationInvariant, PTL

\* What a step may do to the revisions that exist.
HistoryStep ==
  \A d \in DocumentIds : \A i \in DOMAIN revisions[d] :
    /\ i \in DOMAIN revisions'[d]
    /\ revisions'[d][i] # revisions[d][i] =>
         /\ i = currentRevision[d]
         /\ i # publishedRevision[d]
         /\ revisions'[d][i] =
              [revisions[d][i] EXCEPT !.category = revisions'[d][i].category]

\* Each step appends, or moves the placement of an unpublished draft.
LEMMA HistoryKept ==
  ASSUME TypeOK, TypeOK', PublicationInv, [Next]_vars PROVE HistoryStep
<1> USE DEF documentVars, routeVars, categoryVars
<1>0. \A d \in DocumentIds :
        /\ Len(revisions[d]) \in Nat
        /\ DOMAIN revisions[d] = 1..Len(revisions[d])
        /\ Len(revisions'[d]) \in Nat
        /\ DOMAIN revisions'[d] = 1..Len(revisions'[d])
  BY LenProperties DEF TypeOK
<1>1. ASSUME NEW d \in DocumentIds, NEW slug \in Slugs, NEW category \in Placements,
             NEW key \in Keys \cup {NoKey}, CreateDocument(d, slug, category, key)
      PROVE  HistoryStep
  <2>1. Len(revisions[d]) = 0
    BY <1>1 DEF CreateDocument, PublicationInv, AbsentIsEmpty
  <2>2. \A e \in DocumentIds \ {d} : revisions'[e] = revisions[e]
    BY <1>1 DEF CreateDocument, TypeOK
  <2> QED
    BY <1>0, <2>1, <2>2 DEF HistoryStep
<1>2. ASSUME NEW d \in DocumentIds, NEW base \in 1..MaxRevisions, NEW slug \in Slugs,
             NEW category \in Placements, NEW key \in Keys \cup {NoKey},
             NEW ai \in BOOLEAN, AppendRevision(d, base, slug, category, key, ai)
      PROVE  HistoryStep
  <2>1. /\ Len(revisions'[d]) = Len(revisions[d]) + 1
        /\ \A i \in 1..Len(revisions[d]) : revisions'[d][i] = revisions[d][i]
        /\ \A e \in DocumentIds \ {d} : revisions'[e] = revisions[e]
    BY <1>2, AppendRevisionEffect
  <2> QED
    BY <1>0, <2>1 DEF HistoryStep
<1>3. ASSUME NEW d \in DocumentIds, NEW base \in 1..MaxRevisions, NEW slug \in Slugs,
             NEW key \in Keys \cup {NoKey}, ReviseDocument(d, base, slug, key)
      PROVE  HistoryStep
  BY <1>2, <1>3, RevisionTypes DEF ReviseDocument
<1>4. ASSUME NEW d \in DocumentIds, NEW base \in 1..MaxRevisions, NEW slug \in Slugs,
             NEW category \in Placements, NEW key \in Keys \cup {NoKey},
             ReviseAndMove(d, base, slug, category, key)
      PROVE  HistoryStep
  BY <1>2, <1>4 DEF ReviseAndMove
<1>5. ASSUME NEW d \in DocumentIds, NEW base \in 1..MaxRevisions, NEW slug \in Slugs,
             NEW key \in Keys, NEW message \in Messages,
             AppendAiProposal(d, base, slug, key, message)
      PROVE  HistoryStep
  BY <1>2, <1>5, RevisionTypes DEF AppendAiProposal
<1>6. ASSUME NEW d \in DocumentIds, NEW r \in 1..MaxRevisions,
             NEW category \in Placements, AssignRevisionCategory(d, r, category)
      PROVE  HistoryStep
  <2>1. /\ Len(revisions'[d]) = Len(revisions[d])
        /\ \A i \in 1..Len(revisions[d]) : i # r => revisions'[d][i] = revisions[d][i]
        /\ revisions'[d][r].category = category
        /\ \A e \in DocumentIds \ {d} : revisions'[e] = revisions[e]
    BY <1>6, AssignEffect
  <2>2. r = currentRevision[d] /\ r # publishedRevision[d]
    BY <1>6 DEF AssignRevisionCategory
  <2>3. revisions'[d][r] = [revisions[d][r] EXCEPT !.category = revisions'[d][r].category]
    <3>1. revisions'[d][r] = [revisions[d][r] EXCEPT !.category = category]
      BY <1>0, <1>6 DEF AssignRevisionCategory, TypeOK
    <3> QED
      BY <2>1, <3>1
  <2> SUFFICES ASSUME NEW e \in DocumentIds, NEW i \in DOMAIN revisions[e]
               PROVE  /\ i \in DOMAIN revisions'[e]
                      /\ revisions'[e][i] # revisions[e][i] =>
                           /\ i = currentRevision[e]
                           /\ i # publishedRevision[e]
                           /\ revisions'[e][i] = [revisions[e][i] EXCEPT
                                !.category = revisions'[e][i].category]
    BY DEF HistoryStep
  <2>4. CASE e = d /\ i = r
    BY <1>0, <2>1, <2>2, <2>3, <2>4
  <2>5. CASE ~(e = d /\ i = r)
    BY <1>0, <2>1, <2>5
  <2> QED
    BY <2>4, <2>5
<1>7. CASE UNCHANGED revisions
  BY <1>7 DEF HistoryStep
<1>8. CASE DocumentStep
  BY <1>1, <1>3, <1>4, <1>5, <1>6, <1>7, <1>8 DEF DocumentStep, DocumentWrite, Publish
<1>9. CASE CategoryStep
  BY <1>7, <1>9 DEF CategoryStep, CreateCategory, ArchiveCategory, CreateSeries,
                    PromoteCategory, ReplaceSeriesOrder
<1> QED
  BY <1>7, <1>8, <1>9 DEF Next, vars

\* Published history cannot be rewritten: revisions are only appended, and
\* only the placement of a draft that is not public may still change.
THEOREM HistoryStaysImmutable == Spec => HistoryImmutable
<1>1. TypeOK /\ TypeOK' /\ PublicationInv /\ [Next]_vars =>
        [\A d \in DocumentIds : \A i \in DOMAIN revisions[d] :
           /\ i \in DOMAIN revisions'[d]
           /\ revisions'[d][i] # revisions[d][i] =>
                /\ i = currentRevision[d]
                /\ i # publishedRevision[d]
                /\ revisions'[d][i] =
                     [revisions[d][i] EXCEPT !.category = revisions'[d][i].category]]_vars
  BY HistoryKept DEF HistoryStep
<1> QED
  BY <1>1, ContentTypes, PublicationInvariant, PTL DEF Spec, HistoryImmutable

---------------------------------------------------------------------------
(* Series: who is published where, and in which order. *)

\* A step that publishes nothing leaves every published set as it was: the
\* revision a reader gets keeps its placement.
LEMMA PublishedInKept ==
  ASSUME TypeOK, PublicationInv, HistoryStep, UNCHANGED publishedRevision
  PROVE  \A c : PublishedIn(c)' = PublishedIn(c)
<1>1. ASSUME NEW d \in DocumentIds, publishedRevision[d] # 0
      PROVE  revisions'[d][publishedRevision[d]] = revisions[d][publishedRevision[d]]
  <2>1. publishedRevision[d] \in 1..Len(revisions[d])
    BY <1>1 DEF PublicationInv, PublishedExists, TypeOK
  <2>2. publishedRevision[d] \in DOMAIN revisions[d]
    BY <2>1, LenProperties DEF TypeOK
  <2> QED
    BY <2>2 DEF HistoryStep
<1> QED
  BY <1>1 DEF PublishedIn

\* publish_in_transaction brings its document into the category of the revision
\* and takes it out of every other.
LEMMA PublishedByPublish ==
  ASSUME TypeOK, NEW d \in DocumentIds, NEW r \in 1..MaxRevisions, Publish(d, r),
         NEW c
  PROVE  PublishedIn(c)' = IF c = RevisionPath(d, r).category THEN PublishedIn(c) \cup {d}
                                                              ELSE PublishedIn(c) \ {d}
<1>1. /\ publishedRevision' = [publishedRevision EXCEPT ![d] = r]
      /\ revisions' = revisions
  BY DEF Publish
<1>2. publishedRevision'[d] = r /\ r # 0
  BY <1>1 DEF TypeOK
<1>3. \A e \in DocumentIds \ {d} : publishedRevision'[e] = publishedRevision[e]
  BY <1>1 DEF TypeOK
<1>4. RevisionPath(d, r).category = revisions[d][r].category
  BY DEF RevisionPath, RoutePath
<1> QED
  BY <1>1, <1>2, <1>3, <1>4 DEF PublishedIn

\* What ensure_series_item_for_revision leaves: the document has an item of the
\* series, and every item that existed is as it was.
LEMMA SeriesItemEnsured ==
  ASSUME TypeOK, NEW d \in DocumentIds, NEW category \in Placements,
         EnsureSeriesItem(d, category)
  PROVE  /\ category \in series => seriesItems'[category][d] > 0
         /\ \A c \in CategorySlugs, e \in DocumentIds :
              seriesItems[c][e] > 0 => seriesItems'[c][e] = seriesItems[c][e]
<1>1. CASE UNCHANGED seriesItems /\ (category \in series => seriesItems[category][d] > 0)
  BY <1>1
<1>2. CASE category \in series /\ seriesItems[category][d] = 0 /\ AppendSeriesItem(d, category)
  <2>1. PICK last \in LastPositions(category) :
          seriesItems' = [seriesItems EXCEPT ![category][d] = last + 1]
    BY <1>2 DEF AppendSeriesItem
  <2>2. category \in CategorySlugs
    BY <1>2 DEF TypeOK
  <2>3. last \in Nat
    BY <2>2 DEF LastPositions, TypeOK
  <2>4. seriesItems'[category][d] = last + 1
    BY <2>1, <2>2 DEF TypeOK
  <2>5. \A c \in CategorySlugs, e \in DocumentIds :
          ~(c = category /\ e = d) => seriesItems'[c][e] = seriesItems[c][e]
    BY <2>1, <2>2 DEF TypeOK
  <2> QED
    BY <1>2, <2>3, <2>4, <2>5
<1> QED
  BY <1>1, <1>2 DEF EnsureSeriesItem

\* A step makes a new series, publishes, reorders a series, or leaves the
\* members of each series and their positions alone.
SeriesStepKinds ==
  \/ UNCHANGED <<publishedRevision, series, seriesItems>>
  \/ \E d \in DocumentIds, r \in 1..MaxRevisions : Publish(d, r)
  \/ \E c \in CategorySlugs \ series :
       SeriesForCategory(c) /\ UNCHANGED <<publishedRevision, revisions>>
  \/ \E c \in CategorySlugs : \E requested \in SUBSET DocumentIds :
       \E rank \in Ranks(requested) : ReplaceSeriesOrder(c, requested, rank)

\* A write of a document creates it, appends a revision, moves its draft or
\* publishes it.
LEMMA DocumentStepForms ==
  ASSUME DocumentStep
  PROVE  \E d \in DocumentIds :
           \/ \E slug, category, key : CreateDocument(d, slug, category, key)
           \/ \E base, slug, category, key, ai :
                AppendRevision(d, base, slug, category, key, ai)
           \/ \E r, category : AssignRevisionCategory(d, r, category)
           \/ \E r \in 1..MaxRevisions : Publish(d, r)
<1>1. PICK d \in DocumentIds :
        \/ \E slug \in Slugs, category \in Placements, key \in Keys \cup {NoKey} :
             CreateDocument(d, slug, category, key)
        \/ \E base \in 1..MaxRevisions, slug \in Slugs, key \in Keys \cup {NoKey} :
             \/ ReviseDocument(d, base, slug, key)
             \/ \E category \in Placements : ReviseAndMove(d, base, slug, category, key)
             \/ \E message \in Messages :
                  key # NoKey /\ AppendAiProposal(d, base, slug, key, message)
        \/ \E r \in 1..MaxRevisions :
             \/ \E category \in Placements : AssignRevisionCategory(d, r, category)
             \/ Publish(d, r)
  BY DEF DocumentStep, DocumentWrite
<1> QED
  BY <1>1 DEF ReviseDocument, ReviseAndMove, AppendAiProposal

\* Writes of documents leave categories alone, and only publication touches what
\* is published and the members of a series.
LEMMA DocumentStepFrame ==
  ASSUME DocumentStep
  PROVE  /\ UNCHANGED <<categories, series>>
         /\ \/ UNCHANGED <<publishedRevision, series, seriesItems>>
            \/ \E d \in DocumentIds, r \in 1..MaxRevisions : Publish(d, r)
<1> USE DEF documentVars, routeVars, categoryVars
<1>1. PICK d \in DocumentIds :
        \/ \E slug, category, key : CreateDocument(d, slug, category, key)
        \/ \E base, slug, category, key, ai :
             AppendRevision(d, base, slug, category, key, ai)
        \/ \E r, category : AssignRevisionCategory(d, r, category)
        \/ \E r \in 1..MaxRevisions : Publish(d, r)
  BY DocumentStepForms
<1>2. ASSUME NEW slug, NEW category, NEW key, CreateDocument(d, slug, category, key)
      PROVE  UNCHANGED <<categories, publishedRevision, series, seriesItems>>
  BY <1>2 DEF CreateDocument
<1>3. ASSUME NEW base, NEW slug, NEW category, NEW key, NEW ai,
             AppendRevision(d, base, slug, category, key, ai)
      PROVE  UNCHANGED <<categories, publishedRevision, series, seriesItems>>
  BY <1>3 DEF AppendRevision
<1>4. ASSUME NEW r, NEW category, AssignRevisionCategory(d, r, category)
      PROVE  UNCHANGED <<categories, publishedRevision, series, seriesItems>>
  BY <1>4 DEF AssignRevisionCategory
<1>5. ASSUME NEW r \in 1..MaxRevisions, Publish(d, r)
      PROVE  UNCHANGED <<categories, series>>
  BY <1>5 DEF Publish
<1> QED
  BY <1>1, <1>2, <1>3, <1>4, <1>5

\* Every operation is of one of the kinds of SeriesStepKinds.
LEMMA SeriesStepIsOfAKind ==
  ASSUME SeriesBacked, [Next]_vars PROVE SeriesStepKinds
<1> USE DEF documentVars, routeVars, categoryVars
<1>1. CASE DocumentStep
  BY <1>1, DocumentStepFrame DEF SeriesStepKinds
<1>2. ASSUME NEW c \in CategorySlugs, CreateSeries(c) \/ PromoteCategory(c)
      PROVE  SeriesStepKinds
  BY <1>2 DEF CreateSeries, PromoteCategory, SeriesBacked, SeriesStepKinds
<1>3. CASE CategoryStep
  BY <1>2, <1>3 DEF CategoryStep, CreateCategory, ArchiveCategory, SeriesStepKinds
<1>4. CASE UNCHANGED vars
  BY <1>4 DEF vars, SeriesStepKinds
<1> QED
  BY <1>1, <1>3, <1>4 DEF Next

\* The first positions of a new series are those of its published documents.
LEMMA FirstPositions ==
  ASSUME TypeOK, NEW c \in CategorySlugs, SeriesForCategory(c)
  PROVE  /\ series' = series \cup {c}
         /\ \A d \in PublishedIn(c) : seriesItems'[c][d] > 0
         /\ \A b \in CategorySlugs \ {c} : seriesItems'[b] = seriesItems[b]
<1>1. ASSUME NEW d \in PublishedIn(c) PROVE Cardinality(PublishedIn(c) \cap 1..d) > 0
  <2>1. d \in DocumentIds /\ d \in Nat /\ d >= 1
    BY BoundsAssumption DEF PublishedIn, DocumentIds
  <2>2. IsFiniteSet(1..d)
    BY <2>1, FS_Interval
  <2>3. IsFiniteSet(PublishedIn(c) \cap 1..d)
    BY <2>2, FS_Subset
  <2>4. PublishedIn(c) \cap 1..d # {}
    BY <2>1
  <2> QED
    BY <2>3, <2>4, FS_EmptySet, FS_CardinalityType
<1>2. seriesItems' = [seriesItems EXCEPT ![c] =
        [d \in DocumentIds |->
           IF d \in PublishedIn(c) THEN Cardinality(PublishedIn(c) \cap 1..d)
                                   ELSE seriesItems[c][d]]]
  BY DEF SeriesForCategory
<1>3. seriesItems'[c] = [d \in DocumentIds |->
           IF d \in PublishedIn(c) THEN Cardinality(PublishedIn(c) \cap 1..d)
                                   ELSE seriesItems[c][d]]
  BY <1>2 DEF TypeOK
<1>4. \A d \in PublishedIn(c) : d \in DocumentIds
  BY DEF PublishedIn
<1>5. \A b \in CategorySlugs \ {c} : seriesItems'[b] = seriesItems[b]
  BY <1>2 DEF TypeOK
<1> QED
  BY <1>1, <1>3, <1>4, <1>5 DEF SeriesForCategory

\* replace_series_order gives each named member a position and leaves the
\* others theirs.
LEMMA OrderReplaced ==
  ASSUME TypeOK, NEW c \in CategorySlugs, NEW requested \in SUBSET DocumentIds,
         NEW rank \in Ranks(requested), ReplaceSeriesOrder(c, requested, rank)
  PROVE  /\ UNCHANGED <<publishedRevision, revisions, series>>
         /\ \A d \in requested : seriesItems'[c][d] > 0
         /\ \A d \in DocumentIds \ requested : seriesItems'[c][d] = seriesItems[c][d]
         /\ \A b \in CategorySlugs \ {c} : seriesItems'[b] = seriesItems[b]
<1>1. \A d \in requested : rank[d] > 0
  BY DEF Ranks
<1>2. seriesItems' = [seriesItems EXCEPT ![c] =
        [d \in DocumentIds |-> IF d \in requested THEN rank[d] ELSE seriesItems[c][d]]]
  BY DEF ReplaceSeriesOrder
<1>3. seriesItems'[c] =
        [d \in DocumentIds |-> IF d \in requested THEN rank[d] ELSE seriesItems[c][d]]
  BY <1>2 DEF TypeOK
<1>4. \A b \in CategorySlugs \ {c} : seriesItems'[b] = seriesItems[b]
  BY <1>2 DEF TypeOK
<1> QED
  BY <1>1, <1>3, <1>4 DEF ReplaceSeriesOrder, documentVars, categoryVars

\* No step loses the category of a series.
LEMMA SeriesStayBacked ==
  ASSUME TypeOK, SeriesBacked, [Next]_vars PROVE SeriesBacked'
<1> USE DEF documentVars, routeVars, categoryVars
<1>1. CASE UNCHANGED <<categories, series>>
  BY <1>1 DEF SeriesBacked
<1>2. ASSUME NEW c \in CategorySlugs,
             CreateCategory(c) \/ ArchiveCategory(c) \/ CreateSeries(c) \/ PromoteCategory(c)
      PROVE  SeriesBacked'
  BY <1>2 DEF CreateCategory, ArchiveCategory, CreateSeries, PromoteCategory,
              SeriesForCategory, SeriesBacked, TypeOK
<1>3. CASE CategoryStep
  BY <1>1, <1>2, <1>3 DEF CategoryStep, ReplaceSeriesOrder
<1>4. CASE DocumentStep
  BY <1>1, <1>4, DocumentStepFrame
<1>5. CASE UNCHANGED vars
  BY <1>1, <1>5 DEF vars
<1> QED
  BY <1>3, <1>4, <1>5 DEF Next

\* Each step leaves every series complete.
LEMMA SeriesStayComplete ==
  ASSUME TypeOK, TypeOK', PublicationInv, SeriesInv, [Next]_vars PROVE SeriesComplete'
<1> USE DEF documentVars, routeVars, categoryVars
<1>0. HistoryStep /\ SeriesStepKinds
  BY HistoryKept, SeriesStepIsOfAKind DEF SeriesInv
<1> SUFFICES ASSUME NEW c \in series', NEW e \in PublishedIn(c)'
             PROVE  seriesItems'[c][e] > 0
  BY DEF SeriesComplete, PublicMembers
<1>1. c \in CategorySlugs /\ e \in DocumentIds
  BY DEF TypeOK, PublishedIn
<1>2. c \in series => \A d \in PublishedIn(c) : seriesItems[c][d] > 0
  BY DEF SeriesInv, SeriesComplete, PublicMembers
<1>3. CASE UNCHANGED <<publishedRevision, series, seriesItems>>
  BY <1>0, <1>2, <1>3, PublishedInKept
<1>4. ASSUME NEW d \in DocumentIds, NEW r \in 1..MaxRevisions, Publish(d, r)
      PROVE  seriesItems'[c][e] > 0
  <2>1. c \in series
    BY <1>4 DEF Publish
  <2>2. RevisionPath(d, r) \in Paths /\ EnsureSeriesItem(d, RevisionPath(d, r).category)
    BY <1>4, RevisionTypes DEF Publish
  <2>3. RevisionPath(d, r).category \in Placements
    BY <2>2 DEF Paths
  <2>4. PublishedIn(c)' = IF c = RevisionPath(d, r).category THEN PublishedIn(c) \cup {d}
                                                             ELSE PublishedIn(c) \ {d}
    BY <1>4, PublishedByPublish
  <2>5. CASE e \in PublishedIn(c)
    BY <1>1, <1>2, <2>1, <2>2, <2>3, <2>5, SeriesItemEnsured
  <2>6. CASE e \notin PublishedIn(c)
    BY <1>1, <2>1, <2>2, <2>3, <2>4, <2>6, SeriesItemEnsured
  <2> QED
    BY <2>5, <2>6
<1>5. ASSUME NEW b \in CategorySlugs \ series, SeriesForCategory(b),
             UNCHANGED <<publishedRevision, revisions>>
      PROVE  seriesItems'[c][e] > 0
  BY <1>0, <1>1, <1>2, <1>5, PublishedInKept, FirstPositions
<1>6. ASSUME NEW b \in CategorySlugs, NEW requested \in SUBSET DocumentIds,
             NEW rank \in Ranks(requested), ReplaceSeriesOrder(b, requested, rank)
      PROVE  seriesItems'[c][e] > 0
  BY <1>0, <1>1, <1>2, <1>6, PublishedInKept, OrderReplaced
<1> QED
  BY <1>0, <1>3, <1>4, <1>5, <1>6 DEF SeriesStepKinds

\* Two members that stay keep their order, or the owner reorders the series.
ReadingOrderStep ==
  \A c \in series :
    \/ \A d, e \in PublicMembers(c) \cap PublicMembers(c)' :
         Before(seriesItems[c], d, e) => Before(seriesItems'[c], d, e)
    \/ \E rank \in Ranks(PublicMembers(c)) : ReplaceSeriesOrder(c, PublicMembers(c), rank)

\* The positions of the members of a series change by a reorder only: a document
\* that is published takes a position no member has, and a new series is none of
\* those that exist.
LEMMA OrderKept ==
  ASSUME TypeOK, SeriesInv, [Next]_vars PROVE ReadingOrderStep
<1>0. SeriesStepKinds
  BY SeriesStepIsOfAKind DEF SeriesInv
<1> SUFFICES ASSUME NEW c \in series
             PROVE  \/ \A d \in PublicMembers(c) : seriesItems'[c][d] = seriesItems[c][d]
                    \/ \E rank \in Ranks(PublicMembers(c)) :
                         ReplaceSeriesOrder(c, PublicMembers(c), rank)
  BY DEF ReadingOrderStep, Before
<1>1. c \in CategorySlugs /\ PublicMembers(c) \subseteq DocumentIds
  BY DEF TypeOK, PublicMembers, PublishedIn
<1>2. CASE UNCHANGED <<publishedRevision, series, seriesItems>>
  BY <1>2
<1>3. ASSUME NEW d \in DocumentIds, NEW r \in 1..MaxRevisions, Publish(d, r)
      PROVE  \A e \in PublicMembers(c) : seriesItems'[c][e] = seriesItems[c][e]
  <2>1. RevisionPath(d, r) \in Paths /\ EnsureSeriesItem(d, RevisionPath(d, r).category)
    BY <1>3, RevisionTypes DEF Publish
  <2>2. RevisionPath(d, r).category \in Placements
    BY <2>1 DEF Paths
  <2> QED
    BY <1>1, <2>1, <2>2, SeriesItemEnsured DEF PublicMembers
<1>4. ASSUME NEW b \in CategorySlugs \ series, SeriesForCategory(b)
      PROVE  seriesItems'[c] = seriesItems[c]
  BY <1>1, <1>4, FirstPositions
<1>5. ASSUME NEW b \in CategorySlugs, NEW requested \in SUBSET DocumentIds,
             NEW rank \in Ranks(requested), ReplaceSeriesOrder(b, requested, rank)
      PROVE  \/ seriesItems'[c] = seriesItems[c]
             \/ \E order \in Ranks(PublicMembers(c)) :
                  ReplaceSeriesOrder(c, PublicMembers(c), order)
  <2>1. CASE b = c
    <3>1. requested = PublicMembers(c)
      BY <1>5, <2>1 DEF ReplaceSeriesOrder
    <3> QED
      BY <1>5, <2>1, <3>1
  <2>2. CASE b # c
    BY <1>1, <1>5, <2>2, OrderReplaced
  <2> QED
    BY <2>1, <2>2
<1> QED
  BY <1>0, <1>2, <1>3, <1>4, <1>5 DEF SeriesStepKinds

\* Nothing is published into an archived category: publication looks at the
\* category's status, and no other step changes what is published where.
LEMMA ArchivedStaysClosed ==
  ASSUME TypeOK, TypeOK', PublicationInv, SeriesInv, [Next]_vars,
         NEW c \in CategorySlugs, categories[c] = "archived"
  PROVE  PublishedIn(c)' \subseteq PublishedIn(c)
<1>0. HistoryStep /\ SeriesStepKinds
  BY HistoryKept, SeriesStepIsOfAKind DEF SeriesInv
<1>1. ASSUME UNCHANGED publishedRevision PROVE PublishedIn(c)' \subseteq PublishedIn(c)
  BY <1>0, <1>1, PublishedInKept
<1>2. ASSUME NEW d \in DocumentIds, NEW r \in 1..MaxRevisions, Publish(d, r)
      PROVE  PublishedIn(c)' \subseteq PublishedIn(c)
  <2>1. PlacementOpen(RevisionPath(d, r).category)
    BY <1>2 DEF Publish
  <2>2. c # RevisionPath(d, r).category
    BY <2>1, SlugAssumption DEF PlacementOpen
  <2> QED
    BY <1>2, <2>2, PublishedByPublish
<1>3. ASSUME NEW b \in CategorySlugs, NEW requested \in SUBSET DocumentIds,
             NEW rank \in Ranks(requested), ReplaceSeriesOrder(b, requested, rank)
      PROVE  UNCHANGED publishedRevision
  BY <1>3, OrderReplaced
<1> QED
  BY <1>0, <1>1, <1>2, <1>3 DEF SeriesStepKinds

\* The series and publication invariants hold together in every reachable state.
THEOREM SeriesInvariant == Spec => [](TypeOK /\ PublicationInv /\ SeriesInv)
<1>1. Init => SeriesInv
  BY DEF Init, SeriesInv, SeriesBacked, SeriesComplete
<1>2. TypeOK /\ TypeOK' /\ PublicationInv /\ SeriesInv /\ [Next]_vars => SeriesInv'
  BY SeriesStayBacked, SeriesStayComplete DEF SeriesInv
<1> QED
  BY <1>1, <1>2, ContentTypes, PublicationInvariant, PTL DEF Spec

\* Every series shows every document published in its category, whichever came
\* first, the series, the publication or the move into the category.
THEOREM SeriesStayWhole == Spec => []SeriesComplete
<1>1. SeriesInv => SeriesComplete
  BY DEF SeriesInv
<1> QED
  BY <1>1, SeriesInvariant, PTL

\* Readers of a series or a category see it change only as its owner means: the
\* order of the members that stay is kept by every step but a reorder, and an
\* archived category receives nothing.
THEOREM CollectionsStayKept == Spec => CollectionsKept
<1>1. TypeOK /\ SeriesInv /\ [Next]_vars =>
        [\A c \in series :
           \/ \A d, e \in PublicMembers(c) \cap PublicMembers(c)' :
                Before(seriesItems[c], d, e) => Before(seriesItems'[c], d, e)
           \/ \E rank \in Ranks(PublicMembers(c)) :
                ReplaceSeriesOrder(c, PublicMembers(c), rank)]_vars
  BY OrderKept DEF ReadingOrderStep
<1>2. TypeOK /\ TypeOK' /\ PublicationInv /\ SeriesInv /\ [Next]_vars =>
        [\A c \in CategorySlugs : categories[c] = "archived" =>
           PublishedIn(c)' \subseteq PublishedIn(c)]_vars
  BY ArchivedStaysClosed
<1> QED
  BY <1>1, <1>2, SeriesInvariant, PTL DEF Spec, CollectionsKept, ReadingOrderKept,
                                          ArchivedCategoryClosed

---------------------------------------------------------------------------
(* Idempotency keys and proposals. *)

\* The revisions there were keep their key and their authorship.
KeysKept ==
  \A d \in DocumentIds : \A i \in 1..Len(revisions[d]) :
    /\ i \in 1..Len(revisions'[d])
    /\ revisions'[d][i].key = revisions[d][i].key
    /\ revisions'[d][i].ai = revisions[d][i].ai

\* Document d gets one more revision, under a key that no revision has.
RevisionAdded(d, key, ai) ==
  /\ KeyUnused(key)
  /\ Len(revisions'[d]) = Len(revisions[d]) + 1
  /\ revisions'[d][Len(revisions[d]) + 1].key = key
  /\ revisions'[d][Len(revisions[d]) + 1].ai = ai
  /\ \A e \in DocumentIds \ {d} : Len(revisions'[e]) = Len(revisions[e])

\* What a step adds to revisions and audits.
NothingAdded ==
  /\ \A e \in DocumentIds : Len(revisions'[e]) = Len(revisions[e])
  /\ audits' = audits

HumanRevision ==
  \E d \in DocumentIds, key \in Keys \cup {NoKey} :
    RevisionAdded(d, key, FALSE) /\ audits' = audits

Proposal ==
  \E d \in DocumentIds, key \in Keys, message \in Messages :
    /\ RevisionAdded(d, key, TRUE)
    /\ \A a \in audits : a.message # message
    /\ audits' = audits \cup {[document |-> d, revision |-> Len(revisions[d]) + 1,
                               message |-> message, key |-> key]}

\* No step changes the key or the authorship of a revision.
LEMMA KeysStay ==
  ASSUME TypeOK, TypeOK', HistoryStep PROVE KeysKept
<1> SUFFICES ASSUME NEW d \in DocumentIds, NEW i \in 1..Len(revisions[d])
             PROVE  /\ i \in 1..Len(revisions'[d])
                    /\ revisions'[d][i].key = revisions[d][i].key
                    /\ revisions'[d][i].ai = revisions[d][i].ai
  BY DEF KeysKept
<1>1. /\ DOMAIN revisions[d] = 1..Len(revisions[d])
      /\ DOMAIN revisions'[d] = 1..Len(revisions'[d])
  BY LenProperties DEF TypeOK
<1>2. revisions[d][i] \in Revision
  BY <1>1, RevisionTypes
<1>3. \A x : /\ [revisions[d][i] EXCEPT !.category = x].key = revisions[d][i].key
             /\ [revisions[d][i] EXCEPT !.category = x].ai = revisions[d][i].ai
  BY <1>2 DEF Revision
<1>4. i \in DOMAIN revisions'[d]
  BY <1>1 DEF HistoryStep
<1>5. \/ revisions'[d][i] = revisions[d][i]
      \/ revisions'[d][i] =
           [revisions[d][i] EXCEPT !.category = revisions'[d][i].category]
  BY <1>1 DEF HistoryStep
<1>6. CASE revisions'[d][i] = revisions[d][i]
  BY <1>1, <1>4, <1>6
<1>7. CASE revisions'[d][i] = [revisions[d][i] EXCEPT !.category = revisions'[d][i].category]
  <2> DEFINE x == revisions'[d][i].category
  <2>1. revisions'[d][i] = [revisions[d][i] EXCEPT !.category = x]
    BY <1>7
  <2> HIDE DEF x
  <2>2. /\ revisions'[d][i].key = revisions[d][i].key
        /\ revisions'[d][i].ai = revisions[d][i].ai
    BY <1>3, <2>1, Zenon
  <2> QED
    BY <1>1, <1>4, <2>2
<1> QED
  BY <1>5, <1>6, <1>7

\* Each operation adds nothing, a revision of a person, or a proposal with its
\* audit record.
LEMMA AdditionIsOfAKind ==
  ASSUME TypeOK, PublicationInv, [Next]_vars
  PROVE  NothingAdded \/ HumanRevision \/ Proposal
<1> USE DEF documentVars, routeVars, categoryVars
<1>1. ASSUME NEW d \in DocumentIds, NEW slug \in Slugs, NEW category \in Placements,
             NEW key \in Keys \cup {NoKey}, CreateDocument(d, slug, category, key)
      PROVE  HumanRevision
  <2> DEFINE new == [slug |-> slug, category |-> category, parent |-> 0,
                     key |-> key, ai |-> FALSE]
  <2>1. Len(revisions[d]) = 0
    BY <1>1 DEF CreateDocument, PublicationInv, AbsentIsEmpty
  <2>2. /\ revisions'[d] = <<new>>
        /\ \A e \in DocumentIds \ {d} : revisions'[e] = revisions[e]
    BY <1>1 DEF CreateDocument, TypeOK
  <2>3. new.key = key /\ new.ai = FALSE
    OBVIOUS
  <2> HIDE DEF new
  <2>4. Len(revisions'[d]) = 1 /\ revisions'[d][1] = new
    BY <2>2
  <2>5. RevisionAdded(d, key, FALSE)
    BY <1>1, <2>1, <2>2, <2>3, <2>4 DEF RevisionAdded, CreateDocument
  <2> QED
    BY <1>1, <2>5 DEF HumanRevision, CreateDocument
<1>2. ASSUME NEW d \in DocumentIds, NEW base \in 1..MaxRevisions, NEW slug \in Slugs,
             NEW category \in Placements, NEW key \in Keys \cup {NoKey},
             NEW ai \in BOOLEAN, AppendRevision(d, base, slug, category, key, ai)
      PROVE  RevisionAdded(d, key, ai)
  <2>1. KeyUnused(key)
    BY <1>2 DEF AppendRevision
  <2> QED
    BY <1>2, <2>1, AppendRevisionEffect DEF RevisionAdded
<1>3. ASSUME NEW d \in DocumentIds, NEW base \in 1..MaxRevisions, NEW slug \in Slugs,
             NEW key \in Keys \cup {NoKey}, ReviseDocument(d, base, slug, key)
      PROVE  HumanRevision
  BY <1>2, <1>3, RevisionTypes DEF ReviseDocument, HumanRevision
<1>4. ASSUME NEW d \in DocumentIds, NEW base \in 1..MaxRevisions, NEW slug \in Slugs,
             NEW category \in Placements, NEW key \in Keys \cup {NoKey},
             ReviseAndMove(d, base, slug, category, key)
      PROVE  HumanRevision
  BY <1>2, <1>4 DEF ReviseAndMove, HumanRevision
<1>5. ASSUME NEW d \in DocumentIds, NEW base \in 1..MaxRevisions, NEW slug \in Slugs,
             NEW key \in Keys, NEW message \in Messages,
             AppendAiProposal(d, base, slug, key, message)
      PROVE  Proposal
  <2>1. RevisionAdded(d, key, TRUE)
    BY <1>2, <1>5, RevisionTypes DEF AppendAiProposal
  <2> QED
    BY <1>5, <2>1 DEF AppendAiProposal, Proposal
<1>6. ASSUME NEW d \in DocumentIds, NEW r \in 1..MaxRevisions,
             NEW category \in Placements, AssignRevisionCategory(d, r, category)
      PROVE  NothingAdded
  BY <1>6, AssignEffect DEF AssignRevisionCategory, NothingAdded
<1>7. CASE UNCHANGED <<revisions, audits>>
  BY <1>7 DEF NothingAdded
<1>8. CASE DocumentStep
  BY <1>1, <1>3, <1>4, <1>5, <1>6, <1>7, <1>8 DEF DocumentStep, DocumentWrite, Publish
<1>9. CASE CategoryStep
  BY <1>7, <1>9 DEF CategoryStep, CreateCategory, ArchiveCategory, CreateSeries,
                    PromoteCategory, ReplaceSeriesOrder
<1> QED
  BY <1>7, <1>8, <1>9 DEF Next, vars

\* The three parts of ProposalsAudited.
KeyUniqueAt(d, e, i, j) ==
  revisions[d][i].key = revisions[e][j].key /\ revisions[d][i].key # NoKey
    => d = e /\ i = j

AuditedAt(d, i) ==
  revisions[d][i].ai <=>
    \E a \in audits : a.document = d /\ a.revision = i
                      /\ a.key = revisions[d][i].key

KeysUnique ==
  \A d, e \in DocumentIds :
    \A i \in 1..Len(revisions[d]), j \in 1..Len(revisions[e]) : KeyUniqueAt(d, e, i, j)

AuditedExactly ==
  \A d \in DocumentIds : \A i \in 1..Len(revisions[d]) : AuditedAt(d, i)

MessagesOnce == \A a, b \in audits : a.message = b.message => a = b

\* On well-typed tables the domain of a document's revisions is an interval.
LEMMA ProposalParts ==
  ASSUME TypeOK PROVE ProposalsAudited <=> KeysUnique /\ AuditedExactly /\ MessagesOnce
<1>1. \A d \in DocumentIds : DOMAIN revisions[d] = 1..Len(revisions[d])
  BY LenProperties DEF TypeOK
<1>2. KeysUnique <=>
        \A d, e \in DocumentIds :
          \A i \in DOMAIN revisions[d], j \in DOMAIN revisions[e] : KeyUniqueAt(d, e, i, j)
  BY <1>1 DEF KeysUnique
<1>3. AuditedExactly <=>
        \A d \in DocumentIds : \A i \in DOMAIN revisions[d] : AuditedAt(d, i)
  BY <1>1 DEF AuditedExactly
<1> QED
  BY <1>2, <1>3, Zenon DEF ProposalsAudited, MessagesOnce, KeyUniqueAt, AuditedAt

\* A revision whose key is unused leaves each key at one revision.
LEMMA AddedKeyUnique ==
  ASSUME TypeOK, TypeOK', KeysKept, KeysUnique,
         NEW d \in DocumentIds, NEW key, NEW ai, RevisionAdded(d, key, ai)
  PROVE  KeysUnique'
<1>0. \A e \in DocumentIds : /\ Len(revisions[e]) \in Nat /\ Len(revisions'[e]) \in Nat
                            /\ DOMAIN revisions[e] = 1..Len(revisions[e])
  BY LenProperties DEF TypeOK
<1>1. \A e \in DocumentIds : \A i \in 1..Len(revisions'[e]) :
        \/ i \in 1..Len(revisions[e])
        \/ e = d /\ i = Len(revisions[d]) + 1
  BY <1>0 DEF RevisionAdded
<1>2. key # NoKey =>
        \A e \in DocumentIds : \A i \in 1..Len(revisions[e]) : revisions[e][i].key # key
  BY <1>0 DEF RevisionAdded, KeyUnused
<1>3. revisions'[d][Len(revisions[d]) + 1].key = key
  BY DEF RevisionAdded
<1> SUFFICES ASSUME NEW e \in DocumentIds, NEW f \in DocumentIds,
                    NEW i \in 1..Len(revisions'[e]), NEW j \in 1..Len(revisions'[f]),
                    revisions'[e][i].key = revisions'[f][j].key, revisions'[e][i].key # NoKey
             PROVE  e = f /\ i = j
  BY DEF KeysUnique, KeyUniqueAt
<1>4. CASE i \in 1..Len(revisions[e]) /\ j \in 1..Len(revisions[f])
  BY <1>4, SMTT(30) DEF KeysKept, KeysUnique, KeyUniqueAt
<1>5. CASE i \in 1..Len(revisions[e]) /\ j \notin 1..Len(revisions[f])
  <2>1. revisions'[f][j].key = key
    BY <1>1, <1>3, <1>5
  <2> QED
    BY <1>2, <1>5, <2>1 DEF KeysKept
<1>6. CASE i \notin 1..Len(revisions[e]) /\ j \in 1..Len(revisions[f])
  <2>1. revisions'[e][i].key = key
    <3>1. e = d /\ i = Len(revisions[d]) + 1
      BY <1>1, <1>6
    <3> QED
      BY <1>3, <3>1
  <2>2. revisions'[f][j].key = revisions[f][j].key
    BY <1>6 DEF KeysKept
  <2> QED
    BY <1>2, <1>6, <2>1, <2>2
<1>7. CASE i \notin 1..Len(revisions[e]) /\ j \notin 1..Len(revisions[f])
  BY <1>1, <1>7
<1> QED
  BY <1>4, <1>5, <1>6, <1>7

\* A revision of a person, or no revision, leaves keys and proposals as they are.
LEMMA AuditsKeptByPeople ==
  ASSUME TypeOK, TypeOK', KeysKept, KeysUnique, AuditedExactly, MessagesOnce, AuditsName,
         NothingAdded \/ HumanRevision
  PROVE  KeysUnique' /\ AuditedExactly' /\ MessagesOnce' /\ AuditsName'
<1>0. \A d \in DocumentIds : Len(revisions[d]) \in Nat /\ Len(revisions'[d]) \in Nat
  BY LenProperties DEF TypeOK
<1>1. audits' = audits
  BY DEF NothingAdded, HumanRevision
<1>2. \A a \in audits : a.document \in DocumentIds
  BY DEF TypeOK, Audit
<1>3. MessagesOnce'
  BY <1>1 DEF MessagesOnce
<1>4. AuditsName'
  BY <1>1, <1>2 DEF AuditsName, KeysKept
<1>5. CASE NothingAdded
  BY <1>0, <1>1, <1>3, <1>4, <1>5, SMTT(30) DEF NothingAdded, KeysKept, KeysUnique, AuditedExactly,
     KeyUniqueAt, AuditedAt
<1>6. CASE HumanRevision
  <2>1. PICK d \in DocumentIds, key \in Keys \cup {NoKey} : RevisionAdded(d, key, FALSE)
    BY <1>6 DEF HumanRevision
  <2>2. KeysUnique'
    BY <1>0, <2>1, AddedKeyUnique
  <2>3. AuditedExactly'
    <3> SUFFICES ASSUME NEW e \in DocumentIds, NEW i \in 1..Len(revisions'[e])
                 PROVE  revisions'[e][i].ai <=>
                          \E a \in audits : /\ a.document = e /\ a.revision = i
                                            /\ a.key = revisions'[e][i].key
      BY <1>1 DEF AuditedExactly, AuditedAt
    <3>1. CASE i \in 1..Len(revisions[e])
      BY <3>1 DEF KeysKept, AuditedExactly, AuditedAt
    <3>2. CASE i \notin 1..Len(revisions[e])
      <4>1. e = d /\ i = Len(revisions[d]) + 1
        BY <1>0, <2>1, <3>2 DEF RevisionAdded
      <4>2. ~\E a \in audits : a.document = e /\ a.revision = i
        BY <3>2 DEF AuditsName
      <4> QED
        BY <2>1, <4>1, <4>2 DEF RevisionAdded
    <3> QED
      BY <3>1, <3>2
  <2> QED
    BY <1>3, <1>4, <2>2, <2>3
<1> QED
  BY <1>5, <1>6

\* A proposal comes with the one audit record that names it.
LEMMA AuditsKeptByProposals ==
  ASSUME TypeOK, TypeOK', KeysKept, KeysUnique, AuditedExactly, MessagesOnce, AuditsName,
         Proposal
  PROVE  KeysUnique' /\ AuditedExactly' /\ MessagesOnce' /\ AuditsName'
<1>0. \A d \in DocumentIds : Len(revisions[d]) \in Nat /\ Len(revisions'[d]) \in Nat
  BY LenProperties DEF TypeOK
<1>1. PICK d \in DocumentIds, key \in Keys, message \in Messages :
        /\ RevisionAdded(d, key, TRUE)
        /\ \A a \in audits : a.message # message
        /\ audits' = audits \cup {[document |-> d, revision |-> Len(revisions[d]) + 1,
                                   message |-> message, key |-> key]}
  BY DEF Proposal
<1> DEFINE new == [document |-> d, revision |-> Len(revisions[d]) + 1,
                   message |-> message, key |-> key]
<1>2. /\ new.document = d /\ new.revision = Len(revisions[d]) + 1
      /\ new.message = message /\ new.key = key
  OBVIOUS
<1>3. audits' = audits \cup {new}
  BY <1>1
<1> HIDE DEF new
<1>4. \A a \in audits : a.document \in DocumentIds
  BY DEF TypeOK, Audit
<1>5. KeysUnique'
  BY <1>0, <1>1, AddedKeyUnique
<1>6. MessagesOnce'
  BY <1>1, <1>2, <1>3 DEF MessagesOnce
<1>7. AuditsName'
  BY <1>0, <1>1, <1>2, <1>3, <1>4 DEF AuditsName, KeysKept, RevisionAdded
<1>8. AuditedExactly'
  <2> SUFFICES ASSUME NEW e \in DocumentIds, NEW i \in 1..Len(revisions'[e])
               PROVE  revisions'[e][i].ai <=>
                        \E a \in audits' : /\ a.document = e /\ a.revision = i
                                           /\ a.key = revisions'[e][i].key
    BY DEF AuditedExactly, AuditedAt
  <2>1. CASE i \in 1..Len(revisions[e])
    <3>1. ~(new.document = e /\ new.revision = i)
      BY <1>0, <1>2, <2>1
    <3> QED
      BY <1>3, <2>1, <3>1 DEF KeysKept, AuditedExactly, AuditedAt
  <2>2. CASE i \notin 1..Len(revisions[e])
    <3>1. e = d /\ i = Len(revisions[d]) + 1
      BY <1>0, <1>1, <2>2 DEF RevisionAdded
    <3>2. revisions'[e][i].key = key /\ revisions'[e][i].ai = TRUE
      BY <1>1, <3>1 DEF RevisionAdded
    <3> QED
      BY <1>2, <1>3, <3>1, <3>2
  <2> QED
    BY <2>1, <2>2
<1> QED
  BY <1>5, <1>6, <1>7, <1>8

\* An idempotency key marks one revision and every AI proposal has exactly one
\* audit record under its key, however often and wherever requests are retried.
THEOREM ProposalsStayAudited == Spec => []ProposalsAudited
<1>1. Init => AuditInv
  BY EmptySeq DEF Init, AuditInv, ProposalsAudited, AuditsName
<1>2. ASSUME TypeOK, TypeOK', PublicationInv, AuditInv, [Next]_vars PROVE AuditInv'
  <2>1. KeysKept /\ (NothingAdded \/ HumanRevision \/ Proposal)
    BY <1>2, HistoryKept, KeysStay, AdditionIsOfAKind
  <2>2. KeysUnique /\ AuditedExactly /\ MessagesOnce /\ AuditsName
    BY <1>2, ProposalParts DEF AuditInv
  <2>3. KeysUnique' /\ AuditedExactly' /\ MessagesOnce' /\ AuditsName'
    BY <1>2, <2>1, <2>2, AuditsKeptByPeople, AuditsKeptByProposals
  <2>4. ProposalsAudited' <=> KeysUnique' /\ AuditedExactly' /\ MessagesOnce'
    BY <1>2, ProposalParts, PTL
  <2> QED
    BY <2>3, <2>4 DEF AuditInv
<1>3. AuditInv => ProposalsAudited
  BY DEF AuditInv
<1> QED
  BY <1>1, <1>2, <1>3, ContentTypes, PublicationInvariant, PTL DEF Spec

---------------------------------------------------------------------------
(* Answers. *)

\* The answers of the handlers are told apart by their kind.
LEMMA Kinds ==
  /\ \A d : Page(d).kind = "page" /\ Page(d).document = d
  /\ \A c : Landing(c).kind = "landing"
  /\ \A u : Redirect(u).kind = "redirect" /\ Redirect(u).to = u
  /\ Nothing.kind = "none" /\ Shell.kind = "shell" /\ NotFound.kind = "404"
  /\ BadRequest.kind = "400"
BY DEF Page, Landing, Redirect, Nothing, Shell, NotFound, BadRequest

\* The URLs that handlers write.
LEMMA WrittenUrls ==
  ASSUME NEW w, NEW path
  PROVE  /\ CategoryUrl(w, path).path = path /\ CategoryUrl(w, path).exact = TRUE
         /\ w.primary => CategoryUrl(w, path).form = "root"
         /\ ~w.primary => CategoryUrl(w, path).form = "community"
         /\ CommunityUrl(path).path = path /\ CommunityUrl(path).exact = TRUE
         /\ CommunityUrl(path).form = "community"
         /\ ArticleUrl(path).path = path /\ ArticleUrl(path).exact = TRUE
         /\ ArticleUrl(path).form = "article"
<1>1. \A f, x : /\ Url(f, x, path).form = f /\ Url(f, x, path).exact = x
               /\ Url(f, x, path).path = path
  BY DEF Url
<1>. QED
  BY <1>1 DEF CategoryUrl, CommunityUrl, ArticleUrl

\* The first index is the one that CHOOSE finds.
LEMMA LeastOf ==
  ASSUME NEW S \in SUBSET Nat, NEW n \in S, \A j \in S : n <= j
  PROVE  (CHOOSE i \in S : \A j \in S : i <= j) = n
<1>. DEFINE m == CHOOSE i \in S : \A j \in S : i <= j
<1>1. m \in S /\ \A j \in S : m <= j
  OBVIOUS
<1>. HIDE DEF m
<1>2. m = n
  BY <1>1
<1>. QED
  BY <1>2 DEF m

\* spa_index_fallback gives the answer of the first handler that has one.
LEMMA FallbackAnswers ==
  ASSUME NEW w, NEW path, NEW html,
         NEW post, NEW landing,
         post = IF PrimaryCategoryPublicPath(w, path)
                THEN PrimaryCategoryPost(w, path, html) ELSE Nothing,
         landing = IF PrimaryCategoryPublicPath(w, path) /\ html
                   THEN PrimaryCategoryLanding(w, path) ELSE Nothing
  PROVE  SpaIndexFallback(w, path, html) =
           IF post # Nothing THEN post
           ELSE IF landing # Nothing THEN landing
           ELSE IF PrimaryLegacyAlias(w, path) # Nothing
                THEN PrimaryLegacyAlias(w, path)
           ELSE IF html THEN Shell ELSE NotFound
<1>. DEFINE alias == PrimaryLegacyAlias(w, path)
            answers == <<post, landing, alias>>
            given == {i \in DOMAIN answers : answers[i] # Nothing}
<1>1. SpaIndexFallback(w, path, html) =
        IF given # {} THEN answers[CHOOSE i \in given : \A j \in given : i <= j]
        ELSE IF html THEN Shell ELSE NotFound
  BY DEF SpaIndexFallback
<1>2. /\ answers[1] = post /\ answers[2] = landing /\ answers[3] = alias
      /\ DOMAIN answers = {1, 2, 3}
  OBVIOUS
<1>. HIDE DEF answers
<1>3. given \in SUBSET Nat /\ given = {i \in {1, 2, 3} : answers[i] # Nothing}
  BY <1>2
<1>. HIDE DEF given, alias
<1>4. CASE post # Nothing
  <2>1. 1 \in given /\ \A j \in given : 1 <= j
    BY <1>2, <1>3, <1>4
  <2>2. (CHOOSE i \in given : \A j \in given : i <= j) = 1
    BY <1>3, <2>1, LeastOf
  <2>. QED
    BY <1>1, <1>2, <1>4, <2>1, <2>2
<1>5. CASE post = Nothing /\ landing # Nothing
  <2>1. 2 \in given /\ \A j \in given : 2 <= j
    BY <1>2, <1>3, <1>5
  <2>2. (CHOOSE i \in given : \A j \in given : i <= j) = 2
    BY <1>3, <2>1, LeastOf
  <2>. QED
    BY <1>1, <1>2, <1>5, <2>1, <2>2
<1>6. CASE post = Nothing /\ landing = Nothing /\ alias # Nothing
  <2>1. 3 \in given /\ \A j \in given : 3 <= j
    BY <1>2, <1>3, <1>6
  <2>2. (CHOOSE i \in given : \A j \in given : i <= j) = 3
    BY <1>3, <2>1, LeastOf
  <2>. QED
    BY <1>1, <1>2, <1>6, <2>1, <2>2 DEF alias
<1>7. CASE post = Nothing /\ landing = Nothing /\ alias = Nothing
  <2>1. given = {}
    BY <1>2, <1>3, <1>7
  <2>. QED
    BY <1>1, <1>7, <2>1 DEF alias
<1>. QED
  BY <1>4, <1>5, <1>6, <1>7 DEF alias

\* The post of a category comes first.
LEMMA FallbackGivesPost ==
  ASSUME NEW w, NEW path, NEW html, PrimaryCategoryPublicPath(w, path),
         PrimaryCategoryPost(w, path, html) # Nothing
  PROVE  SpaIndexFallback(w, path, html) = PrimaryCategoryPost(w, path, html)
BY FallbackAnswers

\* The landing page comes next, for a reader who accepts HTML.
LEMMA FallbackGivesLanding ==
  ASSUME NEW w, NEW path, NEW html, html = TRUE, PrimaryCategoryPublicPath(w, path),
         PrimaryCategoryPost(w, path, html) = Nothing,
         PrimaryCategoryLanding(w, path) # Nothing
  PROVE  SpaIndexFallback(w, path, html) = PrimaryCategoryLanding(w, path)
<1>. DEFINE landing == PrimaryCategoryLanding(w, path)
<1>1. /\ Nothing = IF PrimaryCategoryPublicPath(w, path)
                   THEN PrimaryCategoryPost(w, path, html) ELSE Nothing
      /\ landing = IF PrimaryCategoryPublicPath(w, path) /\ html
                   THEN PrimaryCategoryLanding(w, path) ELSE Nothing
  OBVIOUS
<1>2. landing # Nothing
  OBVIOUS
<1>. HIDE DEF landing
<1>3. SpaIndexFallback(w, path, html) = landing
  BY <1>1, <1>2, FallbackAnswers
<1>. QED
  BY <1>3 DEF landing

---------------------------------------------------------------------------
(* Where posts and landing pages are found. *)

\* What the lookups rest on.
SiteInv == TypeOK /\ PublicationInv /\ LandingPagesFree

\* A published document is found at the path of its published revision.
LEMMA PublishedRoute ==
  ASSUME SiteInv, NEW d \in PublishedDocuments
  PROVE  /\ d \in DocumentIds /\ d # 0
         /\ PublishedPath(d) \in Paths
         /\ GetPublishedBySlug(PublishedPath(d)) = d
<1>1. d \in DocumentIds /\ publishedRevision[d] # 0
  BY DEF PublishedDocuments
<1>2. d # 0
  BY <1>1 DEF DocumentIds, SiteInv, TypeOK
<1>3. PublishedPath(d) \in {p \in Paths : routeOwner[p] = d /\ p \in canonical}
  BY <1>1 DEF SiteInv, PublicationInv, CanonicalRouteIsPublished, PublishedPath
<1>. QED
  BY <1>1, <1>2, <1>3 DEF GetPublishedBySlug

\* What a lookup finds is published.
LEMMA FoundIsPublished ==
  /\ \A path : GetPublishedBySlug(path) # 0 => GetPublishedBySlug(path) \in PublishedDocuments
  /\ \A slug : GetUniquePublishedByLeafSlug(slug) # 0
       => GetUniquePublishedByLeafSlug(slug) \in PublishedDocuments
<1>1. \A path : GetPublishedBySlug(path) # 0
                  => GetPublishedBySlug(path) \in PublishedDocuments
  BY DEF GetPublishedBySlug
<1>2. ASSUME NEW slug, GetUniquePublishedByLeafSlug(slug) # 0
      PROVE  GetUniquePublishedByLeafSlug(slug) \in PublishedDocuments
  <2>. DEFINE found == {d \in PublishedDocuments : PublishedPath(d).slug = slug}
  <2>1. /\ Cardinality(found) = 1
        /\ GetUniquePublishedByLeafSlug(slug) = CHOOSE d \in found : TRUE
    BY <1>2 DEF GetUniquePublishedByLeafSlug
  <2>2. found # {}
    BY <2>1, FS_EmptySet
  <2>3. (CHOOSE d \in found : TRUE) \in found
    BY <2>2
  <2>. QED
    BY <2>1, <2>3
<1>. QED
  BY <1>1, <1>2

\* A slug in lower case finds its own category and no other, and no post
\* lives at the address of its landing page.
LEMMA LandingFound ==
  ASSUME SiteInv, NEW c \in CategorySlugs, categories[c] # "absent"
  PROVE  /\ RoutePath(Root, c) \in Paths
         /\ CategoriesBySlug(c) = {c}
         /\ (CHOOSE x \in CategoriesBySlug(c) : TRUE) = c
         /\ GetPublishedBySlug(RoutePath(Root, c)) = 0
<1>1. RoutePath(Root, c) \in Paths
  BY SlugAssumption DEF RoutePath, Paths, Placements
<1>2. CategoriesBySlug(c) = {c}
  BY SlugAssumption DEF CategoriesBySlug
<1>3. (CHOOSE x \in CategoriesBySlug(c) : TRUE) = c
  BY <1>2
<1>4. routeOwner[RoutePath(Root, c)] \notin DocumentIds
  BY <1>1 DEF SiteInv, LandingPagesFree, Claims
<1>. QED
  BY <1>1, <1>2, <1>3, <1>4 DEF GetPublishedBySlug, PublishedDocuments

\* A category that is found exists under the slug it was found by.
LEMMA FoundCategory ==
  ASSUME NEW slug, CategoriesBySlug(slug) # {}, NEW c,
         c = CHOOSE x \in CategoriesBySlug(slug) : TRUE
  PROVE  c \in CategorySlugs /\ categories[c] # "absent"
<1>1. c \in CategoriesBySlug(slug)
  OBVIOUS
<1>. QED
  BY <1>1 DEF CategoriesBySlug

---------------------------------------------------------------------------
(* The addresses of the site are answered. *)

\* Which handler answers which form of URL.
LEMMA RouteTable ==
  ASSUME NEW w, NEW url, NEW html
  PROVE  /\ url.form = "article" => Respond(w, url, html) = PublicPost(w, url)
         /\ url.form = "community" /\ url.path.category = Root
              => Respond(w, url, html) = PublicCommunityPost(w, url)
         /\ url.form = "community" /\ url.path.category # Root
              => Respond(w, url, html) = PublicCommunityCategoryPost(w, url)
         /\ url.form = "root" =>
              Respond(w, url, html) =
                IF w.references /\ url.path = RoutePath(Root, ReferencesSlug)
                THEN [kind |-> "references"]
                ELSE SpaIndexFallback(w, url.path, html)
<1>1. url.form = "article" => Respond(w, url, html) = PublicPost(w, url)
  BY DEF Respond
<1>2. url.form = "community" /\ url.path.category = Root
        => Respond(w, url, html) = PublicCommunityPost(w, url)
  BY DEF Respond
<1>3. url.form = "community" /\ url.path.category # Root
        => Respond(w, url, html) = PublicCommunityCategoryPost(w, url)
  BY DEF Respond
<1>4. url.form = "root" =>
        Respond(w, url, html) =
          IF w.references /\ url.path = RoutePath(Root, ReferencesSlug)
          THEN [kind |-> "references"]
          ELSE SpaIndexFallback(w, url.path, html)
  BY DEF Respond
<1>. QED
  BY <1>1, <1>2, <1>3, <1>4

\* A category's path may be one of the primary site's public paths.
LEMMA CategoryPathPublic ==
  ASSUME NEW w, NEW path \in Paths,
         \/ path.category # Root
         \/ path.category = Root /\ path.slug \in CategorySlugs
  PROVE  /\ PrimaryCategoryPublicPath(w, path)
         /\ path # RoutePath(Root, ReferencesSlug)
<1>1. path.category \in CategorySlugs \cup {Root} /\ path.slug \in Slugs
  BY DEF Paths, Placements
<1>2. RoutePath(Root, ReferencesSlug).category = Root
        /\ RoutePath(Root, ReferencesSlug).slug = ReferencesSlug
  BY DEF RoutePath
<1>. QED
  BY <1>1, <1>2, SlugAssumption, ReferencesAssumption DEF PrimaryCategoryPublicPath

\* The address of a post in a category is answered with the post.
LEMMA CategoryPageServed ==
  ASSUME SiteInv, NEW w, NEW d \in PublishedDocuments, Categorised(d)
  PROVE  Respond(w, CategoryUrl(w, PublishedPath(d)), TRUE) = Page(d)
<1>. DEFINE path == PublishedPath(d)
            url == CategoryUrl(w, path)
<1>1. path \in Paths /\ GetPublishedBySlug(path) = d /\ path.category # Root
  BY PublishedRoute DEF Categorised
<1>3. path = PublishedPath(d)
  OBVIOUS
<1>. HIDE DEF path
<1>2. /\ url.path = path /\ url.exact = TRUE
      /\ w.primary => url.form = "root"
      /\ ~w.primary => url.form = "community"
  BY DEF CategoryUrl, Url
<1>. HIDE DEF url
<1>4. CASE w.primary
  <2>1. PrimaryCategoryPost(w, path, TRUE) = Page(d)
    BY <1>1, <1>3 DEF PrimaryCategoryPost
  <2>2. PrimaryCategoryPublicPath(w, path) /\ path # RoutePath(Root, ReferencesSlug)
    BY <1>1, CategoryPathPublic
  <2>3. Page(d) # Nothing
    BY Kinds
  <2>4. SpaIndexFallback(w, path, TRUE) = Page(d)
    BY <2>1, <2>2, <2>3, FallbackGivesPost
  <2>5. Respond(w, url, TRUE) = SpaIndexFallback(w, path, TRUE)
    BY <1>2, <1>4, <2>2, RouteTable
  <2>. QED
    BY <2>4, <2>5 DEF url, path
<1>5. CASE ~w.primary
  <2>1. Respond(w, url, TRUE) = PublicCommunityCategoryPost(w, url)
    BY <1>1, <1>2, <1>5, RouteTable
  <2>. QED
    BY <1>1, <1>2, <1>3, <1>5, <2>1 DEF PublicCommunityCategoryPost, url, path
<1>. QED
  BY <1>4, <1>5

\* The address of a category is answered with its landing page.
LEMMA LandingServed ==
  ASSUME SiteInv, NEW w, NEW c \in CategorySlugs, categories[c] # "absent"
  PROVE  Respond(w, CategoryUrl(w, RoutePath(Root, c)), TRUE) = Landing(c)
<1>. DEFINE path == RoutePath(Root, c)
            url == CategoryUrl(w, path)
<1>1. /\ path \in Paths /\ CategoriesBySlug(c) = {c}
      /\ (CHOOSE x \in CategoriesBySlug(c) : TRUE) = c
      /\ GetPublishedBySlug(path) = 0
  BY LandingFound
<1>2. path.category = Root /\ path.slug = c
  BY DEF RoutePath
<1>. HIDE DEF path
<1>3. /\ url.path = path /\ url.exact = TRUE
      /\ w.primary => url.form = "root"
      /\ ~w.primary => url.form = "community"
  BY DEF CategoryUrl, Url
<1>. HIDE DEF url
<1>4. CASE w.primary
  <2>1. PrimaryCategoryPost(w, path, TRUE) = Nothing
    BY <1>2 DEF PrimaryCategoryPost
  <2>2. PrimaryCategoryLanding(w, path) = Landing(c)
    BY <1>1, <1>2 DEF PrimaryCategoryLanding
  <2>3. PrimaryCategoryPublicPath(w, path) /\ path # RoutePath(Root, ReferencesSlug)
    BY <1>1, <1>2, CategoryPathPublic
  <2>4. Landing(c) # Nothing
    BY Kinds
  <2>5. SpaIndexFallback(w, path, TRUE) = Landing(c)
    BY <2>1, <2>2, <2>3, <2>4, FallbackGivesLanding
  <2>6. Respond(w, url, TRUE) = SpaIndexFallback(w, path, TRUE)
    BY <1>3, <1>4, <2>3, RouteTable
  <2>. QED
    BY <2>5, <2>6 DEF url, path
<1>5. CASE ~w.primary
  <2>1. Respond(w, url, TRUE) = PublicCommunityPost(w, url)
    BY <1>2, <1>3, <1>5, RouteTable
  <2>2. PublicCommunityPost(w, url) = SharedSegment(w, url)
    BY <1>1, <1>3 DEF PublicCommunityPost
  <2>3. SharedSegment(w, url) = Landing(c)
    BY <1>1, <1>2, <1>3, <1>5 DEF SharedSegment
  <2>. QED
    BY <2>1, <2>2, <2>3 DEF url, path
<1>. QED
  BY <1>4, <1>5

\* The address of a post without category: below the handle, or below the
\* article path of a primary site that was not provisioned.
LEMMA RootPageServed ==
  ASSUME SiteInv, NEW w, NEW d \in PublishedDocuments, ~Categorised(d)
  PROVE  /\ ~(w.primary /\ ~w.provisioned) =>
              Respond(w, CommunityUrl(PublishedPath(d)), TRUE) = Page(d)
         /\ ~w.provisioned => Respond(w, ArticleUrl(PublishedPath(d)), TRUE) = Page(d)
<1>. DEFINE path == PublishedPath(d)
<1>1. /\ GetPublishedBySlug(path) = d /\ d # 0 /\ path.category = Root
  BY PublishedRoute DEF Categorised
<1>2. path = PublishedPath(d)
  OBVIOUS
<1>. HIDE DEF path
<1>3. ASSUME ~(w.primary /\ ~w.provisioned)
      PROVE  Respond(w, CommunityUrl(path), TRUE) = Page(d)
  <2>. DEFINE url == CommunityUrl(path)
  <2>1. url.path = path /\ url.exact = TRUE /\ url.form = "community"
    BY WrittenUrls
  <2>. HIDE DEF url
  <2>2. Respond(w, url, TRUE) = PublicCommunityPost(w, url)
    BY <1>1, <2>1, RouteTable
  <2>. QED
    BY <1>1, <1>2, <1>3, <2>1, <2>2 DEF PublicCommunityPost, url
<1>4. ASSUME ~w.provisioned
      PROVE  Respond(w, ArticleUrl(path), TRUE) = Page(d)
  <2>. DEFINE url == ArticleUrl(path)
  <2>1. url.path = path /\ url.form = "article"
    BY WrittenUrls
  <2>. HIDE DEF url
  <2>2. Respond(w, url, TRUE) = PublicPost(w, url)
    BY <2>1, RouteTable
  <2>3. PublicPost(w, url) = Page(d)
    BY <1>1, <1>2, <1>4, <2>1 DEF PublicPost
  <2>. QED
    BY <2>2, <2>3 DEF url
<1>. QED
  BY <1>3, <1>4 DEF path
---------------------------------------------------------------------------
(* Where readers end. *)

\* A handler that found the post sends the reader to it.
Leads(w, answer, d) ==
  \/ answer = Page(d)
  \/ \E u : answer = Redirect(u) /\ Respond(w, u, TRUE) = Page(d)

\* A reader who gets the page, or a redirect to it, ends at its post alone.
LEMMA LeadsToPage ==
  ASSUME NEW w, NEW url, NEW d \in PublishedDocuments, Leads(w, Respond(w, url, TRUE), d)
  PROVE  LeadsTo(w, url) = {d}
<1>. DEFINE first == Respond(w, url, TRUE)
            last == IF first.kind = "redirect" THEN Respond(w, first.to, TRUE) ELSE first
<1>1. last = Page(d)
  <2>1. CASE first = Page(d)
    <3>1. first.kind = "page"
      BY <2>1, Kinds
    <3>. QED
      BY <2>1, <3>1
  <2>2. CASE \E u : first = Redirect(u) /\ Respond(w, u, TRUE) = Page(d)
    <3>1. PICK u : first = Redirect(u) /\ Respond(w, u, TRUE) = Page(d)
      BY <2>2
    <3>2. first.kind = "redirect" /\ first.to = u
      BY <3>1, Kinds
    <3>. QED
      BY <3>1, <3>2
  <2>. QED
    BY <2>1, <2>2 DEF Leads
<1>2. LeadsTo(w, url) = {e \in PublishedDocuments : last = Page(e)}
  BY DEF LeadsTo
<1>3. \A e : Page(e) = Page(d) => e = d
  BY DEF Page
<1>. HIDE DEF last
<1>. QED
  BY <1>1, <1>2, <1>3

\* A path that a route holds leads to the route's post.
LEMMA FoundAtRoot ==
  ASSUME SiteInv, NEW w, NEW url, NEW d \in PublishedDocuments,
         url.path.category = Root, GetPublishedBySlug(url.path) = d
  PROVE  /\ Leads(w, PublicCommunityPost(w, url), d)
         /\ Leads(w, PublicPost(w, url), d)
<1>1. d # 0
  BY PublishedRoute
<1>2. CASE Categorised(d)
  <2>1. Respond(w, CategoryUrl(w, PublishedPath(d)), TRUE) = Page(d)
    BY <1>2, CategoryPageServed
  <2>2. PublicCommunityPost(w, url) = Redirect(CategoryUrl(w, PublishedPath(d)))
    BY <1>1, <1>2 DEF PublicCommunityPost
  <2>3. PublicPost(w, url) = Redirect(CategoryUrl(w, PublishedPath(d)))
    BY <1>1, <1>2 DEF PublicPost
  <2>. QED
    BY <2>1, <2>2, <2>3 DEF Leads
<1>3. CASE ~Categorised(d)
  <2>1. ~(w.primary /\ ~w.provisioned) =>
          Respond(w, CommunityUrl(PublishedPath(d)), TRUE) = Page(d)
    BY <1>3, RootPageServed
  <2>2. ~w.provisioned => Respond(w, ArticleUrl(PublishedPath(d)), TRUE) = Page(d)
    BY <1>3, RootPageServed
  <2>3. PublicCommunityPost(w, url) =
          IF w.primary /\ ~w.provisioned THEN Redirect(ArticleUrl(PublishedPath(d)))
          ELSE IF ~url.exact \/ url.path # PublishedPath(d)
               THEN Redirect(CommunityUrl(PublishedPath(d)))
          ELSE Page(d)
    BY <1>1, <1>3 DEF PublicCommunityPost
  <2>4. PublicPost(w, url) =
          IF w.provisioned THEN Redirect(CommunityUrl(PublishedPath(d)))
          ELSE IF url.path # PublishedPath(d) THEN Redirect(ArticleUrl(PublishedPath(d)))
          ELSE Page(d)
    BY <1>1, <1>3 DEF PublicPost
  <2>5. Leads(w, PublicCommunityPost(w, url), d)
    BY <2>1, <2>2, <2>3 DEF Leads
  <2>6. Leads(w, PublicPost(w, url), d)
    BY <2>1, <2>2, <2>4 DEF Leads
  <2>. QED
    BY <2>5, <2>6
<1>. QED
  BY <1>2, <1>3

\* So does a path in a category, while its post is in one.
LEMMA FoundInCategory ==
  ASSUME SiteInv, NEW w, NEW url, NEW html, NEW d \in PublishedDocuments,
         url.path.category # Root, GetPublishedBySlug(url.path) = d, Categorised(d)
  PROVE  /\ Leads(w, PublicCommunityCategoryPost(w, url), d)
         /\ html => Leads(w, PrimaryCategoryPost(w, url.path, html), d)
<1>1. Respond(w, CategoryUrl(w, PublishedPath(d)), TRUE) = Page(d)
  BY CategoryPageServed
<1>2. \/ PublicCommunityCategoryPost(w, url) = Redirect(CategoryUrl(w, PublishedPath(d)))
      \/ PublicCommunityCategoryPost(w, url) = Page(d)
  BY DEF PublicCommunityCategoryPost
<1>3. html => \/ PrimaryCategoryPost(w, url.path, html) = Redirect(CategoryUrl(w, PublishedPath(d)))
              \/ PrimaryCategoryPost(w, url.path, html) = Page(d)
  BY DEF PrimaryCategoryPost
<1>. QED
  BY <1>1, <1>2, <1>3 DEF Leads
---------------------------------------------------------------------------
(* Addresses. *)

\* The URL of the sitemap is the page.
LEMMA CanonicalServed ==
  ASSUME SiteInv, NEW w \in Settings, NEW d \in PublishedDocuments
  PROVE  Respond(w, CanonicalUrl(w, d), TRUE) = Page(d)
<1>1. Categorised(d) <=> PublishedPath(d).category # Root
  BY PublishedRoute DEF Categorised
<1>2. CASE Categorised(d)
  <2>1. CanonicalUrl(w, d) = CategoryUrl(w, PublishedPath(d))
    BY <1>1, <1>2 DEF CanonicalUrl
  <2>. QED
    BY <1>2, <2>1, CategoryPageServed
<1>3. CASE ~Categorised(d) /\ w.primary /\ ~w.provisioned
  <2>1. CanonicalUrl(w, d) = ArticleUrl(PublishedPath(d))
    BY <1>1, <1>3 DEF CanonicalUrl
  <2>. QED
    BY <1>3, <2>1, RootPageServed
<1>4. CASE ~Categorised(d) /\ ~(w.primary /\ ~w.provisioned)
  <2>1. CanonicalUrl(w, d) = CommunityUrl(PublishedPath(d))
    BY <1>1, <1>4 DEF CanonicalUrl
  <2>. QED
    BY <1>4, <2>1, RootPageServed
<1>. QED
  BY <1>2, <1>3, <1>4

\* The link of the archive leads to the page.
LEMMA ArchiveLeads ==
  ASSUME SiteInv, NEW w \in Settings, NEW d \in PublishedDocuments
  PROVE  LeadsTo(w, ArchiveUrl(w, d)) = {d}
<1>1. CASE Categorised(d)
  <2>1. ArchiveUrl(w, d) = CategoryUrl(w, PublishedPath(d))
    BY <1>1 DEF ArchiveUrl
  <2>2. Respond(w, ArchiveUrl(w, d), TRUE) = Page(d)
    BY <1>1, <2>1, CategoryPageServed
  <2>3. Leads(w, Respond(w, ArchiveUrl(w, d), TRUE), d)
    BY <2>2 DEF Leads
  <2>. QED
    BY <2>3, LeadsToPage
<1>2. CASE ~Categorised(d)
  <2>. DEFINE url == CommunityUrl(PublishedPath(d))
  <2>1. ArchiveUrl(w, d) = url
    BY <1>2 DEF ArchiveUrl
  <2>2. /\ url.path = PublishedPath(d) /\ url.form = "community"
        /\ url.path.category = Root /\ GetPublishedBySlug(url.path) = d
    <3>1. url.path = PublishedPath(d) /\ url.form = "community"
      BY DEF CommunityUrl, Url
    <3>. QED
      BY <1>2, <3>1, PublishedRoute DEF Categorised
  <2>. HIDE DEF url
  <2>3. Leads(w, PublicCommunityPost(w, url), d)
    BY <2>2, FoundAtRoot
  <2>4. Respond(w, url, TRUE) = PublicCommunityPost(w, url)
    BY <2>2, RouteTable
  <2>5. Leads(w, Respond(w, url, TRUE), d)
    BY <2>3, <2>4
  <2>6. LeadsTo(w, url) = {d}
    BY <2>5, LeadsToPage
  <2>. QED
    BY <2>1, <2>6
<1>. QED
  BY <1>1, <1>2

\* The posts of a landing page are linked by their own paths.
LEMMA LandingPostServed ==
  ASSUME SiteInv, NEW w \in Settings, NEW c \in CategorySlugs, NEW d \in LandingPosts(c)
  PROVE  /\ d \in PublishedDocuments
         /\ Respond(w, CategoryUrl(w, RoutePath(c, PublishedPath(d).slug)), TRUE) = Page(d)
<1>1. d \in PublishedIn(c)
  BY DEF LandingPosts, PublicMembers
<1>2. d \in PublishedDocuments /\ PublishedPath(d).category = c
  BY <1>1 DEF PublishedIn, PublishedDocuments, PublishedPath, RevisionPath, RoutePath
<1>3. PublishedPath(d) = RoutePath(c, PublishedPath(d).slug)
  BY <1>1 DEF PublishedIn, PublishedPath, RevisionPath, RoutePath
<1>4. Categorised(d)
  BY <1>2, SlugAssumption, PublishedRoute DEF Categorised
<1>. QED
  BY <1>2, <1>3, <1>4, CategoryPageServed

\* Whatever the site advertises is served.
LEMMA AdvertisedServed ==
  ASSUME SiteInv
  PROVE  AdvertisedUrlsServed
<1>. SUFFICES ASSUME NEW w \in Settings
              PROVE  /\ \A d \in PublishedDocuments :
                          /\ Respond(w, Sitemap(w)[d], TRUE) = Page(d)
                          /\ LeadsTo(w, BlogArchive(w)[d]) = {d}
                          /\ ApiPost(MachineHref(d)) = d
                     /\ \A c \in CategorySlugs : \A d \in LandingPosts(c) :
                          Respond(w, LandingArchive(w, c)[d], TRUE) = Page(d)
  BY DEF AdvertisedUrlsServed
<1>1. ASSUME NEW d \in PublishedDocuments
      PROVE  /\ Respond(w, Sitemap(w)[d], TRUE) = Page(d)
             /\ LeadsTo(w, BlogArchive(w)[d]) = {d}
             /\ ApiPost(MachineHref(d)) = d
  <2>1. Sitemap(w)[d] = CanonicalUrl(w, d) /\ BlogArchive(w)[d] = ArchiveUrl(w, d)
    BY DEF Sitemap, BlogArchive
  <2>2. ApiPost(MachineHref(d)) = d
    BY PublishedRoute DEF ApiPost, MachineHref
  <2>. QED
    BY <2>1, <2>2, CanonicalServed, ArchiveLeads
<1>2. ASSUME NEW c \in CategorySlugs, NEW d \in LandingPosts(c)
      PROVE  Respond(w, LandingArchive(w, c)[d], TRUE) = Page(d)
  <2>1. LandingArchive(w, c)[d] = CategoryUrl(w, RoutePath(c, PublishedPath(d).slug))
    BY DEF LandingArchive
  <2>. QED
    BY <2>1, LandingPostServed
<1>. QED
  BY <1>1, <1>2

\* A route, current or not, leads to its post.
LEMMA OldAddressesServed ==
  ASSUME SiteInv
  PROVE  OldAddressesLead
<1>. SUFFICES ASSUME NEW w \in Settings, NEW path \in Paths,
                     GetPublishedBySlug(path) # 0,
                     path.category = Root \/ Categorised(GetPublishedBySlug(path))
              PROVE  /\ LeadsTo(w, Url("community", TRUE, path)) = {GetPublishedBySlug(path)}
                     /\ w.primary =>
                          LeadsTo(w, IF path.category = Root THEN ArticleUrl(path)
                                                             ELSE CategoryUrl(w, path))
                            = {GetPublishedBySlug(path)}
  BY DEF OldAddressesLead
<1>. DEFINE d == GetPublishedBySlug(path)
            url == Url("community", TRUE, path)
            article == ArticleUrl(path)
            root == CategoryUrl(w, path)
<1>1. d \in PublishedDocuments
  BY FoundIsPublished
<1>2. /\ url.path = path /\ url.form = "community"
      /\ article.path = path /\ article.form = "article"
  BY DEF Url, ArticleUrl
<1>3. root.path = path
  BY DEF Url, CategoryUrl
<1>4. w.primary => root.form = "root"
  BY DEF Url, CategoryUrl
<1>. HIDE DEF url, article, root
<1>5. CASE path.category = Root
  <2>1. Leads(w, PublicCommunityPost(w, url), d)
    BY <1>1, <1>2, <1>5, FoundAtRoot
  <2>2. Leads(w, PublicPost(w, article), d)
    BY <1>1, <1>2, <1>5, FoundAtRoot
  <2>3. Respond(w, url, TRUE) = PublicCommunityPost(w, url)
    BY <1>2, <1>5, RouteTable
  <2>4. Respond(w, article, TRUE) = PublicPost(w, article)
    BY <1>2, RouteTable
  <2>5. Leads(w, Respond(w, url, TRUE), d) /\ Leads(w, Respond(w, article, TRUE), d)
    BY <2>1, <2>2, <2>3, <2>4
  <2>6. LeadsTo(w, url) = {d} /\ LeadsTo(w, article) = {d}
    BY <1>1, <2>5, LeadsToPage
  <2>. QED
    BY <1>5, <2>6 DEF url, article
<1>6. CASE path.category # Root /\ Categorised(d)
  <2>1. Leads(w, PublicCommunityCategoryPost(w, url), d)
    BY <1>1, <1>2, <1>6, FoundInCategory
  <2>2. Respond(w, url, TRUE) = PublicCommunityCategoryPost(w, url)
    BY <1>2, <1>6, RouteTable
  <2>3. Leads(w, Respond(w, url, TRUE), d)
    BY <2>1, <2>2
  <2>4. LeadsTo(w, url) = {d}
    BY <1>1, <2>3, LeadsToPage
  <2>5. ASSUME w.primary PROVE LeadsTo(w, root) = {d}
    <3>1. PrimaryCategoryPublicPath(w, path) /\ path # RoutePath(Root, ReferencesSlug)
      BY <1>6, CategoryPathPublic
    <3>2. Leads(w, PrimaryCategoryPost(w, path, TRUE), d)
      BY <1>1, <1>3, <1>6, FoundInCategory
    <3>3. PrimaryCategoryPost(w, path, TRUE) # Nothing
      BY <3>2, Kinds DEF Leads
    <3>4. SpaIndexFallback(w, path, TRUE) = PrimaryCategoryPost(w, path, TRUE)
      BY <3>1, <3>3, FallbackGivesPost
    <3>5. Respond(w, root, TRUE) = SpaIndexFallback(w, path, TRUE)
      BY <1>3, <1>4, <2>5, <3>1, RouteTable
    <3>6. Leads(w, Respond(w, root, TRUE), d)
      BY <3>2, <3>4, <3>5
    <3>. QED
      BY <1>1, <3>6, LeadsToPage
  <2>. QED
    BY <1>6, <2>4, <2>5 DEF url, root
<1>. QED
  BY <1>5, <1>6
---------------------------------------------------------------------------
(* Redirects. *)

\* An answer that is no redirect, or one to an address that is served.
Settled(w, answer) ==
  answer.kind = "redirect" => Respond(w, answer.to, TRUE).kind \in {"page", "landing"}

\* A redirect to a page that is served settles.
LEMMA LeadsSettles ==
  ASSUME NEW w, NEW answer, NEW d, Leads(w, answer, d)
  PROVE  Settled(w, answer)
<1>1. CASE answer = Page(d)
  BY <1>1, Kinds DEF Settled
<1>2. ASSUME NEW u, answer = Redirect(u), Respond(w, u, TRUE) = Page(d)
      PROVE  Settled(w, answer)
  <2>1. answer.to = u
    BY <1>2, Kinds
  <2>2. Respond(w, answer.to, TRUE).kind = "page"
    BY <1>2, <2>1, Kinds, ZenonT(40)
  <2>. QED
    BY <2>2 DEF Settled
<1>. QED
  BY <1>1, <1>2 DEF Leads

\* Every other answer is no redirect.
LEMMA OthersSettle ==
  /\ \A w : Settled(w, NotFound) /\ Settled(w, Nothing) /\ Settled(w, Shell)
  /\ \A w : Settled(w, BadRequest)
  /\ \A w, c : Settled(w, Landing(c))
  /\ \A w, d : Settled(w, Page(d))
  /\ \A w : Settled(w, [kind |-> "references"])
BY Kinds DEF Settled

\* A redirect to the address of a categorised post settles.
LEMMA ToCategorySettles ==
  ASSUME SiteInv, NEW w, NEW d \in PublishedDocuments, Categorised(d)
  PROVE  Settled(w, Redirect(CategoryUrl(w, PublishedPath(d))))
<1>1. Respond(w, CategoryUrl(w, PublishedPath(d)), TRUE) = Page(d)
  BY CategoryPageServed
<1>2. Leads(w, Redirect(CategoryUrl(w, PublishedPath(d))), d)
  BY <1>1 DEF Leads
<1>. QED
  BY <1>2, LeadsSettles

\* A redirect to the landing page of a category that was found settles.
LEMMA ToLandingSettles ==
  ASSUME SiteInv, NEW w, NEW slug, CategoriesBySlug(slug) # {}, NEW c,
         c = CHOOSE x \in CategoriesBySlug(slug) : TRUE
  PROVE  Settled(w, Redirect(CategoryUrl(w, RoutePath(Root, c))))
<1>. DEFINE u == CategoryUrl(w, RoutePath(Root, c))
<1>1. Respond(w, u, TRUE) = Landing(c)
  BY FoundCategory, LandingServed
<1>2. Redirect(u).to = u
  BY Kinds
<1>. HIDE DEF u
<1>3. Respond(w, Redirect(u).to, TRUE).kind = "landing"
  BY <1>1, <1>2, Kinds, ZenonT(40)
<1>. QED
  BY <1>3 DEF Settled, u

\* Below the handle, where no route holds the segment.
LEMMA SharedSegmentSettles ==
  ASSUME SiteInv, NEW w, NEW url
  PROVE  Settled(w, SharedSegment(w, url))
<1>. DEFINE found == CategoriesBySlug(url.path.slug)
            leaf == GetUniquePublishedByLeafSlug(url.path.slug)
            c == CHOOSE x \in found : TRUE
<1>1. CASE found # {}
  <2>1. Settled(w, Redirect(CategoryUrl(w, RoutePath(Root, c))))
    BY <1>1, ToLandingSettles
  <2>2. \/ SharedSegment(w, url) = Redirect(CategoryUrl(w, RoutePath(Root, c)))
        \/ SharedSegment(w, url) = Landing(c)
    BY <1>1 DEF SharedSegment
  <2>. QED
    BY <2>1, <2>2, OthersSettle
<1>2. CASE found = {} /\ url.path.slug \in HandleSlugs /\ Categorised(leaf)
  <2>1. leaf \in PublishedDocuments
    BY <1>2, FoundIsPublished DEF Categorised
  <2>2. Settled(w, Redirect(CategoryUrl(w, PublishedPath(leaf))))
    BY <1>2, <2>1, ToCategorySettles
  <2>. QED
    BY <1>2, <2>2 DEF SharedSegment
<1>3. CASE /\ found = {}
           /\ url.path.slug \notin HandleSlugs \/ ~Categorised(leaf)
  <2>1. SharedSegment(w, url) \in {BadRequest, NotFound}
    BY <1>3 DEF SharedSegment
  <2>. QED
    BY <2>1, OthersSettle
<1>. QED
  BY <1>1, <1>2, <1>3

\* Below the handle, one segment.
LEMMA CommunityPostSettles ==
  ASSUME SiteInv, NEW w, NEW url, url.path.category = Root
  PROVE  Settled(w, PublicCommunityPost(w, url))
<1>. DEFINE d == GetPublishedBySlug(url.path)
<1>1. CASE d = 0
  <2>1. PublicCommunityPost(w, url) = SharedSegment(w, url)
    BY <1>1 DEF PublicCommunityPost
  <2>. QED
    BY <2>1, SharedSegmentSettles
<1>2. CASE d # 0
  <2>1. d \in PublishedDocuments
    BY <1>2, FoundIsPublished
  <2>2. Leads(w, PublicCommunityPost(w, url), d)
    BY <2>1, FoundAtRoot
  <2>. QED
    BY <2>2, LeadsSettles
<1>. QED
  BY <1>1, <1>2

\* Below the article path.
LEMMA PublicPostSettles ==
  ASSUME SiteInv, NEW w, NEW url
  PROVE  Settled(w, PublicPost(w, url))
<1>. DEFINE exact == GetPublishedBySlug(url.path)
            leaf == GetUniquePublishedByLeafSlug(url.path.slug)
<1>1. CASE url.path.category # Root
  <2>1. PublicPost(w, url) = NotFound
    BY <1>1 DEF PublicPost
  <2>. QED
    BY <2>1, OthersSettle
<1>2. CASE url.path.category = Root /\ exact # 0
  <2>1. exact \in PublishedDocuments
    BY <1>2, FoundIsPublished
  <2>2. Leads(w, PublicPost(w, url), exact)
    BY <1>2, <2>1, FoundAtRoot
  <2>. QED
    BY <2>2, LeadsSettles
<1>3. CASE url.path.category = Root /\ exact = 0 /\ ~Categorised(leaf)
  <2>1. PublicPost(w, url) = NotFound
    BY <1>3 DEF PublicPost
  <2>. QED
    BY <2>1, OthersSettle
<1>4. CASE url.path.category = Root /\ exact = 0 /\ Categorised(leaf)
  <2>1. leaf # 0
    BY <1>4 DEF Categorised
  <2>2. PublicPost(w, url) = Redirect(CategoryUrl(w, PublishedPath(leaf)))
    BY <1>4, <2>1 DEF PublicPost
  <2>3. leaf \in PublishedDocuments
    BY <2>1, FoundIsPublished
  <2>. QED
    BY <1>4, <2>2, <2>3, ToCategorySettles
<1>. QED
  BY <1>1, <1>2, <1>3, <1>4

\* Below the handle, a category and a slug.
LEMMA CommunityCategoryPostSettles ==
  ASSUME SiteInv, NEW w, NEW url, url.path.category # Root
  PROVE  Settled(w, PublicCommunityCategoryPost(w, url))
<1>. DEFINE d == GetPublishedBySlug(url.path)
<1>1. CASE ~Categorised(d)
  <2>1. PublicCommunityCategoryPost(w, url) = NotFound
    BY <1>1 DEF PublicCommunityCategoryPost
  <2>. QED
    BY <2>1, OthersSettle
<1>2. CASE Categorised(d)
  <2>1. d \in PublishedDocuments
    BY <1>2, FoundIsPublished DEF Categorised
  <2>2. Leads(w, PublicCommunityCategoryPost(w, url), d)
    BY <1>2, <2>1, FoundInCategory
  <2>. QED
    BY <2>2, LeadsSettles
<1>. QED
  BY <1>1, <1>2

\* At the root of the primary site.
LEMMA FallbackSettles ==
  ASSUME SiteInv, NEW w, NEW path, NEW html
  PROVE  Settled(w, SpaIndexFallback(w, path, html))
<1>. DEFINE d == GetPublishedBySlug(path)
            found == CategoriesBySlug(path.slug)
            c == CHOOSE x \in found : TRUE
<1>1. Categorised(d) => Settled(w, Redirect(CategoryUrl(w, PublishedPath(d))))
  <2>1. Categorised(d) => d \in PublishedDocuments
    BY FoundIsPublished DEF Categorised
  <2>. QED
    BY <2>1, ToCategorySettles
<1>2. Settled(w, PrimaryCategoryPost(w, path, html))
  <2>1. \/ PrimaryCategoryPost(w, path, html) = Nothing
        \/ PrimaryCategoryPost(w, path, html) = Page(d)
        \/ /\ Categorised(d)
           /\ PrimaryCategoryPost(w, path, html) = Redirect(CategoryUrl(w, PublishedPath(d)))
    BY DEF PrimaryCategoryPost
  <2>. QED
    BY <1>1, <2>1, OthersSettle
<1>3. Settled(w, PrimaryCategoryLanding(w, path))
  <2>1. \/ PrimaryCategoryLanding(w, path) = Nothing
        \/ PrimaryCategoryLanding(w, path) = Landing(c)
        \/ /\ found # {}
           /\ PrimaryCategoryLanding(w, path) = Redirect(CategoryUrl(w, RoutePath(Root, c)))
    BY DEF PrimaryCategoryLanding
  <2>2. found # {} => Settled(w, Redirect(CategoryUrl(w, RoutePath(Root, c))))
    BY ToLandingSettles
  <2>. QED
    BY <2>1, <2>2, OthersSettle
<1>4. Settled(w, PrimaryLegacyAlias(w, path))
  <2>1. \/ PrimaryLegacyAlias(w, path) = Nothing
        \/ /\ Categorised(d)
           /\ PrimaryLegacyAlias(w, path) = Redirect(CategoryUrl(w, PublishedPath(d)))
    BY DEF PrimaryLegacyAlias
  <2>. QED
    BY <1>1, <2>1, OthersSettle
<1>5. \/ SpaIndexFallback(w, path, html) = PrimaryCategoryPost(w, path, html)
      \/ SpaIndexFallback(w, path, html) = PrimaryCategoryLanding(w, path)
      \/ SpaIndexFallback(w, path, html) = PrimaryLegacyAlias(w, path)
      \/ SpaIndexFallback(w, path, html) = Shell
      \/ SpaIndexFallback(w, path, html) = NotFound
  BY FallbackAnswers
<1>. QED
  BY <1>2, <1>3, <1>4, <1>5, OthersSettle

\* There are no chains and no loops of redirects.
LEMMA EveryRedirectSettles ==
  ASSUME SiteInv
  PROVE  RedirectsSettle
<1>. SUFFICES ASSUME NEW w \in Settings, NEW url \in Urls(w), NEW html \in BOOLEAN
              PROVE  Settled(w, Respond(w, url, html))
  BY DEF RedirectsSettle, Settled
<1>1. url.form \in {"article", "root", "community"}
  BY DEF Urls
<1>2. CASE url.form = "article"
  BY <1>2, RouteTable, PublicPostSettles
<1>3. CASE url.form = "community" /\ url.path.category = Root
  BY <1>3, RouteTable, CommunityPostSettles
<1>4. CASE url.form = "community" /\ url.path.category # Root
  BY <1>4, RouteTable, CommunityCategoryPostSettles
<1>5. CASE url.form = "root"
  <2>1. \/ Respond(w, url, html) = [kind |-> "references"]
        \/ Respond(w, url, html) = SpaIndexFallback(w, url.path, html)
    BY <1>5, RouteTable
  <2>2. Settled(w, SpaIndexFallback(w, url.path, html))
    BY FallbackSettles
  <2>. QED
    BY <2>1, <2>2, OthersSettle
<1>. QED
  BY <1>1, <1>2, <1>3, <1>4, <1>5

\* Addresses are served wherever the tables agree.
LEMMA AddressesServedBySite ==
  ASSUME SiteInv PROVE AddressesServed
BY AdvertisedServed, OldAddressesServed, EveryRedirectSettles DEF AddressesServed

\* Every address the site hands out, or has ever handed out, is served, under
\* every setting of the server: the URLs of the sitemap, the landing pages, the
\* archive and the machine list directly, the old ones through a redirect, and
\* no redirect of any handler leads to another or to nothing.
THEOREM AddressesStayServed == Spec => []AddressesServed
<1>1. TypeOK /\ PublicationInv /\ LandingPagesFree => AddressesServed
  BY AddressesServedBySite DEF SiteInv
<1>. QED
  BY <1>1, ContentTypes, PublicationInvariant, LandingPagesStayFree, PTL

---------------------------------------------------------------------------
(* The interfaces show the same site. *)

\* An item of a feed names its document, so a list has as many items as posts.
LEMMA ItemsCounted ==
  ASSUME NEW S \in SUBSET DocumentIds
  PROVE  Cardinality({FeedItem(d) : d \in S}) = Cardinality(S)
<1>. DEFINE T == {FeedItem(d) : d \in S}
            f == [d \in S |-> FeedItem(d)]
<1>1. IsFiniteSet(S)
  <2>1. IsFiniteSet(DocumentIds)
    BY FS_Interval, BoundsAssumption DEF DocumentIds
  <2>. QED
    BY <2>1, FS_Subset
<1>2. f \in [S -> T] /\ \A t \in T : \E d \in S : f[d] = t
  OBVIOUS
<1>3. \A d, e \in S : f[d] = f[e] => d = e
  BY DEF FeedItem
<1>. HIDE DEF f, T
<1>4. f \in Bijection(S, T)
  BY <1>2, <1>3 DEF Bijection, Injection, Surjection, IsInjective
<1>5. ExistsBijection(S, T)
  BY <1>4 DEF ExistsBijection
<1>. QED
  BY <1>1, <1>5, FS_Bijection DEF T

\* A collection and its landing page have the same posts, and count them.
LEMMA CollectionsAgree ==
  ASSUME SeriesComplete, NEW c \in CategorySlugs
  PROVE  /\ c \in series =>
              /\ SeriesPosts(c) = {FeedItem(d) : d \in LandingPosts(c)}
              /\ SeriesPosts(c) = CategoryPosts(c)
              /\ SeriesPostCount(c) = Cardinality(SeriesPosts(c))
         /\ CategoryPostCount(c) = Cardinality(LandingPosts(c))
<1>1. PublicMembers(c) \in SUBSET DocumentIds
  BY DEF PublicMembers, PublishedIn
<1>2. Cardinality({FeedItem(d) : d \in PublicMembers(c)}) = Cardinality(PublicMembers(c))
  BY <1>1, ItemsCounted
<1>3. c \in series => PublishedIn(c) = PublicMembers(c)
  BY DEF SeriesComplete
<1>4. LandingPosts(c) = PublishedIn(c)
  BY <1>3 DEF LandingPosts
<1>. QED
  BY <1>2, <1>3, <1>4 DEF SeriesPosts, CategoryPosts, SeriesPostCount, CategoryPostCount

\* A path that a page and the JSON interface both know names one post.
LEMMA PathsAgree ==
  ASSUME SiteInv, NEW w \in Settings, NEW path \in Paths,
         NEW d \in LeadsTo(w, Url("community", TRUE, path))
  PROVE  BlogPostAtPath(path) \in {0, d}
<1>. DEFINE e == GetPublishedBySlug(path)
            url == Url("community", TRUE, path)
<1>1. CASE e # 0 /\ (path.category = Root \/ Categorised(e))
  <2>1. LeadsTo(w, url) = {e}
    BY <1>1, OldAddressesServed DEF OldAddressesLead
  <2>. QED
    BY <2>1 DEF BlogPostAtPath
<1>2. CASE path.category # Root /\ ~Categorised(e)
  <2>1. url.path = path /\ url.form = "community"
    BY DEF Url
  <2>. HIDE DEF url
  <2>2. Respond(w, url, TRUE) = NotFound
    BY <1>2, <2>1, RouteTable DEF PublicCommunityCategoryPost
  <2>3. NotFound.kind # "redirect" /\ \A x : NotFound # Page(x)
    BY Kinds
  <2>4. LeadsTo(w, url) = {}
    BY <2>2, <2>3 DEF LeadsTo
  <2>. QED
    BY <2>4 DEF url
<1>. QED
  BY <1>1, <1>2 DEF BlogPostAtPath

\* Requests that may share a cache entry have the same answer, whatever they
\* accept.
LEMMA SharedEntriesRight == SharedEntriesAgree
<1>. SUFFICES ASSUME NEW w \in Settings, NEW url \in Urls(w),
                     Cacheable(w, url, TRUE), Cacheable(w, url, FALSE)
              PROVE  Respond(w, url, TRUE) = Respond(w, url, FALSE)
  BY DEF SharedEntriesAgree
<1>1. url.form \in {"article", "root", "community"}
  BY DEF Urls
<1>2. \/ url.form # "root"
      \/ w.references /\ url.path = RoutePath(Root, ReferencesSlug)
  BY DEF Cacheable
<1>. QED
  BY <1>1, <1>2, RouteTable

---------------------------------------------------------------------------
(* The home page. *)

\* A set of numbers that is not empty has a least element.
LEMMA LeastNat ==
  ASSUME NEW T, T \subseteq Nat, T # {}
  PROVE  \E x \in T : \A y \in T : x <= y
<1> DEFINE R == {ss \in Nat \X Nat : ss[1] < ss[2]}
<1>1. OpToRel(<, Nat) = R
  BY DEF OpToRel
<1>2. IsWellFoundedOn(R, Nat)
  BY <1>1, NatLessThanWellFounded
<1>3. PICK x \in T : \A y \in T : ~(<<y, x>> \in R)
  BY <1>2, WFMin
<1>4. ASSUME NEW y \in T
      PROVE  x <= y
  <2>1. <<y, x>> \in Nat \X Nat /\ <<y, x>>[1] = y /\ <<y, x>>[2] = x
    OBVIOUS
  <2>2. ~(y < x)
    BY <1>3, <2>1
  <2> QED
    BY <2>2
<1> QED
  BY <1>4

\* The sequence s has every row of S once, and no other row.
Lists(s, S) == s \in Seq(S) /\ IsInjective(s) /\ ToSet(s) = S

\* The sequence s has different rows of S, n of them or all there are.
Fills(s, S, n) ==
  /\ s \in Seq(S)
  /\ IsInjective(s)
  /\ Len(s) = IF Cardinality(S) < n THEN Cardinality(S) ELSE n

\* A sequence without repetition is as long as it has elements.
LEMMA CountedOnce ==
  ASSUME NEW S, NEW s \in Seq(S), IsInjective(s)
  PROVE  /\ IsFiniteSet(ToSet(s))
         /\ Cardinality(ToSet(s)) = Len(s)
         /\ ToSet(s) \subseteq S
         /\ Len(s) \in Nat
<1>1. Len(s) \in Nat /\ DOMAIN s = 1..Len(s) /\ ToSet(s) \subseteq S
  BY DEF ToSet
<1>2. s \in Bijection(1..Len(s), ToSet(s))
  BY <1>1 DEF ToSet, IsInjective, Bijection, Injection, Surjection
<1>3. ExistsBijection(1..Len(s), ToSet(s))
  BY <1>2 DEF ExistsBijection
<1>4. IsFiniteSet(1..Len(s)) /\ Cardinality(1..Len(s)) = Len(s)
  BY <1>1, FS_Interval
<1>. QED
  BY <1>1, <1>3, <1>4, FS_Bijection

\* A sequence without repetition that is as long as a set has elements has all
\* of them.
LEMMA LongEnough ==
  ASSUME NEW S, IsFiniteSet(S), NEW s \in Seq(S), IsInjective(s),
         Len(s) = Cardinality(S)
  PROVE  Lists(s, S)
<1>1. /\ Cardinality(ToSet(s)) = Cardinality(S)
      /\ ToSet(s) \in SUBSET S
  BY CountedOnce
<1>2. ToSet(s) = S
  BY <1>1, FS_Subset
<1>. QED
  BY <1>2 DEF Lists

\* A listed set is finite and as large as its list is long.
LEMMA ListedIsFinite ==
  ASSUME NEW S, NEW s, Lists(s, S)
  PROVE  IsFiniteSet(S) /\ Cardinality(S) = Len(s) /\ Len(s) \in Nat
  BY CountedOnce DEF Lists

\* The first rows of a sequence are rows of it, none of them twice.
LEMMA TakeFirst ==
  ASSUME NEW S, NEW s \in Seq(S), IsInjective(s), NEW n \in Nat
  PROVE  /\ Take(s, n) \in Seq(S)
         /\ IsInjective(Take(s, n))
         /\ Len(Take(s, n)) = IF n < Len(s) THEN n ELSE Len(s)
         /\ n >= Len(s) => Take(s, n) = s
         /\ \A T : s \in Seq(T) => Take(s, n) \in Seq(T)
<1> DEFINE m == IF n < Len(s) THEN n ELSE Len(s)
<1>1. m \in 0..Len(s) /\ m \in Nat /\ Len(s) \in Nat /\ (n >= Len(s) => m = Len(s))
  OBVIOUS
<1>2. Take(s, n) = SubSeq(s, 1, m)
  BY DEF Take
<1> HIDE DEF m
<1>3. SubSeq(s, 1, m) = [i \in 1..m |-> s[i]]
  BY <1>1
<1>4. ASSUME NEW T, s \in Seq(T) PROVE SubSeq(s, 1, m) \in Seq(T)
  BY <1>1, <1>3, <1>4
<1>5. Len(SubSeq(s, 1, m)) = m /\ DOMAIN SubSeq(s, 1, m) = 1..m
  BY <1>1, <1>3
<1>6. IsInjective(SubSeq(s, 1, m))
  BY <1>1, <1>3 DEF IsInjective
<1>7. n >= Len(s) => SubSeq(s, 1, m) = s
  BY <1>1, <1>3
<1>. QED
  BY <1>2, <1>4, <1>5, <1>6, <1>7 DEF m
\* The rows in the order of their positions are all rows, each of them once.
LEMMA Positioned ==
  ASSUME NEW S \in SUBSET Nat, IsFiniteSet(S), NEW items, \A d \in S : items[d] \in Nat
  PROVE  Lists(InPosition(S, items), S)
<1> DEFINE Below(d) == {e \in S : Before(items, e, d)}
           n == Cardinality(S)
           r == [d \in S |-> Cardinality(Below(d))]
<1>1. n \in Nat
  BY FS_CardinalityType
<1>2. ASSUME NEW d \in S, NEW e \in S
      PROVE  /\ ~Before(items, d, d)
             /\ d # e => Before(items, d, e) \/ Before(items, e, d)
             /\ Before(items, d, e) => Below(d) \subseteq Below(e)
  <2>1. items[d] \in Nat /\ items[e] \in Nat /\ d \in Nat /\ e \in Nat
    OBVIOUS
  <2>2. ASSUME NEW x \in S, Before(items, d, e), Before(items, x, d)
        PROVE  Before(items, x, e)
    <3>1. items[x] \in Nat /\ x \in Nat
      OBVIOUS
    <3> QED
      BY <2>1, <2>2, <3>1 DEF Before
  <2>3. ~Before(items, d, d) /\ (d # e => Before(items, d, e) \/ Before(items, e, d))
    BY <2>1 DEF Before
  <2> QED
    BY <2>2, <2>3
<1>3. ASSUME NEW d \in S
      PROVE  IsFiniteSet(Below(d)) /\ Cardinality(Below(d)) \in 0..(n - 1)
  <2>1. Below(d) \in SUBSET S /\ d \notin Below(d)
    BY <1>2
  <2> HIDE DEF Below
  <2>2. /\ IsFiniteSet(Below(d))
        /\ Cardinality(Below(d)) <= n
        /\ n = Cardinality(Below(d)) => S = Below(d)
    BY <2>1, FS_Subset
  <2>3. Cardinality(Below(d)) \in Nat
    BY <2>2, FS_CardinalityType
  <2> QED
    BY <1>1, <2>1, <2>2, <2>3
<1>4. ASSUME NEW d \in S, NEW e \in S, Before(items, d, e)
      PROVE  Cardinality(Below(d)) < Cardinality(Below(e))
  <2>1. Below(d) \in SUBSET Below(e) /\ d \in Below(e) /\ d \notin Below(d)
    BY <1>2, <1>4
  <2>2. IsFiniteSet(Below(e)) /\ Cardinality(Below(d)) \in Int /\ Cardinality(Below(e)) \in Int
    BY <1>1, <1>3
  <2> HIDE DEF Below
  <2>3. /\ Cardinality(Below(d)) <= Cardinality(Below(e))
        /\ Cardinality(Below(e)) = Cardinality(Below(d)) => Below(e) = Below(d)
    BY <2>1, <2>2, FS_Subset
  <2> QED
    BY <2>1, <2>2, <2>3
<1>5. ASSUME NEW d \in S, NEW e \in S, Cardinality(Below(d)) = Cardinality(Below(e))
      PROVE  d = e
  <2>1. Cardinality(Below(d)) \in Int /\ Cardinality(Below(e)) \in Int
    BY <1>1, <1>3
  <2> HIDE DEF Below
  <2> QED
    BY <1>2, <1>4, <1>5, <2>1
<1>6. r \in Injection(S, 0..(n - 1))
  <2> HIDE DEF Below
  <2>1. r \in [S -> 0..(n - 1)]
    BY <1>3
  <2> QED
    BY <1>5, <2>1 DEF Injection, IsInjective
<1>7. IsFiniteSet(0..(n - 1)) /\ Cardinality(0..(n - 1)) = n
  BY <1>1, FS_Interval, SMTT(30)
<1>8. r \in Surjection(S, 0..(n - 1))
  <2> HIDE DEF r
  <2> QED
    BY <1>6, <1>7, FS_Injection
<1>9. ASSUME NEW j \in 1..n
      PROVE  \E d \in S : Cardinality(Below(d)) = j - 1
  <2>1. j - 1 \in 0..(n - 1)
    BY <1>1
  <2> HIDE DEF Below
  <2> QED
    BY <1>8, <2>1 DEF Surjection
<1> DEFINE s == InPosition(S, items)
<1>10. s = [j \in 1..n |-> CHOOSE d \in S : Cardinality(Below(d)) = j - 1]
  BY DEF InPosition
<1> HIDE DEF s, Below, n
<1>11. ASSUME NEW j \in 1..n
       PROVE  s[j] \in S /\ Cardinality(Below(s[j])) = j - 1
  BY <1>9, <1>10
<1>12. s \in Seq(S) /\ Len(s) = n /\ DOMAIN s = 1..n
  BY <1>1, <1>10, <1>11
<1>13. IsInjective(s)
  <2> SUFFICES ASSUME NEW j \in 1..n, NEW k \in 1..n, s[j] = s[k]
               PROVE  j = k
    BY <1>12 DEF IsInjective
  <2>1. j - 1 = k - 1
    BY <1>11
  <2> QED
    BY <1>1, <2>1
<1> QED
  BY <1>12, <1>13, LongEnough DEF s, n

\* The rows that are not pinned, each of them once.
LEMMA NotPinnedLists ==
  ASSUME NEW S, NEW s \in Seq(S), IsInjective(s), NEW P
  PROVE  Lists(NotPinned(s, P), ToSet(s) \ P)
<1> DEFINE kept == {i \in DOMAIN s : s[i] \notin P}
           own == [i \in kept |-> i]
           at == InPosition(kept, own)
           t == NotPinned(s, P)
<1>1. DOMAIN s = 1..Len(s) /\ Len(s) \in Nat
  OBVIOUS
<1>2. kept \in SUBSET Nat /\ IsFiniteSet(kept) /\ \A i \in kept : own[i] \in Nat
  <2>1. IsFiniteSet(1..Len(s)) /\ kept \in SUBSET (1..Len(s))
    BY <1>1, FS_Interval
  <2>2. IsFiniteSet(kept)
    BY <2>1, FS_Subset
  <2> QED
    BY <1>1, <2>2
<1>3. Lists(at, kept)
  <2> HIDE DEF kept, own
  <2> QED
    BY <1>2, Positioned
<1>4. t = [j \in DOMAIN at |-> s[at[j]]]
  BY DEF NotPinned
<1> HIDE DEF at, t
<1>5. /\ at \in Seq(kept) /\ DOMAIN at = 1..Len(at) /\ Len(at) \in Nat
      /\ \A j, k \in DOMAIN at : at[j] = at[k] => j = k
      /\ \A i \in kept : \E j \in DOMAIN at : at[j] = i
      /\ \A j \in DOMAIN at : at[j] \in kept
  <2> HIDE DEF kept
  <2> QED
    BY <1>3 DEF Lists, IsInjective, ToSet
<1>6. \A j \in DOMAIN at : t[j] \in ToSet(s) \ P
  BY <1>4, <1>5 DEF ToSet
<1>7. t \in Seq(ToSet(s) \ P) /\ DOMAIN t = DOMAIN at
  <2> HIDE DEF kept
  <2> QED
    BY <1>4, <1>5, <1>6
<1>8. IsInjective(t)
  BY <1>4, <1>5, <1>7 DEF IsInjective
<1>9. ASSUME NEW x \in ToSet(s) \ P
      PROVE  \E j \in DOMAIN t : t[j] = x
  <2>1. PICK i \in DOMAIN s : s[i] = x
    BY DEF ToSet
  <2>2. i \in kept
    BY <2>1
  <2> QED
    BY <1>4, <1>5, <1>7, <2>1, <2>2
<1>10. ToSet(t) = ToSet(s) \ P
  <2>1. ToSet(t) = {t[j] : j \in DOMAIN t}
    BY DEF ToSet
  <2> QED
    BY <1>6, <1>7, <1>9, <2>1
<1> QED
  BY <1>7, <1>8, <1>10 DEF Lists, t

\* The rows of a query without the pins: as many as there is room for.
LEMMA UnpinnedFills ==
  ASSUME NEW S, NEW s, Lists(s, S), NEW P, IsFiniteSet(P), NEW n \in Nat
  PROVE  Fills(Unpinned(s, P, n), S \ P, n)
<1> DEFINE p == Cardinality(P)
           t == Take(s, n + p)
           u == NotPinned(t, P)
           v == Take(u, n)
<1>1. p \in Nat /\ n + p \in Nat
  BY FS_CardinalityType
<1>2. s \in Seq(S) /\ IsInjective(s) /\ ToSet(s) = S
  BY DEF Lists
<1>3. IsFiniteSet(S) /\ Cardinality(S) = Len(s) /\ Len(s) \in Nat
  BY ListedIsFinite
<1>4. /\ t \in Seq(S) /\ IsInjective(t)
      /\ Len(t) = IF n + p < Len(s) THEN n + p ELSE Len(s)
      /\ n + p >= Len(s) => t = s
  <2> DEFINE k == n + p
  <2>1. k \in Nat /\ t = Take(s, k)
    BY <1>1
  <2> HIDE DEF k, t
  <2>2. /\ t \in Seq(S) /\ IsInjective(t)
        /\ Len(t) = IF k < Len(s) THEN k ELSE Len(s)
        /\ k >= Len(s) => t = s
    BY <1>2, <2>1, TakeFirst
  <2> QED
    BY <2>2 DEF k
<1>5. Lists(u, ToSet(t) \ P)
  <2> HIDE DEF t
  <2> QED
    BY <1>4, NotPinnedLists
<1>6. Unpinned(s, P, n) = v
  BY DEF Unpinned
<1> HIDE DEF t, u, v, p
<1>7. /\ IsFiniteSet(ToSet(t)) /\ Cardinality(ToSet(t)) = Len(t)
      /\ ToSet(t) \subseteq S /\ Len(t) \in Nat
  BY <1>4, CountedOnce
<1>8. Cardinality(ToSet(t) \ P) = Len(u) /\ Len(u) \in Nat
  BY <1>5, ListedIsFinite
<1>9. /\ Cardinality(ToSet(t) \ P) = Len(t) - Cardinality(ToSet(t) \cap P)
      /\ Cardinality(ToSet(t) \cap P) <= p
      /\ Cardinality(ToSet(t) \cap P) \in Nat
  BY <1>7, FS_Difference, FS_Intersection, FS_CardinalityType DEF p
<1>10. /\ IsFiniteSet(S \ P) /\ Cardinality(S \ P) \in Nat
       /\ Cardinality(ToSet(t) \ P) <= Cardinality(S \ P)
  <2>1. IsFiniteSet(S \ P)
    BY <1>3, FS_Difference
  <2>2. (ToSet(t) \ P) \in SUBSET (S \ P)
    BY <1>7
  <2> QED
    BY <2>1, <2>2, FS_Subset, FS_CardinalityType
<1>11. u \in Seq(ToSet(t) \ P) /\ IsInjective(u)
  BY <1>5 DEF Lists
<1>12. /\ v \in Seq(ToSet(t) \ P) /\ IsInjective(v)
       /\ Len(v) = IF n < Len(u) THEN n ELSE Len(u)
  BY <1>11, TakeFirst DEF v
<1>13. v \in Seq(S \ P)
  <2>1. (ToSet(t) \ P) \subseteq S \ P
    BY <1>7
  <2> QED
    BY <1>12, <2>1
<1>14. Len(v) = IF Cardinality(S \ P) < n THEN Cardinality(S \ P) ELSE n
  <2>1. CASE n + p >= Len(s)
    <3>1. ToSet(t) = S
      BY <1>2, <1>4, <2>1
    <3> QED
      BY <1>8, <1>10, <1>12, <3>1
  <2>2. CASE n + p < Len(s)
    <3>1. Len(u) >= n
      BY <1>1, <1>4, <1>8, <1>9, <2>2
    <3> QED
      BY <1>8, <1>10, <1>12, <3>1
  <2> QED
    BY <1>1, <1>3, <2>1, <2>2
<1> QED
  BY <1>6, <1>12, <1>13, <1>14 DEF Fills
\* Sets without a common row have as many rows as both of them.
LEMMA DisjointUnion ==
  ASSUME NEW A, IsFiniteSet(A), NEW B, IsFiniteSet(B), A \cap B = {}
  PROVE  /\ IsFiniteSet(A \cup B)
         /\ Cardinality(A \cup B) = Cardinality(A) + Cardinality(B)
         /\ Cardinality(A) \in Nat /\ Cardinality(B) \in Nat
<1>1. Cardinality(A \cap B) = 0
  BY FS_EmptySet
<1>2. /\ IsFiniteSet(A \cup B)
      /\ Cardinality(A \cup B) = Cardinality(A) + Cardinality(B) - Cardinality(A \cap B)
  BY FS_Union
<1>3. Cardinality(A) \in Nat /\ Cardinality(B) \in Nat
  BY FS_CardinalityType
<1>. QED
  BY <1>1, <1>2, <1>3

\* A list continued with rows of another set, as far as there is room.
LEMMA FillsOn ==
  ASSUME NEW A, IsFiniteSet(A), NEW B, IsFiniteSet(B), A \cap B = {},
         NEW n \in Nat, NEW s, Fills(s, A, n), NEW t, Fills(t, B, n - Len(s))
  PROVE  Fills(s \o t, A \cup B, n)
<1>1. Cardinality(A) \in Nat /\ Cardinality(B) \in Nat
  BY FS_CardinalityType
<1>2. Cardinality(A \cup B) = Cardinality(A) + Cardinality(B)
  BY DisjointUnion
<1>3. s \in Seq(A) /\ t \in Seq(B) /\ s \in Seq(A \cup B) /\ t \in Seq(A \cup B)
  BY DEF Fills
<1>4. /\ s \o t \in Seq(A \cup B)
      /\ Len(s \o t) = Len(s) + Len(t)
      /\ Len(s) \in Nat /\ Len(t) \in Nat
      /\ DOMAIN (s \o t) = 1..(Len(s) + Len(t))
      /\ \A i \in 1..(Len(s) + Len(t)) :
           (s \o t)[i] = IF i <= Len(s) THEN s[i] ELSE t[i - Len(s)]
  BY <1>3
<1>5. IsInjective(s \o t)
  <2> DEFINE w == s \o t
  <2> HIDE DEF w
  <2>1. SUFFICES ASSUME NEW i \in 1..(Len(s) + Len(t)), NEW j \in 1..(Len(s) + Len(t)),
                        w[i] = w[j]
                 PROVE  i = j
    BY <1>4 DEF IsInjective, w
  <2>2. /\ \A k \in 1..Len(s) : s[k] \in A
        /\ \A k \in 1..Len(t) : t[k] \in B
        /\ \A k, l \in 1..Len(s) : s[k] = s[l] => k = l
        /\ \A k, l \in 1..Len(t) : t[k] = t[l] => k = l
    BY <1>3 DEF Fills, IsInjective
  <2>3. /\ w[i] = IF i <= Len(s) THEN s[i] ELSE t[i - Len(s)]
        /\ w[j] = IF j <= Len(s) THEN s[j] ELSE t[j - Len(s)]
    BY <1>4 DEF w
  <2>4. /\ i <= Len(s) => i \in 1..Len(s)
        /\ ~(i <= Len(s)) => i - Len(s) \in 1..Len(t)
        /\ j <= Len(s) => j \in 1..Len(s)
        /\ ~(j <= Len(s)) => j - Len(s) \in 1..Len(t)
    BY <1>4
  <2>5. i <= Len(s) <=> j <= Len(s)
    BY <2>1, <2>2, <2>3, <2>4
  <2>6. CASE i <= Len(s)
    BY <2>1, <2>2, <2>3, <2>4, <2>5, <2>6
  <2>7. CASE ~(i <= Len(s))
    <3>1. i - Len(s) = j - Len(s)
      BY <2>1, <2>2, <2>3, <2>4, <2>5, <2>7
    <3> QED
      BY <1>4, <3>1
  <2> QED
    BY <2>6, <2>7
<1>6. Len(s \o t) = IF Cardinality(A \cup B) < n THEN Cardinality(A \cup B) ELSE n
  <2>1. Len(s) = IF Cardinality(A) < n THEN Cardinality(A) ELSE n
    BY DEF Fills
  <2>2. Len(t) = IF Cardinality(B) < n - Len(s) THEN Cardinality(B) ELSE n - Len(s)
    BY DEF Fills
  <2> QED
    BY <1>1, <1>2, <1>4, <2>1, <2>2
<1> QED
  BY <1>4, <1>5, <1>6 DEF Fills

\* A set that is not too large has a sequence of its elements.
LEMMA SetToSeqLists ==
  ASSUME NEW S, IsFiniteSet(S)
  PROVE  Lists(SetToSeq(S), S)
<1>1. Cardinality(S) \in Nat /\ ExistsBijection(1..Cardinality(S), S)
  BY FS_CardinalityType
<1>2. PICK f \in Bijection(1..Cardinality(S), S) : TRUE
  BY <1>1 DEF ExistsBijection
<1>3. f \in [1..Cardinality(S) -> S] /\ IsInjective(f)
  BY <1>2 DEF Bijection, Injection
<1> DEFINE s == SetToSeq(S)
<1>4. s \in [1..Cardinality(S) -> S] /\ IsInjective(s)
  BY <1>3 DEF SetToSeq
<1> HIDE DEF s
<1>5. s \in Seq(S) /\ Len(s) = Cardinality(S)
  BY <1>1, <1>4
<1> QED
  BY <1>4, <1>5, LongEnough DEF s

\* Two lists without a common row are a list of the rows of both.
LEMMA ListsOn ==
  ASSUME NEW A, NEW s, Lists(s, A), NEW B, NEW t, Lists(t, B), A \cap B = {}
  PROVE  Lists(s \o t, A \cup B)
<1>1. /\ IsFiniteSet(A) /\ Cardinality(A) = Len(s) /\ Len(s) \in Nat
      /\ IsFiniteSet(B) /\ Cardinality(B) = Len(t) /\ Len(t) \in Nat
  BY ListedIsFinite
<1> DEFINE n == Len(s) + Len(t)
<1>2. n \in Nat /\ n - Len(s) = Len(t)
  BY <1>1
<1>3. Fills(s, A, n) /\ Fills(t, B, n - Len(s))
  <2>1. Len(s) = IF Cardinality(A) < n THEN Cardinality(A) ELSE n
    BY <1>1
  <2>2. Len(t) = IF Cardinality(B) < n - Len(s) THEN Cardinality(B) ELSE n - Len(s)
    BY <1>1
  <2> QED
    BY <2>1, <2>2 DEF Fills, Lists
<1>4. Fills(s \o t, A \cup B, n)
  <2> HIDE DEF n
  <2> QED
    BY <1>1, <1>2, <1>3, FillsOn
<1>5. /\ IsFiniteSet(A \cup B)
      /\ Cardinality(A \cup B) = n
  <2>1. /\ IsFiniteSet(A \cup B)
        /\ Cardinality(A \cup B) = Cardinality(A) + Cardinality(B)
    BY <1>1, DisjointUnion
  <2> QED
    BY <1>1, <2>1
<1> HIDE DEF n
<1>6. s \o t \in Seq(A \cup B) /\ IsInjective(s \o t) /\ Len(s \o t) = n
  BY <1>2, <1>4, <1>5 DEF Fills
<1> QED
  BY <1>5, <1>6, LongEnough
\* What the loops of home_feed have after a section.
AfterSection(items, c, P) ==
  items \o Unpinned(SectionPosts(c), P, FeedLimit - Len(items))

\* The sections are filled one after the other.
LEMMA FilledRounds ==
  ASSUME NEW P, NEW sections \in Seq(CategorySlugs)
  PROVE  \E f : /\ f[0] = <<>>
                /\ \A n \in 1..Len(sections) : f[n] = AfterSection(f[n - 1], sections[n], P)
                /\ FilledSections(sections, P) = f[Len(sections)]
<1> DEFINE N == Len(sections)
           Step(g, n) == IF n = 0 THEN <<>>
                         ELSE g[n - 1] \o
                                Unpinned(SectionPosts(sections[n]), P, FeedLimit - Len(g[n - 1]))
           Upto(m) == \E g : g = [n \in 0..m |-> Step(g, n)]
           Bad == {m \in 0..N : ~Upto(m)}
<1>1. N \in Nat
  OBVIOUS
<1> HIDE DEF Upto
<1>2. Bad = {}
  <2> SUFFICES ASSUME Bad # {}
               PROVE  FALSE
    OBVIOUS
  <2>0. Bad \subseteq Nat /\ \A m \in 0..N : m \notin Bad => Upto(m)
    BY <1>1
  <2>1. PICK m \in Bad : \A k \in Bad : m <= k
    <3> HIDE DEF Bad
    <3> QED
      BY <2>0, LeastNat
  <2>2. m \in 0..N /\ ~Upto(m)
    OBVIOUS
  <2> HIDE DEF Bad
  <2>3. CASE m = 0
    <3> DEFINE g == [n \in 0..0 |-> <<>>]
    <3>1. g = [n \in 0..0 |-> Step(g, n)]
      OBVIOUS
    <3>2. Upto(0)
      BY <3>1 DEF Upto
    <3> QED
      BY <3>2, <2>2, <2>3
  <2>4. CASE m # 0
    <3>1. m - 1 \in 0..N /\ m - 1 \notin Bad /\ m \in Nat
      BY <1>1, <2>1, <2>2, <2>4
    <3>2. PICK h : h = [n \in 0..(m - 1) |-> Step(h, n)]
      BY <2>0, <3>1 DEF Upto
    <3> DEFINE g == [n \in 0..m |-> IF n < m THEN h[n] ELSE Step(h, n)]
    <3>3. \A n \in 0..m : g[n] = Step(g, n)
      <4> SUFFICES ASSUME NEW n \in 0..m
                   PROVE  g[n] = Step(g, n)
        OBVIOUS
      <4>1. CASE n = 0
        BY <4>1, <3>1, <3>2, <2>4
      <4>2. CASE n # 0
        <5>1. n - 1 \in 0..m /\ n - 1 < m /\ g[n - 1] = h[n - 1]
          BY <3>1, <4>2
        <5>2. Step(g, n) = Step(h, n)
          BY <5>1
        <5> HIDE DEF Step
        <5>3. n < m => h[n] = Step(h, n)
          <6>1. n < m => n \in 0..(m - 1)
            BY <3>1
          <6> QED
            BY <3>2, <6>1
        <5> QED
          BY <5>2, <5>3
      <4> QED
        BY <4>1, <4>2
    <3> HIDE DEF Step
    <3>4. g = [n \in 0..m |-> Step(g, n)]
      BY <3>3
    <3>5. Upto(m)
      BY <3>4 DEF Upto
    <3> QED
      BY <3>5, <2>2
  <2> QED
    BY <2>3, <2>4
<1>3. Upto(N)
  <2>1. N \in 0..N
    BY <1>1
  <2> QED
    BY <1>2, <2>1
<1> DEFINE f == CHOOSE g : g = [n \in 0..N |-> Step(g, n)]
<1>4. f = [n \in 0..N |-> Step(f, n)]
  BY <1>3 DEF Upto
<1>5. FilledSections(sections, P) = f[N]
  BY DEF FilledSections
<1> HIDE DEF f
<1>6. f[0] = <<>>
  BY <1>1, <1>4
<1>7. ASSUME NEW n \in 1..N
      PROVE  f[n] = AfterSection(f[n - 1], sections[n], P)
  <2>1. n \in 0..N /\ n # 0
    BY <1>1
  <2>2. f[n] = Step(f, n)
    <3> HIDE DEF Step
    <3> QED
      BY <1>4, <2>1
  <2> QED
    BY <2>1, <2>2 DEF AfterSection
<1> QED
  BY <1>5, <1>6, <1>7

\* A section lists the published posts of its category, of a series too.
LEMMA SectionLists ==
  ASSUME TypeOK, SeriesComplete, NEW c \in CategorySlugs
  PROVE  Lists(SectionPosts(c), PublishedIn(c)) /\ PublishedIn(c) \subseteq PublishedDocuments
<1>1. PublishedIn(c) \in SUBSET DocumentIds /\ PublishedIn(c) \subseteq PublishedDocuments
  BY DEF PublishedIn, PublishedDocuments
<1>2. IsFiniteSet(DocumentIds) /\ DocumentIds \subseteq Nat
  BY BoundsAssumption, FS_Interval DEF DocumentIds
<1>3. PublishedIn(c) \in SUBSET Nat /\ IsFiniteSet(PublishedIn(c))
  BY <1>1, <1>2, FS_Subset
<1>4. CASE c \in series
  <2>1. PublicMembers(c) = PublishedIn(c)
    BY <1>4 DEF SeriesComplete
  <2>2. \A d \in PublishedIn(c) : seriesItems[c][d] \in Nat
    BY <1>1 DEF TypeOK
  <2> QED
    BY <1>1, <1>3, <1>4, <2>1, <2>2, Positioned DEF SectionPosts
<1>5. CASE c \notin series
  <2> DEFINE own == [d \in DocumentIds |-> d]
  <2>1. \A d \in PublishedIn(c) : own[d] \in Nat
    BY <1>1, <1>2
  <2>2. SectionPosts(c) = InPosition(PublishedIn(c), own)
    BY <1>5 DEF SectionPosts
  <2> HIDE DEF own
  <2> QED
    BY <1>1, <1>3, <2>1, <2>2, Positioned
<1> QED
  BY <1>4, <1>5
\* The rows of the first sections, without the pins.
FirstSections(sections, P, n) ==
  {d \in PublishedDocuments \ P : \E k \in 1..n : d \in PublishedIn(sections[k])}

\* One section more: rows no section before it has.
LEMMA NextSection ==
  ASSUME TypeOK, SeriesComplete, NEW P, IsFiniteSet(P),
         NEW sections \in Seq(CategorySlugs), IsInjective(sections),
         NEW n \in 1..Len(sections), NEW items,
         Fills(items, FirstSections(sections, P, n - 1), FeedLimit)
  PROVE  Fills(AfterSection(items, sections[n], P), FirstSections(sections, P, n), FeedLimit)
<1> DEFINE A == FirstSections(sections, P, n - 1)
           c == sections[n]
           B == PublishedIn(c) \ P
           room == FeedLimit - Len(items)
           u == Unpinned(SectionPosts(c), P, room)
<1>1. c \in CategorySlugs /\ n \in Nat /\ n - 1 \in Nat /\ n \in DOMAIN sections
  OBVIOUS
<1>2. FeedLimit \in Nat
  BY FeedAssumption
<1>3. Lists(SectionPosts(c), PublishedIn(c)) /\ PublishedIn(c) \subseteq PublishedDocuments
  <2> HIDE DEF c
  <2> QED
    BY <1>1, SectionLists
<1>4. IsFiniteSet(A) /\ IsFiniteSet(B)
  <2>1. IsFiniteSet(DocumentIds)
    BY BoundsAssumption, FS_Interval DEF DocumentIds
  <2>2. A \in SUBSET DocumentIds /\ B \in SUBSET DocumentIds
    BY DEF FirstSections, PublishedDocuments, PublishedIn
  <2> HIDE DEF A, B
  <2> QED
    BY <2>1, <2>2, FS_Subset
<1>5. A \cap B = {}
  <2> SUFFICES ASSUME NEW d \in A, d \in B
               PROVE  FALSE
    OBVIOUS
  <2>1. PICK k \in 1..(n - 1) : d \in PublishedIn(sections[k])
    BY DEF FirstSections
  <2>2. d \in PublishedIn(sections[n])
    OBVIOUS
  <2>3. sections[k] = sections[n]
    BY <2>1, <2>2 DEF PublishedIn
  <2>4. k \in DOMAIN sections /\ k # n
    BY <1>1, <2>1
  <2> QED
    BY <1>1, <2>3, <2>4 DEF IsInjective
<1>6. room \in Nat
  <2>1. Cardinality(A) \in Nat
    <3> HIDE DEF A
    <3> QED
      BY <1>4, FS_CardinalityType
  <2>2. Len(items) = IF Cardinality(A) < FeedLimit THEN Cardinality(A) ELSE FeedLimit
    BY DEF Fills
  <2> HIDE DEF A
  <2> QED
    BY <1>2, <2>1, <2>2
<1>7. Fills(u, B, room)
  <2> HIDE DEF room, c
  <2> QED
    BY <1>3, <1>6, UnpinnedFills
<1>8. Fills(items \o u, A \cup B, FeedLimit)
  <2> HIDE DEF A, B, u
  <2> QED
    BY <1>2, <1>4, <1>5, <1>7, FillsOn DEF A
<1>9. A \cup B = FirstSections(sections, P, n)
  <2>1. ASSUME NEW d \in A \cup B PROVE d \in FirstSections(sections, P, n)
    <3>1. CASE d \in A
      <4>1. PICK k \in 1..(n - 1) : d \in PublishedIn(sections[k])
        BY <3>1 DEF FirstSections
      <4>2. k \in 1..n
        BY <1>1
      <4> QED
        BY <3>1, <4>1, <4>2 DEF FirstSections
    <3>2. CASE d \in B
      <4>1. n \in 1..n
        BY <1>1
      <4> QED
        BY <1>3, <3>2, <4>1 DEF FirstSections
    <3> QED
      BY <2>1, <3>1, <3>2
  <2>2. ASSUME NEW d \in FirstSections(sections, P, n) PROVE d \in A \cup B
    <3>1. PICK k \in 1..n : d \in PublishedIn(sections[k])
      BY <2>2 DEF FirstSections
    <3>2. d \in PublishedDocuments \ P
      BY <2>2 DEF FirstSections
    <3>3. CASE k = n
      BY <3>1, <3>2, <3>3
    <3>4. CASE k # n
      <4>1. k \in 1..(n - 1)
        BY <1>1, <3>4
      <4> QED
        BY <3>1, <3>2, <4>1 DEF FirstSections
    <3> QED
      BY <3>3, <3>4
  <2> HIDE DEF A, B
  <2> QED
    BY <2>1, <2>2
<1>10. AfterSection(items, c, P) = items \o u
  BY DEF AfterSection
<1> HIDE DEF A, B, u
<1> QED
  BY <1>8, <1>9, <1>10

\* The sections of the home page show posts of their categories, each post once
\* and as many as there is room for.
LEMMA SectionsFill ==
  ASSUME TypeOK, SeriesComplete, NEW P, IsFiniteSet(P),
         NEW sections \in Seq(CategorySlugs), IsInjective(sections)
  PROVE  Fills(FilledSections(sections, P),
               FirstSections(sections, P, Len(sections)), FeedLimit)
<1> DEFINE N == Len(sections)
           Done(s, n) == Fills(s, FirstSections(sections, P, n), FeedLimit)
<1>1. N \in Nat /\ FeedLimit \in Nat
  BY FeedAssumption
<1>2. PICK f : /\ f[0] = <<>>
               /\ \A n \in 1..N : f[n] = AfterSection(f[n - 1], sections[n], P)
               /\ FilledSections(sections, P) = f[N]
  BY FilledRounds
<1>3. Done(<<>>, 0)
  <2>1. FirstSections(sections, P, 0) = {}
    BY DEF FirstSections
  <2>2. Cardinality({}) = 0
    BY FS_EmptySet
  <2>3. <<>> \in Seq({}) /\ Len(<<>>) = 0 /\ DOMAIN <<>> = {}
    OBVIOUS
  <2>4. IsInjective(<<>>)
    BY <2>3 DEF IsInjective
  <2> DEFINE none == {}
             e == <<>>
  <2>5. e \in Seq(none) /\ Len(e) = 0 /\ IsInjective(e) /\ Cardinality(none) = 0
    BY <2>2, <2>3, <2>4
  <2> HIDE DEF none, e
  <2>6. Fills(e, none, FeedLimit)
    BY <1>1, <2>5 DEF Fills
  <2> QED
    BY <2>1, <2>6 DEF none, e
<1>4. ASSUME NEW n \in 1..N, Done(f[n - 1], n - 1)
      PROVE  Done(f[n], n)
  <2>1. f[n] = AfterSection(f[n - 1], sections[n], P)
    BY <1>2
  <2>2. Fills(AfterSection(f[n - 1], sections[n], P), FirstSections(sections, P, n), FeedLimit)
    BY <1>4, NextSection
  <2> QED
    BY <2>1, <2>2
<1> DEFINE Bad == {n \in 0..N : ~Done(f[n], n)}
<1> HIDE DEF Done
<1>5. Bad = {}
  <2> SUFFICES ASSUME Bad # {}
               PROVE  FALSE
    OBVIOUS
  <2>1. Bad \in SUBSET Nat /\ \A m \in 0..N : m \notin Bad => Done(f[m], m)
    BY <1>1
  <2>2. PICK m \in Bad : \A k \in Bad : m <= k
    <3> HIDE DEF Bad
    <3> QED
      BY <2>1, LeastNat
  <2>3. m \in 0..N /\ ~Done(f[m], m)
    OBVIOUS
  <2> HIDE DEF Bad
  <2>4. m # 0
    BY <1>2, <1>3, <2>3
  <2>5. m - 1 \in 0..N /\ m - 1 \notin Bad /\ m \in 1..N
    BY <1>1, <2>2, <2>3, <2>4
  <2>6. Done(f[m - 1], m - 1)
    BY <2>1, <2>5
  <2> QED
    BY <1>4, <2>3, <2>5, <2>6
<1>6. Done(f[N], N)
  <2>1. N \in 0..N
    BY <1>1
  <2> QED
    BY <1>5, <2>1
<1> QED
  BY <1>2, <1>6 DEF Done

\* The home page shows every post once and is as full as it can be.
LEMMA HomeFeedIsFilled ==
  ASSUME TypeOK, SeriesComplete,
         \A d \in PublishedDocuments : PublishedPath(d) \in Paths
  PROVE  HomeFeedFilled
<1> SUFFICES ASSUME NEW pinned \in SUBSET PublishedDocuments
             PROVE  /\ \A newest \in SetToSeqs(PublishedDocuments) :
                         LET recent == RecentItems(newest, pinned)
                             rest == Cardinality(PublishedDocuments \ pinned)
                         IN /\ ToSet(recent) \cap pinned = {}
                            /\ Len(recent) = IF rest < FeedLimit THEN rest ELSE FeedLimit
                    /\ LET items == SectionItems(pinned)
                           shown == {d \in PublishedDocuments \ pinned :
                                       /\ Categorised(d)
                                       /\ categories[PublishedPath(d).category] = "active"}
                       IN /\ Cardinality(ToSet(items)) = Len(items)
                          /\ ToSet(items) \subseteq shown
                          /\ Len(items) = IF Cardinality(shown) < FeedLimit
                                          THEN Cardinality(shown) ELSE FeedLimit
  BY DEF HomeFeedFilled
<1>1. IsFiniteSet(PublishedDocuments) /\ IsFiniteSet(pinned)
  <2>1. IsFiniteSet(DocumentIds) /\ PublishedDocuments \in SUBSET DocumentIds
    BY BoundsAssumption, FS_Interval DEF DocumentIds, PublishedDocuments
  <2> QED
    BY <2>1, FS_Subset
<1>2. FeedLimit \in Nat
  BY FeedAssumption
<1>3. ASSUME NEW newest \in SetToSeqs(PublishedDocuments)
      PROVE  Fills(RecentItems(newest, pinned), PublishedDocuments \ pinned, FeedLimit)
  <2> DEFINE n == Cardinality(PublishedDocuments)
  <2>1. n \in Nat
    BY <1>1, FS_CardinalityType
  <2>2. /\ newest \in [1..n -> PublishedDocuments]
        /\ \A i, j \in 1..n : i # j => newest[i] # newest[j]
    BY DEF SetToSeqs
  <2> HIDE DEF n
  <2>3. newest \in Seq(PublishedDocuments) /\ Len(newest) = n /\ IsInjective(newest)
    BY <2>1, <2>2 DEF IsInjective
  <2>4. Lists(newest, PublishedDocuments)
    BY <1>1, <2>3, LongEnough DEF n
  <2> QED
    BY <1>1, <1>2, <2>4, UnpinnedFills DEF RecentItems
<1>4. ASSUME NEW newest \in SetToSeqs(PublishedDocuments)
      PROVE  /\ ToSet(RecentItems(newest, pinned)) \cap pinned = {}
             /\ Len(RecentItems(newest, pinned)) =
                  IF Cardinality(PublishedDocuments \ pinned) < FeedLimit
                  THEN Cardinality(PublishedDocuments \ pinned) ELSE FeedLimit
  <2> DEFINE r == RecentItems(newest, pinned)
  <2> HIDE DEF r
  <2>1. /\ r \in Seq(PublishedDocuments \ pinned)
        /\ Len(r) = IF Cardinality(PublishedDocuments \ pinned) < FeedLimit
                    THEN Cardinality(PublishedDocuments \ pinned) ELSE FeedLimit
    BY <1>3 DEF Fills, r
  <2>2. ToSet(r) \cap pinned = {}
    BY <2>1 DEF ToSet
  <2> QED
    BY <2>1, <2>2 DEF r
<1> DEFINE active == {c \in CategorySlugs : categories[c] = "active"}
           sections == SetToSeq(active \cap series) \o SetToSeq(active \ series)
           items == SectionItems(pinned)
           shown == {d \in PublishedDocuments \ pinned :
                       Categorised(d) /\ categories[PublishedPath(d).category] = "active"}
<1>5. Lists(sections, active)
  <2>1. active \in SUBSET CategorySlugs /\ IsFiniteSet(CategorySlugs)
    BY FeedAssumption
  <2> HIDE DEF active
  <2>2. IsFiniteSet(active)
    BY <2>1, FS_Subset
  <2>3. IsFiniteSet(active \cap series) /\ IsFiniteSet(active \ series)
    BY <2>2, FS_Intersection, FS_Difference
  <2>4. /\ Lists(SetToSeq(active \cap series), active \cap series)
        /\ Lists(SetToSeq(active \ series), active \ series)
    BY <2>3, SetToSeqLists
  <2> DEFINE L == active \cap series
             R == active \ series
  <2>5. L \cap R = {} /\ L \cup R = active
    OBVIOUS
  <2>6. Lists(SetToSeq(L), L) /\ Lists(SetToSeq(R), R)
    BY <2>4
  <2> HIDE DEF L, R
  <2>7. Lists(SetToSeq(L) \o SetToSeq(R), L \cup R)
    BY <2>5, <2>6, ListsOn
  <2> QED
    BY <2>5, <2>7 DEF L, R
<1>6. items = FilledSections(sections, pinned)
  BY DEF SectionItems
<1> HIDE DEF sections, items
<1>7. sections \in Seq(active) /\ IsInjective(sections) /\ ToSet(sections) = active
  BY <1>5 DEF Lists
<1>8. sections \in Seq(CategorySlugs)
  BY <1>7
<1>9. Fills(items, FirstSections(sections, pinned, Len(sections)), FeedLimit)
  BY <1>1, <1>6, <1>7, <1>8, SectionsFill
<1>10. FirstSections(sections, pinned, Len(sections)) = shown
  <2>1. ASSUME NEW d \in PublishedDocuments
        PROVE  /\ d \in DocumentIds /\ d # 0
               /\ \A c : d \in PublishedIn(c) <=> PublishedPath(d).category = c
    BY BoundsAssumption
       DEF PublishedDocuments, DocumentIds, PublishedIn, PublishedPath, RevisionPath, RoutePath
  <2>2. ASSUME NEW d \in PublishedDocuments
        PROVE  Categorised(d) /\ categories[PublishedPath(d).category] = "active"
                 <=> PublishedPath(d).category \in active
    <3>1. PublishedPath(d).category \in CategorySlugs \cup {Root} /\ d # 0
      BY <2>1 DEF Paths, Placements
    <3> QED
      BY <3>1, SlugAssumption DEF Categorised
  <2>3. ASSUME NEW d \in PublishedDocuments
        PROVE  (\E k \in 1..Len(sections) : d \in PublishedIn(sections[k]))
                 <=> PublishedPath(d).category \in active
    <3>1. DOMAIN sections = 1..Len(sections)
      BY <1>8
    <3>2. active = {sections[k] : k \in 1..Len(sections)}
      BY <1>7, <3>1 DEF ToSet
    <3> HIDE DEF active
    <3> QED
      BY <2>1, <3>2
  <2> HIDE DEF active
  <2> QED
    BY <2>2, <2>3 DEF FirstSections
<1> HIDE DEF shown
<1>11. /\ items \in Seq(shown) /\ IsInjective(items)
       /\ Len(items) = IF Cardinality(shown) < FeedLimit THEN Cardinality(shown) ELSE FeedLimit
  BY <1>9, <1>10 DEF Fills
<1>12. Cardinality(ToSet(items)) = Len(items) /\ ToSet(items) \subseteq shown
  BY <1>11, CountedOnce
<1> QED
  BY <1>4, <1>11, <1>12 DEF items, shown

---------------------------------------------------------------------------
(* The views of the site agree. *)

\* The views agree wherever the tables do.
LEMMA ViewsAgreeBySite ==
  ASSUME SiteInv, SeriesComplete PROVE ViewsAgree
<1>1. InterfacesAgree
  <2>1. ASSUME NEW c \in CategorySlugs, NEW w \in Settings, c \in ListCategories
        PROVE  Respond(w, CategoryUrl(w, RoutePath(Root, c)), TRUE) = Landing(c)
    BY <2>1, LandingServed DEF ListCategories
  <2>2. ASSUME NEW item \in Feed PROVE BlogPostAtPath(item.path) = item.document
    <3>1. PICK d \in PublishedDocuments : item = FeedItem(d)
      BY DEF Feed
    <3>2. item.path = PublishedPath(d) /\ item.document = d
      BY <3>1 DEF FeedItem
    <3>. QED
      BY <3>2, PublishedRoute DEF BlogPostAtPath
  <2>3. \A w \in Settings : \A path \in Paths :
          \A d \in LeadsTo(w, Url("community", TRUE, path)) :
            BlogPostAtPath(path) \in {0, d}
    BY PathsAgree
  <2>. QED
    BY <2>1, <2>2, <2>3, CollectionsAgree DEF InterfacesAgree
<1>2. HomeFeedFilled
  <2>1. TypeOK /\ \A d \in PublishedDocuments : PublishedPath(d) \in Paths
    BY PublishedRoute DEF SiteInv
  <2>. QED
    BY <2>1, HomeFeedIsFilled
<1>. QED
  BY <1>1, <1>2, SharedEntriesRight DEF ViewsAgree

\* The handlers that show the same posts by different queries show the same
\* posts.  A collection of the JSON interface has the posts of its landing page
\* and counts them, every item of a feed can be fetched at its path, and a path
\* that both know leads to one post.  Requests that share a cache entry have the
\* same answer: its key holds the URL and not the Accept header.  And the home
\* page shows no post twice, and as many as there is room for, whatever is
\* pinned.
THEOREM ViewsStayInAgreement == Spec => []ViewsAgree
<1>1. TypeOK /\ PublicationInv /\ LandingPagesFree /\ SeriesComplete => ViewsAgree
  BY ViewsAgreeBySite DEF SiteInv
<1>. QED
  BY <1>1, ContentTypes, PublicationInvariant, LandingPagesStayFree,
     SeriesStayWhole, PTL

---------------------------------------------------------------------------
(* Drafts do not show. *)

\* A write of a revision or of its placement leaves routes, categories and
\* what is published alone.
LEMMA DraftWritesFrame ==
  ASSUME [Next]_vars, revisions' # revisions
  PROVE  UNCHANGED <<publishedRevision, routeOwner, categories>>
<1>. USE DEF documentVars, routeVars, categoryVars
<1>1. ~CategoryStep
  BY DEF CategoryStep, CreateCategory, ArchiveCategory, CreateSeries, PromoteCategory,
         ReplaceSeriesOrder
<1>2. DocumentStep
  BY <1>1 DEF Next, vars
<1>3. PICK d \in DocumentIds :
        \/ \E slug, category, key : CreateDocument(d, slug, category, key)
        \/ \E base, slug, category, key, ai :
             AppendRevision(d, base, slug, category, key, ai)
        \/ \E r, category : AssignRevisionCategory(d, r, category)
        \/ \E r \in 1..MaxRevisions : Publish(d, r)
  BY <1>2, DocumentStepForms
<1>4. ASSUME NEW slug, NEW category, NEW key, CreateDocument(d, slug, category, key)
      PROVE  UNCHANGED <<publishedRevision, routeOwner, categories>>
  BY <1>4 DEF CreateDocument
<1>5. ASSUME NEW base, NEW slug, NEW category, NEW key, NEW ai,
             AppendRevision(d, base, slug, category, key, ai)
      PROVE  UNCHANGED <<publishedRevision, routeOwner, categories>>
  BY <1>5 DEF AppendRevision
<1>6. ASSUME NEW r, NEW category, AssignRevisionCategory(d, r, category)
      PROVE  UNCHANGED <<publishedRevision, routeOwner, categories>>
  BY <1>6 DEF AssignRevisionCategory
<1>7. \A r : ~Publish(d, r)
  BY DEF Publish
<1>. QED
  BY <1>3, <1>4, <1>5, <1>6, <1>7

\* What the handlers ask the repository.
SameLookups ==
  /\ \A path : GetPublishedBySlug(path)' = GetPublishedBySlug(path)
  /\ \A slug : GetUniquePublishedByLeafSlug(slug)' = GetUniquePublishedByLeafSlug(slug)
  /\ \A slug : CategoriesBySlug(slug)' = CategoriesBySlug(slug)
  /\ \A d \in PublishedDocuments : PublishedPath(d)' = PublishedPath(d)
  /\ \A d \in PublishedDocuments \cup {0} : Categorised(d)' <=> Categorised(d)

\* The lookups read published revisions, which keep their paths.
LEMMA LookupsKept ==
  ASSUME TypeOK, PublicationInv, HistoryStep,
         UNCHANGED <<publishedRevision, routeOwner, categories>>
  PROVE  SameLookups
<1>1. PublishedDocuments' = PublishedDocuments
  BY DEF PublishedDocuments
<1>2. ASSUME NEW d \in PublishedDocuments
      PROVE  PublishedPath(d)' = PublishedPath(d)
  <2>1. d \in DocumentIds /\ publishedRevision[d] \in 1..Len(revisions[d])
    BY DEF PublishedDocuments, PublicationInv, PublishedExists, TypeOK
  <2>2. publishedRevision[d] \in DOMAIN revisions[d]
    BY <2>1, LenProperties DEF TypeOK
  <2>3. revisions'[d][publishedRevision[d]] = revisions[d][publishedRevision[d]]
    BY <2>1, <2>2 DEF HistoryStep
  <2>. QED
    BY <2>3 DEF PublishedPath, RevisionPath
<1>3. \A path : GetPublishedBySlug(path)' = GetPublishedBySlug(path)
  BY <1>1 DEF GetPublishedBySlug
<1>4. ASSUME NEW slug
      PROVE  GetUniquePublishedByLeafSlug(slug)' = GetUniquePublishedByLeafSlug(slug)
  <2>. DEFINE found == {d \in PublishedDocuments : PublishedPath(d).slug = slug}
  <2>1. found' = found
    BY <1>1, <1>2
  <2>2. GetUniquePublishedByLeafSlug(slug) =
          IF Cardinality(found) = 1 THEN CHOOSE d \in found : TRUE ELSE 0
    BY DEF GetUniquePublishedByLeafSlug
  <2>3. GetUniquePublishedByLeafSlug(slug)' =
          IF Cardinality(found') = 1 THEN CHOOSE d \in found' : TRUE ELSE 0
    BY DEF GetUniquePublishedByLeafSlug
  <2>. HIDE DEF found
  <2>. QED
    BY <2>1, <2>2, <2>3
<1>5. \A slug : CategoriesBySlug(slug)' = CategoriesBySlug(slug)
  BY DEF CategoriesBySlug
<1>6. \A d \in PublishedDocuments \cup {0} : Categorised(d)' <=> Categorised(d)
  BY <1>2 DEF Categorised
<1>. QED
  BY <1>2, <1>3, <1>4, <1>5, <1>6 DEF SameLookups

\* What a handler learns of the post at a path, and of the one with a leaf slug.
LEMMA SameFound ==
  ASSUME SameLookups, NEW path, NEW slug, NEW d, NEW e,
         d = GetPublishedBySlug(path), e = GetUniquePublishedByLeafSlug(slug)
  PROVE  /\ GetPublishedBySlug(path)' = d
         /\ GetUniquePublishedByLeafSlug(slug)' = e
         /\ Categorised(d)' <=> Categorised(d)
         /\ Categorised(e)' <=> Categorised(e)
         /\ d # 0 => PublishedPath(d)' = PublishedPath(d)
         /\ e # 0 => PublishedPath(e)' = PublishedPath(e)
<1>1. d \in PublishedDocuments \cup {0} /\ e \in PublishedDocuments \cup {0}
  BY FoundIsPublished
<1>. QED
  BY <1>1 DEF SameLookups

\* The handlers of category URLs answer from the lookups alone.
LEMMA SameCategoryPost ==
  ASSUME SameLookups, NEW w, NEW url, NEW path, NEW html
  PROVE  /\ PublicCommunityCategoryPost(w, url)' = PublicCommunityCategoryPost(w, url)
         /\ PrimaryCategoryPost(w, path, html)' = PrimaryCategoryPost(w, path, html)
         /\ PrimaryLegacyAlias(w, path)' = PrimaryLegacyAlias(w, path)
<1>1. PublicCommunityCategoryPost(w, url)' = PublicCommunityCategoryPost(w, url)
  <2>1. PICK d : d = GetPublishedBySlug(url.path)
    OBVIOUS
  <2>2. /\ GetPublishedBySlug(url.path)' = d
        /\ Categorised(d)' <=> Categorised(d)
        /\ d # 0 => PublishedPath(d)' = PublishedPath(d)
    BY <2>1, SameFound
  <2>. QED
    BY <2>1, <2>2
       DEF PublicCommunityCategoryPost, Redirect, CategoryUrl, Url, Page, NotFound,
           Categorised, PublishedPath, RevisionPath, RoutePath
<1>2. PrimaryCategoryPost(w, path, html)' = PrimaryCategoryPost(w, path, html)
  <2>1. PICK d : d = GetPublishedBySlug(path)
    OBVIOUS
  <2>2. /\ GetPublishedBySlug(path)' = d
        /\ Categorised(d)' <=> Categorised(d)
        /\ d # 0 => PublishedPath(d)' = PublishedPath(d)
    BY <2>1, SameFound
  <2>. QED
    BY <2>1, <2>2
       DEF PrimaryCategoryPost, Redirect, CategoryUrl, Url, Page, Nothing,
           Categorised, PublishedPath, RevisionPath, RoutePath
<1>3. PrimaryLegacyAlias(w, path)' = PrimaryLegacyAlias(w, path)
  <2>1. PICK d : d = GetPublishedBySlug(path)
    OBVIOUS
  <2>2. /\ GetPublishedBySlug(path)' = d
        /\ Categorised(d)' <=> Categorised(d)
        /\ d # 0 => PublishedPath(d)' = PublishedPath(d)
    BY <2>1, SameFound
  <2>. QED
    BY <2>1, <2>2
       DEF PrimaryLegacyAlias, Redirect, CategoryUrl, Url, Nothing,
           Categorised, PublishedPath, RevisionPath, RoutePath
<1>. QED
  BY <1>1, <1>2, <1>3

\* So does the handler of a segment no route holds,
LEMMA SameSharedSegment ==
  ASSUME SameLookups, NEW w, NEW url
  PROVE  SharedSegment(w, url)' = SharedSegment(w, url)
<1>1. PICK e : e = GetUniquePublishedByLeafSlug(url.path.slug)
  OBVIOUS
<1>2. /\ GetUniquePublishedByLeafSlug(url.path.slug)' = e
      /\ Categorised(e)' <=> Categorised(e)
      /\ e # 0 => PublishedPath(e)' = PublishedPath(e)
  BY <1>1, SameFound
<1>3. PICK found : found = CategoriesBySlug(url.path.slug)
  OBVIOUS
<1>4. CategoriesBySlug(url.path.slug)' = found
  BY <1>3 DEF SameLookups
<1>. QED
  BY <1>1, <1>2, <1>3, <1>4
     DEF SharedSegment, Redirect, CategoryUrl, Url, Landing, NotFound, BadRequest,
         Categorised, PublishedPath, RevisionPath, RoutePath

\* the handler of landing pages,
LEMMA SameLanding ==
  ASSUME SameLookups, NEW w, NEW path
  PROVE  PrimaryCategoryLanding(w, path)' = PrimaryCategoryLanding(w, path)
<1>1. PICK found : found = CategoriesBySlug(path.slug)
  OBVIOUS
<1>2. CategoriesBySlug(path.slug)' = found
  BY <1>1 DEF SameLookups
<1>. QED
  BY <1>1, <1>2
     DEF PrimaryCategoryLanding, Redirect, CategoryUrl, Url, Landing, Nothing, RoutePath

\* the handlers of article and community URLs,
LEMMA SamePost ==
  ASSUME SameLookups, NEW w, NEW url
  PROVE  /\ PublicPost(w, url)' = PublicPost(w, url)
         /\ PublicCommunityPost(w, url)' = PublicCommunityPost(w, url)
<1>1. PICK d : d = GetPublishedBySlug(url.path)
  OBVIOUS
<1>2. PICK e : e = GetUniquePublishedByLeafSlug(url.path.slug)
  OBVIOUS
<1>3. /\ GetPublishedBySlug(url.path)' = d
      /\ GetUniquePublishedByLeafSlug(url.path.slug)' = e
      /\ Categorised(d)' <=> Categorised(d)
      /\ Categorised(e)' <=> Categorised(e)
      /\ d # 0 => PublishedPath(d)' = PublishedPath(d)
      /\ e # 0 => PublishedPath(e)' = PublishedPath(e)
  BY <1>1, <1>2, SameFound
<1>4. PublicPost(w, url)' = PublicPost(w, url)
  BY <1>1, <1>2, <1>3, ZenonT(40)
     DEF PublicPost, Redirect, CategoryUrl, CommunityUrl, ArticleUrl, Url, Page, NotFound,
         Categorised, PublishedPath, RevisionPath, RoutePath
<1>5. SharedSegment(w, url)' = SharedSegment(w, url)
  BY SameSharedSegment
<1>6. PublicCommunityPost(w, url)' = PublicCommunityPost(w, url)
  BY <1>1, <1>3, <1>5, ZenonT(40)
     DEF PublicCommunityPost, Redirect, CategoryUrl, CommunityUrl, ArticleUrl, Url, Page,
         Categorised, PublishedPath, RevisionPath, RoutePath
<1>. QED
  BY <1>4, <1>6
\* and the fallback, which asks three of them in turn.
LEMMA SameFallback ==
  ASSUME SameLookups, NEW w, NEW path, NEW html
  PROVE  SpaIndexFallback(w, path, html)' = SpaIndexFallback(w, path, html)
<1>. DEFINE First(post, landing, alias) ==
              LET answers == <<post, landing, alias>>
                  given == {i \in DOMAIN answers : answers[i] # Nothing}
              IN  IF given # {} THEN answers[CHOOSE i \in given : \A j \in given : i <= j]
                  ELSE IF html THEN Shell ELSE NotFound
            primary == PrimaryCategoryPublicPath(w, path)
<1>1. SpaIndexFallback(w, path, html) =
        First(IF primary THEN PrimaryCategoryPost(w, path, html) ELSE Nothing,
              IF primary /\ html THEN PrimaryCategoryLanding(w, path) ELSE Nothing,
              PrimaryLegacyAlias(w, path))
  BY DEF SpaIndexFallback
<1>2. SpaIndexFallback(w, path, html)' =
        First(IF primary THEN PrimaryCategoryPost(w, path, html)' ELSE Nothing,
              IF primary /\ html THEN PrimaryCategoryLanding(w, path)' ELSE Nothing,
              PrimaryLegacyAlias(w, path)')
  BY DEF SpaIndexFallback, PrimaryCategoryPublicPath, Nothing, Shell, NotFound
<1>3. /\ PrimaryCategoryPost(w, path, html)' = PrimaryCategoryPost(w, path, html)
      /\ PrimaryLegacyAlias(w, path)' = PrimaryLegacyAlias(w, path)
      /\ PrimaryCategoryLanding(w, path)' = PrimaryCategoryLanding(w, path)
  BY SameCategoryPost, SameLanding
<1>. HIDE DEF First, primary
<1>. QED
  BY <1>1, <1>2, <1>3

\* With the same lookups, every URL has the same answer.
LEMMA SameAnswer ==
  ASSUME SameLookups, NEW w, NEW url, NEW html,
         url.form \in {"article", "root", "community"}
  PROVE  Respond(w, url, html)' = Respond(w, url, html)
<1>1. /\ PublicPost(w, url)' = PublicPost(w, url)
      /\ PublicCommunityPost(w, url)' = PublicCommunityPost(w, url)
      /\ PublicCommunityCategoryPost(w, url)' = PublicCommunityCategoryPost(w, url)
      /\ SpaIndexFallback(w, url.path, html)' = SpaIndexFallback(w, url.path, html)
  BY SamePost, SameCategoryPost, SameFallback
<1>. QED
  BY <1>1 DEF Respond, RoutePath

\* A step that writes a revision or the placement of one - a draft, an AI
\* proposal, a draft moved to another category - changes nothing that a reader
\* sees at any URL, so their handlers need not begin a cache mutation.
THEOREM DraftsStayInvisible == Spec => DraftsInvisible
<1>1. TypeOK /\ TypeOK' /\ PublicationInv /\ [Next]_vars =>
        [revisions' # revisions => PublicView' = PublicView]_vars
  <2>. SUFFICES ASSUME TypeOK, TypeOK', PublicationInv, [Next]_vars, revisions' # revisions
                PROVE  PublicView' = PublicView
    OBVIOUS
  <2>1. SameLookups
    BY HistoryKept, DraftWritesFrame, LookupsKept
  <2>2. \A w : \A url \in Urls(w) : url.form \in {"article", "root", "community"}
    BY DEF Urls
  <2>3. ASSUME NEW w, NEW url \in Urls(w)
        PROVE  Respond(w, url, TRUE)' = Respond(w, url, TRUE)
    <3>1. \A html : Respond(w, url, html)' = Respond(w, url, html)
      BY <2>1, <2>2, SameAnswer
    <3>. QED
      BY <3>1
  <2>4. \A w : Urls(w)' = Urls(w)
    BY DEF Urls, Paths, Placements
  <2>5. \A w : [url \in Urls(w) |-> Respond(w, url, TRUE)]'
               = [url \in Urls(w) |-> Respond(w, url, TRUE)]
    BY <2>3, <2>4
  <2>. QED
    BY <2>5 DEF PublicView
<1>. QED
  BY <1>1, ContentTypes, PublicationInvariant, PTL DEF Spec, DraftsInvisible


---------------------------------------------------------------------------
(* The files of an import. *)

\* What a handle shows: open follows links, and a link's target is regular.
Handles == {[f EXCEPT !.regular = TRUE] : f \in FileStates}

\* The text is the body of a state of the file that was inspected.
FromInspected(text, expected) ==
  \E f \in FileStates : f.ino = expected.ino /\ f.body = text /\ f.len <= MaxBytes

\* What the import knows of the file at each step of the read.
ReadKnows ==
  /\ import.phase = "inspected" =>
       import \in [phase : {"inspected"}, batch : Batches, dry : BOOLEAN,
                   disk : FileStates, expected : FileStates]
  /\ import.phase \in {"opened", "checked"} =>
       import \in [phase : {"opened", "checked"}, batch : Batches, dry : BOOLEAN,
                   disk : FileStates, expected : FileStates, opened : Handles]
  /\ import.phase = "checked" =>
       import.opened.ino = import.expected.ino /\ import.opened.len <= MaxBytes
  /\ import.phase = "read" =>
       /\ \E texts : import \in [phase : {"read"}, batch : Batches, dry : BOOLEAN,
                                 disk : FileStates, expected : FileStates,
                                 opened : Handles, text : texts]
       /\ FromInspected(import.text, import.expected)
  /\ import.phase = "loaded" =>
       /\ import.batch \in Batches /\ import.dry \in BOOLEAN
       /\ FromInspected(import.text, import.expected)
       /\ \A p \in Posts(import.batch) : p.digest \in {NoDigest, import.text}
  /\ import.phase = "open" => "phase" \in DOMAIN import

\* A handle has the inode, the length and the body of a state of a file.
LEMMA HandleOfFile ==
  ASSUME NEW h \in Handles
  PROVE  \E f \in FileStates : h.ino = f.ino /\ h.len = f.len /\ h.body = f.body
<1>1. PICK f \in FileStates : h = [f EXCEPT !.regular = TRUE]
  BY DEF Handles
<1>2. f = [ino |-> f.ino, regular |-> f.regular, len |-> f.len, body |-> f.body]
  BY FilesAssumption
<1>3. h.ino = f.ino /\ h.len = f.len /\ h.body = f.body
  BY <1>1, <1>2
<1>. QED
  BY <1>3

\* Each step of the import keeps what it knows.
LEMMA ReadKnowsKept ==
  ASSUME ReadKnows, [ImportNext]_allVars PROVE ReadKnows'
<1>1. ASSUME NEW b \in Batches, NEW dry \in BOOLEAN, NEW file \in FileStates,
             Inspect(b, dry, file)
      PROVE  ReadKnows'
  BY <1>1 DEF Inspect, ReadKnows
<1>2. ASSUME NEW file \in FileStates, FileChanges(file) PROVE ReadKnows'
  <2>1. import' = [import EXCEPT !.disk = file]
    BY <1>2 DEF FileChanges
  <2>2. CASE import.phase = "inspected"
    BY <2>1, <2>2 DEF ReadKnows
  <2>3. CASE import.phase \in {"opened", "checked"}
    <3>1. /\ import' \in [phase : {"opened", "checked"}, batch : Batches, dry : BOOLEAN,
                          disk : FileStates, expected : FileStates, opened : Handles]
          /\ import'.phase = import.phase
          /\ import'.opened = import.opened /\ import'.expected = import.expected
      BY <2>1, <2>3 DEF ReadKnows
    <3>. QED
      BY <2>3, <3>1 DEF ReadKnows
  <2>4. CASE import.phase = "read"
    <3>1. PICK texts : import \in [phase : {"read"}, batch : Batches, dry : BOOLEAN,
                                   disk : FileStates, expected : FileStates,
                                   opened : Handles, text : texts]
      BY <2>4 DEF ReadKnows
    <3>2. /\ import' \in [phase : {"read"}, batch : Batches, dry : BOOLEAN,
                          disk : FileStates, expected : FileStates,
                          opened : Handles, text : texts]
          /\ import'.phase = "read" /\ import'.text = import.text
          /\ import'.expected = import.expected
      BY <2>1, <3>1
    <3>3. FromInspected(import'.text, import'.expected)
      BY <2>4, <3>2 DEF ReadKnows, FromInspected
    <3>. QED
      BY <3>2, <3>3 DEF ReadKnows, FromInspected
  <2>. QED
    BY <1>2, <2>2, <2>3, <2>4 DEF FileChanges
<1>3. CASE OpenFile
  <2>1. import.disk \in FileStates /\ [import.disk EXCEPT !.regular = TRUE] \in Handles
    BY <1>3 DEF OpenFile, ReadKnows, Handles
  <2>2. /\ import' \in [phase : {"opened", "checked"}, batch : Batches, dry : BOOLEAN,
                        disk : FileStates, expected : FileStates, opened : Handles]
        /\ import'.phase = "opened"
    BY <1>3, <2>1 DEF OpenFile, ReadKnows
  <2>. QED
    BY <2>2 DEF ReadKnows
<1>4. CASE CheckOpened
  <2>1. /\ import' \in [phase : {"opened", "checked"}, batch : Batches, dry : BOOLEAN,
                        disk : FileStates, expected : FileStates, opened : Handles]
        /\ import'.phase = "checked"
        /\ import'.opened = import.opened /\ import'.expected = import.expected
    BY <1>4 DEF CheckOpened, ReadKnows
  <2>2. import.opened.ino = import.expected.ino /\ import.opened.len <= MaxBytes
    BY <1>4 DEF CheckOpened, Stable
  <2>. QED
    BY <2>1, <2>2 DEF ReadKnows
<1>5. CASE ReadFile
  <2>. DEFINE seen == Through(import.opened)
  <2>1. /\ import.phase = "checked" /\ seen.len <= MaxBytes
        /\ import.batch \in Batches /\ import.dry \in BOOLEAN
        /\ import.disk \in FileStates /\ import.expected \in FileStates
        /\ import.opened \in Handles /\ import.opened.ino = import.expected.ino
    BY <1>5 DEF ReadFile, ReadKnows
  <2>2. import' = [phase |-> "read", batch |-> import.batch, dry |-> import.dry,
                   disk |-> import.disk, expected |-> import.expected,
                   opened |-> import.opened, text |-> seen.body]
    BY <1>5 DEF ReadFile
  <2>3. FromInspected(seen.body, import.expected)
    <3>1. CASE import.disk.ino = import.opened.ino
      BY <2>1, <3>1 DEF Through, FromInspected
    <3>2. CASE import.disk.ino # import.opened.ino
      BY <2>1, <3>2, HandleOfFile DEF Through, FromInspected
    <3>. QED
      BY <3>1, <3>2
  <2>. HIDE DEF seen
  <2>4. import' \in [phase : {"read"}, batch : Batches, dry : BOOLEAN,
                     disk : FileStates, expected : FileStates,
                     opened : Handles, text : {seen.body}]
    BY <2>1, <2>2
  <2>5. /\ import'.phase = "read" /\ import'.text = seen.body
        /\ import'.expected = import.expected
    BY <2>2
  <2>6. FromInspected(import'.text, import'.expected)
    BY <2>3, <2>5 DEF FromInspected
  <2>. QED
    BY <2>4, <2>5, <2>6 DEF ReadKnows, FromInspected
<1>6. CASE LoadBatch
  <2>1. /\ import'.phase = "loaded" /\ import'.batch = import.batch /\ import'.dry = import.dry
        /\ import'.text = import.text /\ import'.expected = import.expected
    BY <1>6 DEF LoadBatch
  <2>2. /\ import.batch \in Batches /\ import.dry \in BOOLEAN
        /\ FromInspected(import.text, import.expected)
        /\ \A p \in Posts(import.batch) : p.digest \in {NoDigest, import.text}
    BY <1>6 DEF LoadBatch, ReadKnows
  <2>. QED
    BY <2>1, <2>2 DEF ReadKnows, FromInspected, Posts
<1>7. CASE BeginImport
  <2>1. import'.phase = "open" /\ "phase" \in DOMAIN import'
    BY <1>7 DEF BeginImport
  <2>. QED
    BY <2>1 DEF ReadKnows
<1>8. ASSUME import.phase = "open", NEW e, NEW f,
             \/ import' = [import EXCEPT !.next = e]
             \/ import' = [import EXCEPT !.document = e]
             \/ import' = [import EXCEPT !.next = e, !.document = f]
             \/ import' = import
      PROVE  ReadKnows'
  <2>1. "phase" \in DOMAIN import
    BY <1>8 DEF ReadKnows
  <2>2. import'.phase = "open" /\ "phase" \in DOMAIN import'
    BY <1>8, <2>1
  <2>. QED
    BY <2>2 DEF ReadKnows
<1>9. CASE SkipUnchanged \/ ImportAliases \/ ImportPublish
  BY <1>8, <1>9 DEF SkipUnchanged, ImportAliases, ImportPublish, Running, importVars
<1>10. ASSUME NEW d \in DocumentIds, ImportDocument(d) PROVE ReadKnows'
  BY <1>8, <1>10 DEF ImportDocument, Running
<1>11. CASE EndImport \/ Abandon
  <2>1. import'.phase = "idle"
    BY <1>11 DEF EndImport, Abandon, Idle
  <2>. QED
    BY <2>1 DEF ReadKnows
<1>12. CASE ServerStep \/ UNCHANGED allVars
  <2>1. import' = import
    BY <1>12 DEF ServerStep, allVars, importVars
  <2>. QED
    BY <2>1 DEF ReadKnows, FromInspected, Posts
<1>. QED
  BY <1>1, <1>2, <1>3, <1>4, <1>5, <1>6, <1>7, <1>9, <1>10, <1>11, <1>12 DEF ImportNext

\* Whatever other programs do to the file between the five system calls of the
\* read: the text that is imported was read from the file that was inspected,
\* within the limit, and is the text the manifest's digest names.
THEOREM TextStaysOfInspectedFile == ImportSpec => []TextOfInspectedFile
<1>1. ImportInit => ReadKnows
  <2>1. ImportInit => import = Idle
    BY Zenon DEF ImportInit
  <2>2. Idle.phase = "idle"
    BY DEF Idle
  <2>. QED
    BY <2>1, <2>2 DEF ReadKnows
<1>2. ReadKnows /\ [ImportNext]_allVars => ReadKnows'
  BY ReadKnowsKept
<1>3. ReadKnows => TextOfInspectedFile
  BY DEF ReadKnows, FromInspected, TextOfInspectedFile
<1>. QED
  BY <1>1, <1>2, <1>3, PTL DEF ImportSpec

---------------------------------------------------------------------------
(* All of the tables at once: what a server and an import both keep. *)

\* An empty blog.
LEMMA ContentStarts ==
  ASSUME Init PROVE ContentInv
<1> USE DEF Init
<1>1. TypeOK
  BY DEF TypeOK, Paths
<1>2. AddressClaimsDisjoint
  BY SlugAssumption DEF AddressClaimsDisjoint, PathOwnedOnce, LandingPagesFree, Claims, DocumentIds
<1>3. PublicationInv
  BY DEF PublicationInv, AbsentIsEmpty, PublishedExists, StatusMatchesPointer, RoutesResolve,
         DraftPathIsCurrent, CanonicalRouteIsPublished, DocumentIds
<1>4. CanonicalHeld /\ SeriesInv /\ AuditInv
  BY DEF CanonicalHeld, SeriesInv, SeriesBacked, SeriesComplete, AuditInv, AuditsName,
         ProposalsAudited
<1> QED
  BY <1>1, <1>2, <1>3, <1>4 DEF ContentInv

\* Only a publication writes routes.
LEMMA RoutesOnlyByPublish ==
  ASSUME [Next]_vars
  PROVE  \/ UNCHANGED <<routeOwner, canonical>>
         \/ \E d \in DocumentIds, r \in 1..MaxRevisions : Publish(d, r)
<1> USE DEF documentVars, routeVars, categoryVars
<1>1. CASE DocumentStep
  <2>1. PICK d \in DocumentIds :
          \/ \E slug, category, key : CreateDocument(d, slug, category, key)
          \/ \E base, slug, category, key, ai :
               AppendRevision(d, base, slug, category, key, ai)
          \/ \E r, category : AssignRevisionCategory(d, r, category)
          \/ \E r \in 1..MaxRevisions : Publish(d, r)
    BY <1>1, DocumentStepForms
  <2>2. ASSUME NEW slug, NEW category, NEW key, CreateDocument(d, slug, category, key)
        PROVE  UNCHANGED <<routeOwner, canonical>>
    BY <2>2 DEF CreateDocument
  <2>3. ASSUME NEW base, NEW slug, NEW category, NEW key, NEW ai,
               AppendRevision(d, base, slug, category, key, ai)
        PROVE  UNCHANGED <<routeOwner, canonical>>
    BY <2>3 DEF AppendRevision
  <2>4. ASSUME NEW r, NEW category, AssignRevisionCategory(d, r, category)
        PROVE  UNCHANGED <<routeOwner, canonical>>
    BY <2>4 DEF AssignRevisionCategory
  <2> QED
    BY <2>1, <2>2, <2>3, <2>4
<1>2. CASE CategoryStep
  BY <1>2 DEF CategoryStep, CreateCategory, ArchiveCategory, CreateSeries,
              PromoteCategory, ReplaceSeriesOrder
<1> QED
  BY <1>1, <1>2 DEF Next, vars

\* Each operation of the repository keeps the whole invariant.
LEMMA ContentPreserved ==
  ASSUME ContentInv, [Next]_vars PROVE ContentInv'
<1> USE DEF ContentInv
<1>1. TypeOK'
  BY TypesPreserved
<1>2. AddressClaimsDisjoint'
  BY PathOwnedOncePreserved, LandingPagesPreserved DEF AddressClaimsDisjoint
<1>3. PublicationInv'
  BY PublicationPreserved
<1>4. CanonicalHeld'
  <2>1. CASE UNCHANGED <<routeOwner, canonical>>
    BY <2>1 DEF CanonicalHeld
  <2>2. ASSUME NEW d \in DocumentIds, NEW r \in 1..MaxRevisions, Publish(d, r)
        PROVE  CanonicalHeld'
    <3>1. RevisionPath(d, r) \in Paths
      BY <2>2, RevisionTypes DEF Publish
    <3>2. d # 0
      BY DEF DocumentIds
    <3>3. /\ routeOwner' = [routeOwner EXCEPT ![RevisionPath(d, r)] = d]
          /\ canonical' = {p \in canonical : routeOwner[p] # d} \cup {RevisionPath(d, r)}
      BY <2>2 DEF Publish
    <3> QED
      BY <3>1, <3>2, <3>3 DEF CanonicalHeld, TypeOK
  <2> QED
    BY <2>1, <2>2, RoutesOnlyByPublish
<1>5. SeriesInv'
  BY <1>1, SeriesStayBacked, SeriesStayComplete DEF SeriesInv
<1>6. AuditInv'
  <2>1. KeysKept /\ (NothingAdded \/ HumanRevision \/ Proposal)
    BY <1>1, HistoryKept, KeysStay, AdditionIsOfAKind
  <2>2. KeysUnique /\ AuditedExactly /\ MessagesOnce /\ AuditsName
    BY ProposalParts DEF AuditInv
  <2>3. KeysUnique' /\ AuditedExactly' /\ MessagesOnce' /\ AuditsName'
    BY <1>1, <2>1, <2>2, AuditsKeptByPeople, AuditsKeptByProposals
  <2>4. ProposalsAudited' <=> KeysUnique' /\ AuditedExactly' /\ MessagesOnce'
    BY <1>1, ProposalParts, PTL
  <2> QED
    BY <2>3, <2>4 DEF AuditInv
<1> QED
  BY <1>1, <1>2, <1>3, <1>4, <1>5, <1>6

\* Declaring the categories of a batch: each landing page was free.
LEMMA DeclaredKept ==
  ASSUME ContentInv, import.batch \in Batches, BeginImport PROVE ContentInv'
<1> USE DEF ContentInv, documentVars, routeVars, categoryVars
<1>1. UNCHANGED <<status, currentRevision, publishedRevision, currentSlug, revisions,
                  routeOwner, canonical, series, seriesItems, audits>>
  BY DEF BeginImport
<1>2. /\ categories' = [c \in CategorySlugs |->
           IF c \in import.batch.declares THEN "active" ELSE categories[c]]
      /\ \A c \in import.batch.declares : Declare(c)
  BY DEF BeginImport
<1>3. TypeOK'
  BY <1>1, <1>2 DEF TypeOK
<1>4. AddressClaimsDisjoint'
  <2>1. PathOwnedOnce'
    BY <1>1 DEF AddressClaimsDisjoint, PathOwnedOnce, Claims
  <2>2. LandingPagesFree'
    <3> SUFFICES ASSUME NEW c \in CategorySlugs, categories'[c] # "absent",
                        NEW d \in DocumentIds
                 PROVE  ~(currentSlug[d] = RoutePath(Root, c) \/ routeOwner[RoutePath(Root, c)] = d)
      BY <1>1 DEF LandingPagesFree, Claims
    <3>1. CASE categories[c] # "absent"
      BY <3>1 DEF AddressClaimsDisjoint, LandingPagesFree, Claims
    <3>2. CASE categories[c] = "absent"
      <4>1. CategoryLandingAvailable(c)
        BY <1>2, <3>2 DEF Declare
      <4> QED
        BY <4>1 DEF CategoryLandingAvailable, DocumentIds
    <3> QED
      BY <3>1, <3>2
  <2> QED
    BY <2>1, <2>2 DEF AddressClaimsDisjoint
<1>5. PublicationInv'
  BY <1>1 DEF PublicationInv, AbsentIsEmpty, PublishedExists, StatusMatchesPointer,
     RoutesResolve, DraftPathIsCurrent, CanonicalRouteIsPublished, RevisionPath
<1>6. CanonicalHeld'
  BY <1>1 DEF CanonicalHeld
<1>7. SeriesInv'
  <2>1. SeriesBacked'
    BY <1>1, <1>2 DEF SeriesInv, SeriesBacked, TypeOK
  <2>2. SeriesComplete'
    BY <1>1 DEF SeriesInv, SeriesComplete, PublishedIn, PublicMembers
  <2> QED
    BY <2>1, <2>2 DEF SeriesInv
<1>8. AuditInv'
  BY <1>1 DEF AuditInv, ProposalsAudited, AuditsName
<1> QED
  BY <1>3, <1>4, <1>5, <1>6, <1>7, <1>8

\* The rows of aliases: at paths without a row, off the landing pages, for a
\* document that is published.
LEMMA AliasesKept ==
  ASSUME ContentInv, NEW d \in DocumentIds, NEW paths \in SUBSET Paths,
         publishedRevision[d] # 0,
         \A path \in paths : AliasFree(d, path), InsertAliases(d, paths),
         UNCHANGED <<documentVars, revisions, categoryVars, seriesItems, audits>>
  PROVE  ContentInv'
<1> USE DEF ContentInv, documentVars, categoryVars
<1>1. UNCHANGED <<status, currentRevision, publishedRevision, currentSlug, revisions,
                  categories, series, seriesItems, audits>>
  OBVIOUS
<1>2. /\ routeOwner' = [path \in Paths |-> IF path \in paths THEN d ELSE routeOwner[path]]
      /\ canonical' = canonical \ paths
  BY DEF InsertAliases
<1>3. \A path \in paths : routeOwner[path] = 0 /\ RouteAvailable(d, path) /\ RootSlugNotCategory(path)
  BY DEF AliasFree
<1>4. d # 0 /\ 0 \notin DocumentIds
  BY DEF DocumentIds
<1>5. TypeOK'
  BY <1>1, <1>2 DEF TypeOK
<1>6. PathOwnedOnce'
  <2>1. PathOwnedOnce
    BY DEF AddressClaimsDisjoint
  <2> SUFFICES ASSUME NEW p \in Paths, NEW e \in DocumentIds, NEW f \in DocumentIds,
                      currentSlug[e] = p \/ routeOwner'[p] = e,
                      currentSlug[f] = p \/ routeOwner'[p] = f
               PROVE  e = f
    BY <1>1 DEF PathOwnedOnce, Claims
  <2>2. CASE p \in paths
    BY <1>2, <1>3, <2>2 DEF RouteAvailable
  <2>3. CASE p \notin paths
    BY <1>2, <2>1, <2>3 DEF PathOwnedOnce, Claims
  <2> QED
    BY <2>2, <2>3
<1>7. LandingPagesFree'
  <2> SUFFICES ASSUME NEW c \in CategorySlugs, categories[c] # "absent", NEW e \in DocumentIds
               PROVE  ~(currentSlug[e] = RoutePath(Root, c) \/ routeOwner'[RoutePath(Root, c)] = e)
    BY <1>1 DEF LandingPagesFree, Claims
  <2>1. RoutePath(Root, c) \in Paths
    BY SlugAssumption DEF RoutePath, Paths, Placements
  <2>2. RoutePath(Root, c) \notin paths
    BY <1>3, RootPathsAvoidLandings
  <2> QED
    BY <1>2, <2>1, <2>2 DEF AddressClaimsDisjoint, LandingPagesFree, Claims
<1>8. PublicationInv'
  <2> USE DEF PublicationInv
  <2>1. (AbsentIsEmpty /\ PublishedExists /\ StatusMatchesPointer /\ DraftPathIsCurrent)'
    BY <1>1 DEF AbsentIsEmpty, PublishedExists, StatusMatchesPointer, DraftPathIsCurrent,
                RevisionPath
  <2>2. status[d] = "published"
    BY DEF StatusMatchesPointer
  <2>3. RoutesResolve'
    BY <1>1, <1>2, <2>2 DEF RoutesResolve
  <2>4. CanonicalRouteIsPublished'
    <3> SUFFICES ASSUME NEW e \in DocumentIds
                 PROVE  {p \in Paths : routeOwner'[p] = e /\ p \in canonical'} =
                        {p \in Paths : routeOwner[p] = e /\ p \in canonical}
      BY <1>1 DEF CanonicalRouteIsPublished, RevisionPath
    <3> QED
      BY <1>2, <1>3, <1>4
  <2> QED
    BY <2>1, <2>3, <2>4
<1>9. CanonicalHeld'
  BY <1>2, <1>4 DEF CanonicalHeld, TypeOK
<1>10. SeriesInv'
  BY <1>1 DEF SeriesInv, SeriesBacked, SeriesComplete, PublishedIn, PublicMembers
<1>11. AuditInv'
  BY <1>1 DEF AuditInv, ProposalsAudited, AuditsName
<1> QED
  BY <1>5, <1>6, <1>7, <1>8, <1>9, <1>10, <1>11 DEF AddressClaimsDisjoint

\* A published document stays published, and its routes stay its own.
LEMMA PublishedStays ==
  ASSUME ContentInv, ContentInv', [Next]_vars
  PROVE  /\ \A p \in Paths : routeOwner[p] # 0 => routeOwner'[p] = routeOwner[p]
         /\ \A d \in DocumentIds : publishedRevision[d] # 0 => publishedRevision'[d] # 0
<1> USE DEF ContentInv
<1>1. \A p \in Paths : routeOwner[p] # 0 => routeOwner'[p] = routeOwner[p]
  BY StepIsOfAKind DEF TypeOK, StepKinds, DraftMoves, RouteWritten, RouteAvailable,
                       LandingAppears, PathsStay
<1>2. ASSUME NEW d \in DocumentIds, publishedRevision[d] # 0
      PROVE  publishedRevision'[d] # 0
  <2>1. RevisionPath(d, publishedRevision[d]) \in {p \in Paths : routeOwner[p] = d /\ p \in canonical}
    BY <1>2 DEF PublicationInv, CanonicalRouteIsPublished
  <2>2. d # 0
    BY DEF DocumentIds
  <2>3. PICK p \in Paths : routeOwner[p] = d
    BY <2>1
  <2>4. routeOwner'[p] = d
    BY <1>1, <2>2, <2>3
  <2>5. status'[d] = "published"
    BY <2>2, <2>4 DEF PublicationInv, RoutesResolve
  <2> QED
    BY <2>5 DEF PublicationInv, StatusMatchesPointer
<1> QED
  BY <1>1, <1>2

\* A document has its revisions numbered from 1, and one that exists has one.
LEMMA FirstRevision ==
  ASSUME ContentInv, NEW d \in DocumentIds
  PROVE  /\ Len(revisions[d]) \in Nat
         /\ DOMAIN revisions[d] = 1..Len(revisions[d])
         /\ status[d] # "absent" <=> 1 \in DOMAIN revisions[d]
         /\ publishedRevision[d] \in 0..Len(revisions[d])
         /\ status[d] # "absent" => currentRevision[d] = Len(revisions[d])
<1>1. Len(revisions[d]) \in Nat /\ DOMAIN revisions[d] = 1..Len(revisions[d])
  BY LenProperties DEF ContentInv, TypeOK
<1> QED
  BY <1>1 DEF ContentInv, PublicationInv, AbsentIsEmpty, DraftPathIsCurrent, PublishedExists

---------------------------------------------------------------------------
(* The transaction of an import.  Between transactions the imported posts   *)
(* are those of the committed batches; within one, the tables of before are *)
(* saved, and what was written since only adds to them.                     *)

\* The tables as they were when the transaction began.
Saved == INSTANCE Content WITH
  status <- import.saved.status, currentRevision <- import.saved.currentRevision,
  publishedRevision <- import.saved.publishedRevision, currentSlug <- import.saved.currentSlug,
  revisions <- import.saved.revisions, routeOwner <- import.saved.routeOwner,
  canonical <- import.saved.canonical, categories <- import.saved.categories,
  series <- import.saved.series, seriesItems <- import.saved.seriesItems,
  audits <- import.saved.audits

\* The texts that files hold.
Bodies == {f.body : f \in FileStates}

\* The posts of batches that passed validation, with a text.
ImportedPosts ==
  UNION {{ImportedDocument(p, text) : p \in Posts(b), text \in Bodies} :
           b \in {b \in Batches : ValidBatch(b)}}

\* What the tables say of a document that was imported as `post`.
FirstRevisionOf(d, post, st, revs) ==
  /\ st[d] # "absent"
  /\ revs[d][1].key = post.key
  /\ revs[d][1].slug = post.slug
  /\ revs[d][1].category = post.category

\* The document is published, its legacy paths are its own, and until an author
\* revises it, it has no other routes than it was imported with.
RoutesOf(d, post, revs, pub, owner) ==
  /\ pub[d] # 0
  /\ \A path \in post.aliases : owner[path] = d
  /\ Len(revs[d]) = 1 => {path \in Paths : owner[path] = d} = Claimed(post)

\* Each imported document is what its post says, up to the routes of the one
\* that is being imported.
ImportedSound(st, revs, pub, owner, imp, busy) ==
  /\ imp \in [DocumentIds -> ImportedPosts \cup {NoPost}]
  /\ \A d \in DocumentIds : imp[d] # NoPost =>
       /\ FirstRevisionOf(d, imp[d], st, revs)
       /\ d # busy => RoutesOf(d, imp[d], revs, pub, owner)

\* What the committed batches have imported.
Committed == UNION {{ImportedDocument(p, b.text) : p \in Posts(b.batch)} : b \in done}

\* The posts that documents were imported from.
PostsIn(imp) == {imp[d] : d \in DocumentIds} \ {NoPost}

\* The posts of the open batch that have been looked at.
ImportedSoFar ==
  {ImportedDocument(import.batch.posts[i], import.text) : i \in 1..(import.next - 1)}
    \cup (IF import.document = 0 THEN {} ELSE {ImportedDocument(ThisPost, import.text)})

\* The categories a committed batch declared exist.
DeclaredExist(cats) ==
  \A b \in done : \A c \in b.batch.declares : cats[c] # "absent"

\* An open import is a record of these fields, about a batch that passed validation.
OpenShape ==
  /\ import = [phase |-> "open", batch |-> import.batch, dry |-> import.dry,
               text |-> import.text, next |-> import.next,
               document |-> import.document, saved |-> import.saved]
  /\ import.batch \in Batches /\ import.dry \in BOOLEAN /\ import.text \in Bodies
  /\ ValidBatch(import.batch)
  /\ import.next \in 1..(Len(import.batch.posts) + 1)
  /\ import.document \in DocumentIds \cup {0}
  /\ import.document # 0 => import.next <= Len(import.batch.posts)
  /\ \A c \in import.batch.declares : categories[c] = "active"

\* The saved tables are a record of these fields.
SavedShape ==
  import.saved =
    [status |-> import.saved.status, currentRevision |-> import.saved.currentRevision,
     publishedRevision |-> import.saved.publishedRevision,
     currentSlug |-> import.saved.currentSlug, revisions |-> import.saved.revisions,
     routeOwner |-> import.saved.routeOwner, canonical |-> import.saved.canonical,
     categories |-> import.saved.categories, series |-> import.saved.series,
     seriesItems |-> import.saved.seriesItems, audits |-> import.saved.audits,
     imported |-> import.saved.imported, updatedAt |-> import.saved.updatedAt,
     ownerDisplayName |-> import.saved.ownerDisplayName]

\* What a rollback brings back is what the committed batches left.
SavedSound ==
  /\ SavedShape
  /\ Saved!ContentInv
  /\ ImportedSound(import.saved.status, import.saved.revisions,
                   import.saved.publishedRevision, import.saved.routeOwner,
                   import.saved.imported, 0)
  /\ PostsIn(import.saved.imported) = Committed
  /\ DeclaredExist(import.saved.categories)

\* The transaction has only added to what was saved.
OnlyAdded ==
  /\ \A d \in DocumentIds : import.saved.status[d] # "absent" =>
       /\ status[d] # "absent"
       /\ revisions[d] = import.saved.revisions[d]
       /\ publishedRevision[d] = import.saved.publishedRevision[d]
       /\ currentSlug[d] = import.saved.currentSlug[d]
  /\ \A path \in Paths : import.saved.routeOwner[path] # 0 =>
       routeOwner[path] = import.saved.routeOwner[path]
  /\ import.saved.canonical \subseteq canonical
  /\ \A c \in CategorySlugs : import.saved.categories[c] # "absent" =>
       categories[c] = import.saved.categories[c]

\* The document that is being imported.
BusySound ==
  LET d == import.document IN
  d # 0 =>
    /\ import.saved.status[d] = "absent"
    /\ imported[d] = ImportedDocument(ThisPost, import.text)
    /\ Len(revisions[d]) = 1
    /\ {path \in Paths : routeOwner[path] = d} =
         IF publishedRevision[d] = 0 THEN {}
         ELSE {RoutePath(imported[d].category, imported[d].slug)}

\* A batch that was committed before adds nothing but its owner's name.
NothingAgain ==
  [batch |-> import.batch, text |-> import.text] \in done =>
    /\ import.document = 0
    /\ Tables = [import.saved EXCEPT !.ownerDisplayName = import.batch.owner]

\* In the middle of a transaction.
OpenInv ==
  /\ OpenShape
  /\ SavedSound
  /\ PostsIn(imported) = Committed \cup ImportedSoFar
  /\ OnlyAdded
  /\ BusySound
  /\ NothingAgain

\* The document whose import is not complete, or 0.
Busy == IF import.phase = "open" THEN import.document ELSE 0

\* Everything but the file that is read.
StoreInv ==
  /\ ContentInv
  /\ done \subseteq [batch : Batches, text : Bodies]
  /\ ImportedSound(status, revisions, publishedRevision, routeOwner, imported, Busy)
  /\ DeclaredExist(categories)
  /\ BatchesComplete
  /\ import.phase = "open" => OpenInv

\* A document the server has not written since has the one revision and the time
\* it was imported with.
AsImported(revs, imp, times) ==
  /\ times = [d \in DocumentIds |-> times[d]]
  /\ \A d \in DocumentIds : imp[d] # NoPost /\ d \notin written =>
       Len(revs[d]) = 1 /\ times[d] = imp[d].at

\* So it is in the tables, and in those a rollback brings back.
TimesInv ==
  /\ AsImported(revisions, imported, updatedAt)
  /\ import.phase = "open" =>
       AsImported(import.saved.revisions, import.saved.imported, import.saved.updatedAt)

\* The inductive invariant of the import.
ImportInv == ReadKnows /\ StoreInv /\ TimesInv

\* What was imported stays as it was until an author revises it: the first
\* revision is public, so it is not moved, and the routes stay.
LEMMA ImportedStays ==
  ASSUME ContentInv, ContentInv', [Next]_vars, NEW d \in DocumentIds, NEW post,
         FirstRevisionOf(d, post, status, revisions), post.aliases \subseteq Paths,
         RoutesOf(d, post, revisions, publishedRevision, routeOwner)
  PROVE  /\ FirstRevisionOf(d, post, status', revisions')
         /\ RoutesOf(d, post, revisions', publishedRevision', routeOwner')
<1> DEFINE n == Len(revisions[d])
<1>1. /\ n \in Nat /\ DOMAIN revisions[d] = 1..n /\ 1 \in 1..n
      /\ publishedRevision[d] \in 1..n /\ currentRevision[d] = n
  BY FirstRevision DEF FirstRevisionOf, RoutesOf
<1>2. \A i \in 1..n :
        /\ i \in DOMAIN revisions'[d]
        /\ revisions'[d][i] # revisions[d][i] =>
             i = currentRevision[d] /\ i # publishedRevision[d]
  <2>1. HistoryStep
    BY HistoryKept DEF ContentInv
  <2> QED
    BY <1>1, <2>1 DEF HistoryStep
<1>3. 1 \in DOMAIN revisions'[d] /\ revisions'[d][1] = revisions[d][1]
  <2> HIDE DEF n
  <2> QED
    BY <1>1, <1>2
<1>4. status'[d] # "absent"
  <2>1. DOMAIN revisions'[d] = 1..Len(revisions'[d]) /\ Len(revisions'[d]) \in Nat
    BY LenProperties DEF ContentInv, TypeOK
  <2> QED
    BY <1>3, <2>1 DEF ContentInv, PublicationInv, AbsentIsEmpty
<1>5. FirstRevisionOf(d, post, status', revisions')
  BY <1>3, <1>4 DEF FirstRevisionOf
<1>6. d # 0 /\ 0 \notin DocumentIds
  BY DEF DocumentIds
<1>7. \A p \in Paths : routeOwner[p] = d => routeOwner'[p] = d
  BY <1>6, PublishedStays
<1>8. publishedRevision'[d] # 0
  BY PublishedStays DEF RoutesOf
<1>9. ASSUME Len(revisions'[d]) = 1 PROVE {path \in Paths : routeOwner'[path] = d} = Claimed(post)
  <2>1. DOMAIN revisions'[d] = 1..1
    BY <1>9, LenProperties DEF ContentInv, TypeOK
  <2>2. n = 1
    <3>1. n \in DOMAIN revisions'[d]
      BY <1>1, <1>2
    <3> QED
      BY <1>1, <2>1, <3>1
  <2>3. {path \in Paths : routeOwner[path] = d} = Claimed(post)
    BY <2>2 DEF RoutesOf
  <2>4. \A p \in Paths : routeOwner'[p] = d => routeOwner[p] = d
    <3> SUFFICES ASSUME NEW p \in Paths, routeOwner'[p] = d, routeOwner[p] # d PROVE FALSE
      OBVIOUS
    <3>1. PICK e \in DocumentIds, r \in 1..MaxRevisions : Publish(e, r)
      BY RoutesOnlyByPublish
    <3>2. r \in DOMAIN revisions[e] /\ routeOwner' = [routeOwner EXCEPT ![RevisionPath(e, r)] = e]
      BY <3>1 DEF Publish
    <3>3. e = d /\ p = RevisionPath(e, r)
      BY <3>2 DEF ContentInv, TypeOK
    <3>4. r = 1
      BY <1>1, <2>2, <3>2, <3>3
    <3>5. p = RoutePath(post.category, post.slug)
      BY <3>3, <3>4 DEF RevisionPath, FirstRevisionOf
    <3> QED
      BY <2>3, <3>5 DEF Claimed
  <2> QED
    BY <1>7, <2>3, <2>4
<1> QED
  BY <1>5, <1>7, <1>8, <1>9 DEF RoutesOf

\* The posts of a valid batch as they are imported.
LEMMA PostTypes ==
  /\ \A post \in ImportedPosts :
       /\ post.key \in Keys /\ post.slug \in Slugs /\ post.category \in CategorySlugs
       /\ post.aliases \subseteq Paths
       /\ \A path \in post.aliases : ValidAlias(path)
       /\ post # NoPost
       /\ post = ImportedDocument(post, post.text)
  /\ \A b \in Batches : \A p \in Posts(b), text \in Bodies : ValidBatch(b) =>
       ImportedDocument(p, text) \in ImportedPosts
<1>1. ASSUME NEW post \in ImportedPosts
      PROVE  /\ post.key \in Keys /\ post.slug \in Slugs /\ post.category \in CategorySlugs
             /\ post.aliases \subseteq Paths
             /\ \A path \in post.aliases : ValidAlias(path)
             /\ post # NoPost
             /\ post = ImportedDocument(post, post.text)
  <2>b. PICK b \in Batches :
          ValidBatch(b) /\ post \in {ImportedDocument(p, text) : p \in Posts(b), text \in Bodies}
    BY DEF ImportedPosts
  <2>1. PICK p \in Posts(b), text \in Bodies : post = ImportedDocument(p, text)
    BY <2>b
  <2>2. /\ p.key \in Keys /\ p.slug \in Slugs /\ p.category \in CategorySlugs
        /\ p.aliases \subseteq Paths
        /\ ImportedDocument(p, text) # NoPost
    BY <2>1, BatchesAssumption DEF Bodies
  <2>3. \A path \in p.aliases : ValidAlias(path)
    BY <2>b DEF ValidBatch
  <2>4. /\ post.key = p.key /\ post.slug = p.slug /\ post.category = p.category
        /\ post.aliases = p.aliases /\ post.text = text
    BY <2>1 DEF ImportedDocument
  <2>5. post = ImportedDocument(post, post.text)
    BY <2>1, <2>4 DEF ImportedDocument
  <2> QED
    BY <2>1, <2>2, <2>3, <2>4, <2>5
<1>2. ASSUME NEW b \in Batches, NEW p \in Posts(b), NEW text \in Bodies, ValidBatch(b)
      PROVE  ImportedDocument(p, text) \in ImportedPosts
  BY <1>2 DEF ImportedPosts
<1> QED
  BY <1>1, <1>2

---------------------------------------------------------------------------
(* The saved tables. *)

\* The rollback brings back what held of the saved tables.
LEMMA RolledBack ==
  ASSUME Saved!ContentInv, Restore(import.saved) PROVE ContentInv'
<1>1. TypeOK'
  BY DEF Restore, Saved!ContentInv, Saved!TypeOK, TypeOK, Saved!DocumentIds, Saved!Paths,
         Saved!Placements, Saved!Revision, Saved!Audit, DocumentIds, Paths, Placements, Revision, Audit
<1>2. AddressClaimsDisjoint'
  BY DEF Restore, Saved!ContentInv, Saved!AddressClaimsDisjoint, AddressClaimsDisjoint,
         Saved!PathOwnedOnce, PathOwnedOnce, Saved!LandingPagesFree, LandingPagesFree,
         Saved!Claims, Claims, Saved!RoutePath, RoutePath, Saved!DocumentIds, Saved!Paths,
         Saved!Placements, DocumentIds, Paths, Placements
<1>3. PublicationInv'
  BY DEF Restore, Saved!ContentInv, Saved!PublicationInv, PublicationInv,
         Saved!AbsentIsEmpty, AbsentIsEmpty, Saved!PublishedExists, PublishedExists,
         Saved!StatusMatchesPointer, StatusMatchesPointer, Saved!RoutesResolve, RoutesResolve,
         Saved!DraftPathIsCurrent, DraftPathIsCurrent,
         Saved!CanonicalRouteIsPublished, CanonicalRouteIsPublished,
         Saved!RevisionPath, RevisionPath, Saved!RoutePath, RoutePath, Saved!DocumentIds, Saved!Paths,
         Saved!Placements, DocumentIds, Paths, Placements
<1>4. CanonicalHeld'
  BY DEF Restore, Saved!ContentInv, Saved!CanonicalHeld, CanonicalHeld
<1>5. SeriesInv'
  BY DEF Restore, Saved!ContentInv, Saved!SeriesInv, SeriesInv, Saved!SeriesBacked, SeriesBacked,
         Saved!SeriesComplete, SeriesComplete, Saved!PublishedIn, PublishedIn,
         Saved!PublicMembers, PublicMembers, Saved!DocumentIds, DocumentIds
<1>6. AuditInv'
  BY DEF Restore, Saved!ContentInv, Saved!AuditInv, AuditInv, Saved!AuditsName, AuditsName,
         Saved!ProposalsAudited, ProposalsAudited, Saved!DocumentIds, DocumentIds
<1> QED
  BY <1>1, <1>2, <1>3, <1>4, <1>5, <1>6 DEF ContentInv

\* What holds of the tables holds of the copy that is saved.
LEMMA SavedAsTheyAre ==
  ASSUME ContentInv, import'.saved = Tables PROVE Saved!ContentInv'
<1>0. /\ import'.saved.status = status /\ import'.saved.currentRevision = currentRevision
      /\ import'.saved.publishedRevision = publishedRevision
      /\ import'.saved.currentSlug = currentSlug /\ import'.saved.revisions = revisions
      /\ import'.saved.routeOwner = routeOwner /\ import'.saved.canonical = canonical
      /\ import'.saved.categories = categories /\ import'.saved.series = series
      /\ import'.saved.seriesItems = seriesItems /\ import'.saved.audits = audits
  BY DEF Tables
<1>1. Saved!TypeOK'
  BY <1>0 DEF ContentInv, Saved!TypeOK, TypeOK, Saved!DocumentIds, Saved!Paths,
         Saved!Placements, Saved!Revision, Saved!Audit, DocumentIds, Paths, Placements, Revision, Audit
<1>2. Saved!AddressClaimsDisjoint'
  BY <1>0 DEF ContentInv, Saved!AddressClaimsDisjoint, AddressClaimsDisjoint,
         Saved!PathOwnedOnce, PathOwnedOnce, Saved!LandingPagesFree, LandingPagesFree,
         Saved!Claims, Claims, Saved!RoutePath, RoutePath, Saved!DocumentIds, Saved!Paths,
         Saved!Placements, DocumentIds, Paths, Placements
<1>3. Saved!PublicationInv'
  BY <1>0 DEF ContentInv, Saved!PublicationInv, PublicationInv,
         Saved!AbsentIsEmpty, AbsentIsEmpty, Saved!PublishedExists, PublishedExists,
         Saved!StatusMatchesPointer, StatusMatchesPointer, Saved!RoutesResolve, RoutesResolve,
         Saved!DraftPathIsCurrent, DraftPathIsCurrent,
         Saved!CanonicalRouteIsPublished, CanonicalRouteIsPublished,
         Saved!RevisionPath, RevisionPath, Saved!RoutePath, RoutePath, Saved!DocumentIds, Saved!Paths,
         Saved!Placements, DocumentIds, Paths, Placements
<1>4. Saved!CanonicalHeld'
  BY <1>0 DEF ContentInv, Saved!CanonicalHeld, CanonicalHeld
<1>5. Saved!SeriesInv'
  BY <1>0 DEF ContentInv, Saved!SeriesInv, SeriesInv, Saved!SeriesBacked, SeriesBacked,
         Saved!SeriesComplete, SeriesComplete, Saved!PublishedIn, PublishedIn,
         Saved!PublicMembers, PublicMembers, Saved!DocumentIds, DocumentIds
<1>6. Saved!AuditInv'
  BY <1>0 DEF ContentInv, Saved!AuditInv, AuditInv, Saved!AuditsName, AuditsName,
         Saved!ProposalsAudited, ProposalsAudited, Saved!DocumentIds, DocumentIds
<1> QED
  BY <1>1, <1>2, <1>3, <1>4, <1>5, <1>6 DEF Saved!ContentInv

\* The saved tables stay what they are while the transaction runs.
LEMMA SavedStay ==
  ASSUME Saved!ContentInv, import'.saved = import.saved PROVE Saved!ContentInv'
<1> USE DEF Saved!ContentInv
<1>1. Saved!TypeOK'
  BY DEF Saved!TypeOK, Saved!DocumentIds, Saved!Paths, Saved!Placements, Saved!Revision,
         Saved!Audit
<1>2. Saved!AddressClaimsDisjoint'
  BY DEF Saved!AddressClaimsDisjoint, Saved!PathOwnedOnce, Saved!LandingPagesFree, Saved!Claims
<1>3. Saved!PublicationInv'
  BY DEF Saved!PublicationInv, Saved!AbsentIsEmpty, Saved!PublishedExists,
         Saved!StatusMatchesPointer, Saved!RoutesResolve, Saved!DraftPathIsCurrent,
         Saved!CanonicalRouteIsPublished, Saved!RevisionPath
<1>4. Saved!CanonicalHeld'
  BY DEF Saved!CanonicalHeld
<1>5. Saved!SeriesInv'
  BY DEF Saved!SeriesInv, Saved!SeriesBacked, Saved!SeriesComplete, Saved!PublishedIn,
         Saved!PublicMembers
<1>6. Saved!AuditInv'
  BY DEF Saved!AuditInv, Saved!AuditsName, Saved!ProposalsAudited
<1> QED
  BY <1>1, <1>2, <1>3, <1>4, <1>5, <1>6

\* A step that writes no table, outside of a transaction.
LEMMA QuietStep ==
  ASSUME StoreInv, import.phase # "open", import'.phase # "open",
         UNCHANGED <<vars, imported, done>>
  PROVE  StoreInv'
<1> USE DEF vars
<1>1. ContentInv'
  BY ContentPreserved DEF StoreInv
<1>2. Busy = 0 /\ Busy' = 0
  BY DEF Busy
<1>3. ImportedSound(status, revisions, publishedRevision, routeOwner, imported, 0)
  BY <1>2 DEF StoreInv
<1>4. ImportedSound(status, revisions, publishedRevision, routeOwner, imported, Busy)'
  BY <1>2, <1>3
<1>5. DeclaredExist(categories)'
  BY DEF StoreInv, DeclaredExist
<1>6. BatchesComplete'
  BY DEF StoreInv, BatchesComplete
<1> QED
  BY <1>1, <1>4, <1>5, <1>6 DEF StoreInv

\* What was imported stays as complete as it was in every write of the server.
LEMMA ServerStepKeeps ==
  ASSUME StoreInv, ServerStep PROVE StoreInv'
<1>1. import.phase # "open" /\ import' = import /\ imported' = imported /\ done' = done
  BY DEF ServerStep
<1>2. [Next]_vars
  BY DEF ServerStep, Next, DocumentStep
<1>3. ContentInv /\ ContentInv'
  BY <1>2, ContentPreserved DEF StoreInv
<1>4. Busy = 0 /\ Busy' = 0
  BY <1>1 DEF Busy
<1>5. ImportedSound(status, revisions, publishedRevision, routeOwner, imported, 0)
  BY <1>4 DEF StoreInv
<1>6. ImportedSound(status', revisions', publishedRevision', routeOwner', imported, 0)
  <2>1. imported \in [DocumentIds -> ImportedPosts \cup {NoPost}]
    BY <1>5 DEF ImportedSound
  <2>2. ASSUME NEW d \in DocumentIds, imported[d] # NoPost
        PROVE  /\ FirstRevisionOf(d, imported[d], status', revisions')
               /\ RoutesOf(d, imported[d], revisions', publishedRevision', routeOwner')
    <3>1. d # 0
      BY DEF DocumentIds
    <3>2. /\ FirstRevisionOf(d, imported[d], status, revisions)
          /\ RoutesOf(d, imported[d], revisions, publishedRevision, routeOwner)
      BY <1>5, <2>2, <3>1 DEF ImportedSound
    <3>3. imported[d].aliases \subseteq Paths
      BY <2>1, <2>2, PostTypes
    <3> QED
      BY <1>2, <1>3, <3>2, <3>3, ImportedStays
  <2> QED
    BY <2>1, <2>2 DEF ImportedSound
<1>7. DeclaredExist(categories')
  <2>1. \A c \in CategorySlugs : categories[c] # "absent" => categories'[c] # "absent"
    BY <1>2, <1>3, StepIsOfAKind
       DEF StepKinds, DraftMoves, RouteWritten, LandingAppears, PathsStay, ContentInv, TypeOK
  <2>2. \A b \in done : b.batch.declares \subseteq CategorySlugs
    BY BatchesAssumption DEF StoreInv
  <2> QED
    BY <2>1, <2>2 DEF StoreInv, DeclaredExist
<1>8. BatchesComplete'
  BY <1>1 DEF StoreInv, BatchesComplete
<1>9. DeclaredExist(categories)'
  BY <1>1, <1>7 DEF DeclaredExist
<1>10. ImportedSound(status, revisions, publishedRevision, routeOwner, imported, Busy)'
  BY <1>1, <1>4, <1>6
<1> QED
  BY <1>1, <1>3, <1>8, <1>9, <1>10 DEF StoreInv

\* A rollback leaves what the committed batches left.
LEMMA RollbackKeeps ==
  ASSUME StoreInv, import.phase = "open", import' = Idle, Restore(import.saved),
         UNCHANGED done
  PROVE  StoreInv'
<1>1. SavedSound
  BY DEF StoreInv, OpenInv
<1>2. ContentInv'
  BY <1>1, RolledBack DEF SavedSound
<1>3. import'.phase = "idle" /\ Busy' = 0
  BY DEF Idle, Busy
<1>4. ImportedSound(status, revisions, publishedRevision, routeOwner, imported, Busy)'
  <2>1. ImportedSound(status', revisions', publishedRevision', routeOwner', imported', 0)
    BY <1>1 DEF SavedSound, Restore
  <2> QED
    BY <1>3, <2>1
<1>5. DeclaredExist(categories)'
  BY <1>1 DEF SavedSound, DeclaredExist, Restore
<1>6. BatchesComplete'
  BY <1>1 DEF SavedSound, BatchesComplete, Restore, PostsIn, Committed
<1> QED
  BY <1>2, <1>3, <1>4, <1>5, <1>6 DEF StoreInv

---------------------------------------------------------------------------
(* The steps of a transaction. *)

\* The posts of a batch are numbered from 1.
LEMMA PostsNumbered ==
  ASSUME NEW b \in Batches
  PROVE  /\ Len(b.posts) \in Nat /\ DOMAIN b.posts = 1..Len(b.posts)
         /\ Posts(b) = {b.posts[i] : i \in 1..Len(b.posts)}
<1>1. Len(b.posts) \in Nat /\ DOMAIN b.posts = 1..Len(b.posts)
  BY BatchesAssumption, LenProperties
<1> QED
  BY <1>1 DEF Posts

\* The batch is committed: what was looked at is the whole batch.
LEMMA CommitKeeps ==
  ASSUME StoreInv, import.phase = "open", import.next > Len(import.batch.posts),
         import' = Idle, UNCHANGED <<vars, imported>>,
         done' = done \cup {[batch |-> import.batch, text |-> import.text]}
  PROVE  StoreInv'
<1> DEFINE n == Len(import.batch.posts)
           this == [batch |-> import.batch, text |-> import.text]
<1>1. OpenInv /\ OpenShape
  BY DEF StoreInv, OpenInv
<1>2. /\ import.batch \in Batches /\ import.text \in Bodies
      /\ import.document \in DocumentIds \cup {0}
      /\ import.next \in 1..(n + 1)
      /\ import.document # 0 => import.next <= n
  BY <1>1 DEF OpenShape
<1>3. n \in Nat /\ Posts(import.batch) = {import.batch.posts[i] : i \in 1..n}
  BY <1>2, PostsNumbered
<1>4. import.document = 0 /\ import.next - 1 = n
  <2> HIDE DEF n
  <2>1. import.next > n
    BY DEF n
  <2> QED
    BY <1>2, <1>3, <2>1
<1>5. import'.phase = "idle" /\ Busy' = 0 /\ Busy = 0
  BY <1>4 DEF Idle, Busy
<1>6. ContentInv'
  BY ContentPreserved DEF StoreInv
<1>7. ImportedSound(status, revisions, publishedRevision, routeOwner, imported, Busy)'
  <2>1. ImportedSound(status, revisions, publishedRevision, routeOwner, imported, 0)
    BY <1>5 DEF StoreInv
  <2> QED
    BY <1>5, <2>1 DEF vars
<1>8. done' \subseteq [batch : Batches, text : Bodies]
  BY <1>2 DEF StoreInv
<1>9. DeclaredExist(categories)'
  <2>1. \A c \in import.batch.declares : categories[c] = "active"
    BY <1>1 DEF OpenShape
  <2>2. categories' = categories
    BY DEF vars
  <2> SUFFICES ASSUME NEW b \in done', NEW c \in b.batch.declares
               PROVE  categories[c] # "absent"
    BY <2>2 DEF DeclaredExist
  <2> QED
    BY <2>1 DEF StoreInv, DeclaredExist
<1>10. BatchesComplete'
  <2>1. ImportedSoFar = {ImportedDocument(p, import.text) : p \in Posts(import.batch)}
    BY <1>3, <1>4 DEF ImportedSoFar
  <2>2. PostsIn(imported) = Committed \cup ImportedSoFar
    BY <1>1 DEF OpenInv
  <2> DEFINE Of(b) == {ImportedDocument(p, b.text) : p \in Posts(b.batch)}
  <2>3. Of(this) = ImportedSoFar
    BY <2>1
  <2>4. Committed = UNION {Of(b) : b \in done}
    BY DEF Committed
  <2>5. UNION {Of(b) : b \in done'} = Committed \cup Of(this)
    <3> HIDE DEF Of, this
    <3>1. done' = done \cup {this}
      BY DEF this
    <3> QED
      BY <2>4, <3>1
  <2>6. {imported'[d] : d \in DocumentIds} \ {NoPost} = PostsIn(imported)
    BY DEF PostsIn
  <2> HIDE DEF Of
  <2>7. {imported'[d] : d \in DocumentIds} \ {NoPost} = UNION {Of(b) : b \in done'}
    BY <2>2, <2>3, <2>5, <2>6
  <2> QED
    BY <2>7 DEF BatchesComplete, Of
<1> QED
  BY <1>5, <1>6, <1>7, <1>8, <1>9, <1>10 DEF StoreInv

\* The transaction begins with the tables as they are saved.
LEMMA BeginKeeps ==
  ASSUME ReadKnows, StoreInv, BeginImport PROVE StoreInv'
<1>1. /\ import.phase = "loaded" /\ ValidBatch(import.batch)
      /\ \A c \in import.batch.declares : Declare(c)
      /\ categories' = [c \in CategorySlugs |->
           IF c \in import.batch.declares THEN "active" ELSE categories[c]]
      /\ import' = [phase |-> "open", batch |-> import.batch, dry |-> import.dry,
                    text |-> import.text, next |-> 1, document |-> 0, saved |-> Tables]
      /\ imported' = imported /\ updatedAt' = updatedAt /\ done' = done
      /\ ownerDisplayName' = import.batch.owner
  BY DEF BeginImport
<1>2. UNCHANGED <<status, currentRevision, publishedRevision, currentSlug, revisions,
                  routeOwner, canonical, series, seriesItems, audits>>
  BY DEF BeginImport, documentVars, routeVars
<1>3. import.batch \in Batches /\ import.dry \in BOOLEAN /\ import.text \in Bodies
  BY <1>1 DEF ReadKnows, FromInspected, Bodies
<1>4. ContentInv /\ ContentInv'
  BY <1>3, DeclaredKept DEF StoreInv
<1>5. import.batch.declares \subseteq CategorySlugs
  BY <1>3, BatchesAssumption
<1>6. \A c \in CategorySlugs : categories[c] # "absent" => categories'[c] = categories[c]
  BY <1>1 DEF Declare
<1>7. Busy = 0 /\ Busy' = 0 /\ import'.phase = "open" /\ import'.document = 0
  BY <1>1 DEF Busy
<1>8. ImportedSound(status, revisions, publishedRevision, routeOwner, imported, 0)
  BY <1>7 DEF StoreInv
<1>9. ImportedSound(status, revisions, publishedRevision, routeOwner, imported, Busy)'
  BY <1>1, <1>2, <1>7, <1>8
<1>10. DeclaredExist(categories)'
  <2>1. \A b \in done : b.batch.declares \subseteq CategorySlugs
    BY BatchesAssumption DEF StoreInv
  <2> QED
    BY <1>1, <1>6, <2>1 DEF StoreInv, DeclaredExist
<1>11. OpenShape'
  <2>1. Len(import.batch.posts) \in Nat
    BY <1>3, PostsNumbered
  <2>2. 1 \in 1..(Len(import.batch.posts) + 1)
    BY <2>1
  <2>3. \A c \in import.batch.declares : categories'[c] = "active"
    BY <1>1, <1>5
  <2> QED
    BY <1>1, <1>3, <2>2, <2>3 DEF OpenShape
<1>12. SavedSound'
  <2>1. import'.saved = Tables
    BY <1>1
  <2>2. SavedShape'
    BY <2>1 DEF SavedShape, Tables
  <2>3. Saved!ContentInv'
    BY <1>4, <2>1, SavedAsTheyAre
  <2>4. ImportedSound(import.saved.status, import.saved.revisions,
                      import.saved.publishedRevision, import.saved.routeOwner,
                      import.saved.imported, 0)'
    BY <1>8, <2>1 DEF Tables
  <2>5. (PostsIn(import.saved.imported) = Committed)'
    BY <1>1, <2>1 DEF StoreInv, BatchesComplete, PostsIn, Committed, Tables
  <2>6. DeclaredExist(import.saved.categories)'
    BY <1>1, <2>1 DEF StoreInv, DeclaredExist, Tables
  <2> QED
    BY <2>2, <2>3, <2>4, <2>5, <2>6 DEF SavedSound
<1>13. (PostsIn(imported) = Committed \cup ImportedSoFar)'
  <2>1. ImportedSoFar' = {}
    BY <1>1 DEF ImportedSoFar
  <2>2. PostsIn(imported) = Committed
    BY <1>1 DEF StoreInv, BatchesComplete, PostsIn, Committed
  <2>3. PostsIn(imported)' = PostsIn(imported) /\ Committed' = Committed
    BY <1>1 DEF PostsIn, Committed
  <2> QED
    BY <2>1, <2>2, <2>3
<1>14. OnlyAdded'
  BY <1>1, <1>2, <1>6 DEF OnlyAdded, Tables
<1>15. BusySound'
  BY <1>7 DEF BusySound
<1>16. NothingAgain'
  <2> SUFFICES ASSUME [batch |-> import.batch, text |-> import.text] \in done
               PROVE  Tables' = [Tables EXCEPT !.ownerDisplayName = import.batch.owner]
    BY <1>1, <1>7 DEF NothingAgain
  <2>1. \A c \in import.batch.declares : categories[c] = "active"
    BY <1>1 DEF StoreInv, DeclaredExist, Declare
  <2>2. categories' = categories
    BY <1>1, <2>1, <1>4 DEF ContentInv, TypeOK
  <2> QED
    BY <1>1, <1>2, <2>2 DEF Tables
<1> QED
  BY <1>1, <1>4, <1>7, <1>9, <1>10, <1>11, <1>12, <1>13, <1>14, <1>15, <1>16
     DEF StoreInv, OpenInv, BatchesComplete

\* A post that was imported before is what it was: nothing is written.
LEMMA SkipKeeps ==
  ASSUME StoreInv, SkipUnchanged PROVE StoreInv'
<1>1. /\ import.phase = "open" /\ import.next <= Len(import.batch.posts)
      /\ import.document = 0
      /\ import' = [import EXCEPT !.next = @ + 1]
      /\ imported' = imported /\ done' = done /\ ownerDisplayName' = ownerDisplayName
      /\ updatedAt' = updatedAt
  BY DEF SkipUnchanged, Running
<1>2. UNCHANGED vars
  BY DEF SkipUnchanged
<1>3. OpenInv /\ OpenShape
  BY <1>1 DEF StoreInv, OpenInv
<1>4. import' = [phase |-> "open", batch |-> import.batch, dry |-> import.dry,
                 text |-> import.text, next |-> import.next + 1,
                 document |-> import.document, saved |-> import.saved]
  BY <1>1, <1>3 DEF OpenShape
<1>5. ContentInv'
  BY <1>2, ContentPreserved DEF StoreInv
<1>6. Busy = 0 /\ Busy' = 0 /\ import'.phase = "open" /\ import'.document = 0
  BY <1>1, <1>4 DEF Busy
<1>7. ImportedSound(status, revisions, publishedRevision, routeOwner, imported, Busy)'
  <2>1. ImportedSound(status, revisions, publishedRevision, routeOwner, imported, 0)
    BY <1>6 DEF StoreInv
  <2> QED
    BY <1>1, <1>2, <1>6, <2>1 DEF vars
<1>8. DeclaredExist(categories)'
  BY <1>1, <1>2 DEF StoreInv, DeclaredExist, vars
<1>9. OpenShape'
  <2>1. Len(import.batch.posts) \in Nat
    BY <1>3, PostsNumbered DEF OpenShape
  <2>2. import.next + 1 \in 1..(Len(import.batch.posts) + 1)
    BY <1>1, <1>3, <2>1 DEF OpenShape
  <2> QED
    BY <1>1, <1>2, <1>3, <1>4, <2>2 DEF OpenShape, vars
<1>10. SavedSound'
  BY <1>1, <1>3, <1>4, SavedStay
     DEF OpenInv, SavedSound, SavedShape, Committed, DeclaredExist
<1>11. (PostsIn(imported) = Committed \cup ImportedSoFar)'
  <2>1. \E d \in DocumentIds : imported[d] = ImportedDocument(ThisPost, import.text)
    BY DEF SkipUnchanged, KeyHolders, RetryMatches
  <2>2. ImportedDocument(ThisPost, import.text) # NoPost
    <3>1. ThisPost \in Posts(import.batch)
      <4>1. import.batch \in Batches /\ import.next \in 1..(Len(import.batch.posts) + 1)
        BY <1>3 DEF OpenShape
      <4>2. import.next \in 1..Len(import.batch.posts)
        BY <1>1, <4>1, PostsNumbered
      <4> QED
        BY <4>1, <4>2, PostsNumbered DEF ThisPost
    <3> QED
      BY <1>3, <3>1, BatchesAssumption DEF OpenShape, Bodies
  <2>3. ImportedDocument(ThisPost, import.text) \in PostsIn(imported)
    BY <2>1, <2>2 DEF PostsIn
  <2>4. ImportedSoFar' = ImportedSoFar \cup {ImportedDocument(ThisPost, import.text)}
    <3>1. /\ ImportedSoFar' = {ImportedDocument(import.batch.posts[i], import.text) :
                                 i \in 1..((import.next + 1) - 1)}
          /\ ImportedSoFar = {ImportedDocument(import.batch.posts[i], import.text) :
                                i \in 1..(import.next - 1)}
      BY <1>1, <1>4 DEF ImportedSoFar
    <3>2. 1..((import.next + 1) - 1) = 1..(import.next - 1) \cup {import.next}
      BY <1>3 DEF OpenShape
    <3> QED
      BY <3>1, <3>2 DEF ThisPost
  <2>5. PostsIn(imported)' = PostsIn(imported) /\ Committed' = Committed
    BY <1>1 DEF PostsIn, Committed
  <2>6. PostsIn(imported) = Committed \cup ImportedSoFar
    BY <1>3 DEF OpenInv
  <2> QED
    BY <2>3, <2>4, <2>5, <2>6
<1>12. OnlyAdded'
  BY <1>2, <1>3, <1>4 DEF OpenInv, OnlyAdded, vars
<1>13. BusySound'
  BY <1>6 DEF BusySound
<1>14. NothingAgain'
  <2>1. Tables' = Tables
    BY <1>1, <1>2 DEF Tables, vars
  <2> QED
    BY <1>1, <1>3, <1>4, <2>1 DEF OpenInv, NothingAgain
<1> QED
  BY <1>1, <1>5, <1>6, <1>7, <1>8, <1>9, <1>10, <1>11, <1>12, <1>13, <1>14
     DEF StoreInv, OpenInv, BatchesComplete

\* The post that is looked at.
LEMMA RunningPost ==
  ASSUME StoreInv, Running
  PROVE  /\ OpenInv /\ OpenShape /\ import.phase = "open"
         /\ import.next \in 1..Len(import.batch.posts)
         /\ Len(import.batch.posts) \in Nat
         /\ ThisPost \in Posts(import.batch)
         /\ ThisPost.key \in Keys /\ ThisPost.key # NoKey
         /\ ThisPost.slug \in Slugs /\ ThisPost.category \in CategorySlugs
         /\ ThisPost.aliases \subseteq Paths
         /\ ImportedDocument(ThisPost, import.text) \in ImportedPosts
         /\ ImportedDocument(ThisPost, import.text) # NoPost
<1>1. import.phase = "open" /\ import.next <= Len(import.batch.posts)
  BY DEF Running
<1>2. OpenInv /\ OpenShape
  BY <1>1 DEF StoreInv, OpenInv
<1>3. /\ import.batch \in Batches /\ import.text \in Bodies /\ ValidBatch(import.batch)
      /\ import.next \in 1..(Len(import.batch.posts) + 1)
  BY <1>2 DEF OpenShape
<1>4. Len(import.batch.posts) \in Nat /\ import.next \in 1..Len(import.batch.posts)
  BY <1>1, <1>3, PostsNumbered
<1>5. ThisPost \in Posts(import.batch)
  BY <1>3, <1>4, PostsNumbered DEF ThisPost
<1>6. /\ ThisPost.key \in Keys
      /\ ThisPost.slug \in Slugs /\ ThisPost.category \in CategorySlugs
      /\ ThisPost.aliases \subseteq Paths
  BY <1>3, <1>5, BatchesAssumption
<1>7. ThisPost.key # NoKey
  BY <1>6, SlugAssumption
<1>8. ImportedDocument(ThisPost, import.text) \in ImportedPosts
  BY <1>3, <1>5, PostTypes
<1>9. ImportedDocument(ThisPost, import.text) # NoPost
  BY <1>8, PostTypes
<1> QED
  BY <1>1, <1>2, <1>4, <1>5, <1>6, <1>7, <1>8, <1>9

\* The saved tables are not written.
LEMMA SavedSoundKept ==
  ASSUME SavedSound, import'.saved = import.saved, done' = done PROVE SavedSound'
  BY SavedStay DEF SavedSound, SavedShape, Committed, DeclaredExist

\* A batch that was committed has its keys in the table.
LEMMA CommittedKeysUsed ==
  ASSUME StoreInv, Running, import.document = 0, KeyUnused(ThisPost.key)
  PROVE  [batch |-> import.batch, text |-> import.text] \notin done
<1> DEFINE this == [batch |-> import.batch, text |-> import.text]
           post == ImportedDocument(ThisPost, import.text)
<1> SUFFICES ASSUME this \in done PROVE FALSE
  OBVIOUS
<1>1. post \in {ImportedDocument(p, this.text) : p \in Posts(this.batch)}
  BY RunningPost
<1>2. post \in Committed
  BY <1>1 DEF Committed
<1>3. post \in PostsIn(imported)
  BY <1>2, RunningPost DEF OpenInv
<1>4. PICK d \in DocumentIds : imported[d] = post
  BY <1>3 DEF PostsIn
<1>5. FirstRevisionOf(d, post, status, revisions)
  BY <1>4, RunningPost DEF StoreInv, ImportedSound
<1>6. post.key = ThisPost.key
  BY DEF ImportedDocument
<1>7. 1 \in DOMAIN revisions[d] /\ revisions[d][1].key = ThisPost.key
  BY <1>5, <1>6, FirstRevision DEF FirstRevisionOf, StoreInv
<1> QED
  BY <1>7, RunningPost DEF KeyUnused

\* A document is created for the post.
LEMMA DocumentKeeps ==
  ASSUME StoreInv, NEW d \in DocumentIds, ImportDocument(d) PROVE StoreInv'
<1> DEFINE post == ImportedDocument(ThisPost, import.text)
           path == RoutePath(ThisPost.category, ThisPost.slug)
<1>1. /\ Running /\ import.document = 0
      /\ CreateDocument(d, ThisPost.slug, ThisPost.category, ThisPost.key)
      /\ imported' = [imported EXCEPT ![d] = post]
      /\ import' = [import EXCEPT !.document = d]
      /\ done' = done /\ ownerDisplayName' = ownerDisplayName
  BY DEF ImportDocument
<1>2. /\ OpenInv /\ OpenShape /\ import.phase = "open"
      /\ import.next \in 1..Len(import.batch.posts) /\ Len(import.batch.posts) \in Nat
      /\ ThisPost.key \in Keys /\ ThisPost.slug \in Slugs
      /\ ThisPost.category \in CategorySlugs
      /\ post \in ImportedPosts /\ post # NoPost
  BY <1>1, RunningPost
<1>3. /\ status[d] = "absent" /\ KeyUnused(ThisPost.key)
      /\ status' = [status EXCEPT ![d] = "draft"]
      /\ currentSlug' = [currentSlug EXCEPT ![d] = path]
      /\ revisions' = [revisions EXCEPT ![d] =
           <<[slug |-> ThisPost.slug, category |-> ThisPost.category, parent |-> 0,
              key |-> ThisPost.key, ai |-> FALSE]>>]
      /\ UNCHANGED <<publishedRevision, routeOwner, canonical, categories>>
  BY <1>1 DEF CreateDocument, routeVars, categoryVars
<1>4. ContentInv /\ ContentInv'
  <2>1. Next
    BY <1>1, <1>2 DEF Next, DocumentStep, DocumentWrite, Placements
  <2> QED
    BY <2>1, ContentPreserved DEF StoreInv
<1>5. import' = [phase |-> "open", batch |-> import.batch, dry |-> import.dry,
                 text |-> import.text, next |-> import.next,
                 document |-> d, saved |-> import.saved]
  BY <1>1, <1>2 DEF OpenShape
<1>6. d # 0 /\ 0 \notin DocumentIds
  BY DEF DocumentIds
<1>7. Busy = 0 /\ Busy' = d /\ import'.phase = "open" /\ import'.document = d
  BY <1>1, <1>2, <1>5 DEF Busy
<1>8. ImportedSound(status, revisions, publishedRevision, routeOwner, imported, 0)
  BY <1>7 DEF StoreInv
<1>9. imported \in [DocumentIds -> ImportedPosts \cup {NoPost}] /\ imported[d] = NoPost
  BY <1>3, <1>8 DEF ImportedSound, FirstRevisionOf
<1>10. /\ status \in [DocumentIds -> {"absent", "draft", "published"}]
       /\ DOMAIN revisions = DocumentIds /\ DOMAIN currentSlug = DocumentIds
       /\ DOMAIN publishedRevision = DocumentIds
  BY <1>4 DEF ContentInv, TypeOK
<1>11. \A e \in DocumentIds \ {d} :
         /\ status'[e] = status[e] /\ revisions'[e] = revisions[e]
         /\ currentSlug'[e] = currentSlug[e] /\ imported'[e] = imported[e]
  BY <1>1, <1>3, <1>9, <1>10
<1>12. ImportedSound(status', revisions', publishedRevision', routeOwner', imported', d)
  <2>1. imported' \in [DocumentIds -> ImportedPosts \cup {NoPost}]
    BY <1>1, <1>2, <1>9
  <2>2. FirstRevisionOf(d, imported'[d], status', revisions')
    BY <1>1, <1>3, <1>9, <1>10 DEF FirstRevisionOf, ImportedDocument
  <2>3. ASSUME NEW e \in DocumentIds \ {d}, imported'[e] # NoPost
        PROVE  /\ FirstRevisionOf(e, imported'[e], status', revisions')
               /\ RoutesOf(e, imported'[e], revisions', publishedRevision', routeOwner')
    <3>1. /\ FirstRevisionOf(e, imported[e], status, revisions)
          /\ RoutesOf(e, imported[e], revisions, publishedRevision, routeOwner)
      BY <1>6, <1>8, <1>11, <2>3 DEF ImportedSound
    <3> QED
      BY <1>3, <1>11, <3>1 DEF FirstRevisionOf, RoutesOf
  <2> QED
    BY <2>1, <2>2, <2>3 DEF ImportedSound
<1>13. ImportedSound(status, revisions, publishedRevision, routeOwner, imported, Busy)'
  BY <1>7, <1>12
<1>14. DeclaredExist(categories)'
  BY <1>1, <1>3 DEF StoreInv, DeclaredExist
<1>15. OpenShape'
  <2>1. import.next \in 1..(Len(import.batch.posts) + 1)
    BY <1>2
  <2>2. import.next <= Len(import.batch.posts)
    BY <1>2
  <2> QED
    BY <1>2, <1>3, <1>5, <2>1, <2>2 DEF OpenShape
<1>16. SavedSound'
  <2>1. import'.saved = import.saved
    BY <1>5
  <2> QED
    BY <1>1, <1>2, <2>1, SavedSoundKept DEF OpenInv
<1>17. (PostsIn(imported) = Committed \cup ImportedSoFar)'
  <2>1. PostsIn(imported) = Committed \cup ImportedSoFar
    BY <1>2 DEF OpenInv
  <2>2. PostsIn(imported') = PostsIn(imported) \cup {post}
    <3>1. imported'[d] = post /\ \A e \in DocumentIds \ {d} : imported'[e] = imported[e]
      BY <1>1, <1>9, <1>11
    <3> HIDE DEF post
    <3> QED
      BY <1>2, <1>9, <3>1 DEF PostsIn
  <2>3. ImportedSoFar' = ImportedSoFar \cup {post}
    <3>1. ThisPost' = ThisPost
      BY <1>5 DEF ThisPost
    <3> QED
      BY <1>1, <1>5, <1>6, <3>1 DEF ImportedSoFar
  <2>4. Committed' = Committed
    BY <1>1 DEF Committed
  <2> QED
    BY <2>1, <2>2, <2>3, <2>4 DEF PostsIn
<1>18. OnlyAdded'
  <2>1. OnlyAdded
    BY <1>2 DEF OpenInv
  <2> QED
    BY <1>3, <1>5, <1>11, <2>1 DEF OnlyAdded
<1>19. BusySound'
  <2>1. import.saved.status[d] = "absent"
    BY <1>2, <1>3 DEF OpenInv, OnlyAdded
  <2>2. Len(revisions'[d]) = 1
    BY <1>3, <1>10
  <2>3. imported'[d] = post
    BY <1>1, <1>9
  <2>4. ThisPost' = ThisPost
    BY <1>5 DEF ThisPost
  <2>5. publishedRevision'[d] = 0
    BY <1>3, <1>4 DEF ContentInv, PublicationInv, StatusMatchesPointer
  <2>6. {p \in Paths : routeOwner'[p] = d} = {}
    BY <1>3, <1>4, <1>6 DEF ContentInv, PublicationInv, RoutesResolve
  <2> QED
    BY <1>5, <2>1, <2>2, <2>3, <2>4, <2>5, <2>6 DEF BusySound
<1>20. NothingAgain'
  BY <1>1, <1>3, <1>5, CommittedKeysUsed DEF NothingAgain
<1> QED
  BY <1>1, <1>4, <1>7, <1>13, <1>14, <1>15, <1>16, <1>17, <1>18, <1>19, <1>20
     DEF StoreInv, OpenInv, BatchesComplete

\* What was saved had no row and no mark of the document that is imported.
LEMMA SavedNotBusy ==
  ASSUME StoreInv, import.phase = "open", import.document # 0
  PROVE  /\ import.document \in DocumentIds
         /\ \A e \in DocumentIds : import.saved.status[e] # "absent" => e # import.document
         /\ \A p \in import.saved.canonical :
              /\ p \in Paths /\ p \in canonical
              /\ routeOwner[p] # 0 /\ routeOwner[p] # import.document
<1> DEFINE d == import.document
<1>1. OpenInv /\ OpenShape /\ SavedSound /\ OnlyAdded /\ BusySound
  BY DEF StoreInv, OpenInv
<1>2. d \in DocumentIds /\ import.saved.status[d] = "absent"
  BY <1>1 DEF OpenShape, BusySound
<1>3. ASSUME NEW p \in import.saved.canonical
      PROVE  p \in Paths /\ p \in canonical /\ routeOwner[p] # 0 /\ routeOwner[p] # d
  <2>1. /\ import.saved.canonical \subseteq Paths
        /\ \A q \in import.saved.canonical : import.saved.routeOwner[q] # 0
        /\ \A q \in Paths : import.saved.routeOwner[q] # 0 =>
             import.saved.status[import.saved.routeOwner[q]] = "published"
    BY <1>1 DEF SavedSound, Saved!ContentInv, Saved!TypeOK, Saved!CanonicalHeld,
       Saved!PublicationInv, Saved!RoutesResolve, Saved!Paths, Saved!Placements, Paths, Placements
  <2>2. p \in Paths /\ routeOwner[p] = import.saved.routeOwner[p] /\ p \in canonical
    BY <1>1, <2>1 DEF OnlyAdded
  <2> QED
    BY <1>2, <2>1, <2>2
<1> QED
  BY <1>2, <1>3

\* The first revision is published.
LEMMA PublishKeeps ==
  ASSUME StoreInv, ImportPublish PROVE StoreInv'
<1> DEFINE d == import.document
           path == RevisionPath(d, 1)
<1>1. /\ Running /\ import.document # 0 /\ publishedRevision[d] = 0 /\ Publish(d, 1)
      /\ import' = import /\ imported' = imported /\ done' = done
  BY DEF ImportPublish, importVars
<1>2. OpenInv /\ OpenShape /\ import.phase = "open"
  BY <1>1, RunningPost
<1>3. /\ d \in DocumentIds
      /\ \A e \in DocumentIds : import.saved.status[e] # "absent" => e # d
      /\ \A p \in import.saved.canonical :
           p \in Paths /\ p \in canonical /\ routeOwner[p] # 0 /\ routeOwner[p] # d
  BY <1>1, <1>2, SavedNotBusy
<1>4. /\ 1 \in DOMAIN revisions[d] /\ routeOwner[path] \in {0, d}
      /\ routeOwner' = [routeOwner EXCEPT ![path] = d]
      /\ canonical' = {p \in canonical : routeOwner[p] # d} \cup {path}
      /\ status' = [status EXCEPT ![d] = "published"]
      /\ publishedRevision' = [publishedRevision EXCEPT ![d] = 1]
      /\ UNCHANGED <<currentSlug, revisions, categories>>
  BY <1>1 DEF Publish, categoryVars
<1>5. ContentInv /\ ContentInv'
  <2>1. Next
    BY <1>1, <1>3, BoundsAssumption DEF Next, DocumentStep, DocumentWrite
  <2> QED
    BY <2>1, ContentPreserved DEF StoreInv
<1>6. path \in Paths
  BY <1>3, <1>4, <1>5, RevisionTypes DEF ContentInv
<1>7. d # 0 /\ 0 \notin DocumentIds
  BY <1>1 DEF DocumentIds
<1>8. /\ DOMAIN status = DocumentIds /\ DOMAIN publishedRevision = DocumentIds
      /\ DOMAIN routeOwner = Paths
  BY <1>5 DEF ContentInv, TypeOK
<1>9. \A e \in DocumentIds \ {d} :
        status'[e] = status[e] /\ publishedRevision'[e] = publishedRevision[e]
  BY <1>3, <1>4, <1>8
<1>10. \A p \in Paths : p # path => routeOwner'[p] = routeOwner[p]
  BY <1>4, <1>8
<1>11. routeOwner'[path] = d
  BY <1>4, <1>6, <1>8
<1>12. Busy = d /\ Busy' = d
  BY <1>1, <1>2 DEF Busy
<1>13. ImportedSound(status, revisions, publishedRevision, routeOwner, imported, d)
  BY <1>12 DEF StoreInv
<1>14. ImportedSound(status', revisions', publishedRevision', routeOwner', imported, d)
  <2>1. ASSUME NEW e \in DocumentIds, imported[e] # NoPost
        PROVE  FirstRevisionOf(e, imported[e], status', revisions')
    <3>1. FirstRevisionOf(e, imported[e], status, revisions)
      BY <1>13, <2>1 DEF ImportedSound
    <3> QED
      BY <1>3, <1>4, <1>8, <3>1 DEF FirstRevisionOf
  <2>2. ASSUME NEW e \in DocumentIds \ {d}, imported[e] # NoPost
        PROVE  RoutesOf(e, imported[e], revisions', publishedRevision', routeOwner')
    <3>1. RoutesOf(e, imported[e], revisions, publishedRevision, routeOwner)
      BY <1>13, <2>2 DEF ImportedSound
    <3>2. \A p \in Paths : routeOwner'[p] = e <=> routeOwner[p] = e
      BY <1>4, <1>7, <1>10, <1>11
    <3>3. {p \in Paths : routeOwner'[p] = e} = {p \in Paths : routeOwner[p] = e}
      BY <3>2
    <3>4. imported[e].aliases \subseteq Paths
      BY <1>13, <2>2, PostTypes DEF ImportedSound
    <3> QED
      BY <1>4, <1>9, <3>1, <3>2, <3>3, <3>4 DEF RoutesOf
  <2> QED
    BY <1>13, <2>1, <2>2 DEF ImportedSound
<1>15. ImportedSound(status, revisions, publishedRevision, routeOwner, imported, Busy)'
  BY <1>1, <1>12, <1>14
<1>16. DeclaredExist(categories)'
  BY <1>1, <1>4 DEF StoreInv, DeclaredExist
<1>17. OpenShape'
  BY <1>1, <1>2, <1>4 DEF OpenShape
<1>18. SavedSound'
  BY <1>1, <1>2, SavedSoundKept DEF OpenInv
<1>19. (PostsIn(imported) = Committed \cup ImportedSoFar)'
  BY <1>1, <1>2 DEF OpenInv, PostsIn, Committed, ImportedSoFar, ThisPost
<1>20. OnlyAdded'
  <2>0. OnlyAdded
    BY <1>2 DEF OpenInv
  <2>1. ASSUME NEW e \in DocumentIds, import.saved.status[e] # "absent"
        PROVE  /\ status'[e] # "absent"
               /\ revisions'[e] = import.saved.revisions[e]
               /\ publishedRevision'[e] = import.saved.publishedRevision[e]
               /\ currentSlug'[e] = import.saved.currentSlug[e]
    BY <1>3, <1>4, <1>9, <2>0, <2>1 DEF OnlyAdded
  <2>2. ASSUME NEW p \in Paths, import.saved.routeOwner[p] # 0
        PROVE  routeOwner'[p] = import.saved.routeOwner[p]
    BY <1>4, <1>10, <1>11, <2>0, <2>2 DEF OnlyAdded
  <2>3. import.saved.canonical \subseteq canonical'
    BY <1>3, <1>4
  <2>4. \A c \in CategorySlugs : import.saved.categories[c] # "absent" =>
          categories'[c] = import.saved.categories[c]
    BY <1>4, <2>0 DEF OnlyAdded
  <2> QED
    BY <1>1, <2>1, <2>2, <2>3, <2>4 DEF OnlyAdded
<1>21. BusySound'
  <2>1. /\ import.saved.status[d] = "absent"
        /\ imported[d] = ImportedDocument(ThisPost, import.text)
        /\ Len(revisions[d]) = 1
        /\ {p \in Paths : routeOwner[p] = d} = {}
    BY <1>1, <1>2 DEF OpenInv, BusySound
  <2>2. FirstRevisionOf(d, imported[d], status, revisions)
    <3>1. imported[d] # NoPost
      BY <1>1, <2>1, RunningPost
    <3> QED
      BY <1>3, <1>13, <3>1 DEF ImportedSound
  <2>3. path = RoutePath(imported[d].category, imported[d].slug)
    BY <2>2 DEF RevisionPath, FirstRevisionOf
  <2>4. {p \in Paths : routeOwner'[p] = d} = {path}
    BY <1>6, <1>10, <1>11, <2>1
  <2>5. publishedRevision'[d] # 0
    BY <1>3, <1>4, <1>8
  <2>6. ThisPost' = ThisPost
    BY <1>1 DEF ThisPost
  <2> QED
    BY <1>1, <1>4, <2>1, <2>3, <2>4, <2>5, <2>6 DEF BusySound
<1>22. NothingAgain'
  BY <1>1, <1>2 DEF OpenInv, NothingAgain
<1> QED
  BY <1>1, <1>2, <1>5, <1>15, <1>16, <1>17, <1>18, <1>19, <1>20, <1>21, <1>22
     DEF StoreInv, OpenInv, BatchesComplete

\* The aliases of the post get their rows, and its import is complete.
LEMMA AliasesKeep ==
  ASSUME StoreInv, ImportAliases PROVE StoreInv'
<1> DEFINE d == import.document
           paths == ThisPost.aliases
<1>1. /\ Running /\ import.document # 0 /\ publishedRevision[d] # 0
      /\ \A p \in paths : AliasFree(d, p)
      /\ InsertAliases(d, paths)
      /\ import' = [import EXCEPT !.next = @ + 1, !.document = 0]
      /\ UNCHANGED <<documentVars, revisions, categoryVars, seriesItems, audits>>
      /\ imported' = imported /\ done' = done
  BY DEF ImportAliases
<1>2. /\ OpenInv /\ OpenShape /\ import.phase = "open"
      /\ import.next \in 1..Len(import.batch.posts) /\ Len(import.batch.posts) \in Nat
      /\ paths \subseteq Paths
      /\ ImportedDocument(ThisPost, import.text) # NoPost
  BY <1>1, RunningPost
<1>3. /\ d \in DocumentIds
      /\ \A e \in DocumentIds : import.saved.status[e] # "absent" => e # d
      /\ \A p \in import.saved.canonical :
           p \in Paths /\ p \in canonical /\ routeOwner[p] # 0 /\ routeOwner[p] # d
  BY <1>1, <1>2, SavedNotBusy
<1>4. ContentInv /\ ContentInv'
  BY <1>1, <1>2, <1>3, AliasesKept DEF StoreInv
<1>5. UNCHANGED <<status, currentSlug, publishedRevision, revisions, categories>>
  BY <1>1 DEF documentVars, categoryVars
<1>6. /\ routeOwner' = [p \in Paths |-> IF p \in paths THEN d ELSE routeOwner[p]]
      /\ canonical' = canonical \ paths
      /\ \A p \in paths : routeOwner[p] = 0
  BY <1>1 DEF InsertAliases, AliasFree
<1>7. d # 0 /\ 0 \notin DocumentIds
  BY <1>1 DEF DocumentIds
<1>8. import' = [phase |-> "open", batch |-> import.batch, dry |-> import.dry,
                 text |-> import.text, next |-> import.next + 1,
                 document |-> 0, saved |-> import.saved]
  BY <1>1, <1>2 DEF OpenShape
<1>9. Busy = d /\ Busy' = 0 /\ import'.phase = "open" /\ import'.document = 0
  BY <1>1, <1>2, <1>8 DEF Busy
<1>10. ImportedSound(status, revisions, publishedRevision, routeOwner, imported, d)
  BY <1>9 DEF StoreInv
<1>11. /\ imported[d] = ImportedDocument(ThisPost, import.text)
       /\ {p \in Paths : routeOwner[p] = d} =
            {RoutePath(imported[d].category, imported[d].slug)}
  BY <1>1, <1>2 DEF OpenInv, BusySound
<1>12. ImportedSound(status', revisions', publishedRevision', routeOwner', imported, 0)
  <2>1. RoutesOf(d, imported[d], revisions', publishedRevision', routeOwner')
    <3>1. imported[d].aliases = paths
      BY <1>11 DEF ImportedDocument
    <3>2. {p \in Paths : routeOwner'[p] = d} = {p \in Paths : routeOwner[p] = d} \cup paths
      BY <1>2, <1>6
    <3>3. {p \in Paths : routeOwner'[p] = d} = Claimed(imported[d])
      BY <1>11, <3>1, <3>2 DEF Claimed
    <3> QED
      BY <1>1, <1>2, <1>5, <1>6, <3>1, <3>3 DEF RoutesOf
  <2>2. ASSUME NEW e \in DocumentIds \ {d}, imported[e] # NoPost
        PROVE  RoutesOf(e, imported[e], revisions', publishedRevision', routeOwner')
    <3>1. RoutesOf(e, imported[e], revisions, publishedRevision, routeOwner)
      BY <1>10, <2>2 DEF ImportedSound
    <3>2. \A p \in Paths : routeOwner'[p] = e <=> routeOwner[p] = e
      BY <1>6, <1>7
    <3>3. {p \in Paths : routeOwner'[p] = e} = {p \in Paths : routeOwner[p] = e}
      BY <3>2
    <3>4. imported[e].aliases \subseteq Paths
      BY <1>10, <2>2, PostTypes DEF ImportedSound
    <3> QED
      BY <1>5, <3>1, <3>2, <3>3, <3>4 DEF RoutesOf
  <2>3. ASSUME NEW e \in DocumentIds, imported[e] # NoPost
        PROVE  FirstRevisionOf(e, imported[e], status', revisions')
    BY <1>5, <1>10, <2>3 DEF ImportedSound
  <2> QED
    BY <1>10, <2>1, <2>2, <2>3 DEF ImportedSound
<1>13. ImportedSound(status, revisions, publishedRevision, routeOwner, imported, Busy)'
  BY <1>1, <1>9, <1>12
<1>14. DeclaredExist(categories)'
  BY <1>1, <1>5 DEF StoreInv, DeclaredExist
<1>15. OpenShape'
  <2>1. import.next + 1 \in 1..(Len(import.batch.posts) + 1)
    BY <1>2
  <2> QED
    BY <1>2, <1>5, <1>8, <2>1 DEF OpenShape
<1>16. SavedSound'
  <2>1. import'.saved = import.saved
    BY <1>8
  <2> QED
    BY <1>1, <1>2, <2>1, SavedSoundKept DEF OpenInv
<1>17. (PostsIn(imported) = Committed \cup ImportedSoFar)'
  <2>1. ImportedSoFar' = ImportedSoFar
    <3>1. /\ ImportedSoFar' = {ImportedDocument(import.batch.posts[i], import.text) :
                                 i \in 1..((import.next + 1) - 1)}
          /\ ImportedSoFar = {ImportedDocument(import.batch.posts[i], import.text) :
                                i \in 1..(import.next - 1)}
                               \cup {ImportedDocument(ThisPost, import.text)}
      BY <1>1, <1>8 DEF ImportedSoFar
    <3>2. 1..((import.next + 1) - 1) = 1..(import.next - 1) \cup {import.next}
      BY <1>2
    <3> QED
      BY <3>1, <3>2 DEF ThisPost
  <2> QED
    BY <1>1, <1>2, <2>1 DEF OpenInv, PostsIn, Committed
<1>18. OnlyAdded'
  <2>0. OnlyAdded
    BY <1>2 DEF OpenInv
  <2>1. import'.saved = import.saved
    BY <1>8
  <2>2. import.saved.canonical \subseteq canonical'
    BY <1>3, <1>6
  <2>3. \A p \in Paths : import.saved.routeOwner[p] # 0 =>
          routeOwner'[p] = import.saved.routeOwner[p]
    BY <1>6, <2>0 DEF OnlyAdded
  <2> QED
    BY <1>5, <2>0, <2>1, <2>2, <2>3 DEF OnlyAdded
<1>19. BusySound'
  BY <1>9 DEF BusySound
<1>20. NothingAgain'
  BY <1>1, <1>2, <1>8 DEF OpenInv, NothingAgain
<1> QED
  BY <1>1, <1>4, <1>9, <1>13, <1>14, <1>15, <1>16, <1>17, <1>18, <1>19, <1>20
     DEF StoreInv, OpenInv, BatchesComplete

---------------------------------------------------------------------------
(* Imports are complete. *)

\* Before the first import.
LEMMA ImportStarts ==
  ASSUME ImportInit PROVE ImportInv
<1>1. /\ Init /\ import = Idle /\ done = {} /\ imported = [d \in DocumentIds |-> NoPost]
      /\ updatedAt = [d \in DocumentIds |-> Later]
  BY Zenon DEF ImportInit
<1>2. import.phase = "idle"
  BY <1>1 DEF Idle
<1>3. ContentInv
  BY <1>1, ContentStarts
<1>4. ImportedSound(status, revisions, publishedRevision, routeOwner, imported, Busy)
  BY <1>1 DEF ImportedSound
<1>5. BatchesComplete
  BY <1>1 DEF BatchesComplete
<1>6. ReadKnows
  BY <1>2 DEF ReadKnows
<1>7. TimesInv
  BY <1>1, <1>2 DEF TimesInv, AsImported
<1> QED
  BY <1>1, <1>2, <1>3, <1>4, <1>5, <1>6, <1>7 DEF ImportInv, StoreInv, DeclaredExist

\* Reading the files touches no table.
LEMMA ReadingIsQuiet ==
  ASSUME ReadKnows,
         \/ \E b \in Batches, dry \in BOOLEAN, file \in FileStates : Inspect(b, dry, file)
         \/ \E file \in FileStates : FileChanges(file)
         \/ OpenFile \/ CheckOpened \/ ReadFile \/ LoadBatch
  PROVE  /\ import.phase # "open" /\ import'.phase # "open" /\ import'.phase # "idle"
         /\ UNCHANGED <<vars, imported, updatedAt, written, done>>
<1>1. ASSUME NEW b \in Batches, NEW dry \in BOOLEAN, NEW file \in FileStates,
             Inspect(b, dry, file)
      PROVE  /\ import.phase # "open" /\ import'.phase # "open" /\ import'.phase # "idle"
             /\ UNCHANGED <<vars, imported, updatedAt, written, done>>
  BY <1>1 DEF Inspect, Idle
<1>2. ASSUME NEW file \in FileStates, FileChanges(file)
      PROVE  /\ import.phase # "open" /\ import'.phase # "open" /\ import'.phase # "idle"
             /\ UNCHANGED <<vars, imported, updatedAt, written, done>>
  <2>1. "phase" \in DOMAIN import
    BY <1>2 DEF FileChanges, ReadKnows
  <2>2. import'.phase = import.phase
    BY <1>2, <2>1 DEF FileChanges
  <2> QED
    BY <1>2, <2>2 DEF FileChanges
<1>3. CASE OpenFile
  BY <1>3 DEF OpenFile
<1>4. CASE CheckOpened
  <2>1. "phase" \in DOMAIN import
    BY <1>4 DEF CheckOpened, ReadKnows
  <2> QED
    BY <1>4, <2>1 DEF CheckOpened
<1>5. CASE ReadFile
  BY <1>5 DEF ReadFile
<1>6. CASE LoadBatch
  BY <1>6 DEF LoadBatch
<1> QED
  BY <1>1, <1>2, <1>3, <1>4, <1>5, <1>6

\* A write of a document leaves the revisions of the others alone.
LEMMA WriteIsOfOne ==
  ASSUME ContentInv, NEW d \in DocumentIds, DocumentWrite(d), NEW e \in DocumentIds \ {d}
  PROVE  revisions'[e] = revisions[e]
<1>1. revisions = [x \in DocumentIds |-> revisions[x]]
  BY DEF ContentInv, TypeOK
<1>2. ASSUME NEW slug, NEW category, NEW key, CreateDocument(d, slug, category, key)
      PROVE  revisions'[e] = revisions[e]
  BY <1>1, <1>2 DEF CreateDocument
<1>3. ASSUME NEW base, NEW slug, NEW category, NEW key, NEW ai,
             AppendRevision(d, base, slug, category, key, ai)
      PROVE  revisions'[e] = revisions[e]
  BY <1>1, <1>3 DEF AppendRevision
<1>4. ASSUME NEW r, NEW category, AssignRevisionCategory(d, r, category)
      PROVE  revisions'[e] = revisions[e]
  BY <1>1, <1>4 DEF AssignRevisionCategory
<1>5. ASSUME NEW r, Publish(d, r) PROVE revisions'[e] = revisions[e]
  BY <1>5 DEF Publish
<1> QED
  BY <1>2, <1>3, <1>4, <1>5 DEF DocumentWrite, ReviseDocument, ReviseAndMove, AppendAiProposal

\* The server's writes mark the document they are of; others keep time and revision.
LEMMA ServerStepTimes ==
  ASSUME StoreInv, TimesInv, ServerStep PROVE TimesInv'
<1>1. import.phase # "open" /\ import' = import /\ imported' = imported
  BY DEF ServerStep
<1>2. AsImported(revisions, imported, updatedAt) /\ ContentInv
  BY DEF TimesInv, StoreInv
<1>3. ASSUME NEW d \in DocumentIds, DocumentWrite(d),
             updatedAt' = [updatedAt EXCEPT ![d] = Later],
             written' = {e \in written \cup {d} : imported[e] # NoPost}
      PROVE  AsImported(revisions, imported, updatedAt)'
  <2>1. updatedAt = [e \in DocumentIds |-> updatedAt[e]]
    BY <1>2 DEF AsImported
  <2>2. updatedAt' = [e \in DocumentIds |-> updatedAt'[e]]
    BY <1>3, <2>1
  <2>3. ASSUME NEW e \in DocumentIds, imported'[e] # NoPost, e \notin written'
        PROVE  Len(revisions'[e]) = 1 /\ updatedAt'[e] = imported'[e].at
    <3>1. e # d /\ e \notin written /\ imported[e] # NoPost
      BY <1>1, <1>3, <2>3
    <3>2. Len(revisions[e]) = 1 /\ updatedAt[e] = imported[e].at
      BY <1>2, <3>1 DEF AsImported
    <3>3. revisions'[e] = revisions[e]
      BY <1>2, <1>3, <3>1, WriteIsOfOne
    <3>4. updatedAt'[e] = updatedAt[e]
      BY <1>3, <2>1, <3>1
    <3> QED
      BY <1>1, <3>2, <3>3, <3>4
  <2> QED
    BY <2>2, <2>3 DEF AsImported
<1>4. ASSUME CategoryStep, UNCHANGED <<updatedAt, written>>
      PROVE  AsImported(revisions, imported, updatedAt)'
  <2>1. revisions' = revisions
    BY <1>4 DEF CategoryStep, CreateCategory, ArchiveCategory, CreateSeries, PromoteCategory,
                ReplaceSeriesOrder
  <2> QED
    BY <1>1, <1>2, <1>4, <2>1 DEF AsImported
<1>5. AsImported(revisions, imported, updatedAt)'
  BY <1>3, <1>4 DEF ServerStep
<1> QED
  BY <1>1, <1>5 DEF TimesInv

\* A new document has one revision and the time of its post.
LEMMA DocumentTimes ==
  ASSUME StoreInv, TimesInv, NEW d \in DocumentIds, ImportDocument(d) PROVE TimesInv'
<1>1. /\ import.phase = "open" /\ OpenShape
      /\ imported \in [DocumentIds -> ImportedPosts \cup {NoPost}]
      /\ revisions = [x \in DocumentIds |-> revisions[x]]
      /\ updatedAt = [x \in DocumentIds |-> updatedAt[x]]
  BY DEF ImportDocument, Running, StoreInv, OpenInv, ImportedSound, ContentInv, TypeOK,
         TimesInv, AsImported
<1>2. /\ written' = written
      /\ imported' = [imported EXCEPT ![d] = ImportedDocument(ThisPost, import.text)]
      /\ updatedAt' = [updatedAt EXCEPT ![d] = ThisPost.at]
      /\ import' = [import EXCEPT !.document = d]
      /\ \E key, slug, category, parent, ai : revisions' = [revisions EXCEPT ![d] =
           <<[slug |-> slug, category |-> category, parent |-> parent, key |-> key, ai |-> ai]>>]
  BY DEF ImportDocument, CreateDocument
<1>3. import'.saved = import.saved
  BY <1>1, <1>2 DEF OpenShape
<1>4. ImportedDocument(ThisPost, import.text).at = ThisPost.at
  BY DEF ImportedDocument
<1>5. Len(revisions'[d]) = 1 /\ imported'[d].at = ThisPost.at /\ updatedAt'[d] = ThisPost.at
  BY <1>1, <1>2, <1>4
<1>6. \A e \in DocumentIds \ {d} :
        revisions'[e] = revisions[e] /\ imported'[e] = imported[e] /\ updatedAt'[e] = updatedAt[e]
  BY <1>1, <1>2
<1>7. updatedAt' = [x \in DocumentIds |-> updatedAt'[x]]
  BY <1>1, <1>2
<1>8. AsImported(revisions, imported, updatedAt)'
  BY <1>2, <1>5, <1>6, <1>7 DEF TimesInv, AsImported
<1>9. AsImported(import.saved.revisions, import.saved.imported, import.saved.updatedAt)'
  BY <1>1, <1>2, <1>3 DEF TimesInv, AsImported
<1> QED
  BY <1>8, <1>9 DEF TimesInv

\* It is published at that time.
LEMMA PublishTimes ==
  ASSUME StoreInv, TimesInv, ImportPublish PROVE TimesInv'
<1>1. import.phase = "open" /\ import.document # 0 /\ OpenInv
  BY DEF ImportPublish, Running, StoreInv
<1>2. import.document \in DocumentIds
  BY <1>1 DEF OpenInv, OpenShape
<1>3. imported[import.document] = ImportedDocument(ThisPost, import.text)
  BY <1>1 DEF OpenInv, BusySound
<1>4. imported[import.document].at = ThisPost.at
  BY <1>3 DEF ImportedDocument
<1>5. /\ updatedAt' = [updatedAt EXCEPT ![import.document] = ThisPost.at]
      /\ UNCHANGED <<import, imported, written>>
  BY DEF ImportPublish
<1>6. revisions' = revisions
  BY DEF ImportPublish, Publish
<1>7. updatedAt = [x \in DocumentIds |-> updatedAt[x]]
  BY DEF TimesInv, AsImported
<1>8. updatedAt' = [x \in DocumentIds |-> updatedAt'[x]]
  BY <1>5, <1>7
<1>9. ASSUME NEW e \in DocumentIds
      PROVE  updatedAt'[e] = IF e = import.document THEN imported[e].at ELSE updatedAt[e]
  BY <1>2, <1>4, <1>5, <1>7
<1>10. AsImported(revisions, imported, updatedAt)'
  BY <1>5, <1>6, <1>8, <1>9 DEF TimesInv, AsImported
<1> QED
  BY <1>5, <1>10 DEF TimesInv, AsImported

\* Every step keeps times and revisions of what nobody has written since.
LEMMA TimesKept ==
  ASSUME ImportInv, [ImportNext]_allVars PROVE TimesInv'
<1>1. ReadKnows /\ StoreInv /\ TimesInv
  BY DEF ImportInv
<1>2. ASSUME UNCHANGED <<revisions, imported, updatedAt, written>>,
             import'.phase = "open" => import.phase = "open" /\ import'.saved = import.saved
      PROVE  TimesInv'
  BY <1>1, <1>2 DEF TimesInv, AsImported
<1>3. CASE \/ \E b \in Batches, dry \in BOOLEAN, file \in FileStates : Inspect(b, dry, file)
           \/ \E file \in FileStates : FileChanges(file)
           \/ OpenFile \/ CheckOpened \/ ReadFile \/ LoadBatch
  BY <1>1, <1>2, <1>3, ReadingIsQuiet DEF vars
<1>4. CASE BeginImport
  <2>1. /\ import'.saved = Tables
        /\ UNCHANGED <<revisions, imported, updatedAt, written>>
    BY <1>4 DEF BeginImport
  <2>2. /\ Tables.revisions = revisions /\ Tables.imported = imported
        /\ Tables.updatedAt = updatedAt
    BY DEF Tables
  <2> QED
    BY <1>1, <2>1, <2>2 DEF TimesInv, AsImported
<1>5. CASE SkipUnchanged \/ ImportAliases
  <2>1. import.phase = "open" /\ OpenShape
    BY <1>1, <1>5 DEF SkipUnchanged, ImportAliases, Running, StoreInv, OpenInv
  <2>2. import'.saved = import.saved
    BY <1>5, <2>1 DEF SkipUnchanged, ImportAliases, OpenShape
  <2>3. UNCHANGED <<revisions, imported, updatedAt, written>>
    BY <1>5 DEF SkipUnchanged, ImportAliases, vars
  <2> QED
    BY <1>2, <2>1, <2>2, <2>3
<1>6. CASE EndImport \/ Abandon
  <2>1. import' = Idle /\ import'.phase = "idle" /\ written' = written
    BY <1>6 DEF EndImport, Abandon, Idle
  <2>2. CASE import.phase = "open" /\ Restore(import.saved)
    BY <1>1, <2>1, <2>2 DEF TimesInv, AsImported, Restore
  <2>3. CASE UNCHANGED <<vars, imported, updatedAt, ownerDisplayName>>
    BY <1>2, <2>1, <2>3 DEF vars
  <2> QED
    BY <1>6, <2>2, <2>3 DEF EndImport, Abandon
<1>7. CASE UNCHANGED allVars
  BY <1>2, <1>7 DEF allVars, importVars, vars
<1>8. ASSUME NEW d \in DocumentIds, ImportDocument(d) PROVE TimesInv'
  BY <1>1, <1>8, DocumentTimes
<1> QED
  BY <1>1, <1>3, <1>4, <1>5, <1>6, <1>7, <1>8, ServerStepTimes, PublishTimes DEF ImportNext

\* Every step keeps the invariant.
LEMMA ImportInvKept ==
  ASSUME ImportInv, [ImportNext]_allVars PROVE ImportInv'
<1>1. ReadKnows /\ StoreInv /\ ReadKnows' /\ TimesInv'
  BY ReadKnowsKept, TimesKept DEF ImportInv
<1>2. CASE ServerStep
  BY <1>1, <1>2, ServerStepKeeps DEF ImportInv
<1>3. CASE \/ \E b \in Batches, dry \in BOOLEAN, file \in FileStates : Inspect(b, dry, file)
           \/ \E file \in FileStates : FileChanges(file)
           \/ OpenFile \/ CheckOpened \/ ReadFile \/ LoadBatch
  BY <1>1, <1>3, ReadingIsQuiet, QuietStep DEF ImportInv
<1>4. CASE BeginImport
  BY <1>1, <1>4, BeginKeeps DEF ImportInv
<1>5. CASE SkipUnchanged
  BY <1>1, <1>5, SkipKeeps DEF ImportInv
<1>6. ASSUME NEW d \in DocumentIds, ImportDocument(d) PROVE ImportInv'
  BY <1>1, <1>6, DocumentKeeps DEF ImportInv
<1>7. CASE ImportPublish
  BY <1>1, <1>7, PublishKeeps DEF ImportInv
<1>8. CASE ImportAliases
  BY <1>1, <1>8, AliasesKeep DEF ImportInv
<1>9. CASE EndImport
  <2>1. CASE import.dry
    BY <1>1, <1>9, <2>1, RollbackKeeps DEF ImportInv, EndImport
  <2>2. CASE ~import.dry
    BY <1>1, <1>9, <2>2, CommitKeeps DEF ImportInv, EndImport
  <2> QED
    BY <2>1, <2>2
<1>10. CASE Abandon
  <2>1. CASE import.phase = "open"
    BY <1>1, <1>10, <2>1, RollbackKeeps DEF ImportInv, Abandon
  <2>2. CASE import.phase # "open"
    <3>1. import'.phase # "open"
      BY <1>10 DEF Abandon, Idle
    <3> QED
      BY <1>1, <1>10, <2>2, <3>1, QuietStep DEF ImportInv, Abandon
  <2> QED
    BY <2>1, <2>2
<1>11. CASE UNCHANGED allVars
  <2>1. UNCHANGED <<vars, import, imported, updatedAt, ownerDisplayName, done>>
    BY <1>11 DEF allVars, importVars
  <2>2. CASE import.phase # "open"
    BY <1>1, <2>1, <2>2, QuietStep DEF ImportInv
  <2>3. CASE import.phase = "open"
    <3>1. OpenInv
      BY <1>1, <2>3 DEF StoreInv
    <3>2. SavedSound'
      BY <2>1, <3>1, SavedSoundKept DEF OpenInv
    <3>3. OpenInv'
      <4>1. OpenShape'
        BY <2>1, <3>1 DEF OpenInv, OpenShape, vars
      <4>2. (PostsIn(imported) = Committed \cup ImportedSoFar)'
        <5>1. import' = import /\ imported' = imported /\ done' = done
          BY <2>1
        <5>2. /\ PostsIn(imported)' = PostsIn(imported) /\ Committed' = Committed
              /\ ImportedSoFar' = ImportedSoFar
          BY <5>1 DEF PostsIn, Committed, ImportedSoFar, ThisPost
        <5> QED
          BY <3>1, <5>2 DEF OpenInv
      <4>3. OnlyAdded'
        BY <2>1, <3>1 DEF OpenInv, OnlyAdded, vars
      <4>4. BusySound'
        BY <2>1, <3>1 DEF OpenInv, BusySound, ThisPost, vars
      <4>5. NothingAgain'
        BY <2>1, <3>1 DEF OpenInv, NothingAgain, Tables, vars
      <4> QED
        BY <3>2, <4>1, <4>2, <4>3, <4>4, <4>5 DEF OpenInv
    <3>4. ContentInv'
      BY <1>1, <2>1, ContentPreserved DEF StoreInv
    <3>5. ImportedSound(status, revisions, publishedRevision, routeOwner, imported, Busy)'
      BY <1>1, <2>1 DEF StoreInv, Busy, vars
    <3>6. DeclaredExist(categories)'
      BY <1>1, <2>1 DEF StoreInv, DeclaredExist, vars
    <3> QED
      BY <1>1, <2>1, <2>3, <3>3, <3>4, <3>5, <3>6 DEF ImportInv, StoreInv, BatchesComplete
  <2> QED
    BY <2>2, <2>3
<1> QED
  BY <1>2, <1>3, <1>4, <1>5, <1>6, <1>7, <1>8, <1>9, <1>10, <1>11 DEF ImportNext

\* A document as it was imported is what the same manifest asks for.
LEMMA RetriesStayMatched ==
  ASSUME ImportInv PROVE RetriesMatch
<1> SUFFICES ASSUME import.phase # "open", NEW d \in DocumentIds, imported[d] # NoPost,
                    d \notin written
             PROVE  RetryMatches(imported[d], imported[d].text, d, 1)
  BY DEF RetriesMatch
<1>0. Len(revisions[d]) = 1 /\ updatedAt[d] = imported[d].at
  BY DEF ImportInv, TimesInv, AsImported
<1> DEFINE post == imported[d]
<1>1. d # 0 /\ Busy = 0
  BY DEF DocumentIds, Busy
<1>2. /\ post \in ImportedPosts
      /\ FirstRevisionOf(d, post, status, revisions)
      /\ RoutesOf(d, post, revisions, publishedRevision, routeOwner)
  BY <1>1 DEF ImportInv, StoreInv, ImportedSound
<1>3. ContentInv
  BY DEF ImportInv, StoreInv
<1>4. publishedRevision[d] = 1 /\ currentRevision[d] = 1
  <2>1. publishedRevision[d] # 0 /\ status[d] # "absent"
    BY <1>2 DEF RoutesOf, FirstRevisionOf
  <2>2. publishedRevision[d] \in 0..1 /\ currentRevision[d] = 1
    BY <1>0, <1>3, <2>1, FirstRevision
  <2> QED
    BY <2>1, <2>2
<1>5. status[d] = "published"
  BY <1>3, <1>4 DEF ContentInv, PublicationInv, StatusMatchesPointer
<1>6. {p \in Paths : routeOwner[p] = d} = Claimed(post)
  BY <1>0, <1>2 DEF RoutesOf
<1>7. {p \in canonical : routeOwner[p] = d} = {RoutePath(post.category, post.slug)}
  <2>1. {p \in Paths : routeOwner[p] = d /\ p \in canonical} = {RevisionPath(d, 1)}
    BY <1>3, <1>4 DEF ContentInv, PublicationInv, CanonicalRouteIsPublished
  <2>2. canonical \subseteq Paths
    BY <1>3 DEF ContentInv, TypeOK
  <2>3. RevisionPath(d, 1) = RoutePath(post.category, post.slug)
    BY <1>2 DEF RevisionPath, FirstRevisionOf
  <2> QED
    BY <2>1, <2>2, <2>3
<1>8. post = ImportedDocument(post, post.text)
  BY <1>2, PostTypes
<1> QED
  BY <1>0, <1>2, <1>4, <1>5, <1>6, <1>7, <1>8 DEF RetryMatches, FirstRevisionOf

\* What the end of a transaction may do.
OnlyAdds ==
  import.phase = "open" /\ import' = Idle =>
    LET before == import.saved IN
    /\ \A d \in DocumentIds : before.status[d] # "absent" =>
         /\ revisions'[d] = before.revisions[d]
         /\ publishedRevision'[d] = before.publishedRevision[d]
         /\ currentSlug'[d] = before.currentSlug[d]
    /\ \A path \in Paths : before.routeOwner[path] # 0 =>
         routeOwner'[path] = before.routeOwner[path]
    /\ before.canonical \subseteq canonical'
    /\ \A c \in CategorySlugs : before.categories[c] # "absent" =>
         categories'[c] = before.categories[c]
    /\ done' = done =>
         \/ Tables' = before
         \/ /\ ~import.dry
            /\ Tables' = [before EXCEPT !.ownerDisplayName = import.batch.owner]

\* A transaction ends in a commit or a rollback.
LEMMA EndsOnlyAdd ==
  ASSUME ImportInv, [ImportNext]_allVars PROVE OnlyAdds
<1> SUFFICES ASSUME import.phase = "open", import' = Idle PROVE OnlyAdds
  BY DEF OnlyAdds
<1>1. OpenInv /\ OpenShape /\ SavedSound /\ OnlyAdded
  BY DEF ImportInv, StoreInv, OpenInv
<1>2. import'.phase = "idle" /\ import # Idle
  BY DEF Idle
<1>3. CASE Restore(import.saved)
  <2>1. Tables' = import.saved
    BY <1>1, <1>3 DEF Tables, Restore, SavedSound, SavedShape
  <2> QED
    BY <1>3, <2>1 DEF OnlyAdds, Restore
<1>4. CASE EndImport /\ ~import.dry
  <2>1. UNCHANGED <<vars, imported, updatedAt, ownerDisplayName>>
    BY <1>4 DEF EndImport
  <2>2. ASSUME done' = done
        PROVE  Tables' = [import.saved EXCEPT !.ownerDisplayName = import.batch.owner]
    <3>1. [batch |-> import.batch, text |-> import.text] \in done
      BY <1>4, <2>2 DEF EndImport
    <3>2. Tables' = Tables
      BY <2>1 DEF Tables, vars
    <3> QED
      BY <1>1, <3>1, <3>2 DEF OpenInv, NothingAgain
  <2> QED
    BY <1>1, <1>4, <2>1, <2>2 DEF OnlyAdds, OnlyAdded, vars
<1>5. ~(\/ \E b \in Batches, dry \in BOOLEAN, file \in FileStates : Inspect(b, dry, file)
        \/ \E file \in FileStates : FileChanges(file)
        \/ OpenFile \/ CheckOpened \/ ReadFile \/ LoadBatch)
  BY ReadingIsQuiet DEF ImportInv
<1>6. ~ServerStep /\ ~BeginImport
  BY DEF ServerStep, BeginImport
<1>7. ~SkipUnchanged /\ ~ImportAliases /\ \A d \in DocumentIds : ~ImportDocument(d)
  BY <1>1, <1>2 DEF OpenShape, SkipUnchanged, ImportAliases, ImportDocument
<1>8. ~ImportPublish /\ ~UNCHANGED allVars
  BY <1>2 DEF ImportPublish, allVars, importVars
<1>9. EndImport \/ Abandon
  BY <1>5, <1>6, <1>7, <1>8 DEF ImportNext
<1> QED
  BY <1>3, <1>4, <1>9 DEF EndImport, Abandon

\* A path of the root table that a route of a categorised post holds, off the
\* references page, leads to the post.
LEMMA FoundAtRootUrl ==
  ASSUME SiteInv, NEW w, NEW path \in Paths, NEW d \in PublishedDocuments,
         GetPublishedBySlug(path) = d, Categorised(d),
         path # RoutePath(Root, ReferencesSlug)
  PROVE  LeadsTo(w, Url("root", TRUE, path)) = {d}
<1> DEFINE url == Url("root", TRUE, path)
<1>1. url.path = path /\ url.form = "root"
  BY DEF Url
<1> HIDE DEF url
<1>2. Respond(w, url, TRUE) = SpaIndexFallback(w, path, TRUE)
  BY <1>1, RouteTable
<1>3. Leads(w, SpaIndexFallback(w, path, TRUE), d)
  <2>1. CASE path.category # Root
    <3>1. PrimaryCategoryPublicPath(w, path)
      BY <2>1, CategoryPathPublic
    <3>2. Leads(w, PrimaryCategoryPost(w, path, TRUE), d)
      BY <1>1, <2>1, FoundInCategory
    <3>3. PrimaryCategoryPost(w, path, TRUE) # Nothing
      BY <3>2, Kinds DEF Leads
    <3> QED
      BY <3>1, <3>2, <3>3, FallbackGivesPost
  <2>2. CASE path.category = Root
    <3> DEFINE target == Redirect(CategoryUrl(w, PublishedPath(d)))
    <3>1. PrimaryLegacyAlias(w, path) = target
      BY <2>2 DEF PrimaryLegacyAlias, Categorised
    <3>2. Nothing = IF PrimaryCategoryPublicPath(w, path)
                    THEN PrimaryCategoryPost(w, path, TRUE) ELSE Nothing
      BY <2>2 DEF PrimaryCategoryPost
    <3>3. Nothing = IF PrimaryCategoryPublicPath(w, path) /\ TRUE
                    THEN PrimaryCategoryLanding(w, path) ELSE Nothing
      <4> SUFFICES ASSUME PrimaryCategoryPublicPath(w, path)
                   PROVE  PrimaryCategoryLanding(w, path) = Nothing
        OBVIOUS
      <4>1. Fold[path.slug] = path.slug
        BY <2>2 DEF PrimaryCategoryPublicPath
      <4>2. path = RoutePath(Root, path.slug)
        BY <2>2 DEF Paths, RoutePath
      <4>3. d # 0
        BY PublishedRoute
      <4>4. CategoriesBySlug(path.slug) = {}
        BY <4>1, <4>2, <4>3, LandingFound DEF CategoriesBySlug
      <4> QED
        BY <4>4 DEF PrimaryCategoryLanding
    <3>4. target # Nothing
      BY Kinds
    <3>5. Respond(w, CategoryUrl(w, PublishedPath(d)), TRUE) = Page(d)
      BY CategoryPageServed
    <3>6. Leads(w, target, d)
      BY <3>5 DEF Leads
    <3> HIDE DEF target
    <3>7. SpaIndexFallback(w, path, TRUE) = target
      BY <3>1, <3>2, <3>3, <3>4, FallbackAnswers
    <3> QED
      BY <3>6, <3>7
  <2> QED
    BY <2>1, <2>2
<1>4. Leads(w, Respond(w, url, TRUE), d)
  BY <1>2, <1>3
<1>5. LeadsTo(w, url) = {d}
  BY <1>4, LeadsToPage
<1> QED
  BY <1>5 DEF url

\* A legacy path is a row of its post, off every path the application keeps.
LEMMA LegacyPathsStayLed ==
  ASSUME ImportInv PROVE LegacyPathsLead
<1> SUFFICES ASSUME import.phase # "open", NEW w \in Settings, NEW d \in DocumentIds,
                    imported[d] # NoPost, Categorised(d), NEW path \in imported[d].aliases
             PROVE  LeadsTo(w, Url("root", TRUE, path)) = {d}
  BY DEF LegacyPathsLead
<1>1. d # 0 /\ Busy = 0
  BY DEF DocumentIds, Busy
<1>2. /\ imported[d] \in ImportedPosts
      /\ RoutesOf(d, imported[d], revisions, publishedRevision, routeOwner)
  BY <1>1 DEF ImportInv, StoreInv, ImportedSound
<1>3. path \in Paths /\ ValidAlias(path)
  BY <1>2, PostTypes
<1>4. routeOwner[path] = d /\ d \in PublishedDocuments
  BY <1>2 DEF RoutesOf, PublishedDocuments
<1>5. GetPublishedBySlug(path) = d
  BY <1>4 DEF GetPublishedBySlug
<1>6. path # RoutePath(Root, ReferencesSlug)
  <2>1. FirstSegment(RoutePath(Root, ReferencesSlug)) = ReferencesSlug
    BY DEF FirstSegment, RoutePath
  <2> QED
    BY <1>3, <2>1, BatchesAssumption DEF ValidAlias
<1>7. SiteInv
  BY DEF ImportInv, StoreInv, ContentInv, SiteInv, AddressClaimsDisjoint
<1> QED
  BY <1>3, <1>4, <1>5, <1>6, <1>7, FoundAtRootUrl

\* The invariant holds in every state.
LEMMA ImportInvariant == ImportSpec => []ImportInv
<1>1. ImportInit => ImportInv
  BY ImportStarts
<1>2. ImportInv /\ [ImportNext]_allVars => ImportInv'
  BY ImportInvKept
<1> QED
  BY <1>1, <1>2, PTL DEF ImportSpec

\* What the server's own writes keep, imports keep too, after each of their steps
\* and after a commit or a rollback: no address is claimed twice, what is public
\* agrees, series are whole, keys mark one revision, and readers are served the
\* same site at every address (import_offline_batch_with_reserved_roots against
\* the transactions of the repository).
THEOREM ContentSurvivesImports ==
  ImportSpec => [](/\ AddressClaimsDisjoint /\ PublicationConsistent
                   /\ SeriesComplete /\ ProposalsAudited
                   /\ AddressesServed /\ ViewsAgree)
<1>1. ASSUME ImportInv PROVE SiteInv /\ ContentInv
  BY <1>1 DEF ImportInv, StoreInv, ContentInv, SiteInv, AddressClaimsDisjoint
<1>2. ImportInv => /\ AddressClaimsDisjoint /\ PublicationConsistent
                   /\ SeriesComplete /\ ProposalsAudited
  BY <1>1 DEF ContentInv, PublicationInv, PublicationConsistent, SeriesInv, AuditInv
<1>3. ImportInv => AddressesServed /\ ViewsAgree
  BY <1>1, <1>2, AddressesServedBySite, ViewsAgreeBySite
<1> QED
  BY <1>2, <1>3, ImportInvariant, PTL

\* A batch is imported as a whole or not at all, running it again matches what
\* it left, its legacy paths lead to its posts and it changes nothing there was.
THEOREM ImportsStayComplete == ImportSpec => ImportsComplete
<1>1. ImportInv => BatchesComplete /\ RetriesMatch /\ LegacyPathsLead
  BY RetriesStayMatched, LegacyPathsStayLed DEF ImportInv, StoreInv
<1>2. ImportInv /\ [ImportNext]_allVars => [OnlyAdds]_allVars
  BY EndsOnlyAdd
<1>3. ImportSpec => [](BatchesComplete /\ RetriesMatch /\ LegacyPathsLead)
  BY <1>1, ImportInvariant, PTL
<1>4. ImportSpec => [][OnlyAdds]_allVars
  BY <1>2, ImportInvariant, PTL DEF ImportSpec
<1>5. ImportOnlyAdds <=> [][OnlyAdds]_allVars
  BY PTL DEF ImportOnlyAdds, OnlyAdds
<1> QED
  BY <1>3, <1>4, <1>5 DEF ImportsComplete
=============================================================================
