------------------------------ MODULE Content ------------------------------
(***************************************************************************)
(* The content core of storage-sqlite for one site: documents, their       *)
(* append-only revisions and the category placement of each revision, the  *)
(* table of public routes, categories and series.                          *)
(*                                                                         *)
(* Every operation of the repository runs in one SQLite write transaction, *)
(* so each is one action; a request the code refuses rolls back and is a   *)
(* step that does not happen.  The acting user is one the membership check *)
(* (ensure_site_owner, ensure_site_writer) has let through.                *)
(*                                                                         *)
(* A path is a pair (category or Root, leaf slug): leaf slugs hold no '/', *)
(* so the string "category/slug" of the code determines the pair.  A       *)
(* category is named by its slug, which is unique in the site and which a  *)
(* trigger makes immutable.  Documents are numbered in creation order,     *)
(* which is also the order of their (version 7) UUIDs.                     *)
(***************************************************************************)
EXTENDS Integers, FiniteSets, Sequences

CONSTANTS
  MaxDocuments,    \* bound: documents created
  MaxRevisions,    \* bound: revisions of a document
  Slugs,           \* leaf slugs authors choose; the case of letters counts
  CategorySlugs,   \* slugs of categories: lower case and not reserved
  Root,            \* the placement of a revision without a category
  Fold,            \* the NOCASE collation: a slug's lower-case form
  Keys,            \* idempotency keys clients send
  Messages,        \* message ids of AI proposal envelopes
  NoKey,           \* a revision without idempotency key
  NoPath,          \* the current_slug of a document that does not exist yet
  MaxSeries,       \* 500 in the code
  MaxSeriesItems   \* 500 in the code

DocumentIds == 1..MaxDocuments
Placements == CategorySlugs \cup {Root}
Paths == [category : Placements, slug : Slugs]

ASSUME BoundsAssumption ==
  /\ MaxDocuments \in Nat
  /\ MaxRevisions \in Nat \ {0}
  /\ MaxSeries \in Nat
  /\ MaxSeriesItems \in Nat

ASSUME SlugAssumption ==
  /\ CategorySlugs \subseteq Slugs
  /\ Root \notin CategorySlugs
  /\ Fold \in [Slugs -> Slugs]
  /\ \A c \in CategorySlugs : Fold[c] = c
  /\ NoKey \notin Keys
  /\ NoPath \notin Paths

VARIABLES
  status,             \* documents.status, or "absent"
  currentRevision,    \* documents.current_revision_id, as a revision number
  publishedRevision,  \* documents.published_revision_id, 0 for NULL
  currentSlug,        \* documents.current_slug, the path of the draft
  revisions,          \* per document, its revisions and their placement
  routeOwner,         \* routes.document_id per path, 0 when there is no row
  canonical,          \* paths whose route has is_canonical = 1
  categories,         \* categories.status per slug, or "absent"
  series,             \* categories that back a series
  seriesItems,        \* series_items.position / 1024, 0 when there is no row
  audits              \* ai_proposal_audits

vars == <<status, currentRevision, publishedRevision, currentSlug, revisions,
          routeOwner, canonical, categories, series, seriesItems, audits>>

documentVars == <<status, currentRevision, publishedRevision, currentSlug>>
routeVars == <<routeOwner, canonical>>
categoryVars == <<categories, series>>

Revision == [slug : Slugs, category : Placements, parent : Nat,
             key : Keys \cup {NoKey}, ai : BOOLEAN]
Audit == [document : DocumentIds, revision : Nat, message : Messages, key : Keys]

TypeOK ==
  /\ status \in [DocumentIds -> {"absent", "draft", "published"}]
  /\ currentRevision \in [DocumentIds -> Nat]
  /\ publishedRevision \in [DocumentIds -> Nat]
  /\ currentSlug \in [DocumentIds -> Paths \cup {NoPath}]
  /\ revisions \in [DocumentIds -> Seq(Revision)]
  /\ routeOwner \in [Paths -> DocumentIds \cup {0}]
  /\ canonical \in SUBSET Paths
  /\ categories \in [CategorySlugs -> {"absent", "active", "archived"}]
  /\ series \in SUBSET CategorySlugs
  /\ seriesItems \in [CategorySlugs -> [DocumentIds -> Nat]]
  /\ audits \in SUBSET Audit

Init ==
  /\ status = [d \in DocumentIds |-> "absent"]
  /\ currentRevision = [d \in DocumentIds |-> 0]
  /\ publishedRevision = [d \in DocumentIds |-> 0]
  /\ currentSlug = [d \in DocumentIds |-> NoPath]
  /\ revisions = [d \in DocumentIds |-> <<>>]
  /\ routeOwner = [p \in Paths |-> 0]
  /\ canonical = {}
  /\ categories = [c \in CategorySlugs |-> "absent"]
  /\ series = {}
  /\ seriesItems = [c \in CategorySlugs |-> [d \in DocumentIds |-> 0]]
  /\ audits = {}

---------------------------------------------------------------------------
(* Helpers of the transactions. *)

\* category_route_path
RoutePath(category, slug) == [category |-> category, slug |-> slug]

\* The path of revision r of document d.
RevisionPath(d, r) == RoutePath(revisions[d][r].category, revisions[d][r].slug)

\* Mutant: only the drafts of other documents are looked at.
RouteAvailableDraftsOnly(d, path) ==
  \A e \in DocumentIds \ {d} : currentSlug[e] # path

\* ensure_document_route_available: neither the draft nor any route of
\* another document holds the path.
RouteAvailable(d, path) ==
  /\ \A e \in DocumentIds \ {d} : currentSlug[e] # path
  /\ routeOwner[path] \in {0, d}

\* ensure_root_slug_not_category compares under the NOCASE collation, and only
\* for a revision at the root of the site.
RootSlugNotCategory(path) ==
  path.category = Root =>
    \A c \in CategorySlugs : categories[c] # "absent" => c # Fold[path.slug]

\* Mutant: only published routes are looked at.
CategoryLandingRoutesOnly(c) == routeOwner[RoutePath(Root, c)] = 0

\* ensure_category_landing_available compares exactly.
CategoryLandingAvailable(c) ==
  /\ \A d \in DocumentIds : currentSlug[d] # RoutePath(Root, c)
  /\ routeOwner[RoutePath(Root, c)] = 0

\* Mutant: archived categories stay open.
PlacementAlwaysOpen(category) == category # Root => categories[category] # "absent"

\* "archived categories cannot receive revisions" / "... publications"
PlacementOpen(category) == category # Root => categories[category] = "active"

\* Mutant: the UNIQUE constraint on revisions.idempotency_key is missing.
KeyUnchecked(key) == key \in Keys \cup {NoKey}

\* revisions.idempotency_key is UNIQUE.
KeyUnused(key) ==
  key # NoKey =>
    \A d \in DocumentIds : \A i \in DOMAIN revisions[d] : revisions[d][i].key # key

\* Documents whose published revision sits in category c.
PublishedIn(c) ==
  {d \in DocumentIds :
     publishedRevision[d] # 0 /\ revisions[d][publishedRevision[d]].category = c}

\* list_published_series_items: the members readers see.
PublicMembers(c) == {d \in PublishedIn(c) : seriesItems[c][d] > 0}

\* ORDER BY position, document_id
Before(items, d, e) == items[d] < items[e] \/ (items[d] = items[e] /\ d < e)

\* COALESCE(MAX(position), 0), over departed members too: a set of one number.
LastPositions(c) ==
  {n \in {0} \cup {seriesItems[c][d] : d \in DocumentIds} :
     \A d \in DocumentIds : seriesItems[c][d] <= n}

---------------------------------------------------------------------------
(* Documents. *)

\* create_document_in_transaction, with assign_revision_category_in_transaction
\* for the initial category.
CreateDocument(d, slug, category, key) ==
  LET path == RoutePath(category, slug) IN
  /\ status[d] = "absent"
  /\ \A e \in 1..(d - 1) : status[e] # "absent"
  /\ PlacementOpen(category)
  /\ RootSlugNotCategory(path)
  /\ RouteAvailable(d, path)
  /\ KeyUnused(key)
  /\ status' = [status EXCEPT ![d] = "draft"]
  /\ currentRevision' = [currentRevision EXCEPT ![d] = 1]
  /\ currentSlug' = [currentSlug EXCEPT ![d] = path]
  /\ revisions' = [revisions EXCEPT ![d] =
       <<[slug |-> slug, category |-> category, parent |-> 0,
          key |-> key, ai |-> FALSE]>>]
  /\ UNCHANGED <<publishedRevision, routeVars, categoryVars, seriesItems, audits>>

\* Mutant: a new draft resets the status of a published document.
AppendRevisionResetsStatus(d, base, slug, category, key, ai) ==
  LET path == RoutePath(category, slug)
      next == Len(revisions[d]) + 1
  IN
  /\ status[d] # "absent" /\ next <= MaxRevisions /\ base = currentRevision[d]
  /\ KeyUnused(key) /\ RootSlugNotCategory(path) /\ RouteAvailable(d, path)
  /\ revisions' = [revisions EXCEPT ![d] = Append(@,
       [slug |-> slug, category |-> category, parent |-> base,
        key |-> key, ai |-> ai])]
  /\ currentRevision' = [currentRevision EXCEPT ![d] = next]
  /\ currentSlug' = [currentSlug EXCEPT ![d] = path]
  /\ status' = [status EXCEPT ![d] = "draft"]
  /\ UNCHANGED <<publishedRevision, routeVars, categoryVars, seriesItems>>

\* append_revision_in_transaction_with_category on base revision `base`; the
\* placement is the one the insert trigger inherits or the one the request names.
AppendRevision(d, base, slug, category, key, ai) ==
  LET path == RoutePath(category, slug)
      next == Len(revisions[d]) + 1
  IN
  /\ status[d] # "absent"
  /\ next <= MaxRevisions
  /\ base = currentRevision[d]
  /\ KeyUnused(key)
  /\ RootSlugNotCategory(path)
  /\ RouteAvailable(d, path)
  /\ revisions' = [revisions EXCEPT ![d] = Append(@,
       [slug |-> slug, category |-> category, parent |-> base,
        key |-> key, ai |-> ai])]
  /\ currentRevision' = [currentRevision EXCEPT ![d] = next]
  /\ currentSlug' = [currentSlug EXCEPT ![d] = path]
  /\ status' = [status EXCEPT ![d] =
       IF publishedRevision[d] = 0 THEN "draft" ELSE "published"]
  /\ UNCHANGED <<publishedRevision, routeVars, categoryVars, seriesItems>>

\* revise_document_in_writable_site: the placement is inherited, and may be an
\* archived category.
ReviseDocument(d, base, slug, key) ==
  /\ base \in DOMAIN revisions[d]
  /\ AppendRevision(d, base, slug, revisions[d][base].category, key, FALSE)
  /\ UNCHANGED audits

\* revise_document_in_writable_site_with_category with an explicit placement.
ReviseAndMove(d, base, slug, category, key) ==
  /\ PlacementOpen(category)
  /\ AppendRevision(d, base, slug, category, key, FALSE)
  /\ UNCHANGED audits

\* append_ai_proposal: the revision and its audit record, or neither.
AppendAiProposal(d, base, slug, key, message) ==
  /\ base \in DOMAIN revisions[d]
  /\ AppendRevision(d, base, slug, revisions[d][base].category, key, TRUE)
  /\ \A a \in audits : a.message # message /\ a.key # key
  /\ audits' = audits \cup
       {[document |-> d, revision |-> Len(revisions[d]) + 1,
         message |-> message, key |-> key]}

\* Mutant: current_slug is not updated with the placement.
AssignKeepsSlug(d, r, category) ==
  /\ r \in DOMAIN revisions[d] /\ r = currentRevision[d] /\ r # publishedRevision[d]
  /\ PlacementOpen(category)
  /\ RouteAvailable(d, RoutePath(category, revisions[d][r].slug))
  /\ RootSlugNotCategory(RoutePath(category, revisions[d][r].slug))
  /\ revisions' = [revisions EXCEPT ![d][r].category = category]
  /\ UNCHANGED <<documentVars, routeVars, categoryVars, seriesItems, audits>>

\* Mutant: the placement of the public revision may be moved too.
AssignMovesPublished(d, r, category) ==
  LET path == RoutePath(category, revisions[d][r].slug) IN
  /\ r \in DOMAIN revisions[d] /\ r = currentRevision[d]
  /\ PlacementOpen(category) /\ RouteAvailable(d, path) /\ RootSlugNotCategory(path)
  /\ currentSlug' = [currentSlug EXCEPT ![d] = path]
  /\ revisions' = [revisions EXCEPT ![d][r].category = category]
  /\ UNCHANGED <<status, currentRevision, publishedRevision, routeVars,
                 categoryVars, seriesItems, audits>>

\* assign_revision_category_in_writable_site
AssignRevisionCategory(d, r, category) ==
  /\ r \in DOMAIN revisions[d]
  /\ r = currentRevision[d]
  /\ r # publishedRevision[d]
  /\ PlacementOpen(category)
  /\ LET path == RoutePath(category, revisions[d][r].slug) IN
     /\ RouteAvailable(d, path)
     /\ RootSlugNotCategory(path)
     /\ currentSlug' = [currentSlug EXCEPT ![d] = path]
  /\ revisions' = [revisions EXCEPT ![d][r].category = category]
  /\ UNCHANGED <<status, currentRevision, publishedRevision, routeVars,
                 categoryVars, seriesItems, audits>>

\* The document goes to the position after the last one.
AppendSeriesItem(d, category) ==
  \E last \in LastPositions(category) :
    seriesItems' = [seriesItems EXCEPT ![category][d] = last + 1]

\* Mutant: publication forgets the series.
SeriesItemForgotten(d, category) == UNCHANGED seriesItems

\* Mutant: every publication moves the document to the tail.
SeriesItemAlwaysLast(d, category) ==
  \/ category \notin series /\ UNCHANGED seriesItems
  \/ category \in series /\ AppendSeriesItem(d, category)

\* ensure_series_item_for_revision: a document that already has an item keeps
\* it, before the number of members is looked at.
EnsureSeriesItem(d, category) ==
  \/ /\ category \in series => seriesItems[category][d] > 0
     /\ UNCHANGED seriesItems
  \/ /\ category \in series
     /\ seriesItems[category][d] = 0
     /\ Cardinality(PublicMembers(category)) < MaxSeriesItems
     /\ AppendSeriesItem(d, category)

\* Mutant: the earlier canonical route stays canonical.
PublishKeepsCanonical(d, r) ==
  LET path == RevisionPath(d, r) IN
  /\ r \in DOMAIN revisions[d]
  /\ PlacementOpen(path.category) /\ RootSlugNotCategory(path) /\ RouteAvailable(d, path)
  /\ routeOwner' = [routeOwner EXCEPT ![path] = d]
  /\ canonical' = canonical \cup {path}
  /\ EnsureSeriesItem(d, path.category)
  /\ status' = [status EXCEPT ![d] = "published"]
  /\ publishedRevision' = [publishedRevision EXCEPT ![d] = r]
  /\ UNCHANGED <<currentRevision, currentSlug, revisions, categoryVars, audits>>

\* Mutant: the upsert replaces whatever row holds the path.
PublishReplacesRoute(d, r) ==
  LET path == RevisionPath(d, r) IN
  /\ r \in DOMAIN revisions[d]
  /\ PlacementOpen(path.category) /\ RootSlugNotCategory(path)
  /\ routeOwner' = [routeOwner EXCEPT ![path] = d]
  /\ canonical' = {p \in canonical : routeOwner[p] # d} \cup {path}
  /\ EnsureSeriesItem(d, path.category)
  /\ status' = [status EXCEPT ![d] = "published"]
  /\ publishedRevision' = [publishedRevision EXCEPT ![d] = r]
  /\ UNCHANGED <<currentRevision, currentSlug, revisions, categoryVars, audits>>

\* publish_in_transaction: any revision of the document, the current one or not.
Publish(d, r) ==
  LET path == RevisionPath(d, r) IN
  /\ r \in DOMAIN revisions[d]
  /\ PlacementOpen(path.category)
  /\ RootSlugNotCategory(path)
  /\ RouteAvailable(d, path)
  /\ routeOwner[path] \in {0, d}     \* the upsert keeps another owner: refused
  /\ routeOwner' = [routeOwner EXCEPT ![path] = d]
  /\ canonical' = {p \in canonical : routeOwner[p] # d} \cup {path}
  /\ EnsureSeriesItem(d, path.category)
  /\ status' = [status EXCEPT ![d] = "published"]
  /\ publishedRevision' = [publishedRevision EXCEPT ![d] = r]
  /\ UNCHANGED <<currentRevision, currentSlug, revisions, categoryVars, audits>>

---------------------------------------------------------------------------
(* Categories and series. *)

\* create_category_in_transaction
CreateCategory(c) ==
  /\ categories[c] = "absent"
  /\ CategoryLandingAvailable(c)
  /\ categories' = [categories EXCEPT ![c] = "active"]
  /\ UNCHANGED <<documentVars, revisions, routeVars, series, seriesItems, audits>>

\* archive_category, and archive_series, which archives the backing category.
ArchiveCategory(c) ==
  /\ categories[c] = "active"
  /\ categories' = [categories EXCEPT ![c] = "archived"]
  /\ UNCHANGED <<documentVars, revisions, routeVars, series, seriesItems, audits>>

\* create_series_for_category_in_transaction: the published documents of the
\* category become members in creation order.
SeriesForCategory(c) ==
  /\ Cardinality(series) < MaxSeries
  /\ Cardinality(PublishedIn(c)) <= MaxSeriesItems
  /\ series' = series \cup {c}
  /\ seriesItems' = [seriesItems EXCEPT ![c] =
       [d \in DocumentIds |->
          IF d \in PublishedIn(c) THEN Cardinality(PublishedIn(c) \cap 1..d)
                                  ELSE seriesItems[c][d]]]

\* create_series: a new category and its series in one transaction.
CreateSeries(c) ==
  /\ categories[c] = "absent"
  /\ CategoryLandingAvailable(c)
  /\ categories' = [categories EXCEPT ![c] = "active"]
  /\ SeriesForCategory(c)
  /\ UNCHANGED <<documentVars, revisions, routeVars, audits>>

\* promote_category_to_series: an exact retry changes nothing.
PromoteCategory(c) ==
  /\ categories[c] # "absent"
  /\ c \notin series
  /\ SeriesForCategory(c)
  /\ UNCHANGED <<documentVars, revisions, routeVars, categories, audits>>

\* replace_series_order: the request names exactly the public members, in an
\* order given by their ranks.
ReplaceSeriesOrder(c, requested, rank) ==
  /\ c \in series
  /\ Cardinality(requested) <= MaxSeriesItems
  /\ requested = PublicMembers(c)
  /\ seriesItems' = [seriesItems EXCEPT ![c] =
       [d \in DocumentIds |-> IF d \in requested THEN rank[d] ELSE seriesItems[c][d]]]
  /\ UNCHANGED <<documentVars, revisions, routeVars, categoryVars, audits>>

\* The orders a request can give to a set of documents.
Ranks(S) ==
  {rank \in [S -> 1..Cardinality(S)] :
     \A d, e \in S : rank[d] = rank[e] => d = e}

\* The writes of a document; each of them sets its updated_at.
DocumentWrite(d) ==
  \/ \E slug \in Slugs, category \in Placements, key \in Keys \cup {NoKey} :
       CreateDocument(d, slug, category, key)
  \/ \E base \in 1..MaxRevisions, slug \in Slugs, key \in Keys \cup {NoKey} :
       \/ ReviseDocument(d, base, slug, key)
       \/ \E category \in Placements : ReviseAndMove(d, base, slug, category, key)
       \/ \E message \in Messages :
            key # NoKey /\ AppendAiProposal(d, base, slug, key, message)
  \/ \E r \in 1..MaxRevisions :
       \/ \E category \in Placements : AssignRevisionCategory(d, r, category)
       \/ Publish(d, r)

DocumentStep == \E d \in DocumentIds : DocumentWrite(d)

CategoryStep ==
  \E c \in CategorySlugs :
    \/ CreateCategory(c)
    \/ ArchiveCategory(c)
    \/ CreateSeries(c)
    \/ PromoteCategory(c)
    \/ \E requested \in SUBSET DocumentIds : \E rank \in Ranks(requested) :
         ReplaceSeriesOrder(c, requested, rank)

Next == DocumentStep \/ CategoryStep

Spec == Init /\ [][Next]_vars

---------------------------------------------------------------------------
(* Properties. *)

\* Document d answers for a path: as its draft path or as one of its routes.
Claims(d, path) == currentSlug[d] = path \/ routeOwner[path] = d

\* No public path is claimed by two documents, whichever of the two tables
\* each claim is in: a draft of one document can never sit on a live or a
\* historical address of another (documents.current_slug against routes.path).
PathOwnedOnce ==
  \A p \in Paths : \A d, e \in DocumentIds : Claims(d, p) /\ Claims(e, p) => d = e

\* The path stored with a document is the path of its current revision, after
\* every order of revising, moving and publishing.
DraftPathIsCurrent ==
  \A d \in DocumentIds : status[d] # "absent" =>
    /\ currentRevision[d] = Len(revisions[d])
    /\ currentRevision[d] > 0
    /\ currentSlug[d] = RevisionPath(d, currentRevision[d])

\* A published document has exactly one canonical route, the path of the
\* revision readers get, and a document that is not published has no route.
CanonicalRouteIsPublished ==
  \A d \in DocumentIds :
    {p \in Paths : routeOwner[p] = d /\ p \in canonical} =
      IF publishedRevision[d] = 0 THEN {}
                                  ELSE {RevisionPath(d, publishedRevision[d])}

\* Every stored route leads to a published document: get_published_by_slug
\* never finds a route whose document it cannot load.
RoutesResolve ==
  \A p \in Paths : routeOwner[p] # 0 => status[routeOwner[p]] = "published"

\* The status column agrees with the publication pointer (the disagreement
\* that migration 3 had to repair).
StatusMatchesPointer ==
  \A d \in DocumentIds : (status[d] = "published") <=> (publishedRevision[d] # 0)

\* The landing page of a category is never also the address of a document,
\* live, historical or draft.
LandingPagesFree ==
  \A c \in CategorySlugs : categories[c] # "absent" =>
    \A d \in DocumentIds : ~Claims(d, RoutePath(Root, c))

\* Nothing else answers at an address that is claimed: neither another document,
\* whose claim may be in the other table, nor the landing page of a category
\* that is declared later (ensure_document_route_available,
\* ensure_root_slug_not_category).
AddressClaimsDisjoint == PathOwnedOnce /\ LandingPagesFree

\* The columns that say what is public agree after every order of revising,
\* moving, publishing and rolling back: the draft's path, the canonical route,
\* the historical routes, the status and the publication pointer.
PublicationConsistent ==
  DraftPathIsCurrent /\ CanonicalRouteIsPublished /\ RoutesResolve /\ StatusMatchesPointer

\* Every document published in the category of a series is a member of it,
\* however it got there: before the promotion, by publication or by a move.
SeriesComplete == \A c \in series : PublishedIn(c) = PublicMembers(c)

\* An idempotency key marks one revision of one document, and each revision an
\* AI proposed has exactly one audit record, with that revision's key.
ProposalsAudited ==
  /\ \A d, e \in DocumentIds :
       \A i \in DOMAIN revisions[d], j \in DOMAIN revisions[e] :
         revisions[d][i].key = revisions[e][j].key /\ revisions[d][i].key # NoKey
           => d = e /\ i = j
  /\ \A d \in DocumentIds : \A i \in DOMAIN revisions[d] :
       revisions[d][i].ai <=>
         \E a \in audits : a.document = d /\ a.revision = i
                           /\ a.key = revisions[d][i].key
  /\ \A a, b \in audits : a.message = b.message => a = b

\* A path, once a document's, is that document's for good: no step removes a
\* route or gives it to another document, so old links never change target.
RoutesPermanent ==
  [][\A p \in Paths : routeOwner[p] # 0 => routeOwner'[p] = routeOwner[p]]_vars

\* History is append-only: a step leaves every revision as it was but for the
\* placement of the current revision, and not even that when it is public.
HistoryImmutable ==
  [][\A d \in DocumentIds : \A i \in DOMAIN revisions[d] :
       /\ i \in DOMAIN revisions'[d]
       /\ revisions'[d][i] # revisions[d][i] =>
            /\ i = currentRevision[d]
            /\ i # publishedRevision[d]
            /\ revisions'[d][i] =
                 [revisions[d][i] EXCEPT !.category = revisions'[d][i].category]]_vars

\* No step brings a document into the published set of an archived category.
ArchivedCategoryClosed ==
  [][\A c \in CategorySlugs : categories[c] = "archived" =>
       PublishedIn(c)' \subseteq PublishedIn(c)]_vars

\* Two documents that stay public members of a series keep their reading order
\* in every step but an explicit reorder.
ReadingOrderKept ==
  [][\A c \in series :
       \/ \A d, e \in PublicMembers(c) \cap PublicMembers(c)' :
            Before(seriesItems[c], d, e) => Before(seriesItems'[c], d, e)
       \/ \E rank \in Ranks(PublicMembers(c)) :
            ReplaceSeriesOrder(c, PublicMembers(c), rank)]_vars

\* "a series cannot contain more than 500 published documents"
SeriesWithinCap ==
  \A c \in series : Cardinality(PublicMembers(c)) <= MaxSeriesItems

\* "appends a published Series post to the reading-order tail"
PublishedAtTail ==
  [][\A c \in series : \A d \in PublicMembers(c)' \ PublicMembers(c) :
       \A e \in PublicMembers(c)' \ {d} : Before(seriesItems'[c], e, d)]_vars

\* Readers of a series or a category see it change only as its owner means:
\* the reading order stays and nothing comes into an archived category.
CollectionsKept == ReadingOrderKept /\ ArchivedCategoryClosed

---------------------------------------------------------------------------
(* The inductive invariant behind these properties. *)

\* The publication pointer names a revision of the document.
PublishedExists ==
  \A d \in DocumentIds : publishedRevision[d] \in 0..Len(revisions[d])

\* A document that does not exist has no revision that could be published.
AbsentIsEmpty ==
  \A d \in DocumentIds : status[d] = "absent" => Len(revisions[d]) = 0

\* The inductive invariant: the pointer must name a revision, and the status
\* agree with it, for the canonical route to follow the published revision.
PublicationInv ==
  /\ AbsentIsEmpty
  /\ PublishedExists
  /\ StatusMatchesPointer
  /\ RoutesResolve
  /\ DraftPathIsCurrent
  /\ CanonicalRouteIsPublished

\* A series has a category: create_series declares one and promotion finds one.
SeriesBacked == \A c \in series : categories[c] # "absent"

SeriesInv == SeriesBacked /\ SeriesComplete

\* An audit record is about a revision that exists.
AuditsName == \A a \in audits : a.revision \in 1..Len(revisions[a.document])

AuditInv == ProposalsAudited /\ AuditsName

\* A canonical mark is on a row of the table of routes.
CanonicalHeld == \A p \in canonical : routeOwner[p] # 0

ContentInv ==
  /\ TypeOK
  /\ AddressClaimsDisjoint
  /\ PublicationInv
  /\ CanonicalHeld
  /\ SeriesInv
  /\ AuditInv
=============================================================================
