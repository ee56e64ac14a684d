----------------------------- MODULE AdminTree -----------------------------
(***************************************************************************)
(* The administrator's program tree (admin_tree.rs): a browser opens one   *)
(* node after the other and fetches its children page by page, with a      *)
(* cursor that is an offset, while authors write.  What is listed are the  *)
(* sites, the categories and documents of one site, and the revisions; of  *)
(* a row only what orders it is kept.                                      *)
(*                                                                         *)
(* A node is a tuple: its kind, then what its id names.                    *)
(***************************************************************************)
EXTENDS Integers, Sequences, FiniteSets, SequencesExt

CONSTANTS
  TreeCategories, \* categories of the site, those that may come included
  TreeDocuments,  \* its documents
  MaxTitle,       \* category titles are numbers up to this, in their order
  PageSizes,      \* values of `limit` a browser uses
  NoBrowse, NoCategory,
  MaxSites,       \* bound: sites
  MaxRows         \* bound: changes to the rows

\* A page has a row, and `uncategorized` is the id of no category.
ASSUME TreeAssumption ==
  /\ PageSizes \subseteq Nat \ {0}
  /\ MaxTitle \in Nat
  /\ IsFiniteSet(TreeDocuments)
  /\ NoCategory \notin TreeCategories

VARIABLES
  siteRow,     \* updated_at of the sites, in the order they were created;
               \* the first has content
  categoryRow, \* [status, title] of the categories there are
  documentRow, \* [category, updated, revisions] of the documents
  changes,     \* changes so far; the clock of updated_at
  signedIn,    \* the browser has an administrator's session
  browse       \* the listing of one node as fetched so far, or NoBrowse

treeVars == <<siteRow, categoryRow, documentRow, changes, signedIn, browse>>

TreeInit ==
  /\ siteRow = <<0>>
  /\ categoryRow = [c \in {} |-> NoCategory]
  /\ documentRow = [d \in TreeDocuments |-> [category |-> NoCategory, updated |-> 0, revisions |-> 1]]
  /\ changes = 0
  /\ signedIn = TRUE
  /\ browse = NoBrowse

---------------------------------------------------------------------------
(* The rows, in the order of each query. *)

\* ORDER BY: the rows of a query, by rising rank.
RowsInOrder(S, rank) ==
  CHOOSE rows \in [1..Cardinality(S) -> S] :
    \A i, j \in 1..Cardinality(S) :
      i < j => rows[i] # rows[j] /\ rank[rows[i]] <= rank[rows[j]]

\* Mutant: the site updated last comes first, like documents.
SiteRowsByUpdate ==
  LET rows == RowsInOrder(DOMAIN siteRow, [s \in DOMAIN siteRow |-> 0 - siteRow[s]])
  IN [i \in DOMAIN rows |-> <<"site", rows[i]>>]

\* list_site_metadata_page: the newest first.
SiteRows == [i \in DOMAIN siteRow |-> <<"site", Len(siteRow) + 1 - i>>]

\* list_category_metadata_page: active ones first, then by title and slug.
CategoryRank ==
  [c \in DOMAIN categoryRow |->
     (IF categoryRow[c].status = "active" THEN 0 ELSE MaxTitle) + categoryRow[c].title]
CategoryRows ==
  LET rows == RowsInOrder(DOMAIN categoryRow, CategoryRank)
  IN [i \in DOMAIN rows |-> <<"category", 1, rows[i]>>]

\* list_current_document_metadata_page: those now in the category, the one
\* updated last first.  (Equal times are told apart by the id.)
DocumentsIn(site, category) ==
  {d \in TreeDocuments : site = 1 /\ documentRow[d].category = category}
DocumentRows(site, category) ==
  LET rows == RowsInOrder(DocumentsIn(site, category),
                          [d \in TreeDocuments |-> 0 - documentRow[d].updated])
  IN [i \in DOMAIN rows |-> <<"document", rows[i]>>]

\* list_revision_metadata_page: the highest number first.
RevisionRows(d) ==
  LET n == documentRow[d].revisions IN [i \in 1..n |-> <<"revision", d, n + 1 - i>>]

\* LIMIT and OFFSET; page_static.
Rows(rows, offset, limit) ==
  SubSeq(rows, offset + 1, IF offset + limit < Len(rows) THEN offset + limit ELSE Len(rows))

---------------------------------------------------------------------------
(* The tree. *)

Root == <<"root">>

\* root_nodes
RootNodes == <<<<"group", "content">>, <<"group", "assets">>, <<"group", "configuration">>,
               <<"group", "modules">>, <<"group", "runtime">>>>

\* configuration_nodes and what the group of the assets holds; module_nodes and
\* runtime_nodes, of which two stand for all.
StaticNodes(group) ==
  CASE group = "assets" -> <<<<"runtime", "asset-store">>>>
    [] group = "configuration" ->
         [i \in 1..7 |-> <<"setting",
           <<"administrator-auth", "member-auth", "registration", "comments",
             "collaboration", "custom-css", "agent-discovery">>[i]>>]
    [] group = "modules" -> <<<<"module", "cache">>, <<"module", "comments">>>>
    [] group = "runtime" -> <<<<"runtime", "server">>, <<"runtime", "mutation-mode">>,
                              <<"runtime", "public-cache">>, <<"runtime", "backups">>>>

\* has_children of the node constructors.
HasChildren(node) == node[1] \in {"group", "site", "category", "document"}

\* Mutant: `uncategorized` is looked up like a category.
CategoryListedById(category) == category \in DOMAIN categoryRow

\* parse_category_parent and ensure_category_in_site; `uncategorized` has no row.
CategoryListed(category) == category \in DOMAIN categoryRow \cup {NoCategory}

\* How nodes_for_parent answers for a node: with its children, as a node
\* without any, or not at all.
OpenAnswer(node) ==
  CASE node[1] \in {"root", "group"} -> "children"
    [] node[1] = "site" -> IF node[2] \in DOMAIN siteRow THEN "children" ELSE "not_found"
    [] node[1] = "category" -> IF CategoryListed(node[3]) THEN "children" ELSE "not_found"
    [] node[1] = "document" -> IF node[2] \in TreeDocuments THEN "children" ELSE "not_found"
    [] node[1] \in {"revision", "setting", "module", "runtime"} -> "leaf"
    [] OTHER -> "unknown"

\* Mutant: Uncategorized is put before the rows without moving them.
SiteNodesUnmoved(site, offset, fetch) ==
  LET categories == IF site = 1 THEN CategoryRows ELSE <<>> IN
  IF offset = 0 THEN <<<<"category", site, NoCategory>>>> \o Rows(categories, 0, fetch - 1)
  ELSE Rows(categories, offset, fetch)

\* nodes_for_parent for a site: Uncategorized is its first child, without a row.
SiteNodes(site, offset, fetch) ==
  LET categories == IF site = 1 THEN CategoryRows ELSE <<>> IN
  IF offset = 0 THEN <<<<"category", site, NoCategory>>>> \o Rows(categories, 0, fetch - 1)
  ELSE Rows(categories, offset - 1, fetch)

NodesForParent(parent, offset, fetch) ==
  CASE parent = Root -> Rows(RootNodes, offset, fetch)
    [] parent = <<"group", "content">> -> Rows(SiteRows, offset, fetch)
    [] parent[1] = "group" /\ parent[2] # "content" -> Rows(StaticNodes(parent[2]), offset, fetch)
    [] parent[1] = "site" -> SiteNodes(parent[2], offset, fetch)
    [] parent[1] = "category" -> Rows(DocumentRows(parent[2], parent[3]), offset, fetch)
    [] parent[1] = "document" -> Rows(RevisionRows(parent[2]), offset, fetch)

\* The children there are, by no query.
Children(parent) ==
  CASE parent = Root -> Range(RootNodes)
    [] parent = <<"group", "content">> -> {<<"site", i>> : i \in DOMAIN siteRow}
    [] parent[1] = "group" /\ parent[2] # "content" -> Range(StaticNodes(parent[2]))
    [] parent[1] = "site" ->
         {<<"category", parent[2], c>> : c \in {NoCategory} \cup (IF parent[2] = 1 THEN DOMAIN categoryRow ELSE {})}
    [] parent[1] = "category" ->
         {<<"document", d>> : d \in DocumentsIn(parent[2], parent[3])}
    [] parent[1] = "document" ->
         {<<"revision", parent[2], n>> : n \in 1..documentRow[parent[2]].revisions}

\* finish_page: the row beyond the page says whether there is another.
FinishPage(nodes, offset, limit) ==
  [items |-> Rows(nodes, 0, limit),
   next |-> IF Len(nodes) > limit THEN offset + limit ELSE 0]

\* get_admin_tree without a cursor: the children of a node the browser has been
\* shown, or of the root.  A call without the session leaves no trace.
OpenNode(parent, limit) ==
  /\ signedIn
  /\ OpenAnswer(parent) = "children"
  /\ LET page == FinishPage(NodesForParent(parent, 0, limit + 1), 0, limit) IN
     browse' = [parent |-> parent, shown |-> page.items, next |-> page.next,
                quiet |-> TRUE, atStart |-> Children(parent)]
  /\ UNCHANGED <<siteRow, categoryRow, documentRow, changes, signedIn>>

\* get_admin_tree with the cursor of the page before.
NextPage(limit) ==
  /\ signedIn
  /\ browse # NoBrowse
  /\ browse.next # 0
  /\ LET page == FinishPage(NodesForParent(browse.parent, browse.next, limit + 1),
                            browse.next, limit) IN
     browse' = [browse EXCEPT !.shown = @ \o page.items, !.next = page.next]
  /\ UNCHANGED <<siteRow, categoryRow, documentRow, changes, signedIn>>

\* require_instance_administrator: the session ends, elsewhere.
AdministratorSignsOut ==
  /\ signedIn /\ signedIn' = FALSE
  /\ UNCHANGED <<siteRow, categoryRow, documentRow, changes, browse>>

---------------------------------------------------------------------------
(* Authors and administrators write. *)

Changed ==
  /\ changes < MaxRows /\ changes' = changes + 1
  /\ browse' = IF browse = NoBrowse THEN NoBrowse ELSE [browse EXCEPT !.quiet = FALSE]
  /\ UNCHANGED signedIn

\* create_site, for an account that owns none.
SiteCreated ==
  /\ Len(siteRow) < MaxSites
  /\ siteRow' = Append(siteRow, changes + 1)
  /\ Changed
  /\ UNCHANGED <<categoryRow, documentRow>>

\* A title or a stylesheet.
SiteUpdated(s) ==
  /\ siteRow' = [siteRow EXCEPT ![s] = changes + 1]
  /\ Changed
  /\ UNCHANGED <<categoryRow, documentRow>>

\* A category comes or gets another title.  (Of two equal titles the slug
\* decides; here they differ.)
CategoryTitled(c, title) ==
  /\ \A d \in DOMAIN categoryRow : categoryRow[d].title # title
  /\ categoryRow' = [d \in DOMAIN categoryRow \cup {c} |->
       IF d # c THEN categoryRow[d]
       ELSE [status |-> IF c \in DOMAIN categoryRow THEN categoryRow[c].status ELSE "active",
             title |-> title]]
  /\ Changed
  /\ UNCHANGED <<siteRow, documentRow>>

CategoryArchived(c) ==
  /\ c \in DOMAIN categoryRow
  /\ categoryRow[c].status = "active"
  /\ categoryRow' = [categoryRow EXCEPT ![c].status = "archived"]
  /\ Changed
  /\ UNCHANGED <<siteRow, documentRow>>

\* A revision, in the category of the one before or in an open one; or the
\* placement of the current revision, or what is published, changes alone.
DocumentWritten(d, category, appended) ==
  /\ \/ category \in {NoCategory, documentRow[d].category}
     \/ category \in DOMAIN categoryRow /\ categoryRow[category].status = "active"
  /\ documentRow' = [documentRow EXCEPT ![d] =
       [category |-> category, updated |-> changes + 1, revisions |-> @.revisions + appended]]
  /\ Changed
  /\ UNCHANGED <<siteRow, categoryRow>>

TreeNext ==
  \/ \E limit \in PageSizes : OpenNode(Root, limit)
  \/ /\ browse # NoBrowse
     /\ \E i \in DOMAIN browse.shown, limit \in PageSizes : OpenNode(browse.shown[i], limit)
  \/ \E limit \in PageSizes : NextPage(limit)
  \/ AdministratorSignsOut
  \/ SiteCreated
  \/ \E s \in DOMAIN siteRow : SiteUpdated(s)
  \/ \E c \in TreeCategories, title \in 1..MaxTitle : CategoryTitled(c, title)
  \/ \E c \in TreeCategories : CategoryArchived(c)
  \/ \E d \in TreeDocuments, category \in TreeCategories \cup {NoCategory}, appended \in 0..1 :
       DocumentWritten(d, category, appended)

---------------------------------------------------------------------------
(* Properties. *)

Finished == browse # NoBrowse /\ browse.next = 0

\* When nothing changes while a browser goes through the pages of a node, it is
\* shown every child once, whatever the sizes of the pages: no row is lost or
\* repeated where one page ends, nor where Uncategorized is put before the rows.
QuietBrowseExact ==
  Finished /\ browse.quiet =>
    /\ Range(browse.shown) = Children(browse.parent)
    /\ Len(browse.shown) = Cardinality(Children(browse.parent))

\* Offsets count from the newest row, so whatever is written meanwhile, a
\* browser misses no site and no revision there was when it began; rows may be
\* repeated.  (It may miss a category or a document: their order changes.)
NewRowsHideNone ==
  /\ Finished
  /\ browse.parent = <<"group", "content">> \/ browse.parent[1] = "document"
  => browse.atStart \subseteq Range(browse.shown)

\* A node is shown with a mark to open it exactly if opening it works, also
\* after the rows have changed; the others are answered as leaves.
MarksHold ==
  browse # NoBrowse =>
    \A i \in DOMAIN browse.shown :
      OpenAnswer(browse.shown[i]) = IF HasChildren(browse.shown[i]) THEN "children" ELSE "leaf"

\* A browser of the program tree can rely on its pages: complete when nothing
\* is written, complete for sites and revisions in any case, and marked right.
BrowseFaithful == QuietBrowseExact /\ NewRowsHideNone /\ MarksHold
=============================================================================
