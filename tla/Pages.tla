------------------------------- MODULE Pages -------------------------------
(***************************************************************************)
(* What anonymous readers see of the state of module Content: the handlers *)
(* of the server that turn a public URL into a page, a landing page of a   *)
(* category, a redirect, the shell of the web application or a 404, and    *)
(* the documents that advertise URLs (sitemap, archives, machine lists,    *)
(* the home feed).  Reading changes nothing, so this module has operators  *)
(* and no actions; its properties are invariants and action properties of  *)
(* the specification of Content.                                           *)
(*                                                                         *)
(* A setting w says of the site whether it is the primary site of the      *)
(* installation, whether the control plane has provisioned it with a       *)
(* handle, and whether the global references page is enabled.  A URL is    *)
(*   article    /<article base path>/slug                                  *)
(*   community  /@handle/slug and /@handle/category/slug                   *)
(*   root       /segment and /category/slug, the primary site's own        *)
(* where the handle may be spelled exactly or in another case.  Titles,    *)
(* markup, the view parameter and HTTP headers are left out.               *)
(***************************************************************************)
EXTENDS Content, SequencesExt

CONSTANTS
  Settings,        \* the settings w of the server that are looked at
  HandleSlugs,     \* slugs that normalize_handle takes: short ASCII words
  ReferencesSlug,  \* "references"
  FeedLimit        \* bound: recent_limit of home_feed, 100 in the code

ASSUME SettingsAssumption ==
  Settings \subseteq
    {w \in [primary : BOOLEAN, provisioned : BOOLEAN, references : BOOLEAN] :
       w.provisioned => w.primary}

\* "references" is a reserved slug, and the server with the page enabled does
\* not start on a site that has a category of that name.
ASSUME ReferencesAssumption == ReferencesSlug \notin CategorySlugs

\* The queries of home_feed return 500 rows at most: a site has no more
\* categories, and 500 rows are enough for the 100 of a list and three pins.
ASSUME FeedAssumption ==
  /\ FeedLimit \in 0..100
  /\ IsFiniteSet(CategorySlugs)
  /\ Cardinality(CategorySlugs) <= 500

Url(form, exact, path) == [form |-> form, exact |-> exact, path |-> path]

\* The URLs of the site: article and root URLs lead to the primary site only.
Urls(w) ==
  [form : {"community"}, exact : BOOLEAN, path : Paths] \cup
  [form : IF w.primary THEN {"article", "root"} ELSE {}, exact : {TRUE}, path : Paths]

Page(d) == [kind |-> "page", document |-> d]
Landing(c) == [kind |-> "landing", category |-> c]
Redirect(url) == [kind |-> "redirect", to |-> url]
Shell == [kind |-> "shell"]
NotFound == [kind |-> "404"]
BadRequest == [kind |-> "400"]
Nothing == [kind |-> "none"]   \* Ok(None): the next handler is asked

---------------------------------------------------------------------------
(* Lookups of the repository.  0 stands for NotFound. *)

PublishedDocuments == {d \in DocumentIds : publishedRevision[d] # 0}
PublishedPath(d) == RevisionPath(d, publishedRevision[d])

\* get_published_by_slug: the path is compared exactly.
GetPublishedBySlug(path) ==
  IF routeOwner[path] \in PublishedDocuments THEN routeOwner[path] ELSE 0

\* get_unique_published_by_leaf_slug
GetUniquePublishedByLeafSlug(slug) ==
  LET found == {d \in PublishedDocuments : PublishedPath(d).slug = slug} IN
  IF Cardinality(found) = 1 THEN CHOOSE d \in found : TRUE ELSE 0

\* get_published_category # None
Categorised(d) == d # 0 /\ PublishedPath(d).category # Root

\* get_category_by_slug normalises the requested slug and finds archived
\* categories too: a set of at most one.
CategoriesBySlug(slug) ==
  {c \in CategorySlugs : categories[c] # "absent" /\ c = Fold[slug]}

\* list_published_in_series or list_published_in_category
LandingPosts(c) == IF c \in series THEN PublicMembers(c) ELSE PublishedIn(c)

---------------------------------------------------------------------------
(* Public URLs. *)

\* category_public_url of a post or, with the category itself as only segment,
\* of the landing page.
CategoryUrl(w, path) ==
  Url(IF w.primary THEN "root" ELSE "community", TRUE, path)

\* community_public_url
CommunityUrl(path) == Url("community", TRUE, path)

\* canonical_article_url
ArticleUrl(path) == Url("article", TRUE, path)

\* Mutant: the provisioned primary site keeps the legacy article route.
CanonicalUrlLegacy(w, d) ==
  LET path == PublishedPath(d) IN
  CASE path.category # Root -> CategoryUrl(w, path)
    [] path.category = Root /\ w.primary -> ArticleUrl(path)
    [] OTHER -> CommunityUrl(path)

\* The URL sitemap chooses for a post.
CanonicalUrl(w, d) ==
  LET path == PublishedPath(d) IN
  CASE path.category # Root -> CategoryUrl(w, path)
    [] path.category = Root /\ w.primary /\ ~w.provisioned -> ArticleUrl(path)
    [] OTHER -> CommunityUrl(path)

\* public_community_blog links an uncategorised post below the handle.
ArchiveUrl(w, d) ==
  IF Categorised(d) THEN CategoryUrl(w, PublishedPath(d))
                    ELSE CommunityUrl(PublishedPath(d))

\* primary_category_public_path on the first segment of a root URL.
PrimaryCategoryPublicPath(w, path) ==
  LET first == IF path.category = Root THEN path.slug ELSE path.category IN
  /\ Fold[first] = first
  /\ w.references => first # ReferencesSlug

---------------------------------------------------------------------------
(* Handlers. *)

\* public_post: /<article base path>/slug, of the primary site.
PublicPost(w, url) ==
  LET exact == GetPublishedBySlug(url.path)
      leaf == GetUniquePublishedByLeafSlug(url.path.slug)
      d == IF exact # 0 THEN exact ELSE leaf
  IN
  CASE url.path.category # Root -> NotFound
    [] url.path.category = Root /\ (d = 0 \/ (exact = 0 /\ ~Categorised(d))) -> NotFound
    [] OTHER ->
         IF Categorised(d) THEN Redirect(CategoryUrl(w, PublishedPath(d)))
         ELSE IF w.provisioned THEN Redirect(CommunityUrl(PublishedPath(d)))
         ELSE IF url.path # PublishedPath(d) THEN Redirect(ArticleUrl(PublishedPath(d)))
         ELSE Page(d)

\* public_community_post when no route holds the segment: a category landing
\* page, or a leaf slug that names one categorised post.  The lookup of the
\* category refuses a segment that cannot be a category's slug.
SharedSegment(w, url) ==
  LET found == CategoriesBySlug(url.path.slug)
      leaf == GetUniquePublishedByLeafSlug(url.path.slug)
  IN
  IF found # {}
  THEN LET c == CHOOSE c \in found : TRUE IN
       IF w.primary \/ ~url.exact \/ url.path.slug # c
       THEN Redirect(CategoryUrl(w, RoutePath(Root, c)))
       ELSE Landing(c)
  ELSE IF url.path.slug \notin HandleSlugs THEN BadRequest
  ELSE IF Categorised(leaf) THEN Redirect(CategoryUrl(w, PublishedPath(leaf)))
  ELSE NotFound

\* public_community_post: /@handle/segment
PublicCommunityPost(w, url) ==
  LET d == GetPublishedBySlug(url.path) IN
  IF d = 0 THEN SharedSegment(w, url)
  ELSE IF Categorised(d) THEN Redirect(CategoryUrl(w, PublishedPath(d)))
  ELSE IF w.primary /\ ~w.provisioned THEN Redirect(ArticleUrl(PublishedPath(d)))
  ELSE IF ~url.exact \/ url.path # PublishedPath(d)
       THEN Redirect(CommunityUrl(PublishedPath(d)))
  ELSE Page(d)

\* Mutant: only the current address is served.
CommunityCategoryPostExact(w, url) ==
  LET d == GetPublishedBySlug(url.path) IN
  IF ~Categorised(d) \/ url.path # PublishedPath(d) THEN NotFound
  ELSE IF w.primary \/ ~url.exact THEN Redirect(CategoryUrl(w, PublishedPath(d)))
  ELSE Page(d)

\* public_community_category_post: /@handle/category/slug
PublicCommunityCategoryPost(w, url) ==
  LET d == GetPublishedBySlug(url.path) IN
  IF ~Categorised(d) THEN NotFound
  ELSE IF w.primary \/ ~url.exact \/ url.path # PublishedPath(d)
       THEN Redirect(CategoryUrl(w, PublishedPath(d)))
  ELSE Page(d)

\* primary_category_post_from_uri: /category/slug
PrimaryCategoryPost(w, path, html) ==
  LET d == GetPublishedBySlug(path) IN
  IF path.category = Root \/ ~Categorised(d) THEN Nothing
  ELSE IF path # PublishedPath(d) THEN Redirect(CategoryUrl(w, PublishedPath(d)))
  ELSE IF html THEN Page(d) ELSE Nothing

\* primary_category_landing_from_uri: /category
PrimaryCategoryLanding(w, path) ==
  LET found == CategoriesBySlug(path.slug) IN
  IF path.category # Root \/ found = {} THEN Nothing
  ELSE LET c == CHOOSE c \in found : TRUE IN
       IF path.slug # c THEN Redirect(CategoryUrl(w, RoutePath(Root, c))) ELSE Landing(c)

\* Mutant: an alias redirects to the address it was asked for.
LegacyAliasToItself(w, path) ==
  IF ~Categorised(GetPublishedBySlug(path)) \/ path = PublishedPath(GetPublishedBySlug(path))
  THEN Nothing ELSE Redirect(CategoryUrl(w, path))

\* primary_legacy_alias_redirect, while legacy_alias_slots has a permit; without
\* one it answers Ok(None).
PrimaryLegacyAlias(w, path) ==
  LET d == GetPublishedBySlug(path) IN
  IF ~Categorised(d) \/ path = PublishedPath(d) THEN Nothing
  ELSE Redirect(CategoryUrl(w, PublishedPath(d)))

\* spa_index_fallback: the handlers are asked in turn, the category handlers
\* only for a path that can be a category's, and while primary_category_slots
\* has a permit; without one the answer is 503.
SpaIndexFallback(w, path, html) ==
  LET primary == PrimaryCategoryPublicPath(w, path)
      post == IF primary THEN PrimaryCategoryPost(w, path, html) ELSE Nothing
      landing == IF primary /\ html THEN PrimaryCategoryLanding(w, path) ELSE Nothing
      answers == <<post, landing, PrimaryLegacyAlias(w, path)>>
      given == {i \in DOMAIN answers : answers[i] # Nothing}
  IN
  IF given # {} THEN answers[CHOOSE i \in given : \A j \in given : i <= j]
  ELSE IF html THEN Shell ELSE NotFound

\* The route table: app.  The enabled references page owns /references.
Respond(w, url, html) ==
  CASE url.form = "article" -> PublicPost(w, url)
    [] url.form = "community" /\ url.path.category = Root -> PublicCommunityPost(w, url)
    [] url.form = "community" /\ url.path.category # Root ->
         PublicCommunityCategoryPost(w, url)
    [] OTHER ->
         IF w.references /\ url.path = RoutePath(Root, ReferencesSlug)
         THEN [kind |-> "references"]
         ELSE SpaIndexFallback(w, url.path, html)

\* get_post_by_route and get_markdown_source_by_route: the machine API.
ApiPost(path) == GetPublishedBySlug(path)

---------------------------------------------------------------------------
(* The JSON interface of the community (community.rs). *)

\* feed_item: a post with the category its published revision sits in; draft
\* timestamps are left out of it.
FeedItem(d) ==
  [document |-> d, revision |-> publishedRevision[d], path |-> PublishedPath(d)]

\* list_published_across_sites and list_blog_posts
Feed == {FeedItem(d) : d \in PublishedDocuments}

\* list_blog_categories and list_primary_categories
ListCategories == {c \in CategorySlugs : categories[c] = "active"}

\* list_blog_series and list_primary_series
ListSeries == ListCategories \cap series

\* Mutant: the members that have left the category are listed too.
SeriesPostsWithDeparted(c) ==
  {FeedItem(d) : d \in {e \in PublishedDocuments : seriesItems[c][e] > 0}}

\* list_blog_series_posts and list_primary_series_posts
SeriesPosts(c) == {FeedItem(d) : d \in PublicMembers(c)}

\* get_blog_series and get_primary_series: the post count.
SeriesPostCount(c) == Cardinality(PublicMembers(c))

\* list_blog_category_posts and list_primary_category_posts
CategoryPosts(c) == {FeedItem(d) : d \in PublishedIn(c)}

\* get_blog_category and get_primary_category: the post count.
CategoryPostCount(c) == Cardinality(PublishedIn(c))

\* blog_post_at_path and get_primary_category_post
BlogPostAtPath(path) == GetPublishedBySlug(path)

---------------------------------------------------------------------------
(* The semantic cache, seen from a request. *)

\* Mutant: the Accept header is not looked at.
CacheableAnyAccept(w, url, html) ==
  \/ url.form # "root"
  \/ PrimaryCategoryPublicPath(w, url.path)
  \/ w.references /\ url.path = RoutePath(Root, ReferencesSlug)

\* semantic_cache_middleware and public_cache_path: a request may be answered
\* from, and its answer put into, the entry of its URL.
Cacheable(w, url, html) ==
  \/ url.form # "root"
  \/ w.references /\ url.path = RoutePath(Root, ReferencesSlug)
  \/ PrimaryCategoryPublicPath(w, url.path) /\ html

---------------------------------------------------------------------------
(* Documents that advertise URLs. *)

\* sitemap; the instances have fewer posts than SITEMAP_URL_LIMIT.
Sitemap(w) == [d \in PublishedDocuments |-> CanonicalUrl(w, d)]

\* public_community_blog, the archive of the site.
BlogArchive(w) == [d \in PublishedDocuments |-> ArchiveUrl(w, d)]

\* render_category_landing_document: the posts of a landing page.
LandingArchive(w, c) ==
  [d \in LandingPosts(c) |-> CategoryUrl(w, RoutePath(c, PublishedPath(d).slug))]

\* list_posts and machine_post_href: the path of the API URL of a post.
MachineHref(d) == PublishedPath(d)

Take(s, n) == SubSeq(s, 1, IF n < Len(s) THEN n ELSE Len(s))

\* ORDER BY position, document_id: as many rows as a row has before it.
InPosition(S, items) ==
  [j \in 1..Cardinality(S) |->
     CHOOSE d \in S : Cardinality({e \in S : Before(items, e, d)}) = j - 1]

\* The rows that are not pinned, in their order.
NotPinned(s, pinned) ==
  LET kept == {i \in DOMAIN s : s[i] \notin pinned}
      at == InPosition(kept, [i \in kept |-> i])
  IN [j \in DOMAIN at |-> s[at[j]]]

\* Mutant: as many rows are fetched as are shown.
UnpinnedOfShown(s, pinned, n) == NotPinned(Take(s, n), pinned)

\* Pinned rows are removed after the query, which therefore fetches as many
\* more as there are pins.
Unpinned(s, pinned, n) ==
  Take(NotPinned(Take(s, n + Cardinality(pinned)), pinned), n)

\* home_feed, the newest posts: `newest` lists them by publication.
RecentItems(newest, pinned) == Unpinned(newest, pinned, FeedLimit)

\* The members of a section of the home page in their order.
SectionPosts(c) ==
  IF c \in series
  THEN InPosition(PublicMembers(c), seriesItems[c])
  ELSE InPosition(PublishedIn(c), [d \in DocumentIds |-> d])

\* The loops of home_feed: one section after the other, while there is room left.
FilledSections(sections, pinned) ==
  LET items[i \in 0..Len(sections)] ==
        IF i = 0 THEN <<>>
        ELSE items[i - 1] \o
               Unpinned(SectionPosts(sections[i]), pinned, FeedLimit - Len(items[i - 1]))
  IN items[Len(sections)]

\* home_feed, the sections: active series first, then active categories that
\* back no series.
SectionItems(pinned) ==
  LET active == {c \in CategorySlugs : categories[c] = "active"} IN
  FilledSections(SetToSeq(active \cap series) \o SetToSeq(active \ series), pinned)

---------------------------------------------------------------------------
(* Startup. *)

\* published_noncanonical_route_exists
PublishedNoncanonicalRouteExists(path) ==
  GetPublishedBySlug(path) # 0 /\ path \notin canonical

\* ensure_references_namespace: the server refuses to start otherwise.  A
\* category cannot be named "references" any more.
EnsureReferencesNamespace(w) ==
  w.references => ~PublishedNoncanonicalRouteExists(RoutePath(Root, ReferencesSlug))

---------------------------------------------------------------------------
(* Properties. *)

\* The documents a reader of url ends at, after at most one redirect.
LeadsTo(w, url) ==
  LET first == Respond(w, url, TRUE)
      last == IF first.kind = "redirect" THEN Respond(w, first.to, TRUE) ELSE first
  IN {d \in PublishedDocuments : last = Page(d)}

\* Every URL of the sitemap and of a landing page is answered with the post it
\* was written for, without a redirect; the links of an archive and of the
\* machine list lead to it (sitemap, render_category_landing_document,
\* public_community_blog, list_posts against the handlers).
AdvertisedUrlsServed ==
  \A w \in Settings :
    /\ \A d \in PublishedDocuments :
         /\ Respond(w, Sitemap(w)[d], TRUE) = Page(d)
         /\ LeadsTo(w, BlogArchive(w)[d]) = {d}
         /\ ApiPost(MachineHref(d)) = d
    /\ \A c \in CategorySlugs : \A d \in LandingPosts(c) :
         Respond(w, LandingArchive(w, c)[d], TRUE) = Page(d)

\* A redirect of any handler names a URL that is answered with a post or a
\* landing page: there are no chains and no loops, whatever was renamed or
\* moved before.
RedirectsSettle ==
  \A w \in Settings : \A url \in Urls(w), html \in BOOLEAN :
    LET answer == Respond(w, url, html) IN
    answer.kind = "redirect" =>
      Respond(w, answer.to, TRUE).kind \in {"page", "landing"}

\* An address a post was published at leads to the post for ever, through every
\* form of URL it was reachable by.  An address in a category stops leading
\* to a post that has left all categories: the handlers of category URLs ask
\* for the category of the published revision.
OldAddressesLead ==
  \A w \in Settings : \A path \in Paths :
    LET d == GetPublishedBySlug(path) IN
    d # 0 /\ (path.category = Root \/ Categorised(d)) =>
      /\ LeadsTo(w, Url("community", TRUE, path)) = {d}
      /\ w.primary => LeadsTo(w, IF path.category = Root THEN ArticleUrl(path)
                                                         ELSE CategoryUrl(w, path)) = {d}

\* The JSON interface and the pages show the same site: a collection has the
\* posts of its landing page and counts them, every item of a feed can be
\* fetched at its path, and a path that both know leads to one post.
InterfacesAgree ==
  /\ \A c \in CategorySlugs :
       /\ c \in series =>
            /\ SeriesPosts(c) = {FeedItem(d) : d \in LandingPosts(c)}
            /\ SeriesPosts(c) = CategoryPosts(c)
            /\ SeriesPostCount(c) = Cardinality(SeriesPosts(c))
       /\ CategoryPostCount(c) = Cardinality(LandingPosts(c))
       /\ c \in ListCategories => \A w \in Settings :
            Respond(w, CategoryUrl(w, RoutePath(Root, c)), TRUE) = Landing(c)
  /\ \A item \in Feed : BlogPostAtPath(item.path) = item.document
  /\ \A w \in Settings : \A path \in Paths :
       \A d \in LeadsTo(w, Url("community", TRUE, path)) :
         BlogPostAtPath(path) \in {0, d}

\* Two requests that may share a cache entry have the same answer: the key
\* holds the URL and not the Accept header.
SharedEntriesAgree ==
  \A w \in Settings : \A url \in Urls(w) :
    Cacheable(w, url, TRUE) /\ Cacheable(w, url, FALSE) =>
      Respond(w, url, TRUE) = Respond(w, url, FALSE)

\* The home page shows every post once: pins are not repeated, and removing
\* them never leaves a list shorter than it could be (home_feed: "newest
\* published documents with every pin removed").
HomeFeedFilled ==
  \A pinned \in SUBSET PublishedDocuments :
    /\ \A newest \in SetToSeqs(PublishedDocuments) :
         LET recent == RecentItems(newest, pinned)
             rest == Cardinality(PublishedDocuments \ pinned)
         IN /\ ToSet(recent) \cap pinned = {}
            /\ Len(recent) = IF rest < FeedLimit THEN rest ELSE FeedLimit
    /\ LET items == SectionItems(pinned)
           shown == {d \in PublishedDocuments \ pinned :
                       Categorised(d) /\ categories[PublishedPath(d).category] = "active"}
       IN /\ Cardinality(ToSet(items)) = Len(items)
          /\ ToSet(items) \subseteq shown
          /\ Len(items) = IF Cardinality(shown) < FeedLimit THEN Cardinality(shown)
                                                             ELSE FeedLimit

\* Every address the site hands out, or has ever handed out, is served: new URLs
\* directly, old ones through redirects that end at a page.
AddressesServed == AdvertisedUrlsServed /\ RedirectsSettle /\ OldAddressesLead

\* The handlers that show the same posts by different queries, as pages, as JSON
\* or as a feed, and the cache that shares their answers, show the same posts.
ViewsAgree == InterfacesAgree /\ SharedEntriesAgree /\ HomeFeedFilled

\* What anonymous readers can see of the site.
PublicView ==
  [w \in Settings |-> [url \in Urls(w) |-> Respond(w, url, TRUE)]]

\* A step that writes a revision or the placement of one - a draft, an AI
\* proposal, a draft moved to another category - changes nothing a reader
\* sees.  The handlers rely on it: of them only create_post, which may have to
\* provision the site, begins a cache mutation (begin_public_mutation).
DraftsInvisible == [][revisions' # revisions => PublicView' = PublicView]_vars

\* "Legacy flat post paths redirect to the corresponding natural category path
\* only when the site's published leaf slug has one unambiguous match": below
\* the handle such a path leads to the post, however the slug is spelled.
FlatPathsLead ==
  \A w \in Settings, slug \in Slugs :
    LET leaf == GetUniquePublishedByLeafSlug(slug)
        flat == RoutePath(Root, slug)
    IN
    GetPublishedBySlug(flat) = 0 /\ CategoriesBySlug(slug) = {} /\ Categorised(leaf) =>
      LeadsTo(w, Url("community", TRUE, flat)) = {leaf}

\* "While enabled, `references` is a reserved top-level route segment and cannot
\* also be [...] a published noncanonical root alias": a server that has been
\* running with the page enabled can be started again.
ReferencesRestartable == \A w \in Settings : EnsureReferencesNamespace(w)
=============================================================================
