-------------------------- MODULE MCOfflineImport --------------------------
(* An instance of OfflineImport for TLC. *)
EXTENDS OfflineImport

MCFold == [s \in Slugs |-> s]

\* The primary site with the references page.
MCSettings == [primary : {TRUE}, provisioned : {FALSE}, references : {TRUE}]

Post(key, slug, aliases, digest) ==
  [key |-> key, slug |-> slug, category |-> "news", aliases |-> aliases,
   digest |-> digest, at |-> "2019"]

First(digest) == Post("k1", "post", {RoutePath(Root, "post")}, digest)
Second == Post("k2", "references", {}, NoDigest)

\* A first batch, one that continues it under another name, two that reuse a source
\* id for another post or with another time, and one whose alias is a route of the
\* application.
MCBatches ==
  {[owner |-> "owner", declares |-> {"news"}, posts |-> <<First("t1")>>],
   [owner |-> "renamed", declares |-> {}, posts |-> <<First(NoDigest), Second>>],
   [owner |-> "owner", declares |-> {}, posts |-> <<Post("k1", "post", {}, NoDigest)>>],
   [owner |-> "owner", declares |-> {}, posts |-> <<[First(NoDigest) EXCEPT !.at = "2020"]>>],
   [owner |-> "owner", declares |-> {"news"},
    posts |-> <<Post("k2", "references", {RoutePath(Root, "references")}, NoDigest)>>]}

\* The file, the same file rewritten and grown, another file, a symbolic link.
MCFileStates ==
  {[ino |-> 1, regular |-> TRUE, len |-> 1, body |-> "t1"],
   [ino |-> 1, regular |-> TRUE, len |-> 2, body |-> "t2"],
   [ino |-> 2, regular |-> TRUE, len |-> 1, body |-> "t3"],
   [ino |-> 3, regular |-> FALSE, len |-> 1, body |-> "t3"]}
=============================================================================
