-------------------------- MODULE MCConfiguration --------------------------
(* Bootstrap command lines for TLC: every combination of intent, address,   *)
(* accounts, administrator module and community switches with one cache and *)
(* style, and every cache and style with the defaults.                      *)
EXTENDS Configuration

Base == [intent |-> "personal", url |-> "https", auth |-> Unset,
         admin |-> Unset, external |-> Unset, comments |-> Unset,
         collaboration |-> FALSE, registration |-> FALSE, seo |-> TRUE,
         dlcs |-> {}, cache |-> "redis_managed", style |-> "custom",
         copied |-> TRUE]

MCChoices ==
  {[Base EXCEPT !.intent = i, !.url = u, !.auth = a, !.admin = m,
                !.external = x, !.comments = c, !.collaboration = o,
                !.registration = r, !.dlcs = d] :
     i \in Intents, u \in Urls \ {"malformed"}, a \in Accounts \cup {Unset},
     m \in {Unset, "external", "disabled"}, x \in {Unset, "valid"},
     c \in BOOLEAN \cup {Unset}, o \in BOOLEAN, r \in BOOLEAN,
     d \in {{}, {"none"}, {"ai_summary"}}}
  \cup
  {[Base EXCEPT !.cache = c, !.style = s, !.seo = e, !.dlcs = d, !.copied = k,
                !.intent = i] :
     c \in Caches, s \in Styles, e \in BOOLEAN, d \in {{}, {"none"}, {"seo"}},
     k \in BOOLEAN, i \in {"personal", "delivery"}}

\* Deployments whose files are edited: a writable one with accounts and one
\* with an identity provider, a reading one, and one without Redis.
MCEditedChoices ==
  {[Base EXCEPT !.intent = "community", !.dlcs = {"ai_summary"},
                !.admin = "disabled"],
   [Base EXCEPT !.admin = "external", !.external = "valid"],
   [Base EXCEPT !.intent = "delivery", !.cache = "none", !.style = "none"],
   [Base EXCEPT !.cache = "redis_standalone", !.style = "builtin",
                !.seo = FALSE]}
=============================================================================
