----------------------------- MODULE MCServices -----------------------------
(* Small instances of the services for TLC.                                *)
EXTENDS Services

\* A usable reply, and one for each way to be unusable.
GoodReply ==
  [status |-> "success", oversized |-> FALSE, finished |-> TRUE,
   parts |-> {"text", "thought"}, controls |-> FALSE, wordy |-> FALSE]
MCReplies ==
  {GoodReply, [GoodReply EXCEPT !.status = "unauthorized"],
   [GoodReply EXCEPT !.oversized = TRUE], [GoodReply EXCEPT !.finished = FALSE],
   [GoodReply EXCEPT !.parts = {"thought"}], [GoodReply EXCEPT !.controls = TRUE],
   [GoodReply EXCEPT !.wordy = TRUE]}

MCMeters == {"wall", "cpu", "memory", "output", "processes"}
MCGlobalRange == [m \in MCMeters |-> 1..3]
MCDefaultLimits == [m \in MCMeters |-> IF m = "cpu" THEN 1 ELSE 2]
MCMaximum == [m \in MCMeters |-> 3]

\* Two profiles that fit together; one with the id of the first and one with
\* less memory than the default.
MCProfiles ==
  {[id |-> "rust", digest |-> 1, aliases |-> {"rust"}, maximum |-> MCMaximum],
   [id |-> "rust", digest |-> 2, aliases |-> {"rs"}, maximum |-> MCMaximum],
   [id |-> "web", digest |-> 3, aliases |-> {"html"},
    maximum |-> [MCMaximum EXCEPT !["memory"] = 1]]}

\* The broker has the profiles, an older version of one, or lists one twice.
MCBrokerProfiles ==
  {{[id |-> "rust", digest |-> 1], [id |-> "web", digest |-> 3]},
   {[id |-> "rust", digest |-> 2]},
   {[id |-> "rust", digest |-> 1], [id |-> "rust", digest |-> 2]}}

\* Reading and writing over every kind of address, with a token, and without.
MCMcpConfigs ==
  [mode : {"read", "write"}, url : {"https", "http_remote"}, token : {TRUE}, limit : {1}]
    \cup [mode : {"write"}, url : {"https"}, token : {FALSE}, limit : {1}]

HumanAuthorship ==
  [given |-> {"kind", "humanReviewed"}, kind |-> "human", generator |-> "plain"]
GeneratedAuthorship ==
  [given |-> {"kind", "humanReviewed", "generator"}, kind |-> "ai_assisted",
   generator |-> "plain"]
Authorships ==
  {HumanAuthorship, GeneratedAuthorship,
   [HumanAuthorship EXCEPT !.kind = "imported"], [HumanAuthorship EXCEPT !.kind = "agent"],
   [GeneratedAuthorship EXCEPT !.kind = "human"],
   [GeneratedAuthorship EXCEPT !.given = {"kind", "generator"}]}
    \cup {[GeneratedAuthorship EXCEPT !.generator = value] :
             value \in {"wrong_type", "blank", "unsafe", "many_bytes", "padded"}}

\* For every tool all that is allowed, only what is required, one argument less,
\* one more, and one with each other kind of value it may have; the fields that
\* create and revise share get those values with create.
Givens(tool) ==
  LET schema == InputSchema(tool) IN
  {schema.properties, schema.required, schema.properties \cup {"actor"}}
    \cup {schema.properties \ {name} : name \in schema.properties}
    \cup {schema.required \ {name} : name \in schema.required}
OddValues(name) ==
  {"wrong_type"} \cup
  CASE name \in {"title", "slug", "sourceMarkdown", "idempotencyKey"} ->
         {"blank", "unsafe", "many_bytes", "padded"}
    [] name = "embeds" -> {"odd_items"}
    [] name \in {"documentId", "baseRevisionId", "revisionId"} -> {"other_form"}
    [] OTHER -> {}
PlainCall(tool, given) ==
  [tool |-> tool, given |-> given, value |-> [name \in given |-> "plain"],
   authorship |-> HumanAuthorship, key |-> "k", base |-> 1]
OddCalls(tool, given) ==
  UNION {{[PlainCall(tool, given) EXCEPT !.value[name] = value] : value \in OddValues(name)} :
           name \in given}
MCToolCalls ==
  LET tools == ToolNames("write")
      full(tool) == InputSchema(tool).properties
  IN UNION {{PlainCall(tool, given) : given \in Givens(tool)} : tool \in tools}
       \cup UNION {OddCalls(tool, full(tool)) :
                     tool \in tools \ {"osb_content_read", "osb_content_revise"}}
       \cup {call \in OddCalls("osb_content_revise", full("osb_content_revise")) :
               \A name \in WrittenFields : call.value[name] = "plain"}
       \cup UNION {{PlainCall("osb_content_read", {by, "view"})}
                     \cup OddCalls("osb_content_read", {by, "view"}) :
                     by \in {"slug", "documentId"}}
       \cup {[PlainCall("osb_content_create", WrittenFields) EXCEPT !.authorship = who] :
               who \in Authorships}
       \cup {[PlainCall("osb_content_revise", full("osb_content_revise"))
                EXCEPT !.key = key, !.base = base] : key \in {"k", "l"}, base \in 1..3}

\* The server runs version 2 and was built with a document up to it.
Entry(version, commit) == [version |-> version, commit |-> commit, fits |-> TRUE]
Document(entries) ==
  [form |-> TRUE, entries |-> entries,
   latest |-> IF entries = <<>> THEN NoEntry ELSE entries[1].version]
MCBundled == Document(<<Entry(2, 2), Entry(1, 1)>>)

\* None, the same, a newer release; and one document for each check to refuse.
MCChannelDocuments ==
  LET next == Document(<<Entry(3, 3), Entry(2, 2), Entry(1, 1)>>) IN
  {Document(<<>>), MCBundled, next,
   [next EXCEPT !.form = FALSE], [next EXCEPT !.latest = 2], [next EXCEPT !.latest = NoEntry],
   [next EXCEPT !.entries[1].fits = FALSE],
   Document(<<Entry(2, 2), Entry(3, 3)>>), Document(<<Entry(2, 2), Entry(2, 1)>>),
   Document(<<Entry(3, 2), Entry(2, 2)>>)}

\* Three uploads of the same bytes and one of others.
MCDigestOf == [u \in Uploads |-> IF u = "other" THEN "b" ELSE "a"]
=============================================================================
