--------------------------------- MODULE Mcp ---------------------------------
(***************************************************************************)
(* The MCP adapter (apps/mcp): one stdio connection with a language model  *)
(* host on one side and the HTTP interface of the server on the other.     *)
(* Frames are handled one after the other, so one call at most is under    *)
(* way; its HTTP answer may be lost after the server has acted.            *)
(*                                                                         *)
(* Arguments of a call are the names it gives and, for each of them, which *)
(* kind of value it has; authorship is spelled out.  The server is reduced *)
(* to one document: what Content says of its revisions.                    *)
(***************************************************************************)
EXTENDS Integers, Sequences, FiniteSets

CONSTANTS
  McpConfigs,   \* configurations somebody may start the adapter with
  ToolCalls,    \* calls a host may make: tool, arguments
  Nothing,
  MaxRevisions, \* bound: revisions of the document
  MaxMinutes,   \* bound: minutes that pass
  MaxMcpStarts  \* bound: starts of the adapter

VARIABLES
  config,     \* the configuration of the running adapter
  lifecycle,
  minute,     \* RateLimiter: the calls of the current window
  minutes,    \* minutes passed
  starts,
  asked,      \* the last call, as it was made, or Nothing
  request,    \* the HTTP request under way, or Nothing
  reply,      \* the result of the last call
  history     \* at the server: the keys of the document's revisions, in order

mcpVars == <<config, lifecycle, minute, minutes, starts, asked, request, reply, history>>

\* Config::new: a token, and HTTPS or a loopback address, for writing.
ValidConfig(c) ==
  /\ c.url \in {"https", "http_loopback", "http_remote"}
  /\ c.mode = "write" => c.url # "http_remote" /\ c.token
  /\ c.limit > 0

McpInit ==
  /\ config \in {c \in McpConfigs : ValidConfig(c)}
  /\ lifecycle = "new"
  /\ minute = 0 /\ minutes = 0 /\ starts = 1
  /\ asked = Nothing /\ request = Nothing /\ reply = Nothing
  /\ history = <<"first">>

---------------------------------------------------------------------------
(* What the tools are said to take, and what they take. *)

ContentFields == {"title", "slug", "sourceMarkdown", "embeds", "intent", "ontology", "authorship"}
WrittenFields == {"title", "slug", "sourceMarkdown", "authorship"}
RevisionFields == {"documentId", "baseRevisionId", "idempotencyKey"}

ToolNames(mode) ==
  {"osb_content_list", "osb_content_read"} \cup
  (IF mode = "write"
   THEN {"osb_content_create", "osb_content_revise", "osb_content_publish"} ELSE {})

\* ApiCommand: what parse_command may make of a call.
ContentCommands ==
  [kind : {"list_published", "list_all", "read_published", "read_document", "create", "publish"},
   authenticated : BOOLEAN]
  \cup [kind : {"revise"}, authenticated : {TRUE}, key : {call.key : call \in ToolCalls},
        base : {call.base : call \in ToolCalls}]

\* What a host may be told of a call.
Replies == {"unknown_tool", "limited", "invalid", "ok", "conflict", "duplicate_key", "error"}

\* The kinds of values an argument may have.  Apart from "plain" and
\* "wrong_type" (another JSON type, no member of the enumeration, no UUID):
\*   blank       white space only
\*   unsafe      with NUL, or for a slug or a generator a control character
\*               or a path separator
\*   many_bytes  within the limit in characters, over it in bytes
\*   padded      over the limit, but not once the white space around it is gone
\*   odd_items   embeds that are no objects, or more of them than announced
\*   other_form  a UUID in braces, as a URN or without hyphens
Values == {"plain", "wrong_type", "blank", "unsafe", "many_bytes", "padded",
           "odd_items", "other_form"}

\* A call names a tool of the adapter: others are refused unseen.
ASSUME McpAssumption ==
  /\ \A call \in ToolCalls :
       /\ call.tool \in ToolNames("write")
       /\ call.value \in [call.given -> Values]
       /\ call.authorship.generator \in Values
  /\ Nothing \notin Replies \cup ContentCommands

\* The types, lengths in characters, enumerations and formats of the schemas:
\* content_schema_properties and the properties written out for each tool.
SchemaTakes(value) == value \in {"plain", "blank", "unsafe", "many_bytes"}

\* required_string, validate_bounded_text, validate_slug, parse_uuid, and what
\* content_body asks of the Markdown, the embeds and the sidecars.
ParserTakes(name, value) ==
  \/ value \in {"plain", "odd_items", "other_form"}
  \/ value = "blank" /\ name = "sourceMarkdown"
  \/ value = "many_bytes" /\ name \in {"title", "idempotencyKey"}
  \/ value = "padded" /\ name \in {"title", "slug", "idempotencyKey"}

SchemaRefuses(call) == {name \in call.given : ~SchemaTakes(call.value[name])}
ParserRefuses(call) == {name \in call.given : ~ParserTakes(name, call.value[name])}

\* public_authorship_schema
AuthorshipSchema(authorship) ==
  /\ "kind" \in authorship.given /\ "humanReviewed" \in authorship.given
  /\ authorship.given \subseteq {"kind", "generator", "humanReviewed"}
  /\ authorship.kind \in {"human", "ai_generated", "ai_assisted", "imported"}
  /\ authorship.kind = "human" => "generator" \notin authorship.given
  /\ authorship.kind # "human" => "generator" \in authorship.given
  /\ "generator" \in authorship.given => SchemaTakes(authorship.generator)

\* The inputSchema of a tool in tool_definitions.
InputSchema(tool) ==
  CASE tool = "osb_content_list" -> [properties |-> {"includeDrafts"}, required |-> {}]
    [] tool = "osb_content_read" ->
         [properties |-> {"slug", "documentId", "view"}, required |-> {}]
    [] tool = "osb_content_create" ->
         [properties |-> ContentFields, required |-> WrittenFields]
    [] tool = "osb_content_revise" ->
         [properties |-> ContentFields \cup RevisionFields,
          required |-> WrittenFields \cup RevisionFields]
    [] tool = "osb_content_publish" ->
         [properties |-> {"documentId", "revisionId"},
          required |-> {"documentId", "revisionId"}]

SchemaAccepts(call) ==
  LET schema == InputSchema(call.tool) IN
  /\ SchemaRefuses(call) = {}
  /\ schema.required \subseteq call.given /\ call.given \subseteq schema.properties
  /\ call.tool = "osb_content_read" => Cardinality(call.given \cap {"slug", "documentId"}) = 1
  /\ "authorship" \in call.given => AuthorshipSchema(call.authorship)

\* validate_public_authorship
ValidAuthorship(authorship) ==
  /\ authorship.given \subseteq {"kind", "generator", "humanReviewed"}
  /\ {"kind", "humanReviewed"} \subseteq authorship.given
  /\ \/ authorship.kind = "human" /\ "generator" \notin authorship.given
     \/ /\ authorship.kind \in {"ai_generated", "ai_assisted", "imported"}
        /\ "generator" \in authorship.given /\ authorship.generator = "plain"

\* content_body
ContentBody(call) ==
  /\ ParserRefuses(call) \cap ContentFields = {}
  /\ {"title", "slug", "sourceMarkdown", "authorship"} \subseteq call.given
  /\ ValidAuthorship(call.authorship)

\* ensure_only
EnsureOnly(call, allowed) == call.given \subseteq allowed

\* An argument that must be given, and one that may be.
Required(call, names) == names \subseteq call.given \ ParserRefuses(call)
Optional(call, names) == names \cap ParserRefuses(call) = {}

Command(kind, authenticated) == [kind |-> kind, authenticated |-> authenticated]

\* Mutant: the tool that reads is allowed in both modes, so drafts are too.
ListCommandUnchecked(call, mode) ==
  IF ~EnsureOnly(call, {"includeDrafts"}) \/ ~Optional(call, {"includeDrafts"})
  THEN Nothing
  ELSE IF "includeDrafts" \notin call.given THEN Command("list_published", FALSE)
  ELSE Command("list_all", TRUE)

\* parse_command for osb_content_list; includeDrafts stands for `true`.
ListCommand(call, mode) ==
  IF ~EnsureOnly(call, {"includeDrafts"}) \/ ~Optional(call, {"includeDrafts"})
  THEN Nothing
  ELSE IF "includeDrafts" \notin call.given THEN Command("list_published", FALSE)
  ELSE IF mode = "write" THEN Command("list_all", TRUE) ELSE Nothing

\* ... for osb_content_read; the view is looked at only beside a slug.
ReadCommand(call, mode) ==
  LET by == call.given \cap {"slug", "documentId"} IN
  IF ~EnsureOnly(call, {"slug", "documentId", "view"}) \/ ~Optional(call, {"slug", "documentId"})
  THEN Nothing
  ELSE IF by = {"slug"} /\ Optional(call, {"view"}) THEN Command("read_published", FALSE)
  ELSE IF by = {"documentId"} /\ mode = "write" THEN Command("read_document", TRUE)
  ELSE Nothing

\* Mutant: a revision is parsed like a new document.
WriteCommandStrict(call, mode) ==
  IF mode # "write" THEN Nothing
  ELSE IF call.tool = "osb_content_create" /\ EnsureOnly(call, ContentFields) /\ ContentBody(call)
  THEN Command("create", TRUE)
  ELSE IF /\ call.tool = "osb_content_revise"
          /\ EnsureOnly(call, WrittenFields \cup RevisionFields)
          /\ Required(call, RevisionFields) /\ ContentBody(call)
  THEN [kind |-> "revise", authenticated |-> TRUE, key |-> call.key, base |-> call.base]
  ELSE IF /\ call.tool = "osb_content_publish"
          /\ EnsureOnly(call, {"documentId", "revisionId"})
          /\ Required(call, {"documentId", "revisionId"})
  THEN Command("publish", TRUE)
  ELSE Nothing

\* ... for the tools that write
WriteCommand(call, mode) ==
  IF mode # "write" THEN Nothing
  ELSE IF call.tool = "osb_content_create" /\ EnsureOnly(call, ContentFields) /\ ContentBody(call)
  THEN Command("create", TRUE)
  ELSE IF /\ call.tool = "osb_content_revise"
          /\ EnsureOnly(call, ContentFields \cup RevisionFields)
          /\ Required(call, RevisionFields) /\ ContentBody(call)
  THEN [kind |-> "revise", authenticated |-> TRUE, key |-> call.key, base |-> call.base]
  ELSE IF /\ call.tool = "osb_content_publish"
          /\ EnsureOnly(call, {"documentId", "revisionId"})
          /\ Required(call, {"documentId", "revisionId"})
  THEN Command("publish", TRUE)
  ELSE Nothing

ParseCommand(call, mode) ==
  CASE call.tool = "osb_content_list" -> ListCommand(call, mode)
    [] call.tool = "osb_content_read" -> ReadCommand(call, mode)
    [] OTHER -> WriteCommand(call, mode)

---------------------------------------------------------------------------
(* The connection. *)

\* initialize, with parameters of the right form; others leave no trace.
Initialize ==
  /\ request = Nothing
  /\ lifecycle = "new"
  /\ lifecycle' = "awaiting_initialized"
  /\ UNCHANGED <<config, minute, minutes, starts, asked, request, reply, history>>

\* handle_notification
Initialized ==
  /\ request = Nothing
  /\ lifecycle = "awaiting_initialized"
  /\ lifecycle' = "ready"
  /\ UNCHANGED <<config, minute, minutes, starts, asked, request, reply, history>>

\* call_tool to the request: an unknown tool is refused, then the limiter
\* counts the call, then the arguments are parsed.
CallTool(call) ==
  /\ request = Nothing
  /\ lifecycle = "ready"
  /\ asked' = call
  /\ IF call.tool \notin ToolNames(config.mode)
     THEN reply' = "unknown_tool" /\ UNCHANGED <<minute, request>>
     ELSE IF minute >= config.limit
     THEN reply' = "limited" /\ UNCHANGED <<minute, request>>
     ELSE LET command == ParseCommand(call, config.mode) IN
          /\ minute' = minute + 1
          /\ request' = command
          /\ reply' = IF command = Nothing THEN "invalid" ELSE Nothing
  /\ UNCHANGED <<config, lifecycle, minutes, starts, history>>

UsedKeys == {history[i] : i \in DOMAIN history}

\* Mutant: the column of the keys is not unique.
RevisionAnswerAnyKey(command) ==
  IF command.base # Len(history) THEN "conflict" ELSE "ok"

\* append_revision_in_transaction_with_category: the base must be the current revision, then
\* the key must be new; a used key is refused, not answered with what it made.
RevisionAnswer(command) ==
  IF command.base # Len(history) THEN "conflict"
  ELSE IF command.key \in UsedKeys THEN "duplicate_key" ELSE "ok"

Revised(command) ==
  IF RevisionAnswer(command) = "ok" THEN Append(history, command.key) ELSE history

\* HttpContentApi::execute comes back, and the answer is shaped.
ApiAnswers ==
  /\ request # Nothing
  /\ request.kind = "revise" => Len(history) < MaxRevisions
  /\ IF request.kind = "revise"
     THEN history' = Revised(request) /\ reply' = RevisionAnswer(request)
     ELSE reply' = "ok" /\ UNCHANGED history
  /\ request' = Nothing
  /\ UNCHANGED <<config, lifecycle, minute, minutes, starts, asked>>

\* A timeout, a broken connection, a body past the limit or without JSON: an
\* error is reported although the server may have acted.
ApiLost(acted) ==
  /\ request # Nothing
  /\ acted => Len(history) < MaxRevisions
  /\ history' = IF acted /\ request.kind = "revise" THEN Revised(request) ELSE history
  /\ reply' = "error"
  /\ request' = Nothing
  /\ UNCHANGED <<config, lifecycle, minute, minutes, starts, asked>>

\* Another author writes at the server meanwhile.
OthersRevise ==
  /\ Len(history) < MaxRevisions
  /\ history' = Append(history, "other")
  /\ UNCHANGED <<config, lifecycle, minute, minutes, starts, asked, request, reply>>

\* RateLimiter::allow, after a minute.
MinutePasses ==
  /\ minutes < MaxMinutes
  /\ minutes' = minutes + 1
  /\ minute' = 0
  /\ UNCHANGED <<config, lifecycle, starts, asked, request, reply, history>>

\* run_stdio ends with its input; the host starts the adapter again, perhaps
\* configured otherwise.  A request under way is dropped; the server may act.
RestartMcp(c, acted) ==
  /\ starts < MaxMcpStarts /\ starts' = starts + 1
  /\ ValidConfig(c) /\ config' = c
  /\ acted => request # Nothing /\ Len(history) < MaxRevisions
  /\ history' = IF request # Nothing /\ acted /\ request.kind = "revise"
                THEN Revised(request) ELSE history
  /\ lifecycle' = "new" /\ minute' = 0
  /\ asked' = Nothing /\ request' = Nothing /\ reply' = Nothing
  /\ UNCHANGED minutes

McpNext ==
  \/ Initialize
  \/ Initialized
  \/ \E call \in ToolCalls : CallTool(call)
  \/ ApiAnswers
  \/ \E acted \in BOOLEAN : ApiLost(acted)
  \/ OthersRevise
  \/ MinutePasses
  \/ \E c \in McpConfigs, acted \in BOOLEAN : RestartMcp(c, acted)

---------------------------------------------------------------------------
(* Properties. *)

\* The token of the adapter travels only in write mode and only over HTTPS or
\* to this machine, also when a token is configured beside read mode: the tools
\* of read mode make no request that would carry it.
TokenTravelsSafely ==
  request # Nothing =>
    (request.authenticated =>
       config.mode = "write" /\ config.token /\ config.url # "http_remote")

\* Does a call have a value of one of these kinds?
Uses(call, values) ==
  \/ \E name \in call.given : call.value[name] \in values
  \/ /\ "authorship" \in call.given /\ "generator" \in call.authorship.given
     /\ call.authorship.generator \in values

\* The schemas the adapter publishes and the arguments it takes are two texts.
\* In write mode they agree but for these values.  The parser alone refuses a
\* call only for a text that is blank, unsafe or too long in bytes; it alone
\* takes one only if a text is padded, a UUID in another form or the embeds odd,
\* or if a view, which nobody looks at then, stands beside documentId.
SchemaMatchesParser ==
  asked # Nothing /\ config.mode = "write" /\ reply # "limited" =>
    /\ reply = "invalid" /\ SchemaAccepts(asked)
         => Uses(asked, {"blank", "unsafe", "many_bytes"})
    /\ reply # "invalid" /\ ~SchemaAccepts(asked)
         => \/ Uses(asked, {"padded", "odd_items", "other_form"})
            \/ {"view", "documentId"} \subseteq asked.given

\* A host that repeats a revision because its answer was lost, through a new
\* adapter or with the base it has read meanwhile, makes no second revision.
RevisedOnce ==
  \A i, j \in DOMAIN history :
    history[i] = history[j] /\ history[i] # "other" => i = j

\* What the adapter tells its host and what it does agree: the token goes only
\* where write mode allows it, the schemas are what the parser takes but for the
\* values named above, and a retried revision is made once.
McpFaithful == TokenTravelsSafely /\ SchemaMatchesParser /\ RevisedOnce
=============================================================================
