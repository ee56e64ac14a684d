------------------------------ MODULE Services ------------------------------
(***************************************************************************)
(* The services a server uses or offers beside its content: summaries, the *)
(* connection to Redis, the code runner, the administrator's sign-in and   *)
(* program tree, the MCP adapter before it, the release check and the      *)
(* image store.  They share no state, so a behaviour follows one of them;  *)
(* `focus` says which.  (The two ways to sign in belong to different       *)
(* configurations.)                                                        *)
(***************************************************************************)
EXTENDS Summaries, RedisLink, CodeRunner, SignIn, Mcp, AdminTree, Releases,
        AssetStore

VARIABLE focus

servicesVars ==
  <<focus, summaryVars, linkVars, runnerVars, signInVars, mcpVars, treeVars, releaseVars, assetVars>>

Init ==
  /\ focus \in {"limiter", "summaries", "redis", "runner", "access_key", "external", "mcp",
               "tree", "releases", "assets"}
  /\ SummariesInit
  /\ LinkInit
  /\ RunnerInit
  /\ SignInInit
  /\ McpInit
  /\ TreeInit
  /\ ReleasesInit
  /\ AssetInit
  \* Elsewhere the choices of one service do not matter.
  /\ focus # "runner" =>
       ~active /\ profiles = CHOOSE ps \in SUBSET CandidateProfiles : ValidRegistry(ps)
  /\ focus # "access_key" => accessKey = NoKey
  /\ focus # "summaries" => editor = CHOOSE text \in Texts : TRUE
  /\ focus # "mcp" => config = CHOOSE c \in McpConfigs : ValidConfig(c)
  /\ focus # "releases" => ~enabled /\ served = Unreachable

\* Requests for summaries over time, and while the writer is editing.
FollowLimiter ==
  /\ focus = "limiter"
  /\ SummaryCallsNext \/ SummaryInstantPasses
  /\ UNCHANGED <<focus, linkVars, runnerVars, signInVars, mcpVars, treeVars, releaseVars, assetVars>>

FollowSummaries ==
  /\ focus = "summaries"
  /\ SummaryCallsNext \/ EditingNext
  /\ UNCHANGED <<focus, linkVars, runnerVars, signInVars, mcpVars, treeVars, releaseVars, assetVars>>

FollowRedis ==
  /\ focus = "redis"
  /\ LinkNext
  /\ UNCHANGED <<focus, summaryVars, runnerVars, signInVars, mcpVars, treeVars, releaseVars, assetVars>>

FollowRunner ==
  /\ focus = "runner"
  /\ RunnerNext
  /\ UNCHANGED <<focus, summaryVars, linkVars, signInVars, mcpVars, treeVars, releaseVars, assetVars>>

FollowAccessKey ==
  /\ focus = "access_key"
  /\ \/ AccessKeyNext
     \/ SignInInstantPasses
     \/ \E s \in Servers : RestartServer(s, bindings[s])
  /\ UNCHANGED <<focus, summaryVars, linkVars, runnerVars, mcpVars, treeVars, releaseVars, assetVars>>

FollowExternal ==
  /\ focus = "external"
  /\ \/ ExternalNext
     \/ SignInInstantPasses
     \/ \E s \in Servers, binding \in 1..2 : RestartServer(s, binding)
  /\ UNCHANGED <<focus, summaryVars, linkVars, runnerVars, mcpVars, treeVars, releaseVars, assetVars>>

FollowMcp ==
  /\ focus = "mcp"
  /\ McpNext
  /\ UNCHANGED <<focus, summaryVars, linkVars, runnerVars, signInVars, treeVars, releaseVars, assetVars>>

FollowTree ==
  /\ focus = "tree"
  /\ TreeNext
  /\ UNCHANGED <<focus, summaryVars, linkVars, runnerVars, signInVars, mcpVars, releaseVars, assetVars>>

FollowReleases ==
  /\ focus = "releases"
  /\ ReleasesNext
  /\ UNCHANGED <<focus, summaryVars, linkVars, runnerVars, signInVars, mcpVars, treeVars, assetVars>>

FollowAssets ==
  /\ focus = "assets"
  /\ AssetNext
  /\ UNCHANGED <<focus, summaryVars, linkVars, runnerVars, signInVars, mcpVars, treeVars, releaseVars>>

Next ==
  \/ FollowAssets \/ FollowMcp \/ FollowTree \/ FollowReleases
  \/ FollowLimiter \/ FollowSummaries \/ FollowRedis \/ FollowRunner
  \/ FollowAccessKey \/ FollowExternal

\* Only the Redis connection, or only the release check, takes the step.
OnlyRedis == UNCHANGED <<focus, summaryVars, runnerVars, signInVars, mcpVars, treeVars, releaseVars, assetVars>>
OnlyReleases == UNCHANGED <<focus, summaryVars, linkVars, runnerVars, signInVars, mcpVars, treeVars, assetVars>>

\* Requests keep coming, the runtime goes on with each of them and with its
\* background task, and time passes.  Nothing is assumed of Redis, of brokers,
\* of the release channel or of people.
Fairness ==
  /\ \A c \in Callers :
       /\ WF_servicesVars(focus = "redis" /\ AskManager(c) /\ OnlyRedis)
       /\ WF_servicesVars(focus = "redis" /\ CallerStep(c) /\ OnlyRedis)
  /\ WF_servicesVars(focus = "redis" /\ PauseElapses /\ OnlyRedis)
  /\ WF_servicesVars(focus = "releases" /\ (Refresh \/ RefreshFails) /\ OnlyReleases)
  /\ WF_servicesVars(focus = "releases" /\ IntervalElapses /\ OnlyReleases)

Spec == Init /\ [][Next]_servicesVars /\ Fairness

---------------------------------------------------------------------------
(* Properties; those of one service are in its module. *)

\* When Redis stays up and requests keep coming, a connection is found, the
\* breaker closes and the cache is reported ready, for good: neither a leader
\* that was cancelled nor an open breaker locks the server out.
LinkRecovers ==
  focus = "redis" =>
    (<>[]redis.up => <>[](slot.manager # NoManager /\ RetryAllowed /\ ready))

\* Once the channel serves valid documents with a newer release for good, the
\* footer says so for good: no outage and no broken document before stops the
\* check.
ReleaseLearnt ==
  focus = "releases" =>
    (<>[](enabled /\ Usable(served) /\ UpdateAvailable(served))
       => <>[](PublicStatus = "update_available"))

\* The footer never misjudges the document it holds, and it comes to hold the
\* one the channel serves.
FooterTruthful == []UpdateSeen /\ ReleaseLearnt

\* The callers share one connection: one of them at a time tries to make it,
\* and a late error of an old connection does not take away the new one.
ConnectionShared == []OneConnectionAttempt /\ FreshManagerKept
=============================================================================
