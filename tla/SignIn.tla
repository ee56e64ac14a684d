-------------------------------- MODULE SignIn --------------------------------
(***************************************************************************)
(* Administrator sign-in (admin_auth.rs) on several server processes that  *)
(* share Redis: the exchange of the access key, with its three limits, and *)
(* the OpenID Connect flow of the external administrator module.           *)
(*                                                                         *)
(* The identity provider and Redis are external.  One number stands for    *)
(* the state, the nonce and the PKCE verifier of a flow, which are random  *)
(* and made together.                                                      *)
(***************************************************************************)
EXTENDS RateLimiter

CONSTANTS
  Servers,
  Browsers,
  Keys,               \* access keys people type
  VerificationSlots,  \* ACCESS_KEY_VERIFICATION_CONCURRENCY, 2
  StateLifetime,      \* OIDC_STATE_LIFETIME
  NoKey, NoWindow, NoCookie, NoSignIn,
  MaxTime,            \* bound: instants
  MaxFlows,           \* bound: flows started
  MaxSignInFaults     \* bound: restarts and lost Redis answers

ASSUME SignInAssumption ==
  /\ IsFiniteSet(Browsers)
  /\ VerificationSlots \in Nat
  /\ StateLifetime \in Nat
  /\ NoWindow \notin [count : Nat, expires : Nat]

VARIABLES
  time,
  faults,     \* restarts and lost answers so far
  windows,    \* Redis: per key its count and expiry, or NoWindow
  attempts,   \* per server, its KeyedRateLimiter
  permits,    \* per server, free verification slots
  exchanges,  \* per browser, its exchange under way
  verified,   \* exchanges whose key was right, before their attempts are forgotten
  accessKey,  \* the key behind the PHC string, perhaps one nobody types
  hashed,     \* per key, the verifications since its window in Redis began
  bindings,   \* per server, the administrator binding it was started with
  started,    \* every flow started: browser, instant and binding
  cookies,    \* per browser, its osb_oidc_state cookie or NoCookie
  codes,      \* authorisation codes the provider gave out and not yet took back
  finishing,  \* per browser, its callback under way or NoSignIn
  grants      \* sessions given to external sign-ins

keyVars == <<accessKey, windows, attempts, permits, exchanges, verified, hashed>>
externalVars == <<bindings, started, cookies, codes, finishing, grants>>
signInVars == <<time, faults, keyVars, externalVars>>

NoExchange == [phase |-> "none"]

SignInInit ==
  /\ time = 0
  /\ faults = 0
  /\ accessKey \in Keys \cup {NoKey}
  /\ windows = [k \in Keys |-> NoWindow]
  /\ attempts = [s \in Servers |-> NoBuckets(Keys)]
  /\ permits = [s \in Servers |-> VerificationSlots]
  /\ exchanges = [b \in Browsers |-> NoExchange]
  /\ verified = {}
  /\ hashed = [k \in Keys |-> 0]
  /\ bindings = [s \in Servers |-> 1]
  /\ started = <<>>
  /\ cookies = [b \in Browsers |-> NoCookie]
  /\ codes = {}
  /\ finishing = [b \in Browsers |-> NoSignIn]
  /\ grants = {}

---------------------------------------------------------------------------
(* The access key. *)

Exchange(b, phase) == exchanges[b].phase = phase
Proceed(b, phase) == exchanges' = [exchanges EXCEPT ![b].phase = phase]
Release(b) ==
  /\ exchanges' = [exchanges EXCEPT ![b] = NoExchange]
  /\ permits' = [permits EXCEPT ![exchanges[b].server] = @ + 1]

\* exchange_access_key_inner up to the permit; a wrong origin, a key of the
\* wrong length and a server without a free slot change nothing.  A browser
\* has one exchange under way.
ExchangeAccessKey(b, s, k) ==
  /\ Exchange(b, "none")
  /\ \A e \in verified : e.browser # b
  /\ permits[s] > 0
  /\ permits' = [permits EXCEPT ![s] = @ - 1]
  /\ exchanges' = [exchanges EXCEPT ![b] =
       [phase |-> "permitted", server |-> s, key |-> k, gone |-> FALSE]]
  /\ UNCHANGED <<time, faults, accessKey, windows, attempts, verified, hashed, externalVars>>

\* rate_limit_access_key
RateLimitAccessKey(b) ==
  /\ Exchange(b, "permitted")
  /\ LET s == exchanges[b].server IN
     \E outcome \in AdmitAt(attempts[s], exchanges[b].key, time) :
       /\ attempts' = [attempts EXCEPT ![s] = outcome.buckets]
       /\ IF outcome.admitted THEN Proceed(b, "counting") /\ UNCHANGED permits
          ELSE Release(b)
  /\ UNCHANGED <<time, faults, accessKey, windows, verified, hashed, externalVars>>

\* FIXED_WINDOW_LIMIT_SCRIPT
Counted(window) ==
  IF window = NoWindow THEN [count |-> 1, expires |-> time + Window]
  ELSE [window EXCEPT !.count = @ + 1]

\* admit_fixed_window answers: the key may be verified if the count allows it.
AdmitFixedWindow(b) ==
  /\ Exchange(b, "counting")
  /\ LET k == exchanges[b].key
         window == Counted(windows[k])
     IN
     /\ windows' = [windows EXCEPT ![k] = window]
     /\ IF window.count <= AttemptsPerWindow
        THEN /\ Proceed(b, "verifying")
             /\ hashed' = [hashed EXCEPT ![k] = @ + 1]
             /\ UNCHANGED permits
        ELSE Release(b) /\ UNCHANGED hashed
  /\ UNCHANGED <<time, faults, accessKey, attempts, verified, externalVars>>

\* Mutant: without an answer of Redis the limit of the process has to do.
RedisSilentFailOpen(b, counted) ==
  /\ Exchange(b, "counting")
  /\ faults < MaxSignInFaults
  /\ faults' = faults + 1
  /\ windows' = IF counted THEN [windows EXCEPT ![exchanges[b].key] = Counted(@)] ELSE windows
  /\ Proceed(b, "verifying")
  /\ hashed' = [hashed EXCEPT ![exchanges[b].key] = @ + 1]
  /\ UNCHANGED <<time, accessKey, attempts, permits, verified, externalVars>>

\* Redis does not answer; the attempt may have been counted.  The exchange
\* fails closed.
RedisSilent(b, counted) ==
  /\ Exchange(b, "counting")
  /\ faults < MaxSignInFaults
  /\ faults' = faults + 1
  /\ windows' = IF counted THEN [windows EXCEPT ![exchanges[b].key] = Counted(@)] ELSE windows
  /\ Release(b)
  /\ UNCHANGED <<time, accessKey, attempts, verified, hashed, externalVars>>

\* The blocking task ends and drops the permit it owns.  If the browser is
\* still there and the key is right, the handler goes on.
KeyVerified(b) ==
  /\ Exchange(b, "verifying")
  /\ LET e == exchanges[b] IN
     verified' = IF e.key = accessKey /\ ~e.gone
                 THEN verified \cup {[browser |-> b, server |-> e.server, key |-> e.key]}
                 ELSE verified
  /\ Release(b)
  /\ UNCHANGED <<time, faults, accessKey, windows, attempts, hashed, externalVars>>

\* After the await, behind the lock of the limiter, the attempts are forgotten
\* and a session is created, unless the browser disconnects before.
ForgetAttempts(e, gone) ==
  /\ verified' = verified \ {e}
  /\ attempts' = IF gone THEN attempts
                 ELSE [attempts EXCEPT ![e.server] = Forget(@, e.key)]
  /\ UNCHANGED <<time, faults, accessKey, windows, permits, exchanges, hashed, externalVars>>

\* Mutant: the permit goes with the request, the verification does not.
BrowserGoneWithPermit(b) ==
  /\ exchanges[b].phase \in {"permitted", "counting", "verifying"}
  /\ ~exchanges[b].gone
  /\ permits' = [permits EXCEPT ![exchanges[b].server] = @ + 1]
  /\ exchanges' = [exchanges EXCEPT ![b] =
       IF @.phase = "verifying" THEN [@ EXCEPT !.gone = TRUE] ELSE NoExchange]
  /\ UNCHANGED <<time, faults, accessKey, windows, attempts, verified, hashed, externalVars>>

\* The browser disconnects: a request that waits is dropped with its permit,
\* a verification runs on and keeps it.
BrowserGone(b) ==
  /\ exchanges[b].phase \in {"permitted", "counting", "verifying"}
  /\ ~exchanges[b].gone
  /\ IF Exchange(b, "verifying")
     THEN exchanges' = [exchanges EXCEPT ![b].gone = TRUE] /\ UNCHANGED permits
     ELSE Release(b)
  /\ UNCHANGED <<time, faults, accessKey, windows, attempts, verified, hashed, externalVars>>

AccessKeyNext ==
  \E b \in Browsers :
    \/ \E s \in Servers, k \in Keys : ExchangeAccessKey(b, s, k)
    \/ RateLimitAccessKey(b)
    \/ AdmitFixedWindow(b)
    \/ \E counted \in BOOLEAN : RedisSilent(b, counted)
    \/ KeyVerified(b)
    \/ \E e \in verified, gone \in BOOLEAN : e.browser = b /\ ForgetAttempts(e, gone)
    \/ BrowserGone(b)

---------------------------------------------------------------------------
(* OpenID Connect. *)

\* start_external: discovery, then a new flow in a signed cookie that
\* replaces the one of another tab.  When discovery fails, or four flows are
\* just being started, nothing happens.
StartExternal(b, s) ==
  /\ Cardinality(DOMAIN started) < MaxFlows
  /\ LET flow == Cardinality(DOMAIN started) + 1
         begun == [browser |-> b, at |-> time, binding |-> bindings[s]]
     IN
     /\ started' = [f \in 1..flow |-> IF f = flow THEN begun ELSE started[f]]
     /\ cookies' = [cookies EXCEPT ![b] =
          [flow |-> flow, issued |-> time, binding |-> bindings[s]]]
  /\ UNCHANGED <<time, faults, keyVars, bindings, codes, finishing, grants>>

\* Someone signs in at the provider for a flow.
ProviderAuthorises(flow, owner) ==
  /\ \A c \in codes : c.flow # flow
  /\ codes' = codes \cup {[flow |-> flow, owner |-> owner]}
  /\ UNCHANGED <<time, faults, keyVars, bindings, started, cookies, finishing, grants>>

\* Mutant: the signature does not cover the binding.
DecodedAnyBinding(cookie, s) ==
  cookie # NoCookie /\ time - cookie.issued <= StateLifetime

\* decode_oidc_browser_state: signed under the binding of this server, fresh.
DecodeBrowserState(cookie, s) ==
  /\ cookie # NoCookie
  /\ cookie.binding = bindings[s]
  /\ time - cookie.issued <= StateLifetime

\* Mutant: the state of the callback is not compared with that of the cookie.
FinishAnyState(b, s, flow, code) ==
  /\ finishing[b] = NoSignIn
  /\ DecodeBrowserState(cookies[b], s)
  /\ finishing' = [finishing EXCEPT ![b] =
       [server |-> s, code |-> code, named |-> flow, flow |-> cookies[b].flow, checked |-> time]]
  /\ UNCHANGED <<time, faults, keyVars, bindings, started, cookies, codes, grants>>

\* finish_external to the exchange of the code.  The callback names a flow
\* and comes with a code, not always of that flow.
FinishExternal(b, s, flow, code) ==
  /\ finishing[b] = NoSignIn
  /\ DecodeBrowserState(cookies[b], s)
  /\ cookies[b].flow = flow
  /\ finishing' = [finishing EXCEPT ![b] =
       [server |-> s, code |-> code, named |-> flow, flow |-> cookies[b].flow, checked |-> time]]
  /\ UNCHANGED <<time, faults, keyVars, bindings, started, cookies, codes, grants>>

\* Mutant: neither the PKCE verifier nor the nonce ties the code to its flow.
TakesAnyCode(code, flow) == code.owner

\* The provider takes a code with the PKCE verifier of its flow, the token has
\* the nonce of the flow, and the subject must be the owner's.
TakesCode(code, flow) == code.flow = flow /\ code.owner

\* The rest of finish_external.  The provider takes a code once; then the
\* identity is bound, a session is created and the cookie cleared.  A grant
\* keeps the flow the code was given out for and the one the callback named.
CodeExchanged(b) ==
  /\ finishing[b] # NoSignIn
  /\ LET f == finishing[b] IN
     /\ codes' = codes \ {f.code}
     /\ IF f.code \in codes /\ TakesCode(f.code, f.flow)
        THEN /\ grants' = grants \cup
                  {[browser |-> b, code |-> f.code.flow, named |-> f.named,
                    binding |-> bindings[f.server], checked |-> f.checked]}
             /\ cookies' = [cookies EXCEPT ![b] = NoCookie]
        ELSE UNCHANGED <<grants, cookies>>
  /\ finishing' = [finishing EXCEPT ![b] = NoSignIn]
  /\ UNCHANGED <<time, faults, keyVars, bindings, started>>

ExternalNext ==
  \/ \E b \in Browsers, s \in Servers :
       \/ StartExternal(b, s)
       \/ \E flow \in DOMAIN started, code \in codes : FinishExternal(b, s, flow, code)
  \/ \E flow \in DOMAIN started, owner \in BOOLEAN : ProviderAuthorises(flow, owner)
  \/ \E b \in Browsers : CodeExchanged(b)

---------------------------------------------------------------------------
(* Both. *)

\* A server restarts, perhaps with another administrator binding.
RestartServer(s, binding) ==
  /\ faults < MaxSignInFaults
  /\ faults' = faults + 1
  /\ binding >= bindings[s]
  /\ bindings' = [bindings EXCEPT ![s] = binding]
  /\ attempts' = [attempts EXCEPT ![s] = NoBuckets(Keys)]
  /\ permits' = [permits EXCEPT ![s] = VerificationSlots]
  /\ exchanges' = [b \in Browsers |->
       IF ~Exchange(b, "none") /\ exchanges[b].server = s THEN NoExchange ELSE exchanges[b]]
  /\ verified' = {e \in verified : e.server # s}
  /\ finishing' = [b \in Browsers |->
       IF finishing[b] # NoSignIn /\ finishing[b].server = s THEN NoSignIn ELSE finishing[b]]
  /\ UNCHANGED <<time, accessKey, windows, hashed, started, cookies, codes, grants>>

\* Time passes; Redis drops the windows that are over.
SignInInstantPasses ==
  /\ time < MaxTime
  /\ time' = time + 1
  /\ LET over == {k \in Keys : windows[k] # NoWindow /\ windows[k].expires <= time'} IN
     /\ windows' = [k \in Keys |-> IF k \in over THEN NoWindow ELSE windows[k]]
     /\ hashed' = [k \in Keys |-> IF k \in over THEN 0 ELSE hashed[k]]
  /\ UNCHANGED <<faults, accessKey, attempts, permits, exchanges, verified, externalVars>>

---------------------------------------------------------------------------
(* Properties. *)

\* Over all server processes, restarts that empty their limiters, and Redis
\* answers that are lost, a key is verified at most AttemptsPerWindow times
\* while its window in Redis lasts.
VerificationsBounded == \A k \in Keys : hashed[k] <= AttemptsPerWindow

\* No server verifies more keys at once than it has slots, and no slot is ever
\* lost: neither a disconnect nor a refused attempt changes their number.
VerificationSlotsKept ==
  \A s \in Servers :
    permits[s] + Cardinality({b \in Browsers :
      ~Exchange(b, "none") /\ exchanges[b].server = s}) = VerificationSlots

\* An external session comes from a code given out for the flow that the
\* callback named and that the same browser began, at most StateLifetime before
\* its callback, under the binding of the server that gave it: a callback
\* crossed with another browser's flow or code signs nobody in.
GrantsFollowOwnFlow ==
  \A g \in grants :
    /\ g.named = g.code
    /\ started[g.code].browser = g.browser
    /\ started[g.code].binding = g.binding
    /\ g.checked - started[g.code].at <= StateLifetime

\* The two limits on verifying access keys hold together: so many attempts for a
\* key over all servers that share Redis, so many at once on each server.  (A
\* server without Redis has the limit of its process alone.)
VerificationsLimited == VerificationsBounded /\ VerificationSlotsKept
=============================================================================
