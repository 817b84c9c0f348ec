---------------------------- MODULE TokenRefresh ----------------------------
(***************************************************************************)
(* One OAuth connection that several Companions use.  The gateway in each  *)
(* Box asks the API for access tokens, one call at a time, and asks for    *)
(* another when the MCP server answers 401; the API refreshes the grant at *)
(* its provider, which may replace the refresh token and ends a grant      *)
(* whose replaced token it sees again.  companionMcpGateway and            *)
(* companionMcpBroker.                                                     *)
(***************************************************************************)
EXTENDS Integers, FiniteSets

CONSTANTS Boxes,       \* Companions that selected the connection
          Requests,    \* requests a gateway serves at once
          Calls,       \* bound: calls the API serves at once
          MaxTokens,   \* bound: access tokens the provider issues
          MaxAsks,     \* bound: requests of the MCP clients
          MaxMishaps   \* bound: answers lost, transactions that fail, a revocation

VARIABLES account,   \* the companion_mcp_accounts row
          provider,  \* the grant at the provider
          call,      \* call[c]: a transaction of the API
          pending,   \* pending[b]: the call the gateway waits for
          cache,     \* cache[b]: the gateway has had a token, and it is fresh or stale
          request,   \* request[b][r]
          orphaned,  \* a refresh the provider made was not committed
          asks, mishaps

gateway == <<pending, cache, request, asks>>
vars == <<account, provider, call, gateway, orphaned, mishaps>>

NoCall == [at |-> "free", box |-> "none", force |-> FALSE, seen |-> 0, version |-> 0, n |-> 0, refresh |-> 0]
Idle == [at |-> "idle", force |-> FALSE, first |-> 0, n |-> 0, call |-> "none"]
Init ==
  /\ account \in [live : {TRUE}, gmail : BOOLEAN, version : {1}, n : {1}, refresh : {1}, usable : {TRUE}]
  /\ provider \in [rotates : BOOLEAN, refresh : {1}, issued : {1}, ended : {"no"}]
  /\ account.gmail => ~provider.rotates
  /\ call = [c \in Calls |-> NoCall] /\ pending = [b \in Boxes |-> "none"]
  /\ cache = [b \in Boxes |-> "none"]
  /\ request = [b \in Boxes |-> [r \in Requests |-> Idle]]
  /\ orphaned = FALSE /\ asks = 0 /\ mishaps = 0

Mishap == mishaps < MaxMishaps /\ mishaps' = mishaps + 1
-----------------------------------------------------------------------------
(* The gateway of a Box. *)

Becomes(b, r, q) == request' = [request EXCEPT ![b][r] = q]

\* A client's request: accessFor without force.
Opens(b) ==
  /\ asks < MaxAsks /\ asks' = asks + 1
  /\ \E r \in Requests : request[b][r].at = "idle"
  /\ Becomes(b, CHOOSE r \in Requests : request[b][r].at = "idle", [Idle EXCEPT !.at = "ask"])
  /\ UNCHANGED <<account, provider, call, pending, cache, orphaned, mishaps>>

\* accessFor: join the call that is under way, or make one.  A stale token in the
\* cache makes it a forced one.
Joins(b, r) ==
  /\ request[b][r].at = "ask" /\ pending[b] # "none"
  /\ Becomes(b, r, [request[b][r] EXCEPT !.at = "wait", !.call = pending[b]])
  /\ UNCHANGED <<account, provider, call, pending, cache, orphaned, asks, mishaps>>
FreeSlot == CHOOSE c \in Calls : call[c].at = "free"
Makes(b, r) == LET c == FreeSlot IN
  /\ request[b][r].at = "ask" /\ pending[b] = "none" /\ \E k \in Calls : call[k].at = "free"
  /\ pending' = [pending EXCEPT ![b] = c]
  /\ call' = [call EXCEPT ![c] = [NoCall EXCEPT !.at = "called", !.box = b,
                !.force = request[b][r].force \/ cache[b] = "stale"]]
  /\ Becomes(b, r, [request[b][r] EXCEPT !.at = "wait", !.call = c])
  /\ UNCHANGED <<account, provider, cache, orphaned, asks, mishaps>>

\* Fault: a request that must have a new token takes the token of any call.
FaultTakes(q, c) == TRUE
\* A request that must have a new token takes none from a call that was not forced.
Takes(q, c) == q.force => call[c].force
Waits(q, c) == q.at = "wait" /\ q.call = c
\* The call's promise resolves: every request that waits for it goes on.
Resolves(b, c) ==
  request' = [request EXCEPT ![b] = [r \in Requests |->
    LET q == @[r] IN
    IF ~Waits(q, c) THEN q
    ELSE IF Takes(q, c) THEN [q EXCEPT !.at = "sent", !.n = call[c].n, !.first = IF q.force THEN @ ELSE call[c].n]
    ELSE [q EXCEPT !.at = "ask"]]]
Rejects(b, c) == request' = [request EXCEPT ![b] = [r \in Requests |-> IF Waits(@[r], c) THEN Idle ELSE @[r]]]

\* The API's answer.  Nobody waits for it any more when the gateway timed out.
Answer(c) ==
  /\ call[c].at \in {"answered", "failed"} /\ call' = [call EXCEPT ![c] = NoCall]
  /\ \E b \in Boxes : b = call[c].box /\
       IF pending[b] # c THEN UNCHANGED <<pending, cache, request>>
       ELSE /\ pending' = [pending EXCEPT ![b] = "none"]
            /\ IF call[c].at = "answered"
                 THEN cache' = [cache EXCEPT ![b] = "fresh"] /\ Resolves(b, c)
                 ELSE UNCHANGED cache /\ Rejects(b, c)
  /\ UNCHANGED <<account, provider, orphaned, asks, mishaps>>
TimesOut(b) ==
  /\ pending[b] # "none" /\ Mishap
  /\ pending' = [pending EXCEPT ![b] = "none"] /\ Rejects(b, pending[b])
  /\ UNCHANGED <<account, provider, call, cache, orphaned, asks>>

\* The MCP server's answer: a 401 to the first token asks for another one, once.
Served(b, r) == request[b][r].at = "sent" /\ Becomes(b, r, Idle)
                /\ UNCHANGED <<account, provider, call, pending, cache, orphaned, asks, mishaps>>
Unauthorized(b, r) ==
  /\ request[b][r].at = "sent" /\ ~request[b][r].force
  /\ Becomes(b, r, [request[b][r] EXCEPT !.at = "ask", !.force = TRUE])
  /\ UNCHANGED <<account, provider, call, pending, cache, orphaned, asks, mishaps>>
CacheAges(b) == /\ cache[b] = "fresh" /\ cache' = [cache EXCEPT ![b] = "stale"]
                /\ UNCHANGED <<account, provider, call, pending, request, orphaned, asks, mishaps>>
-----------------------------------------------------------------------------
(* issueCompanionMcpAccessToken. *)

To(c, k) == call' = [call EXCEPT ![c] = k]
Fail(c) == To(c, [NoCall EXCEPT !.at = "failed", !.box = call[c].box])
Gives(c, n) == To(c, [NoCall EXCEPT !.at = "answered", !.box = call[c].box, !.force = call[c].force, !.n = n])
InRow(c) == call[c].at \in {"refresh", "refreshed"}

\* A forced call reads the version it must pass before it takes any lock.
Observe(c) ==
  /\ call[c].at = "called"
  /\ IF call[c].force /\ ~account.live THEN Fail(c)
     ELSE To(c, [call[c] EXCEPT !.at = "observed", !.seen = IF call[c].force THEN account.version ELSE 0])
  /\ UNCHANGED <<account, provider, gateway, orphaned, mishaps>>

\* Fault: the row is read without its lock; the Companion stays locked.
FaultFree(c) == \A k \in Calls : InRow(k) => call[k].box # call[c].box
\* The Companion's lock and the row's, kept to the end of the transaction.
Free(c) == \A k \in Calls : ~InRow(k)
Read(c) ==
  /\ call[c].at = "observed" /\ Free(c)
  /\ IF ~account.live THEN Fail(c)
     ELSE IF account.usable /\ (call[c].force => call[c].seen > 0 /\ account.version > call[c].seen)
       THEN Gives(c, account.n)
       ELSE To(c, [call[c] EXCEPT !.at = "refresh", !.version = account.version, !.refresh = account.refresh])
  /\ UNCHANGED <<account, provider, gateway, orphaned, mishaps>>

\* The provider's answer to the refresh.
Refresh(c) ==
  /\ call[c].at = "refresh" /\ provider.ended = "no" /\ call[c].refresh = provider.refresh /\ provider.issued < MaxTokens
  /\ LET token == IF provider.rotates THEN provider.issued + 1 ELSE provider.refresh IN
       /\ provider' = [provider EXCEPT !.refresh = token, !.issued = @ + 1]
       /\ To(c, [call[c] EXCEPT !.at = "refreshed", !.n = provider.issued + 1, !.refresh = token])
  /\ UNCHANGED <<account, gateway, orphaned, mishaps>>
\* The grant has ended, or ends because its replaced token is seen again.  Of a Gmail
\* account that is certain and the connection is deleted.
Revoked(c) ==
  /\ call[c].at = "refresh" /\ (provider.ended # "no" \/ call[c].refresh # provider.refresh)
  /\ provider' = [provider EXCEPT !.ended = IF @ = "no" THEN "reuse" ELSE @]
  /\ account' = [account EXCEPT !.live = @ /\ ~(account.gmail /\ account.version = call[c].version)]
  /\ Fail(c) /\ UNCHANGED <<gateway, orphaned, mishaps>>
Unavailable(c) == call[c].at = "refresh" /\ Mishap /\ Fail(c) /\ UNCHANGED <<account, provider, gateway, orphaned>>

\* The new credential is written over the version that was read.  A row that moved is
\* read again, without force.
Commit(c) ==
  /\ call[c].at = "refreshed"
  /\ IF account.version = call[c].version
       THEN /\ account' = [account EXCEPT !.version = @ + 1, !.n = call[c].n, !.refresh = call[c].refresh, !.usable = TRUE]
            /\ Gives(c, call[c].n)
       ELSE To(c, [call[c] EXCEPT !.at = "observed", !.force = FALSE, !.seen = 0]) /\ UNCHANGED account
  /\ UNCHANGED <<provider, gateway, orphaned, mishaps>>
\* The transaction fails after the provider's answer.
Rollback(c) == /\ call[c].at = "refreshed" /\ Mishap /\ Fail(c) /\ orphaned' = TRUE
               /\ UNCHANGED <<account, provider, gateway>>
-----------------------------------------------------------------------------
Expires == /\ account.usable /\ account' = [account EXCEPT !.usable = FALSE]
           /\ UNCHANGED <<provider, call, gateway, orphaned, mishaps>>
Disconnects == /\ account.live /\ (\A c \in Calls : ~InRow(c)) /\ account' = [account EXCEPT !.live = FALSE]
               /\ UNCHANGED <<provider, call, gateway, orphaned, mishaps>>
UserRevokes == /\ provider.ended = "no" /\ Mishap /\ provider' = [provider EXCEPT !.ended = "user"]
               /\ UNCHANGED <<account, call, gateway, orphaned>>

Next == \/ \E b \in Boxes : \/ Opens(b) \/ TimesOut(b) \/ CacheAges(b)
                            \/ \E r \in Requests : \/ Joins(b, r) \/ Makes(b, r) \/ Served(b, r) \/ Unauthorized(b, r)
        \/ \E c \in Calls : \/ Answer(c) \/ Observe(c) \/ Read(c) \/ Refresh(c) \/ Revoked(c) \/ Unavailable(c)
                            \/ Commit(c) \/ Rollback(c)
        \/ Expires \/ Disconnects \/ UserRevokes
Spec == Init /\ [][Next]_vars
-----------------------------------------------------------------------------
\* The token a request is sent again with is newer than the one that was refused.
RetryUsesNewerToken ==
  \A b \in Boxes, r \in Requests : LET q == request[b][r] IN q.at = "sent" /\ q.force => q.n > q.first

\* The provider sees no replaced refresh token, and ends the grant for none, unless a
\* refresh it made was lost before the commit.
GrantOutlivesRefreshes == provider.ended = "reuse" => orphaned
=============================================================================
