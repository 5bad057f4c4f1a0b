------------------------------- MODULE McpHttp -------------------------------
(***************************************************************************)
(* Calls of hosted MCP agents, from the first byte to the application:     *)
(* app/mcp_http.py (HostedMcpAuthMiddleware and its two limiters), the     *)
(* tools of app/mcp_gateway.py that the call ends in, and the application  *)
(* middleware of app/bootstrap.py the tool's own request passes, with the  *)
(* token buckets that requests of browsers draw on as well.                *)
(*                                                                         *)
(* Checks of host, origin and the bearer scheme read only the request and  *)
(* refuse it without a change: a call here has passed them.  Its steps are *)
(* the stretches between two awaits: the credential is judged twice, in a  *)
(* thread pool, on either side of the body, and in between the             *)
(* administration of principals goes on.                                   *)
(***************************************************************************)
EXTENDS McpPrincipals, TokenBuckets, Sequences

CONSTANTS
    Calls,          \* bound: the calls the model follows, each once
    AllowWrites,    \* mcp_allow_writes
    CallLimit,      \* read_calls_per_minute and write_calls_per_minute
    McpMaxBuckets,  \* _McpRateLimiter.MAX_BUCKETS
    MaxReaders,     \* MCP_MAX_CONCURRENT_BODY_READS_PER_PRINCIPAL
    GatewayKey,     \* the bucket of the gateway's recommendation requests
    MaxRequests,    \* bound: the requests of agents, browsers and operators together
    ExpiryTimes     \* bound: the expiries a principal is created with

Entries == Ids \X {"read", "write"}

\* Both limits are positive, and so are the sizes of the limiters.
ASSUME CallAssumption ==
    /\ ExpiryTimes \subseteq Nat \cup {None}
    /\ CallLimit \in [{"read", "write"} -> Nat \ {0}]
    /\ McpMaxBuckets \in Nat \ {0}
    /\ MaxReaders \in Nat \ {0}
    /\ GatewayKey \in Keys
    /\ None \notin Entries

VARIABLES
    call,     \* where each call is, and what it holds
    readers,  \* _McpBodyReadLimiter.active
    windows,  \* _McpRateLimiter.calls: admission times; empty for no entry
    dropped,  \* observer: the entries of `windows` thrown away for space
    arrived   \* bound: the requests that have begun

httpVars == <<call, readers, windows, dropped>>
vars == <<clock, principalVars, bucketVars, httpVars, arrived>>

\* A reading tool, a writing tool, and the writing tool whose request the
\* application rate limits.
ToolScope == [get_job |-> "read", approve_hand_state |-> "write",
              request_recommendation |-> "write"]
Tools == DOMAIN ToolScope

Stages == {"idle", "authenticating", "reading", "recording", "running", "ran", "failed",
           "refused"}
CallRecord ==
    [stage : Stages, token : 0..MaxTokens, tool : Tools, id : Ids \cup {None},
     scopes : ScopeSets \cup {{}}, now : Nat, entry : Entries \cup {None},
     admitted : Nat, late : BOOLEAN]

\* Stamps: now is the time the thread in flight read; admitted, the second the
\* window let the call through; late, whether its token had been withdrawn
\* before it came to the lock of record_usage.
IdleCall == [stage |-> "idle", token |-> Foreign, tool |-> "get_job", id |-> None,
             scopes |-> {}, now |-> 0, entry |-> None, admitted |-> 0, late |-> FALSE]

\* One request more; the bound on all of them keeps the model finite.
Request ==
    /\ arrived < MaxRequests
    /\ arrived' = arrived + 1

\* The call is answered before it reached the application; the model keeps
\* only what the window counted.
Refuse(r) ==
    call' = [call EXCEPT ![r] = [IdleCall EXCEPT !.stage = "refused",
                                                 !.entry = call[r].entry,
                                                 !.admitted = call[r].admitted]]

\* A call arrives with some token that was issued, or the foreign one; the
\* thread that authenticates it reads the time.
Arrive(r) ==
    /\ call[r].stage = "idle"
    /\ Request
    /\ \E token \in Foreign..issued :
          call' = [call EXCEPT ![r].stage = "authenticating", ![r].token = token,
                               ![r].now = clock]
    /\ UNCHANGED <<clock, principalVars, bucketVars, readers, windows, dropped>>

\* McpPrincipalStore.authenticate under the shared lock, and the continuation
\* up to the next await: 401, or 429 when the principal has as many bodies
\* coming in as it may, or one reader more.
Authenticate(r) ==
    /\ call[r].stage = "authenticating"
    /\ LET recognised == Recognised(call[r].token, call[r].now) IN
       \/ /\ recognised = {}
          /\ Refuse(r)
          /\ UNCHANGED readers
       \/ \E id \in recognised :
          \/ /\ readers[id] >= MaxReaders
             /\ Refuse(r)
             /\ UNCHANGED readers
          \/ /\ readers[id] < MaxReaders
             /\ readers' = [readers EXCEPT ![id] = @ + 1]
             /\ call' = [call EXCEPT ![r].stage = "reading", ![r].id = id,
                                     ![r].scopes = principals[id].scopes]
    /\ UNCHANGED <<clock, principalVars, bucketVars, windows, dropped>>

\* _McpBodyReadLimiter.release.
Release(id) == readers' = [readers EXCEPT ![id] = IF @ <= 1 THEN 0 ELSE @ - 1]

\* Mutant: a refused body keeps its place among the readers.
AbandonBodyLeaks(r) ==
    /\ call[r].stage = "reading"
    /\ Refuse(r)
    /\ UNCHANGED <<clock, principalVars, bucketVars, readers, windows, dropped>>

\* 413, or the client goes away and the request is cancelled.
AbandonBody(r) ==
    /\ call[r].stage = "reading"
    /\ Release(call[r].id)
    /\ Refuse(r)
    /\ UNCHANGED <<clock, principalVars, bucketVars, windows, dropped>>

Tracked == {e \in Entries : windows[e] # <<>>}
LastCall(e) == windows[e][Len(windows[e])]

\* The entries thrown away to make room for a new one: all that had no call
\* in the window and, if that is not enough, the one whose last call is oldest.
Cleared(e) ==
    IF e \in Tracked \/ Cardinality(Tracked) < McpMaxBuckets THEN {{}}
    ELSE LET idle == {f \in Tracked : LastCall(f) <= clock - Window}
             rest == Tracked \ idle
         IN IF Cardinality(rest) < McpMaxBuckets THEN {idle}
            ELSE {idle \cup {f} : f \in {g \in rest :
                     \A h \in rest : LastCall(g) <= LastCall(h)}}

\* The leading times that are no later than the cutoff.
Outdated(times, cutoff) ==
    {i \in 1..Len(times) : \A j \in 1..i : times[j] <= cutoff}

\* Mutant: calls are forgotten a second early.
RecentButOne(times) ==
    SubSeq(times, Cardinality(Outdated(times, clock - Window + 1)) + 1, Len(times))

\* The calls of an entry that still count against its limit: the oldest are
\* taken off the deque until one is in the window.
Recent(times) ==
    SubSeq(times, Cardinality(Outdated(times, clock - Window)) + 1, Len(times))

\* The body is complete: release the reader and put the call to the sliding
\* window of its category, 429 if it is full, else go on to record_usage, whose
\* thread reads the time.  A body cut short by the client counts as a read.
FinishBody(r) ==
    /\ call[r].stage = "reading"
    /\ Release(call[r].id)
    /\ \E tool \in Tools, category \in {"read", "write"} :
       LET e == <<call[r].id, category>> IN
       \E cleared \in Cleared(e) :
       LET recent == Recent(windows[e])
           allowed == Len(recent) < CallLimit[category]
       IN /\ category \in {"read", ToolScope[tool]}
          /\ windows' = [f \in Entries |->
                 IF f = e THEN IF allowed THEN Append(recent, clock) ELSE recent
                 ELSE IF f \in cleared THEN <<>> ELSE windows[f]]
          /\ dropped' = dropped \cup {f \in cleared : LastCall(f) > clock - Window}
          /\ IF allowed
             THEN call' = [call EXCEPT ![r].stage = "recording", ![r].tool = tool,
                                       ![r].entry = e, ![r].now = clock, ![r].admitted = clock]
             ELSE Refuse(r)
    /\ UNCHANGED <<clock, principalVars, bucketVars>>

\* Mutant: the use is recorded for the principal that was authenticated.
RecordUsageTrusting(r) ==
    /\ call[r].stage = "recording"
    /\ call' = [call EXCEPT ![r].stage = "running",
                            ![r].late = call[r].token \in withdrawn]
    /\ principals' = [principals EXCEPT ![call[r].id].lastUsed = call[r].now]
    /\ UNCHANGED <<clock, issued, admin, withdrawn, bucketVars, readers, windows, dropped>>

\* McpPrincipalStore.record_usage under the exclusive lock: 401 if the token
\* was withdrawn or ran out while the body came in, else the use is stamped
\* and the call goes to the application.
RecordUsage(r) ==
    /\ call[r].stage = "recording"
    /\ LET recognised == Recognised(call[r].token, call[r].now) IN
       \/ recognised = {} /\ Refuse(r)
       \/ /\ recognised # {}
          /\ call' = [call EXCEPT ![r].stage = "running",
                                  ![r].late = call[r].token \in withdrawn]
    /\ Stamp(call[r].token, call[r].now)
    /\ UNCHANGED <<clock, issued, admin, withdrawn, bucketVars, readers, windows, dropped>>

\* _require_hosted_scope against the scopes authenticate returned, and the
\* switch for writes: without it the writing tools do not exist.
MayUse(r) ==
    /\ ToolScope[call[r].tool] \in call[r].scopes
    /\ ToolScope[call[r].tool] = "write" => AllowWrites

\* The tool sends its request to the application in process.  Of these only
\* the recommendation is rate limited there; all hosted calls share one bucket.
RunTool(r) ==
    /\ call[r].stage = "running"
    /\ \/ /\ ~MayUse(r)
          /\ call' = [call EXCEPT ![r].stage = "failed"]
          /\ UNCHANGED bucketVars
       \/ /\ MayUse(r)
          /\ call[r].tool # "request_recommendation"
          /\ call' = [call EXCEPT ![r].stage = "ran"]
          /\ UNCHANGED bucketVars
       \/ /\ MayUse(r)
          /\ call[r].tool = "request_recommendation"
          /\ call' = [call EXCEPT ![r].stage = IF Allowed(GatewayKey) THEN "ran" ELSE "failed"]
          /\ Check(GatewayKey)
    /\ UNCHANGED <<clock, principalVars, readers, windows, dropped>>

\* The next stretch of a call under way.
Serve(r) ==
    \/ Authenticate(r) \/ AbandonBody(r) \/ FinishBody(r) \/ RecordUsage(r) \/ RunTool(r)

\* A browser's request of a limited category.
BrowserRequest(k) ==
    /\ Request
    /\ Check(k)
    /\ UNCHANGED <<clock, principalVars, httpVars>>

\* An operator's request reads the time, and then waits for the lock.
BeginAdminister ==
    /\ Request
    /\ \E id \in Ids : \/ \E scopes \in ScopeSets, expires \in ExpiryTimes :
                             BeginCreate(id, scopes, expires)
                       \/ \E op \in {"rotate", "revoke"} : BeginChange(op, id)
    /\ UNCHANGED <<bucketVars, httpVars>>

Administer ==
    /\ Create \/ Rotate \/ Revoke \/ RefuseChange
    /\ UNCHANGED <<bucketVars, httpVars, arrived>>

Init ==
    /\ PrincipalInit
    /\ BucketInit
    /\ call = [r \in Calls |-> IdleCall]
    /\ readers = [id \in Ids |-> 0]
    /\ windows = [e \in Entries |-> <<>>]
    /\ dropped = {}
    /\ arrived = 0

Next ==
    \/ Advance /\ UNCHANGED <<principalVars, bucketVars, httpVars, arrived>>
    \/ BeginAdminister
    \/ Administer
    \/ \E k \in Keys : BrowserRequest(k)
    \/ \E r \in Calls : Arrive(r)
    \/ \E r \in Calls : Serve(r) /\ UNCHANGED arrived

Spec == Init /\ [][Next]_vars

-----------------------------------------------------------------------------
\* The types of the state: the limiter's, whose table keeps to its bound, the
\* principals' and the calls'.
TypeOK ==
    /\ BucketTypeOK
    /\ Cardinality(held) <= MaxBuckets
    /\ PrincipalTypeOK
    /\ call \in [Calls -> CallRecord]
    /\ readers \in [Ids -> Nat]
    /\ windows \in [Entries -> Seq(Nat)]

\* No more calls of a principal and category are let through in any sixty
\* seconds than its limit, unless the limiter lost count of them to its own
\* memory bound (_McpRateLimiter.check, lines 363 to 394).
WindowBound ==
    \A e \in Entries \ dropped, t \in 0..MaxClock :
        Cardinality({r \in Calls : /\ call[r].entry = e
                                   /\ call[r].admitted \in (t - Window + 1)..t})
            <= CallLimit[e[2]]

\* Each principal's readers are exactly its calls whose body is coming in,
\* whichever way earlier calls ended, and at most four.
ReadersAccounted ==
    \A id \in Ids :
        /\ readers[id] = Cardinality({r \in Calls : /\ call[r].stage = "reading"
                                                    /\ call[r].id = id})
        /\ readers[id] <= MaxReaders

\* A call that reached the application carried a token that no rotation or
\* revocation had withdrawn when its use was recorded, and a principal's
\* last use is always one made with the token it has now: the use of an old
\* token whose record waited behind the rotation is never stamped on the new.
UseIsCurrent ==
    /\ \A r \in Calls : call[r].stage \in {"running", "ran", "failed"} => ~call[r].late
    /\ \A id \in Ids : principals[id] # None /\ principals[id].lastUsed # None =>
          \E r \in Calls : /\ call[r].stage \in {"running", "ran", "failed"}
                           /\ call[r].token = principals[id].token
                           /\ call[r].now = principals[id].lastUsed
                           /\ ~call[r].late
=============================================================================
