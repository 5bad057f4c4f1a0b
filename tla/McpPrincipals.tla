---------------------------- MODULE McpPrincipals ----------------------------
(***************************************************************************)
(* The credentials of hosted MCP agents: app/mcp_access.py,                *)
(* McpPrincipalStore, and the administration handlers of app/bootstrap.py  *)
(* that call it from a thread pool.                                        *)
(*                                                                         *)
(* The store is one file, read and replaced whole under a file lock, so    *)
(* what an operation does under the lock is one step.  Every operation     *)
(* reads the time before it waits for the lock, so the time it judges by   *)
(* may be old: that is a step of its own.  A token is the number of its    *)
(* issue; prefix and secret are fresh random strings, which the model      *)
(* takes to be distinct.  Token 0 belongs to a record of another           *)
(* environment that a copied data directory may hold.                      *)
(***************************************************************************)
EXTENDS SecondsClock

CONSTANTS
    Ids,          \* the principals this environment may create
    None,
    Environment,  \* deployment_environment
    MaxTokens     \* bound: how many tokens are issued

ASSUME PrincipalsAssumption ==
    /\ MaxTokens \in Nat
    /\ None \notin Nat
    /\ None \notin Ids

VARIABLES
    principals, \* [Ids -> record or None], the principals file
    issued,     \* the number of tokens issued so far
    admin,      \* the administration request under way, or None
    withdrawn   \* observer: tokens replaced or revoked by a finished request

principalVars == <<principals, issued, admin, withdrawn>>

Foreign == 0
ScopeSets == {{"read"}, {"read", "write"}}   \* what _validate_scopes accepts

Principal == [token : 1..MaxTokens, scopes : ScopeSets, expires : Nat \cup {None},
              revoked : BOOLEAN, lastUsed : Nat \cup {None}]

\* _summary: revocation wins over expiry.
Status(record, now) ==
    IF record.revoked THEN "revoked"
    ELSE IF record.expires # None /\ record.expires <= now THEN "expired"
    ELSE "active"

\* The principals of this environment whose current token is this one.
Holders(token) == {id \in Ids : principals[id] # None /\ principals[id].token = token}

\* Whom authenticate and record_usage recognise: prefix, status at `now`, and
\* hash are those of a principal of this environment.
Recognised(token, now) == {id \in Holders(token) : Status(principals[id], now) = "active"}

\* POST /api/mcp/principals: write credentials are for staging only, and an
\* expiry must lie after the time read here.
BeginCreate(id, scopes, expires) ==
    /\ admin = None
    /\ principals[id] = None
    /\ "write" \in scopes => Environment = "staging"
    /\ expires # None => expires > clock
    /\ issued < MaxTokens
    /\ admin' = [op |-> "create", id |-> id, scopes |-> scopes, expires |-> expires,
                 now |-> clock]
    /\ UNCHANGED <<clock, principals, issued, withdrawn>>

\* The rotate and revoke requests read the time, then wait for the lock.
BeginChange(op, id) ==
    /\ admin = None
    /\ op = "rotate" => issued < MaxTokens
    /\ admin' = [op |-> op, id |-> id, now |-> clock]
    /\ UNCHANGED <<clock, principals, issued, withdrawn>>

Create ==
    /\ admin # None /\ admin.op = "create"
    /\ principals' = [principals EXCEPT ![admin.id] =
            [token |-> issued + 1, scopes |-> admin.scopes, expires |-> admin.expires,
             revoked |-> FALSE, lastUsed |-> None]]
    /\ issued' = issued + 1
    /\ admin' = None
    /\ UNCHANGED <<clock, withdrawn>>

\* Rotation replaces the token of a principal that was active at the time read.
Rotate ==
    /\ admin # None /\ admin.op = "rotate"
    /\ principals[admin.id] # None
    /\ Status(principals[admin.id], admin.now) = "active"
    /\ principals' = [principals EXCEPT ![admin.id].token = issued + 1,
                                        ![admin.id].lastUsed = None]
    /\ issued' = issued + 1
    /\ withdrawn' = withdrawn \cup {principals[admin.id].token}
    /\ admin' = None
    /\ UNCHANGED clock

\* Revocation holds for an expired principal too, and is safe to repeat.
Revoke ==
    /\ admin # None /\ admin.op = "revoke"
    /\ principals[admin.id] # None
    /\ principals' = [principals EXCEPT ![admin.id].revoked = TRUE]
    /\ withdrawn' = withdrawn \cup {principals[admin.id].token}
    /\ admin' = None
    /\ UNCHANGED <<clock, issued>>

\* 404 for an unknown principal, 409 for a rotation of one that is not active.
RefuseChange ==
    /\ admin # None /\ admin.op # "create"
    /\ principals[admin.id] # None =>
          admin.op = "rotate" /\ Status(principals[admin.id], admin.now) # "active"
    /\ admin' = None
    /\ UNCHANGED <<clock, principals, issued, withdrawn>>

\* record_usage: stamp the principal if its token is still this one.
Stamp(token, now) ==
    principals' = [id \in Ids |->
        IF id \in Recognised(token, now)
        THEN [principals[id] EXCEPT !.lastUsed = now]
        ELSE principals[id]]

PrincipalInit ==
    /\ principals = [id \in Ids |-> None]
    /\ issued = 0
    /\ admin = None
    /\ withdrawn = {}

PrincipalTypeOK ==
    /\ principals \in [Ids -> Principal \cup {None}]
    /\ issued \in 0..MaxTokens
    /\ withdrawn \subseteq 1..MaxTokens
=============================================================================
