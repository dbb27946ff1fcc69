------------------------------ MODULE ApiKeys ------------------------------
(***************************************************************************)
(* API keys (app/core/deps.py, app/api/v1/admin.py) and the command that   *)
(* creates the first one (app/cli/bootstrap_tenant.py), for one tenant.    *)
(*                                                                         *)
(* A request reads its key without a lock, is counted by the rate limiter, *)
(* and acts with the scopes it read.  It also notes when the key was used: *)
(* that update is flushed by the first query of the handler and keeps the  *)
(* key's row locked until the request commits.  A revocation is written    *)
(* when its request commits.  Nothing reads a key's state again.           *)
(***************************************************************************)
EXTENDS RateLimit, TLC

CONSTANTS
    Requests,    \* requests under way at a time
    OtherScopes, \* scopes that can be granted, besides apikey.write
    Absent       \* no such row

VARIABLES
    keys,        \* the rows of api_keys
    request,     \* the requests under way
    raced,       \* history: a key was revoked while it had a request under way
    lapsed       \* history: a key with apikey.write expired or was burned by an enrolment

access == <<keys, request, raced, lapsed>>
vars == <<limiter, access>>

GRANTABLE_SCOPES == {"apikey.write"} \cup OtherScopes
BOOTSTRAP_SCOPES == GRANTABLE_SCOPES \cup {"admin"}

Rows ==
    [scopes : SUBSET BOOTSTRAP_SCOPES, state : {"active", "revoked", "expired"},
     parent : Keys \cup {None}]
ASSUME AccessAssumption == Absent \notin Rows /\ "admin" \notin OtherScopes

Idle == [at |-> "idle"]
Principals == [at : {"principal"}, key : Keys, read : Rows]
Handled ==
    [at : {"creating", "revoking", "using"}, key : Keys, read : Rows, target : Keys,
     scopes : SUBSET GRANTABLE_SCOPES]

TypeOK ==
    /\ LimiterTypeOK
    /\ keys \in [Keys -> Rows \cup {Absent}]
    /\ request \in [Requests -> {Idle} \cup Principals \cup Handled]
    /\ raced \in BOOLEAN
    /\ lapsed \in BOOLEAN

Init ==
    /\ LimiterInit
    /\ keys = [k \in Keys |-> Absent]
    /\ request = [q \in Requests |-> Idle]
    /\ raced = FALSE
    /\ lapsed = FALSE

-----------------------------------------------------------------------------

Exists(k) == keys[k] # Absent
Active(k) == Exists(k) /\ keys[k].state = "active"
has(row, scope) == "admin" \in row.scopes \/ scope \in row.scopes
Writers == {k \in Keys : Active(k) /\ has(keys[k], "apikey.write")}

\* Whether a request holds the lock of a key's row.
Handling(q) == request[q].at \in {"creating", "revoking", "using"}
Holds(q, k) == Handling(q) /\ request[q].key = k
LockedByOther(q, k) == \E r \in Requests \ {q} : Holds(r, k)

Respond(q, r) == request' = [request EXCEPT ![q] = r]

\* bootstrap: refused once the tenant has a key.
Bootstrap(k) ==
    /\ \A j \in Keys : ~Exists(j)
    /\ keys' = [keys EXCEPT ![k] =
          [scopes |-> BOOTSTRAP_SCOPES, state |-> "active", parent |-> None]]
    /\ UNCHANGED <<limiter, request, raced, lapsed>>

\* get_principal.
Authenticate(q, p, k) ==
    /\ request[q] = Idle
    /\ Active(k)
    /\ \/ Admit(p, k) /\ Respond(q, [at |-> "principal", key |-> k, read |-> keys[k]])
       \/ Refuse(p, k) /\ UNCHANGED request
    /\ UNCHANGED <<keys, raced, lapsed>>

\* The handler, up to its commit: the key's row is locked by the flush of last_used_at.
Handle(q, at, target, scopes) ==
    /\ ~LockedByOther(q, request[q].key)
    /\ Respond(q, [at |-> at, key |-> request[q].key, read |-> request[q].read,
                   target |-> target, scopes |-> scopes])
    /\ UNCHANGED <<limiter, keys, raced, lapsed>>

\* "A caller cannot grant a scope it does not itself hold."
MayGrant(row, scopes) == scopes \subseteq GRANTABLE_SCOPES /\ \A s \in scopes : has(row, s)

create_api_key(q, k) ==
    /\ request[q].at = "principal"
    /\ has(request[q].read, "apikey.write")
    /\ ~Exists(k)
    /\ \A r \in Requests : request[r].at = "creating" => request[r].target # k
    /\ \E scopes \in SUBSET GRANTABLE_SCOPES :
          MayGrant(request[q].read, scopes) /\ Handle(q, "creating", k, scopes)

\* Mutant: a key may revoke itself.
MayRevokeAny(q, k) == has(request[q].read, "apikey.write")

MayRevoke(q, k) == has(request[q].read, "apikey.write") /\ k # request[q].key

\* revoke_api_key.  A key that is revoked already may be revoked again.
revoke_api_key(q, k) ==
    /\ request[q].at = "principal"
    /\ Exists(k)
    /\ MayRevoke(q, k)
    /\ Handle(q, "revoking", k, {})

\* Any other request that reads or writes the database.
Use(q) ==
    /\ request[q].at = "principal"
    /\ Handle(q, "using", request[q].key, {})

\* Mutant: the key's row is written as it was read.
UsedWhole(now, read) == read

\* The update of the key's row: last_used_at, and no other column.
UsedRow(now, read) == now

Minted(q) ==
    [scopes |-> request[q].scopes, state |-> "active", parent |-> request[q].key]

\* get_db's commit.  A revocation waits for a request of the key it revokes.
Commit(q) ==
    LET r == request[q]
        used == [keys EXCEPT ![r.key] = UsedRow(@, r.read)]
    IN  /\ Handling(q)
        /\ r.at = "revoking" => ~LockedByOther(q, r.target)
        /\ keys' = [used EXCEPT ![r.target] =
              CASE r.at = "creating" -> Minted(q)
                [] r.at = "revoking" -> [@ EXCEPT !.state = "revoked"]
                [] r.at = "using" -> @]
        /\ raced' = (raced \/ (r.at = "revoking" /\
              \E o \in Requests \ {q} : request[o] # Idle /\ request[o].key = r.target))
        /\ Respond(q, Idle)
        /\ UNCHANGED <<limiter, lapsed>>

\* A request without the scope, of a key that is not there, or one that fails: a lost
\* connection, a deadlock of two revocations.
Abort(q) ==
    /\ request[q] # Idle
    /\ Respond(q, Idle)
    /\ UNCHANGED <<limiter, keys, raced, lapsed>>

\* expires_at has passed, or an enrolment has burned a single-use key.  The first key of a
\* tenant has neither.
Lapse(k) ==
    /\ Active(k) /\ keys[k].parent # None
    /\ keys' = [keys EXCEPT ![k].state = "expired"]
    /\ lapsed' = (lapsed \/ has(keys[k], "apikey.write"))
    /\ UNCHANGED <<limiter, request, raced>>

Next ==
    \/ \E k \in Keys : Bootstrap(k) \/ Lapse(k)
    \/ \E q \in Requests :
        \/ \E p \in Processes, k \in Keys : Authenticate(q, p, k)
        \/ \E k \in Keys : create_api_key(q, k) \/ revoke_api_key(q, k)
        \/ Use(q)
        \/ Commit(q)
        \/ Abort(q)
    \/ Tick /\ UNCHANGED access

Spec == Init /\ [][Next]_vars

-----------------------------------------------------------------------------
(* Properties. *)

\* A request that read its key before the key was revoked, and notes its use afterwards,
\* does not bring it back; and no key ever gains or loses a scope.
RevocationSticks ==
    [][\A k \in Keys : Exists(k) =>
          /\ Exists(k)' /\ keys'[k].scopes = keys[k].scopes
          /\ keys[k].state = "revoked" => keys'[k].state = "revoked"]_vars

\* The keys of a tenant cannot all be revoked: revocations leave a key that may mint and
\* revoke others, unless one was revoked under a request it had under way or has expired
\* (docs/security.md:37, "Revoking the key you are authenticating with returns 409 rather
\* than locking you out silently").
NotLockedOut ==
    (\E k \in Keys : Exists(k)) /\ ~raced /\ ~lapsed => Writers # {}

\* A key never holds more than the key that minted it, through however many hands, and
\* no minted key is an administrator's.
ScopesInherited ==
    \A k \in Keys : Exists(k) /\ keys[k].parent # None =>
        /\ "admin" \notin keys[k].scopes
        /\ \A s \in keys[k].scopes : has(keys[keys[k].parent], s)
=============================================================================
