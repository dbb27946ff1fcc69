--------------------------- MODULE ApiKeys_proofs ---------------------------
(***************************************************************************)
(* What holds of the keys of a tenant for any number of keys, requests and *)
(* scopes, whatever the rate limiter does; and what holds of the limiter,  *)
(* for any limit, window, number of processes and difference of clocks.    *)
(***************************************************************************)
EXTENDS ApiKeys, FiniteSetTheorems, WellFoundedInduction, TLAPS

\* The types of keys and requests.
AccessTypeOK ==
    /\ keys \in [Keys -> Rows \cup {Absent}]
    /\ request \in [Requests -> {Idle} \cup Principals \cup Handled]
    /\ raced \in BOOLEAN
    /\ lapsed \in BOOLEAN

\* A key that a request authenticated with exists, and has the scopes it had then.
ReadStillTrue(q) ==
    request[q] # Idle =>
        /\ Exists(request[q].key)
        /\ request[q].read.scopes = keys[request[q].key].scopes

\* A handler that has decided, but not committed, may still do what it decided.
DecisionStands(q) ==
    /\ request[q].at = "creating" =>
          /\ ~Exists(request[q].target)
          /\ \A r \in Requests \ {q} :
                request[r].at = "creating" => request[r].target # request[q].target
          /\ MayGrant(request[q].read, request[q].scopes)
    /\ request[q].at = "revoking" =>
          /\ Exists(request[q].target)
          /\ request[q].target # request[q].key
          /\ has(request[q].read, "apikey.write")
    /\ request[q].at = "using" => request[q].target = request[q].key

\* A request that may mint and revoke has a key that still may, but for a race or a lapse.
WriterStands(q) ==
    request[q] # Idle /\ has(request[q].read, "apikey.write") /\ ~raced /\ ~lapsed =>
        Active(request[q].key)

\* The key that minted a key is still there.
ParentStays(k) == Exists(k) /\ keys[k].parent # None => Exists(keys[k].parent)

AccessInv ==
    /\ \A q \in Requests : ReadStillTrue(q) /\ DecisionStands(q) /\ WriterStands(q)
    /\ \A k \in Keys : ParentStays(k)
    /\ NotLockedOut
    /\ ScopesInherited

-----------------------------------------------------------------------------

\* The stages of a request tell apart what is known of it.
LEMMA Stages ==
    ASSUME AccessTypeOK, NEW q \in Requests
    PROVE  /\ request[q] # Idle => request[q].key \in Keys /\ request[q].read \in Rows
           /\ request[q] # Idle <=> request[q].at \in {"principal", "creating", "revoking", "using"}
           /\ Handling(q) <=> request[q] \in Handled
           /\ request[q].at = "principal" <=> request[q] \in Principals
           /\ Handling(q) => request[q].at \in {"creating", "revoking", "using"}
BY DEF AccessTypeOK, Idle, Principals, Handled, Handling

\* What a commit does to the keys: one is added, one is revoked, or none is changed.
LEMMA CommitEffect ==
    ASSUME AccessTypeOK, AccessInv, NEW q \in Requests, Commit(q)
    PROVE  /\ request[q] \in Handled
           /\ request[q].at = "creating" => keys' = [keys EXCEPT ![request[q].target] = Minted(q)]
           /\ request[q].at = "revoking" =>
                 keys' = [keys EXCEPT ![request[q].target].state = "revoked"]
           /\ request[q].at = "using" => keys' = keys
<1>1. request[q] \in Handled  BY Stages DEF Commit
<1>2. [keys EXCEPT ![request[q].key] = UsedRow(@, request[q].read)] = keys
  BY <1>1 DEF UsedRow, AccessTypeOK, Handled
<1>3. request[q].at \in {"creating", "revoking", "using"} /\ request[q].target \in Keys
  BY <1>1 DEF Handled
<1>4. request[q].at = "using" => keys' = [keys EXCEPT ![request[q].target] = @]
  BY <1>2, <1>3 DEF Commit
<1>5. [keys EXCEPT ![request[q].target] = @] = keys  BY <1>3 DEF AccessTypeOK
<1>6. request[q].at = "creating" => keys' = [keys EXCEPT ![request[q].target] = Minted(q)]
  BY <1>2, <1>3 DEF Commit
<1>7. request[q].at = "revoking" => keys' = [keys EXCEPT ![request[q].target].state = "revoked"]
  BY <1>2, <1>3 DEF Commit
<1> QED  BY <1>1, <1>4, <1>5, <1>6, <1>7

\* A key keeps its scopes and its parent, and stays revoked.
Kept(k) ==
    /\ keys'[k].scopes = keys[k].scopes
    /\ keys'[k].parent = keys[k].parent
    /\ keys[k].state = "revoked" => keys'[k].state = "revoked"

\* A commit takes no key, scope or parent away, and changes no key but its target.
LEMMA CommitKeeps ==
    ASSUME AccessTypeOK, AccessInv, NEW q \in Requests, Commit(q)
    PROVE  /\ \A k \in Keys : Exists(k) => Exists(k)' /\ Kept(k)
           /\ \A k \in Keys \ {request[q].target} : keys'[k] = keys[k]
<1>1. /\ request[q] \in Handled /\ request[q].target \in Keys
      /\ request[q].at \in {"creating", "revoking", "using"}
  BY CommitEffect DEF Handled
<1>2. CASE request[q].at = "creating"
  <2>1. \A k \in Keys \ {request[q].target} : keys'[k] = keys[k]
    BY <1>1, <1>2, CommitEffect DEF AccessTypeOK
  <2>2. ~Exists(request[q].target)  BY <1>2 DEF AccessInv, DecisionStands
  <2> QED  BY <2>1, <2>2 DEF Exists, Kept
<1>3. CASE request[q].at = "revoking"
  <2>1. keys[request[q].target] \in Rows
    BY <1>1, <1>3 DEF AccessInv, DecisionStands, Exists, AccessTypeOK
  <2>2. /\ keys'[request[q].target] = [keys[request[q].target] EXCEPT !.state = "revoked"]
        /\ \A k \in Keys \ {request[q].target} : keys'[k] = keys[k]
    BY <1>1, <1>3, CommitEffect DEF AccessTypeOK
  <2>3. keys'[request[q].target] \in Rows /\ Kept(request[q].target)
    BY <2>1, <2>2 DEF Rows, Kept
  <2> QED  BY <2>2, <2>3, AccessAssumption DEF Exists, Kept
<1>4. CASE request[q].at = "using"
  BY <1>4, CommitEffect DEF Exists, Kept
<1> QED  BY <1>1, <1>2, <1>3, <1>4

\* Each step keeps keys and requests in their types.
LEMMA AccessTyped == AccessTypeOK /\ AccessInv /\ [Next]_vars => AccessTypeOK'
<1> SUFFICES ASSUME AccessTypeOK, AccessInv, [Next]_vars
             PROVE  AccessTypeOK'
  OBVIOUS
<1>1. ASSUME NEW k \in Keys, Bootstrap(k)
      PROVE  AccessTypeOK'
  <2>1. [scopes |-> BOOTSTRAP_SCOPES, state |-> "active", parent |-> None] \in Rows
    BY DEF Rows
  <2> QED  BY <1>1, <2>1 DEF Bootstrap, AccessTypeOK
<1>2. ASSUME NEW k \in Keys, Lapse(k)
      PROVE  AccessTypeOK'
  <2>1. keys[k] \in Rows  BY <1>2 DEF Lapse, Active, Exists, AccessTypeOK
  <2>2. [keys[k] EXCEPT !.state = "expired"] \in Rows  BY <2>1 DEF Rows
  <2> QED  BY <1>2, <2>1, <2>2 DEF Lapse, AccessTypeOK, has
<1>3. ASSUME NEW q \in Requests, NEW p \in Processes, NEW k \in Keys, Authenticate(q, p, k)
      PROVE  AccessTypeOK'
  <2>1. [at |-> "principal", key |-> k, read |-> keys[k]] \in Principals
    BY <1>3 DEF Authenticate, Active, Exists, AccessTypeOK, Principals
  <2> QED  BY <1>3, <2>1 DEF Authenticate, Respond, AccessTypeOK
<1>4. ASSUME NEW q \in Requests, NEW at \in {"creating", "revoking", "using"},
             NEW target \in Keys, NEW scopes \in SUBSET GRANTABLE_SCOPES,
             request[q].at = "principal", Handle(q, at, target, scopes)
      PROVE  AccessTypeOK'
  <2>1. [at |-> at, key |-> request[q].key, read |-> request[q].read, target |-> target,
         scopes |-> scopes] \in Handled
    BY <1>4, Stages DEF Handled
  <2> QED  BY <1>4, <2>1 DEF Handle, Respond, AccessTypeOK
<1>5. ASSUME NEW q \in Requests, NEW k \in Keys,
             create_api_key(q, k) \/ revoke_api_key(q, k) \/ Use(q)
      PROVE  AccessTypeOK'
  <2>1. CASE create_api_key(q, k)  BY <1>4, <2>1 DEF create_api_key
  <2>2. CASE revoke_api_key(q, k)  BY <1>4, <2>2 DEF revoke_api_key
  <2>3. CASE Use(q)
    <3>1. request[q].key \in Keys  BY <2>3, Stages DEF Use
    <3> QED  BY <1>4, <2>3, <3>1 DEF Use
  <2> QED  BY <1>5, <2>1, <2>2, <2>3
<1>6. ASSUME NEW q \in Requests, Commit(q)
      PROVE  AccessTypeOK'
  <2>1. request' \in [Requests -> {Idle} \cup Principals \cup Handled] /\ raced' \in BOOLEAN
        /\ lapsed' = lapsed
    BY <1>6 DEF Commit, Respond, AccessTypeOK
  <2>2. request[q] \in Handled  BY <1>6, CommitEffect
  <2>3. keys' \in [Keys -> Rows \cup {Absent}]
    <3>1. Minted(q) \in Rows
      BY <2>2 DEF Minted, Handled, Rows, GRANTABLE_SCOPES, BOOTSTRAP_SCOPES
    <3>2. request[q].at = "revoking" =>
              [keys[request[q].target] EXCEPT !.state = "revoked"] \in Rows
      <4>1. request[q].at = "revoking" => keys[request[q].target] \in Rows
        BY <2>2 DEF AccessInv, DecisionStands, Exists, AccessTypeOK, Handled
      <4> QED  BY <4>1 DEF Rows
    <3> QED  BY <1>6, <2>2, <3>1, <3>2, CommitEffect DEF AccessTypeOK, Handled
  <2> QED  BY <2>1, <2>3 DEF AccessTypeOK
<1>7. ASSUME NEW q \in Requests, Abort(q)
      PROVE  AccessTypeOK'
  BY <1>7 DEF Abort, Respond, AccessTypeOK
<1>8. CASE UNCHANGED access  BY <1>8 DEF access, AccessTypeOK
<1>9. UNCHANGED vars => UNCHANGED access  BY DEF vars, access
<1>10. ASSUME NEW q \in Requests, Use(q)
       PROVE  AccessTypeOK'
  <2>1. request[q].key \in Keys  BY <1>10, Stages DEF Use
  <2> QED  BY <1>5, <1>10, <2>1
<1> QED
  BY <1>1, <1>2, <1>3, <1>5, <1>6, <1>7, <1>8, <1>9, <1>10 DEF Next

-----------------------------------------------------------------------------

\* A request moves on and no key changes.
LEMMA RequestMoves ==
    ASSUME AccessTypeOK, AccessInv, UNCHANGED <<keys, raced, lapsed>>, NEW q \in Requests,
           \A r \in Requests \ {q} : request'[r] = request[r],
           request'[q].at = "creating" => \A r \in Requests \ {q} :
               request[r].at = "creating" => request[r].target # request'[q].target,
           ReadStillTrue(q)', DecisionStands(q)', WriterStands(q)'
    PROVE  AccessInv'
<1>1. ASSUME NEW r \in Requests \ {q}
      PROVE  ReadStillTrue(r)' /\ DecisionStands(r)' /\ WriterStands(r)'
  <2>1. ReadStillTrue(r)' /\ WriterStands(r)'
    BY DEF AccessInv, ReadStillTrue, WriterStands, Exists, Active
  <2>2. DecisionStands(r)'
    BY DEF AccessInv, DecisionStands, Exists
  <2> QED  BY <2>1, <2>2
<1>2. \A k \in Keys : ParentStays(k)'  BY DEF AccessInv, ParentStays, Exists
<1>3. NotLockedOut'  BY DEF AccessInv, NotLockedOut, Writers, Exists, Active
<1>4. ScopesInherited'  BY DEF AccessInv, ScopesInherited, Exists
<1> QED  BY <1>1, <1>2, <1>3, <1>4 DEF AccessInv

\* Whatever the keys, one whose scopes and parent did not change bears the same witness.
LEMMA AccessKept == AccessTypeOK /\ AccessInv /\ [Next]_vars => AccessInv'
<1> SUFFICES ASSUME AccessTypeOK, AccessInv, [Next]_vars
             PROVE  AccessInv'
  OBVIOUS
<1>1. ASSUME NEW k \in Keys, Bootstrap(k)
      PROVE  AccessInv'
  <2>1. \A q \in Requests : request[q] = Idle
    BY <1>1, Stages DEF Bootstrap, AccessInv, ReadStillTrue
  <2>2. \A q \in Requests : request'[q] = Idle /\ request'[q].at = "idle"
    BY <1>1, <2>1 DEF Bootstrap, Idle
  <2>3. \A q \in Requests : ReadStillTrue(q)' /\ DecisionStands(q)' /\ WriterStands(q)'
    BY <2>2 DEF ReadStillTrue, DecisionStands, WriterStands
  <2>4. keys'[k] = [scopes |-> BOOTSTRAP_SCOPES, state |-> "active", parent |-> None]
        /\ \A j \in Keys \ {k} : keys'[j] = Absent
    BY <1>1 DEF Bootstrap, AccessTypeOK, Exists
  <2>5. keys'[k] # Absent
    BY <2>4, AccessAssumption DEF Rows
  <2>6. k \in Writers'
    BY <2>4, <2>5 DEF Writers, Active, Exists, has, BOOTSTRAP_SCOPES
  <2>7. (\A j \in Keys : ParentStays(j)') /\ ScopesInherited'
    BY <2>4 DEF ParentStays, ScopesInherited, Exists
  <2> QED  BY <2>3, <2>6, <2>7 DEF AccessInv, NotLockedOut
<1>2. ASSUME NEW k \in Keys, Lapse(k)
      PROVE  AccessInv'
  <2>1. /\ keys[k] \in Rows
        /\ keys' = [keys EXCEPT ![k].state = "expired"]
        /\ UNCHANGED <<request, raced>>
        /\ lapsed' = (lapsed \/ has(keys[k], "apikey.write"))
    BY <1>2 DEF Lapse, Active, Exists, AccessTypeOK
  <2>2. /\ \A j \in Keys : (Exists(j)' <=> Exists(j)) /\
              (Exists(j) => keys'[j].scopes = keys[j].scopes /\ keys'[j].parent = keys[j].parent)
        /\ \A j \in Keys \ {k} : keys'[j] = keys[j]
    <3>1. [keys[k] EXCEPT !.state = "expired"] \in Rows  BY <2>1 DEF Rows
    <3>2. keys'[k] = [keys[k] EXCEPT !.state = "expired"]  BY <2>1 DEF AccessTypeOK
    <3>3. keys'[k] # Absent /\ keys[k] # Absent  BY <2>1, <3>1, <3>2, AccessAssumption
    <3>4. keys'[k].scopes = keys[k].scopes /\ keys'[k].parent = keys[k].parent
      BY <2>1, <3>2 DEF Rows
    <3>5. \A j \in Keys \ {k} : keys'[j] = keys[j]  BY <2>1 DEF AccessTypeOK
    <3> QED  BY <3>3, <3>4, <3>5 DEF Exists
  <2>3. ASSUME NEW q \in Requests
        PROVE  ReadStillTrue(q)' /\ DecisionStands(q)' /\ WriterStands(q)'
    <3>1. request[q] # Idle => request[q].key \in Keys  BY Stages
    <3>2. ReadStillTrue(q)'  BY <2>1, <2>2, <3>1 DEF AccessInv, ReadStillTrue
    <3>3. Handling(q) => request[q].target \in Keys  BY Stages DEF Handled
    <3>4. DecisionStands(q)'
      BY <2>1, <2>2, <3>3 DEF AccessInv, DecisionStands, Handling
    <3>5. WriterStands(q)'
      <4>1. SUFFICES ASSUME request[q] # Idle, has(request[q].read, "apikey.write"),
                            ~raced, ~lapsed, ~has(keys[k], "apikey.write")
                     PROVE  Active(request[q].key)'
        BY <2>1 DEF WriterStands
      <4>2. request[q].key # k
        BY <4>1 DEF AccessInv, ReadStillTrue, has
      <4> QED  BY <2>1, <2>2, <3>1, <4>1, <4>2 DEF AccessInv, WriterStands, Active, Exists
    <3> QED  BY <3>2, <3>4, <3>5
  <2>4. \A j \in Keys : ParentStays(j)'
    BY <2>2 DEF AccessInv, ParentStays, AccessTypeOK, Rows, Exists
  <2>5. NotLockedOut'
    <3>1. SUFFICES ASSUME \E j \in Keys : Exists(j), ~raced, ~lapsed,
                          ~has(keys[k], "apikey.write")
                   PROVE  Writers' # {}
      BY <2>1, <2>2 DEF NotLockedOut
    <3>2. PICK j \in Keys : j \in Writers  BY <3>1 DEF AccessInv, NotLockedOut, Writers
    <3>3. j # k  BY <3>1, <3>2 DEF Writers
    <3> QED  BY <2>2, <3>2, <3>3 DEF Writers, Active, Exists
  <2>6. ScopesInherited'
    BY <2>2 DEF AccessInv, ScopesInherited, ParentStays, has, AccessTypeOK, Rows, Exists
  <2> QED  BY <2>3, <2>4, <2>5, <2>6 DEF AccessInv
<1>3. ASSUME NEW q \in Requests, NEW p \in Processes, NEW k \in Keys, Authenticate(q, p, k)
      PROVE  AccessInv'
  <2>1. CASE UNCHANGED request
    BY <1>3, <2>1 DEF Authenticate, AccessInv, ReadStillTrue, DecisionStands, WriterStands,
                      ParentStays, NotLockedOut, ScopesInherited, Writers, Exists, Active
  <2>2. CASE Respond(q, [at |-> "principal", key |-> k, read |-> keys[k]])
    <3>1. /\ request'[q] = [at |-> "principal", key |-> k, read |-> keys[k]]
          /\ \A r \in Requests \ {q} : request'[r] = request[r]
          /\ UNCHANGED <<keys, raced, lapsed>>
          /\ Active(k)
      BY <1>3, <2>2 DEF Authenticate, Respond, AccessTypeOK
    <3>2. ReadStillTrue(q)' /\ DecisionStands(q)' /\ WriterStands(q)'
      BY <3>1 DEF ReadStillTrue, DecisionStands, WriterStands, Active, Exists
    <3>3. request'[q].at # "creating"  BY <3>1
    <3> QED  BY <3>1, <3>2, <3>3, RequestMoves
  <2> QED  BY <1>3, <2>1, <2>2 DEF Authenticate
<1>4. ASSUME NEW q \in Requests, NEW k \in Keys,
             create_api_key(q, k) \/ revoke_api_key(q, k) \/ Use(q)
      PROVE  AccessInv'
  <2>0. request[q].at = "principal" /\ request[q] # Idle
        /\ request[q].key \in Keys /\ request[q].read \in Rows
    BY <1>4, Stages DEF create_api_key, revoke_api_key, Use
  <2>1. ASSUME NEW at \in {"creating", "revoking", "using"}, NEW target \in Keys,
               NEW scopes \in SUBSET GRANTABLE_SCOPES, Handle(q, at, target, scopes)
        PROVE  /\ request'[q] = [at |-> at, key |-> request[q].key, read |-> request[q].read,
                                 target |-> target, scopes |-> scopes]
               /\ \A r \in Requests \ {q} : request'[r] = request[r]
               /\ UNCHANGED <<keys, raced, lapsed>>
               /\ ReadStillTrue(q)' /\ WriterStands(q)'
    <3>1. /\ request'[q] = [at |-> at, key |-> request[q].key, read |-> request[q].read,
                            target |-> target, scopes |-> scopes]
          /\ \A r \in Requests \ {q} : request'[r] = request[r]
          /\ UNCHANGED <<keys, raced, lapsed>>
      BY <2>1 DEF Handle, Respond, AccessTypeOK
    <3>2. request'[q].key = request[q].key /\ request'[q].read = request[q].read
      BY <3>1
    <3> QED
      BY <2>0, <3>1, <3>2 DEF AccessInv, ReadStillTrue, WriterStands, Active, Exists
  <2>2. CASE create_api_key(q, k)
    <3>1. PICK scopes \in SUBSET GRANTABLE_SCOPES :
              MayGrant(request[q].read, scopes) /\ Handle(q, "creating", k, scopes)
      BY <2>2 DEF create_api_key
    <3>2. ~Exists(k) /\ \A r \in Requests : request[r].at = "creating" => request[r].target # k
      BY <2>2 DEF create_api_key
    <3>3. /\ request'[q] = [at |-> "creating", key |-> request[q].key,
                         read |-> request[q].read, target |-> k, scopes |-> scopes]
          /\ \A r \in Requests \ {q} : request'[r] = request[r]
          /\ UNCHANGED <<keys, raced, lapsed>>
          /\ ReadStillTrue(q)' /\ WriterStands(q)'
      BY <2>1, <3>1
    <3>4. DecisionStands(q)'
      BY <3>1, <3>2, <3>3 DEF DecisionStands, Exists
    <3> QED  BY <3>2, <3>3, <3>4, RequestMoves
  <2>3. CASE revoke_api_key(q, k)
    <3>1. Handle(q, "revoking", k, {}) /\ Exists(k) /\ MayRevoke(q, k)
      BY <2>3 DEF revoke_api_key
    <3>2. /\ request'[q] = [at |-> "revoking", key |-> request[q].key,
                         read |-> request[q].read, target |-> k, scopes |-> {}]
          /\ \A r \in Requests \ {q} : request'[r] = request[r]
          /\ UNCHANGED <<keys, raced, lapsed>>
          /\ ReadStillTrue(q)' /\ WriterStands(q)'
      BY <2>1, <3>1
    <3>3. DecisionStands(q)'
      BY <3>1, <3>2 DEF DecisionStands, Exists, MayRevoke
    <3> QED  BY <3>2, <3>3, RequestMoves
  <2>4. CASE Use(q)
    <3>1. Handle(q, "using", request[q].key, {})  BY <2>4 DEF Use
    <3>2. /\ request'[q] = [at |-> "using", key |-> request[q].key,
                         read |-> request[q].read, target |-> request[q].key, scopes |-> {}]
          /\ \A r \in Requests \ {q} : request'[r] = request[r]
          /\ UNCHANGED <<keys, raced, lapsed>>
          /\ ReadStillTrue(q)' /\ WriterStands(q)'
      BY <2>0, <2>1, <3>1
    <3>3. DecisionStands(q)'  BY <3>2 DEF DecisionStands
    <3> QED  BY <3>2, <3>3, RequestMoves
  <2> QED  BY <1>4, <2>2, <2>3, <2>4
<1>5. ASSUME NEW q \in Requests, Use(q)
      PROVE  AccessInv'
  <2>1. request[q].key \in Keys  BY <1>5, Stages DEF Use
  <2> QED  BY <1>4, <1>5, <2>1
<1>6. ASSUME NEW q \in Requests, Abort(q)
      PROVE  AccessInv'
  <2>1. /\ request'[q] = Idle /\ Idle.at = "idle"
        /\ \A r \in Requests \ {q} : request'[r] = request[r]
        /\ UNCHANGED <<keys, raced, lapsed>>
    BY <1>6 DEF Abort, Respond, AccessTypeOK, Idle
  <2>2. ReadStillTrue(q)' /\ DecisionStands(q)' /\ WriterStands(q)'
    BY <2>1 DEF ReadStillTrue, DecisionStands, WriterStands
  <2> QED  BY <2>1, <2>2, RequestMoves
<1>7. ASSUME NEW q \in Requests, Commit(q)
      PROVE  AccessInv'
  <2> DEFINE t == request[q].target
  <2>1. /\ request[q] \in Handled /\ t \in Keys /\ request[q].key \in Keys
        /\ request[q].at \in {"creating", "revoking", "using"} /\ request[q] # Idle
        /\ request'[q] = Idle /\ request'[q].at = "idle"
        /\ \A r \in Requests \ {q} : request'[r] = request[r]
        /\ lapsed' = lapsed
        /\ ~raced' => ~raced
    <3>1. request[q] \in Handled  BY <1>7, CommitEffect
    <3> QED  BY <1>7, <3>1 DEF Handled, Idle, Commit, Respond, AccessTypeOK
  <2>2. ReadStillTrue(q) /\ DecisionStands(q) /\ WriterStands(q)  BY DEF AccessInv
  <2>3. /\ \A j \in Keys : Exists(j) => Exists(j)' /\ Kept(j)
        /\ \A j \in Keys \ {t} : keys'[j] = keys[j]
    BY <1>7, <2>1, CommitKeeps
  <2>4. ~raced' /\ request[q].at = "revoking" =>
            \A r \in Requests \ {q} : request[r] # Idle => request[r].key # t
    BY <1>7 DEF Commit
  <2>5. ASSUME NEW r \in Requests \ {q}
        PROVE  ReadStillTrue(r)' /\ DecisionStands(r)' /\ WriterStands(r)'
    <3>1. /\ request'[r] = request[r]
          /\ ReadStillTrue(r) /\ DecisionStands(r) /\ WriterStands(r)
          /\ request[r] # Idle => request[r].key \in Keys
          /\ Handling(r) => request[r].target \in Keys
      BY <2>1, Stages DEF AccessInv, Handled
    <3>2. ReadStillTrue(r)'  BY <2>3, <3>1 DEF ReadStillTrue, Kept
    <3>3. request[r].at = "creating" => ~Exists(request[r].target)'
      <4>1. SUFFICES ASSUME request[r].at = "creating"
                     PROVE  request[r].target # t \/ request[q].at = "using"
        BY <1>7, <2>3, <3>1, CommitEffect DEF DecisionStands, Exists, Handling
      <4> QED  BY <2>1, <2>2, <3>1, <4>1 DEF DecisionStands
    <3>4. DecisionStands(r)'
      BY <2>1, <2>3, <3>1, <3>3 DEF DecisionStands, Handling
    <3>5. WriterStands(r)'
      <4>1. SUFFICES ASSUME request[r] # Idle, has(request[r].read, "apikey.write"),
                            ~raced', ~lapsed'
                     PROVE  Active(request[r].key)'
        BY <3>1 DEF WriterStands
      <4>2. Active(request[r].key)  BY <2>1, <3>1, <4>1 DEF WriterStands
      <4>3. request[r].key # t \/ request[q].at = "using"
        BY <2>1, <2>2, <2>4, <4>1, <4>2 DEF DecisionStands, Active
      <4> QED  BY <1>7, <2>3, <3>1, <4>1, <4>2, <4>3, CommitEffect DEF Active, Exists
    <3> QED  BY <3>2, <3>4, <3>5
  <2>6. ReadStillTrue(q)' /\ DecisionStands(q)' /\ WriterStands(q)'
    BY <2>1 DEF ReadStillTrue, DecisionStands, WriterStands
  <2>7. request[q].at = "creating" =>
            /\ ~Exists(t) /\ MayGrant(request[q].read, request[q].scopes)
            /\ keys'[t] = Minted(q) /\ Minted(q).parent = request[q].key
            /\ Minted(q).scopes = request[q].scopes
            /\ request[q].key # t
    <3>1. request[q].at = "creating" => keys'[t] = Minted(q)
      BY <1>7, <2>1, CommitEffect DEF AccessTypeOK
    <3> QED  BY <2>1, <2>2, <3>1 DEF DecisionStands, ReadStillTrue, Minted
  <2>8. \A j \in Keys : (Exists(j)' /\ ~Exists(j)) => j = t /\ request[q].at = "creating"
    BY <1>7, <2>1, <2>2, <2>3, CommitEffect DEF DecisionStands, Exists
  <2>9. ASSUME NEW j \in Keys
        PROVE  ParentStays(j)'
    <3>1. SUFFICES ASSUME Exists(j)', keys'[j].parent # None
                   PROVE  Exists(keys[j].parent)'
      BY DEF ParentStays
    <3>2. CASE Exists(j)
      <4>1. keys[j] \in Rows  BY <3>2 DEF Exists, AccessTypeOK
      <4> QED  BY <2>3, <3>1, <3>2, <4>1 DEF AccessInv, ParentStays, Kept, Rows
    <3>3. CASE ~Exists(j)
      BY <2>1, <2>2, <2>3, <2>7, <2>8, <3>1, <3>3 DEF ReadStillTrue
    <3> QED  BY <3>2, <3>3
  <2>10. NotLockedOut'
    <3>1. SUFFICES ASSUME ~raced', ~lapsed'
                   PROVE  Writers' # {}
      BY DEF NotLockedOut
    <3>2. Exists(request[q].key)  BY <2>1, <2>2 DEF ReadStillTrue
    <3>3. CASE request[q].at = "revoking"
      <4>1. request[q].key \in Writers /\ request[q].key # t
        BY <2>1, <2>2, <3>1, <3>3
        DEF ReadStillTrue, DecisionStands, WriterStands, Writers, has
      <4> QED  BY <2>1, <2>3, <4>1 DEF Writers, Active, Exists
    <3>4. CASE request[q].at # "revoking"
      <4>1. PICK j \in Keys : j \in Writers
        BY <2>1, <3>1, <3>2 DEF AccessInv, NotLockedOut, Writers
      <4>2. keys'[j] = keys[j]
        BY <1>7, <2>1, <2>3, <2>7, <3>4, <4>1, CommitEffect DEF Writers, Active
      <4> QED  BY <4>1, <4>2 DEF Writers, Active, Exists
    <3> QED  BY <3>3, <3>4
  <2>11. ASSUME NEW j \in Keys, Exists(j)', keys'[j].parent # None
         PROVE  /\ "admin" \notin keys'[j].scopes
                /\ \A s \in keys'[j].scopes : has(keys'[keys'[j].parent], s)
    <3>1. CASE Exists(j)
      <4>1. keys[j] \in Rows  BY <3>1 DEF Exists, AccessTypeOK
      <4>2. keys'[j].parent = keys[j].parent /\ keys'[j].scopes = keys[j].scopes
        BY <2>3, <3>1 DEF Kept
      <4>3. keys[j].parent \in Keys /\ Exists(keys[j].parent)
        BY <2>11, <3>1, <4>1, <4>2 DEF AccessInv, ParentStays, Rows
      <4>4. keys'[keys[j].parent].scopes = keys[keys[j].parent].scopes
        BY <2>3, <4>3 DEF Kept
      <4> QED  BY <2>11, <3>1, <4>2, <4>4 DEF AccessInv, ScopesInherited, has
    <3>2. CASE ~Exists(j)
      <4>1. j = t /\ request[q].at = "creating"  BY <2>8, <2>11, <3>2
      <4>2. keys'[j].scopes = request[q].scopes /\ keys'[j].parent = request[q].key
        BY <2>7, <4>1
      <4>3. keys'[request[q].key].scopes = request[q].read.scopes
        BY <2>1, <2>2, <2>3 DEF ReadStillTrue, Kept
      <4>4. request[q].scopes \subseteq GRANTABLE_SCOPES
            /\ \A s \in request[q].scopes : has(request[q].read, s)
        BY <2>7, <4>1 DEF MayGrant
      <4>5. "admin" \notin GRANTABLE_SCOPES  BY AccessAssumption DEF GRANTABLE_SCOPES
      <4> QED  BY <4>2, <4>3, <4>4, <4>5 DEF has
    <3> QED  BY <3>1, <3>2
  <2>12. ScopesInherited'  BY <2>11 DEF ScopesInherited
  <2> QED  BY <2>5, <2>6, <2>9, <2>10, <2>12 DEF AccessInv
<1>8. CASE UNCHANGED access
  BY <1>8 DEF access, AccessInv, ReadStillTrue, DecisionStands, WriterStands, ParentStays,
              NotLockedOut, ScopesInherited, Writers, Exists, Active
<1>9. UNCHANGED vars => UNCHANGED access  BY DEF vars, access
<1> QED
  BY <1>1, <1>2, <1>3, <1>4, <1>5, <1>6, <1>7, <1>8, <1>9 DEF Next

-----------------------------------------------------------------------------

\* The invariant holds of a tenant without keys.
LEMMA AccessStarts == Init => AccessTypeOK /\ AccessInv
<1> SUFFICES ASSUME Init
             PROVE  AccessTypeOK /\ AccessInv
  OBVIOUS
<1>1. /\ \A q \in Requests : request[q] = Idle /\ request[q].at = "idle"
      /\ \A k \in Keys : ~Exists(k)
  BY DEF Init, Idle, Exists
<1>2. AccessTypeOK  BY DEF Init, AccessTypeOK
<1>3. AccessInv
  BY <1>1 DEF AccessInv, ReadStillTrue, DecisionStands, WriterStands, ParentStays,
              NotLockedOut, ScopesInherited
<1> QED  BY <1>2, <1>3

\* Keys and requests have their types, and what a request has read and decided stands.
THEOREM AccessInvariant == Spec => [](AccessTypeOK /\ AccessInv)
<1>1. (AccessTypeOK /\ AccessInv) /\ [Next]_vars => (AccessTypeOK /\ AccessInv)'
  BY AccessTyped, AccessKept
<1> QED  BY <1>1, AccessStarts, PTL DEF Spec

\* No chain of mintings, however interleaved, hands on a scope its first key lacks
\* (create_api_key's check is made on the row it read, and commits later).
THEOREM ScopesOnlyShrink == Spec => []ScopesInherited
<1>1. AccessInv => ScopesInherited  BY DEF AccessInv
<1> QED  BY <1>1, AccessInvariant, PTL

\* Revocations alone do not lock a tenant out (revoke_api_key refuses its own key).
THEOREM TenantNotLockedOut == Spec => []NotLockedOut
<1>1. AccessInv => NotLockedOut  BY DEF AccessInv
<1> QED  BY <1>1, AccessInvariant, PTL

\* What RevocationSticks says of a step.
Sticks ==
    \A k \in Keys : Exists(k) =>
        /\ Exists(k)' /\ keys'[k].scopes = keys[k].scopes
        /\ keys[k].state = "revoked" => keys'[k].state = "revoked"

\* Each step leaves scopes as they are, and revoked keys revoked.
LEMMA StepSticks == AccessTypeOK /\ AccessInv /\ [Next]_vars => Sticks
<1> SUFFICES ASSUME AccessTypeOK, AccessInv, [Next]_vars
             PROVE  Sticks
  OBVIOUS
<1>1. CASE UNCHANGED keys  BY <1>1 DEF Sticks, Exists
<1>2. ASSUME NEW k \in Keys, Bootstrap(k)
      PROVE  Sticks
  BY <1>2 DEF Bootstrap, Sticks
<1>3. ASSUME NEW k \in Keys, Lapse(k)
      PROVE  Sticks
  <2>1. keys[k] \in Rows /\ keys[k].state = "active"
        /\ keys' = [keys EXCEPT ![k].state = "expired"]
    BY <1>3 DEF Lapse, Active, Exists, AccessTypeOK
  <2>2. [keys[k] EXCEPT !.state = "expired"] \in Rows  BY <2>1 DEF Rows
  <2>3. /\ keys'[k] = [keys[k] EXCEPT !.state = "expired"]
        /\ \A j \in Keys \ {k} : keys'[j] = keys[j]
    BY <2>1 DEF AccessTypeOK
  <2>4. keys'[k].scopes = keys[k].scopes  BY <2>1, <2>3 DEF Rows
  <2> QED  BY <2>1, <2>2, <2>3, <2>4, AccessAssumption DEF Sticks, Exists
<1>4. ASSUME NEW q \in Requests, Commit(q)
      PROVE  Sticks
  <2>1. \A k \in Keys : Exists(k) => Exists(k)' /\ Kept(k)  BY <1>4, CommitKeeps
  <2> QED  BY <2>1 DEF Sticks, Kept
<1>5. ASSUME NEW q \in Requests, NEW k \in Keys,
             \/ \E p \in Processes : Authenticate(q, p, k)
             \/ create_api_key(q, k) \/ revoke_api_key(q, k)
      PROVE  UNCHANGED keys
  BY <1>5 DEF Authenticate, create_api_key, revoke_api_key, Handle
<1>6. ASSUME NEW q \in Requests, Use(q) \/ Abort(q)
      PROVE  UNCHANGED keys
  BY <1>6 DEF Use, Abort, Handle
<1>7. UNCHANGED access => UNCHANGED keys  BY DEF access
<1>8. UNCHANGED vars => UNCHANGED access  BY DEF vars, access
<1> QED  BY <1>1, <1>2, <1>3, <1>4, <1>5, <1>6, <1>7, <1>8 DEF Next

\* A revoked key stays revoked whatever was under way with it, and no key gains a scope.
THEOREM RevocationsStick == Spec => RevocationSticks
<1>1. AccessTypeOK /\ AccessInv /\ [Next]_vars => [Sticks]_vars  BY StepSticks
<1> QED  BY <1>1, AccessInvariant, PTL DEF Spec, RevocationSticks, Sticks

-----------------------------------------------------------------------------
(* The rate limiter: requests that carry a time. *)

\* The requests of some times are numbered from 1 at each.
LEMMA HitsElements ==
    ASSUME NEW T, NEW h, \A t \in T : h[t] \in Nat
    PROVE  \A p : p \in HitsAt(h, T) <=>
                      \E t \in T, n \in Nat \ {0} : p = <<t, n>> /\ n <= h[t]
<1>1. \A t \in T : \A n : n \in 1..h[t] <=> n \in Nat \ {0} /\ n <= h[t]
  OBVIOUS
<1> QED BY <1>1 DEF HitsAt

\* Fewer times with fewer requests each are fewer requests.
LEMMA HitsMonotone ==
    ASSUME NEW T, NEW U, NEW g, NEW h, T \subseteq U, IsFiniteSet(HitsAt(h, U)),
           \A t \in U : h[t] \in Nat,
           \A t \in T : g[t] \in Nat /\ g[t] <= h[t]
    PROVE  /\ IsFiniteSet(HitsAt(g, T))
           /\ Cardinality(HitsAt(g, T)) <= Cardinality(HitsAt(h, U))
<1>1. \A p : p \in HitsAt(g, T) <=>
                 \E t \in T, n \in Nat \ {0} : p = <<t, n>> /\ n <= g[t]
  BY HitsElements
<1>2. \A p : p \in HitsAt(h, U) <=>
                 \E t \in U, n \in Nat \ {0} : p = <<t, n>> /\ n <= h[t]
  BY HitsElements
<1>3. ASSUME NEW t \in T, NEW n \in Nat \ {0}, n <= g[t] PROVE t \in U /\ n <= h[t]
  BY <1>3
<1>4. HitsAt(g, T) \in SUBSET HitsAt(h, U)
  BY <1>1, <1>2, <1>3
<1> QED BY <1>4, FS_Subset

\* One more request at one time is one more request.
LEMMA HitAdded ==
    ASSUME NEW T, NEW t \in T, NEW g, NEW h, IsFiniteSet(HitsAt(g, T)),
           \A u \in T : g[u] \in Nat, h[t] = g[t] + 1,
           \A u \in T \ {t} : h[u] = g[u]
    PROVE  /\ IsFiniteSet(HitsAt(h, T))
           /\ Cardinality(HitsAt(h, T)) = Cardinality(HitsAt(g, T)) + 1
<1>1. \A u \in T : h[u] \in Nat
  OBVIOUS
<1>2. \A p : p \in HitsAt(g, T) <=>
                 \E u \in T, n \in Nat \ {0} : p = <<u, n>> /\ n <= g[u]
  BY HitsElements
<1>3. \A p : p \in HitsAt(h, T) <=>
                 \E u \in T, n \in Nat \ {0} : p = <<u, n>> /\ n <= h[u]
  BY <1>1, HitsElements
<1>4. <<t, h[t]>> \notin HitsAt(g, T)
  BY <1>2
<1>5. \A u \in T, n \in Nat \ {0} :
          n <= h[u] <=> n <= g[u] \/ (u = t /\ n = h[t])
  OBVIOUS
<1>6. h[t] \in Nat \ {0}
  OBVIOUS
<1>7. \A p : p \in HitsAt(h, T) <=> p \in HitsAt(g, T) \/ p = <<t, h[t]>>
  BY <1>2, <1>3, <1>5, <1>6
<1>8. HitsAt(h, T) = HitsAt(g, T) \cup {<<t, h[t]>>}
  BY <1>7
<1> DEFINE S == HitsAt(g, T)
           x == <<t, h[t]>>
<1>9. IsFiniteSet(S) /\ x \notin S /\ HitsAt(h, T) = S \cup {x}
  BY <1>4, <1>8
<1> HIDE DEF S, x
<1>10. IsFiniteSet(S \cup {x}) /\ Cardinality(S \cup {x}) = Cardinality(S) + 1
  BY <1>9, FS_AddElement
<1> QED BY <1>9, <1>10 DEF S

\* The requests of one time are at most all.
LEMMA HitsBounded ==
    ASSUME NEW T, NEW t \in T, NEW h, IsFiniteSet(HitsAt(h, T)), \A u \in T : h[u] \in Nat
    PROVE  h[t] <= Cardinality(HitsAt(h, T))
<1>1. {t} \X (1..h[t]) \in SUBSET HitsAt(h, T)
  BY DEF HitsAt
<1>2. Cardinality({t} \X (1..h[t])) <= Cardinality(HitsAt(h, T))
  BY <1>1, FS_Subset
<1>3. IsFiniteSet({t}) /\ Cardinality({t}) = 1
  BY FS_Singleton
<1>4. IsFiniteSet(1..h[t]) /\ Cardinality(1..h[t]) = h[t]
  BY FS_Interval
<1>5. Cardinality({t} \X (1..h[t])) = Cardinality({t}) * Cardinality(1..h[t])
  BY <1>3, <1>4, FS_Product
<1> QED BY <1>2, <1>3, <1>4, <1>5

\* A store that is empty has no requests at any time.
LEMMA HitsOfNone ==
    ASSUME NEW T, T \subseteq Stamps
    PROVE  IsFiniteSet(HitsAt(NoHits, T)) /\ Cardinality(HitsAt(NoHits, T)) = 0
<1>1. \A t \in T : {t} \X (1..NoHits[t]) = {}
  BY DEF NoHits
<1>2. HitsAt(NoHits, T) = {}
  BY <1>1 DEF HitsAt
<1> QED BY <1>2, FS_EmptySet

\* What is left after pruning are the requests of the window.
LEMMA HitsPruned ==
    ASSUME NEW h \in [Stamps -> Nat], NEW now \in Int, NEW T \in SUBSET Stamps
    PROVE  HitsAt(Pruned(h, now), T) = HitsAt(h, {t \in T : now < t + Window})
<1> DEFINE U == {t \in T : now < t + Window}
<1>1. /\ Stamps \subseteq Int /\ Window \in Int
      /\ \A t \in T : /\ Pruned(h, now)[t] = IF now < t + Window THEN h[t] ELSE 0
                      /\ Pruned(h, now)[t] \in Nat
  BY RateLimitAssumption DEF Pruned, Stamps
<1>2. \A p : p \in HitsAt(Pruned(h, now), T) <=>
                 \E t \in T, n \in Nat \ {0} : p = <<t, n>> /\ n <= Pruned(h, now)[t]
  BY <1>1, HitsElements
<1>3. \A p : p \in HitsAt(h, U) <=>
                 \E t \in U, n \in Nat \ {0} : p = <<t, n>> /\ n <= h[t]
  BY HitsElements
<1>4. \A t \in T, n \in Nat \ {0} :
          n <= Pruned(h, now)[t] <=> now < t + Window /\ n <= h[t]
  BY <1>1
<1>5. \A p : p \in HitsAt(Pruned(h, now), T) <=> p \in HitsAt(h, U)
  BY <1>2, <1>3, <1>4
<1> QED BY <1>5

\* Pruning adds no request.
LEMMA PrunedTyped ==
    ASSUME NEW N, NEW h \in [Stamps -> 0..N], NEW now \in Int, N \in Nat
    PROVE  /\ Pruned(h, now) \in [Stamps -> 0..N]
           /\ \A t \in Stamps : Pruned(h, now)[t] <= h[t]
BY DEF Pruned

\* A set of numbers has a least one.
LEMMA LeastNumber ==
    ASSUME NEW T \in SUBSET Nat, T # {}
    PROVE  \E n \in T : \A m \in T : n <= m
<1> DEFINE R == OpToRel(<, Nat)
<1>1. IsWellFoundedOn(R, Nat)
  BY NatLessThanWellFounded
<1> HIDE DEF R
<1>2. PICK n \in T : \A m \in T : <<m, n>> \notin R
  BY <1>1, WFMin
<1>3. ASSUME NEW m \in T PROVE n <= m
  <2>1. m \in Nat /\ n \in Nat
    OBVIOUS
  <2>2. m < n => <<m, n>> \in R
    BY <2>1 DEF R, OpToRel
  <2> QED BY <2>1, <2>2, <1>2
<1> QED BY <1>3

\* There is an oldest request once there is one.
LEMMA OldestIsThere ==
    ASSUME NEW h \in [Stamps -> Nat], IsFiniteSet(HitsAt(h, Stamps)), Used(h) > 0
    PROVE  /\ Oldest(h) \in Stamps /\ h[Oldest(h)] > 0
           /\ \A t \in Stamps : h[t] > 0 => Oldest(h) <= t
<1> DEFINE T == {t \in Stamps : h[t] > 0}
<1>1. T # {}
  <2> SUFFICES ASSUME T = {} PROVE FALSE
    OBVIOUS
  <2>1. \A t \in Stamps : {t} \X (1..h[t]) = {}
    OBVIOUS
  <2>2. HitsAt(h, Stamps) = {}
    BY <2>1 DEF HitsAt
  <2> QED BY <2>2, FS_EmptySet DEF Used
<1>2. T \in SUBSET Nat
  BY RateLimitAssumption DEF Stamps
<1>3. \E t \in T : \A u \in T : t <= u
  BY <1>1, <1>2, LeastNumber
<1>4. \E t \in Stamps : h[t] > 0 /\ \A u \in Stamps : h[u] > 0 => t <= u
  BY <1>3
<1> QED BY <1>4 DEF Oldest

-----------------------------------------------------------------------------
(* The rate limiter: the inductive invariant. *)

Since(T, from) == {t \in T : from <= t}
InWindow(from) == {t \in Times : from <= t /\ t < from + Window - MaxSkew}

\* What a store knows of a key at time now, when it holds the hits h, has admitted those of
\* adm, drops the key at expiry and has told the client to wait.  It holds no more than the
\* limit, and no window has more.  None that was admitted is later than now or outlives the
\* key, and none that still counts is lost.  When the client comes back, it holds fewer than
\* the limit.
StoreSound(now, h, adm, expiry, wait) ==
    /\ h \in [Stamps -> 0..Limit] /\ adm \in [Times -> Nat]
    /\ IsFiniteSet(HitsAt(h, Stamps)) /\ Used(h) <= Limit
    /\ IsFiniteSet(HitsAt(adm, Times))
    /\ \A t \in Times : adm[t] > 0 => t <= now /\ (expiry # None => t + Window <= expiry)
    /\ \A from \in Times : now < from + Window - MaxSkew =>
          Cardinality(HitsAt(adm, Since(Times, from))) <=
          Cardinality(HitsAt(h, Since(Stamps, from)))
    /\ \A from \in Times : Cardinality(HitsAt(adm, InWindow(from))) <= Limit
    /\ wait # None =>
          Cardinality(HitsAt(h, {t \in Stamps : wait < t + Window})) < Limit

\* The sets of times, and what the constants are.
LEMMA Numbers ==
    /\ Times \subseteq Nat /\ Stamps \subseteq Nat /\ Times \subseteq Stamps
    /\ Limit \in Nat \ {0} /\ Window \in Nat \ {0} /\ Second \in Nat \ {0}
    /\ MaxSkew \in Nat /\ MaxTime \in Nat
BY RateLimitAssumption DEF Times, Stamps

\* A window that is not over has no more admissions than the store has hits.
LEMMA OpenWindow ==
    ASSUME NEW h \in [Stamps -> Nat], NEW adm \in [Times -> Nat], NEW from \in Times,
           IsFiniteSet(HitsAt(h, Stamps)), Used(h) <= Limit, IsFiniteSet(HitsAt(adm, Times)),
           Cardinality(HitsAt(adm, Since(Times, from))) <=
               Cardinality(HitsAt(h, Since(Stamps, from)))
    PROVE  Cardinality(HitsAt(adm, InWindow(from))) <= Limit
<1>1. InWindow(from) \subseteq Since(Times, from) /\ Since(Times, from) \subseteq Times
      /\ Since(Stamps, from) \subseteq Stamps
  BY DEF InWindow, Since
<1>2. IsFiniteSet(HitsAt(adm, Since(Times, from)))
  BY <1>1, HitsMonotone
<1>3. /\ IsFiniteSet(HitsAt(adm, InWindow(from)))
      /\ Cardinality(HitsAt(adm, InWindow(from))) <=
             Cardinality(HitsAt(adm, Since(Times, from)))
  BY <1>1, <1>2, HitsMonotone
<1>4. /\ IsFiniteSet(HitsAt(h, Since(Stamps, from)))
      /\ Cardinality(HitsAt(h, Since(Stamps, from))) <= Cardinality(HitsAt(h, Stamps))
  BY <1>1, HitsMonotone
<1>5. /\ Cardinality(HitsAt(adm, InWindow(from))) \in Int
      /\ Cardinality(HitsAt(adm, Since(Times, from))) \in Int
      /\ Cardinality(HitsAt(h, Since(Stamps, from))) \in Int
      /\ Cardinality(HitsAt(h, Stamps)) \in Int /\ Limit \in Int
  BY <1>2, <1>3, <1>4, Numbers, FS_CardinalityType
<1> QED BY <1>3, <1>4, <1>5 DEF Used

\* A store that has room, and takes one more, is as it should be.
LEMMA AdmitSound ==
    ASSUME NEW c \in Times, NEW now \in Stamps, c <= now, now <= c + MaxSkew,
           NEW h, NEW adm, NEW e, NEW w, StoreSound(c, h, adm, e, w),
           Used(Pruned(h, now)) < Limit, NEW f \in {None, c + Window}
    PROVE  StoreSound(c, [Pruned(h, now) EXCEPT ![now] = @ + 1],
                      [adm EXCEPT ![c] = @ + 1], f, None)
<1> DEFINE g == Pruned(h, now)
           h2 == [g EXCEPT ![now] = @ + 1]
           a2 == [adm EXCEPT ![c] = @ + 1]
<1>1. /\ h \in [Stamps -> 0..Limit] /\ adm \in [Times -> Nat]
      /\ IsFiniteSet(HitsAt(h, Stamps)) /\ IsFiniteSet(HitsAt(adm, Times))
  BY DEF StoreSound
<1>2. /\ c \in Nat /\ now \in Nat /\ Limit \in Nat /\ MaxSkew \in Nat /\ Window \in Nat
      /\ Times \subseteq Nat /\ Stamps \subseteq Nat
  BY Numbers
<1>3. g \in [Stamps -> 0..Limit] /\ \A t \in Stamps : g[t] <= h[t]
  <2>1. now \in Int /\ Limit \in Nat
    BY <1>2
  <2>2. Pruned(h, now) \in [Stamps -> 0..Limit] /\ \A t \in Stamps : Pruned(h, now)[t] <= h[t]
    BY <2>1, <1>1, PrunedTyped
  <2> QED BY <2>2
<1>4. IsFiniteSet(HitsAt(g, Stamps)) /\ Cardinality(HitsAt(g, Stamps)) < Limit
  <2>1. \A t \in Stamps : g[t] \in Nat /\ h[t] \in Nat
    BY <1>1, <1>3
  <2> HIDE DEF g
  <2>2. IsFiniteSet(HitsAt(g, Stamps))
    BY <1>1, <1>3, <2>1, HitsMonotone
  <2> QED BY <2>2 DEF Used, g
<1> HIDE DEF g
<1>5. g[now] < Limit
  <2>1. g[now] <= Cardinality(HitsAt(g, Stamps))
    BY <1>3, <1>4, HitsBounded
  <2>2. Cardinality(HitsAt(g, Stamps)) \in Nat /\ g[now] \in Nat
    BY <1>3, <1>4, FS_CardinalityType
  <2> QED BY <2>1, <2>2, <1>2, <1>4
<1>6. /\ h2 \in [Stamps -> 0..Limit] /\ h2[now] = g[now] + 1
      /\ \A t \in Stamps \ {now} : h2[t] = g[t]
  BY <1>2, <1>3, <1>5
<1>7. a2 \in [Times -> Nat] /\ a2[c] = adm[c] + 1 /\ \A t \in Times \ {c} : a2[t] = adm[t]
  BY <1>1
<1> HIDE DEF h2, a2
<1>8. IsFiniteSet(HitsAt(h2, Stamps)) /\ Used(h2) <= Limit
  <2>1. /\ IsFiniteSet(HitsAt(h2, Stamps))
        /\ Cardinality(HitsAt(h2, Stamps)) = Cardinality(HitsAt(g, Stamps)) + 1
    BY <1>3, <1>4, <1>6, HitAdded
  <2>2. Cardinality(HitsAt(g, Stamps)) \in Nat
    BY <1>4, FS_CardinalityType
  <2> QED BY <2>1, <2>2, <1>2, <1>4 DEF Used
<1>9. IsFiniteSet(HitsAt(a2, Times))
  BY <1>1, <1>7, HitAdded
<1>10. \A t \in Times : a2[t] > 0 => t <= c /\ (f # None => t + Window <= f)
  BY <1>1, <1>2, <1>7 DEF StoreSound
<1>11. ASSUME NEW from \in Times, c < from + Window - MaxSkew
       PROVE  Cardinality(HitsAt(a2, Since(Times, from))) <=
              Cardinality(HitsAt(h2, Since(Stamps, from)))
  <2> DEFINE T == Since(Times, from)
             S == Since(Stamps, from)
  <2>1. T \subseteq Times /\ S \subseteq Stamps
    BY DEF Since
  <2>2. Cardinality(HitsAt(adm, T)) <= Cardinality(HitsAt(h, S))
    BY <1>11 DEF StoreSound
  <2>3. HitsAt(g, S) = HitsAt(h, S)
    <3>1. h \in [Stamps -> Nat]
      BY <1>1
    <3>2. \A t \in S : now < t + Window
      BY <1>2, <1>11 DEF Since
    <3>3. {t \in S : now < t + Window} = S
      BY <3>2
    <3> QED BY <3>1, <3>3, <2>1, <1>2, HitsPruned DEF g
  <2> HIDE DEF T, S
  <2>4. /\ \A t \in T : adm[t] \in Nat
        /\ \A t \in S : g[t] \in Nat
        /\ \A t \in Stamps : g[t] \in Nat
    BY <1>1, <1>3, <2>1
  <2>5. IsFiniteSet(HitsAt(adm, T)) /\ IsFiniteSet(HitsAt(g, S))
    BY <1>1, <1>4, <2>1, <2>4, HitsMonotone
  <2>6. Cardinality(HitsAt(adm, T)) \in Nat /\ Cardinality(HitsAt(g, S)) \in Nat
    BY <2>5, FS_CardinalityType
  <2>7. CASE from <= c
    <3>1. c \in T /\ now \in S
      BY <2>7, <1>2 DEF T, S, Since
    <3>2. Cardinality(HitsAt(a2, T)) = Cardinality(HitsAt(adm, T)) + 1
      BY <3>1, <2>1, <2>4, <2>5, <1>7, HitAdded
    <3>3. Cardinality(HitsAt(h2, S)) = Cardinality(HitsAt(g, S)) + 1
      BY <3>1, <2>1, <2>4, <2>5, <1>6, HitAdded
    <3> QED BY <3>2, <3>3, <2>2, <2>3, <2>6 DEF T, S
  <2>8. CASE ~(from <= c)
    <3>1. c \notin T
      BY <2>8 DEF T, Since
    <3>2. \A t \in T : {t} \X (1..a2[t]) = {t} \X (1..adm[t])
      BY <3>1, <2>1, <1>7
    <3>3. HitsAt(a2, T) = HitsAt(adm, T)
      BY <3>2 DEF HitsAt
    <3>4. /\ IsFiniteSet(HitsAt(h2, S))
          /\ \A t \in S : h2[t] \in Nat /\ g[t] <= h2[t]
      <4>1. \A t \in Stamps : h2[t] \in Nat /\ g[t] <= h2[t]
        BY <1>6, <2>4
      <4> QED BY <4>1, <1>8, <2>1, HitsMonotone
    <3>5. Cardinality(HitsAt(g, S)) <= Cardinality(HitsAt(h2, S))
      BY <3>4, <2>4, HitsMonotone
    <3>6. Cardinality(HitsAt(h2, S)) \in Nat
      BY <3>4, FS_CardinalityType
    <3> QED BY <3>3, <3>5, <3>6, <2>2, <2>3, <2>6 DEF T, S
  <2> QED BY <2>7, <2>8
<1>12. ASSUME NEW from \in Times
       PROVE  Cardinality(HitsAt(a2, InWindow(from))) <= Limit
  <2>1. CASE c < from + Window - MaxSkew
    <3>1. h2 \in [Stamps -> Nat]
      BY <1>6
    <3> QED BY <2>1, <3>1, <1>7, <1>8, <1>9, <1>11, OpenWindow
  <2>2. CASE ~(c < from + Window - MaxSkew)
    <3>1. c \notin InWindow(from) /\ InWindow(from) \subseteq Times
      BY <2>2 DEF InWindow
    <3>2. \A t \in InWindow(from) : {t} \X (1..a2[t]) = {t} \X (1..adm[t])
      BY <3>1, <1>7
    <3>3. HitsAt(a2, InWindow(from)) = HitsAt(adm, InWindow(from))
      BY <3>2 DEF HitsAt
    <3> QED BY <3>3 DEF StoreSound
  <2> QED BY <2>1, <2>2
<1>13. StoreSound(c, h2, a2, f, None)
  BY <1>6, <1>7, <1>8, <1>9, <1>10, <1>11, <1>12 DEF StoreSound
<1> QED BY <1>13 DEF h2, a2, g

\* A store that refuses holds exactly the limit, and the oldest of its hits has left the
\* window when the client comes back.
LEMMA RefuseSound ==
    ASSUME NEW c \in Times, NEW now \in Stamps, c <= now, now <= c + MaxSkew,
           NEW h, NEW adm, NEW e, NEW w, StoreSound(c, h, adm, e, w),
           ~(Used(Pruned(h, now)) < Limit), NEW back \in Int,
           Oldest(Pruned(h, now)) + Window <= back
    PROVE  StoreSound(c, Pruned(h, now), adm, e, back) /\ back \in Nat
<1> DEFINE g == Pruned(h, now)
<1>1. /\ h \in [Stamps -> 0..Limit] /\ adm \in [Times -> Nat]
      /\ IsFiniteSet(HitsAt(h, Stamps)) /\ IsFiniteSet(HitsAt(adm, Times))
      /\ Cardinality(HitsAt(h, Stamps)) <= Limit
  BY DEF StoreSound, Used
<1>2. /\ c \in Nat /\ now \in Nat /\ now \in Int /\ Limit \in Nat \ {0} /\ MaxSkew \in Nat
      /\ Window \in Nat /\ Times \subseteq Nat /\ Stamps \subseteq Nat /\ Limit \in Nat
  BY Numbers
<1>3. Pruned(h, now) \in [Stamps -> 0..Limit] /\ \A t \in Stamps : Pruned(h, now)[t] <= h[t]
  BY <1>1, <1>2, PrunedTyped
<1>4. /\ g \in [Stamps -> Nat] /\ h \in [Stamps -> Nat]
      /\ \A t \in Stamps : g[t] \in Nat /\ h[t] \in Nat /\ g[t] <= h[t]
  BY <1>1, <1>3
<1>5. Oldest(g) + Window <= back /\ ~(Cardinality(HitsAt(g, Stamps)) < Limit)
      /\ g \in [Stamps -> 0..Limit]
  BY <1>3 DEF Used
<1>6. \A T \in SUBSET Stamps : HitsAt(g, T) = HitsAt(h, {t \in T : now < t + Window})
  BY <1>2, <1>4, HitsPruned
<1> HIDE DEF g
<1>7. /\ IsFiniteSet(HitsAt(g, Stamps))
      /\ Cardinality(HitsAt(g, Stamps)) <= Cardinality(HitsAt(h, Stamps))
  BY <1>1, <1>4, HitsMonotone
<1>8. Cardinality(HitsAt(g, Stamps)) \in Nat /\ Cardinality(HitsAt(h, Stamps)) \in Nat
  BY <1>1, <1>7, FS_CardinalityType
<1>9. Cardinality(HitsAt(g, Stamps)) = Limit
  BY <1>1, <1>2, <1>5, <1>7, <1>8
<1>10. Oldest(g) \in Stamps /\ g[Oldest(g)] > 0
  BY <1>2, <1>4, <1>7, <1>9, OldestIsThere DEF Used
<1>11. PICK o \in Stamps : o = Oldest(g)
  BY <1>10
<1>12. o \in Nat /\ Window \in Nat /\ o + Window <= back /\ back \in Nat
  <2>1. o \in Nat /\ Window \in Nat
    BY <1>2
  <2>2. o + Window <= back
    BY <1>5, <1>11
  <2> QED BY <2>1, <2>2
<1>13. \A from \in Times : c < from + Window - MaxSkew =>
           Cardinality(HitsAt(adm, Since(Times, from))) <=
           Cardinality(HitsAt(g, Since(Stamps, from)))
  <2> SUFFICES ASSUME NEW from \in Times, c < from + Window - MaxSkew
               PROVE  HitsAt(g, Since(Stamps, from)) = HitsAt(h, Since(Stamps, from))
    BY DEF StoreSound
  <2>1. \A t \in Since(Stamps, from) : now < t + Window
    BY <1>2 DEF Since
  <2>2. {t \in Since(Stamps, from) : now < t + Window} = Since(Stamps, from)
    BY <2>1
  <2>3. Since(Stamps, from) \in SUBSET Stamps
    BY DEF Since
  <2> QED BY <1>6, <2>2, <2>3
<1>14. Cardinality(HitsAt(g, {t \in Stamps : back < t + Window})) < Limit
  <2> DEFINE T == {t \in Stamps : back < t + Window}
             x == <<o, 1>>
  <2>1. o \notin T /\ T \subseteq Stamps
    <3>1. ~(back < o + Window)
      BY <1>12
    <3> QED BY <3>1
  <2>2. x \in HitsAt(g, Stamps)
    BY <1>4, <1>10, <1>11 DEF HitsAt
  <2>3. \A p : p \in HitsAt(g, T) <=>
                   \E t \in T, n \in Nat \ {0} : p = <<t, n>> /\ n <= g[t]
    BY <1>4, <2>1, HitsElements
  <2>4. \A p : p \in HitsAt(g, Stamps) <=>
                   \E t \in Stamps, n \in Nat \ {0} : p = <<t, n>> /\ n <= g[t]
    BY <1>4, HitsElements
  <2>5. HitsAt(g, T) \in SUBSET (HitsAt(g, Stamps) \ {x})
    BY <2>1, <2>3, <2>4
  <2> HIDE DEF x, T
  <2>6. /\ IsFiniteSet(HitsAt(g, Stamps) \ {x})
        /\ Cardinality(HitsAt(g, Stamps) \ {x}) = Limit - 1
    BY <1>7, <1>9, <2>2, FS_RemoveElement
  <2>7. /\ IsFiniteSet(HitsAt(g, T))
        /\ Cardinality(HitsAt(g, T)) <= Limit - 1
    BY <2>5, <2>6, FS_Subset
  <2>8. Cardinality(HitsAt(g, T)) \in Nat
    BY <2>7, FS_CardinalityType
  <2> QED BY <2>7, <2>8, <1>2 DEF T
<1>15. StoreSound(c, g, adm, e, back)
  BY <1>1, <1>2, <1>5, <1>7, <1>9, <1>13, <1>14 DEF StoreSound, Used
<1> QED BY <1>12, <1>15 DEF g

\* Time passes: a key may be dropped when all it holds has left the window.
LEMMA TickSound ==
    ASSUME NEW c \in Times, c + 1 \in Times, NEW h, NEW adm, NEW e, NEW w,
           StoreSound(c, h, adm, e, w)
    PROVE  /\ StoreSound(c + 1, h, adm, e, w)
           /\ e # None /\ e = c + 1 => StoreSound(c + 1, NoHits, adm, None, w)
<1>1. c \in Nat /\ Times \subseteq Nat /\ Window \in Nat /\ MaxSkew \in Nat
      /\ Stamps \subseteq Nat /\ Limit \in Nat \ {0}
  BY Numbers
<1>2. StoreSound(c + 1, h, adm, e, w)
  BY <1>1 DEF StoreSound
<1>3. ASSUME e # None, e = c + 1 PROVE StoreSound(c + 1, NoHits, adm, None, w)
  <2>1. NoHits \in [Stamps -> 0..Limit]
    BY <1>1 DEF NoHits
  <2>2. \A T \in SUBSET Stamps : IsFiniteSet(HitsAt(NoHits, T))
                                 /\ Cardinality(HitsAt(NoHits, T)) = 0
    BY HitsOfNone
  <2>3. Stamps \in SUBSET Stamps /\ {t \in Stamps : w < t + Window} \in SUBSET Stamps
    OBVIOUS
  <2>4. \A t \in Times : adm[t] > 0 => t <= c + 1
    BY <1>2 DEF StoreSound
  <2>5. \A from \in Times : c + 1 < from + Window - MaxSkew =>
            Cardinality(HitsAt(adm, Since(Times, from))) <=
            Cardinality(HitsAt(NoHits, Since(Stamps, from)))
    <3> SUFFICES ASSUME NEW from \in Times, c + 1 < from + Window - MaxSkew
                 PROVE  Cardinality(HitsAt(adm, Since(Times, from))) <=
                        Cardinality(HitsAt(NoHits, Since(Stamps, from)))
      OBVIOUS
    <3>1. Since(Stamps, from) \in SUBSET Stamps
      BY DEF Since
    <3>2. \A t \in Since(Times, from) : ~(adm[t] > 0)
      BY <1>1, <1>3 DEF Since, StoreSound
    <3>3. \A t \in Since(Times, from) : adm[t] \in Nat
      BY DEF StoreSound, Since
    <3>4. \A t \in Since(Times, from) : {t} \X (1..adm[t]) = {}
      BY <3>2, <3>3
    <3>5. HitsAt(adm, Since(Times, from)) = {}
      BY <3>4 DEF HitsAt
    <3> QED BY <3>1, <3>5, <2>2, FS_EmptySet
  <2>6. Used(NoHits) <= Limit
    BY <2>2, <2>3, <1>1 DEF Used
  <2>7. Cardinality(HitsAt(NoHits, {t \in Stamps : w < t + Window})) < Limit
    BY <2>2, <2>3, <1>1
  <2> QED BY <2>1, <2>2, <2>3, <2>4, <2>5, <2>6, <2>7 DEF StoreSound
<1> QED BY <1>2, <1>3

\* At the time it was told a client finds room.
LEMMA RoomAtReturn ==
    ASSUME NEW c, NEW h, NEW adm, NEW e, NEW w \in Nat, StoreSound(c, h, adm, e, w),
           w # None, NEW now \in Stamps, now >= w
    PROVE  Used(Pruned(h, now)) < Limit
<1> DEFINE T == {t \in Stamps : w < t + Window}
           U == {t \in Stamps : now < t + Window}
<1>1. /\ h \in [Stamps -> Nat] /\ IsFiniteSet(HitsAt(h, Stamps))
      /\ Cardinality(HitsAt(h, T)) < Limit
  BY DEF StoreSound
<1>2. now \in Int /\ Stamps \subseteq Nat /\ Window \in Nat /\ Limit \in Nat
  BY Numbers
<1>3. HitsAt(Pruned(h, now), Stamps) = HitsAt(h, U)
  BY <1>1, <1>2, HitsPruned
<1>4. U \subseteq T /\ T \subseteq Stamps
  <2>1. ASSUME NEW t \in Stamps, now < t + Window PROVE w < t + Window
    <3>1. t \in Int /\ w \in Int /\ now \in Int /\ Window \in Int
      BY <1>2
    <3> HIDE DEF T, U
    <3> QED BY <3>1, <2>1
  <2> QED BY <2>1
<1> HIDE DEF T, U
<1>5. IsFiniteSet(HitsAt(h, T))
  BY <1>1, <1>4, HitsMonotone
<1>6. /\ IsFiniteSet(HitsAt(h, U))
      /\ Cardinality(HitsAt(h, U)) <= Cardinality(HitsAt(h, T))
  BY <1>1, <1>4, <1>5, HitsMonotone
<1>7. Cardinality(HitsAt(h, U)) \in Nat /\ Cardinality(HitsAt(h, T)) \in Nat
  BY <1>5, <1>6, FS_CardinalityType
<1> QED BY <1>1, <1>2, <1>3, <1>6, <1>7 DEF Used

-----------------------------------------------------------------------------
(* The rate limiter: its steps. *)

KeySound(s, k) ==
    StoreSound(clock, hits[s][k], admitted[s][k],
               IF s = Redis THEN expires[k] ELSE None, told[s][k])

LimiterInv ==
    /\ LimiterTypeOK
    /\ \A s \in Stores, k \in Limited : KeySound(s, k)

\* Empty stores are as they should be.
LEMMA LimiterStarts == LimiterInit => LimiterInv
<1> SUFFICES ASSUME LimiterInit PROVE LimiterInv
  OBVIOUS
<1>1. NoHits \in [Stamps -> 0..Limit]
  BY Numbers DEF NoHits
<1>2. LimiterTypeOK
  BY <1>1, Numbers DEF LimiterInit, LimiterTypeOK, Times
<1>3. ASSUME NEW s \in Stores, NEW k \in Limited
      PROVE  StoreSound(0, NoHits, [t \in Times |-> 0], None, None)
  <2> DEFINE none == [t \in Times |-> 0]
  <2>1. none \in [Times -> Nat] /\ \A t \in Times : ~(none[t] > 0)
    OBVIOUS
  <2>2. \A T \in SUBSET Stamps : IsFiniteSet(HitsAt(NoHits, T))
                                 /\ Cardinality(HitsAt(NoHits, T)) = 0
    BY HitsOfNone
  <2>3. ASSUME NEW T \in SUBSET Times
        PROVE  IsFiniteSet(HitsAt(none, T)) /\ Cardinality(HitsAt(none, T)) = 0
    <3>1. \A t \in T : {t} \X (1..none[t]) = {}
      OBVIOUS
    <3>2. HitsAt(none, T) = {}
      BY <3>1 DEF HitsAt
    <3> QED BY <3>2, FS_EmptySet
  <2> HIDE DEF none
  <2>4. \A from \in Times : /\ Since(Times, from) \in SUBSET Times
                            /\ Since(Stamps, from) \in SUBSET Stamps
                            /\ InWindow(from) \in SUBSET Times
    BY DEF Since, InWindow
  <2>5. Times \in SUBSET Times /\ Stamps \in SUBSET Stamps
    OBVIOUS
  <2>6. StoreSound(0, NoHits, none, None, None)
    BY <1>1, <2>1, <2>2, <2>3, <2>4, <2>5, Numbers DEF StoreSound, Used
  <2> QED BY <2>6 DEF none
<1>4. ASSUME NEW s \in Stores, NEW k \in Limited PROVE KeySound(s, k)
  <2>1. /\ clock = 0 /\ hits[s][k] = NoHits /\ admitted[s][k] = [t \in Times |-> 0]
        /\ expires[k] = None /\ told[s][k] = None
    BY DEF LimiterInit
  <2> QED BY <1>3, <2>1 DEF KeySound
<1> QED BY <1>2, <1>4 DEF LimiterInv

\* A check sees one key of one store.
LEMMA OneKeyMoves ==
    ASSUME LimiterInv, NEW s \in Stores, NEW k \in Limited, LimiterTypeOK', KeySound(s, k)',
           UNCHANGED clock,
           \A r \in Stores, j \in Limited : r # s \/ j # k =>
               /\ hits'[r][j] = hits[r][j]
               /\ admitted'[r][j] = admitted[r][j]
               /\ told'[r][j] = told[r][j]
               /\ r = Redis => expires'[j] = expires[j]
    PROVE  LimiterInv'
<1>1. ASSUME NEW r \in Stores, NEW j \in Limited, r # s \/ j # k PROVE KeySound(r, j)'
  <2>1. KeySound(r, j)
    BY DEF LimiterInv
  <2> QED BY <1>1, <2>1 DEF KeySound
<1>2. \A r \in Stores, j \in Limited : KeySound(r, j)'
  BY <1>1
<1> QED BY <1>2 DEF LimiterInv

\* A process's clock is ahead of the others by no more than MaxSkew.
LEMMA Clocks ==
    ASSUME LimiterTypeOK, NEW p \in Processes
    PROVE  /\ Store(p) \in Stores
           /\ clock \in Times /\ Now(p) \in Stamps /\ Now(p) \in Nat
           /\ clock <= Now(p) /\ Now(p) <= clock + MaxSkew
<1>1. clock \in 0..MaxTime /\ skew[p] \in 0..MaxSkew /\ MaxTime \in Nat /\ MaxSkew \in Nat
  BY Numbers DEF LimiterTypeOK, Times
<1>2. clock + skew[p] \in 0..(MaxTime + MaxSkew)
  BY <1>1
<1> QED BY <1>1, <1>2 DEF Store, Stores, Now, Times, Stamps

\* An admission keeps every store as it should be.
LEMMA AdmitKeeps ==
    ASSUME LimiterInv, NEW p \in Processes, NEW k \in Keys, Admit(p, k)
    PROVE  LimiterInv'
<1>1. CASE k \notin Limited
  <2>1. UNCHANGED limiter
    BY <1>1 DEF Admit
  <2> QED BY <2>1 DEF limiter, LimiterInv, LimiterTypeOK, KeySound
<1>2. CASE k \in Limited
  <2>1. PICK s \in Stores, now \in Stamps : s = Store(p) /\ now = Now(p)
    BY Clocks DEF LimiterInv
  <2> DEFINE h == [Pruned(hits[s][k], now) EXCEPT ![now] = @ + 1]
             a == [admitted[s][k] EXCEPT ![clock] = @ + 1]
             f == IF s = Redis THEN clock + Window ELSE None
  <2>2. LimiterTypeOK /\ KeySound(s, k)
    BY <1>2 DEF LimiterInv
  <2>3. clock \in Times /\ clock <= now /\ now <= clock + MaxSkew
    BY <2>1, <2>2, Clocks
  <2>4. /\ Used(Pruned(hits[s][k], now)) < Limit
        /\ hits' = [hits EXCEPT ![s] = [@ EXCEPT ![k] = h]]
        /\ expires' = IF s = Redis THEN [expires EXCEPT ![k] = clock + Window] ELSE expires
        /\ admitted' = [admitted EXCEPT ![s] = [@ EXCEPT ![k] = a]]
        /\ told' = [told EXCEPT ![s] = [@ EXCEPT ![k] = None]]
        /\ UNCHANGED <<clock, degraded, skew>>
    BY <1>2, <2>1 DEF Admit, WouldAdmit
  <2>5. f \in {None, clock + Window}
    OBVIOUS
  <2>6. StoreSound(clock, h, a, f, None)
    BY <2>2, <2>3, <2>4, <2>5, AdmitSound DEF KeySound
  <2> HIDE DEF h, a
  <2>7. /\ hits'[s][k] = h /\ admitted'[s][k] = a /\ told'[s][k] = None
        /\ f = IF s = Redis THEN expires'[k] ELSE None
    BY <1>2, <2>2, <2>4 DEF LimiterTypeOK
  <2>8. KeySound(s, k)'
    BY <2>4, <2>6, <2>7 DEF KeySound
  <2>9. \A r \in Stores, j \in Limited : r # s \/ j # k =>
            /\ hits'[r][j] = hits[r][j]
            /\ admitted'[r][j] = admitted[r][j]
            /\ told'[r][j] = told[r][j]
            /\ r = Redis => expires'[j] = expires[j]
    BY <1>2, <2>2, <2>4 DEF LimiterTypeOK
  <2>10. LimiterTypeOK'
    <3>1. h \in [Stamps -> 0..Limit] /\ a \in [Times -> Nat]
      BY <2>6 DEF StoreSound
    <3>2. hits' \in [Stores -> [Limited -> [Stamps -> 0..Limit]]]
      BY <1>2, <2>2, <2>4, <3>1 DEF LimiterTypeOK
    <3>3. admitted' \in [Stores -> [Limited -> [Times -> Nat]]]
      BY <1>2, <2>2, <2>4, <3>1 DEF LimiterTypeOK
    <3>4. clock + Window \in Nat
      BY <2>3, Numbers
    <3>5. expires' \in [Limited -> Nat \cup {None}]
      BY <1>2, <2>2, <2>4, <3>4 DEF LimiterTypeOK
    <3>6. told' \in [Stores -> [Limited -> Nat \cup {None}]]
      BY <1>2, <2>2, <2>4 DEF LimiterTypeOK
    <3> QED BY <2>2, <2>4, <3>2, <3>3, <3>5, <3>6 DEF LimiterTypeOK
  <2> QED BY <1>2, <2>4, <2>8, <2>9, <2>10, OneKeyMoves
<1> QED BY <1>1, <1>2

\* The seconds that are announced are never fewer than the wait.
LEMMA ResetCovers ==
    ASSUME NEW s, NEW wait \in Int
    PROVE  reset(s, wait) \in Int /\ Second * reset(s, wait) >= wait
<1>1. Second \in Int /\ Second > 0
  BY Numbers
<1>2. ASSUME NEW h \in Int, h > 0
      PROVE  /\ (wait + h - 1) \div h \in Int /\ h * ((wait + h - 1) \div h) >= wait
             /\ wait \div h + 1 \in Int /\ h * (wait \div h + 1) >= wait
  BY <1>2
<1> QED BY <1>1, <1>2 DEF reset

\* So does a refusal.
LEMMA RefuseKeeps ==
    ASSUME LimiterInv, NEW p \in Processes, NEW k \in Keys, Refuse(p, k)
    PROVE  LimiterInv'
<1> PICK s \in Stores, now \in Stamps : s = Store(p) /\ now = Now(p)
  BY Clocks DEF LimiterInv
<1> DEFINE left == Pruned(hits[s][k], now)
           wait == Oldest(left) + Window - now
           back == now + Second * reset(s, wait)
<1>1. /\ k \in Limited /\ ~(Used(left) < Limit)
      /\ hits' = [hits EXCEPT ![s][k] = left]
      /\ told' = [told EXCEPT ![s][k] = back]
      /\ UNCHANGED <<clock, degraded, skew, expires, admitted>>
  BY DEF Refuse, WouldAdmit
<1>2. LimiterTypeOK /\ KeySound(s, k)
  BY <1>1, Clocks DEF LimiterInv
<1>3. /\ s \in Stores /\ clock \in Times /\ now \in Stamps /\ now \in Nat
      /\ clock <= now /\ now <= clock + MaxSkew
  BY <1>2, Clocks
<1>4. /\ hits[s][k] \in [Stamps -> 0..Limit] /\ IsFiniteSet(HitsAt(hits[s][k], Stamps))
  BY <1>2 DEF KeySound, StoreSound
<1>5. Oldest(left) \in Nat
  <2>1. now \in Int /\ Limit \in Nat \ {0} /\ Limit \in Nat
    BY <1>3, Numbers
  <2>2. left \in [Stamps -> 0..Limit] /\ \A t \in Stamps : left[t] <= hits[s][k][t]
    BY <1>4, <2>1, PrunedTyped
  <2>3. \A t \in Stamps : left[t] \in Nat /\ hits[s][k][t] \in Nat
    BY <1>4, <2>2
  <2> HIDE DEF left
  <2>4. IsFiniteSet(HitsAt(left, Stamps))
    BY <1>4, <2>2, <2>3, HitsMonotone
  <2>5. Used(left) \in Nat
    BY <2>4, FS_CardinalityType DEF Used
  <2>6. Used(left) > 0
    BY <1>1, <2>1, <2>5
  <2>7. left \in [Stamps -> Nat]
    BY <2>2
  <2>8. Oldest(left) \in Stamps
    BY <2>4, <2>6, <2>7, OldestIsThere
  <2> QED BY <2>8, Numbers
<1>6. back \in Int /\ Oldest(left) + Window <= back
  <2>1. Oldest(left) \in Int /\ Window \in Int /\ now \in Int /\ Second \in Int
    BY <1>3, <1>5, Numbers
  <2> HIDE DEF left
  <2>2. wait \in Int
    BY <2>1
  <2>3. reset(s, wait) \in Int /\ Second * reset(s, wait) >= wait
    BY <2>2, ResetCovers
  <2>4. Second * reset(s, wait) \in Int
    BY <2>1, <2>3
  <2>5. PICK m \in Int : m = Second * reset(s, wait) /\ m >= wait
    BY <2>3, <2>4
  <2>6. PICK o \in Int : o = Oldest(left)
    BY <2>1
  <2>7. m >= o + Window - now /\ back = now + m
    BY <2>5, <2>6
  <2>8. now + m \in Int /\ o + Window <= now + m
    BY <2>1, <2>7
  <2> QED BY <2>6, <2>7, <2>8
<1> HIDE DEF back
<1>7. /\ StoreSound(clock, left, admitted[s][k], IF s = Redis THEN expires[k] ELSE None, back)
      /\ back \in Nat
  BY <1>1, <1>2, <1>3, <1>6, RefuseSound DEF KeySound
<1> HIDE DEF left
<1>8. hits'[s][k] = left /\ told'[s][k] = back
  BY <1>1, <1>2, <1>3 DEF LimiterTypeOK
<1>9. KeySound(s, k)'
  BY <1>1, <1>7, <1>8 DEF KeySound
<1>10. \A r \in Stores, j \in Limited : r # s \/ j # k =>
           /\ hits'[r][j] = hits[r][j]
           /\ admitted'[r][j] = admitted[r][j]
           /\ told'[r][j] = told[r][j]
           /\ r = Redis => expires'[j] = expires[j]
  BY <1>1, <1>2, <1>3 DEF LimiterTypeOK
<1>11. LimiterTypeOK'
  <2>1. left \in [Stamps -> 0..Limit]
    BY <1>7 DEF StoreSound
  <2> QED BY <1>1, <1>2, <1>3, <1>7, <2>1 DEF LimiterTypeOK
<1> QED BY <1>1, <1>3, <1>9, <1>10, <1>11, OneKeyMoves

\* So does time, and the keys that Redis drops.
LEMMA TickKeeps == ASSUME LimiterInv, Tick PROVE LimiterInv'
<1>1. /\ clock \in Times /\ clock + 1 \in Times /\ clock' = clock + 1 /\ clock + 1 \in Nat
      /\ LimiterTypeOK /\ \A s \in Stores, k \in Limited : KeySound(s, k)
  BY Numbers DEF Tick, LimiterInv, LimiterTypeOK, Times
<1>2. /\ expires' = [k \in Limited |-> IF expires[k] = clock + 1 THEN None ELSE expires[k]]
      /\ hits' = [hits EXCEPT ![Redis] =
            [k \in Limited |-> IF expires[k] = clock + 1 THEN NoHits ELSE @[k]]]
      /\ UNCHANGED <<degraded, skew, admitted, told>>
  BY <1>1 DEF Tick
<1>3. Redis \in Stores
  BY DEF Stores
<1>4. LimiterTypeOK'
  <2>1. NoHits \in [Stamps -> 0..Limit]
    BY Numbers DEF NoHits
  <2>2. expires' \in [Limited -> Nat \cup {None}]
    BY <1>1, <1>2 DEF LimiterTypeOK
  <2>3. hits' \in [Stores -> [Limited -> [Stamps -> 0..Limit]]]
    BY <1>1, <1>2, <1>3, <2>1 DEF LimiterTypeOK
  <2> QED BY <1>1, <1>2, <2>2, <2>3 DEF LimiterTypeOK
<1>5. ASSUME NEW s \in Stores, NEW k \in Limited PROVE KeySound(s, k)'
  <2> DEFINE e == IF s = Redis THEN expires[k] ELSE None
  <2>1. /\ StoreSound(clock + 1, hits[s][k], admitted[s][k], e, told[s][k])
        /\ e # None /\ e = clock + 1 =>
              StoreSound(clock + 1, NoHits, admitted[s][k], None, told[s][k])
    <3>1. StoreSound(clock, hits[s][k], admitted[s][k], e, told[s][k])
      BY <1>1 DEF KeySound
    <3> HIDE DEF e
    <3> QED BY <1>1, <3>1, TickSound
  <2>2. admitted'[s][k] = admitted[s][k] /\ told'[s][k] = told[s][k]
    BY <1>2
  <2>3. CASE s = Redis /\ expires[k] = clock + 1
    <3>1. expires[k] # None
      BY <1>1, <2>3, RateLimitAssumption
    <3>2. hits'[s][k] = NoHits /\ expires'[k] = None
      BY <1>1, <1>2, <1>3, <2>3 DEF LimiterTypeOK
    <3> QED BY <1>1, <2>1, <2>2, <2>3, <3>1, <3>2 DEF KeySound
  <2>4. CASE ~(s = Redis /\ expires[k] = clock + 1)
    <3>1. hits'[s][k] = hits[s][k] /\ (s = Redis => expires'[k] = expires[k])
      BY <1>1, <1>2, <1>3, <2>4 DEF LimiterTypeOK
    <3> QED BY <1>1, <2>1, <2>2, <3>1 DEF KeySound
  <2> QED BY <2>3, <2>4
<1> QED BY <1>4, <1>5 DEF LimiterInv

\* So does every step of the keys and their requests.
LEMMA LimiterKept == LimiterInv /\ [Next]_vars => LimiterInv'
<1> SUFFICES ASSUME LimiterInv, [Next]_vars PROVE LimiterInv'
  OBVIOUS
<1>1. CASE UNCHANGED limiter
  BY <1>1 DEF limiter, LimiterInv, LimiterTypeOK, KeySound
<1>2. ASSUME NEW q \in Requests, NEW p \in Processes, NEW k \in Keys, Authenticate(q, p, k)
      PROVE  LimiterInv'
  BY <1>2, AdmitKeeps, RefuseKeeps DEF Authenticate
<1>3. ASSUME NEW k \in Keys, Bootstrap(k) \/ Lapse(k) PROVE UNCHANGED limiter
  BY <1>3 DEF Bootstrap, Lapse
<1>4. ASSUME NEW q \in Requests, NEW k \in Keys, create_api_key(q, k) \/ revoke_api_key(q, k)
      PROVE  UNCHANGED limiter
  BY <1>4 DEF create_api_key, revoke_api_key, Handle
<1>5. ASSUME NEW q \in Requests, Use(q) \/ Commit(q) \/ Abort(q) PROVE UNCHANGED limiter
  BY <1>5 DEF Use, Commit, Abort, Handle
<1>6. CASE Tick
  BY <1>6, TickKeeps
<1>7. CASE UNCHANGED vars
  <2>1. UNCHANGED limiter
    BY <1>7 DEF vars
  <2> QED BY <1>1, <2>1
<1> QED BY <1>1, <1>2, <1>3, <1>4, <1>5, <1>6, <1>7 DEF Next

\* What the limiter holds of a key and what it has admitted and told fit together, in every
\* store, for any limit, window and difference of the clocks.
THEOREM LimiterInvariant == Spec => []LimiterInv
<1>1. Init => LimiterInv  BY LimiterStarts DEF Init
<1> QED  BY <1>1, LimiterKept, PTL DEF Spec

\* No store admits more than the limit of a key in a window, less what the clocks differ by,
\* wherever the window begins (InMemoryRateLimiter.check and the Redis script).
THEOREM WindowKept == Spec => []WindowRespected
<1>1. LimiterInv => WindowRespected
  BY DEF LimiterInv, KeySound, StoreSound, WindowRespected, InWindow
<1> QED  BY <1>1, LimiterInvariant, PTL

\* A client that comes back when it was told to is admitted, by any process that uses the
\* store it was refused by (RateLimitResult.reset_seconds).
THEOREM RetriesAdmitted == Spec => []RetryAdmitted
<1>1. LimiterInv => RetryAdmitted
  <2> SUFFICES ASSUME LimiterInv, NEW p \in Processes, NEW k \in Limited,
                      told[Store(p)][k] # None, Now(p) >= told[Store(p)][k]
               PROVE  WouldAdmit(p, k)
    BY DEF RetryAdmitted
  <2>1. Store(p) \in Stores /\ Now(p) \in Stamps
    BY Clocks DEF LimiterInv
  <2>2. KeySound(Store(p), k) /\ told[Store(p)][k] \in Nat
    BY <2>1 DEF LimiterInv, LimiterTypeOK
  <2>3. Used(Pruned(hits[Store(p)][k], Now(p))) < Limit
    BY <2>1, <2>2, RoomAtReturn DEF KeySound
  <2> QED BY <2>3 DEF WouldAdmit
<1> QED  BY <1>1, LimiterInvariant, PTL
=============================================================================
