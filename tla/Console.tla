------------------------------ MODULE Console ------------------------------
(***************************************************************************)
(* The operator console's way in: admin-web/src/lib/auth, the login and    *)
(* logout routes, the gate in proxy.ts and the route that forwards         *)
(* mutations to the backend.                                               *)
(*                                                                         *)
(* Every await ends a step.  Password checks are synchronous (scryptSync), *)
(* so a login attempt is one step up to the signing of the session.  A     *)
(* deployment restarts the process: the throttle and everything in flight  *)
(* are gone, while cookies stay in the browsers.  Time is in milliseconds, *)
(* Second of them to the second.  A signature is a constructor: a session  *)
(* cookie is what was signed and the secret it was signed with.            *)
(*                                                                         *)
(* A definition whose comment starts with "Fault" is no part of the model: *)
(* it is a wrong version of the definition after it, one that a property   *)
(* of this module is shown to notice.                                      *)
(***************************************************************************)
EXTENDS Integers, Sequences, FiniteSets, SequencesExt, Sifting

CONSTANTS
    Emails,         \* emails that people sign in with
    Clients,        \* client addresses
    AccountLists,   \* values of OPERATOR_ACCOUNTS: roles by email
    Secrets,        \* values of OPERATOR_SESSION_SECRET that are long enough
    Mutations,      \* mutations that browsers send
    Claimed,        \* whom a browser may name in an audit field
    Absent,         \* a missing account, secret or field
    MAX_FAILURES,   \* maxFailures of the throttle (5)
    WINDOW,         \* windowMs of the throttle (15 minutes)
    TTL,            \* session lifetime in seconds
    Second,         \* milliseconds in a second
    MaxTime,        \* bound: the clock
    MaxAttempts,    \* bound: passwords checked
    MaxRequests,    \* bound: mutations sent by browsers
    MaxDeploys      \* bound: deployments of the console

ASSUME SettingsArePositive ==
    {MAX_FAILURES, WINDOW, TTL, Second} \subseteq Nat \ {0}
ASSUME MutationsAreKnown ==
    Mutations \subseteq {"propose", "decide", "execute", "sweep", "revoke", "other"}
ASSUME BoundsAreNaturals ==
    {MaxTime, MaxAttempts, MaxRequests, MaxDeploys} \subseteq Nat

Keys == Emails \X Clients   \* clientKey: email and address

ROLE_PERMISSIONS ==
    [viewer |-> {},
     operator |-> {"liquidity:propose", "liquidity:decide", "liquidity:execute",
                   "liquidity:sweep"},
     admin |-> {"liquidity:propose", "liquidity:decide", "liquidity:execute",
                "liquidity:sweep", "kyc:revoke"}]
AUDIT_FIELDS == {"requestedBy", "approvedBy"}

\* parseOperatorAccounts refuses a list that names any other role.
ASSUME RolesAreKnown ==
    AccountLists \subseteq [Emails -> (SUBSET DOMAIN ROLE_PERMISSIONS) \union {Absent}]

VARIABLES
    now,
    accounts,   \* OPERATOR_ACCOUNTS: roles by email, Absent where there is none
    secret,     \* OPERATOR_SESSION_SECRET, Absent when missing or too short
    failures,   \* the throttle: times of failures by key
    signing,    \* logins between the password check and the signature
    cookies,    \* sessions that have been issued
    requests,   \* mutations in the gate or the route handler
    forwarded,  \* history: mutations sent on to the backend
    verified,   \* history: passwords found right
    wrong,      \* history: passwords found wrong, by key, since a success
    attempts,   \* passwords checked
    deploys

process == <<failures, signing, requests>>
history == <<forwarded, verified, wrong>>
consoleVars == <<now, accounts, secret, process, cookies, history, attempts, deploys>>
----------------------------------------------------------------------------
(* LoginThrottle. *)

\* Fault: a failure counts until the window after it has passed too.
recent_twice(key, at) ==
    Without(failures[key], 0..(at - 2 * WINDOW))

recent(key, at) == Without(failures[key], 0..(at - WINDOW))

isLockedOut(key, at) == Len(recent(key, at)) >= MAX_FAILURES

CeilDiv(a, b) == (a + b - 1) \div b

retryAfterSeconds(key, at) ==
    IF ~isLockedOut(key, at) THEN 0
    ELSE LET left == CeilDiv(Head(recent(key, at)) + WINDOW - at, Second)
         IN  IF left < 1 THEN 1 ELSE left

recordFailure(key) ==
    failures' = [failures EXCEPT ![key] = Append(recent(key, now), now)]

recordSuccess(key) == failures' = [failures EXCEPT ![key] = << >>]
----------------------------------------------------------------------------
(* Sessions and the policy of a mutation. *)

Seconds(ms) == ms \div Second

buildSessionPayload(email) ==
    [sub |-> email, roles |-> accounts[email], iat |-> Seconds(now),
     exp |-> Seconds(now) + TTL]

verifySession(cookie) ==
    /\ cookie.secret = secret
    /\ cookie.payload.exp > Seconds(now)
    /\ cookie.payload.iat <= Seconds(now) + 60

Policy(permission, auditFields) ==
    [permission |-> permission, auditFields |-> auditFields]

policyForMutation ==
    [propose |-> Policy("liquidity:propose", {"requestedBy"}),
     decide |-> Policy("liquidity:decide", {"approvedBy"}),
     execute |-> Policy("liquidity:execute", {}),
     sweep |-> Policy("liquidity:sweep", {}),
     revoke |-> Policy("kyc:revoke", {}),
     other |-> Absent]

may(roles, permission) == \E r \in roles : permission \in ROLE_PERMISSIONS[r]

\* Fault: what the browser says stands, and only gaps are filled.
withOperatorAttribution_merge(body, policy, actor) ==
    [f \in AUDIT_FIELDS |->
        IF body[f] # Absent THEN body[f]
        ELSE IF f \in policy.auditFields THEN actor ELSE Absent]

\* The audit fields of a body: removed, then written from the session.
withOperatorAttribution(body, policy, actor) ==
    IF policy.auditFields = {} THEN body
    ELSE [f \in AUDIT_FIELDS |-> IF f \in policy.auditFields THEN actor ELSE Absent]
----------------------------------------------------------------------------
(* Signing in and out. *)

\* Without a secret the gate refuses every request, the login route's too.
Configured == secret # Absent

\* Locked out: nothing is checked, and looking prunes the list.
login_refused(key) ==
    /\ Configured
    /\ isLockedOut(key, now)
    /\ failures' = [failures EXCEPT ![key] = recent(key, now)]
    /\ UNCHANGED <<now, accounts, secret, signing, requests, cookies, history,
                   attempts, deploys>>

\* An unknown email and a wrong password are one case.
login_failed(key) ==
    /\ Configured
    /\ attempts < MaxAttempts
    /\ ~isLockedOut(key, now)
    /\ recordFailure(key)
    /\ wrong' = [wrong EXCEPT ![key] = Append(@, now)]
    /\ attempts' = attempts + 1
    /\ UNCHANGED <<now, accounts, secret, signing, requests, cookies, forwarded,
                   verified, deploys>>

\* The password is right; signSession is awaited.
login_accepted(key) ==
    /\ Configured
    /\ attempts < MaxAttempts
    /\ ~isLockedOut(key, now)
    /\ accounts[key[1]] # Absent
    /\ signing' = signing \union {[key |-> key, payload |-> buildSessionPayload(key[1])]}
    /\ verified' = verified \union {[email |-> key[1], roles |-> accounts[key[1]],
                                     at |-> now, under |-> secret]}
    /\ attempts' = attempts + 1
    /\ UNCHANGED <<now, accounts, secret, failures, requests, cookies, forwarded,
                   wrong, deploys>>

login_signed(s) ==
    /\ signing' = signing \ {s}
    /\ recordSuccess(s.key)
    /\ cookies' = cookies \union {[payload |-> s.payload, secret |-> secret]}
    /\ wrong' = [wrong EXCEPT ![s.key] = << >>]
    /\ UNCHANGED <<now, accounts, secret, requests, forwarded, verified, attempts,
                   deploys>>

\* The browser drops its cookie; no server state is involved.
logout(cookie) ==
    /\ Configured
    /\ cookies' = cookies \ {cookie}
    /\ UNCHANGED <<now, accounts, secret, process, history, attempts, deploys>>
----------------------------------------------------------------------------
(* A mutation: the gate, the route handler, the backend. *)

Allowed(cookie, route) ==
    /\ policyForMutation[route] # Absent
    /\ may(cookie.payload.roles, policyForMutation[route].permission)

\* proxy.ts lets the request through to the handler.
gate(cookie, route, body) ==
    /\ Configured
    /\ Cardinality(requests) + Cardinality(forwarded) < MaxRequests
    /\ verifySession(cookie)
    /\ Allowed(cookie, route)
    /\ requests' = requests \union {[pc |-> "caller", cookie |-> cookie,
                                     route |-> route, body |-> body,
                                     arrived |-> now]}
    /\ UNCHANGED <<now, accounts, secret, failures, signing, cookies, history,
                   attempts, deploys>>

\* The handler's next check: passed on, or answered with an error.
Step(r, ok, pc) ==
    /\ requests' = (requests \ {r}) \union
                      (IF ok THEN {[r EXCEPT !.pc = pc]} ELSE {})
    /\ UNCHANGED <<now, accounts, secret, failures, signing, cookies, history,
                   attempts, deploys>>

authorisedCaller(r) ==
    /\ r.pc = "caller"
    /\ Step(r, verifySession(r.cookie), "session")

authorise(r) ==
    /\ r.pc = "session"
    /\ Step(r, verifySession(r.cookie) /\ Allowed(r.cookie, r.route), "forward")

\* The body has arrived; it is attributed and sent with the caller's name.
forward(r) ==
    /\ r.pc = "forward"
    /\ requests' = requests \ {r}
    /\ LET caller == r.cookie.payload.sub
       IN  forwarded' = forwarded \union
              {[route |-> r.route, operator |-> caller, arrived |-> r.arrived,
                under |-> secret,
                body |-> withOperatorAttribution(
                            r.body, policyForMutation[r.route], caller)]}
    /\ UNCHANGED <<now, accounts, secret, failures, signing, cookies, verified,
                   wrong, attempts, deploys>>
----------------------------------------------------------------------------
Tick ==
    /\ now < MaxTime
    /\ now' = now + 1
    /\ UNCHANGED <<accounts, secret, process, cookies, history, attempts, deploys>>

\* Operators and the secret are configuration: changing one is a deployment.
Deploy(list, key) ==
    /\ deploys < MaxDeploys
    /\ deploys' = deploys + 1
    /\ accounts' = list
    /\ secret' = key
    /\ failures' = [k \in Keys |-> << >>]
    /\ wrong' = [k \in Keys |-> << >>]
    /\ signing' = {}
    /\ requests' = {}
    /\ UNCHANGED <<now, cookies, forwarded, verified, attempts>>

ConsoleInit ==
    /\ now = 0
    /\ accounts \in AccountLists
    /\ secret \in Secrets \union {Absent}
    /\ failures = [k \in Keys |-> << >>]
    /\ signing = {}
    /\ cookies = {}
    /\ requests = {}
    /\ forwarded = {}
    /\ verified = {}
    /\ wrong = [k \in Keys |-> << >>]
    /\ attempts = 0
    /\ deploys = 0

\* What a browser puts into the audit fields of a body.
Bodies == [AUDIT_FIELDS -> Claimed]

ConsoleNext ==
    \/ \E k \in Keys : login_refused(k)
    \/ \E k \in Keys : login_failed(k)
    \/ \E k \in Keys : login_accepted(k)
    \/ \E s \in signing : login_signed(s)
    \/ \E c \in cookies : logout(c)
    \/ \E c \in cookies, route \in Mutations, body \in Bodies : gate(c, route, body)
    \/ \E r \in requests : authorisedCaller(r)
    \/ \E r \in requests : authorise(r)
    \/ \E r \in requests : forward(r)
    \/ Tick
    \/ \E list \in AccountLists, key \in Secrets \union {Absent} : Deploy(list, key)

ConsoleSpec == ConsoleInit /\ [][ConsoleNext]_consoleVars
----------------------------------------------------------------------------
(* Properties. *)

\* Nothing reaches the backend on anyone's behalf but an operator who gave the
\* right password, no longer ago than a session lasts and under the secret in
\* force, whose roles at that sign-in permit the operation; and the audit
\* fields of the body name that operator whatever the browser wrote in them,
\* with requests delayed at every await, sessions expiring under them, accounts
\* changed and secrets rotated.
ForwardedWithAuthority ==
    \A f \in forwarded :
        LET policy == policyForMutation[f.route]
        IN  \E v \in verified :
               /\ v.email = f.operator
               /\ v.under = f.under
               /\ v.at <= f.arrived /\ f.arrived < v.at + TTL * Second
               /\ \E r \in v.roles : policy.permission \in ROLE_PERMISSIONS[r]
               /\ policy.auditFields # {} =>
                     \A field \in AUDIT_FIELDS :
                         f.body[field] = IF field \in policy.auditFields
                                         THEN f.operator ELSE Absent

\* The throttle keeps its word both ways: no stretch of WINDOW milliseconds
\* sees more than MAX_FAILURES wrong passwords of a key, unless a right one or
\* a restart falls into it, and a key that is locked out is open again when
\* the Retry-After it was given has passed, however often it was tried.
ThrottleKeepsItsWord ==
    \A k \in Keys :
        /\ \A i \in DOMAIN wrong[k] :
              Cardinality({j \in 1..i : wrong[k][j] > wrong[k][i] - WINDOW})
                  <= MAX_FAILURES
        /\ isLockedOut(k, now) =>
              ~isLockedOut(k, now + retryAfterSeconds(k, now) * Second)
============================================================================
