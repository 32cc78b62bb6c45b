------------------------------- MODULE Identity -------------------------------
(***************************************************************************)
(* Users, sessions, service identities and the security audit              *)
(* (identity/*.py and the auth and service-identity routes of main.py).    *)
(*                                                                         *)
(* A request authenticates with one read, acts in the steps below and then *)
(* records a security event; requests interleave between any two steps.    *)
(* A session token names its session and a service token its identity.     *)
(* Denied requests are answered without an effect, and their audit events  *)
(* are left out.                                                           *)
(***************************************************************************)
EXTENDS Naturals, FiniteSets

CONSTANTS
  Emails,     \* accounts a bootstrap may be asked for
  Tokens,     \* session tokens
  Names,      \* names of service identities, each with its token
  Procs,      \* requests in progress at once
  MaxAsked    \* bound: requests in one behaviour

ASSUME IdentityAssumption ==
  /\ MaxAsked \in Nat
  /\ Tokens \cap Names = {} /\ "none" \notin Tokens \cup Names

VARIABLES
  users,      \* platform_users, each with a workspace of the default name
  session,    \* user_sessions: "absent", "live" or "ended" (revoked or expired)
  identity,   \* service_identities
  audit,      \* security_audit_events: how often each fact was recorded
  req,        \* what each request does next and remembers
  ended,      \* revocations of each service identity that were acknowledged
  told,       \* credentials whose end was acknowledged
  spoiled,    \* requests that took effect and were answered with an error
  asked       \* requests so far

accounts == <<users, session, identity>>
history == <<ended, told, spoiled>>
identityVars == <<accounts, audit, req, history, asked>>

-----------------------------------------------------------------------------
(* Requests and what they need (authorization.py).                          *)

IdentityKinds == {"bootstrap", "sign_in", "sign_out", "create_identity", "revoke_identity"}

ServicePermissions == {"mcp.use", "research.read"}
Needs(kind) ==
  CASE kind \in {"create_identity", "revoke_identity"} -> "service.identity.manage"
    [] kind = "tool" -> "mcp.use"
    [] OTHER -> "github.projects.manage"

IdleReq == [kind |-> "none", at |-> "idle", cred |-> "none", item |-> "none",
            want |-> "none", permissions |-> {}, draft |-> 0, outcome |-> "none",
            stale |-> FALSE]

At(p, label) == req[p].at = label
Goto(p, label) == req' = [req EXCEPT ![p].at = label]
Answer(p) == req' = [req EXCEPT ![p] = IdleReq]

Issued == {t \in Tokens : session[t] # "absent"} \cup
          {n \in Names : identity[n].status # "absent"}

Request(kind, label, cred, item) ==
  [IdleReq EXCEPT !.kind = kind, !.at = label, !.cred = cred, !.item = item,
                  !.stale = cred \in told]

Ask(p, request) ==
  /\ asked < MaxAsked /\ asked' = asked + 1
  /\ At(p, "idle") /\ req' = [req EXCEPT ![p] = request]

\* get_session_user and get_service_identity.
\* Mutant: a revoked service identity still authenticates.
LiveOnceIssued(cred) ==
  IF cred \in Tokens THEN session[cred] = "live"
  ELSE cred \in Names /\ identity[cred].status # "absent"

Live(cred) ==
  IF cred \in Tokens THEN session[cred] = "live"
  ELSE cred \in Names /\ identity[cred].status = "live"

\* Every user is an administrator, whom the role policy grants everything.
Permitted(cred, permission) == cred \in Tokens \/ permission \in identity[cred].permissions

\* require_workspace_permission; where a human is required no service identity
\* has the permission.
Authenticate(p) ==
  /\ At(p, "authenticate")
  /\ IF Live(req[p].cred) /\ Permitted(req[p].cred, Needs(req[p].kind))
     THEN Goto(p, req[p].kind) ELSE Answer(p)
  /\ UNCHANGED <<accounts, audit, history, asked>>

-----------------------------------------------------------------------------
(* Accounts and sessions.                                                   *)

\* Bound: there is a token for every session that requests may open.
TokensLeft ==
  Cardinality({t \in Tokens : session[t] = "absent"}) >
  Cardinality({p \in Procs : req[p].kind \in {"bootstrap", "sign_in"}})

\* A wrong secret is refused; otherwise the transaction looks for any user.
Bootstrap(p, email) ==
  /\ TokensLeft /\ Ask(p, Request("bootstrap", "prove", "none", email))
  /\ UNCHANGED <<accounts, audit, history>>

LookForUsers(p) ==
  /\ At(p, "prove")
  /\ \/ users = {} /\ Goto(p, "insert")
     \/ Answer(p)
  /\ UNCHANGED <<accounts, audit, history, asked>>

\* Mutant: several workspaces may have the default name.
WorkspaceNameFreeAlways == TRUE

\* Locking no row locks nothing: only the unique name of the default workspace
\* stops a second insert.
WorkspaceNameFree == users = {}

CreateBootstrapAdmin(p) ==
  /\ At(p, "insert")
  /\ IF WorkspaceNameFree
     THEN users' = users \cup {req[p].item} /\ Goto(p, "open")
     ELSE Answer(p) /\ UNCHANGED users
  /\ UNCHANGED <<session, identity, audit, history, asked>>

SignIn(p, email) ==
  /\ TokensLeft /\ Ask(p, Request("sign_in", "verify", "none", email))
  /\ UNCHANGED <<accounts, audit, history>>

AuthenticateLocal(p) ==
  /\ At(p, "verify")
  /\ \/ req[p].item \in users /\ Goto(p, "open")
     \/ Answer(p)
  /\ UNCHANGED <<accounts, audit, history, asked>>

CreateSession(p) ==
  /\ At(p, "open")
  /\ \E t \in Tokens : session[t] = "absent" /\ session' = [session EXCEPT ![t] = "live"]
  /\ Goto(p, "event")
  /\ UNCHANGED <<users, identity, audit, history, asked>>

SignOut(p, t) ==
  /\ session[t] # "absent"
  /\ Ask(p, Request("sign_out", "revoke", t, t))
  /\ UNCHANGED <<accounts, audit, history>>

RevokeSession(p) ==
  /\ At(p, "revoke")
  /\ session' = [session EXCEPT ![req[p].item] = "ended"]
  /\ Goto(p, "event")
  /\ UNCHANGED <<users, identity, audit, history, asked>>

SessionExpires(t) ==
  /\ session[t] = "live"
  /\ session' = [session EXCEPT ![t] = "ended"]
  /\ UNCHANGED <<users, identity, audit, req, history, asked>>

-----------------------------------------------------------------------------
(* Service identities.                                                      *)

CreateIdentity(p, cred, n, permissions) ==
  /\ Ask(p, [Request("create_identity", "authenticate", cred, n)
               EXCEPT !.permissions = permissions])
  /\ UNCHANGED <<accounts, audit, history>>

\* The name stays taken when its identity is revoked.
NameFree(n) == identity[n].status = "absent"

CreateServiceIdentity(p) ==
  /\ At(p, "create_identity")
  /\ IF NameFree(req[p].item)
     THEN /\ identity' = [identity EXCEPT ![req[p].item] =
               [status |-> "live", permissions |-> req[p].permissions]]
          /\ Goto(p, "event")
     ELSE Answer(p) /\ UNCHANGED identity
  /\ UNCHANGED <<users, session, audit, history, asked>>

RevokeIdentity(p, cred, n) ==
  /\ Ask(p, Request("revoke_identity", "authenticate", cred, n))
  /\ UNCHANGED <<accounts, audit, history>>

\* Mutant: the update does not ask whether the identity is revoked already.
RevocableOnceCreated(n) == identity[n].status # "absent"

Revocable(n) == identity[n].status = "live"

RevokeServiceIdentity(p) ==
  /\ At(p, "revoke_identity")
  /\ IF Revocable(req[p].item)
     THEN identity' = [identity EXCEPT ![req[p].item].status = "revoked"] /\ Goto(p, "event")
     ELSE Answer(p) /\ UNCHANGED identity
  /\ UNCHANGED <<users, session, audit, history, asked>>

-----------------------------------------------------------------------------
(* record_security_event.  An audit store that is not configured or cannot  *)
(* be connected to is passed over; one whose connection has failed since,   *)
(* before or after it stored the event, raises out of the request, after    *)
(* its effect.                                                              *)

\* The events of service identities are counted, per kind and name.
Counted == {"create_identity", "revoke_identity"}

Insert(p) ==
  audit' = IF req[p].kind \in Counted
           THEN [audit EXCEPT ![req[p].kind][req[p].item] = @ + 1] ELSE audit

Acknowledge(p) ==
  /\ told' = IF req[p].kind \in {"sign_out", "revoke_identity"}
             THEN told \cup {req[p].item} ELSE told
  /\ ended' = IF req[p].kind = "revoke_identity"
              THEN [ended EXCEPT ![req[p].item] = @ + 1] ELSE ended
  /\ UNCHANGED spoiled

RecordSecurityEvent(p) ==
  /\ At(p, "event") /\ Answer(p)
  /\ \/ Insert(p) /\ Acknowledge(p)
     \/ Acknowledge(p) /\ UNCHANGED audit
     \/ /\ spoiled' = spoiled + 1 /\ UNCHANGED <<told, ended>>
        /\ Insert(p) \/ UNCHANGED audit
  /\ UNCHANGED <<accounts, asked>>

-----------------------------------------------------------------------------

\* A new deployment, or one that is in use.
IdentityInit ==
  /\ \/ users = {} /\ session = [t \in Tokens |-> "absent"]
        /\ identity = [n \in Names |-> [status |-> "absent", permissions |-> {}]]
     \/ \E email \in Emails, live \in Tokens, n \in Names :
          /\ users = {email}
          /\ session = [t \in Tokens |-> IF t = live THEN "live" ELSE "absent"]
          /\ identity = [m \in Names |-> IF m = n
               THEN [status |-> "live", permissions |-> ServicePermissions]
               ELSE [status |-> "absent", permissions |-> {}]]
  /\ audit = [kind \in Counted |-> [n \in Names |-> 0]]
  /\ req = [p \in Procs |-> IdleReq]
  /\ ended = [n \in Names |-> 0] /\ told = {} /\ spoiled = 0
  /\ asked = 0

IdentityStep(p) ==
  \/ Authenticate(p) \/ LookForUsers(p) \/ CreateBootstrapAdmin(p) \/ AuthenticateLocal(p)
  \/ CreateSession(p) \/ RevokeSession(p) \/ CreateServiceIdentity(p)
  \/ RevokeServiceIdentity(p) \/ RecordSecurityEvent(p)

IdentityRequest(p) ==
  \/ \E email \in Emails : Bootstrap(p, email) \/ SignIn(p, email)
  \/ \E t \in Tokens : SignOut(p, t)
  \/ \E cred \in Issued, n \in Names :
       \/ RevokeIdentity(p, cred, n)
       \/ \E permissions \in SUBSET ServicePermissions \ {{}} :
            CreateIdentity(p, cred, n, permissions)

IdentityNext ==
  \/ \E p \in Procs : IdentityStep(p) \/ IdentityRequest(p)
  \/ \E t \in Tokens : SessionExpires(t)

-----------------------------------------------------------------------------
(* Properties.                                                              *)

IdentityTypeOK ==
  /\ users \subseteq Emails
  /\ session \in [Tokens -> {"absent", "live", "ended"}]
  /\ identity \in [Names -> [status : {"absent", "live", "revoked"},
                             permissions : SUBSET ServicePermissions]]
  /\ audit \in [Counted -> [Names -> Nat]]
  /\ told \subseteq Tokens \cup Names /\ ended \in [Names -> Nat]

\* Two bootstraps that both found no user leave one administrator and one
\* workspace (docs/identity.md:8-9, store.py:106-136).
OneAdministrator == Cardinality(users) <= 1

\* Once a revocation or a sign-out was acknowledged, no request that comes with
\* that credential gets beyond its authentication
\* (docs/adr/0008-service-identities-are-revocable-and-least-privilege.md:18).
RevocationIsImmediate ==
  \A p \in Procs :
    req[p].stale => At(p, "authenticate") \/ req[p].kind = "sign_out"

\* Of all requests to revoke an identity at most one succeeds, and the audit
\* holds each fact at most once, and only what really took place: an identity
\* that was revoked stays so.
EventsAreTrue ==
  /\ \A kind \in Counted, n \in Names : audit[kind][n] <= 1
  /\ \A n \in Names :
       /\ ended[n] <= 1
       /\ audit["create_identity"][n] > 0 => identity[n].status # "absent"
       /\ audit["revoke_identity"][n] > 0 \/ ended[n] > 0 => identity[n].status = "revoked"

\* The security audit never changes the answer to a request that took effect
\* (docs/identity.md:59-61, main.py:324).
AuditNeverChangesTheAnswer == spoiled = 0
=============================================================================
