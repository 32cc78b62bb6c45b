-------------------------- MODULE ApiBoundaryProofs --------------------------
(***************************************************************************)
(* Theorems about identities, their audit and the audit of tools, for any  *)
(* accounts, tokens, names and number of requests.  The invariant says of  *)
(* each request what its place in the code and its effects so far imply.   *)
(***************************************************************************)
EXTENDS ApiBoundary, FiniteSetTheorems, SequenceTheorems, TLAPS

Kinds == IdentityKinds \cup {"none", "tool", "draft", "update"}
Places == {"idle", "authenticate", "prove", "insert", "verify", "open", "revoke",
           "create_identity", "revoke_identity", "event", "tool", "record",
           "draft", "update", "field", "post", "set"}
Credentials == Tokens \cup Names \cup {"none"}

ReqType ==
  [kind : Kinds, at : Places, cred : Credentials,
   item : Emails \cup Tokens \cup Names \cup {"none"}, want : Priorities \cup {"none"},
   permissions : SUBSET ServicePermissions, draft : Nat,
   outcome : Outcomes \cup {"none"}, stale : BOOLEAN]

\* Which requests get to which places, and what they are about.
Path(q) ==
  /\ q.at = "authenticate" => q.kind \in Counted \cup {"tool", "draft", "update"}
  /\ q.at = "revoke" => q.kind = "sign_out"
  /\ q.at \in {"prove", "insert"} => q.kind = "bootstrap"
  /\ q.at \in {"verify", "open"} => q.kind \in {"bootstrap", "sign_in"}
  /\ q.at \in Counted => q.kind = q.at
  /\ q.at \in {"tool", "record"} => q.kind = "tool"
  /\ q.at \in {"draft", "update", "field", "post", "set"} => q.kind \in {"draft", "update"}
  /\ q.kind = "bootstrap" => q.item \in Emails
  /\ q.kind = "sign_out" => q.item \in Tokens
  /\ q.kind \in Counted => q.item \in Names
  /\ q.stale => q.at = "authenticate" \/ q.kind = "sign_out"

\* An effect that is still to be recorded.
Recording(q) == q.at = "event" /\ q.kind \in Counted \cup {"sign_out"}

\* What holds of a request that has had its effect, and of what it holds.
Sound(q) ==
  /\ q.stale => q.cred \in told
  /\ q.at = "event" /\ q.kind = "sign_out" => session[q.item] = "ended"
  /\ q.at = "event" /\ q.kind = "create_identity" =>
       identity[q.item].status # "absent" /\ audit["create_identity"][q.item] = 0
  /\ q.at = "event" /\ q.kind = "revoke_identity" =>
       /\ identity[q.item].status = "revoked" /\ audit["revoke_identity"][q.item] = 0
       /\ ended[q.item] = 0

\* No two requests are about to record the same fact.
Alone ==
  \A p, q \in Procs :
    /\ p # q /\ req[p].at = "event" /\ req[q].at = "event"
    /\ req[p].kind \in Counted /\ req[p].kind = req[q].kind
    => req[p].item # req[q].item

AtMostOneUser == users = {} \/ \E email \in Emails : users = {email}

\* A credential whose end was acknowledged has ended.
ToldEnded ==
  /\ \A t \in Tokens : t \in told => session[t] = "ended"
  /\ \A n \in Names : n \in told => identity[n].status = "revoked"

RequestsOK ==
  /\ req \in [Procs -> ReqType]
  /\ \A p \in Procs : Path(req[p]) /\ Sound(req[p])

IdentityInv ==
  /\ IdentityTypeOK /\ AtMostOneUser /\ ToldEnded /\ EventsAreTrue
  /\ RequestsOK /\ Alone

ToolInv ==
  /\ toolAudit \in [Outcomes -> Nat] /\ toolAnswers \in [Outcomes -> Nat]
  /\ ToolAnswersAreAudited

\* A request that is about to set the priority of a draft, or to tell of it.
OnDraft(q) == q.kind \in {"draft", "update"} /\ q.at \in {"set", "event"}

\* What holds of a request on its way to a draft and once it has one.
DraftSound(q) ==
  /\ q.kind = "update" => q.draft \in 1 .. Len(drafts) /\ q.want \in Priorities
  /\ q.at \in {"field", "set"} => q.want \in Priorities
  /\ q.at = "post" => q.kind = "draft" /\ q.want \in Offered \cup {"none"}
  /\ OnDraft(q) =>
       /\ q.draft \in 1 .. Len(drafts)
       /\ q.kind = "draft" => drafts[q.draft].want = q.want
       /\ q.at = "event" /\ q.want # "none" => q.want \in drafts[q.draft].given

ClaimSound(c) ==
  /\ c.draft \in 1 .. Len(drafts)
  /\ c.priority # "none" => c.priority \in drafts[c.draft].given
  /\ c.kind = "draft" => drafts[c.draft].want = c.priority

\* The request that makes a draft is the only one that tells of making it.
OneMaker ==
  /\ \A p, q \in Procs :
       /\ p # q /\ OnDraft(req[p]) /\ OnDraft(req[q])
       /\ req[p].kind = "draft" /\ req[q].kind = "draft"
       => req[p].draft # req[q].draft
  /\ \A p \in Procs, c \in claimed :
       OnDraft(req[p]) /\ req[p].kind = "draft" /\ c.kind = "draft" => c.draft # req[p].draft
  /\ \A c, d \in claimed :
       c.kind = "draft" /\ d.kind = "draft" /\ c.draft = d.draft => c = d

Draft == [want : Priorities \cup {"none"}, given : SUBSET Offered]
ProjectTypeOK == options \subseteq Offered /\ drafts \in Seq(Draft)

DraftInv ==
  /\ ProjectTypeOK /\ UnsupportedPriorityMakesNothing /\ OneMaker
  /\ \A p \in Procs : DraftSound(req[p])
  /\ \A c \in claimed : ClaimSound(c)

BoundaryInv == IdentityInv /\ ToolInv /\ DraftInv

-----------------------------------------------------------------------------
(* How requests move.                                                       *)

\* One request changes, to something of the right type.
Moved(p) ==
  /\ req' \in [Procs -> ReqType]
  /\ \A q \in Procs : q # p => req'[q] = req[q]

\* A process without a request.
LEMMA IdleReqType ==
  /\ IdleReq \in ReqType /\ IdleReq.at = "idle" /\ IdleReq.kind = "none"
  /\ Path(IdleReq) /\ ~Recording(IdleReq) /\ ~IdleReq.stale
<1>1. IdleReq \in ReqType
  BY DEF IdleReq, ReqType, Kinds, Places, Credentials
<1> QED
  BY <1>1 DEF IdleReq, Path, Recording, Counted

\* Going to another place changes the place only.
LEMMA GotoMoves ==
  ASSUME RequestsOK, NEW p \in Procs, NEW label \in Places, Goto(p, label)
  PROVE  Moved(p) /\ req'[p] = [req[p] EXCEPT !.at = label]
BY DEF RequestsOK, Goto, Moved, ReqType

\* An answered request leaves its process idle.
LEMMA AnswerMoves ==
  ASSUME RequestsOK, NEW p \in Procs, Answer(p)
  PROVE  Moved(p) /\ req'[p] = IdleReq
BY IdleReqType DEF RequestsOK, Answer, Moved

\* A new request is that of one process.
LEMMA AskMoves ==
  ASSUME RequestsOK, NEW p \in Procs, NEW request \in ReqType, Ask(p, request)
  PROVE  Moved(p) /\ req'[p] = request
BY DEF RequestsOK, Ask, Moved

\* A step that has no effect on accounts.
Light(p) ==
  /\ Moved(p) /\ Path(req'[p]) /\ ~Recording(req'[p])
  /\ req'[p].stale => req'[p].cred \in told
  /\ UNCHANGED <<users, session, identity, audit, told, ended>>

\* An answer alone has no effect on accounts.
LEMMA AnswerLight ==
  ASSUME IdentityInv, NEW p \in Procs, Answer(p),
         UNCHANGED <<users, session, identity, audit, told, ended>>
  PROVE  Light(p)
BY AnswerMoves, IdleReqType DEF Light, IdentityInv

\* Steps without an effect on accounts keep IdentityInv.
LEMMA LightKeeps ==
  ASSUME IdentityInv, NEW p \in Procs, Light(p)
  PROVE  IdentityInv'
<1>1. IdentityTypeOK' /\ AtMostOneUser' /\ ToldEnded' /\ EventsAreTrue'
  BY DEF IdentityInv, Light, IdentityTypeOK, AtMostOneUser, ToldEnded, EventsAreTrue
<1>2. RequestsOK'
  <2>1. ASSUME NEW q \in Procs PROVE Path(req'[q]) /\ Sound(req[q])'
    <3>1. CASE q = p
      BY <3>1 DEF Light, Sound, Recording, Counted
    <3>2. CASE q # p
      BY <3>2 DEF Light, Moved, IdentityInv, RequestsOK, Sound
    <3> QED
      BY <3>1, <3>2
  <2> QED
    BY <2>1 DEF RequestsOK, Light, Moved, Path
<1>3. Alone'
  BY DEF IdentityInv, Light, Moved, Alone, Recording, Counted
<1> QED
  BY <1>1, <1>2, <1>3 DEF IdentityInv

-----------------------------------------------------------------------------
(* The steps without an effect on accounts.                                 *)

\* A request whose credential has ended does not get beyond authentication.
LEMMA StaleIsNotLive ==
  ASSUME IdentityInv, NEW p \in Procs, req[p].stale
  PROVE  ~Live(req[p].cred)
<1>1. req[p].cred \in told /\ req[p].cred \in Tokens \cup Names
  BY DEF IdentityInv, RequestsOK, Sound, IdentityTypeOK
<1> QED
  BY <1>1, IdentityAssumption DEF IdentityInv, ToldEnded, Live

\* Authentication reads, and changes nothing else.
LEMMA AuthenticateLight ==
  ASSUME IdentityInv, NEW p \in Procs, Authenticate(p)
  PROVE  Light(p)
<1>1. UNCHANGED <<users, session, identity, audit, told, ended>>
  BY DEF Authenticate, accounts, history
<1>2. CASE Answer(p)
  BY <1>1, <1>2, AnswerLight
<1>3. CASE Live(req[p].cred) /\ Goto(p, req[p].kind)
  <2>1. ~req[p].stale
    BY <1>3, StaleIsNotLive
  <2>2. /\ req[p].kind \in Counted \cup {"tool", "draft", "update"}
        /\ req[p] \in ReqType /\ Path(req[p])
    BY DEF Authenticate, At, IdentityInv, RequestsOK, Path
  <2>3. req[p].kind \in Places
    BY <2>2 DEF Places, Counted
  <2>4. Moved(p) /\ req'[p] = [req[p] EXCEPT !.at = req[p].kind]
    BY <1>3, <2>3, GotoMoves DEF IdentityInv
  <2>5. /\ req'[p].at = req[p].kind /\ req'[p].kind = req[p].kind
        /\ req'[p].item = req[p].item /\ req'[p].stale = req[p].stale
    BY <2>2, <2>4 DEF ReqType
  <2> QED
    BY <1>1, <2>1, <2>2, <2>4, <2>5 DEF Light, Path, Recording, Counted
<1> QED
  BY <1>2, <1>3 DEF Authenticate

\* Moving on to a place where nothing is recorded.
LEMMA GotoLight ==
  ASSUME IdentityInv, NEW p \in Procs, NEW label \in Places, Goto(p, label),
         req[p].at # "authenticate", label \notin Counted \cup {"authenticate", "revoke"},
         label \in {"prove", "insert"} => req[p].kind = "bootstrap",
         label \in {"verify", "open"} => req[p].kind \in {"bootstrap", "sign_in"},
         label \in {"tool", "record"} => req[p].kind = "tool",
         label \in {"draft", "update", "field", "post", "set"} =>
           req[p].kind \in {"draft", "update"},
         label = "event" => req[p].kind \notin Counted \cup {"sign_out"},
         UNCHANGED <<users, session, identity, audit, told, ended>>
  PROVE  Light(p)
<1>1. Moved(p) /\ req'[p] = [req[p] EXCEPT !.at = label]
  BY GotoMoves DEF IdentityInv
<1>2. req[p] \in ReqType /\ Sound(req[p]) /\ Path(req[p])
  BY DEF IdentityInv, RequestsOK
<1>3. /\ req'[p].at = label /\ req'[p].kind = req[p].kind /\ req'[p].item = req[p].item
      /\ req'[p].stale = req[p].stale /\ req'[p].cred = req[p].cred
  BY <1>1, <1>2 DEF ReqType
<1>4. Path(req'[p]) /\ ~Recording(req'[p])
  BY <1>2, <1>3 DEF Path, Recording
<1>5. req'[p].stale => req'[p].cred \in told
  BY <1>2, <1>3 DEF Sound
<1> QED
  BY <1>1, <1>4, <1>5 DEF Light

\* Asking is light, wherever the request begins.
LEMMA AskLight ==
  ASSUME IdentityInv, NEW p \in Procs, NEW request \in ReqType, Ask(p, request),
         Path(request), ~Recording(request), request.stale => request.cred \in told,
         UNCHANGED <<users, session, identity, audit, told, ended>>
  PROVE  Light(p) /\ req'[p] = request
BY AskMoves DEF IdentityInv, Light

\* The fields of a new request.
LEMMA NewRequest ==
  ASSUME NEW kind \in Kinds, NEW label \in Places, NEW cred \in Credentials,
         NEW item \in Emails \cup Tokens \cup Names \cup {"none"}
  PROVE  LET request == Request(kind, label, cred, item)
         IN /\ request \in ReqType /\ request.kind = kind /\ request.at = label
            /\ request.cred = cred /\ request.item = item
            /\ request.stale => cred \in told
<1> DEFINE stale == cred \in told
           request == [IdleReq EXCEPT !.kind = kind, !.at = label, !.cred = cred,
                                      !.item = item, !.stale = stale]
<1>1. stale \in BOOLEAN
  OBVIOUS
<1>2. Request(kind, label, cred, item) = request
  BY Zenon DEF Request
<1> HIDE DEF stale
<1>3. /\ request \in ReqType /\ request.kind = kind /\ request.at = label
      /\ request.cred = cred /\ request.item = item
      /\ request.stale = stale
  BY <1>1, IdleReqType DEF ReqType
<1> HIDE DEF request
<1>4. request.stale => cred \in told
  BY <1>3, Zenon DEF stale
<1> QED
  BY <1>2, <1>3, <1>4, Zenon

\* A credential that was issued is a token or a name.
LEMMA IssuedType == Issued \subseteq Credentials
BY DEF Issued, Credentials

\* No credential at all is not one whose end was acknowledged.
LEMMA NoneNotTold == IdentityTypeOK => "none" \notin told
BY IdentityAssumption DEF IdentityTypeOK

\* A request that begins has no effect on accounts yet.
LEMMA RequestLight ==
  ASSUME IdentityInv, NEW p \in Procs, IdentityRequest(p)
  PROVE  Light(p) /\ req'[p].kind \in IdentityKinds
<1>1. ASSUME NEW email \in Emails, Bootstrap(p, email) PROVE Light(p) /\ req'[p].kind \in IdentityKinds
  <2> DEFINE request == Request("bootstrap", "prove", "none", email)
  <2>1. /\ request \in ReqType /\ request.kind = "bootstrap" /\ request.at = "prove"
        /\ request.item = email /\ ~request.stale
    BY NewRequest, NoneNotTold DEF Kinds, IdentityKinds, Places, Credentials, IdentityInv
  <2>2. Ask(p, request) /\ UNCHANGED <<users, session, identity, audit, told, ended>>
    BY <1>1 DEF Bootstrap, accounts, history
  <2> HIDE DEF request
  <2> QED
    BY <2>1, <2>2, AskLight DEF Path, Recording, Counted, IdentityKinds
<1>2. ASSUME NEW email \in Emails, SignIn(p, email) PROVE Light(p) /\ req'[p].kind \in IdentityKinds
  <2> DEFINE request == Request("sign_in", "verify", "none", email)
  <2>1. /\ request \in ReqType /\ request.kind = "sign_in" /\ request.at = "verify"
        /\ ~request.stale
    BY NewRequest, NoneNotTold DEF Kinds, IdentityKinds, Places, Credentials, IdentityInv
  <2>2. Ask(p, request) /\ UNCHANGED <<users, session, identity, audit, told, ended>>
    BY <1>2 DEF SignIn, accounts, history
  <2> HIDE DEF request
  <2> QED
    BY <2>1, <2>2, AskLight DEF Path, Recording, Counted, IdentityKinds
<1>3. ASSUME NEW t \in Tokens, SignOut(p, t) PROVE Light(p) /\ req'[p].kind \in IdentityKinds
  <2> DEFINE request == Request("sign_out", "revoke", t, t)
  <2>1. /\ request \in ReqType /\ request.kind = "sign_out" /\ request.at = "revoke"
        /\ request.item = t /\ request.cred = t /\ (request.stale => t \in told)
    BY NewRequest DEF Kinds, IdentityKinds, Places, Credentials
  <2>2. Ask(p, request) /\ UNCHANGED <<users, session, identity, audit, told, ended>>
    BY <1>3 DEF SignOut, accounts, history
  <2> HIDE DEF request
  <2> QED
    BY <2>1, <2>2, AskLight DEF Path, Recording, Counted, IdentityKinds
<1>4. ASSUME NEW cred \in Issued, NEW n \in Names, RevokeIdentity(p, cred, n) PROVE Light(p) /\ req'[p].kind \in IdentityKinds
  <2> DEFINE request == Request("revoke_identity", "authenticate", cred, n)
  <2>1. /\ request \in ReqType /\ request.kind = "revoke_identity"
        /\ request.at = "authenticate" /\ request.cred = cred
        /\ request.item = n /\ (request.stale => cred \in told)
    BY NewRequest, IssuedType DEF Kinds, IdentityKinds, Places
  <2>2. Ask(p, request) /\ UNCHANGED <<users, session, identity, audit, told, ended>>
    BY <1>4 DEF RevokeIdentity, accounts, history
  <2> HIDE DEF request
  <2> QED
    BY <2>1, <2>2, AskLight DEF Path, Recording, Counted, IdentityKinds
<1>5. ASSUME NEW cred \in Issued, NEW n \in Names,
             NEW permissions \in SUBSET ServicePermissions,
             CreateIdentity(p, cred, n, permissions)
      PROVE  Light(p) /\ req'[p].kind \in IdentityKinds
  <2> DEFINE first == Request("create_identity", "authenticate", cred, n)
             request == [first EXCEPT !.permissions = permissions]
  <2>1. /\ first \in ReqType /\ first.kind = "create_identity"
        /\ first.at = "authenticate" /\ first.cred = cred
        /\ first.item = n /\ (first.stale => cred \in told)
    BY NewRequest, IssuedType DEF Kinds, IdentityKinds, Places
  <2>2. Ask(p, request) /\ UNCHANGED <<users, session, identity, audit, told, ended>>
    BY <1>5 DEF CreateIdentity, accounts, history
  <2> HIDE DEF first
  <2>3. /\ request \in ReqType /\ request.kind = "create_identity"
        /\ request.at = "authenticate" /\ request.cred = cred
        /\ request.item = n /\ (request.stale => cred \in told)
    BY <2>1 DEF ReqType
  <2> HIDE DEF request
  <2> QED
    BY <2>2, <2>3, AskLight DEF Path, Recording, Counted, IdentityKinds
<1> QED
  BY <1>1, <1>2, <1>3, <1>4, <1>5 DEF IdentityRequest

\* The bootstrap's first look has no effect.
LEMMA LookForUsersLight ==
  ASSUME IdentityInv, NEW p \in Procs, LookForUsers(p)
  PROVE  Light(p)
<1>1. UNCHANGED <<users, session, identity, audit, told, ended>>
  BY DEF LookForUsers, accounts, history
<1>2. req[p].at = "prove" /\ req[p].kind = "bootstrap"
  BY DEF LookForUsers, At, IdentityInv, RequestsOK, Path
<1>3. CASE Goto(p, "insert")
  BY <1>1, <1>2, <1>3, GotoLight DEF Places, Counted
<1>4. CASE Answer(p)
  BY <1>1, <1>4, AnswerLight
<1> QED
  BY <1>3, <1>4 DEF LookForUsers

\* Nor has the check of a password.
LEMMA AuthenticateLocalLight ==
  ASSUME IdentityInv, NEW p \in Procs, AuthenticateLocal(p)
  PROVE  Light(p)
<1>1. UNCHANGED <<users, session, identity, audit, told, ended>>
  BY DEF AuthenticateLocal, accounts, history
<1>2. req[p].at = "verify" /\ req[p].kind \in {"bootstrap", "sign_in"}
  BY DEF AuthenticateLocal, At, IdentityInv, RequestsOK, Path
<1>3. CASE Goto(p, "open")
  BY <1>1, <1>2, <1>3, GotoLight DEF Places, Counted
<1>4. CASE Answer(p)
  BY <1>1, <1>4, AnswerLight
<1> QED
  BY <1>3, <1>4 DEF AuthenticateLocal

-----------------------------------------------------------------------------
(* The steps with an effect on accounts.                                    *)

\* Accounts only go forward.
Onward ==
  /\ IdentityTypeOK' /\ AtMostOneUser'
  /\ \A t \in Tokens : session[t] = "ended" => session'[t] = "ended"
  /\ \A n \in Names : /\ identity[n].status # "absent" => identity'[n].status # "absent"
                      /\ identity[n].status = "revoked" => identity'[n].status = "revoked"
  /\ UNCHANGED <<audit, told, ended>>

\* No other request is about to record what request p is now about to record.
FirstToRecord(p) ==
  \A q \in Procs \ {p} :
    ~(/\ req[q].at = "event" /\ req[q].kind \in Counted
      /\ req[q].kind = req[p].kind /\ req[q].item = req[p].item)

\* A step with an effect keeps IdentityInv if its request may record it.
LEMMA OnwardKeeps ==
  ASSUME IdentityInv, NEW p \in Procs, Moved(p), Onward, Path(req'[p]), Sound(req[p])',
         req'[p].kind = req[p].kind, req'[p].item = req[p].item,
         req'[p].at = "event" /\ req'[p].kind \in Counted => FirstToRecord(p)
  PROVE  IdentityInv'
<1>1. IdentityTypeOK' /\ AtMostOneUser'
  BY DEF Onward
<1>2. ToldEnded'
  BY DEF IdentityInv, Onward, ToldEnded
<1>3. EventsAreTrue'
  BY DEF IdentityInv, Onward, EventsAreTrue
<1>4. RequestsOK'
  <2>1. ASSUME NEW q \in Procs, q # p PROVE Path(req'[q]) /\ Sound(req[q])'
    <3>1. req'[q] = req[q] /\ Path(req[q]) /\ Sound(req[q]) /\ req[q] \in ReqType
      BY <2>1 DEF Moved, IdentityInv, RequestsOK
    <3> QED
      BY <3>1 DEF Onward, Sound, Path, Counted
  <2>2. \A q \in Procs : Path(req'[q]) /\ Sound(req[q])'
    BY <2>1
  <2> QED
    BY <2>2 DEF RequestsOK, Moved, Path
<1>5. Alone'
  BY DEF IdentityInv, Moved, Alone, FirstToRecord
<1> QED
  BY <1>1, <1>2, <1>3, <1>4, <1>5 DEF IdentityInv

\* What moving on leaves of a request.
LEMMA GotoFields ==
  ASSUME IdentityInv, NEW p \in Procs, NEW label \in Places, Goto(p, label)
  PROVE  /\ Moved(p)
         /\ req'[p].at = label /\ req'[p].kind = req[p].kind /\ req'[p].item = req[p].item
         /\ req'[p].stale = req[p].stale /\ req'[p].cred = req[p].cred
         /\ req[p] \in ReqType /\ Path(req[p]) /\ Sound(req[p])
<1>1. Moved(p) /\ req'[p] = [req[p] EXCEPT !.at = label]
  BY GotoMoves DEF IdentityInv
<1>2. req[p] \in ReqType /\ Path(req[p]) /\ Sound(req[p])
  BY DEF IdentityInv, RequestsOK
<1> QED
  BY <1>1, <1>2 DEF ReqType

\* The unique name of the default workspace admits one administrator.
LEMMA BootstrapKeeps ==
  ASSUME IdentityInv, NEW p \in Procs, CreateBootstrapAdmin(p)
  PROVE  IdentityInv'
<1>1. /\ req[p].at = "insert" /\ req[p].kind = "bootstrap" /\ req[p].item \in Emails
      /\ UNCHANGED <<session, identity, audit, told, ended>>
  BY DEF CreateBootstrapAdmin, At, IdentityInv, RequestsOK, Path, history
<1>2. CASE WorkspaceNameFree /\ users' = users \cup {req[p].item} /\ Goto(p, "open")
  <2>1. users' = {req[p].item}
    BY <1>2 DEF WorkspaceNameFree
  <2>2. Onward
    BY <1>1, <2>1 DEF Onward, IdentityInv, IdentityTypeOK, AtMostOneUser
  <2>3. /\ Moved(p) /\ req'[p].at = "open" /\ req'[p].kind = "bootstrap"
        /\ req'[p].item = req[p].item /\ req'[p].stale = req[p].stale
        /\ Path(req[p])
    BY <1>1, <1>2, GotoFields DEF Places
  <2>4. ~req'[p].stale /\ Path(req'[p])
    BY <1>1, <2>3 DEF Path, Counted
  <2>5. Sound(req[p])'
    BY <2>3, <2>4 DEF Sound
  <2> QED
    BY <1>1, <2>2, <2>3, <2>4, <2>5, OnwardKeeps
<1>3. CASE Answer(p) /\ UNCHANGED users
  BY <1>1, <1>3, AnswerLight, LightKeeps
<1> QED
  BY <1>2, <1>3 DEF CreateBootstrapAdmin

\* A new session has a token that was never issued.
LEMMA CreateSessionKeeps ==
  ASSUME IdentityInv, NEW p \in Procs, CreateSession(p)
  PROVE  IdentityInv'
<1>1. /\ req[p].at = "open" /\ req[p].kind \in {"bootstrap", "sign_in"}
      /\ UNCHANGED <<users, identity, audit, told, ended>>
  BY DEF CreateSession, At, IdentityInv, RequestsOK, Path, history
<1>2. Onward
  <2>1. PICK t \in Tokens : session[t] = "absent" /\ session' = [session EXCEPT ![t] = "live"]
    BY DEF CreateSession
  <2> QED
    BY <1>1, <2>1 DEF Onward, IdentityInv, IdentityTypeOK, AtMostOneUser
<1>3. /\ Moved(p) /\ req'[p].at = "event" /\ req'[p].kind = req[p].kind
      /\ req'[p].item = req[p].item /\ req'[p].stale = req[p].stale
      /\ Path(req[p])
  BY GotoFields DEF CreateSession, Places
<1>4. ~req'[p].stale /\ Path(req'[p])
  BY <1>1, <1>3 DEF Path, Counted
<1>5. Sound(req[p])' /\ req'[p].kind \notin Counted
  BY <1>1, <1>3, <1>4 DEF Sound, Counted
<1> QED
  BY <1>2, <1>3, <1>4, <1>5, OnwardKeeps

\* A session ends by one request before anyone is told.
LEMMA RevokeSessionKeeps ==
  ASSUME IdentityInv, NEW p \in Procs, RevokeSession(p)
  PROVE  IdentityInv'
<1>1. /\ req[p].at = "revoke" /\ req[p].kind = "sign_out" /\ req[p].item \in Tokens
      /\ session' = [session EXCEPT ![req[p].item] = "ended"]
      /\ UNCHANGED <<users, identity, audit, told, ended>>
  BY DEF RevokeSession, At, IdentityInv, RequestsOK, Path, history
<1>2. Onward /\ session'[req[p].item] = "ended"
  BY <1>1 DEF Onward, IdentityInv, IdentityTypeOK, AtMostOneUser
<1>3. /\ Moved(p) /\ req'[p].at = "event" /\ req'[p].kind = "sign_out"
      /\ req'[p].item = req[p].item /\ req'[p].stale = req[p].stale
      /\ req'[p].cred = req[p].cred /\ Path(req[p]) /\ Sound(req[p])
  BY <1>1, GotoFields DEF RevokeSession, Places
<1>4. Path(req'[p]) /\ req'[p].kind \notin Counted
  BY <1>1, <1>3 DEF Path, Counted
<1>5. Sound(req[p])'
  BY <1>1, <1>2, <1>3 DEF Sound
<1> QED
  BY <1>1, <1>2, <1>3, <1>4, <1>5, OnwardKeeps

\* The unique name of a service identity admits one creation of it.
LEMMA CreateServiceIdentityKeeps ==
  ASSUME IdentityInv, NEW p \in Procs, CreateServiceIdentity(p)
  PROVE  IdentityInv'
<1> DEFINE n == req[p].item
<1>1. /\ req[p].at = "create_identity" /\ req[p].kind = "create_identity" /\ n \in Names
      /\ req[p].permissions \subseteq ServicePermissions
      /\ UNCHANGED <<users, session, audit, told, ended>>
  BY DEF CreateServiceIdentity, At, IdentityInv, RequestsOK, Path, ReqType, Counted, history
<1>2. CASE /\ NameFree(n) /\ Goto(p, "event")
           /\ identity' = [identity EXCEPT ![n] = [status |-> "live",
                                                   permissions |-> req[p].permissions]]
  <2>1. identity[n].status = "absent"
    BY <1>2 DEF NameFree
  <2>2. /\ IdentityTypeOK' /\ identity'[n].status = "live"
        /\ \A m \in Names : m # n => identity'[m] = identity[m]
    BY <1>1, <1>2 DEF IdentityInv, IdentityTypeOK
  <2>3. Onward
    BY <1>1, <2>1, <2>2 DEF Onward, IdentityInv, AtMostOneUser
  <2>4. audit["create_identity"][n] = 0
    BY <1>1, <2>1 DEF IdentityInv, EventsAreTrue, IdentityTypeOK, Counted
  <2>5. /\ Moved(p) /\ req'[p].at = "event" /\ req'[p].kind = "create_identity"
        /\ req'[p].item = n /\ req'[p].stale = req[p].stale
        /\ req'[p].cred = req[p].cred /\ Path(req[p]) /\ Sound(req[p])
    BY <1>1, <1>2, GotoFields DEF Places
  <2>6. ~req'[p].stale /\ Path(req'[p])
    BY <1>1, <2>5 DEF Path, Counted
  <2>7. Sound(req[p])'
    BY <1>1, <2>2, <2>4, <2>5, <2>6 DEF Sound
  <2>8. FirstToRecord(p)
    BY <1>1, <2>1 DEF FirstToRecord, IdentityInv, RequestsOK, Sound
  <2> QED
    BY <1>1, <2>3, <2>5, <2>6, <2>7, <2>8, OnwardKeeps
<1>3. CASE Answer(p) /\ UNCHANGED identity
  BY <1>1, <1>3, AnswerLight, LightKeeps
<1> QED
  BY <1>2, <1>3 DEF CreateServiceIdentity

\* An identity is revoked by the one request that finds it live.
LEMMA RevokeServiceIdentityKeeps ==
  ASSUME IdentityInv, NEW p \in Procs, RevokeServiceIdentity(p)
  PROVE  IdentityInv'
<1> DEFINE n == req[p].item
<1>1. /\ req[p].at = "revoke_identity" /\ req[p].kind = "revoke_identity" /\ n \in Names
      /\ UNCHANGED <<users, session, audit, told, ended>>
  BY DEF RevokeServiceIdentity, At, IdentityInv, RequestsOK, Path, Counted, history
<1>2. CASE /\ Revocable(n) /\ Goto(p, "event")
           /\ identity' = [identity EXCEPT ![n].status = "revoked"]
  <2>1. identity[n].status = "live"
    BY <1>2 DEF Revocable
  <2>2. /\ IdentityTypeOK' /\ identity'[n].status = "revoked"
        /\ \A m \in Names : m # n => identity'[m] = identity[m]
    BY <1>1, <1>2 DEF IdentityInv, IdentityTypeOK
  <2>3. Onward
    BY <1>1, <2>2 DEF Onward, IdentityInv, AtMostOneUser
  <2>4. audit["revoke_identity"][n] = 0 /\ ended[n] = 0
    BY <1>1, <2>1 DEF IdentityInv, EventsAreTrue, IdentityTypeOK, Counted
  <2>5. /\ Moved(p) /\ req'[p].at = "event" /\ req'[p].kind = "revoke_identity"
        /\ req'[p].item = n /\ req'[p].stale = req[p].stale
        /\ req'[p].cred = req[p].cred /\ Path(req[p]) /\ Sound(req[p])
    BY <1>1, <1>2, GotoFields DEF Places
  <2>6. ~req'[p].stale /\ Path(req'[p])
    BY <1>1, <2>5 DEF Path, Counted
  <2>7. Sound(req[p])'
    BY <1>1, <2>2, <2>4, <2>5, <2>6 DEF Sound
  <2>8. FirstToRecord(p)
    BY <1>1, <2>1 DEF FirstToRecord, IdentityInv, RequestsOK, Sound
  <2> QED
    BY <1>1, <2>3, <2>5, <2>6, <2>7, <2>8, OnwardKeeps
<1>3. CASE Answer(p) /\ UNCHANGED identity
  BY <1>1, <1>3, AnswerLight, LightKeeps
<1> QED
  BY <1>2, <1>3 DEF RevokeServiceIdentity

\* A session that expires ends like one that is revoked.
LEMMA SessionExpiresKeeps ==
  ASSUME IdentityInv, NEW t \in Tokens, SessionExpires(t)
  PROVE  IdentityInv'
<1>1. /\ session' = [session EXCEPT ![t] = "ended"]
      /\ UNCHANGED <<users, identity, audit, req, told, ended>>
  BY DEF SessionExpires, history
<1>2. \A u \in Tokens : session[u] = "ended" => session'[u] = "ended"
  BY <1>1 DEF IdentityInv, IdentityTypeOK
<1>3. IdentityTypeOK' /\ AtMostOneUser' /\ ToldEnded' /\ EventsAreTrue' /\ Alone'
  BY <1>1, <1>2
     DEF IdentityInv, IdentityTypeOK, AtMostOneUser, ToldEnded, EventsAreTrue, Alone
<1>4. RequestsOK'
  BY <1>1, <1>2 DEF IdentityInv, RequestsOK, Sound, Path, Counted
<1> QED
  BY <1>3, <1>4 DEF IdentityInv

-----------------------------------------------------------------------------
(* The answer: what was recorded and acknowledged was so.                   *)

\* Recording a fact keeps each fact recorded at most once, and true.
LEMMA RecordedFacts ==
  ASSUME IdentityInv, NEW p \in Procs, RecordSecurityEvent(p)
  PROVE  IdentityTypeOK' /\ ToldEnded' /\ EventsAreTrue'
<1> DEFINE k == req[p].kind
           n == req[p].item
<1>1. /\ req[p].at = "event" /\ Path(req[p]) /\ Sound(req[p])
      /\ UNCHANGED <<users, session, identity>>
  BY DEF RecordSecurityEvent, At, IdentityInv, RequestsOK, accounts
<1>2. audit' = audit \/ (k \in Counted /\ audit' = [audit EXCEPT ![k][n] = @ + 1])
  BY DEF RecordSecurityEvent, Insert
<1>3. \/ told' = told
      \/ k \in {"sign_out", "revoke_identity"} /\ told' = told \cup {n}
  BY DEF RecordSecurityEvent, Acknowledge
<1>4. \/ ended' = ended
      \/ k = "revoke_identity" /\ ended' = [ended EXCEPT ![n] = @ + 1]
  BY DEF RecordSecurityEvent, Acknowledge
<1>5. /\ k = "sign_out" => n \in Tokens /\ session[n] = "ended"
      /\ k = "create_identity" => /\ n \in Names /\ identity[n].status # "absent"
                                  /\ audit["create_identity"][n] = 0
      /\ k = "revoke_identity" => /\ n \in Names /\ identity[n].status = "revoked"
                                  /\ audit["revoke_identity"][n] = 0 /\ ended[n] = 0
  BY <1>1 DEF Path, Sound, Counted
<1> HIDE DEF k, n
<1>6. IdentityTypeOK'
  BY <1>1, <1>2, <1>3, <1>4, <1>5 DEF IdentityInv, IdentityTypeOK, Counted
<1>7. ToldEnded'
  BY <1>1, <1>3, <1>5, IdentityAssumption DEF IdentityInv, ToldEnded
<1>8. EventsAreTrue'
  <2>1. \A kind \in Counted, m \in Names : audit'[kind][m] <= 1
    BY <1>2, <1>5 DEF IdentityInv, EventsAreTrue, IdentityTypeOK, Counted
  <2>2. ASSUME NEW m \in Names
        PROVE  /\ ended'[m] <= 1
               /\ audit'["create_identity"][m] > 0 => identity[m].status # "absent"
               /\ audit'["revoke_identity"][m] > 0 \/ ended'[m] > 0 =>
                    identity[m].status = "revoked"
    BY <1>2, <1>4, <1>5 DEF IdentityInv, EventsAreTrue, IdentityTypeOK, Counted
  <2> QED
    BY <1>1, <2>1, <2>2 DEF EventsAreTrue
<1> QED
  BY <1>6, <1>7, <1>8

\* An event is recorded once, after its effect.
LEMMA RecordSecurityEventKeeps ==
  ASSUME IdentityInv, NEW p \in Procs, RecordSecurityEvent(p)
  PROVE  IdentityInv'
<1> DEFINE k == req[p].kind
           n == req[p].item
<1>1. IdentityTypeOK' /\ ToldEnded' /\ EventsAreTrue'
  BY RecordedFacts
<1>2. /\ Moved(p) /\ req'[p] = IdleReq /\ req[p].at = "event"
      /\ UNCHANGED <<users, session, identity>>
  BY AnswerMoves DEF RecordSecurityEvent, At, IdentityInv, accounts
<1>3. told \subseteq told'
  BY DEF RecordSecurityEvent, Acknowledge
<1>4. AtMostOneUser'
  BY <1>2 DEF IdentityInv, AtMostOneUser
<1>5. Alone'
  BY <1>2, IdleReqType DEF IdentityInv, Alone, Moved
<1>6. ASSUME NEW q \in Procs, q # p PROVE Path(req'[q]) /\ Sound(req[q])'
  <2>1. req'[q] = req[q] /\ Path(req[q]) /\ Sound(req[q])
    BY <1>2, <1>6 DEF Moved, IdentityInv, RequestsOK
  <2>2. req[q].at = "event" /\ req[q].kind \in Counted /\ req[q].kind = k =>
          req[q].item \in Names /\ req[q].item # n
    BY <1>2, <1>6, <2>1 DEF IdentityInv, Alone, Path
  <2>3. audit' = audit \/ (k \in Counted /\ audit' = [audit EXCEPT ![k][n] = @ + 1])
    BY DEF RecordSecurityEvent, Insert
  <2>4. \/ ended' = ended
        \/ k = "revoke_identity" /\ ended' = [ended EXCEPT ![n] = @ + 1]
    BY DEF RecordSecurityEvent, Acknowledge
  <2> HIDE DEF k, n
  <2>5. ASSUME req[q].at = "event", req[q].kind \in Counted
        PROVE  /\ audit'[req[q].kind][req[q].item] = audit[req[q].kind][req[q].item]
               /\ req[q].kind = "revoke_identity" => ended'[req[q].item] = ended[req[q].item]
    BY <2>1, <2>2, <2>3, <2>4, <2>5 DEF IdentityInv, IdentityTypeOK, Path, Counted
  <2>6. Sound(req[q])'
    BY <1>2, <1>3, <2>1, <2>5 DEF Sound, Counted
  <2> QED
    BY <2>1, <2>6
<1>7. Path(req'[p]) /\ Sound(req[p])'
  BY <1>2, IdleReqType DEF Sound
<1>8. RequestsOK'
  BY <1>2, <1>6, <1>7 DEF RequestsOK, Moved, Path
<1> QED
  BY <1>1, <1>4, <1>5, <1>8 DEF IdentityInv

-----------------------------------------------------------------------------
(* The steps of tools and of the GitHub Project leave identities alone.     *)

\* What the steps below leave as it was.
LEMMA UntouchedAccounts ==
  UNCHANGED <<accounts, audit, history, asked>> =>
    UNCHANGED <<users, session, identity, audit, told, ended>>
BY DEF accounts, history

\* A tool has no effect on accounts.
LEMMA RunToolLight ==
  ASSUME IdentityInv, NEW p \in Procs, RunTool(p)
  PROVE  Light(p)
<1>1. /\ UNCHANGED <<users, session, identity, audit, told, ended>>
      /\ req \in [Procs -> ReqType]
      /\ req[p] \in ReqType /\ Path(req[p]) /\ Sound(req[p]) /\ req[p].at = "tool"
  BY UntouchedAccounts DEF RunTool, At, IdentityInv, RequestsOK
<1>2. ASSUME NEW outcome \in Outcomes,
             req' = [req EXCEPT ![p].at = "record", ![p].outcome = outcome]
      PROVE  Light(p)
  <2>1. /\ Moved(p) /\ req'[p].at = "record" /\ req'[p].kind = req[p].kind
        /\ req'[p].item = req[p].item /\ req'[p].stale = req[p].stale
        /\ req'[p].cred = req[p].cred
    BY <1>1, <1>2 DEF Moved, ReqType, Places
  <2>2. Path(req'[p]) /\ ~Recording(req'[p])
    BY <1>1, <2>1 DEF Path, Recording, Counted
  <2> QED
    BY <1>1, <2>1, <2>2 DEF Light, Sound
<1>3. CASE Answer(p)
  BY <1>1, <1>3, AnswerLight
<1> QED
  BY <1>2, <1>3 DEF RunTool

\* Nor has a call of the GitHub Project.
LEMMA ProjectLight ==
  ASSUME IdentityInv, ProjectTypeOK, NEW p \in Procs,
         BeginProjectCall(p) \/ PriorityField(p) \/ PostDraft(p) \/ SetPriority(p)
  PROVE  Light(p)
<1>1. /\ UNCHANGED <<users, session, identity, audit, told, ended>>
      /\ req \in [Procs -> ReqType]
      /\ req[p] \in ReqType /\ Path(req[p]) /\ Sound(req[p])
      /\ req[p].at \in {"draft", "update", "field", "post", "set"}
  BY UntouchedAccounts
     DEF BeginProjectCall, PriorityField, PostDraft, SetPriority, At, IdentityInv, RequestsOK
<1>2. req[p].kind \in {"draft", "update"}
  BY <1>1 DEF Path
<1>3. ASSUME NEW label \in {"field", "post", "set", "event"}, Goto(p, label) PROVE Light(p)
  BY <1>1, <1>2, <1>3, GotoLight DEF Places, Counted
<1>4. CASE Answer(p)
  BY <1>1, <1>4, AnswerLight
<1>5. CASE BeginProjectCall(p)
  BY <1>3, <1>5 DEF BeginProjectCall
<1>6. CASE PriorityField(p)
  BY <1>3, <1>4, <1>6 DEF PriorityField
<1>7. CASE SetPriority(p)
  BY <1>3, <1>4, <1>7 DEF SetPriority, AfterRejection
<1>8. CASE PostDraft(p)
  <2>1. ASSUME NEW label \in {"event", "set"},
               req' = [req EXCEPT ![p].draft = Len(drafts) + 1, ![p].at = label]
        PROVE  Light(p)
    <3>1. Len(drafts) + 1 \in Nat
      BY DEF ProjectTypeOK
    <3>2. /\ Moved(p) /\ req'[p].at = label /\ req'[p].kind = req[p].kind
          /\ req'[p].item = req[p].item /\ req'[p].stale = req[p].stale
          /\ req'[p].cred = req[p].cred
      BY <1>1, <2>1, <3>1 DEF Moved, ReqType, Places
    <3>3. Path(req'[p]) /\ ~Recording(req'[p])
      BY <1>1, <1>2, <3>2 DEF Path, Recording, Counted
    <3> QED
      BY <1>1, <3>2, <3>3 DEF Light, Sound
  <2> QED
    BY <1>4, <1>8, <2>1 DEF PostDraft
<1> QED
  BY <1>5, <1>6, <1>7, <1>8

\* Asking for a tool, a draft or a priority.
LEMMA OutsideRequest ==
  ASSUME NEW cred \in Issued, NEW kind \in {"tool", "draft", "update"}
  PROVE  LET request == Request(kind, "authenticate", cred, "none")
         IN /\ request \in ReqType /\ request.kind = kind /\ request.at = "authenticate"
            /\ request.cred = cred /\ (request.stale => cred \in told)
<1>1. kind \in Kinds /\ "authenticate" \in Places
  BY DEF Kinds, Places
<1> DEFINE none == "none"
<1>2. cred \in Credentials /\ none \in Emails \cup Tokens \cup Names \cup {"none"}
  BY IssuedType
<1> HIDE DEF none
<1> DEFINE request == Request(kind, "authenticate", cred, none)
<1>3. /\ request \in ReqType /\ request.kind = kind /\ request.at = "authenticate"
      /\ request.cred = cred /\ (request.stale => cred \in told)
  BY <1>1, <1>2, NewRequest
<1> QED
  BY <1>3 DEF none

\* A request to a tool or to the Project begins like any other.
LEMMA OutsideRequestLight ==
  ASSUME IdentityInv, NEW p \in Procs, NEW cred \in Issued, NEW kind \in {"tool", "draft", "update"},
         NEW priority \in Priorities \cup {"none"}, NEW d \in Nat,
         Ask(p, [Request(kind, "authenticate", cred, "none")
                   EXCEPT !.want = priority, !.draft = d]),
         UNCHANGED <<accounts, audit, history>>
  PROVE  /\ Light(p) /\ req'[p].kind = kind /\ req'[p].at = "authenticate"
         /\ req'[p].want = priority /\ req'[p].draft = d
<1> DEFINE first == Request(kind, "authenticate", cred, "none")
           request == [first EXCEPT !.want = priority, !.draft = d]
<1>1. /\ first \in ReqType /\ first.kind = kind /\ first.at = "authenticate"
      /\ first.cred = cred /\ (first.stale => cred \in told)
  BY OutsideRequest
<1> HIDE DEF first
<1>2. /\ request \in ReqType /\ request.kind = kind /\ request.at = "authenticate"
      /\ request.cred = cred /\ (request.stale => cred \in told)
      /\ request.want = priority /\ request.draft = d
  BY <1>1 DEF ReqType
<1>3. Ask(p, request) /\ UNCHANGED <<users, session, identity, audit, told, ended>>
  BY DEF first, accounts, history
<1> HIDE DEF request
<1>4. Path(request) /\ ~Recording(request)
  BY <1>2 DEF Path, Recording, Counted
<1> QED
  BY <1>2, <1>3, <1>4, AskLight

\* A step of a request that only asks, authenticates or works on accounts.
LEMMA IdentityStepKeeps ==
  ASSUME IdentityInv, NEW p \in Procs, IdentityStep(p) \/ IdentityRequest(p)
  PROVE  /\ IdentityInv' /\ Moved(p)
         /\ \/ req'[p] = IdleReq
            \/ req'[p].kind \notin {"draft", "update"}
            \/ /\ req'[p].kind = req[p].kind /\ req'[p].at = req[p].kind
               /\ req'[p].want = req[p].want /\ req'[p].draft = req[p].draft
<1>1. CASE IdentityRequest(p)
  BY <1>1, RequestLight, LightKeeps DEF Light, IdentityKinds
<1>2. CASE Authenticate(p)
  <2>1. IdentityInv' /\ Moved(p)
    BY <1>2, AuthenticateLight, LightKeeps DEF Light
  <2>2. Answer(p) \/ Goto(p, req[p].kind)
    BY <1>2 DEF Authenticate
  <2>3. req[p] \in ReqType
    BY DEF IdentityInv, RequestsOK
  <2> QED
    BY <2>1, <2>2, <2>3, AnswerMoves DEF IdentityInv, RequestsOK, Goto, ReqType
<1>3. ASSUME NEW label \in Places, Goto(p, label),
             req[p].kind \in IdentityKinds
      PROVE  Moved(p) /\ req'[p].kind \notin {"draft", "update"}
  BY <1>3, GotoFields DEF IdentityKinds
<1>4. ASSUME Answer(p) PROVE Moved(p) /\ req'[p] = IdleReq
  BY <1>4, AnswerMoves DEF IdentityInv
<1>5. Path(req[p])
  BY DEF IdentityInv, RequestsOK
<1>6. CASE LookForUsers(p)
  BY <1>3, <1>4, <1>5, <1>6, LookForUsersLight, LightKeeps
     DEF LookForUsers, At, Path, Places, IdentityKinds
<1>7. CASE CreateBootstrapAdmin(p)
  BY <1>3, <1>4, <1>5, <1>7, BootstrapKeeps
     DEF CreateBootstrapAdmin, At, Path, Places, IdentityKinds
<1>8. CASE AuthenticateLocal(p)
  BY <1>3, <1>4, <1>5, <1>8, AuthenticateLocalLight, LightKeeps
     DEF AuthenticateLocal, At, Path, Places, IdentityKinds
<1>9. CASE CreateSession(p)
  BY <1>3, <1>5, <1>9, CreateSessionKeeps DEF CreateSession, At, Path, Places, IdentityKinds
<1>10. CASE RevokeSession(p)
  BY <1>3, <1>5, <1>10, RevokeSessionKeeps DEF RevokeSession, At, Path, Places, IdentityKinds
<1>11. CASE CreateServiceIdentity(p)
  BY <1>3, <1>4, <1>5, <1>11, CreateServiceIdentityKeeps
     DEF CreateServiceIdentity, At, Path, Places, IdentityKinds, Counted
<1>12. CASE RevokeServiceIdentity(p)
  BY <1>3, <1>4, <1>5, <1>12, RevokeServiceIdentityKeeps
     DEF RevokeServiceIdentity, At, Path, Places, IdentityKinds, Counted
<1>13. CASE RecordSecurityEvent(p)
  BY <1>4, <1>13, RecordSecurityEventKeeps DEF RecordSecurityEvent
<1> QED
  BY <1>1, <1>2, <1>6, <1>7, <1>8, <1>9, <1>10, <1>11, <1>12, <1>13 DEF IdentityStep

\* A call of a tool begins.
LEMMA CallToolLight ==
  ASSUME IdentityInv, NEW p \in Procs, NEW cred \in Issued, CallTool(p, cred)
  PROVE  Light(p) /\ req'[p].kind = "tool"
<1> DEFINE request == Request("tool", "authenticate", cred, "none")
<1>1. /\ request \in ReqType /\ request.kind = "tool" /\ request.at = "authenticate"
      /\ request.cred = cred /\ (request.stale => cred \in told)
  BY OutsideRequest
<1>2. Ask(p, request) /\ UNCHANGED <<users, session, identity, audit, told, ended>>
  BY DEF CallTool, accounts, history
<1> HIDE DEF request
<1>3. Path(request) /\ ~Recording(request)
  BY <1>1 DEF Path, Recording, Counted
<1> QED
  BY <1>1, <1>2, <1>3, AskLight

\* The creation of a draft begins.
LEMMA CreateDraftLight ==
  ASSUME IdentityInv, NEW p \in Procs, NEW cred \in Issued,
         NEW priority \in Priorities \cup {"none"}, CreateDraft(p, cred, priority)
  PROVE  Light(p) /\ req'[p].kind = "draft" /\ req'[p].at = "authenticate"
<1> DEFINE first == Request("draft", "authenticate", cred, "none")
<1>1. first \in ReqType
  BY OutsideRequest
<1>2. Ask(p, [first EXCEPT !.want = priority]) /\ UNCHANGED <<accounts, audit, history>>
  BY DEF CreateDraft
<1> HIDE DEF first
<1>3. /\ first.draft \in Nat
      /\ [first EXCEPT !.want = priority] =
           [first EXCEPT !.want = priority, !.draft = first.draft]
  BY <1>1 DEF ReqType
<1>4. Ask(p, [first EXCEPT !.want = priority, !.draft = first.draft])
  BY <1>2, <1>3, Zenon
<1>5. Ask(p, [Request("draft", "authenticate", cred, "none")
                EXCEPT !.want = priority, !.draft = first.draft])
  BY <1>4, Zenon DEF first
<1> QED
  BY <1>2, <1>3, <1>5, OutsideRequestLight

\* The change of a draft's priority begins.
LEMMA UpdatePriorityLight ==
  ASSUME IdentityInv, NEW p \in Procs, NEW cred \in Issued, NEW d \in Nat,
         NEW priority \in Priorities, UpdatePriority(p, cred, d, priority)
  PROVE  /\ Light(p) /\ req'[p].kind = "update" /\ req'[p].at = "authenticate"
         /\ req'[p].want = priority /\ req'[p].draft = d
BY OutsideRequestLight DEF UpdatePriority

-----------------------------------------------------------------------------
(* The audit of tools.                                                      *)

\* Recording an outcome keeps ToolInv and has no effect on accounts.
LEMMA RecordOutcomeKeeps ==
  ASSUME IdentityInv, ToolInv, NEW p \in Procs, RecordOutcome(p)
  PROVE  /\ Light(p) /\ req'[p] = IdleReq
         /\ ToolInv'
<1>1. Light(p) /\ req'[p] = IdleReq
  BY UntouchedAccounts, AnswerLight, AnswerMoves DEF RecordOutcome, IdentityInv
<1>2. \/ UNCHANGED <<toolAudit, toolAnswers>>
      \/ toolAudit' = [toolAudit EXCEPT ![req[p].outcome] = @ + 1] /\ UNCHANGED toolAnswers
      \/ /\ toolAudit' = [toolAudit EXCEPT ![req[p].outcome] = @ + 1]
         /\ toolAnswers' = [toolAnswers EXCEPT ![req[p].outcome] = @ + 1]
  BY DEF RecordOutcome, Recorded, Unrecorded
<1>3. ToolInv'
  BY <1>2 DEF ToolInv, ToolAnswersAreAudited
<1> QED
  BY <1>1, <1>3

-----------------------------------------------------------------------------
(* Drafts.                                                                  *)

\* Drafts are only added, and only gain priorities.
DraftsGrow ==
  /\ ProjectTypeOK'
  /\ Len(drafts') >= Len(drafts)
  /\ \A i \in 1 .. Len(drafts) : /\ drafts'[i].want = drafts[i].want
                                  /\ drafts[i].given \subseteq drafts'[i].given

\* Drafts that do not change grow by none.
LEMMA DraftsGrowByNone ==
  ProjectTypeOK /\ UNCHANGED drafts /\ options' \subseteq Offered => DraftsGrow
BY DEF ProjectTypeOK, DraftsGrow

\* What is known of drafts stays so as they grow.
LEMMA SoundKept ==
  ASSUME ProjectTypeOK, DraftsGrow
  PROVE  /\ \A q \in ReqType : DraftSound(q) => DraftSound(q)'
         /\ \A c \in claimed : ClaimSound(c) => ClaimSound(c)'
<1>1. Len(drafts) \in Nat /\ Len(drafts') \in Nat
  BY DEF ProjectTypeOK, DraftsGrow
<1> QED
  BY <1>1 DEF DraftsGrow, DraftSound, ClaimSound, OnDraft

\* A step of request p that tells an operator nothing.
LEMMA DraftStepKeeps ==
  ASSUME DraftInv, req \in [Procs -> ReqType], NEW p \in Procs, Moved(p), DraftsGrow,
         UNCHANGED claimed, UnsupportedPriorityMakesNothing', DraftSound(req[p])',
         OnDraft(req'[p]) /\ req'[p].kind = "draft" =>
           \/ OnDraft(req[p]) /\ req[p].kind = "draft" /\ req'[p].draft = req[p].draft
           \/ req'[p].draft > Len(drafts)
  PROVE  DraftInv'
<1>1. \A q \in Procs : DraftSound(req[q])'
  BY SoundKept DEF DraftInv, Moved
<1>2. \A c \in claimed' : ClaimSound(c)'
  BY SoundKept DEF DraftInv
<1>3. OneMaker'
  <2>1. Len(drafts) \in Nat
    BY DEF DraftInv, ProjectTypeOK
  <2>2. \A q \in Procs : OnDraft(req[q]) => req[q].draft \in 1 .. Len(drafts)
    BY DEF DraftInv, DraftSound
  <2>3. \A c \in claimed : c.draft \in 1 .. Len(drafts)
    BY DEF DraftInv, ClaimSound
  <2>4. ASSUME NEW q \in Procs, q # p, OnDraft(req'[p]), req'[p].kind = "draft",
               OnDraft(req'[q]), req'[q].kind = "draft"
        PROVE  req'[p].draft # req'[q].draft
    BY <2>1, <2>2, <2>4 DEF Moved, DraftInv, OneMaker
  <2>5. ASSUME NEW q \in Procs, NEW c \in claimed, OnDraft(req'[q]), req'[q].kind = "draft",
               c.kind = "draft"
        PROVE  c.draft # req'[q].draft
    BY <2>1, <2>3, <2>5 DEF Moved, DraftInv, OneMaker
  <2>6. ASSUME NEW q \in Procs, NEW r \in Procs, q # r, OnDraft(req'[q]), OnDraft(req'[r]),
               req'[q].kind = "draft", req'[r].kind = "draft"
        PROVE  req'[q].draft # req'[r].draft
    BY <2>4, <2>6 DEF Moved, DraftInv, OneMaker
  <2> QED
    BY <2>5, <2>6 DEF OneMaker, DraftInv, OnDraft
<1> QED
  BY <1>1, <1>2, <1>3 DEF DraftInv, DraftsGrow

\* A step that leaves the drafts and claims alone and comes to none of them.
LEMMA PlainKeeps ==
  ASSUME BoundaryInv, NEW p \in Procs, Moved(p), UNCHANGED <<drafts, claimed>>,
         options' \subseteq Offered, ~OnDraft(req'[p]), DraftSound(req'[p])
  PROVE  DraftInv'
<1>1. DraftsGrow
  BY DraftsGrowByNone DEF BoundaryInv, DraftInv
<1>2. DraftSound(req[p])'
  BY <1>1, SoundKept DEF Moved, BoundaryInv, DraftInv
<1>3. UnsupportedPriorityMakesNothing'
  BY DEF BoundaryInv, DraftInv, UnsupportedPriorityMakesNothing
<1> QED
  BY <1>1, <1>2, <1>3, DraftStepKeeps DEF BoundaryInv, IdentityInv, RequestsOK

\* A request that is not about drafts is at none.
LEMMA AwayFromDrafts ==
  ASSUME NEW q, Path(q), q.kind \notin {"draft", "update"}
  PROVE  ~OnDraft(q) /\ DraftSound(q)
BY DEF Path, OnDraft, DraftSound

\* A process without a request is on no draft.
LEMMA IdleAwayFromDrafts == ~OnDraft(IdleReq) /\ DraftSound(IdleReq)
BY IdleReqType, AwayFromDrafts

\* The first place of a Project call changes no draft.
LEMMA BeginProjectCallKeeps ==
  ASSUME BoundaryInv, NEW p \in Procs, BeginProjectCall(p)
  PROVE  DraftInv'
<1>1. /\ UNCHANGED <<drafts, claimed, options>> /\ req[p].at \in {"draft", "update"}
      /\ Goto(p, IF req[p].want = "none" THEN "post" ELSE "field")
  BY DEF BeginProjectCall, At, project
<1>2. Moved(p) /\ Path(req[p]) /\ req[p] \in ReqType /\ DraftSound(req[p])
  BY <1>1, GotoFields DEF Places, BoundaryInv, DraftInv
<1>3. /\ req'[p].kind = req[p].kind /\ req'[p].want = req[p].want
      /\ req'[p].draft = req[p].draft
      /\ req'[p].at = IF req[p].want = "none" THEN "post" ELSE "field"
  BY <1>1, <1>2 DEF Goto, ReqType, BoundaryInv, IdentityInv, RequestsOK
<1>4. ~OnDraft(req'[p])
  BY <1>3 DEF OnDraft
<1>5. DraftSound(req'[p])
  BY <1>1, <1>2, <1>3, <1>4, ProjectAssumption DEF DraftSound, Path, ReqType
<1> QED
  BY <1>1, <1>2, <1>4, <1>5, PlainKeeps DEF BoundaryInv, DraftInv, ProjectTypeOK

\* Reading the options changes no draft.
LEMMA PriorityFieldKeeps ==
  ASSUME BoundaryInv, NEW p \in Procs, PriorityField(p)
  PROVE  DraftInv'
<1>1. /\ UNCHANGED <<drafts, claimed, options>> /\ req[p].at = "field"
      /\ options \subseteq Offered
  BY DEF PriorityField, At, project, BoundaryInv, DraftInv, ProjectTypeOK
<1>2. CASE Answer(p)
  BY <1>1, <1>2, AnswerMoves, IdleAwayFromDrafts, PlainKeeps DEF BoundaryInv, IdentityInv
<1>3. CASE Supported(req[p].want) /\ Goto(p, IF req[p].kind = "draft" THEN "post" ELSE "set")
  <2>1. Moved(p) /\ Path(req[p]) /\ req[p] \in ReqType /\ DraftSound(req[p])
    BY <1>3, GotoFields DEF Places, BoundaryInv, DraftInv
  <2>2. /\ req'[p].kind = req[p].kind /\ req'[p].want = req[p].want
        /\ req'[p].draft = req[p].draft
        /\ req'[p].at = IF req[p].kind = "draft" THEN "post" ELSE "set"
    BY <1>3, <2>1 DEF Goto, ReqType, BoundaryInv, IdentityInv, RequestsOK
  <2>3. req[p].want \in Offered /\ req[p].kind \in {"draft", "update"}
    BY <1>1, <1>3, <2>1 DEF Supported, Path
  <2>4. DraftSound(req'[p]) /\ (OnDraft(req'[p]) => req'[p].kind = "update")
    BY <1>1, <2>1, <2>2, <2>3 DEF DraftSound, OnDraft
  <2>5. DraftsGrow
    BY <1>1, DraftsGrowByNone DEF BoundaryInv, DraftInv
  <2>6. DraftSound(req[p])'
    BY <2>1, <2>4, <2>5, SoundKept DEF Moved, BoundaryInv, DraftInv
  <2>7. UnsupportedPriorityMakesNothing'
    BY <1>1 DEF BoundaryInv, DraftInv, UnsupportedPriorityMakesNothing
  <2> QED
    BY <1>1, <2>1, <2>4, <2>5, <2>6, <2>7, DraftStepKeeps
       DEF BoundaryInv, IdentityInv, RequestsOK
<1> QED
  BY <1>2, <1>3 DEF PriorityField

\* A new draft is told of only by the request that made it.
LEMMA PostDraftKeeps ==
  ASSUME BoundaryInv, NEW p \in Procs, PostDraft(p)
  PROVE  DraftInv'
<1> DEFINE n == Len(drafts)
           row == [want |-> req[p].want, given |-> {}]
<1>1. /\ UNCHANGED <<claimed, options>> /\ req[p].at = "post"
      /\ drafts \in Seq(Draft) /\ options \subseteq Offered /\ n \in Nat
  BY DEF PostDraft, At, BoundaryInv, DraftInv, ProjectTypeOK
<1>2. /\ req \in [Procs -> ReqType] /\ req[p] \in ReqType
      /\ req[p].kind = "draft" /\ req[p].want \in Offered \cup {"none"}
  BY <1>1 DEF BoundaryInv, IdentityInv, RequestsOK, DraftInv, DraftSound
<1>3. CASE Answer(p) /\ UNCHANGED drafts
  BY <1>1, <1>3, AnswerMoves, IdleAwayFromDrafts, PlainKeeps DEF BoundaryInv, IdentityInv
<1>4. CASE drafts' = NewDraft(req[p].want)
  <2>1. row \in Draft
    BY <1>2, ProjectAssumption DEF Draft
  <2>2. /\ drafts' \in Seq(Draft) /\ Len(drafts') = n + 1 /\ drafts'[n + 1] = row
        /\ \A i \in 1 .. n : drafts'[i] = drafts[i]
    <3>1. drafts' = Append(drafts, row)
      BY <1>4 DEF NewDraft
    <3> HIDE DEF row
    <3> QED
      BY <3>1, <2>1, <1>1, AppendProperties
  <2>3. DraftsGrow
    BY <1>1, <2>2 DEF DraftsGrow, ProjectTypeOK
  <2>4. UnsupportedPriorityMakesNothing'
    <3>1. DOMAIN drafts = 1 .. n /\ DOMAIN drafts' = 1 .. n + 1 /\ row.want = req[p].want
      BY <1>1, <2>2
    <3> QED
      BY <1>1, <1>2, <2>2, <3>1 DEF UnsupportedPriorityMakesNothing, BoundaryInv, DraftInv
  <2>5. CASE Answer(p)
    <3>1. Moved(p) /\ req'[p] = IdleReq
      BY <2>5, AnswerMoves DEF BoundaryInv, IdentityInv
    <3>2. DraftSound(req[p])' /\ ~OnDraft(req'[p])
      BY <3>1, <2>3, IdleAwayFromDrafts, IdleReqType, SoundKept DEF BoundaryInv, DraftInv
    <3> QED
      BY <1>1, <1>2, <2>3, <2>4, <3>1, <3>2, DraftStepKeeps DEF BoundaryInv
  <2>6. CASE req' = [req EXCEPT ![p].draft = n + 1,
                                ![p].at = IF req[p].want = "none" THEN "event" ELSE "set"]
    <3>1. /\ Moved(p) /\ req'[p].kind = "draft" /\ req'[p].want = req[p].want
          /\ req'[p].draft = n + 1
          /\ req'[p].at = IF req[p].want = "none" THEN "event" ELSE "set"
      BY <1>1, <1>2, <2>6 DEF Moved, ReqType, Places
    <3>2. DraftSound(req[p])'
      BY <1>1, <1>2, <2>2, <3>1, ProjectAssumption DEF DraftSound, OnDraft
    <3>3. req'[p].draft > Len(drafts)
      BY <1>1, <3>1
    <3> QED
      BY <1>1, <1>2, <2>3, <2>4, <3>1, <3>2, <3>3, DraftStepKeeps DEF BoundaryInv
  <2> QED
    BY <1>4, <2>5, <2>6, <1>3 DEF PostDraft
<1> QED
  BY <1>3, <1>4 DEF PostDraft

\* A priority that is set was offered at some time.
LEMMA SetPriorityKeeps ==
  ASSUME BoundaryInv, NEW p \in Procs, SetPriority(p)
  PROVE  DraftInv'
<1> DEFINE d == req[p].draft
           w == req[p].want
<1>1. /\ UNCHANGED <<claimed, options>> /\ req[p].at = "set"
      /\ drafts \in Seq(Draft) /\ options \subseteq Offered /\ Len(drafts) \in Nat
  BY DEF SetPriority, At, BoundaryInv, DraftInv, ProjectTypeOK
<1>2. /\ req \in [Procs -> ReqType] /\ req[p] \in ReqType
      /\ Path(req[p]) /\ DraftSound(req[p])
  BY DEF BoundaryInv, IdentityInv, RequestsOK, DraftInv
<1>3. /\ OnDraft(req[p]) /\ d \in 1 .. Len(drafts)
      /\ req[p].kind = "draft" => drafts[d].want = w
  BY <1>1, <1>2 DEF OnDraft, Path, DraftSound
<1>4. CASE Answer(p) /\ UNCHANGED drafts
  BY <1>1, <1>4, AnswerMoves, IdleAwayFromDrafts, PlainKeeps DEF BoundaryInv, IdentityInv
<1>5. CASE w \in options /\ drafts' = [drafts EXCEPT ![d].given = @ \cup {w}]
  <2> DEFINE row == [drafts[d] EXCEPT !.given = @ \cup {w}]
  <2>1. /\ drafts[d] \in Draft
        /\ row \in Draft /\ row.want = drafts[d].want /\ row.given = drafts[d].given \cup {w}
    <3>1. drafts[d] \in Draft
      BY <1>1, <1>3
    <3> QED
      BY <1>1, <1>5, <3>1 DEF Draft
  <2>2. drafts' = [drafts EXCEPT ![d] = row]
    BY <1>5
  <2> HIDE DEF d, row
  <2>3. /\ drafts' \in Seq(Draft) /\ Len(drafts') = Len(drafts)
        /\ \A i \in 1 .. Len(drafts) : drafts'[i] = IF i = d THEN row ELSE drafts[i]
    BY <1>1, <1>3, <2>1, <2>2, ExceptSeq
  <2>4. DraftsGrow
    BY <1>1, <2>1, <2>3 DEF DraftsGrow, ProjectTypeOK
  <2>5. UnsupportedPriorityMakesNothing'
    <3>1. DOMAIN drafts = 1 .. Len(drafts) /\ DOMAIN drafts' = 1 .. Len(drafts)
      BY <1>1, <2>3
    <3> QED
      BY <2>1, <2>3, <3>1 DEF UnsupportedPriorityMakesNothing, BoundaryInv, DraftInv
  <2>6. CASE Answer(p)
    <3>1. Moved(p) /\ req'[p] = IdleReq
      BY <2>6, AnswerMoves DEF BoundaryInv, IdentityInv
    <3>2. DraftSound(req[p])' /\ ~OnDraft(req'[p])
      BY <3>1, <2>4, IdleAwayFromDrafts, IdleReqType, SoundKept DEF BoundaryInv, DraftInv
    <3> QED
      BY <1>1, <1>2, <2>4, <2>5, <3>1, <3>2, DraftStepKeeps DEF BoundaryInv
  <2>7. CASE Goto(p, "event")
    <3>1. /\ Moved(p) /\ req'[p].at = "event" /\ req'[p].kind = req[p].kind
          /\ req'[p].want = w /\ req'[p].draft = d
      BY <1>2, <2>7 DEF Goto, Moved, ReqType, Places, d
    <3>2. DraftSound(req[p])'
      <4>1. d \in 1 .. Len(drafts') /\ drafts'[d] = row
        BY <1>3, <2>3
      <4>2. req'[p].kind = "update" => w \in Priorities
        BY <1>2, <3>1 DEF DraftSound
      <4> QED
        BY <1>3, <2>1, <3>1, <4>1, <4>2 DEF DraftSound, OnDraft
    <3> QED
      BY <1>1, <1>2, <1>3, <2>4, <2>5, <3>1, <3>2, DraftStepKeeps DEF BoundaryInv, d
  <2> QED
    BY <1>4, <1>5, <2>6, <2>7 DEF SetPriority, AfterRejection, d
<1> QED
  BY <1>4, <1>5 DEF SetPriority, AfterRejection

\* The operator is told of the draft that the request is at.
LEMMA ClaimKeeps ==
  ASSUME BoundaryInv, NEW p \in Procs, RecordSecurityEvent(p), Claim(p),
         UNCHANGED <<options, drafts>>
  PROVE  DraftInv'
<1>1. /\ Moved(p) /\ req'[p] = IdleReq /\ req[p].at = "event" /\ Path(req[p])
      /\ DraftSound(req[p]) /\ options' \subseteq Offered
  BY AnswerMoves DEF RecordSecurityEvent, At, BoundaryInv, IdentityInv, RequestsOK, DraftInv,
                     ProjectTypeOK
<1> DEFINE c == [kind |-> req[p].kind, draft |-> req[p].draft, priority |-> req[p].want]
<1>2. \/ UNCHANGED claimed
      \/ req[p].kind \in {"draft", "update"} /\ claimed' = claimed \cup {c}
  BY DEF Claim
<1>3. CASE UNCHANGED claimed
  BY <1>1, <1>3, IdleAwayFromDrafts, PlainKeeps
<1>4. CASE req[p].kind \in {"draft", "update"} /\ claimed' = claimed \cup {c}
  <2>1. OnDraft(req[p])
    BY <1>1, <1>4 DEF OnDraft
  <2>2. c.kind = req[p].kind /\ c.draft = req[p].draft /\ c.priority = req[p].want
    OBVIOUS
  <2> HIDE DEF c
  <2>3. ClaimSound(c)
    BY <1>1, <2>1, <2>2 DEF ClaimSound, DraftSound
  <2>4. \A b \in claimed' : ClaimSound(b)'
    BY <1>4, <2>3 DEF ClaimSound, BoundaryInv, DraftInv
  <2>5. \A q \in Procs : DraftSound(req[q])'
    BY <1>1, IdleAwayFromDrafts DEF Moved, BoundaryInv, DraftInv, DraftSound, OnDraft
  <2>6. OneMaker'
    <3>1. ~OnDraft(req'[p])
      BY <1>1, IdleAwayFromDrafts
    <3>2. \A q \in Procs, b \in claimed' :
            OnDraft(req'[q]) /\ req'[q].kind = "draft" /\ b.kind = "draft" =>
              b.draft # req'[q].draft
      BY <1>1, <1>4, <2>1, <2>2, <3>1 DEF Moved, BoundaryInv, DraftInv, OneMaker
    <3>3. \A a, b \in claimed' :
            a.kind = "draft" /\ b.kind = "draft" /\ a.draft = b.draft => a = b
      BY <1>4, <2>1, <2>2 DEF BoundaryInv, DraftInv, OneMaker
    <3>4. \A q, r \in Procs :
            /\ q # r /\ OnDraft(req'[q]) /\ OnDraft(req'[r])
            /\ req'[q].kind = "draft" /\ req'[r].kind = "draft"
            => req'[q].draft # req'[r].draft
      BY <1>1, <3>1 DEF Moved, BoundaryInv, DraftInv, OneMaker
    <3> QED
      BY <3>2, <3>3, <3>4 DEF OneMaker, OnDraft
  <2>7. ProjectTypeOK' /\ UnsupportedPriorityMakesNothing'
    BY <1>1 DEF BoundaryInv, DraftInv, ProjectTypeOK, UnsupportedPriorityMakesNothing
  <2> QED
    BY <2>4, <2>5, <2>6, <2>7 DEF DraftInv
<1> QED
  BY <1>2, <1>3, <1>4

\* Steps and requests about accounts, with what they tell.
LEMMA AccountStepKeeps ==
  ASSUME BoundaryInv, NEW p \in Procs, IdentityStep(p) \/ IdentityRequest(p), Claim(p),
         UNCHANGED <<project, toolVars>>
  PROVE  BoundaryInv'
<1>1. IdentityInv' /\ ToolInv'
  BY IdentityStepKeeps DEF BoundaryInv, ToolInv, ToolAnswersAreAudited, toolVars
<1>2. UNCHANGED <<options, drafts>>
  BY DEF project
<1>3. CASE RecordSecurityEvent(p)
  BY <1>1, <1>2, <1>3, ClaimKeeps DEF BoundaryInv
<1>4. CASE ~At(p, "event")
  <2>1. UNCHANGED claimed /\ options' \subseteq Offered
    BY <1>2, <1>4 DEF Claim, BoundaryInv, DraftInv, ProjectTypeOK
  <2>2. Moved(p) /\ Path(req'[p])
    BY <1>1, IdentityStepKeeps DEF BoundaryInv, IdentityInv, RequestsOK
  <2>3. ~OnDraft(req'[p]) /\ DraftSound(req'[p])
    <3>1. CASE req'[p] = IdleReq
      BY <3>1, IdleAwayFromDrafts
    <3>2. CASE req'[p].kind \notin {"draft", "update"}
      BY <2>2, <3>2, AwayFromDrafts
    <3>3. CASE /\ req'[p].kind = req[p].kind /\ req'[p].at = req[p].kind
               /\ req'[p].want = req[p].want /\ req'[p].draft = req[p].draft
               /\ req'[p].kind \in {"draft", "update"}
      BY <3>3 DEF OnDraft, DraftSound, BoundaryInv, DraftInv
    <3> QED
      BY <3>1, <3>2, <3>3, IdentityStepKeeps DEF BoundaryInv
  <2>4. DraftInv'
    BY <1>2, <2>1, <2>2, <2>3, PlainKeeps
  <2> QED
    BY <1>1, <2>4 DEF BoundaryInv
<1>5. RecordSecurityEvent(p) \/ ~At(p, "event")
  BY DEF IdentityStep, IdentityRequest, Authenticate, LookForUsers, CreateBootstrapAdmin,
         AuthenticateLocal, CreateSession, RevokeSession, CreateServiceIdentity,
         RevokeServiceIdentity, Bootstrap, SignIn, SignOut, RevokeIdentity, CreateIdentity,
         Ask, At
<1> QED
  BY <1>3, <1>4, <1>5

-----------------------------------------------------------------------------

\* No account, request or draft exists in the beginning.
LEMMA BoundaryInvInit == BoundaryInit => BoundaryInv
<1> SUFFICES ASSUME BoundaryInit PROVE BoundaryInv
  OBVIOUS
<1>1. /\ req = [p \in Procs |-> IdleReq] /\ told = {}
      /\ ended = [n \in Names |-> 0]
      /\ audit = [kind \in Counted |-> [n \in Names |-> 0]]
  BY DEF BoundaryInit, IdentityInit
<1>2. /\ users \subseteq Emails /\ AtMostOneUser
      /\ session \in [Tokens -> {"absent", "live", "ended"}]
      /\ identity \in [Names -> [status : {"absent", "live", "revoked"},
                                permissions : SUBSET ServicePermissions]]
  <2>1. CASE /\ users = {} /\ session = [t \in Tokens |-> "absent"]
             /\ identity = [n \in Names |-> [status |-> "absent", permissions |-> {}]]
    BY <2>1 DEF AtMostOneUser
  <2>2. ASSUME NEW email \in Emails, NEW live \in Tokens, NEW n \in Names,
               users = {email},
               session = [t \in Tokens |-> IF t = live THEN "live" ELSE "absent"],
               identity = [m \in Names |-> IF m = n
                 THEN [status |-> "live", permissions |-> ServicePermissions]
                 ELSE [status |-> "absent", permissions |-> {}]]
        PROVE  /\ users \subseteq Emails /\ AtMostOneUser
               /\ session \in [Tokens -> {"absent", "live", "ended"}]
               /\ identity \in [Names -> [status : {"absent", "live", "revoked"},
                                         permissions : SUBSET ServicePermissions]]
    BY <2>2 DEF AtMostOneUser
  <2> QED
    BY <2>1, <2>2 DEF BoundaryInit, IdentityInit
<1>3. IdentityTypeOK /\ ToldEnded
  BY <1>1, <1>2 DEF IdentityTypeOK, ToldEnded
<1>4. EventsAreTrue
  BY <1>1 DEF EventsAreTrue, Counted
<1>5. RequestsOK /\ Alone
  BY <1>1, IdleReqType DEF RequestsOK, Alone, Sound
<1>6. ToolInv
  BY DEF BoundaryInit, ToolInv, ToolAnswersAreAudited
<1>7. DraftInv
  <2>1. drafts = <<>> /\ claimed = {} /\ options \subseteq Offered
    BY DEF BoundaryInit
  <2>2. \A p \in Procs : req[p] = IdleReq
    BY <1>1
  <2>3. \A p \in Procs : ~OnDraft(req[p]) /\ DraftSound(req[p])
    BY <2>2, IdleAwayFromDrafts
  <2>4. OneMaker
    <3>1. \A p, q \in Procs :
            /\ p # q /\ OnDraft(req[p]) /\ OnDraft(req[q])
            /\ req[p].kind = "draft" /\ req[q].kind = "draft"
            => req[p].draft # req[q].draft
      BY <2>3
    <3>2. \A p \in Procs, c \in claimed :
            OnDraft(req[p]) /\ req[p].kind = "draft" /\ c.kind = "draft" =>
              c.draft # req[p].draft
      BY <2>3
    <3>3. \A c, d \in claimed :
            c.kind = "draft" /\ d.kind = "draft" /\ c.draft = d.draft => c = d
      BY <2>1
    <3> QED
      BY <3>1, <3>2, <3>3 DEF OneMaker
  <2> QED
    BY <2>1, <2>3, <2>4 DEF DraftInv, ProjectTypeOK, UnsupportedPriorityMakesNothing
<1> QED
  BY <1>2, <1>3, <1>4, <1>5, <1>6, <1>7 DEF BoundaryInv, IdentityInv

\* BoundaryInv is inductive.
LEMMA BoundaryInvStep == BoundaryInv /\ [BoundaryNext]_boundaryVars => BoundaryInv'
<1> SUFFICES ASSUME BoundaryInv, [BoundaryNext]_boundaryVars PROVE BoundaryInv'
  OBVIOUS
<1>1. ASSUME NEW p \in Procs, Light(p), UNCHANGED <<project, claimed, toolVars>>,
             ~OnDraft(req'[p]), DraftSound(req'[p])
      PROVE  BoundaryInv'
  <2>1. IdentityInv' /\ ToolInv'
    BY <1>1, LightKeeps DEF BoundaryInv, ToolInv, ToolAnswersAreAudited, toolVars
  <2>2. DraftInv'
    BY <1>1, PlainKeeps DEF Light, project, BoundaryInv, DraftInv, ProjectTypeOK
  <2> QED
    BY <2>1, <2>2 DEF BoundaryInv
<1>2. ASSUME NEW p \in Procs, RunTool(p) PROVE BoundaryInv'
  <2>1. Light(p) /\ UNCHANGED <<project, claimed, toolVars>>
    BY <1>2, RunToolLight DEF RunTool, BoundaryInv
  <2>2. req'[p] = IdleReq \/ req'[p].kind = "tool"
    <3>1. req \in [Procs -> ReqType] /\ req[p].kind = "tool"
      BY <1>2 DEF RunTool, At, BoundaryInv, IdentityInv, RequestsOK, Path
    <3> QED
      BY <1>2, <3>1 DEF RunTool, Answer, ReqType
  <2> QED
    BY <1>1, <2>1, <2>2, IdleAwayFromDrafts, AwayFromDrafts DEF Light
<1>3. ASSUME NEW p \in Procs, RecordOutcome(p) PROVE BoundaryInv'
  <2>1. Light(p) /\ req'[p] = IdleReq /\ ToolInv' /\ UNCHANGED <<project, claimed>>
    BY <1>3, RecordOutcomeKeeps DEF RecordOutcome, BoundaryInv
  <2>2. IdentityInv'
    BY <2>1, LightKeeps DEF BoundaryInv
  <2>3. DraftInv'
    BY <2>1, IdleAwayFromDrafts, PlainKeeps
       DEF Light, project, BoundaryInv, DraftInv, ProjectTypeOK
  <2> QED
    BY <2>1, <2>2, <2>3 DEF BoundaryInv
<1>4. ASSUME NEW p \in Procs,
             BeginProjectCall(p) \/ PriorityField(p) \/ PostDraft(p) \/ SetPriority(p)
      PROVE  BoundaryInv'
  <2>1. IdentityInv'
    BY <1>4, ProjectLight, LightKeeps DEF BoundaryInv, DraftInv
  <2>2. ToolInv'
    BY <1>4 DEF BeginProjectCall, PriorityField, PostDraft, SetPriority, BoundaryInv, ToolInv,
                ToolAnswersAreAudited, toolVars
  <2>3. DraftInv'
    BY <1>4, BeginProjectCallKeeps, PriorityFieldKeeps, PostDraftKeeps, SetPriorityKeeps
  <2> QED
    BY <2>1, <2>2, <2>3 DEF BoundaryInv
<1>5. ASSUME NEW p \in Procs, NEW cred \in Issued, CallTool(p, cred) PROVE BoundaryInv'
  BY <1>1, <1>5, CallToolLight, AwayFromDrafts DEF CallTool, Light, BoundaryInv
<1>6. ASSUME NEW p \in Procs, NEW cred \in Issued, NEW priority \in Priorities \cup {"none"},
             CreateDraft(p, cred, priority)
      PROVE  BoundaryInv'
  <2>1. /\ Light(p) /\ req'[p].kind = "draft" /\ req'[p].at = "authenticate"
        /\ UNCHANGED <<project, claimed, toolVars>>
    BY <1>6, CreateDraftLight DEF CreateDraft, BoundaryInv
  <2> QED
    BY <1>1, <2>1 DEF OnDraft, DraftSound
<1>7. ASSUME NEW p \in Procs, NEW cred \in Issued, NEW d \in DOMAIN drafts,
             NEW priority \in Priorities, UpdatePriority(p, cred, d, priority)
      PROVE  BoundaryInv'
  <2>1. d \in 1 .. Len(drafts) /\ d \in Nat
    BY DEF BoundaryInv, DraftInv, ProjectTypeOK
  <2>2. /\ Light(p) /\ req'[p].kind = "update" /\ req'[p].at = "authenticate"
        /\ req'[p].want = priority /\ req'[p].draft = d
        /\ UNCHANGED <<project, claimed, toolVars>>
    BY <1>7, <2>1, UpdatePriorityLight DEF UpdatePriority, BoundaryInv
  <2> QED
    BY <1>1, <2>1, <2>2 DEF OnDraft, DraftSound
<1>8. ASSUME NEW p \in Procs, IdentityStep(p) \/ IdentityRequest(p), Claim(p),
             UNCHANGED <<project, toolVars>>
      PROVE  BoundaryInv'
  BY <1>8, AccountStepKeeps
<1>9. ASSUME UNCHANGED req, UNCHANGED <<drafts, claimed>>, options' \subseteq Offered
      PROVE  DraftInv'
  BY <1>9 DEF BoundaryInv, DraftInv, ProjectTypeOK, UnsupportedPriorityMakesNothing, OneMaker,
              DraftSound, ClaimSound, OnDraft
<1>10. ASSUME NEW t \in Tokens, SessionExpires(t), UNCHANGED <<project, claimed, toolVars>>
       PROVE  BoundaryInv'
  <2>1. IdentityInv' /\ ToolInv'
    BY <1>10, SessionExpiresKeeps DEF BoundaryInv, ToolInv, ToolAnswersAreAudited, toolVars
  <2>2. DraftInv'
    BY <1>9, <1>10 DEF SessionExpires, project, BoundaryInv, DraftInv, ProjectTypeOK
  <2> QED
    BY <2>1, <2>2 DEF BoundaryInv
<1>11. ASSUME UNCHANGED <<identityVars, toolVars>> PROVE IdentityInv' /\ ToolInv'
  BY <1>11 DEF identityVars, accounts, history, toolVars, BoundaryInv, IdentityInv,
               IdentityTypeOK, AtMostOneUser, ToldEnded, EventsAreTrue, RequestsOK, Alone,
               Path, Sound, ToolInv, ToolAnswersAreAudited
<1>12. CASE ChangeOptions
  <2>1. DraftInv'
    BY <1>9, <1>12 DEF ChangeOptions, identityVars
  <2> QED
    BY <1>11, <1>12, <2>1 DEF ChangeOptions, BoundaryInv
<1>13. CASE UNCHANGED boundaryVars
  <2>1. DraftInv'
    BY <1>9, <1>13 DEF boundaryVars, identityVars, project, BoundaryInv, DraftInv, ProjectTypeOK
  <2> QED
    BY <1>11, <1>13, <2>1 DEF boundaryVars, BoundaryInv
<1> QED
  BY <1>2, <1>3, <1>4, <1>5, <1>6, <1>7, <1>8, <1>10, <1>12, <1>13 DEF BoundaryNext, Rest

-----------------------------------------------------------------------------

\* The state has its type, in every state of the composition.
THEOREM BoundaryTyped == BoundarySpec => []BoundaryTypeOK
<1>1. BoundaryInv => BoundaryTypeOK
  BY DEF BoundaryInv, IdentityInv, ToolInv, DraftInv, ProjectTypeOK, Draft, BoundaryTypeOK
<1> QED
  BY <1>1, BoundaryInvInit, BoundaryInvStep, PTL DEF BoundarySpec

\* However many bootstraps run at once, there is one administrator at most
\* (store.py:106-136).
THEOREM OneAdministratorAlways == BoundarySpec => []OneAdministrator
<1>1. BoundaryInv => OneAdministrator
  <2>1. users = {} => Cardinality(users) = 0
    BY FS_EmptySet
  <2>2. \A email : users = {email} => Cardinality(users) = 1
    BY FS_Singleton
  <2> QED
    BY <2>1, <2>2 DEF BoundaryInv, IdentityInv, AtMostOneUser, OneAdministrator
<1> QED
  BY <1>1, BoundaryInvInit, BoundaryInvStep, PTL DEF BoundarySpec

\* A credential whose revocation was acknowledged authenticates no request that
\* comes afterwards, whatever else is in progress (store.py:172-199, 240-261).
THEOREM RevocationTakesEffect == BoundarySpec => []RevocationIsImmediate
<1>1. BoundaryInv => RevocationIsImmediate
  BY DEF BoundaryInv, IdentityInv, RequestsOK, Path, RevocationIsImmediate, At
<1> QED
  BY <1>1, BoundaryInvInit, BoundaryInvStep, PTL DEF BoundarySpec

\* No fact about a service identity is recorded twice, or is untrue, however
\* creations and revocations of it interleave (store.py:210-238, 277-286).
THEOREM EventsTrue == BoundarySpec => []EventsAreTrue
<1>1. BoundaryInv => EventsAreTrue
  BY DEF BoundaryInv, IdentityInv
<1> QED
  BY <1>1, BoundaryInvInit, BoundaryInvStep, PTL DEF BoundarySpec

\* No agent is given an outcome that the audit does not hold (mcp_host.py:229-284).
THEOREM ToolsAudited == BoundarySpec => []ToolAnswersAreAudited
<1>1. BoundaryInv => ToolAnswersAreAudited
  BY DEF BoundaryInv, ToolInv
<1> QED
  BY <1>1, BoundaryInvInit, BoundaryInvStep, PTL DEF BoundarySpec

\* What operators are told of drafts is true, for any number of requests and
\* drafts and however the Project's options change (service.py:147-179, 291-330).
THEOREM DraftAnswersTrue == BoundarySpec => []DraftAnswersAreTrue
<1>1. BoundaryInv => DraftAnswersAreTrue
  <2> SUFFICES ASSUME BoundaryInv PROVE DraftAnswersAreTrue
    OBVIOUS
  <2>1. DOMAIN drafts = 1 .. Len(drafts)
    BY DEF BoundaryInv, DraftInv, ProjectTypeOK
  <2> QED
    BY <2>1 DEF BoundaryInv, DraftInv, ClaimSound, OneMaker, DraftAnswersAreTrue
<1> QED
  BY <1>1, BoundaryInvInit, BoundaryInvStep, PTL DEF BoundarySpec

\* A priority that the Project never offered leaves no draft behind
\* (service.py:155-166).
THEOREM UnsupportedMakesNothing == BoundarySpec => []UnsupportedPriorityMakesNothing
<1>1. BoundaryInv => UnsupportedPriorityMakesNothing
  BY DEF BoundaryInv, DraftInv
<1> QED
  BY <1>1, BoundaryInvInit, BoundaryInvStep, PTL DEF BoundarySpec
=============================================================================
