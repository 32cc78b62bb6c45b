------------------------------ MODULE ApiBoundary ------------------------------
(***************************************************************************)
(* What authenticated requests reach beyond the platform: the web tools    *)
(* behind the MCP endpoint (web_research/mcp_host.py) and the drafts of    *)
(* one GitHub Project (github_projects/service.py), in composition with    *)
(* the identities that authorize them.                                     *)
(*                                                                         *)
(* Every call to GitHub or to a tool is a step.  GitHub may refuse a call, *)
(* or apply it and lose the answer; whoever manages the Project changes    *)
(* the priorities it offers at any time.                                   *)
(***************************************************************************)
EXTENDS Identity, Sequences

CONSTANTS
  Priorities,    \* priorities requests may name
  Offered        \* those the Project may ever offer

ASSUME ProjectAssumption == Offered \subseteq Priorities /\ "none" \notin Priorities

VARIABLES
  options,      \* the Project's priorities: external
  drafts,       \* the Project's draft items: external
  claimed,      \* drafts and priorities reported to operators
  toolAudit,    \* mcp_tool_events of each outcome
  toolAnswers   \* answers with each outcome

project == <<options, drafts>>
toolVars == <<toolAudit, toolAnswers>>
boundaryVars == <<identityVars, project, claimed, toolVars>>

-----------------------------------------------------------------------------
(* The MCP endpoint.                                                        *)

Outcomes == {"succeeded", "failed", "denied"}

CallTool(p, cred) ==
  /\ Ask(p, Request("tool", "authenticate", cred, "none"))
  /\ UNCHANGED <<accounts, audit, history, project, claimed, toolVars>>

\* A tool runs and succeeds or fails, is denied by the policy before it runs, or
\* raises an error that the host does not know.
RunTool(p) ==
  /\ At(p, "tool")
  /\ \/ \E outcome \in Outcomes :
          req' = [req EXCEPT ![p].at = "record", ![p].outcome = outcome]
     \/ Answer(p)
  /\ UNCHANGED <<accounts, audit, history, asked, project, claimed, toolVars>>

Recorded(outcome) == toolAudit' = [toolAudit EXCEPT ![outcome] = @ + 1]

\* Mutant: the answer is the outcome, recorded or not.
UnrecordedAnyway(outcome) == toolAnswers' = [toolAnswers EXCEPT ![outcome] = @ + 1]

\* An outcome is not returned when recording it raises, before or after its row
\* is stored.
Unrecorded(outcome) == UNCHANGED toolAnswers

RecordOutcome(p) ==
  /\ At(p, "record") /\ Answer(p)
  /\ \/ /\ Recorded(req[p].outcome)
        /\ toolAnswers' = [toolAnswers EXCEPT ![req[p].outcome] = @ + 1]
     \/ /\ Unrecorded(req[p].outcome)
        /\ Recorded(req[p].outcome) \/ UNCHANGED toolAudit
  /\ UNCHANGED <<accounts, audit, history, asked, project, claimed>>

-----------------------------------------------------------------------------
(* The GitHub Project.                                                      *)

CreateDraft(p, cred, priority) ==
  /\ Ask(p, [Request("draft", "authenticate", cred, "none") EXCEPT !.want = priority])
  /\ UNCHANGED <<accounts, audit, history, project, claimed, toolVars>>

UpdatePriority(p, cred, d, priority) ==
  /\ Ask(p, [Request("update", "authenticate", cred, "none")
               EXCEPT !.want = priority, !.draft = d])
  /\ UNCHANGED <<accounts, audit, history, project, claimed, toolVars>>

\* The first call: the Priority field, when a priority is asked for.
BeginProjectCall(p) ==
  /\ At(p, "draft") \/ At(p, "update")
  /\ Goto(p, IF req[p].want = "none" THEN "post" ELSE "field")
  /\ UNCHANGED <<accounts, audit, history, asked, project, claimed, toolVars>>

\* Mutant: GitHub is left to judge the priority.
SupportedAlways(priority) == TRUE

Supported(priority) == priority \in options

PriorityField(p) ==
  /\ At(p, "field")
  /\ \/ Answer(p)
     \/ Supported(req[p].want) /\ Goto(p, IF req[p].kind = "draft" THEN "post" ELSE "set")
  /\ UNCHANGED <<accounts, audit, history, asked, project, claimed, toolVars>>

\* Mutant: a new draft is taken to have its priority.
NewDraftComplete(priority) == Append(drafts, [want |-> priority, given |-> {priority}])

NewDraft(priority) == Append(drafts, [want |-> priority, given |-> {}])

PostDraft(p) ==
  /\ At(p, "post")
  /\ \/ /\ drafts' = NewDraft(req[p].want)
        /\ \/ req' = [req EXCEPT ![p].draft = Len(drafts) + 1,
                                 ![p].at = IF req[p].want = "none" THEN "event" ELSE "set"]
           \/ Answer(p)
     \/ Answer(p) /\ UNCHANGED drafts
  /\ UNCHANGED <<accounts, audit, history, asked, options, claimed, toolVars>>

\* Mutant: the errors in GitHub's answer are not looked at.
AfterRejectionUnseen(p) == Goto(p, "event")

AfterRejection(p) == Answer(p)

\* _set_priority: the Project is read, then the field is set by the option's id,
\* which GitHub rejects when it is no longer offered.
SetPriority(p) ==
  /\ At(p, "set")
  /\ \/ /\ req[p].want \in options
        /\ drafts' = [drafts EXCEPT ![req[p].draft].given = @ \cup {req[p].want}]
        /\ Goto(p, "event") \/ Answer(p)
     \/ AfterRejection(p) /\ UNCHANGED drafts
     \/ Answer(p) /\ UNCHANGED drafts
  /\ UNCHANGED <<accounts, audit, history, asked, options, claimed, toolVars>>

ChangeOptions ==
  /\ options' \in SUBSET Offered /\ options' # options
  /\ UNCHANGED <<identityVars, drafts, claimed, toolVars>>

-----------------------------------------------------------------------------

BoundaryInit ==
  /\ IdentityInit
  /\ options \in SUBSET Offered /\ drafts = <<>> /\ claimed = {}
  /\ toolAudit = [o \in Outcomes |-> 0]
  /\ toolAnswers = [o \in Outcomes |-> 0]

\* What the operator is told of a draft when its request is answered.
Claim(p) ==
  claimed' = IF At(p, "event") /\ req[p].kind \in {"draft", "update"} /\ spoiled' = spoiled
             THEN claimed \cup {[kind |-> req[p].kind, draft |-> req[p].draft,
                                 priority |-> req[p].want]}
             ELSE claimed

Rest == (\A p \in Procs : At(p, "idle")) /\ UNCHANGED boundaryVars

BoundaryNext ==
  \/ \E p \in Procs :
       \/ (IdentityStep(p) \/ IdentityRequest(p)) /\ Claim(p) /\ UNCHANGED <<project, toolVars>>
       \/ RunTool(p) \/ RecordOutcome(p)
       \/ BeginProjectCall(p) \/ PriorityField(p) \/ PostDraft(p) \/ SetPriority(p)
       \/ \E cred \in Issued :
            \/ CallTool(p, cred)
            \/ \E priority \in Priorities \cup {"none"} : CreateDraft(p, cred, priority)
            \/ \E d \in DOMAIN drafts, priority \in Priorities :
                 UpdatePriority(p, cred, d, priority)
  \/ (\E t \in Tokens : SessionExpires(t)) /\ UNCHANGED <<project, claimed, toolVars>>
  \/ ChangeOptions \/ Rest

BoundarySpec == BoundaryInit /\ [][BoundaryNext]_boundaryVars

-----------------------------------------------------------------------------
(* Properties.                                                              *)

BoundaryTypeOK ==
  /\ IdentityTypeOK
  /\ options \subseteq Offered
  /\ drafts \in Seq([want : Priorities \cup {"none"}, given : SUBSET Offered])
  /\ toolAudit \in [Outcomes -> Nat] /\ toolAnswers \in [Outcomes -> Nat]

\* An agent that receives a tool's result, or the reason for none, finds it in
\* the audit: an outcome that was not recorded is never returned, although the
\* tool has run by then (docs/governed-web-research.md:29-32).
ToolAnswersAreAudited == \A o \in Outcomes : toolAnswers[o] <= toolAudit[o]

\* What an operator is told of a draft is true, although creating a draft and
\* setting its priority are separate calls, between which the Project's options
\* and the draft may change: the draft exists, no other create made it, and it
\* was given the priority.
DraftAnswersAreTrue ==
  /\ \A c \in claimed : /\ c.draft \in DOMAIN drafts
                        /\ c.priority # "none" => c.priority \in drafts[c.draft].given
  /\ \A c \in claimed : c.kind = "draft" => drafts[c.draft].want = c.priority
  /\ \A c, d \in claimed : c.kind = "draft" /\ d.kind = "draft" /\ c.draft = d.draft => c = d

\* A priority that the Project never offered makes no draft, not even one that
\* is left behind by a failed request.
UnsupportedPriorityMakesNothing ==
  \A i \in DOMAIN drafts : drafts[i].want \in Offered \cup {"none"}
=============================================================================
