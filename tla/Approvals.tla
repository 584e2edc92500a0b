------------------------------ MODULE Approvals ------------------------------
(***************************************************************************)
(* The permission gate of the Retcon core, translated from                 *)
(* src/crates/retcon-permissions/src/engine.rs: server.rs asks check_rpc   *)
(* before it runs a protected method, and the user answers with            *)
(* approval.decide.  Both are several statements on the approvals and      *)
(* permission_rules tables without a transaction, and connections run them *)
(* at the same time.  Methods that need no approval and the development    *)
(* bypass are not in the model.                                            *)
(*                                                                         *)
(* A request is known by its fingerprint, a hash of the method and the     *)
(* parameters; the project it belongs to is looked up anew for each call.  *)
(***************************************************************************)
EXTENDS Naturals, Sequences

CONSTANTS
  Clients,        \* RPC connections
  Fingerprints,   \* requests, told apart by method and parameters
  Methods,        \* the methods of those requests
  MethodOf,       \* the method of each request
  NewRules,       \* the rules clients make
  Projects,       \* identities of projects
  NoProject,      \* None where a project is optional
  Homes,          \* the projects the parameters of each request may lead to
  Choices,        \* what callers of approval.decide ask for
  NoRequest,      \* the request of a connection that has none
  MaxApprovals,   \* bound: how many approvals are asked for
  MaxRules        \* bound: how many rules there are at a time

ASSUME RequestAssumption == MethodOf \in [Fingerprints -> Methods]
ASSUME HomesAssumption == Homes \in [Fingerprints -> SUBSET (Projects \cup {NoProject})]
ASSUME NullAssumption == NoProject \notin Projects /\ NoRequest \notin Fingerprints
ASSUME BoundAssumption == MaxApprovals \in Nat /\ MaxRules \in Nat

VARIABLES
  approvals,   \* the rows of the table approvals, by requested_at
  rules,       \* the rules in force, by created_at
  owner,       \* the project the parameters of a request lead to
  call         \* the request each connection waits for

vars == <<approvals, rules, owner, call>>

-----------------------------------------------------------------------------
(***************************************************************************)
(* State.                                                                  *)
(***************************************************************************)

Ids == 1..MaxApprovals
NoApproval == 0

ProjectOrNone == Projects \cup {NoProject}
Decisions == {"approved", "denied"}
RememberScope == {"once", "session", "always"}

\* author, the connection whose request asked for the approval, and uses, the
\* number of calls it has let through, are history.
Approval ==
  [status: {"pending", "approved", "denied", "consumed"},
   fingerprint: Fingerprints, project: ProjectOrNone,
   remember: RememberScope, author: Clients, uses: Nat]

\* origin, the approval a rule was made from, is history.
Rule == [effect: {"allow", "deny"}, project: ProjectOrNone,
         methods: SUBSET Methods, origin: Ids \cup {NoApproval}]

\* decision, remember and project of an approval.decide.  How long a denial is
\* remembered and the project of what makes no rule are never looked at.
Choice == [decision: {"approved"}, remember: {"once", "session"}, project: {NoProject}]
     \cup [decision: {"approved"}, remember: {"always"}, project: ProjectOrNone]
     \cup [decision: {"denied"}, remember: {"once"}, project: {NoProject}]

ASSUME OfferedAssumption ==
  /\ Choices \subseteq Choice
  /\ NewRules \subseteq {rule \in Rule : rule.origin = NoApproval}

\* The points of check_rpc, of decide, and of a method that was let through.
CheckPoints == {"rules", "presented", "consumePresented", "find", "consumeFound",
                "pending", "create"}
DecidePoints == {"decide", "remember"}
Points == CheckPoints \cup DecidePoints \cup {"idle", "allowed"}

\* presented is the approvalId of the parameters, approval the one that was
\* found or is being decided.
Call == [pc: Points, fingerprint: Fingerprints \cup {NoRequest}, project: ProjectOrNone,
         presented: Ids \cup {NoApproval}, approval: Ids \cup {NoApproval},
         decision: Decisions, remember: RememberScope]

Idle == [pc |-> "idle", fingerprint |-> NoRequest, project |-> NoProject,
         presented |-> NoApproval, approval |-> NoApproval,
         decision |-> "denied", remember |-> "once"]

TypeOK ==
  /\ approvals \in Seq(Approval) /\ Len(approvals) <= MaxApprovals
  /\ rules \in Seq(Rule)
  /\ owner \in [Fingerprints -> ProjectOrNone]
  /\ call \in [Clients -> Call]

Init ==
  /\ approvals = <<>>
  /\ rules = <<>>
  /\ owner \in [Fingerprints -> ProjectOrNone]
  /\ \A f \in Fingerprints : owner[f] \in Homes[f]
  /\ call = [c \in Clients |-> Idle]

-----------------------------------------------------------------------------
(***************************************************************************)
(* Helpers.                                                                *)
(***************************************************************************)

Rows == DOMAIN approvals

At(c, p) == call[c].pc = p

Goto(c, p) == call' = [call EXCEPT ![c].pc = p]

\* check_rpc goes on to p with the approval a.
GotoWith(c, p, a) == call' = [call EXCEPT ![c].pc = p, ![c].approval = a]

\* The presented approval is of no use; check_rpc looks for others.
Forget(c) ==
  call' = [call EXCEPT ![c].pc = "find", ![c].presented = NoApproval, ![c].approval = NoApproval]

\* A rule lets the call through.
Pass(c) == call' = [call EXCEPT ![c] = [Idle EXCEPT !.pc = "allowed"]]

\* The response is sent: the method has run, or permission is denied.
Return(c) == call' = [call EXCEPT ![c] = Idle]

\* evaluate_rules: the rules that concern a request, of which the first counts.
Matching(f, p) ==
  {i \in DOMAIN rules : /\ rules[i].project \in {p, NoProject}
                        /\ MethodOf[f] \in rules[i].methods}

FirstMatching(i, f, p) ==
  /\ i \in Matching(f, p)
  /\ \A j \in Matching(f, p) : i <= j

\* Mutation of ProjectMatches: the project is not compared.
AnyProject(a, p) == TRUE

\* approval_project_matches
ProjectMatches(a, p) == approvals[a].project = p

\* approval_matches and approval_project_matches, for the presented approval.
Presentable(c, a) ==
  /\ approvals[a].status = "approved"
  /\ approvals[a].fingerprint = call[c].fingerprint
  /\ ProjectMatches(a, call[c].project)

\* find_approved_by_fingerprint takes one of these, the one with the largest
\* decided_at: milliseconds of a clock that may be set, so any may be it.
ApprovedOnce(f) ==
  {a \in Rows : /\ approvals[a].status = "approved"
                /\ approvals[a].remember = "once"
                /\ approvals[a].fingerprint = f}

\* find_pending_by_fingerprint
PendingFor(f) ==
  {a \in Rows : approvals[a].status = "pending" /\ approvals[a].fingerprint = f}

-----------------------------------------------------------------------------
(***************************************************************************)
(* check_rpc.                                                              *)
(***************************************************************************)

\* server.rs looks the project up and calls check_rpc.
Ask(c, f, a) ==
  /\ At(c, "idle")
  /\ call' = [call EXCEPT ![c] = [Idle EXCEPT !.pc = "rules", !.fingerprint = f,
                                              !.project = owner[f], !.presented = a]]
  /\ UNCHANGED <<approvals, rules, owner>>

CheckRules(c) ==
  LET f == call[c].fingerprint
      p == call[c].project
  IN /\ At(c, "rules")
     /\ \/ /\ Matching(f, p) = {}
           /\ Goto(c, IF call[c].presented = NoApproval THEN "find" ELSE "presented")
        \/ \E i \in DOMAIN rules :
             /\ FirstMatching(i, f, p)
             /\ IF rules[i].effect = "allow" THEN Pass(c) ELSE Return(c)
     /\ UNCHANGED <<approvals, rules, owner>>

\* An approvalId that does not fit is ignored, as one without a row would be.
CheckPresented(c) ==
  LET a == call[c].presented
  IN /\ At(c, "presented")
     /\ IF Presentable(c, a)
        THEN GotoWith(c, "consumePresented", a)
        ELSE Forget(c)
     /\ UNCHANGED <<approvals, rules, owner>>

FindApproved(c) ==
  LET f == call[c].fingerprint
  IN /\ At(c, "find")
     /\ \/ /\ ApprovedOnce(f) = {}
           /\ Goto(c, "pending")
        \/ \E a \in ApprovedOnce(f) :
             IF ProjectMatches(a, call[c].project)
             THEN GotoWith(c, "consumeFound", a)
             ELSE Goto(c, "pending")
     /\ UNCHANGED <<approvals, rules, owner>>

\* Mutation of Consume: the update does not ask for the status.
ConsumeAlways(c) ==
  LET a == call[c].approval
  IN /\ call[c].pc \in {"consumePresented", "consumeFound"}
     /\ approvals' = [approvals EXCEPT ![a].status = "consumed", ![a].uses = @ + 1]
     /\ Goto(c, "allowed")
     /\ UNCHANGED <<rules, owner>>

\* consume_approved: one update that takes the row from approved to consumed.
\* Whoever comes too late looks for another one.
Consume(c) ==
  LET a == call[c].approval
  IN /\ call[c].pc \in {"consumePresented", "consumeFound"}
     /\ IF approvals[a].status = "approved"
        THEN /\ approvals' = [approvals EXCEPT ![a].status = "consumed", ![a].uses = @ + 1]
             /\ Goto(c, "allowed")
        ELSE /\ IF At(c, "consumeFound") THEN GotoWith(c, "pending", NoApproval) ELSE Forget(c)
             /\ UNCHANGED approvals
     /\ UNCHANGED <<rules, owner>>

\* Mutation of FindPending: what is already asked for is asked for again.
AskAgain(c) ==
  /\ At(c, "pending")
  /\ Goto(c, "create")
  /\ UNCHANGED <<approvals, rules, owner>>

\* A request that is asked for already is denied with the id of the approval.
FindPending(c) ==
  /\ At(c, "pending")
  /\ IF PendingFor(call[c].fingerprint) = {} THEN Goto(c, "create") ELSE Return(c)
  /\ UNCHANGED <<approvals, rules, owner>>

\* The table takes the row while the bound allows it.
Create(c) ==
  /\ At(c, "create")
  /\ Len(approvals) < MaxApprovals
  /\ approvals' = Append(approvals,
       [status |-> "pending", fingerprint |-> call[c].fingerprint,
        project |-> call[c].project, remember |-> "once", author |-> c, uses |-> 0])
  /\ Return(c)
  /\ UNCHANGED <<rules, owner>>

\* "approval could not be recorded", as for a session that does not exist.
CreateFails(c) ==
  /\ At(c, "create")
  /\ Return(c)
  /\ UNCHANGED <<approvals, rules, owner>>

\* The method has run.
Answer(c) ==
  /\ At(c, "allowed")
  /\ Return(c)
  /\ UNCHANGED <<approvals, rules, owner>>

-----------------------------------------------------------------------------
(***************************************************************************)
(* approval.decide and the rules.                                          *)
(***************************************************************************)

\* decide reads the row; one that is not pending is refused.
Decide(c, a, choice) ==
  /\ At(c, "idle")
  /\ approvals[a].status = "pending"
  /\ call' = [call EXCEPT ![c] =
       [Idle EXCEPT !.pc = "decide", !.approval = a, !.decision = choice.decision,
                    !.remember = choice.remember, !.project = choice.project]]
  /\ UNCHANGED <<approvals, rules, owner>>

\* Mutation of DecideWrite: the update does not ask for the status.
DecideOver(c) ==
  LET a == call[c].approval
      d == call[c].decision
      r == call[c].remember
  IN /\ At(c, "decide")
     /\ approvals' = [approvals EXCEPT ![a].status = d, ![a].remember = r]
     /\ IF d = "approved" /\ r = "always" THEN Goto(c, "remember") ELSE Return(c)
     /\ UNCHANGED <<rules, owner>>

\* An update of a row that is still pending.  That no row was updated, because
\* another decision was faster, is not looked at.
DecideWrite(c) ==
  LET a == call[c].approval
      d == call[c].decision
      r == call[c].remember
  IN /\ At(c, "decide")
     /\ IF approvals[a].status = "pending"
        THEN approvals' = [approvals EXCEPT ![a].status = d, ![a].remember = r]
        ELSE UNCHANGED approvals
     /\ IF d = "approved" /\ r = "always" THEN Goto(c, "remember") ELSE Return(c)
     /\ UNCHANGED <<rules, owner>>

\* remembered_project_id: the project of the approval, or else the caller's.
RememberedProject(c) ==
  LET p == approvals[call[c].approval].project
  IN IF p # NoProject THEN p ELSE call[c].project

\* The rule for the method of an approval that is remembered always.
Remember(c) ==
  LET a == call[c].approval
  IN /\ At(c, "remember")
     /\ Len(rules) < MaxRules
     /\ rules' = Append(rules, [effect |-> "allow", project |-> RememberedProject(c),
                                methods |-> {MethodOf[approvals[a].fingerprint]},
                                origin |-> a])
     /\ Return(c)
     /\ UNCHANGED <<approvals, owner>>

\* The rule is not recorded; the decision stays.
RememberFails(c) ==
  /\ At(c, "remember")
  /\ Return(c)
  /\ UNCHANGED <<approvals, rules, owner>>

\* permission.rules.create
CreateRule(rule) ==
  /\ Len(rules) < MaxRules
  /\ rules' = Append(rules, rule)
  /\ UNCHANGED <<approvals, owner, call>>

\* permission.rules.delete, or expires_at has come.
DropRule(i) ==
  /\ rules' = [j \in 1..(Len(rules) - 1) |-> IF j < i THEN rules[j] ELSE rules[j + 1]]
  /\ UNCHANGED <<approvals, owner, call>>

-----------------------------------------------------------------------------
(***************************************************************************)
(* Around the engine, and the specification.                               *)
(***************************************************************************)

\* permission_project_id: a path is imported as a project, or cannot be resolved
\* for a while, and the same parameters lead elsewhere.
Reown(f, p) ==
  /\ p \in Homes[f]
  /\ owner' = [owner EXCEPT ![f] = p]
  /\ UNCHANGED <<approvals, rules, call>>

\* The core is killed; the tables stay, the calls are gone.
Crash ==
  /\ call' = [c \in Clients |-> Idle]
  /\ UNCHANGED <<approvals, rules, owner>>

CheckStep(c) ==
  \/ CheckRules(c) \/ CheckPresented(c) \/ FindApproved(c) \/ Consume(c)
  \/ FindPending(c) \/ Create(c) \/ CreateFails(c) \/ Answer(c)

DecideStep(c) == DecideWrite(c) \/ Remember(c) \/ RememberFails(c)

Next ==
  \/ \E c \in Clients :
       \/ \E f \in Fingerprints, a \in Rows \cup {NoApproval} : Ask(c, f, a)
       \/ \E a \in Rows, choice \in Choices : Decide(c, a, choice)
       \/ CheckStep(c)
       \/ DecideStep(c)
  \/ \E rule \in NewRules : CreateRule(rule)
  \/ \E i \in DOMAIN rules : DropRule(i)
  \/ \E f \in Fingerprints, p \in ProjectOrNone : Reown(f, p)
  \/ Crash

Spec == Init /\ [][Next]_vars

-----------------------------------------------------------------------------
(***************************************************************************)
(* Properties.                                                             *)
(***************************************************************************)

\* An approval lets one call through at most, and is consumed by it, although
\* two calls may have found the same approved row (consume_approved).
ApprovalsAreUsedOnce ==
  \A a \in Rows : approvals[a].uses = IF approvals[a].status = "consumed" THEN 1 ELSE 0

\* A call that an approval has let through is the one that was approved: the
\* same request, in the project it belonged to when it was asked for, and by
\* its id or else by an approval that was given for once.
GrantsAreExact ==
  \A c \in Clients : At(c, "allowed") /\ call[c].approval # NoApproval =>
    LET a == call[c].approval
    IN /\ approvals[a].status = "consumed"
       /\ approvals[a].fingerprint = call[c].fingerprint
       /\ approvals[a].project = call[c].project
       /\ approvals[a].remember = "once" \/ call[c].presented = a

\* Looking for a pending approval and asking for one are two statements; still
\* a connection never leaves two pending approvals for one request.
NoConnectionAsksTwice ==
  \A a, b \in Rows :
    /\ approvals[a].status = "pending" /\ approvals[b].status = "pending"
    /\ approvals[a].fingerprint = approvals[b].fingerprint
    /\ approvals[a].author = approvals[b].author
    => a = b

\* A rule made from an approval is for its method and for its project: "it
\* must never redirect a project-owned request to a different project"
\* (ApprovalEngine::decide).
RememberedRulesStayInTheirProject ==
  \A i \in DOMAIN rules : rules[i].origin # NoApproval =>
    LET a == rules[i].origin
    IN /\ rules[i].methods = {MethodOf[approvals[a].fingerprint]}
       /\ approvals[a].project \in {rules[i].project, NoProject}

Life == INSTANCE ApprovalLife WITH
  Ids <- Ids,
  status <- [a \in Ids |-> IF a \in Rows THEN approvals[a].status ELSE "absent"]

\* An approval is decided once and a decision is final, although decide reads
\* and writes in two statements and connections decide at the same time.
DecisionsAreFinal == Life!Spec

\* "How long an approved decision should be remembered as a rule." (decision.rs):
\* a rule is made from an approval that was approved, to be remembered always.
RulesComeFromApprovals ==
  \A i \in DOMAIN rules : rules[i].origin # NoApproval =>
    /\ approvals[rules[i].origin].status \in {"approved", "consumed"}
    /\ approvals[rules[i].origin].remember = "always"

=============================================================================
