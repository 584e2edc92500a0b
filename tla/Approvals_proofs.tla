-------------------------- MODULE Approvals_proofs --------------------------
(***************************************************************************)
(* Proofs about Approvals, for any number of connections, requests,        *)
(* projects and approvals.  A step of the engine changes one row and one   *)
(* call at most; RowsMove says what it may do to the rows, and the lemmas  *)
(* about it carry the invariant of every other call over.                  *)
(***************************************************************************)
EXTENDS Approvals, TLAPS, SequenceTheorems

-----------------------------------------------------------------------------
(***************************************************************************)
(* The inductive invariant.                                                *)
(***************************************************************************)

ConsumePoints == {"consumePresented", "consumeFound"}

\* The approval a call relies on is for its request and its project, and it was
\* found as one for once or presented.
Fits(c) ==
  LET a == call[c].approval
  IN /\ approvals[a].fingerprint = call[c].fingerprint
     /\ approvals[a].project = call[c].project
     /\ approvals[a].remember = "once" \/ call[c].presented = a

\* A call names approvals that have rows, relies on one that fits it and has been
\* approved, and asks for an approval only if it has no pending one.
CallOK(c) ==
  /\ call[c].pc \in CheckPoints => call[c].fingerprint \in Fingerprints
  /\ call[c].presented \in Rows \cup {NoApproval}
  /\ call[c].approval \in Rows \cup {NoApproval}
  /\ call[c].pc = "presented" => call[c].presented \in Rows
  /\ call[c].pc \in ConsumePoints \cup DecidePoints => call[c].approval \in Rows
  /\ call[c].pc \in ConsumePoints =>
       Fits(c) /\ approvals[call[c].approval].status \in {"approved", "consumed"}
  /\ call[c].pc = "allowed" /\ call[c].approval # NoApproval =>
       Fits(c) /\ approvals[call[c].approval].status = "consumed"
  /\ call[c].pc = "create" =>
       \A a \in Rows : approvals[a].status = "pending" /\ approvals[a].author = c =>
         approvals[a].fingerprint # call[c].fingerprint

\* A rule names an approval that has a row, and is for its method and project.
RulesInv ==
  \A i \in DOMAIN rules : rules[i].origin # NoApproval =>
    /\ rules[i].origin \in Rows
    /\ rules[i].methods = {MethodOf[approvals[rules[i].origin].fingerprint]}
    /\ approvals[rules[i].origin].project \in {rules[i].project, NoProject}

Inv ==
  /\ TypeOK
  /\ \A c \in Clients : CallOK(c)
  /\ ApprovalsAreUsedOnce
  /\ NoConnectionAsksTwice
  /\ RulesInv

-----------------------------------------------------------------------------
(***************************************************************************)
(* What a step does to the rows and to the calls.                          *)
(***************************************************************************)

\* Rows stay, with request, project and author; a decision stays as it is, and
\* nothing becomes pending again.
RowsMove ==
  \A a \in Rows :
    /\ a \in Rows'
    /\ approvals'[a].fingerprint = approvals[a].fingerprint
    /\ approvals'[a].project = approvals[a].project
    /\ approvals'[a].author = approvals[a].author
    /\ approvals'[a].status = "pending" => approvals[a].status = "pending"
    /\ approvals[a].status # "pending" => approvals'[a].remember = approvals[a].remember
    /\ approvals[a].status = "approved" => approvals'[a].status \in {"approved", "consumed"}
    /\ approvals[a].status = "consumed" => approvals'[a].status = "consumed"

Others(c) == \A d \in Clients : d # c => call'[d] = call[d]

SameRequest(c) ==
  /\ call'[c].fingerprint = call[c].fingerprint
  /\ call'[c].project = call[c].project

\* The rows are numbered from 1.
LEMMA RowNumbers ==
  ASSUME TypeOK
  PROVE  /\ Len(approvals) \in Nat
         /\ Rows = 1..Len(approvals)
         /\ Rows \subseteq Ids
         /\ NoApproval \notin Rows
         /\ \A a \in Rows : approvals[a] \in Approval
<1>1. approvals \in Seq(Approval) /\ Len(approvals) <= MaxApprovals
  BY DEF TypeOK
<1>2. Len(approvals) \in Nat /\ DOMAIN approvals = 1..Len(approvals)
  BY <1>1, LenProperties
<1>3. \A a \in 1..Len(approvals) : approvals[a] \in Approval
  BY <1>1, ElementOfSeq
<1> QED
  BY <1>1, <1>2, <1>3, BoundAssumption DEF Rows, Ids, NoApproval

\* Rows that stay as they are move, and keep what holds of rows.
LEMMA StillRows ==
  ASSUME Inv, approvals' = approvals
  PROVE  RowsMove /\ ApprovalsAreUsedOnce' /\ NoConnectionAsksTwice'
  BY DEF Inv, RowsMove, Rows, ApprovalsAreUsedOnce, NoConnectionAsksTwice

\* A call that does nothing stays well while the rows move and nobody asks for it.
LEMMA CallKept ==
  ASSUME Inv, RowsMove, NEW d \in Clients, call'[d] = call[d],
         \A a \in Rows' : a \notin Rows => approvals'[a].author # d
  PROVE  CallOK(d)'
<1>1. CallOK(d)
  BY DEF Inv
<1>2. Fits(d) /\ call[d].approval \in Rows /\ approvals[call[d].approval].status # "pending" => Fits(d)'
  BY DEF Fits, RowsMove
<1>3. /\ call[d].pc = "create" =>
       \A a \in Rows' : approvals'[a].status = "pending" /\ approvals'[a].author = d =>
         approvals'[a].fingerprint # call[d].fingerprint
  BY <1>1 DEF CallOK, RowsMove
<1> QED
  BY <1>1, <1>2, <1>3 DEF CallOK, RowsMove

\* Rules that stay keep what holds of them while the rows move.
LEMMA RulesKept ==
  ASSUME Inv, RowsMove, rules' = rules
  PROVE  RulesInv'
  BY DEF Inv, RulesInv, RowsMove

\* A step that changes one call only.
LEMMA QuietStep ==
  ASSUME Inv, NEW c \in Clients, UNCHANGED <<approvals, rules, owner>>,
         call' \in [Clients -> Call], Others(c), CallOK(c)'
  PROVE  Inv'
<1>1. RowsMove /\ ApprovalsAreUsedOnce' /\ NoConnectionAsksTwice'
  BY StillRows
<1>2. RulesInv'
  BY <1>1, RulesKept
<1>3. ASSUME NEW d \in Clients PROVE CallOK(d)'
  <2>1. CASE d = c
    BY <2>1
  <2>2. CASE d # c
    BY <1>1, <2>2, CallKept DEF Others, Rows
  <2> QED
    BY <2>1, <2>2
<1>4. TypeOK'
  BY DEF Inv, TypeOK
<1> QED
  BY <1>1, <1>2, <1>3, <1>4 DEF Inv

\* A call keeps its fields when it moves on.
LEMMA CallFields ==
  ASSUME NEW k \in Call, NEW p \in Points
  PROVE  /\ [k EXCEPT !.pc = p] \in Call
         /\ \A a \in Ids \cup {NoApproval} :
              /\ [k EXCEPT !.pc = p, !.approval = a] \in Call
              /\ \A b \in Ids \cup {NoApproval} :
                   [k EXCEPT !.pc = p, !.presented = b, !.approval = a] \in Call
  BY DEF Call

\* The points steps name.
LEMMA PointNames ==
  /\ CheckPoints \subseteq Points /\ DecidePoints \subseteq Points
  /\ ConsumePoints \subseteq CheckPoints
  /\ "idle" \in Points /\ "allowed" \in Points
  BY DEF CheckPoints, DecidePoints, ConsumePoints, Points

\* A call that waits for nothing is one.
LEMMA IdleType == Idle \in Call
  BY NullAssumption DEF Idle, Call, Points, Decisions, RememberScope, ProjectOrNone

\* The effect of Goto.
LEMMA GotoFields ==
  ASSUME TypeOK, NEW c \in Clients, NEW p \in Points, Goto(c, p)
  PROVE  /\ call' \in [Clients -> Call] /\ Others(c)
         /\ call'[c].pc = p
         /\ SameRequest(c)
         /\ call'[c].presented = call[c].presented
         /\ call'[c].approval = call[c].approval
<1>1. call \in [Clients -> Call] /\ call[c] \in Call
  BY DEF TypeOK
<1>2. call' = [call EXCEPT ![c] = [call[c] EXCEPT !.pc = p]]
  BY <1>1 DEF Goto
<1>3. [call[c] EXCEPT !.pc = p] \in Call
  BY <1>1, CallFields
<1>4. call'[c] = [call[c] EXCEPT !.pc = p] /\ Others(c) /\ call' \in [Clients -> Call]
  BY <1>1, <1>2, <1>3 DEF Others
<1> QED
  BY <1>1, <1>4 DEF Call, SameRequest

\* The effect of GotoWith.
LEMMA GotoWithFields ==
  ASSUME TypeOK, NEW c \in Clients, NEW p \in Points, NEW a \in Ids \cup {NoApproval},
         GotoWith(c, p, a)
  PROVE  /\ call' \in [Clients -> Call] /\ Others(c)
         /\ call'[c].pc = p
         /\ SameRequest(c)
         /\ call'[c].presented = call[c].presented
         /\ call'[c].approval = a
<1>1. call \in [Clients -> Call] /\ call[c] \in Call
  BY DEF TypeOK
<1>2. call' = [call EXCEPT ![c] = [call[c] EXCEPT !.pc = p, !.approval = a]]
  BY <1>1 DEF GotoWith
<1>3. [call[c] EXCEPT !.pc = p, !.approval = a] \in Call
  BY <1>1, CallFields
<1>4. call'[c] = [call[c] EXCEPT !.pc = p, !.approval = a]
      /\ Others(c) /\ call' \in [Clients -> Call]
  BY <1>1, <1>2, <1>3 DEF Others
<1> QED
  BY <1>1, <1>4 DEF Call, SameRequest

\* The effect of Forget.
LEMMA ForgetFields ==
  ASSUME TypeOK, NEW c \in Clients, Forget(c)
  PROVE  /\ call' \in [Clients -> Call] /\ Others(c)
         /\ call'[c].pc = "find"
         /\ SameRequest(c)
         /\ call'[c].presented = NoApproval
         /\ call'[c].approval = NoApproval
<1>1. call \in [Clients -> Call] /\ call[c] \in Call
  BY DEF TypeOK
<1> DEFINE k == [call[c] EXCEPT !.pc = "find", !.presented = NoApproval, !.approval = NoApproval]
<1>2. call' = [call EXCEPT ![c] = k]
  BY <1>1 DEF Forget
<1>3. k \in Call
  BY <1>1, CallFields, PointNames DEF CheckPoints
<1>4. call'[c] = k /\ Others(c) /\ call' \in [Clients -> Call]
  <2> HIDE DEF k
  <2> QED
    BY <1>1, <1>2, <1>3 DEF Others
<1> QED
  BY <1>1, <1>4 DEF Call, SameRequest

\* The effect of Return and of Pass: nothing is left of the request.
LEMMA ReturnFields ==
  ASSUME TypeOK, NEW c \in Clients, Return(c) \/ Pass(c)
  PROVE  /\ call' \in [Clients -> Call] /\ Others(c)
         /\ CallOK(c)'
<1>1. call \in [Clients -> Call] /\ Idle \in Call
  BY IdleType DEF TypeOK
<1>2. [Idle EXCEPT !.pc = "allowed"] \in Call
  BY <1>1, CallFields, PointNames
<1>3. call' \in [Clients -> Call] /\ Others(c) /\ call'[c] \in {Idle, [Idle EXCEPT !.pc = "allowed"]}
  BY <1>1, <1>2 DEF Return, Pass, Others
<1>4. /\ call'[c].pc \in {"idle", "allowed"}
      /\ call'[c].presented = NoApproval /\ call'[c].approval = NoApproval
  BY <1>3 DEF Idle
<1> QED
  BY <1>3, <1>4 DEF CallOK, CheckPoints, DecidePoints, ConsumePoints

\* A row that is written keeps its place, and the other rows stay.
LEMMA RowWritten ==
  ASSUME TypeOK, NEW a \in Rows, NEW r \in Approval, approvals' = [approvals EXCEPT ![a] = r]
  PROVE  /\ approvals' \in Seq(Approval) /\ Len(approvals') = Len(approvals)
         /\ Rows' = Rows
         /\ approvals'[a] = r
         /\ \A b \in Rows : b # a => approvals'[b] = approvals[b]
<1>1. approvals \in Seq(Approval) /\ Rows = 1..Len(approvals)
  BY RowNumbers DEF TypeOK
<1>2. /\ approvals' \in Seq(Approval) /\ Len(approvals') = Len(approvals)
      /\ \A b \in 1..Len(approvals) : approvals'[b] = IF b = a THEN r ELSE approvals[b]
  BY <1>1, ExceptSeq
<1>3. DOMAIN approvals' = 1..Len(approvals')
  BY <1>2, LenProperties
<1> QED
  BY <1>1, <1>2, <1>3 DEF Rows

\* The effect of consume_approved on an approved row.
LEMMA ConsumeEffect ==
  ASSUME TypeOK, NEW a \in Rows, approvals[a].status = "approved",
         approvals' = [approvals EXCEPT ![a].status = "consumed", ![a].uses = @ + 1]
  PROVE  /\ TypeOK /\ approvals' \in Seq(Approval) /\ Len(approvals') = Len(approvals)
         /\ Rows' = Rows
         /\ \A b \in Rows : b # a => approvals'[b] = approvals[b]
         /\ approvals'[a].status = "consumed"
         /\ approvals'[a].uses = approvals[a].uses + 1
         /\ approvals'[a].fingerprint = approvals[a].fingerprint
         /\ approvals'[a].project = approvals[a].project
         /\ approvals'[a].author = approvals[a].author
         /\ approvals'[a].remember = approvals[a].remember
<1> DEFINE r == [approvals[a] EXCEPT !.status = "consumed", !.uses = @ + 1]
<1>1. approvals[a] \in Approval /\ a \in DOMAIN approvals
  BY RowNumbers DEF Rows
<1>2. r \in Approval
  BY <1>1 DEF Approval
<1>3. approvals' = [approvals EXCEPT ![a] = r]
  BY <1>1
<1>4. /\ approvals' \in Seq(Approval) /\ Len(approvals') = Len(approvals)
      /\ Rows' = Rows
      /\ approvals'[a] = r
      /\ \A b \in Rows : b # a => approvals'[b] = approvals[b]
  <2> HIDE DEF r
  <2> QED
    BY <1>2, <1>3, RowWritten
<1>5. /\ r.status = "consumed" /\ r.uses = approvals[a].uses + 1
      /\ r.fingerprint = approvals[a].fingerprint
      /\ r.project = approvals[a].project
      /\ r.author = approvals[a].author
      /\ r.remember = approvals[a].remember
  BY <1>1 DEF Approval
<1> QED
  BY <1>4, <1>5

\* The effect of a decision on a pending row.
LEMMA DecideEffect ==
  ASSUME TypeOK, NEW a \in Rows, NEW d \in Decisions, NEW m \in RememberScope,
         approvals' = [approvals EXCEPT ![a].status = d, ![a].remember = m]
  PROVE  /\ approvals' \in Seq(Approval) /\ Len(approvals') = Len(approvals)
         /\ Rows' = Rows
         /\ \A b \in Rows : b # a => approvals'[b] = approvals[b]
         /\ approvals'[a].status = d
         /\ approvals'[a].remember = m
         /\ approvals'[a].uses = approvals[a].uses
         /\ approvals'[a].fingerprint = approvals[a].fingerprint
         /\ approvals'[a].project = approvals[a].project
         /\ approvals'[a].author = approvals[a].author
<1> DEFINE r == [approvals[a] EXCEPT !.status = d, !.remember = m]
<1>1. approvals[a] \in Approval /\ a \in DOMAIN approvals
  BY RowNumbers DEF Rows
<1>2. r \in Approval
  BY <1>1 DEF Approval, Decisions
<1>3. approvals' = [approvals EXCEPT ![a] = r]
  BY <1>1
<1>4. /\ approvals' \in Seq(Approval) /\ Len(approvals') = Len(approvals)
      /\ Rows' = Rows
      /\ approvals'[a] = r
      /\ \A b \in Rows : b # a => approvals'[b] = approvals[b]
  <2> HIDE DEF r
  <2> QED
    BY <1>2, <1>3, RowWritten
<1>5. /\ r.status = d /\ r.remember = m /\ r.uses = approvals[a].uses
      /\ r.fingerprint = approvals[a].fingerprint
      /\ r.project = approvals[a].project
      /\ r.author = approvals[a].author
  BY <1>1 DEF Approval
<1> QED
  BY <1>4, <1>5

\* The effect of a new row.
LEMMA CreateEffect ==
  ASSUME TypeOK, Len(approvals) < MaxApprovals,
         NEW r \in Approval, approvals' = Append(approvals, r)
  PROVE  /\ approvals' \in Seq(Approval) /\ Len(approvals') <= MaxApprovals
         /\ Rows' = Rows \cup {Len(approvals) + 1}
         /\ Len(approvals) + 1 \notin Rows
         /\ approvals'[Len(approvals) + 1] = r
         /\ \A b \in Rows : approvals'[b] = approvals[b]
<1>1. approvals \in Seq(Approval) /\ Rows = 1..Len(approvals) /\ Len(approvals) \in Nat
  BY RowNumbers DEF TypeOK
<1>2. /\ approvals' \in Seq(Approval) /\ Len(approvals') = Len(approvals) + 1
      /\ \A b \in 1..Len(approvals) : approvals'[b] = approvals[b]
      /\ approvals'[Len(approvals) + 1] = r
  BY <1>1, AppendProperties
<1>3. DOMAIN approvals' = 1..Len(approvals')
  BY <1>2, LenProperties
<1> QED
  BY <1>1, <1>2, <1>3, BoundAssumption DEF Rows

-----------------------------------------------------------------------------
(***************************************************************************)
(* The invariant holds.                                                    *)
(***************************************************************************)

\* Nothing is asked for at the beginning.
LEMMA InvInit == Init => Inv
<1> SUFFICES ASSUME Init PROVE Inv
  OBVIOUS
<1>1. TypeOK
  BY EmptySeq, BoundAssumption, HomesAssumption, IdleType DEF Init, TypeOK, ProjectOrNone
<1>2. Rows = {} /\ DOMAIN rules = {}
  BY DEF Init, Rows
<1>3. \A c \in Clients : CallOK(c)
  BY <1>2 DEF Init, Idle, CallOK, CheckPoints, DecidePoints, ConsumePoints
<1> QED
  BY <1>1, <1>2, <1>3 DEF Inv, ApprovalsAreUsedOnce, NoConnectionAsksTwice, RulesInv

\* consume_approved takes the use of a row that is approved, or the call looks on.
LEMMA ConsumeStep ==
  ASSUME Inv, NEW c \in Clients, Consume(c)
  PROVE  Inv' /\ RowsMove
<1> DEFINE a == call[c].approval
<1>1. /\ TypeOK /\ CallOK(c) /\ call[c].pc \in ConsumePoints
      /\ UNCHANGED <<rules, owner>>
  BY DEF Inv, Consume, ConsumePoints
<1>2. a \in Rows /\ a \in Ids /\ call[c].fingerprint \in Fingerprints /\ Fits(c)
  BY <1>1, RowNumbers, PointNames DEF CallOK
<1>3. CASE approvals[a].status = "approved"
  <2>1. /\ approvals' = [approvals EXCEPT ![a].status = "consumed", ![a].uses = @ + 1]
        /\ Goto(c, "allowed")
    BY <1>3 DEF Consume
  <2>2. /\ approvals' \in Seq(Approval) /\ Len(approvals') = Len(approvals)
        /\ Rows' = Rows
        /\ \A b \in Rows : b # a => approvals'[b] = approvals[b]
        /\ approvals'[a].status = "consumed"
        /\ approvals'[a].uses = approvals[a].uses + 1
        /\ approvals'[a].fingerprint = approvals[a].fingerprint
        /\ approvals'[a].project = approvals[a].project
        /\ approvals'[a].author = approvals[a].author
        /\ approvals'[a].remember = approvals[a].remember
    <3> HIDE DEF a
    <3> QED
      BY <1>1, <1>2, <1>3, <2>1, ConsumeEffect
  <2>3. /\ call' \in [Clients -> Call] /\ Others(c) /\ call'[c].pc = "allowed" /\ SameRequest(c)
        /\ call'[c].presented = call[c].presented /\ call'[c].approval = a
    BY <1>1, <2>1, GotoFields, PointNames
  <2> HIDE DEF a
  <2>4. RowsMove
    BY <1>2, <1>3, <2>2 DEF RowsMove
  <2>5. ApprovalsAreUsedOnce'
    BY <1>2, <1>3, <2>2 DEF Inv, ApprovalsAreUsedOnce
  <2>6. NoConnectionAsksTwice'
    BY <1>2, <2>2, <2>4 DEF Inv, NoConnectionAsksTwice, RowsMove
  <2>7. RulesInv'
    BY <1>1, <2>4, RulesKept
  <2>8. CallOK(c)'
    <3>1. Fits(c)'
      BY <1>2, <2>2, <2>3 DEF Fits, SameRequest, a
    <3> QED
      BY <1>1, <1>2, <2>2, <2>3, <3>1
         DEF CallOK, SameRequest, CheckPoints, DecidePoints, ConsumePoints
  <2>9. ASSUME NEW d \in Clients PROVE CallOK(d)'
    BY <2>2, <2>3, <2>4, <2>8, CallKept DEF Others
  <2>10. TypeOK'
    BY <1>1, <2>2, <2>3 DEF TypeOK
  <2> QED
    BY <2>4, <2>5, <2>6, <2>7, <2>9, <2>10 DEF Inv
<1>4. CASE approvals[a].status # "approved"
  <2>1. /\ UNCHANGED <<approvals, rules, owner>>
        /\ GotoWith(c, "pending", NoApproval) \/ Forget(c)
    BY <1>4 DEF Consume
  <2>2. /\ call' \in [Clients -> Call] /\ Others(c) /\ call'[c].pc \in {"find", "pending"}
        /\ SameRequest(c) /\ call'[c].approval = NoApproval
        /\ call'[c].presented \in {NoApproval, call[c].presented}
    BY <1>1, <2>1, GotoWithFields, ForgetFields, PointNames DEF CheckPoints
  <2>3. CallOK(c)'
    BY <1>1, <1>2, <2>1, <2>2 DEF CallOK, Rows, SameRequest, CheckPoints, DecidePoints, ConsumePoints
  <2> QED
    BY <2>1, <2>2, <2>3, QuietStep, StillRows
<1> QED
  BY <1>3, <1>4

\* A decision is written to a pending row, or is too late and changes no row.
LEMMA DecideWriteStep ==
  ASSUME Inv, NEW c \in Clients, DecideWrite(c)
  PROVE  Inv' /\ RowsMove
<1> DEFINE a == call[c].approval
           d == call[c].decision
           m == call[c].remember
<1>1. /\ TypeOK /\ CallOK(c) /\ call[c].pc = "decide"
      /\ UNCHANGED <<rules, owner>>
      /\ Goto(c, "remember") \/ Return(c)
  BY DEF Inv, DecideWrite, At
<1>2. a \in Rows
  BY <1>1 DEF CallOK, DecidePoints
<1>3. d \in Decisions /\ m \in RememberScope
  BY <1>1 DEF TypeOK, Call
<1>4. call' \in [Clients -> Call] /\ Others(c)
  BY <1>1, GotoFields, ReturnFields, PointNames DEF DecidePoints
<1>5. Rows' = Rows => CallOK(c)'
  <2>1. CASE Goto(c, "remember")
    <3>1. /\ call'[c].pc = "remember"
          /\ call'[c].presented = call[c].presented /\ call'[c].approval = a
      BY <1>1, <2>1, GotoFields, PointNames DEF DecidePoints
    <3> QED
      BY <1>1, <1>2, <3>1 DEF CallOK, CheckPoints, DecidePoints, ConsumePoints
  <2>2. CASE Return(c)
    BY <1>1, <2>2, ReturnFields
  <2> QED
    BY <1>1, <2>1, <2>2
<1>6. CASE approvals[a].status = "pending"
  <2>1. approvals' = [approvals EXCEPT ![a].status = d, ![a].remember = m]
    BY <1>6 DEF DecideWrite
  <2>2. /\ approvals' \in Seq(Approval) /\ Len(approvals') = Len(approvals)
        /\ Rows' = Rows
        /\ \A b \in Rows : b # a => approvals'[b] = approvals[b]
        /\ approvals'[a].status = d
        /\ approvals'[a].remember = m
        /\ approvals'[a].uses = approvals[a].uses
        /\ approvals'[a].fingerprint = approvals[a].fingerprint
        /\ approvals'[a].project = approvals[a].project
        /\ approvals'[a].author = approvals[a].author
    <3> HIDE DEF a, d, m
    <3> QED
      BY <1>1, <1>2, <1>3, <2>1, DecideEffect
  <2> HIDE DEF a, d, m
  <2>3. RowsMove
    BY <1>2, <1>3, <1>6, <2>2 DEF RowsMove, Decisions
  <2>4. ApprovalsAreUsedOnce'
    BY <1>2, <1>3, <1>6, <2>2 DEF Inv, ApprovalsAreUsedOnce, Decisions
  <2>5. NoConnectionAsksTwice'
    BY <1>2, <2>2, <2>3 DEF Inv, NoConnectionAsksTwice, RowsMove
  <2>6. RulesInv'
    BY <1>1, <2>3, RulesKept
  <2>7. ASSUME NEW e \in Clients PROVE CallOK(e)'
    BY <1>4, <1>5, <2>2, <2>3, CallKept DEF Others
  <2>8. TypeOK'
    BY <1>1, <1>4, <2>2 DEF TypeOK
  <2> QED
    BY <2>3, <2>4, <2>5, <2>6, <2>7, <2>8 DEF Inv
<1>7. CASE approvals[a].status # "pending"
  <2>1. UNCHANGED <<approvals, rules, owner>>
    BY <1>1, <1>7 DEF DecideWrite
  <2> QED
    BY <1>4, <1>5, <2>1, QuietStep, StillRows DEF Rows
<1> QED
  BY <1>6, <1>7

\* A new row is the only pending one its connection asked for.
LEMMA CreateStep ==
  ASSUME Inv, NEW c \in Clients, Create(c)
  PROVE  Inv' /\ RowsMove
<1> DEFINE r == [status |-> "pending", fingerprint |-> call[c].fingerprint,
                 project |-> call[c].project, remember |-> "once", author |-> c, uses |-> 0]
           n == Len(approvals) + 1
<1>1. /\ TypeOK /\ CallOK(c) /\ call[c].pc = "create" /\ Len(approvals) < MaxApprovals
      /\ approvals' = Append(approvals, r)
      /\ Return(c) /\ UNCHANGED <<rules, owner>>
  BY DEF Inv, Create, At
<1>2. r \in Approval
  BY <1>1 DEF CallOK, CheckPoints, Approval, RememberScope, TypeOK, Call
<1>3. /\ approvals' \in Seq(Approval) /\ Len(approvals') <= MaxApprovals
      /\ Rows' = Rows \cup {n} /\ n \notin Rows
      /\ approvals'[n] = r
      /\ \A b \in Rows : approvals'[b] = approvals[b]
  <2> HIDE DEF r
  <2> QED
    BY <1>1, <1>2, CreateEffect
<1>4. call' \in [Clients -> Call] /\ Others(c) /\ CallOK(c)'
  BY <1>1, ReturnFields
<1>5. /\ approvals'[n].status = "pending" /\ approvals'[n].author = c /\ approvals'[n].uses = 0
      /\ approvals'[n].fingerprint = call[c].fingerprint
  BY <1>3
<1> HIDE DEF r, n
<1>6. RowsMove
  BY <1>3 DEF RowsMove
<1>7. ApprovalsAreUsedOnce'
  BY <1>3, <1>5 DEF Inv, ApprovalsAreUsedOnce
<1>8. NoConnectionAsksTwice'
  <2>1. \A a \in Rows : approvals[a].status = "pending" /\ approvals[a].author = c =>
          approvals[a].fingerprint # call[c].fingerprint
    BY <1>1 DEF CallOK
  <2> QED
    BY <1>3, <1>5, <2>1 DEF Inv, NoConnectionAsksTwice
<1>9. RulesInv'
  BY <1>1, <1>6, RulesKept
<1>10. ASSUME NEW e \in Clients PROVE CallOK(e)'
  BY <1>3, <1>4, <1>5, <1>6, CallKept DEF Others
<1>11. TypeOK'
  BY <1>1, <1>3, <1>4 DEF TypeOK
<1> QED
  BY <1>6, <1>7, <1>8, <1>9, <1>10, <1>11 DEF Inv

\* The steps of check_rpc that change no row.
LEMMA CheckQuiet ==
  ASSUME Inv, NEW c \in Clients,
         \/ CheckRules(c) \/ CheckPresented(c) \/ FindApproved(c) \/ FindPending(c)
         \/ CreateFails(c) \/ Answer(c)
  PROVE  Inv'
<1>1. TypeOK /\ CallOK(c)
  BY DEF Inv
<1>2. CASE CheckRules(c)
  <2>1. UNCHANGED <<approvals, rules, owner>>
    BY <1>2 DEF CheckRules
  <2>2. \/ Goto(c, "find")
        \/ call[c].presented # NoApproval /\ Goto(c, "presented")
        \/ Return(c) \/ Pass(c)
    BY <1>2 DEF CheckRules
  <2>3. call[c].pc \in CheckPoints
    BY <1>2 DEF CheckRules, At, CheckPoints
  <2>4. call' \in [Clients -> Call] /\ Others(c) /\ CallOK(c)'
    <3>1. CASE Goto(c, "find") \/ (call[c].presented # NoApproval /\ Goto(c, "presented"))
      <4>1. /\ call' \in [Clients -> Call] /\ Others(c) /\ SameRequest(c)
            /\ \/ call'[c].pc = "find"
               \/ call'[c].pc = "presented" /\ call[c].presented # NoApproval
            /\ call'[c].presented = call[c].presented
            /\ call'[c].approval = call[c].approval
        BY <1>1, <3>1, GotoFields, PointNames DEF CheckPoints
      <4> QED
        BY <1>1, <2>1, <2>3, <4>1
           DEF CallOK, Rows, SameRequest, CheckPoints, DecidePoints, ConsumePoints
    <3>2. CASE Return(c) \/ Pass(c)
      BY <1>1, <3>2, ReturnFields
    <3> QED
      BY <2>2, <3>1, <3>2
  <2> QED
    BY <2>1, <2>4, QuietStep
<1>3. CASE CheckPresented(c)
  <2> DEFINE a == call[c].presented
  <2>1. /\ UNCHANGED <<approvals, rules, owner>> /\ call[c].pc = "presented"
        /\ \/ Presentable(c, a) /\ GotoWith(c, "consumePresented", a)
           \/ Forget(c)
    BY <1>3 DEF CheckPresented, At
  <2>2. a \in Rows /\ a \in Ids
    BY <1>1, <2>1, RowNumbers DEF CallOK
  <2>3. /\ call' \in [Clients -> Call] /\ Others(c) /\ SameRequest(c)
        /\ \/ /\ Presentable(c, a)
              /\ call'[c].pc = "consumePresented"
              /\ call'[c].presented = a /\ call'[c].approval = a
           \/ /\ call'[c].pc = "find"
              /\ call'[c].presented = NoApproval /\ call'[c].approval = NoApproval
    BY <1>1, <2>1, <2>2, GotoWithFields, ForgetFields, PointNames DEF CheckPoints
  <2>4. CallOK(c)'
    BY <1>1, <2>1, <2>2, <2>3 DEF CallOK, Fits, Presentable, ProjectMatches, Rows, SameRequest,
       CheckPoints, DecidePoints, ConsumePoints
  <2> QED
    BY <2>1, <2>3, <2>4, QuietStep
<1>4. CASE FindApproved(c)
  <2>1. /\ UNCHANGED <<approvals, rules, owner>> /\ call[c].pc = "find"
        /\ \/ Goto(c, "pending")
           \/ \E a \in ApprovedOnce(call[c].fingerprint) :
                ProjectMatches(a, call[c].project) /\ GotoWith(c, "consumeFound", a)
    BY <1>4 DEF FindApproved, At
  <2>2. CASE Goto(c, "pending")
    <3>1. /\ call' \in [Clients -> Call] /\ Others(c) /\ SameRequest(c)
          /\ call'[c].pc = "pending"
          /\ call'[c].presented = call[c].presented
          /\ call'[c].approval = call[c].approval
      BY <1>1, <2>2, GotoFields, PointNames DEF CheckPoints
    <3>2. CallOK(c)'
      BY <1>1, <2>1, <3>1 DEF CallOK, Rows, SameRequest, CheckPoints, DecidePoints, ConsumePoints
    <3> QED
      BY <2>1, <3>1, <3>2, QuietStep
  <2>3. CASE \E a \in ApprovedOnce(call[c].fingerprint) :
               ProjectMatches(a, call[c].project) /\ GotoWith(c, "consumeFound", a)
    <3>1. PICK a \in ApprovedOnce(call[c].fingerprint) :
                 ProjectMatches(a, call[c].project) /\ GotoWith(c, "consumeFound", a)
      BY <2>3
    <3>2. a \in Rows /\ a \in Ids
      BY <1>1, <3>1, RowNumbers DEF ApprovedOnce
    <3>3. /\ call' \in [Clients -> Call] /\ Others(c) /\ SameRequest(c)
          /\ call'[c].pc = "consumeFound"
          /\ call'[c].presented = call[c].presented /\ call'[c].approval = a
      BY <1>1, <3>1, <3>2, GotoWithFields, PointNames DEF CheckPoints
    <3>4. CallOK(c)'
      BY <1>1, <2>1, <3>1, <3>2, <3>3 DEF CallOK, Fits, ApprovedOnce, ProjectMatches, Rows,
         SameRequest, CheckPoints, DecidePoints, ConsumePoints
    <3> QED
      BY <2>1, <3>3, <3>4, QuietStep
  <2> QED
    BY <2>1, <2>2, <2>3
<1>5. CASE FindPending(c)
  <2>1. /\ UNCHANGED <<approvals, rules, owner>> /\ call[c].pc = "pending"
        /\ \/ PendingFor(call[c].fingerprint) = {} /\ Goto(c, "create")
           \/ Return(c)
    BY <1>5 DEF FindPending, At
  <2>2. CASE PendingFor(call[c].fingerprint) = {} /\ Goto(c, "create")
    <3>1. /\ call' \in [Clients -> Call] /\ Others(c) /\ SameRequest(c)
          /\ call'[c].pc = "create"
          /\ call'[c].presented = call[c].presented
          /\ call'[c].approval = call[c].approval
      BY <1>1, <2>2, GotoFields, PointNames DEF CheckPoints
    <3>2. CallOK(c)'
      BY <1>1, <2>1, <2>2, <3>1 DEF CallOK, PendingFor, Rows, SameRequest, CheckPoints,
         DecidePoints, ConsumePoints
    <3> QED
      BY <2>1, <3>1, <3>2, QuietStep
  <2>3. CASE Return(c)
    BY <1>1, <2>1, <2>3, ReturnFields, QuietStep
  <2> QED
    BY <2>1, <2>2, <2>3
<1>6. CASE CreateFails(c) \/ Answer(c)
  BY <1>1, <1>6, ReturnFields, QuietStep DEF CreateFails, Answer
<1> QED
  BY <1>2, <1>3, <1>4, <1>5, <1>6

\* server.rs asks for a call.
LEMMA AskStep ==
  ASSUME Inv, NEW c \in Clients, NEW f \in Fingerprints, NEW a \in Rows \cup {NoApproval},
         Ask(c, f, a)
  PROVE  Inv'
<1> DEFINE k == [Idle EXCEPT !.pc = "rules", !.fingerprint = f, !.project = owner[f], !.presented = a]
<1>1. /\ UNCHANGED <<approvals, rules, owner>>
      /\ call' = [call EXCEPT ![c] = k]
  BY DEF Ask
<1>2. TypeOK /\ call \in [Clients -> Call] /\ a \in Ids \cup {NoApproval}
  BY RowNumbers DEF Inv, TypeOK
<1>3. k \in Call
  BY <1>2, IdleType DEF Call, Points, CheckPoints, TypeOK
<1>4. call' \in [Clients -> Call] /\ Others(c) /\ call'[c] = k
  <2> HIDE DEF k
  <2> QED
    BY <1>1, <1>2, <1>3 DEF Others
<1>5. /\ call'[c].pc = "rules" /\ call'[c].fingerprint = f
      /\ call'[c].presented = a /\ call'[c].approval = NoApproval
  BY <1>4 DEF Idle
<1>6. CallOK(c)'
  BY <1>1, <1>5 DEF CallOK, Rows, CheckPoints, DecidePoints, ConsumePoints
<1> QED
  BY <1>1, <1>4, <1>6, QuietStep

\* decide has read a pending row.
LEMMA DecideStarts ==
  ASSUME Inv, NEW c \in Clients, NEW a \in Rows, NEW choice \in Choices, Decide(c, a, choice)
  PROVE  Inv'
<1> DEFINE k == [Idle EXCEPT !.pc = "decide", !.approval = a, !.decision = choice.decision,
                             !.remember = choice.remember, !.project = choice.project]
<1>1. /\ UNCHANGED <<approvals, rules, owner>>
      /\ call' = [call EXCEPT ![c] = k]
  BY DEF Decide
<1>2. TypeOK /\ call \in [Clients -> Call] /\ a \in Ids
  BY RowNumbers DEF Inv, TypeOK
<1>3. /\ choice.decision \in Decisions /\ choice.remember \in RememberScope
      /\ choice.project \in ProjectOrNone
  BY OfferedAssumption DEF Choice, Decisions, RememberScope, ProjectOrNone
<1>4. k \in Call
  BY <1>2, <1>3, IdleType DEF Call, Points, DecidePoints
<1>5. call' \in [Clients -> Call] /\ Others(c) /\ call'[c] = k
  <2> HIDE DEF k
  <2> QED
    BY <1>1, <1>2, <1>4 DEF Others
<1>6. /\ call'[c].pc = "decide" /\ call'[c].approval = a /\ call'[c].presented = NoApproval
  BY <1>5 DEF Idle
<1>7. CallOK(c)'
  BY <1>1, <1>6 DEF CallOK, Rows, CheckPoints, DecidePoints, ConsumePoints
<1> QED
  BY <1>1, <1>5, <1>7, QuietStep

\* A step that changes the rules only, and at most one call.
LEMMA RulesStep ==
  ASSUME Inv, UNCHANGED <<approvals, owner>>, call' \in [Clients -> Call],
         \A d \in Clients : call'[d] = call[d] \/ CallOK(d)',
         rules' \in Seq(Rule), RulesInv'
  PROVE  Inv'
<1>1. RowsMove /\ ApprovalsAreUsedOnce' /\ NoConnectionAsksTwice'
  BY StillRows
<1>2. ASSUME NEW d \in Clients PROVE CallOK(d)'
  BY <1>1, CallKept DEF Rows
<1>3. TypeOK'
  BY DEF Inv, TypeOK
<1> QED
  BY <1>1, <1>2, <1>3 DEF Inv

\* What a rule that is added leaves of the others.
LEMMA RuleAdded ==
  ASSUME TypeOK, NEW r \in Rule, rules' = Append(rules, r)
  PROVE  /\ rules' \in Seq(Rule)
         /\ DOMAIN rules' = DOMAIN rules \cup {Len(rules) + 1}
         /\ rules'[Len(rules) + 1] = r
         /\ \A i \in DOMAIN rules : rules'[i] = rules[i]
<1>1. rules \in Seq(Rule) /\ DOMAIN rules = 1..Len(rules) /\ Len(rules) \in Nat
  BY LenProperties DEF TypeOK
<1>2. /\ rules' \in Seq(Rule) /\ Len(rules') = Len(rules) + 1
      /\ \A i \in 1..Len(rules) : rules'[i] = rules[i]
      /\ rules'[Len(rules) + 1] = r
  BY <1>1, AppendProperties
<1>3. DOMAIN rules' = 1..Len(rules')
  BY <1>2, LenProperties
<1> QED
  BY <1>1, <1>2, <1>3

\* The rule of a remembered approval is for its method and its project.
LEMMA RememberStep ==
  ASSUME Inv, NEW c \in Clients, Remember(c)
  PROVE  Inv'
<1> DEFINE a == call[c].approval
           r == [effect |-> "allow", project |-> RememberedProject(c),
                 methods |-> {MethodOf[approvals[a].fingerprint]}, origin |-> a]
<1>1. /\ TypeOK /\ CallOK(c) /\ call[c].pc = "remember" /\ UNCHANGED <<approvals, owner>>
      /\ rules' = Append(rules, r) /\ Return(c)
  BY DEF Inv, Remember, At
<1>2. a \in Rows /\ a \in Ids /\ approvals[a] \in Approval /\ call[c] \in Call
  BY <1>1, RowNumbers DEF CallOK, DecidePoints, TypeOK
<1>3. approvals[a].fingerprint \in Fingerprints /\ approvals[a].project \in ProjectOrNone
      /\ call[c].project \in ProjectOrNone
  BY <1>2 DEF Approval, Call
<1>4. RememberedProject(c) \in ProjectOrNone /\ approvals[a].project \in {RememberedProject(c), NoProject}
  BY <1>3 DEF RememberedProject
<1>5. r \in Rule
  <2>1. MethodOf[approvals[a].fingerprint] \in Methods
    BY <1>3, RequestAssumption
  <2> QED
    BY <1>2, <1>4, <2>1 DEF Rule
<1>6. r.methods = {MethodOf[approvals[a].fingerprint]} /\ r.origin = a /\ r.project = RememberedProject(c)
  OBVIOUS
<1> HIDE DEF r
<1>7. /\ rules' \in Seq(Rule)
      /\ DOMAIN rules' = DOMAIN rules \cup {Len(rules) + 1}
      /\ rules'[Len(rules) + 1] = r
      /\ \A i \in DOMAIN rules : rules'[i] = rules[i]
  BY <1>1, <1>5, RuleAdded
<1>8. RulesInv'
  BY <1>1, <1>2, <1>4, <1>6, <1>7 DEF Inv, RulesInv, Rows
<1>9. call' \in [Clients -> Call] /\ Others(c) /\ CallOK(c)'
  BY <1>1, ReturnFields
<1> QED
  BY <1>1, <1>7, <1>8, <1>9, RulesStep DEF Others

\* A client adds a rule of its own.
LEMMA CreateRuleStep ==
  ASSUME Inv, NEW rule \in NewRules, CreateRule(rule)
  PROVE  Inv'
<1>1. TypeOK /\ UNCHANGED <<approvals, owner, call>> /\ rules' = Append(rules, rule)
  BY DEF Inv, CreateRule
<1>2. rule \in Rule /\ rule.origin = NoApproval
  BY OfferedAssumption
<1>3. /\ rules' \in Seq(Rule)
      /\ DOMAIN rules' = DOMAIN rules \cup {Len(rules) + 1}
      /\ rules'[Len(rules) + 1] = rule
      /\ \A i \in DOMAIN rules : rules'[i] = rules[i]
  BY <1>1, <1>2, RuleAdded
<1>4. RulesInv'
  BY <1>1, <1>2, <1>3 DEF Inv, RulesInv, Rows
<1> QED
  BY <1>1, <1>3, <1>4, RulesStep DEF TypeOK

\* A rule that goes leaves the others in their order.
LEMMA RuleDropped ==
  ASSUME TypeOK, NEW i \in DOMAIN rules, DropRule(i)
  PROVE  /\ rules' \in Seq(Rule)
         /\ \A j \in DOMAIN rules' : \E h \in DOMAIN rules : rules'[j] = rules[h]
<1>1. /\ Len(rules) \in Nat /\ rules \in [1..Len(rules) -> Rule] /\ DOMAIN rules = 1..Len(rules)
  BY LenProperties DEF TypeOK
<1>2. Len(rules) - 1 \in Nat
  BY <1>1
<1>3. rules' = [j \in 1..(Len(rules) - 1) |-> IF j < i THEN rules[j] ELSE rules[j + 1]]
  BY DEF DropRule
<1>4. rules' \in [1..(Len(rules) - 1) -> Rule]
  BY <1>1, <1>2, <1>3
<1>5. rules' \in Seq(Rule)
  BY <1>2, <1>4, SeqDef
<1>6. ASSUME NEW j \in DOMAIN rules' PROVE \E h \in DOMAIN rules : rules'[j] = rules[h]
  <2>1. j \in 1..(Len(rules) - 1) /\ j \in DOMAIN rules /\ j + 1 \in DOMAIN rules
    BY <1>1, <1>3
  <2>2. rules'[j] = rules[j] \/ rules'[j] = rules[j + 1]
    BY <1>3, <2>1
  <2> QED
    BY <2>1, <2>2
<1> QED
  BY <1>5, <1>6

\* The invariant survives every step.
LEMMA InvStep == Inv /\ [Next]_vars => Inv'
<1> SUFFICES ASSUME Inv, [Next]_vars PROVE Inv'
  OBVIOUS
<1>1. TypeOK
  BY DEF Inv
<1>2. ASSUME NEW c \in Clients, CheckStep(c) PROVE Inv'
  BY <1>2, CheckQuiet, ConsumeStep, CreateStep DEF CheckStep
<1>3. ASSUME NEW c \in Clients, DecideStep(c) PROVE Inv'
  <2>1. CASE DecideWrite(c)
    BY <2>1, DecideWriteStep
  <2>2. CASE Remember(c)
    BY <2>2, RememberStep
  <2>3. CASE RememberFails(c)
    BY <1>1, <2>3, ReturnFields, QuietStep DEF RememberFails
  <2> QED
    BY <1>3, <2>1, <2>2, <2>3 DEF DecideStep
<1>4. ASSUME NEW c \in Clients, NEW f \in Fingerprints, NEW a \in Rows \cup {NoApproval}, Ask(c, f, a)
      PROVE  Inv'
  BY <1>4, AskStep
<1>5. ASSUME NEW c \in Clients, NEW a \in Rows, NEW choice \in Choices, Decide(c, a, choice)
      PROVE  Inv'
  BY <1>5, DecideStarts
<1>6. ASSUME NEW rule \in NewRules, CreateRule(rule) PROVE Inv'
  BY <1>6, CreateRuleStep
<1>7. ASSUME NEW i \in DOMAIN rules, DropRule(i) PROVE Inv'
  <2>1. UNCHANGED <<approvals, owner, call>>
    BY <1>7 DEF DropRule
  <2>2. /\ rules' \in Seq(Rule)
        /\ \A j \in DOMAIN rules' : \E h \in DOMAIN rules : rules'[j] = rules[h]
    BY <1>1, <1>7, RuleDropped
  <2>3. RulesInv'
    BY <2>1, <2>2 DEF Inv, RulesInv, Rows
  <2> QED
    BY <1>1, <2>1, <2>2, <2>3, RulesStep DEF TypeOK
<1>8. ASSUME NEW f \in Fingerprints, NEW p \in ProjectOrNone, Reown(f, p) PROVE Inv'
  <2>1. UNCHANGED <<approvals, rules, call>> /\ owner' = [owner EXCEPT ![f] = p]
    BY <1>8 DEF Reown
  <2>2. TypeOK'
    BY <1>1, <1>8, <2>1 DEF TypeOK
  <2>3. RowsMove /\ ApprovalsAreUsedOnce' /\ NoConnectionAsksTwice'
    BY <2>1, StillRows
  <2>4. RulesInv'
    BY <2>1, <2>3, RulesKept
  <2>5. \A d \in Clients : CallOK(d)'
    BY <2>1, <2>3, CallKept DEF Rows
  <2> QED
    BY <2>2, <2>3, <2>4, <2>5 DEF Inv
<1>9. CASE Crash
  <2>1. UNCHANGED <<approvals, rules, owner>> /\ call' = [c \in Clients |-> Idle]
    BY <1>9 DEF Crash
  <2>2. call' \in [Clients -> Call]
    BY <2>1, IdleType
  <2>3. \A c \in Clients : CallOK(c)'
    BY <2>1 DEF Idle, CallOK, CheckPoints, DecidePoints, ConsumePoints
  <2> QED
    BY <1>1, <2>1, <2>2, <2>3, StillRows, RulesKept DEF Inv, TypeOK
<1>10. CASE UNCHANGED vars
  <2>1. UNCHANGED <<approvals, rules, owner, call>>
    BY <1>10 DEF vars
  <2>2. RowsMove /\ ApprovalsAreUsedOnce' /\ NoConnectionAsksTwice'
    BY <2>1, StillRows
  <2> QED
    BY <1>1, <2>1, <2>2, RulesKept, CallKept DEF Inv, TypeOK, Rows
<1> QED
  BY <1>2, <1>3, <1>4, <1>5, <1>6, <1>7, <1>8, <1>9, <1>10 DEF Next

-----------------------------------------------------------------------------
(***************************************************************************)
(* The theorems.                                                           *)
(***************************************************************************)

\* The invariant holds in every state the engine reaches.
LEMMA Invariant == Spec => []Inv
  BY InvInit, InvStep, PTL DEF Spec

\* Types: the tables, the projects and the calls are well formed in every state
\* (ApprovalEngine).
THEOREM Types == Spec => []TypeOK
<1>1. Inv => TypeOK
  BY DEF Inv
<1> QED
  BY <1>1, Invariant, PTL

\* Once: of all the calls that find an approved row, the conditional update of
\* consume_approved lets one through.
THEOREM UsedOnce == Spec => []ApprovalsAreUsedOnce
<1>1. Inv => ApprovalsAreUsedOnce
  BY DEF Inv
<1> QED
  BY <1>1, Invariant, PTL

\* Exactness: approval_matches and approval_project_matches are evaluated before
\* the approval is consumed, and what they saw cannot change in between.
THEOREM ExactGrants == Spec => []GrantsAreExact
<1>1. Inv => GrantsAreExact
  BY DEF Inv, CallOK, Fits, GrantsAreExact, At
<1> QED
  BY <1>1, Invariant, PTL

\* No duplicates: find_pending_by_fingerprint and the insert are two statements,
\* but only this connection adds rows of its own.
THEOREM AskedOnce == Spec => []NoConnectionAsksTwice
<1>1. Inv => NoConnectionAsksTwice
  BY DEF Inv
<1> QED
  BY <1>1, Invariant, PTL

\* Project rules: whatever decide remembers, it remembers for the method and the
\* project of the approval.
THEOREM ProjectRules == Spec => []RememberedRulesStayInTheirProject
<1>1. Inv => RememberedRulesStayInTheirProject
  BY DEF Inv, RulesInv, RememberedRulesStayInTheirProject
<1> QED
  BY <1>1, Invariant, PTL

\* A status that is written in one row is a step of ApprovalLife.
LEMMA LifeStep ==
  ASSUME NEW old, NEW new,
         old \in [Ids -> {"absent", "pending", "approved", "denied", "consumed"}],
         new \in [Ids -> {"absent", "pending", "approved", "denied", "consumed"}],
         NEW a \in Ids, new[a] \in Life!Successors(old[a]),
         \A b \in Ids : b # a => new[b] = old[b]
  PROVE  \E e \in Ids : \E to \in Life!Successors(old[e]) : new = [old EXCEPT ![e] = to]
<1>1. new = [old EXCEPT ![a] = new[a]]
  OBVIOUS
<1> QED
  BY <1>1

\* The status ApprovalLife sees of an approval.
LifeStatus == [a \in Ids |-> IF a \in Rows THEN approvals[a].status ELSE "absent"]

\* Every status it sees is one of its own.
LEMMA LifeType ==
  ASSUME NEW s \in Seq(Approval)
  PROVE  [a \in Ids |-> IF a \in DOMAIN s THEN s[a].status ELSE "absent"]
           \in [Ids -> {"absent", "pending", "approved", "denied", "consumed"}]
<1>1. DOMAIN s = 1..Len(s)
  BY LenProperties
<1>2. ASSUME NEW a \in DOMAIN s
      PROVE  s[a].status \in {"pending", "approved", "denied", "consumed"}
  <2>1. s[a] \in Approval
    BY <1>1, ElementOfSeq
  <2> QED
    BY <2>1 DEF Approval
<1> QED
  BY <1>2

\* Every step of the engine is a step of ApprovalLife, or none.
LEMMA LifeSteps == Inv /\ Inv' /\ [Next]_vars => [Life!Next]_LifeStatus
<1> SUFFICES ASSUME Inv, Inv', [Next]_vars PROVE [Life!Next]_LifeStatus
  OBVIOUS
<1>1. TypeOK /\ TypeOK'
  BY DEF Inv
<1>2. /\ LifeStatus \in [Ids -> {"absent", "pending", "approved", "denied", "consumed"}]
      /\ LifeStatus' \in [Ids -> {"absent", "pending", "approved", "denied", "consumed"}]
  <2>1. approvals \in Seq(Approval) /\ approvals' \in Seq(Approval)
    BY <1>1 DEF TypeOK
  <2> QED
    BY <2>1, LifeType DEF LifeStatus, Rows
<1>3. ASSUME NEW a \in Ids, LifeStatus'[a] \in Life!Successors(LifeStatus[a]),
             \A b \in Ids : b # a => LifeStatus'[b] = LifeStatus[b]
      PROVE  Life!Next
  <2>1. \E e \in Ids : \E to \in Life!Successors(LifeStatus[e]) :
          LifeStatus' = [LifeStatus EXCEPT ![e] = to]
    BY <1>2, <1>3, LifeStep
  <2> QED
    BY <2>1 DEF Life!Next, LifeStatus
<1>4. approvals' = approvals => LifeStatus' = LifeStatus
  BY DEF LifeStatus, Rows
<1>5. ASSUME NEW c \in Clients, Consume(c), approvals' # approvals PROVE Life!Next
  <2> DEFINE a == call[c].approval
  <2>1. /\ approvals[a].status = "approved"
        /\ approvals' = [approvals EXCEPT ![a].status = "consumed", ![a].uses = @ + 1]
    BY <1>5 DEF Consume
  <2>2. a \in Rows /\ a \in Ids
    BY <1>1, <1>5, RowNumbers DEF Inv, CallOK, Consume, ConsumePoints
  <2> HIDE DEF a
  <2>3. /\ Rows' = Rows /\ approvals'[a].status = "consumed"
        /\ \A b \in Rows : b # a => approvals'[b] = approvals[b]
    BY <1>1, <2>1, <2>2, ConsumeEffect
  <2>4. /\ LifeStatus[a] = "approved" /\ LifeStatus'[a] = "consumed"
        /\ \A b \in Ids : b # a => LifeStatus'[b] = LifeStatus[b]
    <3>1. approvals[a].status = "approved"
      BY <2>1
    <3> QED
      BY <2>2, <2>3, <3>1 DEF LifeStatus
  <2> QED
    BY <1>3, <2>2, <2>4 DEF Life!Successors
<1>6. ASSUME NEW c \in Clients, DecideWrite(c), approvals' # approvals PROVE Life!Next
  <2> DEFINE a == call[c].approval
             d == call[c].decision
             m == call[c].remember
  <2>1. /\ approvals[a].status = "pending"
        /\ approvals' = [approvals EXCEPT ![a].status = d, ![a].remember = m]
    BY <1>6 DEF DecideWrite
  <2>2. a \in Rows /\ a \in Ids /\ d \in Decisions /\ m \in RememberScope
    BY <1>1, <1>6, RowNumbers DEF Inv, CallOK, DecideWrite, At, DecidePoints, TypeOK, Call
  <2> HIDE DEF a, d, m
  <2>3. /\ Rows' = Rows /\ approvals'[a].status = d
        /\ \A b \in Rows : b # a => approvals'[b] = approvals[b]
    BY <1>1, <2>1, <2>2, DecideEffect
  <2>4. /\ LifeStatus[a] = "pending" /\ LifeStatus'[a] = d
        /\ \A b \in Ids : b # a => LifeStatus'[b] = LifeStatus[b]
    <3>1. approvals[a].status = "pending"
      BY <2>1
    <3> QED
      BY <2>2, <2>3, <3>1 DEF LifeStatus
  <2> QED
    BY <1>3, <2>2, <2>4 DEF Life!Successors, Decisions
<1>7. ASSUME NEW c \in Clients, Create(c) PROVE Life!Next
  <2> DEFINE r == [status |-> "pending", fingerprint |-> call[c].fingerprint,
                   project |-> call[c].project, remember |-> "once", author |-> c, uses |-> 0]
             n == Len(approvals) + 1
  <2>1. /\ Len(approvals) < MaxApprovals /\ approvals' = Append(approvals, r)
        /\ CallOK(c) /\ call[c].pc = "create"
    BY <1>7 DEF Create, At, Inv
  <2>2. r \in Approval
    BY <1>1, <2>1 DEF CallOK, CheckPoints, Approval, RememberScope, TypeOK, Call
  <2>3. r.status = "pending"
    OBVIOUS
  <2> HIDE DEF r
  <2>4. /\ Rows' = Rows \cup {n} /\ n \notin Rows /\ approvals'[n] = r
        /\ \A b \in Rows : approvals'[b] = approvals[b]
    BY <1>1, <2>1, <2>2, CreateEffect
  <2>5. n \in Ids
    BY <1>1, <2>1, RowNumbers, BoundAssumption DEF Ids
  <2> HIDE DEF n
  <2>6. /\ LifeStatus[n] = "absent" /\ LifeStatus'[n] = "pending"
        /\ \A b \in Ids : b # n => LifeStatus'[b] = LifeStatus[b]
    BY <2>3, <2>4, <2>5 DEF LifeStatus
  <2> QED
    BY <1>3, <2>5, <2>6 DEF Life!Successors
<1>8. ASSUME approvals' # approvals
      PROVE  \E c \in Clients : Consume(c) \/ DecideWrite(c) \/ Create(c)
  BY <1>8 DEF Next, vars, CheckStep, DecideStep, CheckRules, CheckPresented, FindApproved,
     FindPending, CreateFails, Answer, Remember, RememberFails, Ask, Decide, CreateRule,
     DropRule, Reown, Crash
<1> QED
  BY <1>4, <1>5, <1>6, <1>7, <1>8

\* Final decisions: Approvals implements ApprovalLife, so a decision is taken once
\* and nothing undoes it, for any number of connections that decide at once
\* (ApprovalRepository::decide and consume_approved).
THEOREM FinalDecisions == Spec => DecisionsAreFinal
<1>1. Init => Life!Init
  BY DEF Init, Life!Init, Rows
<1>2. Inv /\ Inv' /\ [Next]_vars => [Life!Next]_LifeStatus
  BY LifeSteps
<1> QED
  BY <1>1, <1>2, Invariant, PTL DEF Spec, DecisionsAreFinal, Life!Spec, LifeStatus

=============================================================================
