------------------------------ MODULE AuthMatrix ------------------------------
(* Replay of a path under several roles (pkg/engine/authmatrix.go): one       *)
(* goroutine per role fills its slot, the caller waits for all of them, and   *)
(* the answers are judged in the order of the roles.  The worker drops the    *)
(* roles that failed before it judges, the report of testAuthMatrixReport     *)
(* keeps them; both are modelled, on the same answers.                        *)
EXTENDS Naturals, Sequences, FiniteSets

CONSTANTS
    Matrices,  \* sets of roles, each [name, level]: 0 public, 1 user, 2 admin
    Replays    \* paths: [admin, page], isAdminishPath and the page of each role name

ASSUME MatrixAssumption == \A m \in Matrices : IsFiniteSet(m) /\ m # {}

(* A page is [status, body]; sameAuthResponse compares both.                  *)
VARIABLES path, roles, slots, arrived, seen, report

authVars == <<path, roles, slots, arrived, seen, report>>

NoPage == [status |-> 0, body |-> "none"]
NoFinding == [label |-> "none", user |-> "none", admin |-> "none"]
Nothing == [finding |-> NoFinding, selected |-> "first"]

(* normalizeAuthRoles: by level, then by name without its case; the map they  *)
(* come from has no order, so equal names come in any.                        *)
normalizeAuthRoles(matrix) ==
    {s \in [1..Cardinality(matrix) -> matrix] :
        \A i, j \in DOMAIN s : i < j => s[i] # s[j] /\ s[i].level <= s[j].level}

AuthInit ==
    /\ path \in Replays /\ roles \in UNION {normalizeAuthRoles(m) : m \in Matrices}
    /\ slots = [i \in DOMAIN roles |-> NoPage] /\ arrived = {}
    /\ seen = <<>> /\ report = <<>>

FirstOf(S) == CHOOSE i \in S : \A j \in S : i <= j
LastOf(S) == CHOOSE i \in S : \A j \in S : j <= i

(* Of the responses of these roles, the first of a level, and what stands in  *)
(* for a missing one: for a user the second, if there is one, else the last.  *)
pickAuthRoleResponse(on, level) ==
    LET same == {i \in on : roles[i].level = level}
        others == on \ {FirstOf(on)}
    IN  IF same # {} THEN FirstOf(same)
        ELSE IF level = 2 THEN LastOf(on)
        ELSE IF others # {} THEN FirstOf(others) ELSE 0

(* Nothing is found without a second answer, which a failed role has not.     *)
evaluateAuthMatrixResponses(on) ==
    LET user == pickAuthRoleResponse(on, 1)
        admin == pickAuthRoleResponse(on, 2)
        says(label) ==
            [finding |-> [label |-> label, user |-> roles[user].name, admin |-> roles[admin].name],
             selected |-> roles[admin].name]
    IN  IF user = 0 \/ NoPage \in {slots[user], slots[admin]} THEN Nothing
        ELSE IF slots[user].status = 403 /\ slots[admin].status = 200 THEN says("escalation")
        ELSE IF path.admin /\ slots[user] = slots[admin] THEN says("same")
        ELSE Nothing

-----------------------------------------------------------------------------
(* The goroutine of role i has its answer, or the request failed.             *)
NextSlot(i) == Cardinality(arrived) + 1
Slot(i) == i
RoleAnswers(i) ==
    /\ i \in DOMAIN roles \ arrived
    /\ arrived' = arrived \cup {i}
    /\ \E p \in {path.page[roles[i].name], NoPage} : slots' = [slots EXCEPT ![Slot(i)] = p]
    /\ UNCHANGED <<path, roles, seen, report>>

Joined == arrived = DOMAIN roles

(* executeAuthMatrixRequests: an error when every role failed.                *)
Successes == {i \in DOMAIN roles : slots[i] # NoPage}
executeAuthMatrixRequests ==
    /\ Joined /\ seen = <<>>
    /\ seen' = IF Successes = {} THEN <<[Nothing EXCEPT !.selected = "error"]>>
               ELSE <<evaluateAuthMatrixResponses(Successes)>>
    /\ UNCHANGED <<path, roles, slots, arrived, report>>

(* testAuthMatrixReport: the failed ones are judged too.                      *)
testAuthMatrixReport ==
    /\ Joined /\ report = <<>>
    /\ report' = <<evaluateAuthMatrixResponses(DOMAIN roles)>>
    /\ UNCHANGED <<path, roles, slots, arrived, seen>>

AuthNext ==
    (\E i \in DOMAIN roles : RoleAnswers(i)) \/ executeAuthMatrixRequests \/ testAuthMatrixReport

-----------------------------------------------------------------------------
AuthTypeOK ==
    /\ path \in Replays /\ arrived \subseteq DOMAIN roles
    /\ DOMAIN slots = DOMAIN roles /\ Len(seen) <= 1 /\ Len(report) <= 1

RoleAnswered(name) == \E i \in DOMAIN roles : roles[i].name = name /\ slots[i] # NoPage
FindingTrue(v) ==
    v.finding # NoFinding =>
        LET user == path.page[v.finding.user]
            admin == path.page[v.finding.admin]
        IN  /\ RoleAnswered(v.finding.user) /\ RoleAnswered(v.finding.admin)
            /\ v.selected = v.finding.admin
            /\ IF v.finding.label = "escalation" THEN user.status = 403 /\ admin.status = 200
               ELSE path.admin /\ user = admin

(* Whatever order the roles answer in, a finding is about pages that the two  *)
(* roles it names were really given, and the admin's page is the one kept     *)
(* (evaluateAuthMatrixResponses).                                             *)
AuthFindingTrue ==
    /\ \A k \in DOMAIN seen : FindingTrue(seen[k])
    /\ \A k \in DOMAIN report : FindingTrue(report[k])

(* A role that fails hides no difference between two that answered: with one  *)
(* user and one admin of the matrix in hand, the worker finds what there is.  *)
OnlyOfLevel(i, level) ==
    roles[i].level = level /\ \A k \in Successes : roles[k].level = level => k = i
AuthNothingHidden ==
    \A k \in DOMAIN seen : \A i, j \in Successes :
        OnlyOfLevel(i, 1) /\ OnlyOfLevel(j, 2) =>
            (seen[k].finding # NoFinding <=>
                \/ slots[i].status = 403 /\ slots[j].status = 200
                \/ path.admin /\ slots[i] = slots[j])

(* What the replay under several roles reports is so and is all there is.     *)
MatrixSound == AuthTypeOK /\ AuthFindingTrue /\ AuthNothingHidden
=============================================================================
