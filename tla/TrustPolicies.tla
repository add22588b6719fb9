----------------------------- MODULE TrustPolicies -----------------------------
(***************************************************************************)
(* The trust policies of the OIDC exchange.  Anyone may ask for a policy of*)
(* an organisation's name and an issuer; the exchange trusts whoever has   *)
(* one, so a pair must stay one tenant's, and two policies that accept the *)
(* same claims would leave the role to chance.  No index of the table says *)
(* so: create and update test it under the pair's advisory lock, statement *)
(* by statement, while delete and plain updates take no lock.              *)
(*                                                                         *)
(* Conditions stand for claim conditions that pass the validation.  Left   *)
(* out: roles, expirations and display names, whose index only refuses.    *)
(***************************************************************************)
CONSTANTS
    Policies, NoId,  \* ids of rows; a deleted row's id does not come back
    Owners, Pairs,   \* tenants; pairs of an organisation's name and an issuer
    Conditions,
    Admissions       \* requests under way at a time

ASSUME PolicyAssumption == NoId \notin Policies

VARIABLES
    policy,     \* table oidc_trust_policies
    admission   \* the transactions of create and update

policyVars == <<policy, admission>>

NoPolicy == [at |-> "absent"]
Deleted == [at |-> "deleted"]
NoAdmission == [at |-> "idle"]
Row(tenant, pair, conditions, active) ==
    [at |-> "present", tenant |-> tenant, pair |-> pair, conditions |-> conditions,
     active |-> active]
Rows == {p \in Policies : policy[p].at = "present"}
RowsOf(pair) == {p \in Rows : policy[p].pair = pair}

PolicyInit ==
    /\ policy = [p \in Policies |-> NoPolicy]
    /\ admission = [a \in Admissions |-> NoAdmission]

Ends(a) == admission' = [admission EXCEPT ![a] = NoAdmission]

Asked(op, p, tenant, pair, conditions) ==
    [at |-> "waiting", op |-> op, id |-> p, tenant |-> tenant, pair |-> pair,
     conditions |-> conditions]

BeginCreate(a, tenant, pair, conditions) ==
    /\ admission[a] = NoAdmission
    /\ admission' = [admission EXCEPT ![a] = Asked("create", NoId, tenant, pair, conditions)]
    /\ UNCHANGED policy

\* update reads the pair of the tenant's row before it takes the pair's lock.
BeginUpdate(a, p, conditions) ==
    /\ admission[a] = NoAdmission /\ p \in Rows
    /\ admission' = [admission EXCEPT ![a] =
         Asked("update", p, policy[p].tenant, policy[p].pair, conditions)]
    /\ UNCHANGED policy

\* pg_advisory_xact_lock; here the lock is left out.
MutantPairFree(pair) == TRUE
PairFree(pair) ==
    \A b \in Admissions : admission[b].at \in {"locked", "admitted"} => admission[b].pair # pair

LockPair(a) ==
    /\ admission[a].at = "waiting" /\ PairFree(admission[a].pair)
    /\ admission' = [admission EXCEPT ![a].at = "locked"]
    /\ UNCHANGED policy

\* The rows of the pair as they are once the lock is held.
Conflicts(a) ==
    \E p \in RowsOf(admission[a].pair) :
        \/ admission[a].op = "create" /\ policy[p].tenant # admission[a].tenant
        \/ p # admission[a].id /\ policy[p].conditions = admission[a].conditions

Admit(a) ==
    /\ admission[a].at = "locked" /\ ~Conflicts(a)
    /\ admission' = [admission EXCEPT ![a].at = "admitted"]
    /\ UNCHANGED policy

CommitCreate(a) ==
    LET r == admission[a]
        unused == {p \in Policies : policy[p] = NoPolicy} IN
    /\ r.at = "admitted" /\ r.op = "create" /\ unused # {}
    /\ \E active \in BOOLEAN :
         policy' = [policy EXCEPT ![CHOOSE p \in unused : TRUE] =
                        Row(r.tenant, r.pair, r.conditions, active)]
    /\ Ends(a)

\* The row may be gone; then nothing is written.
CommitUpdate(a) ==
    LET r == admission[a] IN
    /\ r.at = "admitted" /\ r.op = "update" /\ r.id \in Rows
    /\ \E active \in BOOLEAN :
         policy' = [policy EXCEPT ![r.id].conditions = r.conditions, ![r.id].active = active]
    /\ Ends(a)

\* A conflict, a row that is gone, or a lost connection.
RefuseAdmission(a) ==
    /\ admission[a].at # "idle"
    /\ Ends(a)
    /\ UNCHANGED policy

\* An update without claim conditions is one statement.
SetActive(p, active) ==
    /\ p \in Rows
    /\ policy' = [policy EXCEPT ![p].active = active]
    /\ UNCHANGED admission

DeletePolicy(p) ==
    /\ p \in Rows
    /\ policy' = [policy EXCEPT ![p] = Deleted]
    /\ UNCHANGED admission

PolicyNext ==
    \/ \E a \in Admissions, o \in Owners, x \in Pairs, c \in Conditions : BeginCreate(a, o, x, c)
    \/ \E a \in Admissions, p \in Policies, c \in Conditions : BeginUpdate(a, p, c)
    \/ \E a \in Admissions : LockPair(a)
    \/ \E a \in Admissions : Admit(a)
    \/ \E a \in Admissions : CommitCreate(a)
    \/ \E a \in Admissions : CommitUpdate(a)
    \/ \E a \in Admissions : RefuseAdmission(a)
    \/ \E p \in Policies, active \in BOOLEAN : SetActive(p, active)
    \/ \E p \in Policies : DeletePolicy(p)

PolicySpec == PolicyInit /\ [][PolicyNext]_policyVars

-----------------------------------------------------------------------------
(* Properties. *)

\* The policies of an organisation's name and an issuer are one tenant's, and no
\* two of them have the same conditions, inactive ones included: whatever two
\* tenants create, change, switch off and delete at the same time.
PairsOwned ==
    \A p, q \in Rows :
        p # q /\ policy[p].pair = policy[q].pair =>
            policy[p].tenant = policy[q].tenant /\ policy[p].conditions # policy[q].conditions

=============================================================================
