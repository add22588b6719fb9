----------------------------- MODULE MCServices -----------------------------
(***************************************************************************)
(* One instance for TLC of the leases and of seven parts that share        *)
(* nothing with each other: a behaviour chooses one of them when it begins,*)
(* and the others stay as they are.  What TLC explores is the sum of the   *)
(* eight, and a property of one is checked over the behaviours of that one.*)
(***************************************************************************)
EXTENDS MCUpdateLifecycle, MCDeltaCheckpoint, TextEdits, CheckpointRepair,
        SubscriptionTickets, GitHubConnections, StackSearch, TrustPolicies

CONSTANTS
    t1, t2, c1, c2, v1, v2, view,                      \* tickets
    u1, u2, n1, n2, i1, k1, k2, st1, st2, st3, q1, q2, \* GitHub connections
    p1, p2,                                            \* search
    o1, o2, x1, d1, d2, m1, m2, e1, e2, e3,            \* policies
    h1, h2, h3                                         \* repair

\* The clock of the server v1 is ahead.
TwoClocks == (v1 :> 1) @@ (v2 :> 0)

\* Two users of two tenants, who both administer the account.
OneEach == (u1 :> n1) @@ (u2 :> n2)
AllAdmins == {u1, u2} \X {i1}
ThreeStates ==
    (st1 :> [slot |-> u1, phase |-> "connect", account |-> NoInstallation])
    @@ (st2 :> [slot |-> u1, phase |-> "install", account |-> i1])
    @@ (st3 :> [slot |-> u2, phase |-> "connect", account |-> NoInstallation])

VARIABLE service
servicesVars == <<service, vars, deltaVars, editVars, repairVars,
                  ticketVars, githubVars, searchVars, policyVars>>

ServicesInit ==
    /\ service \in {"leases", "saves", "edits", "repair", "tickets", "github", "search", "policies"}
    /\ Init /\ DeltaInit /\ EditsInit /\ RepairInit
    /\ TicketInit /\ GitHubInit /\ SearchInit /\ PolicyInit
    /\ service # "saves" => faults = CHOOSE f \in Faults : TRUE

ServicesNext ==
    /\ UNCHANGED service
    /\ \/ /\ service = "leases" /\ Next
          /\ UNCHANGED <<deltaVars, editVars, repairVars, ticketVars, githubVars, searchVars, policyVars>>
       \/ /\ service = "saves" /\ DeltaNext
          /\ UNCHANGED <<vars, editVars, repairVars, ticketVars, githubVars, searchVars, policyVars>>
       \/ /\ service = "edits" /\ EditsNext
          /\ UNCHANGED <<vars, deltaVars, repairVars, ticketVars, githubVars, searchVars, policyVars>>
       \/ /\ service = "repair" /\ RepairNext
          /\ UNCHANGED <<vars, deltaVars, editVars, ticketVars, githubVars, searchVars, policyVars>>
       \/ /\ service = "tickets" /\ TicketNext
          /\ UNCHANGED <<vars, deltaVars, editVars, repairVars, githubVars, searchVars, policyVars>>
       \/ /\ service = "github" /\ GitHubNext
          /\ UNCHANGED <<vars, deltaVars, editVars, repairVars, ticketVars, searchVars, policyVars>>
       \/ /\ service = "search" /\ SearchNext
          /\ UNCHANGED <<vars, deltaVars, editVars, repairVars, ticketVars, githubVars, policyVars>>
       \/ /\ service = "policies" /\ PolicyNext
          /\ UNCHANGED <<vars, deltaVars, editVars, repairVars, ticketVars, githubVars, searchVars>>

ServicesSpec == ServicesInit /\ [][ServicesNext]_servicesVars
=============================================================================
