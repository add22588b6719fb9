--------------------------- MODULE Services_proofs ---------------------------
(***************************************************************************)
(* Proofs about the services around the update: GitHub installations, for  *)
(* any number of slots, installations, tokens, signed states and calls and *)
(* any limit of the drain; trust policies, for any number of tenants,      *)
(* policies and requests; walks through a search, for any table; and blob  *)
(* cleanup, for any number of stacks, keys, workers and failures.          *)
(***************************************************************************)
EXTENDS GitHubConnections, TrustPolicies, StackSearch, BlobCleanup, Induction_proofs

-----------------------------------------------------------------------------
(* GitHub: the invariant. *)

Underway(q) == request[q] # NoRequest

\* A call holds the lock of its slot and no other.
HolderSound ==
    \A q \in Calls, s \in Slots : holder[s] = q <=> Underway(q) /\ request[q].slot = s

\* What a call has read of its slot, or has been told of it, still holds.
StillTrue(r) ==
    /\ r.kind # "disconnect" => r.cleared = {}
    /\ r.kind \in {"bind", "disconnect"} => r.token = confirmed[r.slot]
    /\ r.kind = "confirm" /\ r.step = "checked" => r.token \in vault[r.slot]
    /\ r.kind = "bind" /\ r.step \in {"administers", "checked"} =>
          <<r.slot, r.installation>> \in Admins /\ confirmed[r.slot] \in vault[r.slot]
    /\ r.kind = "disconnect" /\ r.step = "drained" => vault[r.slot] \cap r.before = {}
    /\ r.before \subseteq minted

CallSound == \A q \in Calls : Underway(q) => StillTrue(request[q])

\* No token comes back.
VaultMinted == \A s \in Slots : vault[s] \subseteq minted

GitHubInv == GitHubTypeOK /\ HolderSound /\ CallSound /\ VaultMinted /\ ConfirmedUsable

\* What GitHub, webhooks and signed states change.
AroundCalls ==
    \/ \E i \in Installations :
         RemoveApp(i) \/ FindRemoved(i) \/ UnbindRemoved(i) \/ LoseWebhook(i)
    \/ \E st \in States : BeginConnect(st) \/ IssueInstallationUrl(st) \/ ExpireState(st)

Enters ==
    \/ \E st \in States : ConfirmConnect(st)
    \/ \E s \in Slots, i \in Installations : ConnectInstallation(s, i) \/ RemoveInstallation(s, i)
    \/ \E st \in States, i \in Installations : CompleteInstallation(st, i)

\* A call as it begins.
Begun(kind, s, st, i) ==
    [kind |-> kind, step |-> "locked", slot |-> s, state |-> st, installation |-> i,
     token |-> confirmed[s], target |-> NoToken, cleared |-> {},
     before |-> IF kind = "disconnect" THEN vault[s] ELSE {}]

-----------------------------------------------------------------------------
(* Lemmas. *)

\* A call under way has the fields of one.
LEMMA RequestFields ==
  ASSUME GitHubTypeOK, NEW q \in Calls, Underway(q) \/ request[q].kind # "none"
  PROVE  request[q] \in VaultRequests /\ Underway(q)
BY DEF GitHubTypeOK, Underway, NoRequest

\* Two calls never work on one slot.
LEMMA SlotsApart ==
  ASSUME GitHubTypeOK, HolderSound, NEW p \in Calls, NEW q \in Calls, Underway(p), Underway(q), p # q
  PROVE  request[p].slot # request[q].slot
<1>1. request[p].slot \in Slots /\ request[q].slot \in Slots
  BY RequestFields DEF VaultRequests
<1> QED
  BY <1>1 DEF HolderSound

\* A call that begins is one that rested, on a slot that nobody held.
LEMMA BeginEffect ==
  ASSUME GitHubTypeOK, NEW kind \in {"confirm", "bind", "disconnect"}, NEW s \in Slots,
         NEW st \in States \cup {NoState}, NEW i \in Installations \cup {NoInstallation},
         Begin(kind, s, st, i)
  PROVE  \E q \in Calls :
           /\ request[q] = NoRequest /\ holder[s] = NoCall
           /\ request' = [request EXCEPT ![q] = Begun(kind, s, st, i)]
           /\ holder' = [holder EXCEPT ![s] = q]
           /\ UNCHANGED <<vault, minted, app, hook, confirmed, bound, state, torn>>
<1> DEFINE idle == {q \in Calls : request[q] = NoRequest}
           q == CHOOSE q \in idle : TRUE
<1>1. q \in idle
  BY DEF Begin
<1>2. q \in Calls /\ request[q] = NoRequest
  BY <1>1
<1> QED
  BY <1>2 DEF Begin, Begun, SlotFree, external

\* The calls that enter all begin so.
LEMMA EntersBegins ==
  ASSUME GitHubTypeOK, Enters
  PROVE  \E kind \in {"confirm", "bind", "disconnect"}, s \in Slots, st \in States \cup {NoState},
            i \in Installations \cup {NoInstallation}, q \in Calls :
           /\ request[q] = NoRequest /\ holder[s] = NoCall
           /\ request' = [request EXCEPT ![q] = Begun(kind, s, st, i)]
           /\ holder' = [holder EXCEPT ![s] = q]
           /\ UNCHANGED <<vault, minted, app, hook, confirmed, bound, state, torn>>
<1>1. ASSUME NEW st \in States PROVE Setup[st].slot \in Slots
  BY GitHubAssumption
<1>2. PICK kind \in {"confirm", "bind", "disconnect"}, s \in Slots, st \in States \cup {NoState},
           i \in Installations \cup {NoInstallation} : Begin(kind, s, st, i)
  BY <1>1 DEF Enters, ConfirmConnect, ConnectInstallation, CompleteInstallation, RemoveInstallation
<1> QED
  BY <1>2, BeginEffect

\* Every step keeps the tables and the calls well typed.
LEMMA GitHubTypes == GitHubTypeOK /\ [GitHubNext]_githubVars => GitHubTypeOK'
<1> SUFFICES ASSUME GitHubTypeOK, [GitHubNext]_githubVars PROVE GitHubTypeOK'
  OBVIOUS
<1> USE DEF GitHubTypeOK, external
<1>1. ASSUME NEW s \in Slots, VaultToken(s) PROVE GitHubTypeOK'
  <2>1. \E k \in Tokens : minted' = minted \cup {k} /\ vault' = [vault EXCEPT ![s] = @ \cup {k}]
    BY <1>1 DEF VaultToken
  <2> QED
    BY <1>1, <2>1 DEF VaultToken
<1>2. CASE AroundCalls
  BY <1>2 DEF AroundCalls, RemoveApp, FindRemoved, UnbindRemoved, LoseWebhook, BeginConnect,
              IssueInstallationUrl, ExpireState, Issue
<1>3. CASE Enters
  <2>2. PICK kind \in {"confirm", "bind", "disconnect"}, s \in Slots, st \in States \cup {NoState},
             i \in Installations \cup {NoInstallation}, q \in Calls :
           /\ request' = [request EXCEPT ![q] = Begun(kind, s, st, i)]
           /\ holder' = [holder EXCEPT ![s] = q]
           /\ UNCHANGED <<vault, minted, app, hook, confirmed, bound, state, torn>>
    BY <1>3, EntersBegins
  <2>3. vault[s] \in SUBSET Tokens /\ {} \in SUBSET Tokens /\ confirmed[s] \in Tokens \cup {NoToken}
    OBVIOUS
  <2>4. \E r \in VaultRequests : r.step = "locked" /\ request' = [request EXCEPT ![q] = r]
    <3>1. Begun(kind, s, st, i) \in VaultRequests /\ Begun(kind, s, st, i).step = "locked"
      BY <2>3 DEF VaultRequests, Begun
    <3> QED
      BY <2>2, <3>1
  <2> QED
    BY <2>2, <2>4
<1>4. ASSUME NEW q \in Calls, NEW k \in Tokens, LoadPendingConnection(q, k) \/ ReportToken(q, k)
      PROVE  GitHubTypeOK'
  <2>1. request[q] \in VaultRequests
    BY <1>4, RequestFields DEF LoadPendingConnection, ReportToken, At
  <2>2. \E r \in VaultRequests :
           (r.step = "deleting" => r.target # NoToken) /\ request' = [request EXCEPT ![q] = r]
    BY <1>4, <2>1, GitHubAssumption DEF LoadPendingConnection, ReportToken, Proceed, VaultRequests
  <2> QED
    BY <1>4, <2>2 DEF LoadPendingConnection, ReportToken, Proceed
<1>5. ASSUME NEW q \in Calls,
             VerifyAccountAdministration(q) \/ VerifyInstallationAccess(q) \/ ReportAbsent(q)
      PROVE  GitHubTypeOK'
  <2>1. request[q] \in VaultRequests
    BY <1>5, RequestFields DEF VerifyAccountAdministration, VerifyInstallationAccess, ReportAbsent, At
  <2>2. \E r \in VaultRequests : r.step # "deleting" /\ request' = [request EXCEPT ![q] = r]
    BY <1>5, <2>1
       DEF VerifyAccountAdministration, VerifyInstallationAccess, ReportAbsent, Proceed, VaultRequests
  <2> QED
    BY <1>5, <2>2 DEF VerifyAccountAdministration, VerifyInstallationAccess, ReportAbsent, Proceed
<1>6. ASSUME NEW q \in Calls, CommitConfirm(q) PROVE GitHubTypeOK'
  <2>1. request[q] \in VaultRequests
    BY <1>6, RequestFields DEF CommitConfirm, At
  <2>2. request[q].token \in Tokens \cup {NoToken}
    BY <2>1 DEF VaultRequests
  <2> QED
    BY <1>6, <2>2 DEF CommitConfirm, Leave
<1>7. ASSUME NEW q \in Calls, CommitBinding(q) PROVE GitHubTypeOK'
  <2>1. request[q] \in VaultRequests
    BY <1>7, RequestFields DEF CommitBinding, At
  <2>2. TenantOf[request[q].slot] \in Tenants
    BY <2>1, GitHubAssumption DEF VaultRequests
  <2>3. /\ state' \in [States -> {"unissued", "live", "spent"}]
        /\ bound' \in [Installations -> Tenants \cup {NoTenant}]
        /\ request' \in [Calls -> {NoRequest} \cup VaultRequests]
        /\ holder' \in [Slots -> Calls \cup {NoCall}]
    BY <1>7, <2>2 DEF CommitBinding, Leave
  <2> QED
    BY <1>7, <2>3 DEF CommitBinding, Leave, NoRequest
<1>8. ASSUME NEW q \in Calls, DeleteToken(q) PROVE GitHubTypeOK'
  <2>1. request[q] \in VaultRequests /\ Underway(q)
    BY <1>8, RequestFields DEF DeleteToken, At
  <2>2. request[q].target \in Tokens
    BY <1>8, <2>1 DEF VaultRequests, DeleteToken, At, Underway
  <2>3. \E r \in VaultRequests : r.step = "locked" /\ request' = [request EXCEPT ![q] = r]
    BY <1>8, <2>1, <2>2 DEF DeleteToken, VaultRequests
  <2> QED
    BY <1>8, <2>3 DEF DeleteToken
<1>9. ASSUME NEW q \in Calls, CommitDisconnect(q) PROVE GitHubTypeOK'
  BY <1>9 DEF CommitDisconnect, Leave
<1>10. ASSUME NEW q \in Calls, RollBack(q) PROVE GitHubTypeOK'
  <2>1. request[q] \in VaultRequests
    BY <1>10, RequestFields DEF RollBack, Underway
  <2>2. request[q].cleared \subseteq Tokens
    BY <2>1 DEF VaultRequests
  <2> QED
    BY <1>10, <2>2 DEF RollBack, Leave
<1>11. CASE UNCHANGED githubVars
  BY <1>11 DEF githubVars
<1> QED
  BY <1>1, <1>2, <1>3, <1>4, <1>5, <1>6, <1>7, <1>8, <1>9, <1>10, <1>11
     DEF GitHubNext, AroundCalls, Enters

-----------------------------------------------------------------------------
(* Frames: what a step keeps because of what it leaves alone. *)

\* Of a call it does not move, whose slot's tokens and confirmation it leaves.
LEMMA OtherCall ==
  ASSUME GitHubInv, NEW p \in Calls, Underway(p), request'[p] = request[p], minted \subseteq minted',
         vault'[request[p].slot] = vault[request[p].slot],
         confirmed'[request[p].slot] = confirmed[request[p].slot]
  PROVE  StillTrue(request[p])'
BY DEF GitHubInv, CallSound, StillTrue

\* What touches neither slots nor calls keeps everything.
LEMMA AroundKeeps ==
  ASSUME GitHubInv, GitHubTypeOK', UNCHANGED <<vault, minted, confirmed, request, holder, torn>>
  PROVE  GitHubInv'
<1>1. HolderSound'
  BY DEF GitHubInv, HolderSound, Underway
<1>2. CallSound'
  BY OtherCall DEF CallSound, Underway
<1>3. VaultMinted' /\ ConfirmedUsable'
  BY DEF GitHubInv, VaultMinted, ConfirmedUsable
<1> QED
  BY <1>1, <1>2, <1>3 DEF GitHubInv

\* What only moves one call on, to where what it has read is true.
LEMMA ProceedKeeps ==
  ASSUME GitHubInv, GitHubTypeOK', NEW q \in Calls, Underway(q), NEW r \in VaultRequests,
         r.slot = request[q].slot, r.cleared = request[q].cleared, StillTrue(r), Proceed(q, r)
  PROVE  GitHubInv'
<1> USE DEF Proceed, external
<1>1. /\ request' = [request EXCEPT ![q] = r] /\ request \in [Calls -> {NoRequest} \cup VaultRequests]
      /\ r # NoRequest
  BY DEF GitHubInv, GitHubTypeOK, VaultRequests, NoRequest
<1>2. HolderSound'
  BY <1>1 DEF GitHubInv, HolderSound, Underway
<1>3. CallSound'
  <2> SUFFICES ASSUME NEW p \in Calls, Underway(p)' PROVE StillTrue(request[p])'
    BY DEF CallSound
  <2>1. CASE p = q
    BY <1>1, <2>1 DEF StillTrue
  <2>2. CASE p # q
    BY <1>1, <2>2, OtherCall DEF Underway
  <2> QED
    BY <2>1, <2>2
<1>4. VaultMinted'
  BY DEF GitHubInv, VaultMinted
<1>5. ConfirmedUsable'
  BY <1>1 DEF GitHubInv, ConfirmedUsable
<1> QED
  BY <1>2, <1>3, <1>4, <1>5 DEF GitHubInv

\* What ends one call, and touches no slot but that call's.
LEMMA LeaveKeeps ==
  ASSUME GitHubInv, GitHubTypeOK', NEW q \in Calls, Underway(q), Leave(q), minted' = minted,
         \A s \in Slots : s # request[q].slot => vault'[s] = vault[s] /\ confirmed'[s] = confirmed[s]
  PROVE  HolderSound' /\ CallSound'
<1>1. request[q] \in VaultRequests /\ request[q].slot \in Slots
  BY RequestFields DEF GitHubInv, VaultRequests
<1>2. /\ request' = [request EXCEPT ![q] = NoRequest] /\ request \in [Calls -> {NoRequest} \cup VaultRequests]
      /\ holder' = [holder EXCEPT ![request[q].slot] = IF @ = q THEN NoCall ELSE @]
      /\ holder \in [Slots -> Calls \cup {NoCall}] /\ NoCall \notin Calls
  BY GitHubAssumption DEF GitHubInv, GitHubTypeOK, Leave
<1>3. HolderSound'
  BY <1>1, <1>2 DEF GitHubInv, HolderSound, Underway
<1>4. CallSound'
  <2> SUFFICES ASSUME NEW p \in Calls, Underway(p)' PROVE StillTrue(request[p])'
    BY DEF CallSound
  <2>1. p # q /\ request'[p] = request[p] /\ Underway(p)
    BY <1>2 DEF Underway
  <2>2. request[p].slot # request[q].slot /\ request[p].slot \in Slots
    BY <2>1, SlotsApart, RequestFields DEF GitHubInv, VaultRequests
  <2> QED
    BY <2>1, <2>2, OtherCall
<1> QED
  BY <1>3, <1>4

-----------------------------------------------------------------------------
(* The steps. *)

\* A token that GitHub mints is in no slot yet, and no call has met it.
LEMMA MintKeeps ==
  ASSUME GitHubInv, GitHubTypeOK', NEW s \in Slots, VaultToken(s)
  PROVE  GitHubInv'
<1>1. \E k \in Tokens \ minted : minted' = minted \cup {k} /\ vault' = [vault EXCEPT ![s] = @ \cup {k}]
  BY DEF VaultToken, GitHubInv, GitHubTypeOK
<1>2. PICK k \in Tokens \ minted :
        minted' = minted \cup {k} /\ vault' = [vault EXCEPT ![s] = @ \cup {k}]
  BY <1>1
<1>3. UNCHANGED <<confirmed, request, holder, torn>>
  BY DEF VaultToken
<1>4. vault \in [Slots -> SUBSET Tokens]
  BY DEF GitHubInv, GitHubTypeOK
<1>5. HolderSound'
  BY <1>3 DEF GitHubInv, HolderSound, Underway
<1>6. CallSound'
  <2> SUFFICES ASSUME NEW p \in Calls, Underway(p)' PROVE StillTrue(request[p])'
    BY DEF CallSound
  <2>1. Underway(p) /\ StillTrue(request[p]) /\ request[p].slot \in Slots
    BY <1>3, RequestFields DEF GitHubInv, CallSound, Underway, VaultRequests
  <2>2. vault[request[p].slot] \subseteq vault'[request[p].slot]
        /\ vault'[request[p].slot] \subseteq vault[request[p].slot] \cup {k}
    BY <1>2, <1>4, <2>1
  <2> QED
    BY <1>2, <1>3, <2>1, <2>2 DEF StillTrue
<1>7. VaultMinted'
  BY <1>2, <1>4 DEF GitHubInv, VaultMinted
<1>8. ConfirmedUsable'
  BY <1>2, <1>3, <1>4 DEF GitHubInv, ConfirmedUsable
<1> QED
  BY <1>5, <1>6, <1>7, <1>8 DEF GitHubInv

\* A call that begins has just read the confirmation, and takes a free slot.
LEMMA EnterKeeps ==
  ASSUME GitHubInv, GitHubTypeOK', Enters
  PROVE  GitHubInv'
<1>1. PICK kind \in {"confirm", "bind", "disconnect"}, s \in Slots, st \in States \cup {NoState},
           i \in Installations \cup {NoInstallation}, q \in Calls :
         /\ request[q] = NoRequest /\ holder[s] = NoCall
         /\ request' = [request EXCEPT ![q] = Begun(kind, s, st, i)]
         /\ holder' = [holder EXCEPT ![s] = q]
         /\ UNCHANGED <<vault, minted, app, hook, confirmed, bound, state, torn>>
  BY EntersBegins DEF GitHubInv
<1>2. /\ request \in [Calls -> {NoRequest} \cup VaultRequests] /\ holder \in [Slots -> Calls \cup {NoCall}]
      /\ Begun(kind, s, st, i) # NoRequest /\ Begun(kind, s, st, i).slot = s /\ NoCall \notin Calls
  BY GitHubAssumption DEF GitHubInv, GitHubTypeOK, Begun, NoRequest
<1>3. \A p \in Calls : Underway(p) => request[p].slot # s
  BY <1>1, <1>2 DEF GitHubInv, HolderSound
<1>4. HolderSound'
  BY <1>1, <1>2, <1>3 DEF GitHubInv, HolderSound, Underway
<1>5. CallSound'
  <2> SUFFICES ASSUME NEW p \in Calls, Underway(p)' PROVE StillTrue(request[p])'
    BY DEF CallSound
  <2>1. CASE p = q
    <3>1. vault[s] \subseteq minted
      BY DEF GitHubInv, VaultMinted
    <3> QED
      BY <1>1, <1>2, <2>1, <3>1 DEF StillTrue, Begun
  <2>2. CASE p # q
    BY <1>1, <1>2, <2>2, OtherCall DEF Underway
  <2> QED
    BY <2>1, <2>2
<1>6. VaultMinted'
  BY <1>1 DEF GitHubInv, VaultMinted
<1>7. ConfirmedUsable'
  <2> SUFFICES ASSUME NEW t \in Slots, confirmed[t] # NoToken
               PROVE  \/ confirmed[t] \in vault[t] \cup torn
                      \/ \E p \in Calls : holder'[t] = p /\ confirmed[t] \in request'[p].cleared
    BY <1>1 DEF ConfirmedUsable
  <2>1. CASE confirmed[t] \in vault[t] \cup torn
    BY <2>1
  <2>2. ASSUME NEW p \in Calls, holder[t] = p, confirmed[t] \in request[p].cleared
        PROVE  holder'[t] = p /\ confirmed[t] \in request'[p].cleared
    <3>1. Underway(p)
      BY <2>2 DEF GitHubInv, HolderSound
    <3> QED
      BY <1>1, <1>2, <2>2, <3>1 DEF Underway
  <2> QED
    BY <2>1, <2>2 DEF GitHubInv, ConfirmedUsable
<1> QED
  BY <1>4, <1>5, <1>6, <1>7 DEF GitHubInv

\* What a call checks before it goes on stays true while it holds the lock.
LEMMA CheckKeeps ==
  ASSUME GitHubInv, GitHubTypeOK', NEW q \in Calls,
         \/ \E k \in Tokens : LoadPendingConnection(q, k) \/ ReportToken(q, k)
         \/ VerifyAccountAdministration(q) \/ VerifyInstallationAccess(q) \/ ReportAbsent(q)
  PROVE  GitHubInv'
<1>1. request[q] \in VaultRequests /\ Underway(q)
  BY RequestFields DEF GitHubInv, LoadPendingConnection, ReportToken, VerifyAccountAdministration,
     VerifyInstallationAccess, ReportAbsent, At
<1>2. StillTrue(request[q])
  BY <1>1 DEF GitHubInv, CallSound
<1>3. ASSUME NEW k \in Tokens, LoadPendingConnection(q, k) PROVE GitHubInv'
  <2> DEFINE r == [request[q] EXCEPT !.step = "checked", !.token = k]
  <2>1. r \in VaultRequests /\ r.slot = request[q].slot /\ r.cleared = request[q].cleared
    BY <1>1 DEF VaultRequests
  <2>2. StillTrue(r) /\ Proceed(q, r)
    BY <1>1, <1>2, <1>3 DEF LoadPendingConnection, At, StillTrue, VaultRequests
  <2> QED
    BY <1>1, <2>1, <2>2, ProceedKeeps
<1>4. ASSUME NEW k \in Tokens, ReportToken(q, k) PROVE GitHubInv'
  <2> DEFINE r == [request[q] EXCEPT !.step = "deleting", !.target = k]
  <2>1. r \in VaultRequests /\ r.slot = request[q].slot /\ r.cleared = request[q].cleared
    BY <1>1 DEF VaultRequests
  <2>2. StillTrue(r) /\ Proceed(q, r)
    BY <1>1, <1>2, <1>4 DEF ReportToken, At, StillTrue, VaultRequests
  <2> QED
    BY <1>1, <2>1, <2>2, ProceedKeeps
<1>5. CASE VerifyAccountAdministration(q)
  <2> DEFINE r == [request[q] EXCEPT !.step = "administers"]
  <2>1. r \in VaultRequests /\ r.slot = request[q].slot /\ r.cleared = request[q].cleared
    BY <1>1 DEF VaultRequests
  <2>2. StillTrue(r) /\ Proceed(q, r)
    BY <1>1, <1>2, <1>5 DEF VerifyAccountAdministration, TokenForConfirmedId, At, StillTrue, VaultRequests
  <2> QED
    BY <1>1, <2>1, <2>2, ProceedKeeps
<1>6. CASE VerifyInstallationAccess(q)
  <2> DEFINE r == [request[q] EXCEPT !.step = "checked"]
  <2>1. r \in VaultRequests /\ r.slot = request[q].slot /\ r.cleared = request[q].cleared
    BY <1>1 DEF VaultRequests
  <2>2. StillTrue(r) /\ Proceed(q, r)
    BY <1>1, <1>2, <1>6 DEF VerifyInstallationAccess, At, StillTrue, VaultRequests
  <2> QED
    BY <1>1, <2>1, <2>2, ProceedKeeps
<1>7. CASE ReportAbsent(q)
  <2> DEFINE r == [request[q] EXCEPT !.step = "drained", !.target = request[q].token]
  <2>1. r \in VaultRequests /\ r.slot = request[q].slot /\ r.cleared = request[q].cleared
    BY <1>1 DEF VaultRequests
  <2>2. StillTrue(r) /\ Proceed(q, r)
    BY <1>1, <1>2, <1>7 DEF ReportAbsent, Drained, At, StillTrue, VaultRequests
  <2> QED
    BY <1>1, <2>1, <2>2, ProceedKeeps
<1> QED
  BY <1>3, <1>4, <1>5, <1>6, <1>7

\* A slot that the call which ends does not work on keeps a usable connection.
LEMMA OtherSlot ==
  ASSUME GitHubInv, NEW q \in Calls, Underway(q), Leave(q), NEW s \in Slots, s # request[q].slot,
         confirmed[s] # NoToken
  PROVE  \/ confirmed[s] \in vault[s] \cup torn
         \/ \E p \in Calls : holder'[s] = p /\ confirmed[s] \in request'[p].cleared
<1>1. CASE confirmed[s] \in vault[s] \cup torn
  BY <1>1
<1>2. ASSUME NEW p \in Calls, holder[s] = p, confirmed[s] \in request[p].cleared
      PROVE  holder'[s] = p /\ confirmed[s] \in request'[p].cleared
  <2>1. p # q
    BY <1>2 DEF GitHubInv, HolderSound
  <2>2. holder \in [Slots -> Calls \cup {NoCall}] /\ request \in [Calls -> {NoRequest} \cup VaultRequests]
    BY DEF GitHubInv, GitHubTypeOK
  <2> QED
    BY <1>2, <2>1, <2>2 DEF Leave
<1> QED
  BY <1>1, <1>2 DEF GitHubInv, ConfirmedUsable

\* The slot that a call which ends worked on: what was confirmed is in the vault,
\* or this very call has deleted it.
LEMMA OwnSlot ==
  ASSUME GitHubInv, NEW q \in Calls, Underway(q), confirmed[request[q].slot] # NoToken
  PROVE  confirmed[request[q].slot] \in vault[request[q].slot] \cup torn \cup request[q].cleared
<1>1. request[q].slot \in Slots
  BY RequestFields DEF GitHubInv, VaultRequests
<1>2. holder[request[q].slot] = q
  BY <1>1 DEF GitHubInv, HolderSound
<1> QED
  BY <1>1, <1>2 DEF GitHubInv, ConfirmedUsable

\* The token that is confirmed was seen in the vault under the same lock.
LEMMA ConfirmKeeps ==
  ASSUME GitHubInv, GitHubTypeOK', NEW q \in Calls, CommitConfirm(q)
  PROVE  GitHubInv'
<1>1. request[q] \in VaultRequests /\ Underway(q)
  BY RequestFields DEF GitHubInv, CommitConfirm, At
<1>2. /\ UNCHANGED <<vault, minted, torn>> /\ Leave(q) /\ request[q].slot \in Slots
      /\ confirmed' = [confirmed EXCEPT ![request[q].slot] = request[q].token]
      /\ confirmed \in [Slots -> Tokens \cup {NoToken}]
  BY <1>1 DEF CommitConfirm, external, VaultRequests, GitHubInv, GitHubTypeOK
<1>3. HolderSound' /\ CallSound'
  BY <1>1, <1>2, LeaveKeeps
<1>4. request[q].token \in vault[request[q].slot]
  BY <1>1 DEF GitHubInv, CallSound, StillTrue, CommitConfirm, At
<1>5. ConfirmedUsable'
  BY <1>1, <1>2, <1>4, OtherSlot DEF ConfirmedUsable
<1> QED
  BY <1>2, <1>3, <1>5 DEF GitHubInv, VaultMinted

\* A binding touches no slot.
LEMMA BindingKeeps ==
  ASSUME GitHubInv, GitHubTypeOK', NEW q \in Calls, CommitBinding(q)
  PROVE  GitHubInv'
<1>1. request[q] \in VaultRequests /\ Underway(q)
  BY RequestFields DEF GitHubInv, CommitBinding, At
<1>2. UNCHANGED <<vault, minted, torn, confirmed>> /\ Leave(q)
  BY DEF CommitBinding, external
<1>3. HolderSound' /\ CallSound'
  BY <1>1, <1>2, LeaveKeeps
<1>4. request[q].cleared = {}
  BY <1>1 DEF GitHubInv, CallSound, StillTrue, CommitBinding, At
<1>5. ConfirmedUsable'
  BY <1>1, <1>2, <1>4, OtherSlot, OwnSlot DEF ConfirmedUsable
<1> QED
  BY <1>2, <1>3, <1>5 DEF GitHubInv, VaultMinted

\* A deleted token is remembered by the call that deleted it.
LEMMA DeleteKeeps ==
  ASSUME GitHubInv, GitHubTypeOK', NEW q \in Calls, DeleteToken(q)
  PROVE  GitHubInv'
<1> DEFINE s == request[q].slot
           k == request[q].target
<1>1. request[q] \in VaultRequests /\ Underway(q)
  BY RequestFields DEF GitHubInv, DeleteToken, At
<1>2. PICK r \in VaultRequests :
        /\ request' = [request EXCEPT ![q] = r]
        /\ r.slot = s /\ r.cleared = request[q].cleared \cup {k} /\ r.kind = "disconnect"
        /\ r.step = "locked" /\ r.token = request[q].token /\ r.before = request[q].before
  <2>1. k \in Tokens
    BY <1>1 DEF GitHubInv, GitHubTypeOK, DeleteToken, At, Underway, VaultRequests
  <2> DEFINE r == [request[q] EXCEPT !.step = "locked", !.target = NoToken, !.cleared = @ \cup {k}]
  <2>2. /\ r \in VaultRequests /\ request' = [request EXCEPT ![q] = r] /\ r.slot = s /\ r.step = "locked"
        /\ r.cleared = request[q].cleared \cup {k} /\ r.kind = "disconnect"
        /\ r.token = request[q].token /\ r.before = request[q].before
    BY <1>1, <2>1 DEF DeleteToken, At, VaultRequests
  <2> QED
    BY <2>2
<1>3. /\ UNCHANGED <<confirmed, minted, holder, torn>>
      /\ vault' = [vault EXCEPT ![s] = @ \ {k}] /\ vault \in [Slots -> SUBSET Tokens]
      /\ s \in Slots /\ request \in [Calls -> {NoRequest} \cup VaultRequests] /\ r # NoRequest
  BY <1>1 DEF DeleteToken, GitHubInv, GitHubTypeOK, VaultRequests, NoRequest
<1>4. HolderSound'
  BY <1>1, <1>2, <1>3 DEF GitHubInv, HolderSound, Underway
<1>5. CallSound'
  <2> SUFFICES ASSUME NEW p \in Calls, Underway(p)' PROVE StillTrue(request[p])'
    BY DEF CallSound
  <2>1. CASE p = q
    <3>1. StillTrue(request[q]) /\ request[q].kind = "disconnect"
      BY <1>1 DEF GitHubInv, CallSound, DeleteToken, At
    <3> QED
      BY <1>2, <1>3, <2>1, <3>1 DEF StillTrue
  <2>2. CASE p # q
    <3>1. request'[p] = request[p] /\ Underway(p)
      BY <1>2, <1>3, <2>2 DEF Underway
    <3>2. request[p].slot # s /\ request[p].slot \in Slots
      BY <1>1, <2>2, <3>1, SlotsApart, RequestFields DEF GitHubInv, VaultRequests
    <3> QED
      BY <1>3, <3>1, <3>2, OtherCall
  <2> QED
    BY <2>1, <2>2
<1>6. VaultMinted'
  BY <1>3 DEF GitHubInv, VaultMinted
<1>7. ConfirmedUsable'
  <2> SUFFICES ASSUME NEW t \in Slots, confirmed[t] # NoToken
               PROVE  \/ confirmed[t] \in vault'[t] \cup torn
                      \/ \E p \in Calls : holder[t] = p /\ confirmed[t] \in request'[p].cleared
    BY <1>3 DEF ConfirmedUsable
  <2>1. CASE t = s
    <3>1. holder[s] = q
      BY <1>1, <1>3 DEF GitHubInv, HolderSound
    <3>2. confirmed[s] \in vault'[s] \cup torn \/ confirmed[s] \in request'[q].cleared
      BY <1>1, <1>2, <1>3, <2>1, OwnSlot
    <3> QED
      BY <2>1, <3>1, <3>2
  <2>2. CASE t # s
    <3>1. holder[t] # q
      BY <1>1, <2>2 DEF GitHubInv, HolderSound
    <3> QED
      BY <1>2, <1>3, <2>2, <3>1 DEF GitHubInv, ConfirmedUsable
  <2> QED
    BY <2>1, <2>2
<1> QED
  BY <1>4, <1>5, <1>6, <1>7 DEF GitHubInv

\* A disconnect that succeeds leaves nothing confirmed; one that fails owns up to
\* what it has deleted.
LEMMA DisconnectKeeps ==
  ASSUME GitHubInv, GitHubTypeOK', NEW q \in Calls, CommitDisconnect(q) \/ RollBack(q)
  PROVE  GitHubInv'
<1>1. request[q] \in VaultRequests /\ Underway(q) /\ Leave(q) /\ minted' = minted
  BY RequestFields DEF GitHubInv, CommitDisconnect, RollBack, At, Underway, external
<1>2. /\ request[q].slot \in Slots /\ vault \in [Slots -> SUBSET Tokens]
      /\ confirmed \in [Slots -> Tokens \cup {NoToken}]
  BY <1>1 DEF VaultRequests, GitHubInv, GitHubTypeOK
<1>3. CASE CommitDisconnect(q)
  <2>1. /\ vault' = [vault EXCEPT ![request[q].slot] = @ \ {request[q].target}]
        /\ confirmed' = [confirmed EXCEPT ![request[q].slot] = NoToken] /\ torn' = torn
    BY <1>3 DEF CommitDisconnect
  <2>2. HolderSound' /\ CallSound'
    BY <1>1, <1>2, <2>1, LeaveKeeps
  <2>3. VaultMinted'
    BY <1>1, <1>2, <2>1 DEF GitHubInv, VaultMinted
  <2>4. ConfirmedUsable'
    BY <1>1, <1>2, <2>1, OtherSlot DEF ConfirmedUsable
  <2> QED
    BY <2>2, <2>3, <2>4 DEF GitHubInv
<1>4. CASE RollBack(q)
  <2>1. UNCHANGED <<vault, confirmed>> /\ torn' = torn \cup request[q].cleared
    BY <1>4 DEF RollBack, external
  <2>2. HolderSound' /\ CallSound'
    BY <1>1, <2>1, LeaveKeeps
  <2>3. ConfirmedUsable'
    BY <1>1, <2>1, OtherSlot, OwnSlot DEF ConfirmedUsable
  <2> QED
    BY <1>1, <2>1, <2>2, <2>3 DEF GitHubInv, VaultMinted
<1> QED
  BY <1>3, <1>4

-----------------------------------------------------------------------------
(* Theorems. *)

\* Every step keeps the invariant.
LEMMA GitHubStep == GitHubInv /\ [GitHubNext]_githubVars => GitHubInv'
<1> SUFFICES ASSUME GitHubInv, [GitHubNext]_githubVars PROVE GitHubInv'
  OBVIOUS
<1>1. GitHubTypeOK'
  BY GitHubTypes DEF GitHubInv
<1>2. ASSUME NEW s \in Slots, VaultToken(s) PROVE GitHubInv'
  BY <1>1, <1>2, MintKeeps
<1>3. CASE AroundCalls
  <2>1. UNCHANGED <<vault, minted, confirmed, request, holder, torn>>
    BY <1>3 DEF AroundCalls, RemoveApp, FindRemoved, UnbindRemoved, LoseWebhook, BeginConnect,
                IssueInstallationUrl, ExpireState, Issue, external
  <2> QED
    BY <1>1, <2>1, AroundKeeps
<1>4. CASE Enters
  BY <1>1, <1>4, EnterKeeps
<1>5. ASSUME NEW q \in Calls,
             \/ \E k \in Tokens : LoadPendingConnection(q, k) \/ ReportToken(q, k)
             \/ VerifyAccountAdministration(q) \/ VerifyInstallationAccess(q) \/ ReportAbsent(q)
      PROVE  GitHubInv'
  BY <1>1, <1>5, CheckKeeps
<1>6. ASSUME NEW q \in Calls, CommitConfirm(q) PROVE GitHubInv'
  BY <1>1, <1>6, ConfirmKeeps
<1>7. ASSUME NEW q \in Calls, CommitBinding(q) PROVE GitHubInv'
  BY <1>1, <1>7, BindingKeeps
<1>8. ASSUME NEW q \in Calls, DeleteToken(q) PROVE GitHubInv'
  BY <1>1, <1>8, DeleteKeeps
<1>9. ASSUME NEW q \in Calls, CommitDisconnect(q) \/ RollBack(q) PROVE GitHubInv'
  BY <1>1, <1>9, DisconnectKeeps
<1>10. CASE UNCHANGED githubVars
  BY <1>1, <1>10, AroundKeeps DEF githubVars, external
<1> QED
  BY <1>2, <1>3, <1>4, <1>5, <1>6, <1>7, <1>8, <1>9, <1>10 DEF GitHubNext, AroundCalls, Enters

\* Locks are held by the calls under way alone, and what a call has read of its
\* slot is true until it leaves: the whole of connect, bind and disconnect.
THEOREM GitHubInvariance == GitHubSpec => []GitHubInv
<1>1. GitHubInit => GitHubInv
  BY GitHubAssumption DEF GitHubInit, GitHubInv, GitHubTypeOK, HolderSound, CallSound, VaultMinted,
     ConfirmedUsable, Underway, NoRequest
<1> QED
  BY <1>1, GitHubStep, PTL DEF GitHubSpec

\* No confirmation outlives its token, but for a disconnect that failed half-way.
THEOREM UsableAlways == GitHubSpec => []ConfirmedUsable
<1>1. GitHubInv => ConfirmedUsable
  BY DEF GitHubInv
<1> QED
  BY <1>1, GitHubInvariance, PTL

\* Every disconnect that succeeds has drained what its slot held when it began.
THEOREM DisconnectsDrain == GitHubSpec => DisconnectDrains
<1>1. ASSUME GitHubInv, NEW q \in Calls, CommitDisconnect(q)
      PROVE  vault'[request[q].slot] \cap request[q].before = {}
  <2>1. request[q] \in VaultRequests /\ Underway(q)
    BY <1>1, RequestFields DEF GitHubInv, CommitDisconnect, At
  <2>2. vault[request[q].slot] \cap request[q].before = {} /\ vault \in [Slots -> SUBSET Tokens]
        /\ request[q].slot \in Slots
    BY <1>1, <2>1 DEF GitHubInv, GitHubTypeOK, CallSound, StillTrue, CommitDisconnect, At, VaultRequests
  <2> QED
    BY <1>1, <2>2 DEF CommitDisconnect
<1>2. GitHubInv => [\A q \in Calls : CommitDisconnect(q) =>
                      vault'[request[q].slot] \cap request[q].before = {}]_githubVars
  BY <1>1
<1> QED
  BY <1>2, GitHubInvariance, PTL DEF DisconnectDrains

\* An installation is bound from nobody, by an admin of its account whose
\* confirmed connection the vault still holds.
THEOREM BindingsBacked == GitHubSpec => BindingBacked
<1> DEFINE Backed(i) == /\ bound[i] = NoTenant
                        /\ \E s \in Slots : /\ TenantOf[s] = bound'[i] /\ <<s, i>> \in Admins
                                            /\ confirmed[s] \in vault[s]
<1>1. ASSUME GitHubInv, [GitHubNext]_githubVars, NEW i \in Installations,
             bound'[i] \notin {bound[i], NoTenant}
      PROVE  Backed(i)
  <2> USE DEF external
  <2>1. bound \in [Installations -> Tenants \cup {NoTenant}]
    BY <1>1 DEF GitHubInv, GitHubTypeOK
  <2>2. ASSUME NEW q \in Calls, CommitBinding(q) PROVE Backed(i)
    <3>1. request[q] \in VaultRequests /\ Underway(q)
      BY <1>1, <2>2, RequestFields DEF GitHubInv, CommitBinding, At
    <3>2. /\ <<request[q].slot, request[q].installation>> \in Admins /\ request[q].slot \in Slots
          /\ confirmed[request[q].slot] \in vault[request[q].slot]
      BY <1>1, <2>2, <3>1 DEF GitHubInv, CallSound, StillTrue, CommitBinding, At, VaultRequests
    <3>3. i = request[q].installation /\ bound'[i] = TenantOf[request[q].slot]
      BY <1>1, <2>1, <2>2 DEF CommitBinding
    <3> QED
      BY <1>1, <2>2, <3>2, <3>3 DEF CommitBinding, Bindable
  <2>3. ASSUME NEW q \in Calls, CommitDisconnect(q) PROVE FALSE
    BY <1>1, <2>1, <2>3 DEF CommitDisconnect
  <2>4. ASSUME NEW j \in Installations, UnbindRemoved(j) PROVE FALSE
    BY <1>1, <2>1, <2>4 DEF UnbindRemoved
  <2>5. CASE UNCHANGED bound
    BY <1>1, <2>5
  <2>6. CASE Enters
    BY <1>1, <2>5, <2>6, EntersBegins DEF GitHubInv
  <2> QED
    BY <1>1, <2>2, <2>3, <2>4, <2>5, <2>6
       DEF GitHubNext, githubVars, Enters, VaultToken, RemoveApp, FindRemoved, LoseWebhook,
           BeginConnect, IssueInstallationUrl, ExpireState, Issue, LoadPendingConnection,
           CommitConfirm, VerifyAccountAdministration, VerifyInstallationAccess, ReportToken,
           DeleteToken, ReportAbsent, RollBack, Proceed
<1>2. GitHubInv /\ [GitHubNext]_githubVars =>
        [\A i \in Installations : bound'[i] \notin {bound[i], NoTenant} => Backed(i)]_githubVars
  BY <1>1
<1> QED
  BY <1>2, GitHubInvariance, PTL DEF GitHubSpec, BindingBacked

-----------------------------------------------------------------------------
(* Trust policies. *)

PolicyRows == [at : {"present"}, tenant : Owners, pair : Pairs, conditions : Conditions,
               active : BOOLEAN]
Requests == [at : {"waiting", "locked", "admitted"}, op : {"create", "update"},
             id : Policies \cup {NoId}, tenant : Owners, pair : Pairs, conditions : Conditions]

PolicyTypeOK ==
    /\ policy \in [Policies -> PolicyRows \cup {NoPolicy, Deleted}]
    /\ admission \in [Admissions -> Requests \cup {NoAdmission}]

HoldsPair(a) == admission[a].at \in {"locked", "admitted"}

\* Of two transactions that hold a lock each holds another pair's.
LocksApart ==
    \A a, b \in Admissions : a # b /\ HoldsPair(a) /\ HoldsPair(b) =>
        admission[a].pair # admission[b].pair

\* The row an update has read is still of that tenant and pair, or deleted.
UpdatesTrue ==
    \A a \in Admissions : admission[a].at # "idle" =>
        LET r == admission[a] IN
        /\ r.op = "create" => r.id = NoId
        /\ r.op = "update" =>
             /\ r.id \in Policies
             /\ \/ policy[r.id] = Deleted
                \/ r.id \in Rows /\ policy[r.id].tenant = r.tenant /\ policy[r.id].pair = r.pair

\* What a transaction found when it was admitted still holds, because the rows of
\* its pair are written under its lock only.
AdmittedStill == \A a \in Admissions : admission[a].at = "admitted" => ~Conflicts(a)

PolicyInv == PolicyTypeOK /\ LocksApart /\ UpdatesTrue /\ AdmittedStill /\ PairsOwned

\* What the phases of rows and requests say of their form.
LEMMA PolicyForms ==
  ASSUME PolicyTypeOK
  PROVE  /\ \A p \in Policies : p \in Rows => policy[p] \in PolicyRows
         /\ \A p \in Policies : p \notin Rows => policy[p] \in {NoPolicy, Deleted}
         /\ \A a \in Admissions : admission[a].at # "idle" <=> admission[a] \in Requests
         /\ \A a \in Admissions : admission[a].at = "idle" => admission[a] = NoAdmission
         /\ NoPolicy # Deleted
BY DEF PolicyTypeOK, Rows, PolicyRows, Requests, NoPolicy, Deleted, NoAdmission

\* A request that changes its phase only, or ends, while no row changes.
LEMMA RequestStep ==
  ASSUME PolicyInv, UNCHANGED policy, NEW a \in Admissions, NEW r,
         admission' = [admission EXCEPT ![a] = r],
         r \in Requests \cup {NoAdmission},
         r.at \in {"locked", "admitted"} =>
             \A b \in Admissions \ {a} : HoldsPair(b) => admission[b].pair # r.pair,
         r.at # "idle" =>
             /\ r.op = "create" => r.id = NoId
             /\ r.op = "update" =>
                  /\ r.id \in Policies
                  /\ \/ policy[r.id] = Deleted
                     \/ r.id \in Rows /\ policy[r.id].tenant = r.tenant /\ policy[r.id].pair = r.pair,
         r.at = "admitted" => r = [admission[a] EXCEPT !.at = "admitted"] /\ ~Conflicts(a)
  PROVE  PolicyInv'
<1>0. PolicyTypeOK /\ LocksApart /\ UpdatesTrue /\ AdmittedStill /\ PairsOwned
  BY DEF PolicyInv
<1>1. admission'[a] = r /\ \A b \in Admissions \ {a} : admission'[b] = admission[b]
  BY <1>0 DEF PolicyTypeOK
<1>2. PolicyTypeOK'
  BY <1>0 DEF PolicyTypeOK
<1>3. LocksApart'
  BY <1>0, <1>1 DEF LocksApart, HoldsPair
<1>4. UpdatesTrue'
  BY <1>0, <1>1 DEF UpdatesTrue, Rows
<1>5. AdmittedStill'
  <2>1. ASSUME NEW b \in Admissions \ {a}, admission'[b].at = "admitted" PROVE ~Conflicts(b)'
    BY <1>0, <1>1, <2>1 DEF AdmittedStill, Conflicts, RowsOf, Rows
  <2>2. ASSUME r.at = "admitted" PROVE ~Conflicts(a)'
    <3>1. admission[a] \in Requests
      BY <1>0, <2>2 DEF PolicyTypeOK, Requests, NoAdmission
    <3>2. /\ r.pair = admission[a].pair /\ r.tenant = admission[a].tenant /\ r.op = admission[a].op
          /\ r.id = admission[a].id /\ r.conditions = admission[a].conditions
      BY <2>2, <3>1 DEF Requests
    <3> QED
      BY <1>1, <2>2, <3>2 DEF Conflicts, RowsOf, Rows
  <2> QED
    BY <1>1, <2>1, <2>2 DEF AdmittedStill
<1>6. PairsOwned'
  BY <1>0 DEF PairsOwned, Rows
<1> QED
  BY <1>2, <1>3, <1>4, <1>5, <1>6 DEF PolicyInv

\* A row is deleted or switched, without a lock.
LEMMA RowStep ==
  ASSUME PolicyInv, UNCHANGED admission, NEW p \in Rows, NEW row,
         policy' = [policy EXCEPT ![p] = row],
         \/ row = Deleted
         \/ /\ row \in PolicyRows /\ row.tenant = policy[p].tenant
            /\ row.pair = policy[p].pair /\ row.conditions = policy[p].conditions
  PROVE  PolicyInv'
<1>0. /\ PolicyTypeOK /\ LocksApart /\ UpdatesTrue /\ AdmittedStill /\ PairsOwned
      /\ p \in Policies
  BY DEF PolicyInv, Rows
<1>1. policy'[p] = row /\ \A q \in Policies \ {p} : policy'[q] = policy[q]
  BY <1>0 DEF PolicyTypeOK
<1>2. PolicyTypeOK'
  BY <1>0 DEF PolicyTypeOK
<1>3. /\ Rows' \subseteq Rows
      /\ \A q \in Rows' : /\ policy'[q].tenant = policy[q].tenant
                          /\ policy'[q].pair = policy[q].pair
                          /\ policy'[q].conditions = policy[q].conditions
  BY <1>0, <1>1 DEF Rows, Deleted
<1>4. LocksApart'
  BY <1>0 DEF LocksApart, HoldsPair
<1>5. UpdatesTrue'
  <2> SUFFICES ASSUME NEW a \in Admissions, admission[a].at # "idle",
                      admission[a].op = "update"
               PROVE  LET r == admission[a] IN
                      \/ policy'[r.id] = Deleted
                      \/ /\ r.id \in Rows' /\ policy'[r.id].tenant = r.tenant
                         /\ policy'[r.id].pair = r.pair
    BY <1>0 DEF UpdatesTrue
  <2> DEFINE i == admission[a].id
  <2>1. /\ i \in Policies
        /\ \/ policy[i] = Deleted
           \/ /\ i \in Rows /\ policy[i].tenant = admission[a].tenant
              /\ policy[i].pair = admission[a].pair
    BY <1>0 DEF UpdatesTrue
  <2>2. CASE i = p /\ row # Deleted
    <3>1. p \in Rows' /\ policy[p] # Deleted
      BY <1>0, <1>1, <2>2 DEF Rows, PolicyRows, Deleted
    <3> QED
      BY <1>1, <2>1, <2>2, <3>1
  <2>3. CASE i # p
    BY <1>1, <2>1, <2>3 DEF Rows
  <2> QED
    BY <1>1, <2>2, <2>3
<1>6. AdmittedStill'
  BY <1>0, <1>3 DEF AdmittedStill, Conflicts, RowsOf
<1>7. PairsOwned'
  BY <1>0, <1>3 DEF PairsOwned
<1> QED
  BY <1>2, <1>4, <1>5, <1>6, <1>7 DEF PolicyInv

\* An admitted request writes its row.
LEMMA AdmittedWrites ==
  ASSUME PolicyInv, NEW a \in Admissions, admission[a].at = "admitted",
         admission' = [admission EXCEPT ![a] = NoAdmission],
         NEW p \in Policies, NEW row \in PolicyRows,
         policy' = [policy EXCEPT ![p] = row],
         row.tenant = admission[a].tenant, row.pair = admission[a].pair,
         row.conditions = admission[a].conditions,
         \/ admission[a].op = "create" /\ policy[p] = NoPolicy
         \/ admission[a].op = "update" /\ p = admission[a].id /\ p \in Rows
  PROVE  PolicyInv'
<1> DEFINE r == admission[a]
<1>0. /\ PolicyTypeOK /\ LocksApart /\ UpdatesTrue /\ AdmittedStill /\ PairsOwned
      /\ r \in Requests
  BY PolicyForms DEF PolicyInv
<1>1. policy'[p] = row /\ \A q \in Policies \ {p} : policy'[q] = policy[q]
  BY <1>0 DEF PolicyTypeOK
<1>2. /\ admission'[a] = NoAdmission /\ ~HoldsPair(a)'
      /\ \A b \in Admissions \ {a} : admission'[b] = admission[b]
  BY <1>0 DEF PolicyTypeOK, HoldsPair, NoAdmission
<1>3. PolicyTypeOK'
  BY <1>0 DEF PolicyTypeOK
<1>4. Rows' = Rows \cup {p} /\ p \in Rows' /\ \A q \in Rows' : q \in Policies
  BY <1>1 DEF Rows, PolicyRows
<1>5. LocksApart'
  BY <1>0, <1>2 DEF LocksApart, HoldsPair
<1>6. UpdatesTrue'
  <2> SUFFICES ASSUME NEW b \in Admissions \ {a}, admission[b].at # "idle",
                      admission[b].op = "update"
               PROVE  LET i == admission[b].id IN
                      \/ policy'[i] = Deleted
                      \/ /\ i \in Rows' /\ policy'[i].tenant = admission[b].tenant
                         /\ policy'[i].pair = admission[b].pair
    BY <1>0, <1>2 DEF UpdatesTrue, NoAdmission
  <2> DEFINE i == admission[b].id
  <2>1. /\ i \in Policies
        /\ \/ policy[i] = Deleted
           \/ i \in Rows /\ policy[i].tenant = admission[b].tenant /\ policy[i].pair = admission[b].pair
    BY <1>0 DEF UpdatesTrue
  <2>2. CASE i = p
    <3>1. i \in Rows
      BY <2>1, <2>2, PolicyForms, <1>0 DEF Rows, Deleted, NoPolicy
    <3>2. r.op = "update" /\ r.id = p
      BY <2>2, <3>1 DEF Rows, NoPolicy
    <3>3. policy[p].tenant = r.tenant /\ policy[p].pair = r.pair /\ policy[p] # Deleted
      BY <1>0, <2>2, <3>1, <3>2 DEF UpdatesTrue, Rows, Deleted
    <3> QED
      BY <1>1, <1>4, <2>1, <2>2, <3>3
  <2>3. CASE i # p
    BY <1>1, <1>4, <2>1, <2>3
  <2> QED
    BY <2>2, <2>3
<1>7. AdmittedStill'
  <2> SUFFICES ASSUME NEW b \in Admissions \ {a}, admission[b].at = "admitted",
                      Conflicts(b)' PROVE FALSE
    BY <1>2 DEF AdmittedStill, NoAdmission
  <2>1. admission[b].pair # r.pair
    BY <1>0 DEF LocksApart, HoldsPair
  <2>2. PICK q \in RowsOf(admission[b].pair)' :
            \/ admission[b].op = "create" /\ policy'[q].tenant # admission[b].tenant
            \/ q # admission[b].id /\ policy'[q].conditions = admission[b].conditions
    BY <1>2 DEF Conflicts
  <2>3. q # p
    BY <1>1, <1>2, <2>1, <2>2 DEF RowsOf
  <2>4. q \in RowsOf(admission[b].pair) /\ policy'[q] = policy[q]
    BY <1>1, <1>2, <1>4, <2>2, <2>3 DEF RowsOf
  <2> QED
    BY <1>0, <2>2, <2>4 DEF AdmittedStill, Conflicts
<1>8. PairsOwned'
  <2>1. \A q \in Rows : q # p /\ policy[q].pair = r.pair =>
            policy[q].tenant = r.tenant /\ policy[q].conditions # r.conditions
    <3> SUFFICES ASSUME NEW q \in Rows, q # p, policy[q].pair = r.pair
                 PROVE  policy[q].tenant = r.tenant /\ policy[q].conditions # r.conditions
      OBVIOUS
    <3>1. q \in RowsOf(r.pair) /\ ~Conflicts(a)
      BY <1>0 DEF RowsOf, AdmittedStill
    <3>2. CASE r.op = "create"
      <4>1. q # r.id
        BY <1>0, <3>2, PolicyAssumption DEF UpdatesTrue, Rows
      <4> QED
        BY <3>1, <3>2, <4>1 DEF Conflicts
    <3>3. CASE r.op = "update"
      <4>1. p = r.id /\ p \in Rows
        BY <3>3
      <4>2. policy[p].tenant = r.tenant /\ policy[p].pair = r.pair
        BY <1>0, <3>3, <4>1 DEF UpdatesTrue, Rows, Deleted
      <4>3. policy[q].tenant = policy[p].tenant
        BY <1>0, <4>1, <4>2 DEF PairsOwned
      <4> QED
        BY <3>1, <4>1, <4>2, <4>3 DEF Conflicts
    <3> QED
      BY <1>0, <3>2, <3>3 DEF Requests
  <2> QED
    BY <1>0, <1>1, <1>4, <2>1 DEF PairsOwned
<1> QED
  BY <1>3, <1>5, <1>6, <1>7, <1>8 DEF PolicyInv

\* Every step keeps the invariant.
LEMMA PolicyStep == PolicyInv /\ [PolicyNext]_policyVars => PolicyInv'
<1> SUFFICES ASSUME PolicyInv, [PolicyNext]_policyVars PROVE PolicyInv'
  OBVIOUS
<1>0. PolicyTypeOK /\ LocksApart /\ UpdatesTrue /\ AdmittedStill /\ PairsOwned
  BY DEF PolicyInv
<1>1. ASSUME NEW a \in Admissions, NEW o \in Owners, NEW x \in Pairs, NEW c \in Conditions,
             BeginCreate(a, o, x, c) PROVE PolicyInv'
  <2> DEFINE r == Asked("create", NoId, o, x, c)
  <2>1. r \in Requests /\ r.at = "waiting" /\ r.op = "create" /\ r.id = NoId
    BY DEF Asked, Requests
  <2>2. admission' = [admission EXCEPT ![a] = r] /\ UNCHANGED policy
    BY <1>1 DEF BeginCreate
  <2> HIDE DEF r
  <2> QED
    BY <2>1, <2>2, RequestStep
<1>2. ASSUME NEW a \in Admissions, NEW p \in Policies, NEW c \in Conditions,
             BeginUpdate(a, p, c) PROVE PolicyInv'
  <2> DEFINE r == Asked("update", p, policy[p].tenant, policy[p].pair, c)
  <2>1. p \in Rows /\ policy[p] \in PolicyRows
    BY <1>0, <1>2, PolicyForms DEF BeginUpdate
  <2>2. /\ r \in Requests /\ r.at = "waiting" /\ r.op = "update" /\ r.id = p
        /\ r.tenant = policy[p].tenant /\ r.pair = policy[p].pair
    BY <2>1 DEF Asked, Requests, PolicyRows
  <2>3. admission' = [admission EXCEPT ![a] = r] /\ UNCHANGED policy
    BY <1>2 DEF BeginUpdate
  <2> HIDE DEF r
  <2> QED
    BY <2>1, <2>2, <2>3, RequestStep
<1>3. ASSUME NEW a \in Admissions, LockPair(a) \/ Admit(a) PROVE PolicyInv'
  <2> DEFINE r == [admission[a] EXCEPT !.at = IF LockPair(a) THEN "locked" ELSE "admitted"]
  <2>1. admission[a] \in Requests
    BY <1>0, <1>3, PolicyForms DEF LockPair, Admit
  <2>2. /\ admission' = [admission EXCEPT ![a] = r] /\ UNCHANGED policy
    BY <1>0, <1>3 DEF LockPair, Admit, PolicyTypeOK
  <2>3. /\ r \in Requests /\ r.op = admission[a].op /\ r.id = admission[a].id
        /\ r.tenant = admission[a].tenant /\ r.pair = admission[a].pair
        /\ r.at = IF LockPair(a) THEN "locked" ELSE "admitted"
    BY <2>1 DEF Requests
  <2>4. \A b \in Admissions \ {a} : HoldsPair(b) => admission[b].pair # r.pair
    <3>1. CASE LockPair(a)
      BY <2>3, <3>1 DEF LockPair, PairFree, HoldsPair
    <3>2. CASE Admit(a)
      BY <1>0, <2>3, <3>2 DEF Admit, LocksApart, HoldsPair
    <3> QED
      BY <1>3, <3>1, <3>2
  <2>5. /\ r.op = "create" => r.id = NoId
        /\ r.op = "update" =>
             /\ r.id \in Policies
             /\ \/ policy[r.id] = Deleted
                \/ r.id \in Rows /\ policy[r.id].tenant = r.tenant /\ policy[r.id].pair = r.pair
    <3>1. admission[a].at # "idle"
      BY <1>3 DEF LockPair, Admit
    <3> QED
      BY <1>0, <2>3, <3>1 DEF UpdatesTrue
  <2>6. r.at = "admitted" => r = [admission[a] EXCEPT !.at = "admitted"] /\ ~Conflicts(a)
    BY <1>3, <2>3 DEF Admit
  <2> HIDE DEF r
  <2> QED
    BY <2>2, <2>3, <2>4, <2>5, <2>6, RequestStep
<1>4. ASSUME NEW a \in Admissions, CommitCreate(a) PROVE PolicyInv'
  <2> DEFINE unused == {p \in Policies : policy[p] = NoPolicy}
             p == CHOOSE p \in unused : TRUE
             r == admission[a]
  <2>1. p \in Policies /\ policy[p] = NoPolicy
    <3>1. p \in unused
      BY <1>4 DEF CommitCreate
    <3> QED
      BY <3>1
  <2>2. PICK active \in BOOLEAN :
          policy' = [policy EXCEPT ![p] = Row(r.tenant, r.pair, r.conditions, active)]
    BY <1>4 DEF CommitCreate
  <2>3. /\ r.at = "admitted" /\ r.op = "create"
        /\ admission' = [admission EXCEPT ![a] = NoAdmission]
    BY <1>4 DEF CommitCreate, Ends
  <2>4. r \in Requests
    BY <1>0, <2>3, PolicyForms
  <2> DEFINE row == Row(r.tenant, r.pair, r.conditions, active)
  <2>5. /\ row \in PolicyRows /\ row.tenant = r.tenant /\ row.pair = r.pair
        /\ row.conditions = r.conditions
    BY <2>4 DEF Row, PolicyRows, Requests
  <2> HIDE DEF p, row
  <2> QED
    BY <2>1, <2>2, <2>3, <2>5, AdmittedWrites DEF row
<1>5. ASSUME NEW a \in Admissions, CommitUpdate(a) PROVE PolicyInv'
  <2> DEFINE r == admission[a]
             p == r.id
  <2>1. PICK active \in BOOLEAN :
          policy' = [policy EXCEPT ![r.id].conditions = r.conditions, ![r.id].active = active]
    BY <1>5 DEF CommitUpdate
  <2> DEFINE row == [policy[p] EXCEPT !.conditions = r.conditions, !.active = active]
  <2>2. /\ r.at = "admitted" /\ r.op = "update" /\ p \in Rows
        /\ admission' = [admission EXCEPT ![a] = NoAdmission]
    BY <1>5 DEF CommitUpdate, Ends
  <2>3. r \in Requests /\ p \in Policies /\ policy[p] \in PolicyRows
    BY <1>0, <2>2, PolicyForms DEF Rows
  <2>4. policy[p].tenant = r.tenant /\ policy[p].pair = r.pair
    BY <1>0, <2>2 DEF UpdatesTrue, Rows, Deleted
  <2>5. policy' = [policy EXCEPT ![p] = row]
    BY <1>0, <2>1, <2>3 DEF PolicyTypeOK
  <2>6. /\ row \in PolicyRows /\ row.tenant = r.tenant /\ row.pair = r.pair
        /\ row.conditions = r.conditions
    BY <2>3, <2>4 DEF PolicyRows, Requests
  <2> HIDE DEF row
  <2> QED
    BY <2>2, <2>3, <2>5, <2>6, AdmittedWrites
<1>6. ASSUME NEW a \in Admissions, RefuseAdmission(a) PROVE PolicyInv'
  <2>1. admission' = [admission EXCEPT ![a] = NoAdmission] /\ UNCHANGED policy
    BY <1>6 DEF RefuseAdmission, Ends
  <2> QED
    BY <2>1, RequestStep DEF NoAdmission
<1>7. ASSUME NEW p \in Policies, NEW active \in BOOLEAN, SetActive(p, active) PROVE PolicyInv'
  <2> DEFINE row == [policy[p] EXCEPT !.active = active]
  <2>1. p \in Rows /\ policy[p] \in PolicyRows
    BY <1>0, <1>7, PolicyForms DEF SetActive
  <2>2. policy' = [policy EXCEPT ![p] = row] /\ UNCHANGED admission
    BY <1>0, <1>7 DEF SetActive, PolicyTypeOK
  <2>3. /\ row \in PolicyRows /\ row.tenant = policy[p].tenant
        /\ row.pair = policy[p].pair /\ row.conditions = policy[p].conditions
    BY <2>1 DEF PolicyRows
  <2> HIDE DEF row
  <2> QED
    BY <2>1, <2>2, <2>3, RowStep
<1>8. ASSUME NEW p \in Policies, DeletePolicy(p) PROVE PolicyInv'
  <2>1. p \in Rows /\ policy' = [policy EXCEPT ![p] = Deleted] /\ UNCHANGED admission
    BY <1>8 DEF DeletePolicy
  <2> QED
    BY <2>1, RowStep
<1>9. CASE UNCHANGED policyVars
  BY <1>0, <1>9 DEF policyVars, PolicyInv, PolicyTypeOK, LocksApart, HoldsPair, UpdatesTrue,
                    AdmittedStill, Conflicts, RowsOf, Rows, PairsOwned
<1> QED
  BY <1>1, <1>2, <1>3, <1>4, <1>5, <1>6, <1>7, <1>8, <1>9 DEF PolicyNext

\* The admissions' locks, and what they have found, hold whatever tenants do.
THEOREM PolicyInvariance == PolicySpec => []PolicyInv
<1>1. PolicyInit => PolicyInv
  BY DEF PolicyInit, PolicyInv, PolicyTypeOK, LocksApart, HoldsPair, UpdatesTrue, AdmittedStill,
         PairsOwned, Rows, NoPolicy, NoAdmission
<1> QED
  BY <1>1, PolicyStep, PTL DEF PolicySpec

\* The policies of an organisation's name and an issuer are one tenant's.
THEOREM PairsStayOwned == PolicySpec => []PairsOwned
<1>1. PolicyInv => PairsOwned
  BY DEF PolicyInv
<1> QED
  BY <1>1, PolicyInvariance, PTL

-----------------------------------------------------------------------------
(* Search: the invariant. *)

\* The cursor says exactly where the page ended: a walk by name, or a table whose
\* timestamps have no more digits than the cursor's.
CursorExact == Sorts \subseteq {"name"} \/ MicrosPerMilli = 1

ListedRows == [project : Projects, name : Names, created : Nat, updated : Nat]
Orders == {"asc", "desc"}
FirstPageWalks ==
    [at : {"start", "finished"}, sortBy : Sorts, order : Orders, size : PageSizes,
     shown : SUBSET Ids, again : SUBSET Ids]
TokenWalks ==
    [at : {"token", "finished"}, value : Int, id : Ids, sortBy : Sorts, order : Orders,
     size : PageSizes, shown : SUBSET Ids, again : SUBSET Ids]

\* The values of the table and of a walk.
SearchTypeOK ==
    /\ listed \in [Ids -> ListedRows \cup {NoRow}]
    /\ micros \in Nat
    /\ walk \in {NoWalk} \cup FirstPageWalks \cup TokenWalks
    /\ steady \subseteq Present

\* A stack that has kept its place was shown exactly if it is not beyond the cursor.
ShownSoFar ==
    /\ walk.at \in {"none", "start"} => walk = NoWalk \/ walk.shown = {}
    /\ walk.at = "none" => steady = {}
    /\ walk.at = "token" => \A id \in steady : id \in walk.shown <=> ~Beyond(id)

\* The inductive invariant of a search.
SearchInv == SearchTypeOK /\ ShownSoFar /\ WalkComplete

-----------------------------------------------------------------------------
(* The order of a walk. *)

\* Follows is a strict total order on pairs of a sort value and an id.
LEMMA FollowsOrder ==
  ASSUME NEW v \in Int, NEW a \in Int, NEW u \in Int, NEW b \in Int, NEW w \in Int, NEW c \in Int
  PROVE  /\ ~Follows(v, a, v, a)
         /\ Follows(v, a, u, b) /\ Follows(u, b, w, c) => Follows(v, a, w, c)
         /\ a # b => Follows(v, a, u, b) \/ Follows(u, b, v, a)
         /\ ~(Follows(v, a, u, b) /\ Follows(u, b, v, a))
BY DEF Follows, After

\* The value that a walk sorts a row by.
LEMMA ValueType ==
  ASSUME SearchTypeOK, walk # NoWalk, NEW id \in Present
  PROVE  Value(id) \in Nat /\ id \in Nat
<1>1. walk.sortBy \in {"name", "created", "lastUpdated"}
  BY SearchAssumption DEF SearchTypeOK, FirstPageWalks, TokenWalks
<1>2. listed[id] \in ListedRows /\ id \in Ids
  BY DEF SearchTypeOK, Present
<1>3. listed[id].name \in Nat /\ listed[id].created \in Nat /\ listed[id].updated \in Nat
  BY <1>2, SearchAssumption DEF ListedRows
<1> QED
  BY <1>1, <1>2, <1>3, SearchAssumption DEF Value, SortValue

\* A page that is not empty has a last row.
LEMMA LastOfPage ==
  ASSUME SearchTypeOK, walk # NoWalk, NEW page \in SUBSET Present, page # {}
  PROVE  /\ LastOf(page) \in page
         /\ \A jd \in page \ {LastOf(page)} :
               Follows(Value(LastOf(page)), LastOf(page), Value(jd), jd)
<1> DEFINE R == {p \in page \X page : Follows(Value(p[2]), p[2], Value(p[1]), p[1])}
<1>1. IsFiniteSet(page)
  BY FS_Subset, SearchAssumption DEF Present
<1>2. \A a \in page : Value(a) \in Int /\ a \in Int
  BY ValueType
<1>3. \A a, b \in page : <<a, b>> \in R <=> Follows(Value(b), b, Value(a), a)
  OBVIOUS
<1> HIDE DEF R
<1>4. \A a \in page : <<a, a>> \notin R
  BY <1>2, <1>3, FollowsOrder
<1>5. \A a, b, c \in page : <<a, b>> \in R /\ <<b, c>> \in R => <<a, c>> \in R
  BY <1>2, <1>3, FollowsOrder
<1>6. \A a, b \in page : a # b => <<a, b>> \in R \/ <<b, a>> \in R
  BY <1>2, <1>3, FollowsOrder
<1>7. PICK a \in page : \A b \in page \ {a} : <<b, a>> \in R
  BY <1>1, <1>4, <1>5, <1>6, LastExists
<1>8. \E id \in page : \A jd \in page \ {id} : Follows(Value(id), id, Value(jd), jd)
  BY <1>3, <1>7
<1> QED
  BY <1>8 DEF LastOf

\* The token carries the sort value as it is.
LEMMA TokenExact ==
  ASSUME SearchTypeOK, walk # NoWalk, CursorExact, NEW id \in Present
  PROVE  TokenValue(id) = Value(id)
<1>1. Value(id) \in Nat
  BY ValueType
<1>2. walk.sortBy \in Sorts
  BY DEF SearchTypeOK, FirstPageWalks, TokenWalks
<1> QED
  BY <1>1, <1>2 DEF TokenValue, CursorExact

-----------------------------------------------------------------------------
(* The steps. *)

\* What keeps its place in a change of the table keeps its sort value and its row.
LEMMA StoreKeeps ==
  ASSUME SearchInv, NEW id \in Ids, NEW row \in ListedRows \cup {NoRow}, Store(id, row)
  PROVE  /\ listed' \in [Ids -> ListedRows \cup {NoRow}]
         /\ steady' \subseteq steady /\ steady' \subseteq Present'
         /\ walk' = walk
         /\ walk # NoWalk => \A jd \in steady' : Value(jd)' = Value(jd)
<1> USE DEF SearchInv, SearchTypeOK
<1>1. listed' \in [Ids -> ListedRows \cup {NoRow}] /\ walk' = walk /\ steady' \subseteq steady
  BY DEF Store
<1>2. \A jd \in Ids : jd # id => listed'[jd] = listed[jd]
  BY DEF Store
<1>3. listed'[id] = row
  BY DEF Store
<1>4. id \in steady' => row # NoRow /\ SortValue(row, walk.sortBy) = SortValue(listed[id], walk.sortBy)
  BY DEF Store
<1>5. steady' \subseteq Present'
  BY <1>1, <1>2, <1>3, <1>4 DEF Present
<1>6. ASSUME NEW jd \in steady'
      PROVE  Value(jd)' = Value(jd)
  <2>1. jd \in Ids
    BY <1>1 DEF Present
  <2> QED
    BY <1>1, <1>2, <1>3, <1>4, <2>1 DEF Value, SortValue
<1> QED
  BY <1>1, <1>5, <1>6

\* A change of the table keeps the invariant.
LEMMA StoreStep ==
  ASSUME SearchInv, NEW id \in Ids, NEW row \in ListedRows \cup {NoRow}, Store(id, row), micros' \in Nat
  PROVE  SearchInv'
<1>1. /\ listed' \in [Ids -> ListedRows \cup {NoRow}]
      /\ steady' \subseteq steady /\ steady' \subseteq Present'
      /\ walk' = walk
      /\ walk # NoWalk => \A jd \in steady' : Value(jd)' = Value(jd)
  BY StoreKeeps
<1>2. SearchTypeOK'
  BY <1>1 DEF SearchInv, SearchTypeOK
<1>3. WalkComplete'
  BY <1>1 DEF SearchInv, WalkComplete
<1>4. ASSUME walk.at = "token", NEW jd \in steady'
      PROVE  Beyond(jd)' <=> Beyond(jd)
  <2>1. walk # NoWalk
    BY <1>4 DEF NoWalk
  <2>2. Value(jd)' = Value(jd)
    BY <1>1, <1>4, <2>1
  <2> QED
    BY <1>1, <2>2 DEF Beyond, Follows
<1>5. ShownSoFar'
  BY <1>1, <1>4 DEF SearchInv, ShownSoFar
<1> QED
  BY <1>2, <1>3, <1>5 DEF SearchInv

\* The four operations that change the table keep the invariant.
LEMMA TableStep ==
  ASSUME SearchInv, NEW id \in Ids,
         \/ \E p \in Projects, n \in Names : CreateListed(id, p, n)
         \/ DeleteListed(id)
         \/ \E n \in Names : RenameListed(id, n)
         \/ TagListed(id)
  PROVE  SearchInv'
<1>1. listed \in [Ids -> ListedRows \cup {NoRow}] /\ micros \in Nat
  BY DEF SearchInv, SearchTypeOK
<1>2. CASE \E p \in Projects, n \in Names : CreateListed(id, p, n)
  <2>1. PICK p \in Projects, n \in Names : CreateListed(id, p, n)
    BY <1>2
  <2>2. micros' \in Nat
    BY <1>1, <2>1, SearchAssumption DEF CreateListed, Now
  <2>3. [project |-> p, name |-> n, created |-> micros', updated |-> micros'] \in ListedRows
    BY <2>2 DEF ListedRows
  <2> QED
    BY <2>1, <2>2, <2>3, StoreStep DEF CreateListed
<1>3. CASE DeleteListed(id)
  BY <1>1, <1>3, StoreStep DEF DeleteListed
<1>4. CASE \E n \in Names : RenameListed(id, n)
  <2>1. PICK n \in Names : RenameListed(id, n)
    BY <1>4
  <2>2. micros' \in Nat
    <3>1. micros' \in micros..MaxMicros
      BY <2>1 DEF RenameListed, Now
    <3> QED
      BY <1>1, <3>1, SearchAssumption
  <2>3. listed[id] \in ListedRows
    BY <1>1, <2>1 DEF RenameListed, Present
  <2>4. [listed[id] EXCEPT !.name = n, !.updated = micros'] \in ListedRows
    BY <2>2, <2>3 DEF ListedRows
  <2> QED
    BY <2>1, <2>2, <2>4, StoreStep DEF RenameListed
<1>5. CASE TagListed(id)
  <2>2. micros' \in Nat
    BY <1>1, <1>5, SearchAssumption DEF TagListed, Now
  <2>3. listed[id] \in ListedRows
    BY <1>1, <1>5 DEF TagListed, Present
  <2>4. [listed[id] EXCEPT !.updated = micros'] \in ListedRows
    BY <2>2, <2>3 DEF ListedRows
  <2> QED
    BY <1>5, <2>2, <2>4, StoreStep DEF TagListed
<1> QED
  BY <1>2, <1>3, <1>4, <1>5

\* A walk that begins has shown nothing yet.
LEMMA BeginWalkStep ==
  ASSUME SearchInv, NEW sortBy \in Sorts, NEW order \in Orders, NEW size \in PageSizes,
         BeginWalk(sortBy, order, size)
  PROVE  SearchInv'
<1>1. walk' \in FirstPageWalks /\ walk'.at = "start" /\ walk'.shown = {} /\ walk'.again = {}
  BY DEF BeginWalk, FirstPageWalks
<1>2. SearchTypeOK'
  BY <1>1 DEF SearchInv, SearchTypeOK, BeginWalk, Present
<1>3. ShownSoFar'
  BY <1>1 DEF ShownSoFar
<1>4. WalkComplete'
  BY <1>1 DEF WalkComplete
<1> QED
  BY <1>2, <1>3, <1>4 DEF SearchInv

\* A walk that is not over has not yet shown what remains.
LEMMA RemainingUnseen ==
  ASSUME SearchInv, walk.at \in {"start", "token"}, NEW id \in steady
  PROVE  id \in Remaining <=> id \notin walk.shown
<1>1. walk # NoWalk /\ id \in Present
  BY DEF NoWalk, SearchInv, SearchTypeOK
<1> QED
  BY <1>1 DEF SearchInv, ShownSoFar, Remaining

\* After a page the last row of it is the cursor, and what has kept its place is
\* beyond it exactly if it was not shown.
LEMMA PageShown ==
  ASSUME SearchInv, walk.at \in {"start", "token"}, NEW page \in SUBSET Present, Page(page),
         page # Remaining, NEW id \in steady
  PROVE  /\ page # {}
         /\ id \in walk.shown \cup page
               <=> ~Follows(Value(id), id, Value(LastOf(page)), LastOf(page))
<1> DEFINE last == LastOf(page)
<1>1. walk # NoWalk /\ SearchTypeOK /\ id \in Present
  BY DEF NoWalk, SearchInv, SearchTypeOK
<1>2. walk.size \in Nat \ {0} /\ walk.order \in Orders
  BY <1>1, SearchAssumption DEF SearchTypeOK, FirstPageWalks, TokenWalks
<1>3. page # {}
  BY <1>2, FS_EmptySet DEF Page
<1>4. /\ last \in page
      /\ \A jd \in page \ {last} : Follows(Value(last), last, Value(jd), jd)
  BY <1>1, <1>3, LastOfPage
<1>5. /\ \A jd \in Present : Value(jd) \in Int /\ jd \in Int
      /\ last \in Present /\ last \in Remaining
  BY <1>1, <1>4, ValueType DEF Page
<1> HIDE DEF last
<1>6. CASE id \in page
  <2>1. ~Follows(Value(last), last, Value(last), last)
    BY <1>5, FollowsOrder
  <2>2. id # last => Follows(Value(last), last, Value(id), id)
    BY <1>4, <1>6
  <2>3. id # last => ~Follows(Value(id), id, Value(last), last)
    BY <1>1, <1>5, <2>2, FollowsOrder
  <2> QED
    BY <1>3, <1>6, <2>1, <2>3 DEF last
<1>7. CASE id \in Remaining \ page
  <2>1. Follows(Value(id), id, Value(last), last)
    BY <1>4, <1>7 DEF Page
  <2>2. id \notin walk.shown
    BY <1>7, RemainingUnseen
  <2> QED
    BY <1>3, <1>7, <2>1, <2>2 DEF last
<1>8. CASE id \notin Remaining
  <2>1. id \in walk.shown /\ walk.at = "token"
    BY <1>1, <1>8, RemainingUnseen DEF Remaining
  <2>2. walk.value \in Int /\ walk.id \in Int
    <3>1. walk \in TokenWalks
      BY <1>1, <2>1 DEF SearchTypeOK, FirstPageWalks
    <3>2. walk.value \in Int /\ walk.id \in Ids
      BY <3>1 DEF TokenWalks
    <3>3. Ids \subseteq Nat
      BY SearchAssumption
    <3>4. walk.id \in Nat
      BY <3>2, <3>3
    <3> QED
      BY <3>2, <3>4
  <2>3. ~Follows(Value(id), id, walk.value, walk.id)
    BY <1>1, <1>8, <2>1 DEF Remaining, Beyond
  <2>4. Follows(Value(last), last, walk.value, walk.id)
    BY <1>5, <2>1 DEF Remaining, Beyond
  <2>5. ~Follows(Value(id), id, Value(last), last)
    BY <1>1, <1>5, <2>2, <2>3, <2>4, FollowsOrder
  <2> QED
    BY <1>3, <2>1, <2>5 DEF last
<1> QED
  BY <1>6, <1>7, <1>8 DEF last, Page

\* A page moves the cursor behind its last row, or ends the walk.
LEMMA PageStep ==
  ASSUME CursorExact, SearchInv, NEW page \in SUBSET Present, SearchStacks(page)
  PROVE  SearchInv'
<1>1. /\ walk.at \in {"start", "token"} /\ Page(page)
      /\ listed' = listed /\ micros' = micros /\ steady' = steady
  BY DEF SearchStacks
<1>2. walk # NoWalk /\ walk \in FirstPageWalks \cup TokenWalks /\ SearchTypeOK
  BY <1>1 DEF NoWalk, SearchInv, SearchTypeOK
<1>3. /\ walk.again \cap steady = {}
      /\ walk.shown \cap page \cap steady = {}
  <2>1. walk.again \cap steady = {}
    BY <1>2 DEF SearchInv, WalkComplete
  <2> QED
    BY <1>1, <2>1, RemainingUnseen DEF Page
<1>4. Present' = Present
  BY <1>1 DEF Present
<1>5. CASE page = Remaining
  <2>1. walk' = [walk EXCEPT !.shown = walk.shown \cup page,
                             !.again = walk.again \cup (walk.shown \cap page), !.at = "finished"]
    BY <1>5 DEF SearchStacks, Shown
  <2>2. /\ walk' \in FirstPageWalks \cup TokenWalks /\ walk'.at = "finished"
        /\ walk'.shown = walk.shown \cup page
        /\ walk'.again = walk.again \cup (walk.shown \cap page)
    BY <1>2, <2>1 DEF FirstPageWalks, TokenWalks, Present
  <2>3. steady \subseteq walk'.shown
    BY <1>1, <1>5, <2>2, RemainingUnseen
  <2>4. SearchTypeOK'
    BY <1>1, <1>2, <1>4, <2>2 DEF SearchTypeOK
  <2> QED
    BY <1>1, <1>3, <2>2, <2>3, <2>4 DEF SearchInv, ShownSoFar, WalkComplete
<1>6. CASE page # Remaining
  <2>1. page # {} /\ LastOf(page) \in page
    <3>1. page # {}
      BY <1>1, <1>2, <1>6, FS_EmptySet, SearchAssumption
      DEF Page, FirstPageWalks, TokenWalks
    <3> QED
      BY <1>2, <3>1, LastOfPage
  <2>2. walk' = [at |-> "token", value |-> TokenValue(LastOf(page)), id |-> LastOf(page),
                 sortBy |-> walk.sortBy, order |-> walk.order, size |-> walk.size,
                 shown |-> walk.shown \cup page,
                 again |-> walk.again \cup (walk.shown \cap page)]
    BY <1>2, <1>6 DEF SearchStacks, Shown, FirstPageWalks, TokenWalks
  <2>3. TokenValue(LastOf(page)) = Value(LastOf(page)) /\ Value(LastOf(page)) \in Int
    BY <1>2, <2>1, TokenExact, ValueType
  <2>4. /\ walk' \in TokenWalks /\ walk'.at = "token"
        /\ walk'.shown = walk.shown \cup page
        /\ walk'.again = walk.again \cup (walk.shown \cap page)
        /\ walk'.value = Value(LastOf(page)) /\ walk'.id = LastOf(page)
        /\ walk'.sortBy = walk.sortBy /\ walk'.order = walk.order
    BY <1>2, <2>1, <2>2, <2>3 DEF FirstPageWalks, TokenWalks, Present
  <2>5. SearchTypeOK'
    BY <1>1, <1>2, <1>4, <2>4 DEF SearchTypeOK
  <2>6. ASSUME NEW id \in steady
        PROVE  id \in walk'.shown <=> ~Beyond(id)'
    <3>1. Value(id)' = Value(id)
      BY <1>1, <2>4 DEF Value
    <3>2. Beyond(id)' <=> Follows(Value(id), id, Value(LastOf(page)), LastOf(page))
      BY <2>4, <3>1 DEF Beyond, Follows
    <3> QED
      BY <1>1, <1>6, <2>4, <3>2, PageShown
  <2>7. ShownSoFar'
    BY <1>1, <2>4, <2>6 DEF ShownSoFar
  <2>8. WalkComplete'
    BY <1>1, <1>3, <2>4 DEF WalkComplete
  <2> QED
    BY <2>5, <2>7, <2>8 DEF SearchInv
<1> QED
  BY <1>5, <1>6

\* A walk through a search shows each stack that kept its place all along exactly
\* once, for any table, any names, page sizes and orders, and any changes around
\* it: by name, and by a timestamp if the cursor keeps all of its digits.
THEOREM WalkIsComplete ==
  ASSUME CursorExact
  PROVE  SearchSpec => []WalkComplete
<1>1. SearchInit => SearchInv
  BY DEF SearchInit, SearchInv, SearchTypeOK, ShownSoFar, WalkComplete, NoWalk, Present
<1>2. SearchInv /\ [SearchNext]_searchVars => SearchInv'
  <2> SUFFICES ASSUME SearchInv, [SearchNext]_searchVars PROVE SearchInv'
    OBVIOUS
  <2>1. CASE NextPage
    BY <2>1, PageStep DEF NextPage
  <2>2. ASSUME NEW sortBy \in Sorts, NEW order \in {"asc", "desc"}, NEW size \in PageSizes,
               BeginWalk(sortBy, order, size)
        PROVE  SearchInv'
    BY <2>2, BeginWalkStep DEF Orders
  <2>3. CASE UNCHANGED searchVars
    <3>1. /\ listed' = listed /\ micros' = micros /\ walk' = walk /\ steady' = steady
      BY <2>3 DEF searchVars
    <3> QED
      BY <3>1 DEF SearchInv, SearchTypeOK, ShownSoFar, WalkComplete, Present, Beyond, Follows, Value
  <2> QED
    BY <2>1, <2>2, <2>3, TableStep DEF SearchNext
<1>3. SearchInv => WalkComplete
  BY DEF SearchInv
<1> QED
  BY <1>1, <1>2, <1>3, PTL DEF SearchSpec

-----------------------------------------------------------------------------
(* Blob cleanup: the invariant. *)

\* A key that an open transaction or a rolled-back one has put is its stack's
\* alone, and no row names it.
PutAlone ==
    \A s \in Stacks, k \in Keys : saving[s] = k \/ <<s, k>> \in strays =>
        /\ k \in used
        /\ \A t \in Stacks : <<t, k>> \notin rows
        /\ \A t \in Stacks \ {s} : saving[t] # k /\ <<t, k>> \notin strays

RowsUsed == \A s \in Stacks, k \in Keys : <<s, k>> \in rows => k \in used

\* What a deletion has queued is what its stack alone names, and its stack
\* writes no more.
PendingOwn ==
    \A s \in Stacks :
        /\ pending[s] # {} => deletion[s] = "queued"
        /\ deletion[s] = "queued" => saving[s] = NoKey
        /\ \A k \in pending[s] : <<s, k>> \in rows /\ \A t \in Stacks \ {s} : <<t, k>> \notin rows

\* It leaves no key to nobody: of two deletions that have queued their keys, one
\* had none.
PendingAll ==
    \A s \in Stacks : deletion[s] = "queued" =>
        /\ \A k \in KeysOf(s) : k \in pending[s] \/ \E t \in Stacks \ {s} : <<t, k>> \in rows
        /\ \A t \in Stacks \ {s} : deletion[t] = "queued" => KeysOf(s) = {} \/ KeysOf(t) = {}

\* A key in the queue or in a worker's hands: nobody names it or ever will.
Retired(k) == k \in queue \/ \E w \in Workers : work[w].key = k

RetiredForGood ==
    /\ \A k \in Keys : Retired(k) =>
          k \in used /\ ~Named(k) /\ \A s \in Stacks : <<s, k>> \notin strays
    /\ \A w \in Workers : work[w].step = "deleted" => work[w].key \notin blobs

BlobInv ==
    /\ TypeOK /\ PutAlone /\ RowsUsed /\ PendingOwn /\ PendingAll /\ RetiredForGood
    /\ NamedBlobsKept /\ NoBlobForgotten

-----------------------------------------------------------------------------
(* Lemmas. *)

\* A job under way has the fields of one.
LEMMA JobFields ==
  ASSUME TypeOK, NEW w \in Workers, work[w] # Idle
  PROVE  work[w] \in Jobs /\ work[w].key \in Keys
BY DEF TypeOK, Jobs

\* Every step keeps the tables and the workers well typed.
LEMMA BlobTypes == TypeOK /\ [Next]_vars => TypeOK'
<1> SUFFICES ASSUME TypeOK, [Next]_vars PROVE TypeOK'
  OBVIOUS
<1> USE DEF TypeOK, tables, columns
<1>1. ASSUME NEW s \in Stacks, CreateStack(s) \/ ToggleUpdate(s) PROVE TypeOK'
  BY <1>1 DEF CreateStack, ToggleUpdate
<1>2. ASSUME NEW s \in Stacks, NEW r \in {"empty", "resources"}, SaveInline(s, r) PROVE TypeOK'
  BY <1>2 DEF SaveInline
<1>3. ASSUME NEW s \in Stacks, NEW k \in Keys, PutBlob(s, k) PROVE TypeOK'
  BY <1>3 DEF PutBlob
<1>4. ASSUME NEW s \in Stacks, CommitBlob(s) PROVE TypeOK'
  <2>1. saving[s] \in Keys
    BY <1>4 DEF CommitBlob
  <2> QED
    BY <1>4, <2>1 DEF CommitBlob
<1>5. ASSUME NEW s \in Stacks, RollbackBlob(s) PROVE TypeOK'
  <2>1. saving[s] \in Keys
    BY <1>5 DEF RollbackBlob
  <2> QED
    BY <1>5, <2>1 DEF RollbackBlob
<1>6. ASSUME NEW s \in Stacks, NEW force \in BOOLEAN, LockStack(s, force) PROVE TypeOK'
  BY <1>6 DEF LockStack
<1>7. ASSUME NEW s \in Stacks, QueueKeys(s) PROVE TypeOK'
  <2>1. Orphans(s) \in SUBSET Keys
    BY DEF Orphans, KeysOf
  <2> QED
    BY <1>7, <2>1 DEF QueueKeys
<1>8. ASSUME NEW s \in Stacks, CommitDelete(s) PROVE TypeOK'
  <2>1. Cardinality({t \in Stacks : stack[t] = "deleted"}) \in Nat
    BY CleanupAssumption, FS_Subset, FS_CardinalityType
  <2> QED
    BY <1>8, <2>1 DEF CommitDelete
<1>9. ASSUME NEW s \in Stacks, RollbackDelete(s) PROVE TypeOK'
  BY <1>9 DEF RollbackDelete
<1>10. ASSUME NEW w \in Workers, NEW k \in Keys, ClaimNext(w, k) PROVE TypeOK'
  BY <1>10 DEF ClaimNext, Jobs
<1>11. ASSUME NEW w \in Workers, DeleteBlob(w) \/ FailToDelete(w) PROVE TypeOK'
  <2>1. work[w] \in Jobs
    BY <1>11, JobFields DEF DeleteBlob, FailToDelete, Idle
  <2>2. work'[w] \in Jobs
    BY <1>11, <2>1 DEF DeleteBlob, FailToDelete, Jobs
  <2> QED
    BY <1>11, <2>2 DEF DeleteBlob, FailToDelete
<1>12. ASSUME NEW w \in Workers, Ack(w) PROVE TypeOK'
  BY <1>12 DEF Ack
<1>13. ASSUME NEW w \in Workers, Retry(w) PROVE TypeOK'
  BY <1>13 DEF Retry
<1>14. ASSUME NEW w \in Workers, Crash(w) PROVE TypeOK'
  BY <1>14 DEF Crash
<1>15. ASSUME NEW k \in Keys, ClaimEnds(k) \/ BackoffEnds(k) PROVE TypeOK'
  <2>1. failures' \in Nat
    BY <1>15 DEF ClaimEnds, BackoffEnds
  <2> QED
    BY <1>15, <2>1 DEF ClaimEnds, BackoffEnds
<1>16. CASE UNCHANGED vars
  BY <1>16 DEF vars
<1> QED
  BY <1>1, <1>2, <1>3, <1>4, <1>5, <1>6, <1>7, <1>8, <1>9, <1>10, <1>11, <1>12, <1>13, <1>14,
     <1>15, <1>16 DEF Next, Work

\* A step that touches no table but stacks, and no worker's key except by letting
\* it go, keeps the invariant.
LEMMA BlobFrame ==
  ASSUME BlobInv, TypeOK',
         UNCHANGED <<rows, saving, deletion, pending, blobs, queue, used, strays>>,
         \A w \in Workers :
            \/ work'[w] = Idle
            \/ work'[w].key = work[w].key /\ (work'[w].step = "deleted" => work[w].step = "deleted")
  PROVE  BlobInv'
<1> USE DEF BlobInv
<1>1. PutAlone' /\ RowsUsed' /\ PendingOwn' /\ PendingAll' /\ NamedBlobsKept' /\ NoBlobForgotten'
  BY DEF PutAlone, RowsUsed, PendingOwn, PendingAll, NamedBlobsKept, NoBlobForgotten, Named, KeysOf
<1>2. \A k \in Keys : Retired(k)' => Retired(k)
  BY CleanupAssumption DEF Retired, Idle
<1>3. RetiredForGood'
  BY <1>2 DEF RetiredForGood, Named, Idle
<1> QED
  BY <1>1, <1>3

\* A key that a checkpoint may be put under is in nobody's hands.
LEMMA FreeKey ==
  ASSUME BlobInv, NEW s \in Stacks, NEW k \in Keys, k \notin used \/ <<s, k>> \in strays
  PROVE  ~Retired(k) /\ \A t \in Stacks : <<t, k>> \notin rows /\ k \notin pending[t]
<1>1. ~Retired(k)
  BY DEF BlobInv, RetiredForGood
<1>2. \A t \in Stacks : <<t, k>> \notin rows
  BY DEF BlobInv, RowsUsed, PutAlone
<1> QED
  BY <1>1, <1>2 DEF BlobInv, PendingOwn

-----------------------------------------------------------------------------
(* The invariant. *)

\* The tables, the queue, the workers and the store agree: nobody names what is
\* queued, and what nobody names is queued.
THEOREM BlobInvariance == Spec => []BlobInv
<1>1. Init => BlobInv
  <2> SUFFICES ASSUME Init PROVE BlobInv
    OBVIOUS
  <2>1. TypeOK
    BY CleanupAssumption DEF Init, TypeOK
  <2>2. \A k \in Keys : ~Retired(k) /\ \A s \in Stacks : saving[s] # k
    BY CleanupAssumption DEF Init, Retired, Idle
  <2>3. PutAlone /\ RowsUsed /\ PendingOwn /\ PendingAll /\ RetiredForGood
    BY <2>2 DEF Init, PutAlone, RowsUsed, PendingOwn, PendingAll, RetiredForGood, Idle
  <2>4. NamedBlobsKept
    BY <2>2 DEF Init, NamedBlobsKept, Named
  <2>5. NoBlobForgotten
    <3>1. \A k \in Shared : \E s \in Stacks : <<s, k>> \in Old \X Shared
      BY CleanupAssumption
    <3> QED
      BY <3>1 DEF Init, NoBlobForgotten, Named
  <2> QED
    BY <2>1, <2>3, <2>4, <2>5 DEF BlobInv
<1>2. BlobInv /\ [Next]_vars => BlobInv'
  <2> SUFFICES ASSUME BlobInv, [Next]_vars PROVE BlobInv'
    OBVIOUS
  <2> USE DEF BlobInv
  <2>0. TypeOK'
    BY BlobTypes
  <2>1. ASSUME NEW s \in Stacks,
               \/ CreateStack(s) \/ ToggleUpdate(s)
               \/ \E r \in {"empty", "resources"} : SaveInline(s, r)
        PROVE  BlobInv'
    <3>1. /\ UNCHANGED <<rows, saving, deletion, pending, blobs, queue, used, strays>>
          /\ UNCHANGED work
      BY <2>1 DEF CreateStack, ToggleUpdate, SaveInline, columns
    <3> QED
      BY <2>0, <3>1, BlobFrame
  <2>2. ASSUME NEW s \in Stacks, NEW k \in Keys, PutBlob(s, k) PROVE BlobInv'
    <3>1. ~Retired(k) /\ \A t \in Stacks : <<t, k>> \notin rows /\ k \notin pending[t]
      BY <2>2, FreeKey DEF PutBlob
    <3>2. /\ saving'[s] = k /\ \A t \in Stacks \ {s} : saving'[t] = saving[t]
          /\ used' = used \cup {k} /\ blobs' = blobs \cup {k} /\ saving[s] = NoKey
          /\ deletion[s] # "queued"
          /\ UNCHANGED <<rows, deletion, pending, queue, work, strays>>
      BY <2>2 DEF PutBlob, columns, TypeOK
    <3>3. \A t \in Stacks \ {s} : saving[t] # k /\ <<t, k>> \notin strays
      BY <2>2 DEF PutBlob, PutAlone
    <3>4. PutAlone'
      BY <3>1, <3>2, <3>3 DEF PutAlone
    <3>5. RowsUsed' /\ PendingOwn' /\ PendingAll'
      BY <3>2 DEF RowsUsed, PendingOwn, PendingAll, KeysOf
    <3>6. RetiredForGood'
      <4>1. \A j \in Keys : Retired(j)' => Retired(j) /\ j # k
        BY <3>1, <3>2 DEF Retired
      <4>2. \A j \in Keys : Retired(j)' =>
              j \in used' /\ ~Named(j)' /\ \A t \in Stacks : <<t, j>> \notin strays'
        BY <3>2, <4>1 DEF RetiredForGood, Named
      <4>3. \A w \in Workers : work[w].key # k
        BY <3>1 DEF Retired
      <4> QED
        BY <3>2, <4>2, <4>3 DEF RetiredForGood
    <3>7. NamedBlobsKept'
      BY <3>2 DEF NamedBlobsKept, Named
    <3>8. NoBlobForgotten'
      <4>1. Named(k)'
        BY <3>2 DEF Named
      <4>2. \A j \in Keys : Named(j) => Named(j)'
        BY <3>2, CleanupAssumption DEF Named
      <4>3. blobs \subseteq Keys
        BY DEF TypeOK
      <4> QED
        BY <3>2, <4>1, <4>2, <4>3 DEF NoBlobForgotten
    <3> QED
      BY <2>0, <3>4, <3>5, <3>6, <3>7, <3>8
  <2>3. ASSUME NEW s \in Stacks, CommitBlob(s) PROVE BlobInv'
    <3> DEFINE k == saving[s]
    <3>1. k \in Keys
      BY <2>3 DEF CommitBlob, TypeOK
    <3>2. /\ saving'[s] = NoKey /\ \A t \in Stacks \ {s} : saving'[t] = saving[t]
          /\ rows' = rows \cup {<<s, k>>} /\ strays' = strays \ {<<s, k>>}
          /\ UNCHANGED <<deletion, pending, blobs, queue, work, used>>
      BY <2>3 DEF CommitBlob, columns, TypeOK
    <3>3. /\ k \in used /\ ~Retired(k) /\ deletion[s] # "queued"
          /\ \A t \in Stacks : <<t, k>> \notin rows /\ k \notin pending[t]
          /\ \A t \in Stacks \ {s} : saving[t] # k /\ <<t, k>> \notin strays
      BY <3>1, CleanupAssumption DEF PutAlone, RetiredForGood, Named, PendingOwn
    <3>4. PutAlone' /\ RowsUsed'
      BY CleanupAssumption, <3>1, <3>2, <3>3 DEF PutAlone, RowsUsed
    <3>5. PendingOwn'
      BY <3>2, <3>3 DEF PendingOwn
    <3>6. PendingAll'
      BY <3>2, <3>3 DEF PendingAll, KeysOf
    <3>7. RetiredForGood'
      BY <3>1, <3>2, <3>3, CleanupAssumption DEF RetiredForGood, Retired, Named
    <3>8. NamedBlobsKept' /\ NoBlobForgotten'
      BY <3>1, <3>2, CleanupAssumption DEF NamedBlobsKept, NoBlobForgotten, Named
    <3> QED
      BY <2>0, <3>4, <3>5, <3>6, <3>7, <3>8
  <2>4. ASSUME NEW s \in Stacks, RollbackBlob(s) PROVE BlobInv'
    <3> DEFINE k == saving[s]
    <3>1. k \in Keys
      BY <2>4 DEF RollbackBlob, TypeOK
    <3>2. /\ saving'[s] = NoKey /\ \A t \in Stacks \ {s} : saving'[t] = saving[t]
          /\ strays' = strays \cup {<<s, k>>}
          /\ UNCHANGED <<rows, deletion, pending, blobs, queue, work, used>>
      BY <2>4 DEF RollbackBlob, columns, TypeOK
    <3>3. ~Retired(k)
      BY <3>1 DEF RetiredForGood, Named
    <3>4. PutAlone' /\ RowsUsed'
      BY CleanupAssumption, <3>1, <3>2 DEF PutAlone, RowsUsed
    <3>5. PendingOwn' /\ PendingAll'
      BY <3>2 DEF PendingOwn, PendingAll, KeysOf
    <3>6. RetiredForGood'
      BY <3>1, <3>2, <3>3, CleanupAssumption DEF RetiredForGood, Retired, Named
    <3>7. NamedBlobsKept' /\ NoBlobForgotten'
      BY <3>1, <3>2, CleanupAssumption DEF NamedBlobsKept, NoBlobForgotten, Named
    <3> QED
      BY <2>0, <3>4, <3>5, <3>6, <3>7
  <2>5. ASSUME NEW s \in Stacks, (\E force \in BOOLEAN : LockStack(s, force)) \/ RollbackDelete(s)
        PROVE  BlobInv'
    <3>1. /\ deletion'[s] # "queued" /\ \A t \in Stacks \ {s} : deletion'[t] = deletion[t]
          /\ pending'[s] = {} /\ \A t \in Stacks \ {s} : pending'[t] = pending[t]
          /\ UNCHANGED <<rows, saving, blobs, queue, work, used, strays>>
      BY <2>5 DEF LockStack, RollbackDelete, columns, TypeOK, PendingOwn
    <3>2. PutAlone' /\ RowsUsed' /\ RetiredForGood' /\ NamedBlobsKept' /\ NoBlobForgotten'
      BY <3>1 DEF PutAlone, RowsUsed, RetiredForGood, Retired, NamedBlobsKept, NoBlobForgotten, Named
    <3>3. PendingOwn' /\ PendingAll'
      BY <3>1 DEF PendingOwn, PendingAll, KeysOf
    <3> QED
      BY <2>0, <3>2, <3>3
  <2>6. ASSUME NEW s \in Stacks, QueueKeys(s) PROVE BlobInv'
    <3>1. /\ deletion'[s] = "queued" /\ \A t \in Stacks \ {s} : deletion'[t] = deletion[t]
          /\ pending'[s] = Orphans(s) /\ \A t \in Stacks \ {s} : pending'[t] = pending[t]
          /\ saving[s] = NoKey
          /\ UNCHANGED <<rows, saving, blobs, queue, work, used, strays>>
      BY <2>6 DEF QueueKeys, columns, TypeOK, WritersDone
    <3>2. PutAlone' /\ RowsUsed' /\ RetiredForGood' /\ NamedBlobsKept' /\ NoBlobForgotten'
      BY <3>1 DEF PutAlone, RowsUsed, RetiredForGood, Retired, NamedBlobsKept, NoBlobForgotten, Named
    <3>3. PendingOwn'
      BY <3>1 DEF PendingOwn, Orphans, KeysOf
    <3>4. PendingAll'
      BY <2>6, <3>1 DEF QueueKeys, PendingAll, Orphans, KeysOf, LockFree
    <3> QED
      BY <2>0, <3>2, <3>3, <3>4
  <2>7. ASSUME NEW s \in Stacks, CommitDelete(s) PROVE BlobInv'
    <3>1. /\ deletion[s] = "queued" /\ saving[s] = NoKey
          /\ deletion'[s] = "none" /\ \A t \in Stacks \ {s} : deletion'[t] = deletion[t]
          /\ pending'[s] = {} /\ \A t \in Stacks \ {s} : pending'[t] = pending[t]
          /\ queue' = queue \cup pending[s]
          /\ UNCHANGED <<saving, blobs, work, used, strays>>
      BY <2>7 DEF CommitDelete, TypeOK, PendingOwn
    <3>2. /\ \A k : <<s, k>> \notin rows'
          /\ \A t \in Stacks \ {s}, k \in Keys : <<t, k>> \in rows' <=> <<t, k>> \in rows
      BY <2>7 DEF CommitDelete
    <3>3. \A k \in pending[s] :
            /\ k \in Keys /\ k \in used
            /\ \A t \in Stacks : <<t, k>> \notin rows' /\ saving[t] # k /\ <<t, k>> \notin strays
      BY <3>1, <3>2 DEF PendingOwn, PutAlone, RowsUsed, TypeOK
    <3>4. PutAlone' /\ RowsUsed' /\ NamedBlobsKept'
      BY <3>1, <3>2 DEF PutAlone, RowsUsed, NamedBlobsKept, Named
    <3>5. PendingOwn'
      BY <3>1, <3>2 DEF PendingOwn, TypeOK
    <3>6. PendingAll'
      <4> SUFFICES ASSUME NEW t \in Stacks \ {s}, deletion[t] = "queued"
                   PROVE  /\ \A k \in KeysOf(t) : \/ k \in pending[t]
                                                 \/ \E u \in Stacks \ {t} : <<u, k>> \in rows'
                          /\ \A u \in Stacks \ {t} :
                               deletion'[u] = "queued" => KeysOf(t) = {} \/ KeysOf(u) = {}
        BY <3>1, <3>2 DEF PendingAll, KeysOf
      <4>1. KeysOf(s) = {} \/ KeysOf(t) = {}
        BY <3>1 DEF PendingAll
      <4>2. \A k \in KeysOf(t) : k \in pending[t] \/ \E u \in Stacks \ {t} : <<u, k>> \in rows'
        BY <3>2, <4>1 DEF PendingAll, KeysOf
      <4>3. \A u \in Stacks \ {t} : deletion'[u] = "queued" => KeysOf(t) = {} \/ KeysOf(u) = {}
        BY <3>1 DEF PendingAll
      <4> QED
        BY <4>2, <4>3
    <3>7. RetiredForGood'
      <4>1. \A k \in Keys : Retired(k)' => Retired(k) \/ k \in pending[s]
        BY <3>1 DEF Retired
      <4> QED
        BY <3>1, <3>2, <3>3, <4>1 DEF RetiredForGood, Named
    <3>8. NoBlobForgotten'
      BY <3>1, <3>2 DEF NoBlobForgotten, Named, PendingAll, KeysOf, TypeOK
    <3> QED
      BY <2>0, <3>4, <3>5, <3>6, <3>7, <3>8
  <2>8. ASSUME NEW w \in Workers, NEW k \in Keys, ClaimNext(w, k) PROVE BlobInv'
    <3>1. /\ work'[w].key = k /\ work'[w].step = "claimed" /\ k \in queue
          /\ \A v \in Workers \ {w} : work'[v] = work[v]
          /\ UNCHANGED <<rows, saving, deletion, pending, blobs, queue, used, strays>>
      BY <2>8 DEF ClaimNext, Claimable, tables, TypeOK
    <3>2. PutAlone' /\ RowsUsed' /\ PendingOwn' /\ PendingAll' /\ NamedBlobsKept' /\ NoBlobForgotten'
      BY <3>1 DEF PutAlone, RowsUsed, PendingOwn, PendingAll, NamedBlobsKept, NoBlobForgotten,
                  Named, KeysOf
    <3>3. RetiredForGood'
      BY <3>1 DEF RetiredForGood, Retired, Named
    <3> QED
      BY <2>0, <3>2, <3>3
  <2>9. ASSUME NEW w \in Workers, DeleteBlob(w) PROVE BlobInv'
    <3> DEFINE k == work[w].key
    <3>1. work[w] \in Jobs /\ k \in Keys
      BY <2>9, JobFields DEF DeleteBlob, Idle
    <3>2. /\ work'[w].key = k /\ \A v \in Workers \ {w} : work'[v] = work[v]
          /\ blobs' = blobs \ {k}
          /\ UNCHANGED <<rows, saving, deletion, pending, queue, used, strays>>
      BY <2>9, <3>1 DEF DeleteBlob, tables, columns, TypeOK, Jobs
    <3>3. ~Named(k)
      BY <3>1 DEF RetiredForGood, Retired
    <3>4. PutAlone' /\ RowsUsed' /\ PendingOwn' /\ PendingAll'
      BY <3>2 DEF PutAlone, RowsUsed, PendingOwn, PendingAll, KeysOf
    <3>5. NamedBlobsKept' /\ NoBlobForgotten'
      BY <3>2, <3>3 DEF NamedBlobsKept, NoBlobForgotten, Named
    <3>6. RetiredForGood'
      BY <3>2 DEF RetiredForGood, Retired, Named
    <3> QED
      BY <2>0, <3>4, <3>5, <3>6
  <2>10. ASSUME NEW w \in Workers, FailToDelete(w) \/ Retry(w) \/ Crash(w) PROVE BlobInv'
    <3>1. UNCHANGED <<rows, saving, deletion, pending, blobs, queue, used, strays>>
      BY <2>10 DEF FailToDelete, Retry, Crash, tables, columns
    <3>2. /\ work'[w] = Idle \/ (work'[w].key = work[w].key /\ work'[w].step = "failed")
          /\ \A v \in Workers \ {w} : work'[v] = work[v]
      <4>1. CASE FailToDelete(w)
        BY <4>1, JobFields DEF FailToDelete, TypeOK, Idle, Jobs
      <4>2. CASE Retry(w) \/ Crash(w)
        BY <4>2 DEF Retry, Crash, TypeOK
      <4> QED
        BY <2>10, <4>1, <4>2
    <3> QED
      BY <2>0, <3>1, <3>2, BlobFrame
  <2>11. ASSUME NEW w \in Workers, Ack(w) PROVE BlobInv'
    <3> DEFINE k == work[w].key
    <3>1. /\ work'[w] = Idle /\ \A v \in Workers \ {w} : work'[v] = work[v]
          /\ queue' \subseteq queue /\ \A j \in queue \ queue' : j = k
          /\ UNCHANGED <<rows, saving, deletion, pending, blobs, used, strays>>
      BY <2>11 DEF Ack, tables, TypeOK
    <3>2. k \notin blobs
      BY <2>11 DEF Ack, RetiredForGood
    <3>3. PutAlone' /\ RowsUsed' /\ PendingOwn' /\ PendingAll' /\ NamedBlobsKept'
      BY <3>1 DEF PutAlone, RowsUsed, PendingOwn, PendingAll, NamedBlobsKept, Named, KeysOf
    <3>4. NoBlobForgotten'
      BY <3>1, <3>2 DEF NoBlobForgotten, Named, TypeOK
    <3>5. RetiredForGood'
      <4>1. \A j \in Keys : Retired(j)' => Retired(j)
        BY <3>1, CleanupAssumption DEF Retired, Idle
      <4> QED
        BY <3>1, <4>1 DEF RetiredForGood, Named, Idle
    <3> QED
      BY <2>0, <3>3, <3>4, <3>5
  <2>12. ASSUME NEW k \in Keys, ClaimEnds(k) \/ BackoffEnds(k) PROVE BlobInv'
    <3>1. UNCHANGED <<rows, saving, deletion, pending, blobs, queue, used, strays>> /\ UNCHANGED work
      BY <2>12 DEF ClaimEnds, BackoffEnds, tables
    <3> QED
      BY <2>0, <3>1, BlobFrame
  <2>13. CASE UNCHANGED vars
    <3>1. UNCHANGED <<rows, saving, deletion, pending, blobs, queue, used, strays>> /\ UNCHANGED work
      BY <2>13 DEF vars, tables, columns
    <3> QED
      BY <2>0, <3>1, BlobFrame
  <2> QED
    BY <2>1, <2>2, <2>3, <2>4, <2>5, <2>6, <2>7, <2>8, <2>9, <2>10, <2>11, <2>12, <2>13
       DEF Next, Work
<1> QED
  BY <1>1, <1>2, PTL DEF Spec

\* Deletions of stacks that share blobs, saves in flight and workers that have
\* lost their claim leave every blob that a checkpoint names in the store.
THEOREM NamedKept == Spec => []NamedBlobsKept
<1>1. BlobInv => NamedBlobsKept
  BY DEF BlobInv
<1> QED
  BY <1>1, BlobInvariance, PTL

\* A blob in the store is named, queued, or the leftover of a transaction that
\* was rolled back: two deletions of stacks that share it cannot both leave it to
\* the other.
THEOREM NoneForgotten == Spec => []NoBlobForgotten
<1>1. BlobInv => NoBlobForgotten
  BY DEF BlobInv
<1> QED
  BY <1>1, BlobInvariance, PTL

=============================================================================
