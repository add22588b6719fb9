--------------------------- MODULE GitHubConnections ---------------------------
(***************************************************************************)
(* How a tenant's admin connects a GitHub account and binds an installation*)
(* of the App.  Descope holds the user's GitHub tokens, in one slot per    *)
(* tenant and user; a token counts only once the browser that began the    *)
(* connect has confirmed it, and it counts only until a disconnect has     *)
(* drained the slot.  Every transaction on a slot holds its advisory lock  *)
(* across the calls to Descope and GitHub it makes.                        *)
(*                                                                         *)
(* An installation stands for its account too.  A call that is refused, one*)
(* that fails and a drain at its limit end in a rollback.  Left out: the   *)
(* browser binding of the states, the listings, and the columns that a     *)
(* webhook refreshes.                                                      *)
(***************************************************************************)
EXTENDS Naturals, FiniteSets

CONSTANTS
    Slots, Tenants, TenantOf,  \* the pairs of a tenant and a user, and their tenant
    Installations,
    Admins,      \* which slot's user administers which installation's account
    Tokens, States, Calls,
    Setup,       \* what each signed state says
    NoTenant, NoToken, NoState, NoInstallation, NoCall,
    DrainLimit   \* GITHUB_OUTBOUND_DRAIN_LIMIT

ASSUME GitHubAssumption ==
    /\ TenantOf \in [Slots -> Tenants] /\ Admins \subseteq Slots \X Installations
    /\ NoTenant \notin Tenants /\ NoToken \notin Tokens /\ NoState \notin States
    /\ NoInstallation \notin Installations /\ NoCall \notin Calls /\ DrainLimit \in Nat \ {0}
    /\ Setup \in [States -> [slot : Slots, phase : {"connect", "install"},
                             account : Installations \cup {NoInstallation}]]

VARIABLES
    vault,      \* Descope's tokens of each slot; a lookup reports any one of them
    confirmed,  \* github_outbound_connections.token_id
    bound,      \* github_installations.tenant_id
    state,      \* each signed state: "unissued", "live" (its row is there, and its
                \* time not over) or "spent"
    app,        \* at GitHub, each installation of the App: "installed" or "removed"
    hook,       \* the webhook of a removal: "none", "sent", "found" (its row was read)
    request,    \* the calls under way
    holder,     \* who has the advisory lock of each slot
    minted,     \* history: every token there was, and those deleted by disconnects
    torn        \* that then failed

external == <<vault, minted, app, hook>>
githubVars == <<external, confirmed, bound, state, request, holder, torn>>

NoRequest == [kind |-> "none"]
VaultRequests ==
    [kind : {"confirm", "bind", "disconnect"},
     step : {"locked", "checked", "administers", "deleting", "drained"},
     slot : Slots, state : States \cup {NoState},
     installation : Installations \cup {NoInstallation},
     token : Tokens \cup {NoToken}, target : Tokens \cup {NoToken},
     cleared : SUBSET Tokens, before : SUBSET Tokens]

GitHubTypeOK ==
    /\ vault \in [Slots -> SUBSET Tokens] /\ minted \subseteq Tokens /\ torn \subseteq Tokens
    /\ confirmed \in [Slots -> Tokens \cup {NoToken}]
    /\ bound \in [Installations -> Tenants \cup {NoTenant}]
    /\ state \in [States -> {"unissued", "live", "spent"}]
    /\ app \in [Installations -> {"installed", "removed"}]
    /\ hook \in [Installations -> {"none", "sent", "found"}]
    /\ request \in [Calls -> {NoRequest} \cup VaultRequests]
    /\ \A q \in Calls : request[q] # NoRequest /\ request[q].step = "deleting" =>
          request[q].target # NoToken
    /\ holder \in [Slots -> Calls \cup {NoCall}]

GitHubInit ==
    /\ vault = [s \in Slots |-> {}]
    /\ confirmed = [s \in Slots |-> NoToken]
    /\ bound = [i \in Installations |-> NoTenant]
    /\ state = [st \in States |-> "unissued"]
    /\ app = [i \in Installations |-> "installed"]
    /\ hook = [i \in Installations |-> "none"]
    /\ request = [q \in Calls |-> NoRequest]
    /\ holder = [s \in Slots |-> NoCall]
    /\ minted = {} /\ torn = {}

-----------------------------------------------------------------------------
(* GitHub and Descope. *)

\* GitHub authorises, by a link that the admin followed or forwarded; the token
\* has an id of its own.
VaultToken(s) ==
    LET k == CHOOSE k \in Tokens : k \notin minted IN
    /\ minted # Tokens
    /\ minted' = minted \cup {k}
    /\ vault' = [vault EXCEPT ![s] = @ \cup {k}]
    /\ UNCHANGED <<confirmed, bound, state, app, hook, request, holder, torn>>

\* A later installation on the account has another id.
RemoveApp(i) ==
    /\ app[i] = "installed"
    /\ app' = [app EXCEPT ![i] = "removed"]
    /\ hook' = [hook EXCEPT ![i] = "sent"]
    /\ UNCHANGED <<vault, minted, confirmed, bound, state, request, holder, torn>>

-----------------------------------------------------------------------------
(* handleWebhookEvent, which takes no lock. *)

FindRemoved(i) ==
    /\ hook[i] = "sent"
    /\ hook' = [hook EXCEPT ![i] = IF bound[i] = NoTenant THEN "none" ELSE "found"]
    /\ UNCHANGED <<vault, minted, app, confirmed, bound, state, request, holder, torn>>

UnbindRemoved(i) ==
    /\ hook[i] = "found"
    /\ hook' = [hook EXCEPT ![i] = "none"]
    /\ bound' = [bound EXCEPT ![i] = NoTenant]
    /\ UNCHANGED <<vault, minted, app, confirmed, state, request, holder, torn>>

LoseWebhook(i) ==
    /\ hook[i] # "none"
    /\ hook' = [hook EXCEPT ![i] = "none"]
    /\ UNCHANGED <<vault, minted, app, confirmed, bound, state, request, holder, torn>>

-----------------------------------------------------------------------------
(* Signed states. *)

Issue(st) ==
    /\ state[st] = "unissued"
    /\ state' = [state EXCEPT ![st] = "live"]
    /\ UNCHANGED <<external, confirmed, bound, request, holder, torn>>

BeginConnect(st) == Setup[st].phase = "connect" /\ Issue(st)

\* Under the lock: with an account, the connection must administer it, or not
\* see it yet; without one, the connection must exist.
IssueInstallationUrl(st) ==
    LET s == Setup[st].slot IN
    /\ Setup[st].phase = "install"
    /\ holder[s] = NoCall
    /\ confirmed[s] # NoToken
    /\ Setup[st].account # NoInstallation =>
          /\ confirmed[s] \in vault[s]
          /\ <<s, Setup[st].account>> \in Admins \/ app[Setup[st].account] # "installed"
    /\ Issue(st)

ExpireState(st) ==
    /\ state[st] = "live"
    /\ state' = [state EXCEPT ![st] = "spent"]
    /\ UNCHANGED <<external, confirmed, bound, request, holder, torn>>

-----------------------------------------------------------------------------
(* The calls on a slot. *)

\* pg_advisory_xact_lock; here a lock that never waits.
MutantSlotFree(s) == TRUE
SlotFree(s) == holder[s] = NoCall

\* A call gets the lock and reads the confirmation.  Of what it has read before,
\* only what never changes is used after it.  (before is history: what the vault
\* held then.)
Begin(kind, s, st, i) ==
    LET idle == {q \in Calls : request[q] = NoRequest}
        q == CHOOSE q \in idle : TRUE IN
    /\ idle # {}
    /\ SlotFree(s)
    /\ request' = [request EXCEPT ![q] =
         [kind |-> kind, step |-> "locked", slot |-> s, state |-> st, installation |-> i,
          token |-> confirmed[s], target |-> NoToken, cleared |-> {},
          before |-> IF kind = "disconnect" THEN vault[s] ELSE {}]]
    /\ holder' = [holder EXCEPT ![s] = q]
    /\ UNCHANGED <<external, confirmed, bound, state, torn>>

ConfirmConnect(st) ==
    /\ state[st] # "unissued" /\ Setup[st].phase = "connect"
    /\ Begin("confirm", Setup[st].slot, st, NoInstallation)

\* loadInstallation finds the App there.
ConnectInstallation(s, i) ==
    /\ app[i] = "installed"
    /\ Begin("bind", s, NoState, i)

CompleteInstallation(st, i) ==
    /\ state[st] # "unissued" /\ Setup[st].phase = "install"
    /\ Setup[st].account \in {i, NoInstallation}
    /\ app[i] = "installed"
    /\ Begin("bind", Setup[st].slot, st, i)

RemoveInstallation(s, i) == Begin("disconnect", s, NoState, i)

At(q, kind, step) == request[q].kind = kind /\ request[q].step = step

\* A step that only moves the call on.
Proceed(q, call) ==
    /\ request' = [request EXCEPT ![q] = call]
    /\ UNCHANGED <<external, confirmed, bound, state, holder, torn>>

\* The end of the transaction.
Leave(q) ==
    /\ request' = [request EXCEPT ![q] = NoRequest]
    /\ holder' = [holder EXCEPT ![request[q].slot] = IF @ = q THEN NoCall ELSE @]

\* confirmConnect: the vault's token is read after the lock.
LoadPendingConnection(q, k) ==
    /\ At(q, "confirm", "locked") /\ k \in vault[request[q].slot]
    /\ Proceed(q, [request[q] EXCEPT !.step = "checked", !.token = k])

\* The state's row is deleted, and must have been there.
CommitConfirm(q) ==
    LET r == request[q] IN
    /\ At(q, "confirm", "checked") /\ state[r.state] = "live"
    /\ state' = [state EXCEPT ![r.state] = "spent"]
    /\ confirmed' = [confirmed EXCEPT ![r.slot] = r.token]
    /\ Leave(q)
    /\ UNCHANGED <<external, bound, torn>>

\* The vault reports the token that was confirmed; here the row is enough.
MutantTokenForConfirmedId(q) == request[q].token # NoToken
TokenForConfirmedId(q) == request[q].token \in vault[request[q].slot]

VerifyAccountAdministration(q) ==
    /\ At(q, "bind", "locked") /\ TokenForConfirmedId(q)
    /\ <<request[q].slot, request[q].installation>> \in Admins
    /\ Proceed(q, [request[q] EXCEPT !.step = "administers"])

VerifyInstallationAccess(q) ==
    /\ At(q, "bind", "administers") /\ TokenForConfirmedId(q)
    /\ app[request[q].installation] = "installed"
    /\ Proceed(q, [request[q] EXCEPT !.step = "checked"])

\* saveInstallation inserts the row or refreshes one of the same tenant.
Bindable(i, s) == bound[i] \in {NoTenant, TenantOf[s]}

CommitBinding(q) ==
    LET r == request[q] IN
    /\ At(q, "bind", "checked")
    /\ r.state # NoState => state[r.state] = "live"
    /\ Bindable(r.installation, r.slot)
    /\ state' = [st \in States |-> IF st = r.state THEN "spent" ELSE state[st]]
    /\ bound' = [bound EXCEPT ![r.installation] = TenantOf[r.slot]]
    /\ Leave(q)
    /\ UNCHANGED <<external, confirmed, torn>>

\* drainTenantTokens: a token is reported, neither one that this call has
\* deleted nor one too many.
ReportToken(q, k) ==
    LET r == request[q] IN
    /\ At(q, "disconnect", "locked")
    /\ k \in vault[r.slot] \ r.cleared
    /\ Cardinality(r.cleared) < DrainLimit
    /\ Proceed(q, [r EXCEPT !.step = "deleting", !.target = k])

DeleteToken(q) ==
    LET r == request[q] IN
    /\ At(q, "disconnect", "deleting")
    /\ vault' = [vault EXCEPT ![r.slot] = @ \ {r.target}]
    /\ request' = [request EXCEPT ![q] =
         [r EXCEPT !.step = "locked", !.target = NoToken, !.cleared = @ \cup {r.target}]]
    /\ UNCHANGED <<confirmed, bound, state, minted, app, hook, holder, torn>>

\* Nothing is reported any more; here it is enough that the confirmed token went.
MutantDrained(q) == vault[request[q].slot] = {} \/ request[q].token \in request[q].cleared
Drained(q) == vault[request[q].slot] = {}

\* A confirmed token that was never reported is deleted too, or not found.
ReportAbsent(q) ==
    /\ At(q, "disconnect", "locked") /\ Drained(q)
    /\ Proceed(q, [request[q] EXCEPT !.step = "drained", !.target = request[q].token])

CommitDisconnect(q) ==
    LET r == request[q] IN
    /\ At(q, "disconnect", "drained")
    /\ vault' = [vault EXCEPT ![r.slot] = @ \ {r.target}]
    /\ confirmed' = [confirmed EXCEPT ![r.slot] = NoToken]
    /\ bound' = [bound EXCEPT ![r.installation] = IF @ = TenantOf[r.slot] THEN NoTenant ELSE @]
    /\ Leave(q)
    /\ UNCHANGED <<state, minted, app, hook, torn>>

\* A check or a call fails, or the replica stops: the tables are as before, but
\* what was deleted in the vault is gone.
RollBack(q) ==
    /\ request[q] # NoRequest
    /\ torn' = torn \cup request[q].cleared
    /\ Leave(q)
    /\ UNCHANGED <<external, confirmed, bound, state>>

GitHubNext ==
    \/ \E s \in Slots : VaultToken(s)
    \/ \E i \in Installations : RemoveApp(i)
    \/ \E i \in Installations : FindRemoved(i)
    \/ \E i \in Installations : UnbindRemoved(i)
    \/ \E i \in Installations : LoseWebhook(i)
    \/ \E st \in States : BeginConnect(st)
    \/ \E st \in States : IssueInstallationUrl(st)
    \/ \E st \in States : ExpireState(st)
    \/ \E st \in States : ConfirmConnect(st)
    \/ \E s \in Slots, i \in Installations : ConnectInstallation(s, i)
    \/ \E st \in States, i \in Installations : CompleteInstallation(st, i)
    \/ \E s \in Slots, i \in Installations : RemoveInstallation(s, i)
    \/ \E q \in Calls, k \in Tokens : LoadPendingConnection(q, k)
    \/ \E q \in Calls : CommitConfirm(q)
    \/ \E q \in Calls : VerifyAccountAdministration(q)
    \/ \E q \in Calls : VerifyInstallationAccess(q)
    \/ \E q \in Calls : CommitBinding(q)
    \/ \E q \in Calls, k \in Tokens : ReportToken(q, k)
    \/ \E q \in Calls : DeleteToken(q)
    \/ \E q \in Calls : ReportAbsent(q)
    \/ \E q \in Calls : CommitDisconnect(q)
    \/ \E q \in Calls : RollBack(q)

GitHubSpec == GitHubInit /\ [][GitHubNext]_githubVars

-----------------------------------------------------------------------------
(* Properties. *)

\* A confirmed connection's token is still in the vault, or went with a
\* disconnect that failed half-way and left the connection standing: no
\* confirmation races a disconnect into recording a token that is gone.
ConfirmedUsable ==
    \A s \in Slots : confirmed[s] # NoToken =>
        \/ confirmed[s] \in vault[s] \cup torn
        \/ \E q \in Calls : holder[s] = q /\ confirmed[s] \in request[q].cleared

\* A disconnect that reports success has emptied the slot of everything that
\* was there when it began, tokens of abandoned or forwarded connects included.
DisconnectDrains ==
    [][\A q \in Calls : CommitDisconnect(q) =>
          vault'[request[q].slot] \cap request[q].before = {}]_githubVars

\* An installation goes from nobody to a tenant, never from one to another, and
\* at that moment an admin of its account has a confirmed, usable connection.
BindingBacked ==
    [][\A i \in Installations : bound'[i] \notin {bound[i], NoTenant} =>
          /\ bound[i] = NoTenant
          /\ \E s \in Slots : /\ TenantOf[s] = bound'[i] /\ <<s, i>> \in Admins
                              /\ confirmed[s] \in vault[s]]_githubVars

=============================================================================
