------------------------- MODULE SubscriptionTickets -------------------------
(***************************************************************************)
(* The tickets by which a browser opens an event stream: signed, valid for *)
(* a minute, usable once.  A replica checks the signature's expiry by its  *)
(* own clock, then consumes the ticket's nonce in a transaction that is    *)
(* judged by the database's clock; the garbage collector deletes nonces    *)
(* whose time is over.  A nonce that is gone must not make its ticket good *)
(* again.                                                                  *)
(***************************************************************************)
EXTENDS Integers, FiniteSets

CONSTANTS
    Tickets, Scopes, Callers, Servers,
    ServerSkew,          \* how far each replica's clock is ahead of the database's
    TicketTtl,     \* SUBSCRIPTION_TICKET_TTL_SECONDS
    NonceBatch,    \* SUBSCRIPTION_TICKET_NONCE_GC_BATCH_SIZE
    NoClaims,
    MaxTicketTime  \* bound: the last tick

ASSUME TicketAssumption ==
    /\ ServerSkew \in [Servers -> Int] /\ TicketTtl \in Nat /\ NonceBatch \in Nat \ {0}
    /\ MaxTicketTime \in Nat
    /\ NoClaims \notin [scope : Scopes, exp : Int]

VARIABLES
    dbNow,      \* clock_timestamp() of the database
    claims,     \* the claims of each ticket, or NoClaims
    nonces,     \* table subscription_ticket_nonces
    redeeming,  \* verifyTicket under way, per caller
    nonceGc,    \* a cycle of the collector: its now() and what it has deleted
    accepted    \* history: how often each ticket opened a stream

ticketVars == <<dbNow, claims, nonces, redeeming, nonceGc, accepted>>

NotRedeeming == [at |-> "idle"]
NoCycle == [at |-> "idle"]
Redemptions == [at : {"verified", "began", "inserted", "fresh"}, ticket : Tickets, began : Nat]
NonceCycles == [at : {"began", "deleted"}, began : Nat, gone : SUBSET Tickets]

TicketTypeOK ==
    /\ dbNow \in Nat
    /\ claims \in [Tickets -> {NoClaims} \cup [scope : Scopes, exp : Int]]
    /\ nonces \in SUBSET Tickets
    /\ redeeming \in [Callers -> {NotRedeeming} \cup Redemptions]
    /\ nonceGc \in {NoCycle} \cup NonceCycles
    /\ accepted \in [Tickets -> Nat]

TicketInit ==
    /\ dbNow = 0
    /\ claims = [t \in Tickets |-> NoClaims]
    /\ nonces = {}
    /\ redeeming = [c \in Callers |-> NotRedeeming]
    /\ nonceGc = NoCycle
    /\ accepted = [t \in Tickets |-> 0]

Exp(t) == claims[t].exp

IssueTicket(t, r, scope) ==
    /\ claims[t] = NoClaims
    /\ claims' = [claims EXCEPT ![t] = [scope |-> scope, exp |-> dbNow + ServerSkew[r] + TicketTtl]]
    /\ UNCHANGED <<dbNow, nonces, redeeming, nonceGc, accepted>>

\* jwtVerify by the replica's clock, and the scope of the request.
VerifyTicket(c, t, r, scope) ==
    /\ redeeming[c] = NotRedeeming
    /\ claims[t] # NoClaims /\ claims[t].scope = scope /\ dbNow + ServerSkew[r] < Exp(t)
    /\ redeeming' = [redeeming EXCEPT ![c] = [at |-> "verified", ticket |-> t, began |-> 0]]
    /\ UNCHANGED <<dbNow, claims, nonces, nonceGc, accepted>>

BeginTransaction(c) ==
    /\ redeeming[c].at = "verified"
    /\ redeeming' = [redeeming EXCEPT ![c] = [@ EXCEPT !.at = "began", !.began = dbNow]]
    /\ UNCHANGED <<dbNow, claims, nonces, nonceGc, accepted>>

\* A transaction that has inserted the nonce and not ended.
HoldsNonce(c, t) == redeeming[c].at \in {"inserted", "fresh"} /\ redeeming[c].ticket = t
Collecting(t) == nonceGc.at = "deleted" /\ t \in nonceGc.gone

\* INSERT ... ON CONFLICT DO NOTHING waits for whoever has inserted or deleted
\* that nonce and not committed.
InsertNonce(c) ==
    LET t == redeeming[c].ticket IN
    /\ redeeming[c].at = "began"
    /\ ~Collecting(t) /\ \A d \in Callers : ~HoldsNonce(d, t)
    /\ redeeming' = [redeeming EXCEPT ![c] =
         IF t \in nonces THEN NotRedeeming ELSE [@ EXCEPT !.at = "inserted"]]
    /\ UNCHANGED <<dbNow, claims, nonces, nonceGc, accepted>>

\* The time by which a nonce is judged; here the transaction's own now().
MutantJudgedAt(c) == redeeming[c].began
JudgedAt(c) == dbNow

\* A nonce whose time is over is deleted again, and the ticket refused.
DeleteExpired(c) ==
    /\ redeeming[c].at = "inserted"
    /\ redeeming' = [redeeming EXCEPT ![c] =
         IF Exp(redeeming[c].ticket) <= JudgedAt(c) THEN NotRedeeming ELSE [@ EXCEPT !.at = "fresh"]]
    /\ UNCHANGED <<dbNow, claims, nonces, nonceGc, accepted>>

CommitNonce(c) ==
    LET t == redeeming[c].ticket IN
    /\ redeeming[c].at = "fresh"
    /\ nonces' = nonces \cup {t}
    /\ accepted' = [accepted EXCEPT ![t] = @ + 1]
    /\ redeeming' = [redeeming EXCEPT ![c] = NotRedeeming]
    /\ UNCHANGED <<dbNow, claims, nonceGc>>

\* The request fails, or its transaction rolls back.
FailToRedeem(c) ==
    /\ redeeming[c] # NotRedeeming
    /\ redeeming' = [redeeming EXCEPT ![c] = NotRedeeming]
    /\ UNCHANGED <<dbNow, claims, nonces, nonceGc, accepted>>

\* A cycle of the collector: one at a time, by the advisory lock.
GcBegin ==
    /\ nonceGc = NoCycle
    /\ nonceGc' = [at |-> "began", began |-> dbNow, gone |-> {}]
    /\ UNCHANGED <<dbNow, claims, nonces, redeeming, accepted>>

\* The nonces a cycle may delete.
Collectable == {t \in nonces : Exp(t) <= nonceGc.began}

\* ORDER BY expires_at LIMIT.
FirstToGo(S) == \A t \in S, u \in Collectable \ S : Exp(t) <= Exp(u)
GcDelete(S) ==
    /\ nonceGc.at = "began"
    /\ S \subseteq Collectable /\ FirstToGo(S)
    /\ Cardinality(S) <= NonceBatch /\ (Cardinality(S) < NonceBatch => S = Collectable)
    /\ nonceGc' = [nonceGc EXCEPT !.at = "deleted", !.gone = S]
    /\ UNCHANGED <<dbNow, claims, nonces, redeeming, accepted>>

GcCommit ==
    /\ nonceGc.at = "deleted"
    /\ nonces' = nonces \ nonceGc.gone
    /\ nonceGc' = NoCycle
    /\ UNCHANGED <<dbNow, claims, redeeming, accepted>>

GcFail ==
    /\ nonceGc # NoCycle
    /\ nonceGc' = NoCycle
    /\ UNCHANGED <<dbNow, claims, nonces, redeeming, accepted>>

TicketTick ==
    /\ dbNow < MaxTicketTime
    /\ dbNow' = dbNow + 1
    /\ UNCHANGED <<claims, nonces, redeeming, nonceGc, accepted>>

Collects == \E S \in SUBSET nonces : GcDelete(S)

TicketNext ==
    \/ \E t \in Tickets, r \in Servers, scope \in Scopes : IssueTicket(t, r, scope)
    \/ \E c \in Callers, t \in Tickets, r \in Servers, scope \in Scopes :
         VerifyTicket(c, t, r, scope)
    \/ \E c \in Callers : BeginTransaction(c)
    \/ \E c \in Callers : InsertNonce(c)
    \/ \E c \in Callers : DeleteExpired(c)
    \/ \E c \in Callers : CommitNonce(c)
    \/ \E c \in Callers : FailToRedeem(c)
    \/ GcBegin
    \/ Collects
    \/ GcCommit
    \/ GcFail
    \/ TicketTick

TicketSpec == TicketInit /\ [][TicketNext]_ticketVars

-----------------------------------------------------------------------------
(* Properties. *)

\* A ticket opens at most one stream: however late its second use is judged,
\* whatever the replicas' clocks say, and although its nonce is collected.
UsedOnce == \A t \in Tickets : accepted[t] <= 1

=============================================================================
