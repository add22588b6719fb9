------------------------- MODULE EventStream_proofs -------------------------
(***************************************************************************)
(* Proofs about the event stream of a dashboard: the tickets that open one,*)
(* for any number of tickets, requests and replicas and whatever their     *)
(* clocks say, and the hub that serves it, for any number of channels, keys,*)
(* connections and subscribers.                                            *)
(***************************************************************************)
EXTENDS SubscriptionTickets, NotificationHub, TLAPS, FiniteSetTheorems

-----------------------------------------------------------------------------
(* Tickets: the invariant. *)

Redeems(c) == redeeming[c] # NotRedeeming

\* Whatever is redeemed, stored or accepted is a ticket that was issued.
IssuedOnly ==
    /\ \A c \in Callers : Redeems(c) => claims[redeeming[c].ticket] # NoClaims
    /\ \A t \in Tickets : t \in nonces \/ accepted[t] # 0 => claims[t] # NoClaims

\* One transaction at a time holds a nonce, one that is not in the table.
OneHolder ==
    \A c \in Callers, t \in Tickets : HoldsNonce(c, t) =>
        /\ t \notin nonces
        /\ \A d \in Callers : HoldsNonce(d, t) => d = c

\* A ticket that was used has its nonce in the table, or its time is over.
SpentOrOver ==
    \A t \in Tickets :
        \/ accepted[t] = 0
        \/ accepted[t] = 1 /\ (t \in nonces \/ Exp(t) <= dbNow)

\* A ticket found good was not used before.
FreshUnused ==
    \A c \in Callers : redeeming[c].at = "fresh" => accepted[redeeming[c].ticket] = 0

\* The collector deletes nonces of the table whose time is over.
CollectsOver ==
    /\ nonceGc # NoCycle => nonceGc.began <= dbNow
    /\ nonceGc.at = "deleted" =>
         nonceGc.gone \subseteq nonces /\ \A t \in nonceGc.gone : Exp(t) <= nonceGc.began

TicketInv ==
    TicketTypeOK /\ IssuedOnly /\ OneHolder /\ SpentOrOver /\ FreshUnused /\ CollectsOver

-----------------------------------------------------------------------------
(* Lemmas. *)

\* A request under way has the fields of one.
LEMMA RedemptionFields ==
  ASSUME TicketTypeOK, NEW c \in Callers, redeeming[c].at # "idle"
  PROVE  /\ redeeming[c] \in Redemptions /\ Redeems(c)
         /\ redeeming[c].ticket \in Tickets /\ redeeming[c].began \in Nat
BY DEF TicketTypeOK, Redemptions, NotRedeeming, Redeems

\* The time of an issued ticket is a number.
LEMMA ExpInt ==
  ASSUME TicketTypeOK, NEW t \in Tickets, claims[t] # NoClaims
  PROVE  Exp(t) \in Int
BY DEF TicketTypeOK, Exp

\* Every reachable state is well typed.
LEMMA TicketTypes == TicketTypeOK /\ [TicketNext]_ticketVars => TicketTypeOK'
<1> SUFFICES ASSUME TicketTypeOK, [TicketNext]_ticketVars PROVE TicketTypeOK'
  OBVIOUS
<1>1. ASSUME NEW t \in Tickets, NEW r \in Servers, NEW scope \in Scopes, IssueTicket(t, r, scope)
      PROVE  TicketTypeOK'
  BY <1>1, TicketAssumption DEF TicketTypeOK, IssueTicket, Redemptions, NonceCycles
<1>2. ASSUME NEW c \in Callers, NEW t \in Tickets, NEW r \in Servers, NEW scope \in Scopes,
             VerifyTicket(c, t, r, scope)
      PROVE  TicketTypeOK'
  BY <1>2 DEF TicketTypeOK, VerifyTicket, Redemptions, NonceCycles
<1>3. ASSUME NEW c \in Callers, BeginTransaction(c) PROVE TicketTypeOK'
  <2>1. redeeming[c] \in Redemptions
    BY <1>3, RedemptionFields DEF BeginTransaction
  <2>2. redeeming'[c] \in Redemptions
    BY <1>3, <2>1 DEF BeginTransaction, Redemptions, TicketTypeOK
  <2> QED
    BY <1>3, <2>2 DEF TicketTypeOK, BeginTransaction
<1>4. ASSUME NEW c \in Callers, InsertNonce(c) PROVE TicketTypeOK'
  <2>1. redeeming[c] \in Redemptions
    BY <1>4, RedemptionFields DEF InsertNonce
  <2>2. redeeming'[c] \in {NotRedeeming} \cup Redemptions
    BY <1>4, <2>1 DEF InsertNonce, Redemptions, TicketTypeOK
  <2> QED
    BY <1>4, <2>2 DEF TicketTypeOK, InsertNonce
<1>5. ASSUME NEW c \in Callers, DeleteExpired(c) PROVE TicketTypeOK'
  <2>1. redeeming[c] \in Redemptions
    BY <1>5, RedemptionFields DEF DeleteExpired
  <2>2. redeeming'[c] \in {NotRedeeming} \cup Redemptions
    BY <1>5, <2>1 DEF DeleteExpired, Redemptions, TicketTypeOK
  <2> QED
    BY <1>5, <2>2 DEF TicketTypeOK, DeleteExpired
<1>6. ASSUME NEW c \in Callers, CommitNonce(c) PROVE TicketTypeOK'
  BY <1>6, RedemptionFields DEF TicketTypeOK, CommitNonce
<1>7. ASSUME NEW c \in Callers, FailToRedeem(c) PROVE TicketTypeOK'
  BY <1>7 DEF TicketTypeOK, FailToRedeem
<1>8. CASE GcBegin
  BY <1>8 DEF TicketTypeOK, GcBegin, NonceCycles
<1>9. ASSUME NEW S \in SUBSET nonces, GcDelete(S) PROVE TicketTypeOK'
  <2>1. nonceGc \in NonceCycles
    BY <1>9 DEF GcDelete, TicketTypeOK, NoCycle
  <2>2. nonceGc' \in NonceCycles
    BY <1>9, <2>1 DEF GcDelete, NonceCycles, TicketTypeOK
  <2> QED
    BY <1>9, <2>2 DEF TicketTypeOK, GcDelete
<1>10. CASE GcCommit
  BY <1>10 DEF TicketTypeOK, GcCommit
<1>11. CASE GcFail
  BY <1>11 DEF TicketTypeOK, GcFail
<1>12. CASE TicketTick
  BY <1>12 DEF TicketTypeOK, TicketTick
<1>13. CASE UNCHANGED ticketVars
  BY <1>13 DEF TicketTypeOK, ticketVars
<1> QED
  BY <1>1, <1>2, <1>3, <1>4, <1>5, <1>6, <1>7, <1>8, <1>9, <1>10, <1>11, <1>12, <1>13
     DEF TicketNext, Collects

-----------------------------------------------------------------------------
(* The invariant. *)

\* A step that leaves claims, the table and the history as they are, and does
\* not turn the clock back, keeps what SpentOrOver says.
LEMMA SpentKept ==
  ASSUME TicketTypeOK, IssuedOnly, SpentOrOver, claims' = claims, accepted' = accepted,
         nonces' = nonces, dbNow' \in Nat, dbNow <= dbNow'
  PROVE  SpentOrOver'
<1> SUFFICES ASSUME NEW t \in Tickets, accepted[t] = 1
             PROVE  t \in nonces \/ Exp(t) <= dbNow'
  BY DEF SpentOrOver, Exp
<1>1. Exp(t) \in Int
  BY ExpInt DEF IssuedOnly
<1> QED
  BY <1>1 DEF SpentOrOver, TicketTypeOK

\* What is redeemed, stored and collected stays in step with what was accepted:
\* the invariant from which single use follows.
THEOREM TicketInvariance == TicketSpec => []TicketInv
<1>1. TicketInit => TicketInv
  BY TicketAssumption
     DEF TicketInit, TicketInv, TicketTypeOK, IssuedOnly, OneHolder, SpentOrOver, FreshUnused,
         CollectsOver, HoldsNonce, NotRedeeming, NoCycle, Redeems
<1>2. TicketInv /\ [TicketNext]_ticketVars => TicketInv'
  <2> SUFFICES ASSUME TicketInv, [TicketNext]_ticketVars PROVE TicketInv'
    OBVIOUS
  <2> USE DEF TicketInv
  <2>0. TicketTypeOK'
    BY TicketTypes
  <2>1. ASSUME NEW t \in Tickets, NEW r \in Servers, NEW scope \in Scopes, IssueTicket(t, r, scope)
        PROVE  TicketInv'
    <3>1. /\ claims[t] = NoClaims /\ claims'[t] # NoClaims
          /\ \A u \in Tickets \ {t} : claims'[u] = claims[u]
      BY <2>1, TicketAssumption DEF IssueTicket, TicketTypeOK
    <3>2. IssuedOnly' /\ t \notin nonces /\ accepted[t] = 0
      BY <2>1, <3>1, RedemptionFields DEF IssuedOnly, IssueTicket, Redeems, TicketTypeOK
    <3>3. OneHolder' /\ FreshUnused'
      BY <2>1 DEF IssueTicket, OneHolder, HoldsNonce, FreshUnused
    <3>4. SpentOrOver'
      BY <2>1, <3>1, <3>2 DEF IssueTicket, SpentOrOver, Exp
    <3>5. CollectsOver'
      BY <2>1, <3>1, <3>2 DEF IssueTicket, CollectsOver, Exp, TicketTypeOK
    <3> QED
      BY <2>0, <3>2, <3>3, <3>4, <3>5
  <2>2. ASSUME NEW c \in Callers, NEW t \in Tickets, NEW r \in Servers, NEW scope \in Scopes,
               VerifyTicket(c, t, r, scope)
        PROVE  TicketInv'
    <3>1. redeeming'[c] = [at |-> "verified", ticket |-> t, began |-> 0]
      BY <2>2 DEF VerifyTicket, TicketTypeOK
    <3>2. \A d \in Callers \ {c} : redeeming'[d] = redeeming[d]
      BY <2>2 DEF VerifyTicket
    <3>3. IssuedOnly' /\ OneHolder' /\ FreshUnused'
      BY <2>2, <3>1, <3>2 DEF VerifyTicket, IssuedOnly, OneHolder, FreshUnused, HoldsNonce, Redeems
    <3>4. SpentOrOver' /\ CollectsOver'
      BY <2>2 DEF VerifyTicket, SpentOrOver, CollectsOver, Exp
    <3> QED
      BY <2>0, <3>3, <3>4
  <2>3. ASSUME NEW c \in Callers, BeginTransaction(c) PROVE TicketInv'
    <3>1. redeeming[c] \in Redemptions /\ Redeems(c)
      BY <2>3, RedemptionFields DEF BeginTransaction
    <3>2. redeeming'[c].at = "began" /\ redeeming'[c].ticket = redeeming[c].ticket
      BY <2>3, <3>1 DEF BeginTransaction, TicketTypeOK, Redemptions
    <3>3. \A d \in Callers \ {c} : redeeming'[d] = redeeming[d]
      BY <2>3 DEF BeginTransaction, TicketTypeOK
    <3>4. IssuedOnly' /\ OneHolder' /\ FreshUnused'
      BY <2>3, <3>1, <3>2, <3>3 DEF BeginTransaction, IssuedOnly, OneHolder, FreshUnused, HoldsNonce, Redeems
    <3>5. SpentOrOver' /\ CollectsOver'
      BY <2>3 DEF BeginTransaction, SpentOrOver, CollectsOver, Exp
    <3> QED
      BY <2>0, <3>4, <3>5
  <2>4. ASSUME NEW c \in Callers, InsertNonce(c) PROVE TicketInv'
    <3> DEFINE t == redeeming[c].ticket
    <3>1. redeeming[c] \in Redemptions /\ Redeems(c) /\ t \in Tickets
      BY <2>4, RedemptionFields DEF InsertNonce
    <3>2. \A d \in Callers \ {c} : redeeming'[d] = redeeming[d]
      BY <2>4 DEF InsertNonce
    <3>3. \/ redeeming'[c] = NotRedeeming
          \/ redeeming'[c].at = "inserted" /\ redeeming'[c].ticket = t /\ t \notin nonces
      BY <2>4, <3>1 DEF InsertNonce, TicketTypeOK, Redemptions
    <3>4. IssuedOnly' /\ FreshUnused'
      BY <2>4, <3>1, <3>2, <3>3 DEF InsertNonce, IssuedOnly, FreshUnused, Redeems, NotRedeeming
    <3>5. OneHolder'
      BY <2>4, <3>1, <3>2, <3>3 DEF InsertNonce, OneHolder, HoldsNonce, NotRedeeming
    <3>6. SpentOrOver' /\ CollectsOver'
      BY <2>4 DEF InsertNonce, SpentOrOver, CollectsOver, Exp
    <3> QED
      BY <2>0, <3>4, <3>5, <3>6
  <2>5. ASSUME NEW c \in Callers, DeleteExpired(c) PROVE TicketInv'
    <3> DEFINE t == redeeming[c].ticket
    <3>1. redeeming[c] \in Redemptions /\ Redeems(c) /\ t \in Tickets /\ HoldsNonce(c, t)
      BY <2>5, RedemptionFields DEF DeleteExpired, HoldsNonce
    <3>2. \A d \in Callers \ {c} : redeeming'[d] = redeeming[d]
      BY <2>5 DEF DeleteExpired
    <3>3. \/ redeeming'[c] = NotRedeeming
          \/ redeeming'[c].at = "fresh" /\ redeeming'[c].ticket = t /\ ~(Exp(t) <= dbNow)
      BY <2>5, <3>1 DEF DeleteExpired, JudgedAt, TicketTypeOK, Redemptions
    <3>4. IssuedOnly' /\ OneHolder'
      BY <2>5, <3>1, <3>2, <3>3 DEF DeleteExpired, IssuedOnly, OneHolder, HoldsNonce, Redeems, NotRedeeming
    <3>5. ~(Exp(t) <= dbNow) => accepted[t] = 0
      BY <3>1 DEF OneHolder, SpentOrOver
    <3>6. FreshUnused'
      BY <2>5, <3>1, <3>2, <3>3, <3>5 DEF DeleteExpired, FreshUnused, NotRedeeming
    <3>7. SpentOrOver' /\ CollectsOver'
      BY <2>5 DEF DeleteExpired, SpentOrOver, CollectsOver, Exp
    <3> QED
      BY <2>0, <3>4, <3>6, <3>7
  <2>6. ASSUME NEW c \in Callers, CommitNonce(c) PROVE TicketInv'
    <3> DEFINE t == redeeming[c].ticket
    <3>1. /\ redeeming[c] \in Redemptions /\ Redeems(c) /\ t \in Tickets /\ HoldsNonce(c, t)
          /\ claims[t] # NoClaims /\ accepted[t] = 0
      BY <2>6, RedemptionFields DEF CommitNonce, HoldsNonce, IssuedOnly, FreshUnused
    <3>2. /\ redeeming'[c] = NotRedeeming
          /\ \A d \in Callers \ {c} : redeeming'[d] = redeeming[d]
      BY <2>6 DEF CommitNonce, TicketTypeOK
    <3>3. accepted'[t] = 1 /\ \A u \in Tickets \ {t} : accepted'[u] = accepted[u]
      BY <2>6, <3>1 DEF CommitNonce, TicketTypeOK
    <3>4. \A d \in Callers \ {c} : redeeming[d].at \in {"inserted", "fresh"} => redeeming[d].ticket # t
      BY <3>1 DEF OneHolder, HoldsNonce
    <3>5. IssuedOnly'
      BY <2>6, <3>1, <3>2, <3>3 DEF CommitNonce, IssuedOnly, Redeems
    <3>6. OneHolder'
      BY <2>6, <3>2, <3>4 DEF CommitNonce, OneHolder, HoldsNonce, NotRedeeming
    <3>7. FreshUnused'
      <4> SUFFICES ASSUME NEW d \in Callers, redeeming'[d].at = "fresh"
                   PROVE  accepted'[redeeming'[d].ticket] = 0
        BY DEF FreshUnused
      <4>1. d # c /\ redeeming'[d] = redeeming[d]
        BY <3>2 DEF NotRedeeming
      <4>2. redeeming[d].ticket \in Tickets \ {t}
        BY <3>4, <4>1, RedemptionFields
      <4> QED
        BY <3>3, <4>1, <4>2 DEF FreshUnused
    <3>8. SpentOrOver'
      BY <2>6, <3>3 DEF CommitNonce, SpentOrOver, Exp
    <3>9. CollectsOver'
      BY <2>6 DEF CommitNonce, CollectsOver, Exp
    <3> QED
      BY <2>0, <3>5, <3>6, <3>7, <3>8, <3>9
  <2>7. ASSUME NEW c \in Callers, FailToRedeem(c) PROVE TicketInv'
    <3>1. /\ redeeming'[c] = NotRedeeming
          /\ \A d \in Callers \ {c} : redeeming'[d] = redeeming[d]
      BY <2>7 DEF FailToRedeem, TicketTypeOK
    <3>2. IssuedOnly' /\ OneHolder' /\ FreshUnused'
      BY <2>7, <3>1 DEF FailToRedeem, IssuedOnly, OneHolder, FreshUnused, HoldsNonce, Redeems, NotRedeeming
    <3>3. SpentOrOver' /\ CollectsOver'
      BY <2>7 DEF FailToRedeem, SpentOrOver, CollectsOver, Exp
    <3> QED
      BY <2>0, <3>2, <3>3
  <2>8. CASE GcBegin
    <3>1. IssuedOnly' /\ OneHolder' /\ FreshUnused' /\ SpentOrOver'
      BY <2>8 DEF GcBegin, IssuedOnly, OneHolder, FreshUnused, SpentOrOver, HoldsNonce, Redeems, Exp
    <3>2. CollectsOver'
      BY <2>8 DEF GcBegin, CollectsOver, TicketTypeOK
    <3> QED
      BY <2>0, <3>1, <3>2
  <2>9. ASSUME NEW S \in SUBSET nonces, GcDelete(S) PROVE TicketInv'
    <3>1. IssuedOnly' /\ OneHolder' /\ FreshUnused' /\ SpentOrOver'
      BY <2>9 DEF GcDelete, IssuedOnly, OneHolder, FreshUnused, SpentOrOver, HoldsNonce, Redeems, Exp
    <3>2. nonceGc \in NonceCycles /\ nonceGc # NoCycle
      BY <2>9 DEF GcDelete, TicketTypeOK, NoCycle
    <3>3. nonceGc'.began = nonceGc.began /\ nonceGc'.gone = S
      BY <2>9, <3>2 DEF GcDelete, NonceCycles
    <3>4. CollectsOver'
      BY <2>9, <3>2, <3>3 DEF GcDelete, CollectsOver, Collectable, Exp
    <3> QED
      BY <2>0, <3>1, <3>4
  <2>10. CASE GcCommit
    <3>1. IssuedOnly' /\ OneHolder' /\ FreshUnused'
      BY <2>10 DEF GcCommit, IssuedOnly, OneHolder, FreshUnused, HoldsNonce, Redeems
    <3>2. CollectsOver'
      BY <2>10 DEF GcCommit, CollectsOver, NoCycle
    <3>3. nonceGc \in NonceCycles /\ nonceGc # NoCycle
      BY <2>10 DEF GcCommit, TicketTypeOK, NoCycle
    <3>4. \A t \in nonceGc.gone : t \in Tickets /\ Exp(t) \in Int /\ Exp(t) <= dbNow
      <4> SUFFICES ASSUME NEW t \in nonceGc.gone PROVE t \in Tickets /\ Exp(t) \in Int /\ Exp(t) <= dbNow
        OBVIOUS
      <4>1. t \in nonces /\ t \in Tickets /\ Exp(t) <= nonceGc.began /\ nonceGc.began <= dbNow
        BY <2>10, <3>3 DEF GcCommit, CollectsOver, TicketTypeOK
      <4>2. Exp(t) \in Int
        BY <4>1, ExpInt DEF IssuedOnly
      <4> QED
        BY <3>3, <4>1, <4>2 DEF NonceCycles, TicketTypeOK
    <3>5. SpentOrOver'
      BY <2>10, <3>4 DEF GcCommit, SpentOrOver, Exp
    <3> QED
      BY <2>0, <3>1, <3>2, <3>5
  <2>11. CASE GcFail
    BY <2>0, <2>11
       DEF GcFail, IssuedOnly, OneHolder, FreshUnused, SpentOrOver, CollectsOver, HoldsNonce, Redeems,
           Exp, NoCycle
  <2>12. CASE TicketTick
    <3>1. dbNow \in Nat /\ dbNow' = dbNow + 1
      BY <2>12 DEF TicketTick, TicketTypeOK
    <3>2. IssuedOnly' /\ OneHolder' /\ FreshUnused'
      BY <2>12 DEF TicketTick, IssuedOnly, OneHolder, FreshUnused, HoldsNonce, Redeems
    <3>3. SpentOrOver'
      BY <2>12, <3>1, SpentKept DEF TicketTick
    <3>4. CollectsOver'
      <4>1. nonceGc # NoCycle => nonceGc.began \in Nat
        BY DEF TicketTypeOK, NonceCycles
      <4> QED
        BY <2>12, <3>1, <4>1 DEF TicketTick, CollectsOver, Exp
    <3> QED
      BY <2>0, <3>2, <3>3, <3>4
  <2>13. CASE UNCHANGED ticketVars
    BY <2>0, <2>13
       DEF ticketVars, IssuedOnly, OneHolder, FreshUnused, SpentOrOver, CollectsOver, HoldsNonce,
           Redeems, Exp
  <2> QED
    BY <2>1, <2>2, <2>3, <2>4, <2>5, <2>6, <2>7, <2>8, <2>9, <2>10, <2>11, <2>12, <2>13
       DEF TicketNext, Collects
<1> QED
  BY <1>1, <1>2, PTL DEF TicketSpec

\* A ticket opens at most one stream: whatever the clocks of the replicas say,
\* however late a transaction is judged, and although nonces are collected.
THEOREM TicketUsedOnce == TicketSpec => []UsedOnce
<1>1. TicketInv => UsedOnce
  BY DEF TicketInv, SpentOrOver, UsedOnce
<1> QED
  BY <1>1, TicketInvariance, PTL

-----------------------------------------------------------------------------
(* The notification hub. *)

\* A subscriber has a connection as long as it is attached, and the hub keeps
\* no mark on a connection that nobody uses.
Placed ==
    /\ \A s \in Subs : /\ sub[s].at = "away" <=> at[s] = NoConn
                       /\ at[s] # NoConn => conn[at[s]].phase # "unused"
    /\ \A c \in Conns : conn[c].phase = "unused" => ~conn[c].retired

\* A connection that is registered serves subscribers of its channel only.
OwnChannel ==
    \A s \in Subs, ch \in Channels :
        at[s] # NoConn /\ channels[ch] = at[s] => ChannelOf[s] = ch

\* A subscriber that neither fails nor ends has a connection that does neither,
\* and one that listens once it has been admitted.
Running(x) ==
    x.at \in {"admitting", "replaying", "asking", "waiting"} /\ ~x.failed /\ ~x.finished
StreamAlive ==
    \A s \in Subs : Running(sub[s]) =>
        /\ ~conn[at[s]].retired
        /\ sub[s].at # "admitting" => conn[at[s]].phase = "ready"

WaitersClean ==
    \A s \in Subs : sub[s].at = "waiting" =>
        ~sub[s].notified /\ ~sub[s].failed /\ ~sub[s].finished

\* A subscriber that waits, or is about to, and has not seen all events, is owed
\* a notification.
Unseen(s) ==
    /\ sub[s].at \in {"asking", "waiting"}
    /\ ~sub[s].notified /\ ~sub[s].failed /\ ~sub[s].finished
    /\ seen[s] < stored[KeyOf[s]]
Pending ==
    ~world.lossy => \A s \in Subs : Unseen(s) =>
        KeyOf[s] \in unsent \/ <<at[s], KeyOf[s]>> \in inbox

HubCounts == Placed /\ OwnChannel /\ CountersTrue /\ ConnectionsOwned
HubStreams == StreamAlive /\ WaitersClean /\ Pending
HubInv == TypeOK /\ HubCounts /\ HubStreams

-----------------------------------------------------------------------------
(* Lemmas. *)

SubType == [at : Attached \cup {"away"}, notified : BOOLEAN, failed : BOOLEAN, finished : BOOLEAN]
ConnType == [phase : Live \cup {"unused", "ended"}, refCount : 0..Cardinality(Subs),
             retired : BOOLEAN]

\* What a notification, a failure and an end make of a subscriber.
LEMMA Marks ==
  ASSUME NEW x \in SubType
  PROVE  /\ Woken(x) \in SubType /\ Failed(x) \in SubType /\ Ended(x) \in SubType
         /\ x.at # "waiting" =>
              /\ Woken(x).at = x.at /\ Failed(x).at = x.at /\ Ended(x).at = x.at
              /\ Woken(x).notified
         /\ x.at = "waiting" =>
              /\ Woken(x).at = "replaying" /\ Failed(x).at = "leaving" /\ Ended(x).at = "leaving"
         /\ Woken(x).failed = x.failed /\ Woken(x).finished = x.finished
         /\ Failed(x).failed /\ Ended(x).finished
BY DEF SubType, Woken, Failed, Ended, Attached

\* The sets that are counted are finite, and at most all subscribers.
LEMMA CountsFinite ==
  ASSUME TypeOK
  PROVE  /\ Cardinality(Subs) \in Nat
         /\ \A S \in SUBSET Subs : IsFiniteSet(S) /\ Cardinality(S) \in 0..Cardinality(Subs)
         /\ \A c : AttachedTo(c) \in SUBSET Subs
<1>1. IsFiniteSet(Subs) /\ Cardinality(Subs) \in Nat
  BY HubAssumption, FS_CardinalityType
<1>2. \A S \in SUBSET Subs : IsFiniteSet(S) /\ Cardinality(S) <= Cardinality(Subs)
  BY <1>1, FS_Subset
<1>3. \A S \in SUBSET Subs : Cardinality(S) \in Nat
  BY <1>2, FS_CardinalityType
<1> QED
  BY <1>1, <1>2, <1>3 DEF AttachedTo

\* The types by field.
LEMMA HubForms ==
  ASSUME TypeOK
  PROVE  /\ sub \in [Subs -> SubType] /\ conn \in [Conns -> ConnType]
         /\ \A s \in Subs : /\ sub[s] \in SubType /\ at[s] \in Conns \cup {NoConn}
                            /\ at[s] # NoConn => at[s] \in Conns
                            /\ ChannelOf[s] \in Channels /\ KeyOf[s] \in Keys
                            /\ seen[s] \in Nat /\ stored[KeyOf[s]] \in Nat
         /\ \A c \in Conns : /\ conn[c] \in ConnType /\ c # NoConn
                             /\ conn[c].refCount \in Nat /\ conn[c].retired \in BOOLEAN
         /\ active \in Nat
BY HubAssumption, CountsFinite DEF TypeOK, SubType, ConnType

\* Every step keeps the types.
LEMMA HubTypes == HubInv /\ [Next]_vars => TypeOK'
<1> SUFFICES ASSUME HubInv, [Next]_vars PROVE TypeOK'
  OBVIOUS
<1>0. /\ TypeOK /\ Placed /\ OwnChannel /\ CountersTrue /\ ConnectionsOwned
      /\ sub \in [Subs -> SubType] /\ conn \in [Conns -> ConnType]
  BY HubForms DEF HubInv, HubCounts
<1>a. ASSUME sub' \in [Subs -> SubType], UNCHANGED <<world, stored, unsent, hub, at, seen, failures>>,
             inbox' \in SUBSET (Conns \X Keys) PROVE TypeOK'
  BY <1>0, <1>a DEF TypeOK, hub, SubType
<1>1. ASSUME NEW k \in Keys, PostEvents(k) PROVE TypeOK'
  <2>1. stored' \in [Keys -> 0..MaxEvents]
    BY <1>0, <1>1, HubAssumption DEF PostEvents, TypeOK
  <2> QED
    BY <1>0, <1>1, <2>1 DEF PostEvents, TypeOK, hub
<1>2. ASSUME NEW k \in unsent, Notify(k) \/ LoseNotify(k) PROVE TypeOK'
  BY <1>0, <1>2 DEF Notify, LoseNotify, TypeOK, hub
<1>3. ASSUME NEW c \in Conns, Listen(c) \/ End(c) PROVE TypeOK'
  BY <1>0, <1>3 DEF Listen, End, TypeOK, Live
<1>4. ASSUME NEW c \in Conns, Ready(c) PROVE TypeOK'
  <2>1. conn' \in [Conns -> [phase : Live \cup {"unused", "ended"},
                             refCount : 0..Cardinality(Subs), retired : BOOLEAN]]
    BY <1>0, <1>4 DEF Ready, TypeOK, Live
  <2>2. sub' \in [Subs -> SubType]
    BY <1>0, <1>4 DEF Ready, SubType, Attached
  <2> QED
    BY <1>0, <1>4, <2>1, <2>2 DEF Ready, TypeOK, SubType
<1>5. ASSUME NEW s \in Subs, NEW c \in Conns, Subscribe(s, c) PROVE TypeOK'
  <2>1. ~conn[c].retired /\ s \notin AttachedTo(c)
    BY <1>0, <1>5, HubForms DEF Subscribe, Connection, Recyclable, Placed, ConnectionsOwned, AttachedTo
  <2>2. conn[c].refCount = Cardinality(AttachedTo(c))
    BY <1>0, <2>1 DEF CountersTrue
  <2>3. conn[c].refCount + 1 \in 0..Cardinality(Subs)
    <3>1. IsFiniteSet(AttachedTo(c)) /\ AttachedTo(c) \cup {s} \in SUBSET Subs
      BY <1>0, CountsFinite
    <3>2. Cardinality(AttachedTo(c) \cup {s}) = Cardinality(AttachedTo(c)) + 1
      BY <2>1, <3>1, FS_AddElement
    <3> QED
      BY <1>0, <2>2, <3>1, <3>2, CountsFinite
  <2>4. conn' \in [Conns -> ConnType]
    BY <1>0, <1>5, <2>3 DEF Subscribe, ConnType, Live
  <2>5. sub' \in [Subs -> SubType]
    BY <1>0, <1>5 DEF Subscribe, SubType, Fresh, Attached
  <2>6. active' \in 0..MaxConcurrent
    BY <1>0, <1>5, HubAssumption DEF Subscribe, Room, TypeOK
  <2>7. channels' \in [Channels -> Conns \cup {NoConn}] /\ at' \in [Subs -> Conns \cup {NoConn}]
    BY <1>0, <1>5 DEF Subscribe, TypeOK
  <2> QED
    BY <1>0, <1>5, <2>4, <2>5, <2>6, <2>7 DEF Subscribe, TypeOK, SubType, ConnType
<1>6. ASSUME NEW s \in Subs, Refuse(s) \/ Wait(s) PROVE TypeOK'
  <2>1. sub' \in [Subs -> SubType]
    <3>1. CASE Refuse(s)
      BY <1>0, <3>1 DEF Refuse, SubType, Attached
    <3>2. CASE Wait(s)
      <4> DEFINE x == sub[s]
                 place == IF x.finished THEN "leaving" ELSE IF x.notified THEN "replaying"
                          ELSE IF x.failed THEN "leaving" ELSE "waiting"
                 mark == x.finished /\ x.notified
      <4>1. x \in SubType /\ place \in Attached
        BY <1>0 DEF Attached
      <4>2. mark \in BOOLEAN
        OBVIOUS
      <4>3. sub' = [sub EXCEPT ![s] = [x EXCEPT !.at = place, !.notified = mark]]
        BY <1>0, <3>2 DEF Wait
      <4> HIDE DEF place, mark
      <4>4. [x EXCEPT !.at = place, !.notified = mark] \in SubType
        BY <4>1, <4>2 DEF SubType
      <4> QED
        BY <1>0, <4>3, <4>4
    <3> QED
      BY <1>6, <3>1, <3>2
  <2> QED
    BY <1>0, <1>6, <1>a, <2>1 DEF Refuse, Wait, TypeOK
<1>7. ASSUME NEW s \in Subs, Replay(s) PROVE TypeOK'
  <2>1. sub' \in [Subs -> SubType]
    BY <1>0, <1>7 DEF Replay, SubType, Attached
  <2>2. seen' \in [Subs -> 0..MaxEvents]
    BY <1>0, <1>7, HubAssumption DEF Replay, TypeOK
  <2> QED
    BY <1>0, <1>7, <2>1, <2>2 DEF Replay, TypeOK, SubType, hub
<1>8. ASSUME NEW n \in inbox, Dispatch(n[1], n[2]) PROVE TypeOK'
  <2>1. sub' \in [Subs -> SubType]
    BY <1>0, <1>8, Marks DEF Dispatch
  <2> QED
    BY <1>0, <1>8, <1>a, <2>1 DEF Dispatch, TypeOK
<1>9. ASSUME NEW s \in Subs, Release(s) PROVE TypeOK'
  <2> DEFINE c == at[s]
  <2>1. c \in Conns /\ s \in AttachedTo(c)
    BY <1>0, <1>9, HubForms DEF Release, Placed, AttachedTo
  <2>2. ~conn[c].retired => conn[c].refCount - 1 \in 0..Cardinality(Subs)
    <3> SUFFICES ASSUME ~conn[c].retired PROVE conn[c].refCount - 1 \in 0..Cardinality(Subs)
      OBVIOUS
    <3>1. conn[c].refCount = Cardinality(AttachedTo(c))
      BY <1>0, <2>1 DEF CountersTrue
    <3>2. /\ AttachedTo(c) \ {s} \in SUBSET Subs /\ IsFiniteSet(AttachedTo(c))
          /\ Cardinality(AttachedTo(c) \ {s}) = Cardinality(AttachedTo(c)) - 1
      BY <1>0, <2>1, CountsFinite, FS_RemoveElement
    <3> QED
      BY <1>0, <3>1, <3>2, CountsFinite
  <2>3. conn' \in [Conns -> ConnType]
    BY <1>0, <1>9, <2>1, <2>2 DEF Release, ConnType, LastOut
  <2>4. active' \in 0..MaxConcurrent
    <3> DEFINE A == {t \in Subs : sub[t].at # "away"}
    <3>1. active = Cardinality(A) /\ A \in SUBSET Subs /\ s \in A
      BY <1>0, <1>9 DEF CountersTrue, Release
    <3>2. IsFiniteSet(A) /\ Cardinality(A) # 0
      BY <1>0, <3>1, CountsFinite, FS_EmptySet
    <3>3. active \in 0..MaxConcurrent /\ active # 0 /\ active' = active - 1
      BY <1>0, <1>9, <3>1, <3>2 DEF Release, Slots, TypeOK
    <3> QED
      BY <3>3, HubAssumption
  <2>5. channels' \in [Channels -> Conns \cup {NoConn}]
    BY <1>0, <1>9 DEF Release, Drop, TypeOK
  <2>6. sub' \in [Subs -> SubType] /\ at' \in [Subs -> Conns \cup {NoConn}]
    BY <1>0, <1>9 DEF Release, SubType, Fresh, TypeOK
  <2> QED
    BY <1>0, <1>9, <2>3, <2>4, <2>5, <2>6 DEF Release, TypeOK, SubType, ConnType
<1>10. ASSUME NEW s \in Subs, Abort(s) PROVE TypeOK'
  <2>1. sub' \in [Subs -> SubType]
    <3>1. sub[s] \in SubType /\ Ended(sub[s]) \in SubType
      BY <1>0, Marks
    <3>2. [sub[s] EXCEPT !.at = "leaving", !.finished = TRUE] \in SubType
      BY <3>1 DEF SubType, Attached
    <3> QED
      BY <1>0, <1>10, <3>1, <3>2 DEF Abort
  <2> QED
    BY <1>0, <1>10, <2>1, HubAssumption DEF Abort, TypeOK, SubType, hub
<1>11. ASSUME NEW c \in Conns, FailChannel(c) PROVE TypeOK'
  <2>1. sub' \in [Subs -> SubType]
    BY <1>0, <1>11, Marks DEF FailChannel
  <2>2. conn' \in [Conns -> ConnType]
    BY <1>0, <1>11 DEF FailChannel, ConnType
  <2>3. channels' \in [Channels -> Conns \cup {NoConn}]
    BY <1>0, <1>11 DEF FailChannel, TypeOK
  <2>4. failures' \in 0..MaxFailures
    BY <1>0, <1>11, HubAssumption DEF FailChannel, TypeOK
  <2> QED
    BY <1>0, <1>11, <2>1, <2>2, <2>3, <2>4 DEF FailChannel, TypeOK, SubType, ConnType
<1>12. ASSUME NEW c \in Conns, Forget(c) PROVE TypeOK'
  <2>1. conn' \in [Conns -> ConnType]
    BY <1>0, <1>12, CountsFinite DEF Forget, ConnType, Unused
  <2> QED
    BY <1>0, <1>12, <2>1 DEF Forget, TypeOK, ConnType
<1>13. ASSUME Close PROVE TypeOK'
  <2>1. sub' \in [Subs -> SubType]
    BY <1>0, <1>13, Marks DEF Close
  <2>2. conn' \in [Conns -> ConnType]
    BY <1>0, <1>13 DEF Close, ConnType
  <2> QED
    BY <1>0, <1>13, <2>1, <2>2 DEF Close, TypeOK, SubType, ConnType
<1>14. CASE UNCHANGED vars
  BY <1>0, <1>14 DEF vars, hub, TypeOK
<1> QED
  BY <1>1, <1>2, <1>3, <1>4, <1>5, <1>6, <1>7, <1>8, <1>9, <1>10, <1>11, <1>12, <1>13, <1>14
  DEF Next

-----------------------------------------------------------------------------
(* Counters and connections. *)

SameAway == \A s \in Subs : sub'[s].at = "away" <=> sub[s].at = "away"

\* Who is attached to what is unchanged.
LEMMA SameAttached ==
  ASSUME SameAway, at' = at
  PROVE  /\ {s \in Subs : sub'[s].at # "away"} = {s \in Subs : sub[s].at # "away"}
         /\ \A c : AttachedTo(c)' = AttachedTo(c)
BY DEF SameAway, AttachedTo

\* A step that leaves the hub alone, except for the phase of a connection that
\* lives on, or retired before it ended.
LEMMA PhaseStep ==
  ASSUME HubInv, TypeOK', SameAway, UNCHANGED <<active, channels, at>>, NEW c \in Conns, NEW p,
         \/ conn' = conn
         \/ /\ conn' = [conn EXCEPT ![c].phase = p]
            /\ conn[c].phase \in Live /\ (p \in Live \/ (p = "ended" /\ conn[c].retired))
  PROVE  HubCounts'
<1>0. /\ TypeOK /\ Placed /\ OwnChannel /\ CountersTrue /\ ConnectionsOwned
      /\ conn \in [Conns -> ConnType]
  BY HubForms DEF HubInv, HubCounts
<1>1. \A d \in Conns :
        /\ conn'[d].refCount = conn[d].refCount /\ conn'[d].retired = conn[d].retired
        /\ conn'[d].phase = "unused" <=> conn[d].phase = "unused"
        /\ conn[d].phase \in Live /\ ~conn[d].retired => conn'[d].phase \in Live
  BY <1>0 DEF ConnType, Live
<1>2. \A s \in Subs : at[s] # NoConn => at[s] \in Conns
  BY <1>0, HubForms
<1>3. Placed'
  BY <1>0, <1>1, <1>2 DEF Placed, SameAway
<1>4. OwnChannel'
  BY <1>0 DEF OwnChannel
<1>5. CountersTrue'
  <2>1. /\ {s \in Subs : sub'[s].at # "away"} = {s \in Subs : sub[s].at # "away"}
        /\ \A d : AttachedTo(d)' = AttachedTo(d)
    BY SameAttached
  <2>2. \A d \in Conns : ~conn'[d].retired => conn'[d].refCount = Cardinality(AttachedTo(d)')
    BY <1>0, <1>1, <2>1 DEF CountersTrue
  <2> QED
    BY <1>0, <2>1, <2>2 DEF CountersTrue
<1>6. ConnectionsOwned'
  <2>1. \A ch \in Channels : channels[ch] # NoConn => channels[ch] \in Conns
    BY <1>0 DEF TypeOK
  <2> QED
    BY <1>0, <1>1, <2>1, SameAttached DEF ConnectionsOwned
<1> QED
  BY <1>3, <1>4, <1>5, <1>6 DEF HubCounts

\* A connection is registered under one channel.
LEMMA OneChannelEach ==
  ASSUME HubInv, NEW ch \in Channels, NEW dh \in Channels, channels[ch] # NoConn,
         channels[dh] = channels[ch]
  PROVE  ch = dh
<1>1. /\ TypeOK /\ OwnChannel /\ ConnectionsOwned /\ channels[ch] \in Conns
  BY DEF HubInv, HubCounts, TypeOK
<1>2. PICK s \in Subs : at[s] = channels[ch]
  BY <1>1 DEF ConnectionsOwned, AttachedTo, Live
<1> QED
  BY <1>1, <1>2 DEF OwnChannel

\* A subscription takes a slot and a place on its channel's connection.
LEMMA SubscribeCounts ==
  ASSUME HubInv, TypeOK', NEW s \in Subs, NEW c \in Conns, Subscribe(s, c)
  PROVE  HubCounts'
<1> DEFINE ch == ChannelOf[s]
           A == {t \in Subs : sub[t].at # "away"}
<1>0. /\ TypeOK /\ Placed /\ OwnChannel /\ CountersTrue /\ ConnectionsOwned
      /\ conn \in [Conns -> ConnType] /\ sub \in [Subs -> SubType]
      /\ ch \in Channels /\ c # NoConn
      /\ channels \in [Channels -> Conns \cup {NoConn}] /\ at \in [Subs -> Conns \cup {NoConn}]
  BY HubForms, HubAssumption DEF HubInv, HubCounts, TypeOK
<1>1. /\ sub[s].at = "away" /\ at[s] = NoConn /\ active < MaxConcurrent
      /\ active' = active + 1
      /\ channels' = [channels EXCEPT ![ch] = c] /\ at' = [at EXCEPT ![s] = c]
      /\ sub'[s].at # "away" /\ \A t \in Subs \ {s} : sub'[t] = sub[t]
  BY <1>0 DEF Subscribe, Room, Placed, SubType, Fresh
<1>2. \/ channels[ch] = c /\ conn[c].phase \in Live
      \/ channels[ch] = NoConn /\ conn[c].phase = "unused"
  BY <1>0 DEF Subscribe, Connection, Recyclable, ConnectionsOwned
<1>3. ~conn[c].retired
  BY <1>0, <1>2 DEF Placed, ConnectionsOwned
<1>4. /\ conn'[c].refCount = conn[c].refCount + 1 /\ ~conn'[c].retired
      /\ conn'[c].phase \in Live
      /\ \A d \in Conns \ {c} : conn'[d] = conn[d]
  BY <1>0, <1>2 DEF Subscribe, Recyclable, Live
<1>5. Placed'
  <2>1. ASSUME NEW t \in Subs
        PROVE  /\ sub'[t].at = "away" <=> at'[t] = NoConn
               /\ at'[t] # NoConn => conn'[at'[t]].phase # "unused"
    <3>1. CASE t = s
      BY <1>0, <1>1, <1>4, <3>1 DEF Live
    <3>2. CASE t # s
      <4>1. at'[t] = at[t] /\ sub'[t] = sub[t] /\ (at[t] # NoConn => at[t] \in Conns)
        BY <1>0, <1>1, <3>2
      <4> QED
        BY <1>0, <1>4, <4>1 DEF Placed, Live
    <3> QED
      BY <3>1, <3>2
  <2>2. \A d \in Conns : conn'[d].phase = "unused" => ~conn'[d].retired
    BY <1>0, <1>4 DEF Placed
  <2> QED
    BY <2>1, <2>2 DEF Placed
<1>6. OwnChannel'
  <2> SUFFICES ASSUME NEW t \in Subs, NEW dh \in Channels, at'[t] # NoConn,
                      channels'[dh] = at'[t]
               PROVE  ChannelOf[t] = dh
    BY DEF OwnChannel
  <2>1. channels'[dh] = IF dh = ch THEN c ELSE channels[dh]
    BY <1>0, <1>1
  <2>2. at'[t] = IF t = s THEN c ELSE at[t]
    BY <1>0, <1>1
  <2>3. dh # ch => channels[dh] # c
    BY <1>0, <1>2, OneChannelEach DEF ConnectionsOwned, Live
  <2>4. t # s /\ at[t] = c => ChannelOf[t] = ch
    BY <1>0, <1>2 DEF Placed, OwnChannel, Live
  <2> QED
    BY <1>0, <2>1, <2>2, <2>3, <2>4 DEF OwnChannel
<1>7. CountersTrue'
  <2>1. active' <= MaxConcurrent
    BY <1>0, <1>1, HubForms, HubAssumption
  <2>2. active' = Cardinality({t \in Subs : sub'[t].at # "away"})
    <3>1. {t \in Subs : sub'[t].at # "away"} = A \cup {s} /\ s \notin A
      BY <1>1
    <3>2. IsFiniteSet(A) /\ active = Cardinality(A)
      BY <1>0, CountsFinite DEF CountersTrue
    <3> HIDE DEF A
    <3> QED
      BY <1>1, <3>1, <3>2, FS_AddElement
  <2>3. ASSUME NEW d \in Conns, ~conn'[d].retired
        PROVE  conn'[d].refCount = Cardinality(AttachedTo(d)')
    <3>1. CASE d = c
      <4>1. AttachedTo(c)' = AttachedTo(c) \cup {s} /\ s \notin AttachedTo(c)
        BY <1>0, <1>1 DEF AttachedTo
      <4>2. IsFiniteSet(AttachedTo(c)) /\ conn[c].refCount = Cardinality(AttachedTo(c))
        BY <1>0, <1>3, CountsFinite DEF CountersTrue
      <4> QED
        BY <1>4, <3>1, <4>1, <4>2, FS_AddElement
    <3>2. CASE d # c
      <4>1. AttachedTo(d)' = AttachedTo(d)
        BY <1>0, <1>1, <3>2, HubForms DEF AttachedTo
      <4> QED
        BY <1>0, <1>4, <2>3, <3>2, <4>1 DEF CountersTrue
    <3> QED
      BY <3>1, <3>2
  <2> QED
    BY <2>1, <2>2, <2>3 DEF CountersTrue
<1>8. ConnectionsOwned'
  <2>1. ASSUME NEW d \in Conns, conn'[d].phase # "unused", ~conn'[d].retired
        PROVE  AttachedTo(d)' # {} /\ \E dh \in Channels : channels'[dh] = d
    <3>1. CASE d = c
      BY <1>0, <1>1, <3>1 DEF AttachedTo
    <3>2. CASE d # c
      <4>1. PICK t \in Subs : at[t] = d
        BY <1>0, <1>4, <2>1, <3>2 DEF ConnectionsOwned, AttachedTo
      <4>2. PICK dh \in Channels : channels[dh] = d
        BY <1>0, <1>4, <2>1, <3>2 DEF ConnectionsOwned
      <4>3. t # s /\ dh # ch
        BY <1>0, <1>1, <1>2, <3>2, <4>1, <4>2, HubForms
      <4> QED
        BY <1>0, <1>1, <4>1, <4>2, <4>3 DEF AttachedTo
    <3> QED
      BY <3>1, <3>2
  <2>2. ASSUME NEW dh \in Channels, channels'[dh] # NoConn
        PROVE  conn'[channels'[dh]].phase \in Live /\ ~conn'[channels'[dh]].retired
    <3>1. CASE dh = ch
      BY <1>0, <1>1, <1>4, <3>1
    <3>2. CASE dh # ch
      <4>1. channels'[dh] = channels[dh] /\ channels[dh] \in Conns
        BY <1>0, <1>1, <2>2, <3>2
      <4> QED
        BY <1>0, <1>4, <2>2, <4>1 DEF ConnectionsOwned
    <3> QED
      BY <3>1, <3>2
  <2> QED
    BY <2>1, <2>2 DEF ConnectionsOwned
<1> QED
  BY <1>5, <1>6, <1>7, <1>8 DEF HubCounts

\* A subscriber that leaves gives back its slot and its place; the last one
\* retires the connection, and nobody else is left on it.
LEMMA ReleaseCounts ==
  ASSUME HubInv, TypeOK', NEW s \in Subs, Release(s)
  PROVE  /\ HubCounts'
         /\ \A t \in Subs \ {s} : at[t] = at[s] => ~LastOut(at[s])
<1> DEFINE c == at[s]
           A == {t \in Subs : sub[t].at # "away"}
<1>0. /\ TypeOK /\ Placed /\ OwnChannel /\ CountersTrue /\ ConnectionsOwned
      /\ conn \in [Conns -> ConnType] /\ sub \in [Subs -> SubType]
      /\ ChannelOf[s] \in Channels
      /\ channels \in [Channels -> Conns \cup {NoConn}] /\ at \in [Subs -> Conns \cup {NoConn}]
  BY HubForms, HubAssumption DEF HubInv, HubCounts, TypeOK
<1>1. /\ sub[s].at = "leaving" /\ c \in Conns /\ s \in AttachedTo(c) /\ c # NoConn
      /\ active' = active - 1 /\ at' = [at EXCEPT ![s] = NoConn]
      /\ sub' = [sub EXCEPT ![s] = Fresh]
  BY <1>0, HubForms DEF Release, Slots, Placed, AttachedTo
<1>2. /\ conn'[c].refCount = IF conn[c].retired THEN conn[c].refCount ELSE conn[c].refCount - 1
      /\ conn'[c].retired = (conn[c].retired \/ LastOut(c))
      /\ conn'[c].phase = conn[c].phase
      /\ \A d \in Conns \ {c} : conn'[d] = conn[d]
      /\ channels' = IF LastOut(c) THEN Drop(ChannelOf[s], c) ELSE channels
  BY <1>0, <1>1 DEF Release, ConnType
<1>3. ASSUME NEW t \in Subs \ {s}, at[t] = c PROVE ~LastOut(c)
  <2> SUFFICES ASSUME LastOut(c) PROVE FALSE
    OBVIOUS
  <2>1. Cardinality(AttachedTo(c)) = 1 /\ IsFiniteSet(AttachedTo(c))
    BY <1>0, <1>1, CountsFinite DEF LastOut, CountersTrue
  <2>2. PICK x : AttachedTo(c) = {x}
    BY <2>1, FS_Singleton
  <2> QED
    BY <1>1, <1>3, <2>2 DEF AttachedTo
<1>4. \A ch \in Channels : channels'[ch] =
         IF LastOut(c) /\ channels[ch] = c THEN NoConn ELSE channels[ch]
  <2>1. ASSUME NEW ch \in Channels, channels[ch] = c PROVE ch = ChannelOf[s]
    BY <1>0, <1>1, <2>1 DEF OwnChannel
  <2> QED
    BY <1>0, <1>2, <2>1 DEF Drop
<1>5. Placed'
  <2>1. ASSUME NEW t \in Subs
        PROVE  /\ sub'[t].at = "away" <=> at'[t] = NoConn
               /\ at'[t] # NoConn => conn'[at'[t]].phase # "unused"
    <3>1. CASE t = s
      BY <1>0, <1>1, <3>1 DEF Fresh
    <3>2. CASE t # s
      <4>1. at'[t] = at[t] /\ sub'[t] = sub[t] /\ (at[t] # NoConn => at[t] \in Conns)
        BY <1>0, <1>1, <3>2
      <4> QED
        BY <1>0, <1>2, <4>1 DEF Placed
    <3> QED
      BY <3>1, <3>2
  <2>2. \A d \in Conns : conn'[d].phase = "unused" => ~conn'[d].retired
    BY <1>0, <1>1, <1>2 DEF Placed
  <2> QED
    BY <2>1, <2>2 DEF Placed
<1>6. OwnChannel'
  BY <1>0, <1>1, <1>4 DEF OwnChannel
<1>7. CountersTrue'
  <2>1. A \in SUBSET Subs /\ IsFiniteSet(A) /\ active = Cardinality(A) /\ s \in A
    BY <1>0, <1>1, CountsFinite DEF CountersTrue
  <2>2. {t \in Subs : sub'[t].at # "away"} = A \ {s}
    BY <1>0, <1>1 DEF Fresh
  <2>3. active' = Cardinality({t \in Subs : sub'[t].at # "away"})
    <3> HIDE DEF A
    <3> QED
      BY <1>1, <2>1, <2>2, FS_RemoveElement
  <2>4. active' <= MaxConcurrent
    BY <1>0, <1>1, HubAssumption, HubForms DEF CountersTrue
  <2>5. ASSUME NEW d \in Conns, ~conn'[d].retired
        PROVE  conn'[d].refCount = Cardinality(AttachedTo(d)')
    <3>1. CASE d = c
      <4>1. AttachedTo(d)' = AttachedTo(d) \ {s} /\ s \in AttachedTo(d)
        BY <1>0, <1>1, <3>1 DEF AttachedTo
      <4>2. /\ ~conn[d].retired /\ IsFiniteSet(AttachedTo(d))
            /\ conn[d].refCount = Cardinality(AttachedTo(d))
            /\ conn'[d].refCount = conn[d].refCount - 1
        BY <1>0, <1>1, <1>2, <2>5, <3>1, CountsFinite DEF CountersTrue
      <4> QED
        BY <4>1, <4>2, FS_RemoveElement
    <3>2. CASE d # c
      <4>1. AttachedTo(d)' = AttachedTo(d)
        BY <1>0, <1>1, <3>2, HubForms DEF AttachedTo
      <4> QED
        BY <1>0, <1>2, <2>5, <3>2, <4>1 DEF CountersTrue
    <3> QED
      BY <3>1, <3>2
  <2> QED
    BY <2>3, <2>4, <2>5 DEF CountersTrue
<1>8. ConnectionsOwned'
  <2>1. ASSUME NEW d \in Conns, conn'[d].phase # "unused", ~conn'[d].retired
        PROVE  AttachedTo(d)' # {} /\ \E ch \in Channels : channels'[ch] = d
    <3>1. ~conn[d].retired /\ conn[d].phase # "unused" /\ (d = c => ~LastOut(c))
      BY <1>1, <1>2, <2>1
    <3>2. PICK ch \in Channels : channels[ch] = d
      BY <1>0, <3>1 DEF ConnectionsOwned
    <3>3. channels'[ch] = d
      BY <1>4, <3>1, <3>2
    <3>4. \E t \in Subs \ {s} : at[t] = d
      <4>1. CASE d = c
        <5>1. IsFiniteSet(AttachedTo(c)) /\ Cardinality(AttachedTo(c)) # 1
          BY <1>0, <3>1, <4>1, CountsFinite DEF LastOut, CountersTrue
        <5>2. AttachedTo(c) # {s}
          BY <5>1, FS_Singleton
        <5> QED
          BY <1>1, <4>1, <5>2 DEF AttachedTo
      <4>2. CASE d # c
        BY <1>0, <1>1, <3>1, <4>2 DEF ConnectionsOwned, AttachedTo
      <4> QED
        BY <4>1, <4>2
    <3>5. AttachedTo(d)' # {}
      BY <1>0, <1>1, <3>4 DEF AttachedTo
    <3> QED
      BY <3>3, <3>5
  <2>2. ASSUME NEW ch \in Channels, channels'[ch] # NoConn
        PROVE  conn'[channels'[ch]].phase \in Live /\ ~conn'[channels'[ch]].retired
    <3>1. /\ channels'[ch] = channels[ch] /\ channels[ch] \in Conns
          /\ ~(LastOut(c) /\ channels[ch] = c)
      BY <1>0, <1>4, <2>2
    <3>2. conn[channels[ch]].phase \in Live /\ ~conn[channels[ch]].retired
      BY <1>0, <2>2, <3>1 DEF ConnectionsOwned
    <3> QED
      BY <1>2, <3>1, <3>2
  <2> QED
    BY <2>1, <2>2 DEF ConnectionsOwned
<1> QED
  BY <1>3, <1>5, <1>6, <1>7, <1>8 DEF HubCounts

\* Connections that retire are registered no more; nobody leaves them yet.
LEMMA RetireCounts ==
  ASSUME HubInv, TypeOK', SameAway, at' = at, active' = active,
         NEW R \in SUBSET Conns,
         \A c \in Conns : c \notin R => conn'[c] = conn[c],
         \A c \in R : /\ conn'[c].retired /\ conn[c].phase # "unused" /\ conn'[c].phase # "unused",
         \A ch \in Channels :
             channels'[ch] = IF channels[ch] \in R THEN NoConn ELSE channels[ch]
  PROVE  HubCounts'
<1>0. /\ TypeOK /\ Placed /\ OwnChannel /\ CountersTrue /\ ConnectionsOwned
      /\ \A ch \in Channels : channels[ch] \in Conns \cup {NoConn}
      /\ \A s \in Subs : at[s] \in Conns \cup {NoConn}
  BY DEF HubInv, HubCounts, TypeOK
<1>1. Placed'
  BY <1>0 DEF Placed, SameAway
<1>2. OwnChannel'
  BY <1>0, HubAssumption DEF OwnChannel
<1>3. CountersTrue'
  BY <1>0, SameAttached DEF CountersTrue
<1>4. ConnectionsOwned'
  <2>1. ASSUME NEW c \in Conns, conn'[c].phase # "unused", ~conn'[c].retired
        PROVE  AttachedTo(c)' # {} /\ \E ch \in Channels : channels'[ch] = c
    <3>1. c \notin R /\ conn'[c] = conn[c]
      BY <2>1
    <3>2. AttachedTo(c) # {} /\ \E ch \in Channels : channels[ch] = c
      BY <1>0, <2>1, <3>1 DEF ConnectionsOwned
    <3> QED
      BY <3>1, <3>2, SameAttached
  <2>2. ASSUME NEW ch \in Channels, channels'[ch] # NoConn
        PROVE  conn'[channels'[ch]].phase \in Live /\ ~conn'[channels'[ch]].retired
    BY <1>0, <2>2 DEF ConnectionsOwned
  <2> QED
    BY <2>1, <2>2 DEF ConnectionsOwned
<1> QED
  BY <1>1, <1>2, <1>3, <1>4 DEF HubCounts

\* A connection that has ended and serves nobody is forgotten.
LEMMA ForgetCounts ==
  ASSUME HubInv, TypeOK', NEW c \in Conns, Forget(c)
  PROVE  HubCounts'
<1>0. /\ TypeOK /\ Placed /\ OwnChannel /\ CountersTrue /\ ConnectionsOwned
      /\ conn \in [Conns -> ConnType]
      /\ \A ch \in Channels : channels[ch] \in Conns \cup {NoConn}
      /\ \A s \in Subs : at[s] \in Conns \cup {NoConn}
  BY HubForms DEF HubInv, HubCounts, TypeOK
<1>1. /\ conn[c].phase = "ended" /\ AttachedTo(c) = {}
      /\ conn'[c] = Unused /\ \A d \in Conns \ {c} : conn'[d] = conn[d]
      /\ UNCHANGED <<active, channels, sub, at>>
  BY <1>0 DEF Forget
<1>2. \A ch \in Channels : channels[ch] # c
  BY <1>0, <1>1, HubForms DEF ConnectionsOwned, Live
<1>3. \A s \in Subs : at[s] # c
  BY <1>1 DEF AttachedTo
<1>4. Placed'
  BY <1>0, <1>1, <1>3 DEF Placed, Unused
<1>5. OwnChannel'
  BY <1>0, <1>1 DEF OwnChannel
<1>6. CountersTrue'
  <2>1. \A d \in Conns : AttachedTo(d)' = AttachedTo(d)
    BY <1>1 DEF AttachedTo
  <2> QED
    BY <1>0, <1>1, <2>1, FS_EmptySet DEF CountersTrue, Unused
<1>7. ConnectionsOwned'
  BY <1>0, <1>1, <1>2 DEF ConnectionsOwned, AttachedTo, Unused
<1> QED
  BY <1>4, <1>5, <1>6, <1>7 DEF HubCounts

\* Every step keeps the counters and the registration of connections.
LEMMA CountsStep == HubInv /\ [Next]_vars => HubCounts'
<1> SUFFICES ASSUME HubInv, [Next]_vars PROVE HubCounts'
  OBVIOUS
<1>0. /\ TypeOK /\ TypeOK' /\ Placed /\ ConnectionsOwned
      /\ conn \in [Conns -> ConnType] /\ sub \in [Subs -> SubType]
      /\ \A s \in Subs : at[s] # NoConn => sub[s].at # "away"
  BY HubTypes, HubForms DEF HubInv, HubCounts, Placed
<1>a. ASSUME SameAway, UNCHANGED <<hub, at>> PROVE HubCounts'
  <2>1. CASE Conns = {}
    BY <1>0, <1>a, <2>1 DEF HubInv, HubCounts, hub, SameAway, Placed, OwnChannel, CountersTrue,
                            ConnectionsOwned, AttachedTo
  <2>2. CASE Conns # {}
    BY <1>0, <1>a, <2>2, PhaseStep DEF hub
  <2> QED
    BY <2>1, <2>2
<1>1. ASSUME NEW c \in Conns, Listen(c) \/ Ready(c) \/ End(c) PROVE HubCounts'
  <2>1. SameAway
    BY <1>0, <1>1 DEF Listen, Ready, End, SameAway, SubType
  <2>2. CASE Listen(c)
    <3>1. /\ conn' = [conn EXCEPT ![c].phase = "listening"] /\ conn[c].phase \in Live
          /\ "listening" \in Live /\ UNCHANGED <<active, channels, at>>
      BY <2>2 DEF Listen, Live
    <3> QED
      BY <1>0, <2>1, <3>1, PhaseStep
  <2>3. CASE Ready(c)
    <3>1. /\ conn' = [conn EXCEPT ![c].phase = "ready"] /\ conn[c].phase \in Live
          /\ "ready" \in Live /\ UNCHANGED <<active, channels, at>>
      BY <2>3 DEF Ready, Live
    <3> QED
      BY <1>0, <2>1, <3>1, PhaseStep
  <2>4. CASE End(c)
    BY <1>0, <2>1, <2>4, PhaseStep DEF End, Live
  <2> QED
    BY <1>1, <2>2, <2>3, <2>4
<1>2. ASSUME NEW s \in Subs, Refuse(s) \/ Replay(s) \/ Wait(s) \/ Abort(s) PROVE HubCounts'
  <2>1. sub[s] \in SubType /\ sub[s].at # "away" /\ \A t \in Subs \ {s} : sub'[t] = sub[t]
    BY <1>0, <1>2 DEF Refuse, Replay, Wait, Abort, Attached
  <2>2. sub'[s].at # "away"
    <3>1. CASE Refuse(s) \/ Replay(s)
      BY <1>0, <2>1, <3>1 DEF Refuse, Replay, SubType
    <3>2. CASE Wait(s)
      BY <1>0, <2>1, <3>2 DEF Wait, SubType
    <3>3. CASE Abort(s)
      BY <1>0, <2>1, <3>3, Marks DEF Abort, SubType
    <3> QED
      BY <1>2, <3>1, <3>2, <3>3
  <2> QED
    BY <1>2, <1>a, <2>1, <2>2 DEF SameAway, Refuse, Replay, Wait, Abort
<1>3. ASSUME NEW n \in inbox, Dispatch(n[1], n[2]) PROVE HubCounts'
  <2>1. n[1] \in Conns /\ n[1] # NoConn
    BY <1>0, HubAssumption DEF TypeOK
  <2>2. SameAway
    BY <1>0, <1>3, <2>1, Marks DEF Dispatch, SameAway
  <2> QED
    BY <1>3, <1>a, <2>2 DEF Dispatch
<1>4. ASSUME NEW c \in Conns, FailChannel(c) PROVE HubCounts'
  <2>1. SameAway
    BY <1>0, <1>4, HubForms, Marks DEF FailChannel, SameAway
  <2>2. /\ conn'[c].retired /\ conn[c].phase # "unused" /\ conn'[c].phase # "unused"
        /\ \A d \in Conns : d \notin {c} => conn'[d] = conn[d]
        /\ at' = at /\ active' = active
        /\ \A ch \in Channels : channels'[ch] = IF channels[ch] \in {c} THEN NoConn ELSE channels[ch]
    BY <1>0, <1>4 DEF FailChannel, ConnType, Live
  <2> QED
    BY <1>0, <2>1, <2>2, RetireCounts
<1>5. ASSUME Close PROVE HubCounts'
  <2> DEFINE R == {c \in Conns : \E ch \in Channels : channels[ch] = c}
  <2>1. SameAway
    BY <1>0, <1>5, HubForms, Marks DEF Close, SameAway
  <2>2. at' = at /\ active' = active /\ R \in SUBSET Conns
    BY <1>5 DEF Close
  <2>3. \A d \in Conns : d \notin R => conn'[d] = conn[d]
    BY <1>5 DEF Close
  <2>4. \A c \in R : conn'[c].retired /\ conn[c].phase # "unused" /\ conn'[c].phase # "unused"
    <3> SUFFICES ASSUME NEW c \in R
                 PROVE  conn'[c].retired /\ conn[c].phase # "unused" /\ conn'[c].phase # "unused"
      OBVIOUS
    <3>1. conn'[c] = [conn[c] EXCEPT !.retired = TRUE] /\ conn[c] \in ConnType
      BY <1>0, <1>5 DEF Close
    <3>2. conn[c].phase \in Live
      BY <1>0, HubForms DEF ConnectionsOwned
    <3> QED
      BY <3>1, <3>2 DEF ConnType, Live
  <2>5. \A ch \in Channels : channels'[ch] = IF channels[ch] \in R THEN NoConn ELSE channels[ch]
    BY <1>0, <1>5 DEF Close, TypeOK
  <2> HIDE DEF R
  <2> QED
    BY <1>0, <2>1, <2>2, <2>3, <2>4, <2>5, RetireCounts
<1>6. CASE UNCHANGED <<hub, sub, at>>
  BY <1>6, <1>a DEF SameAway
<1> QED
  BY <1>0, <1>1, <1>2, <1>3, <1>4, <1>5, <1>6, SubscribeCounts, ReleaseCounts, ForgetCounts
  DEF Next, vars, PostEvents, Notify, LoseNotify

-----------------------------------------------------------------------------
(* Streams and notifications. *)

\* What of the streams one subscriber is about.
Sound(s) ==
    /\ Running(sub[s]) =>
        /\ ~conn[at[s]].retired
        /\ sub[s].at # "admitting" => conn[at[s]].phase = "ready"
    /\ sub[s].at = "waiting" => ~sub[s].notified /\ ~sub[s].failed /\ ~sub[s].finished
    /\ ~world.lossy /\ Unseen(s) => KeyOf[s] \in unsent \/ <<at[s], KeyOf[s]>> \in inbox

LEMMA StreamsSound == HubStreams <=> \A s \in Subs : Sound(s)
BY DEF HubStreams, StreamAlive, WaitersClean, Pending, Sound

\* The connection of a running subscriber is kept: whatever else happens to it, it
\* does not retire, and one that is ready stays so.
ConnKept(c) ==
    /\ ~conn[c].retired => ~conn'[c].retired
    /\ conn[c].phase = "ready" => conn'[c].phase = "ready"

\* What was owed is still owed.
OwedKept(s) ==
    KeyOf[s] \in unsent \/ <<at[s], KeyOf[s]>> \in inbox =>
        KeyOf[s] \in unsent' \/ <<at[s], KeyOf[s]>> \in inbox'

\* A subscriber that a step leaves alone, as it does its connection and what it
\* is owed.
LEMMA SoundFrame ==
  ASSUME NEW s, Sound(s), sub'[s] = sub[s], at'[s] = at[s], seen'[s] = seen[s],
         world' = world, stored'[KeyOf[s]] = stored[KeyOf[s]], ConnKept(at[s]), OwedKept(s)
  PROVE  Sound(s)'
<1>1. (Running(sub[s]))' <=> Running(sub[s])
  BY DEF Running
<1>2. Unseen(s)' <=> Unseen(s)
  BY DEF Unseen
<1> QED
  BY <1>1, <1>2 DEF Sound, ConnKept, OwedKept

\* A subscriber that is leaving, or away, asks for nothing.
LEMMA SoundIdle ==
  ASSUME NEW s, sub'[s].at \in {"leaving", "away"}
  PROVE  Sound(s)'
BY DEF Sound, Running, Unseen

\* Neither does one that has failed or ended and does not wait.
LEMMA SoundDone ==
  ASSUME NEW s, sub'[s].failed \/ sub'[s].finished, sub'[s].at # "waiting"
  PROVE  Sound(s)'
BY DEF Sound, Running, Unseen

\* A failure or an end stops the subscriber.
LEMMA SoundMarked ==
  ASSUME NEW s, sub[s] \in SubType, sub'[s] \in {Failed(sub[s]), Ended(sub[s])}
  PROVE  Sound(s)'
<1>1. CASE sub[s].at = "waiting"
  BY <1>1, Marks, SoundIdle
<1>2. CASE sub[s].at # "waiting"
  BY <1>2, Marks, SoundDone
<1> QED
  BY <1>1, <1>2

\* The steps of the service, the server and the hub.
LEMMA StreamsOutside ==
  ASSUME HubInv, NEW s \in Subs, Sound(s),
         \/ \E k \in Keys : PostEvents(k)
         \/ \E k \in unsent : Notify(k) \/ LoseNotify(k)
         \/ \E c \in Conns : Listen(c) \/ Ready(c) \/ End(c) \/ Forget(c) \/ FailChannel(c)
         \/ \E n \in inbox : Dispatch(n[1], n[2])
         \/ Close
  PROVE  Sound(s)'
<1>0. /\ TypeOK /\ Placed /\ ConnectionsOwned
      /\ conn \in [Conns -> ConnType] /\ sub \in [Subs -> SubType]
      /\ sub[s] \in SubType /\ KeyOf[s] \in Keys
      /\ seen[s] \in Nat /\ stored[KeyOf[s]] \in Nat
      /\ (Running(sub[s]) => at[s] \in Conns /\ at[s] # NoConn)
  <2>1. TypeOK /\ Placed /\ ConnectionsOwned
    BY DEF HubInv, HubCounts
  <2>2. Running(sub[s]) => sub[s].at # "away"
    BY DEF Running
  <2> QED
    BY <2>1, <2>2, HubForms DEF Placed
<1>1. ASSUME NEW k \in Keys, PostEvents(k) PROVE Sound(s)'
  <2>1. UNCHANGED <<world, inbox, conn, sub, at, seen>> /\ unsent' = unsent \cup {k}
    BY <1>1 DEF PostEvents, hub
  <2>2. KeyOf[s] # k => stored'[KeyOf[s]] = stored[KeyOf[s]]
    BY <1>0, <1>1 DEF PostEvents, TypeOK
  <2>3. CASE KeyOf[s] # k
    BY <2>1, <2>2, <2>3, SoundFrame DEF ConnKept, OwedKept
  <2>4. CASE KeyOf[s] = k
    BY <2>1, <2>4 DEF Sound, Running
  <2> QED
    BY <2>3, <2>4
<1>2. ASSUME NEW k \in unsent, Notify(k) PROVE Sound(s)'
  <2>1. /\ UNCHANGED <<world, stored, conn, sub, at, seen>> /\ unsent' = unsent \ {k}
        /\ inbox' = inbox \cup ({c \in Conns : Listening(c)} \X {k})
    BY <1>2 DEF Notify, hub
  <2>2. CASE Running(sub[s]) /\ sub[s].at # "admitting"
    <3>1. at[s] \in Conns /\ Listening(at[s])
      BY <1>0, <2>2 DEF Sound, Listening
    <3> QED
      BY <2>1, <3>1, SoundFrame DEF ConnKept, OwedKept
  <2>3. CASE ~(Running(sub[s]) /\ sub[s].at # "admitting")
    <3>1. ~Unseen(s)
      BY <2>3 DEF Unseen, Running
    <3> QED
      BY <2>1, <3>1 DEF Sound, Running, Unseen
  <2> QED
    BY <2>2, <2>3
<1>3. ASSUME NEW k \in unsent, LoseNotify(k) PROVE Sound(s)'
  BY <1>3 DEF LoseNotify, Sound, Running, Unseen, hub
<1>4. ASSUME NEW c \in Conns, Listen(c) PROVE Sound(s)'
  <2>1. ConnKept(at[s])
    <3>1. conn'[c].retired = conn[c].retired /\ conn[c].phase # "ready"
      BY <1>0, <1>4 DEF Listen, ConnType
    <3>2. \A d : d # c => conn'[d] = conn[d]
      BY <1>4 DEF Listen
    <3> QED
      BY <3>1, <3>2 DEF ConnKept
  <2> QED
    BY <1>4, <2>1, SoundFrame DEF Listen, OwedKept
<1>5. ASSUME NEW c \in Conns, Ready(c) PROVE Sound(s)'
  <2>1. /\ conn'[c].phase = "ready" /\ conn'[c].retired = conn[c].retired
        /\ \A d \in Conns \ {c} : conn'[d] = conn[d]
        /\ UNCHANGED <<world, stored, unsent, inbox, at, seen>>
        /\ sub'[s] = IF at[s] = c /\ sub[s].at = "admitting"
                     THEN [sub[s] EXCEPT !.at = "replaying"] ELSE sub[s]
    BY <1>0, <1>5 DEF Ready, ConnType
  <2>2. CASE at[s] = c /\ sub[s].at = "admitting"
    <3>1. /\ sub'[s].at = "replaying" /\ sub'[s].failed = sub[s].failed
          /\ sub'[s].finished = sub[s].finished /\ at'[s] = c
      BY <1>0, <2>1, <2>2 DEF SubType
    <3> QED
      BY <2>1, <2>2, <3>1 DEF Sound, Running, Unseen
  <2>3. CASE ~(at[s] = c /\ sub[s].at = "admitting")
    BY <1>0, <2>1, <2>3 DEF Sound, Running, Unseen
  <2> QED
    BY <2>2, <2>3
<1>6. ASSUME NEW c \in Conns, End(c) \/ Forget(c) PROVE Sound(s)'
  <2>1. Running(sub[s]) => at[s] # c
    <3>1. CASE End(c)
      BY <3>1 DEF End, Sound
    <3>2. CASE Forget(c)
      BY <3>2 DEF Forget, AttachedTo
    <3> QED
      BY <1>6, <3>1, <3>2
  <2>2. /\ UNCHANGED <<world, stored, unsent, sub, at, seen>>
        /\ \A d \in Conns \ {c} : conn'[d] = conn[d]
        /\ \A n \in inbox : n[1] # c => n \in inbox'
    BY <1>0, <1>6 DEF End, Forget
  <2> QED
    BY <1>0, <2>1, <2>2 DEF Sound, Running, Unseen
<1>7. ASSUME NEW c \in Conns, FailChannel(c) PROVE Sound(s)'
  <2>1. /\ sub'[s] = IF at[s] = c THEN Failed(sub[s]) ELSE sub[s]
        /\ UNCHANGED <<world, stored, unsent, inbox, at, seen>>
        /\ \A d \in Conns \ {c} : conn'[d] = conn[d]
    BY <1>0, <1>7 DEF FailChannel
  <2>2. CASE at[s] = c
    BY <1>0, <2>1, <2>2, SoundMarked
  <2>3. CASE at[s] # c
    BY <1>0, <2>1, <2>3 DEF Sound, Running, Unseen
  <2> QED
    BY <2>2, <2>3
<1>8. ASSUME NEW n \in inbox, Dispatch(n[1], n[2]) PROVE Sound(s)'
  <2>1. /\ UNCHANGED <<world, stored, unsent, conn, at, seen>>
        /\ inbox' = inbox \ {<<n[1], n[2]>>}
        /\ sub'[s] = IF at[s] = n[1] /\ KeyOf[s] = n[2] THEN Woken(sub[s]) ELSE sub[s]
    BY <1>8 DEF Dispatch, hub
  <2>2. CASE at[s] = n[1] /\ KeyOf[s] = n[2]
    <3>1. /\ sub'[s].failed = sub[s].failed /\ sub'[s].finished = sub[s].finished
          /\ sub'[s].at # "waiting"
          /\ sub'[s].at = "asking" => sub'[s].notified
          /\ sub'[s].at = IF sub[s].at = "waiting" THEN "replaying" ELSE sub[s].at
      BY <1>0, <2>1, <2>2, Marks
    <3>2. (Running(sub[s]))' => Running(sub[s]) /\ (sub'[s].at # "admitting" => sub[s].at # "admitting")
      BY <3>1 DEF Running
    <3>3. ~Unseen(s)'
      BY <3>1 DEF Unseen
    <3> QED
      BY <2>1, <3>1, <3>2, <3>3 DEF Sound
  <2>3. CASE ~(at[s] = n[1] /\ KeyOf[s] = n[2])
    <3>1. <<at[s], KeyOf[s]>> # <<n[1], n[2]>>
      BY <2>3
    <3> QED
      BY <2>1, <2>3, <3>1, SoundFrame DEF ConnKept, OwedKept
  <2> QED
    BY <2>2, <2>3
<1>9. ASSUME Close PROVE Sound(s)'
  <2> DEFINE Hit == \E ch \in Channels : channels[ch] = at[s] /\ at[s] # NoConn
  <2>1. /\ sub'[s] = IF Hit THEN Ended(sub[s]) ELSE sub[s]
        /\ UNCHANGED <<world, stored, unsent, inbox, at, seen>>
    BY <1>9 DEF Close
  <2>2. CASE Hit
    BY <1>0, <2>1, <2>2, SoundMarked
  <2>3. CASE ~Hit
    <3>1. Running(sub[s]) => conn'[at[s]] = conn[at[s]]
      BY <1>0, <1>9, <2>3 DEF Close
    <3> QED
      BY <2>1, <2>3, <3>1 DEF Sound, Running, Unseen
  <2> QED
    BY <2>2, <2>3
<1> QED
  BY <1>1, <1>2, <1>3, <1>4, <1>5, <1>6, <1>7, <1>8, <1>9

\* The steps of a subscriber, for itself and for the others.
LEMMA StreamsInside ==
  ASSUME HubInv, NEW s \in Subs, Sound(s), NEW t \in Subs,
         \/ \E c \in Conns : Subscribe(t, c)
         \/ Refuse(t) \/ Replay(t) \/ Wait(t) \/ Release(t) \/ Abort(t)
  PROVE  Sound(s)'
<1>0. /\ TypeOK /\ Placed /\ ConnectionsOwned /\ CountersTrue
      /\ conn \in [Conns -> ConnType] /\ sub \in [Subs -> SubType]
      /\ sub[s] \in SubType /\ KeyOf[s] \in Keys
      /\ seen[s] \in Nat /\ stored[KeyOf[s]] \in Nat
      /\ at \in [Subs -> Conns \cup {NoConn}] /\ seen \in [Subs -> 0..MaxEvents]
      /\ (Running(sub[s]) => at[s] \in Conns /\ at[s] # NoConn)
  <2>1. TypeOK /\ Placed /\ ConnectionsOwned /\ CountersTrue
    BY DEF HubInv, HubCounts
  <2>2. Running(sub[s]) => sub[s].at # "away"
    BY DEF Running
  <2> QED
    BY <2>1, <2>2, HubForms DEF Placed, TypeOK
<1>1. ASSUME NEW c \in Conns, Subscribe(t, c) PROVE Sound(s)'
  <2>1. /\ sub'[t] = [Fresh EXCEPT !.at = IF Awaits(c) THEN "admitting" ELSE "replaying"]
        /\ at'[t] = c
        /\ \A x \in Subs \ {t} : sub'[x] = sub[x] /\ at'[x] = at[x]
        /\ UNCHANGED <<world, stored, unsent, inbox, seen>>
    BY <1>0, <1>1 DEF Subscribe
  <2>2. /\ ~conn'[c].retired
        /\ conn'[c].phase = IF Recyclable(c) THEN "connecting" ELSE conn[c].phase
        /\ \A d \in Conns \ {c} : conn'[d] = conn[d]
    BY <1>0, <1>1 DEF Subscribe
  <2>3. CASE s = t
    <3>1. sub'[s].at = IF Awaits(c) THEN "admitting" ELSE "replaying"
      BY <2>1, <2>3 DEF Fresh
    <3>2. ~Awaits(c) => conn'[c].phase = "ready"
      BY <2>2 DEF Awaits, Recyclable
    <3> QED
      BY <2>1, <2>2, <2>3, <3>1, <3>2 DEF Sound, Running, Unseen
  <2>4. CASE s # t
    <3>1. Running(sub[s]) => ConnKept(at[s])
      BY <1>0, <2>2 DEF ConnKept, Recyclable
    <3> QED
      BY <1>0, <2>1, <2>4, <3>1 DEF Sound, Running, Unseen, ConnKept
  <2> QED
    BY <2>3, <2>4
<1>2. ASSUME Refuse(t) \/ Replay(t) \/ Wait(t) \/ Abort(t), s # t PROVE Sound(s)'
  <2>1. /\ sub'[s] = sub[s] /\ at' = at /\ seen'[s] = seen[s]
        /\ UNCHANGED <<world, stored, unsent, inbox, conn>>
    BY <1>0, <1>2 DEF Refuse, Replay, Wait, Abort, hub
  <2> QED
    BY <2>1, SoundFrame DEF ConnKept, OwedKept
<1>3. ASSUME Refuse(s) PROVE Sound(s)'
  BY <1>0, <1>3, SoundIdle DEF Refuse, SubType
<1>4. ASSUME Replay(s) PROVE Sound(s)'
  <2>1. /\ sub[s].at = "replaying" /\ sub'[s].at = "asking"
        /\ sub'[s].failed = sub[s].failed /\ sub'[s].finished = sub[s].finished
        /\ seen'[s] = stored[KeyOf[s]] /\ UNCHANGED <<world, stored, unsent, inbox, conn, at>>
    BY <1>0, <1>4 DEF Replay, SubType, hub
  <2>2. ~Unseen(s)'
    BY <1>0, <2>1 DEF Unseen
  <2> QED
    BY <2>1, <2>2 DEF Sound, Running
<1>5. ASSUME Wait(s) PROVE Sound(s)'
  <2>1. /\ sub[s].at = "asking"
        /\ sub'[s].at = IF sub[s].finished THEN "leaving"
                        ELSE IF sub[s].notified THEN "replaying"
                        ELSE IF sub[s].failed THEN "leaving" ELSE "waiting"
        /\ sub'[s].failed = sub[s].failed /\ sub'[s].finished = sub[s].finished
        /\ UNCHANGED <<world, stored, unsent, inbox, conn, at, seen>>
    BY <1>0, <1>5 DEF Wait, SubType, hub
  <2>2. sub'[s].notified <=> sub[s].finished /\ sub[s].notified
    BY <1>0, <1>5 DEF Wait, SubType
  <2>3. CASE sub'[s].at = "leaving"
    BY <2>3, SoundIdle
  <2>4. CASE sub'[s].at = "replaying"
    BY <2>1, <2>4 DEF Sound, Running, Unseen
  <2>5. CASE sub'[s].at = "waiting"
    <3>1. ~sub[s].finished /\ ~sub[s].notified /\ ~sub[s].failed
      BY <2>1, <2>5
    <3> QED
      BY <2>1, <2>2, <2>5, <3>1 DEF Sound, Running, Unseen
  <2> QED
    BY <2>1, <2>3, <2>4, <2>5
<1>6. ASSUME Abort(s) PROVE Sound(s)'
  <2>1. sub'[s].at = "leaving" \/ sub'[s] = Ended(sub[s])
    BY <1>0, <1>6 DEF Abort, SubType
  <2> QED
    BY <1>0, <2>1, SoundIdle, SoundMarked
<1>7. ASSUME Release(t) PROVE Sound(s)'
  <2>1. /\ sub'[t] = Fresh /\ \A x \in Subs \ {t} : sub'[x] = sub[x] /\ at'[x] = at[x]
        /\ UNCHANGED <<world, stored, unsent, inbox, seen>>
    BY <1>0, <1>7 DEF Release
  <2>2. CASE s = t
    BY <2>1, <2>2, SoundIdle DEF Fresh
  <2>3. CASE s # t
    <3>1. at[s] = at[t] => ~LastOut(at[t])
      BY <1>7, <2>3, HubTypes, ReleaseCounts DEF Next
    <3>2. Running(sub[s]) => ConnKept(at[s])
      BY <1>0, <1>7, <3>1 DEF Release, ConnKept, ConnType
    <3> QED
      BY <1>0, <2>1, <2>3, <3>2 DEF Sound, Running, Unseen, ConnKept
  <2> QED
    BY <2>2, <2>3
<1> QED
  BY <1>1, <1>2, <1>3, <1>4, <1>5, <1>6, <1>7

\* Every step keeps the streams.
LEMMA StreamsStep == HubInv /\ [Next]_vars => HubStreams'
<1> SUFFICES ASSUME HubInv, [Next]_vars PROVE HubStreams'
  OBVIOUS
<1>1. \A s \in Subs : Sound(s)
  BY StreamsSound DEF HubInv
<1>2. ASSUME NEW s \in Subs PROVE Sound(s)'
  <2>1. CASE UNCHANGED vars
    BY <1>1, <2>1, SoundFrame DEF vars, hub, ConnKept, OwedKept
  <2> QED
    BY <1>1, <2>1, StreamsOutside, StreamsInside DEF Next
<1>3. HubStreams' <=> \A s \in Subs : Sound(s)'
  BY DEF HubStreams, StreamAlive, WaitersClean, Pending, Sound
<1> QED
  BY <1>2, <1>3

\* The hub's counters and connections, and what its streams are owed, are right
\* for any number of channels, keys and subscribers.
THEOREM HubInvariance == Spec => []HubInv
<1>1. Init => HubInv
  <2> SUFFICES ASSUME Init PROVE HubInv
    OBVIOUS
  <2>1. TypeOK
    <3>1. Cardinality(Subs) \in Nat
      BY HubAssumption, FS_CardinalityType
    <3>2. Unused \in ConnType /\ Fresh \in SubType
      BY <3>1 DEF Unused, ConnType, Fresh, SubType
    <3>3. conn \in [Conns -> ConnType] /\ sub \in [Subs -> SubType]
      BY <3>2 DEF Init
    <3>4. 0 \in 0..MaxConcurrent /\ 0 \in 0..MaxEvents /\ 0 \in 0..MaxFailures
      BY HubAssumption
    <3> QED
      BY <3>3, <3>4 DEF Init, TypeOK, ConnType, SubType
  <2>2. HubCounts
    <3>1. /\ \A c \in Conns : AttachedTo(c) = {} /\ c # NoConn
          /\ {s \in Subs : sub[s].at # "away"} = {}
      BY HubAssumption DEF Init, AttachedTo, Fresh
    <3>2. CountersTrue
      <4>1. active = 0 /\ \A c \in Conns : conn[c].refCount = 0
        BY DEF Init, Unused
      <4>2. 0 <= MaxConcurrent
        BY HubAssumption
      <4> QED
        BY <3>1, <4>1, <4>2, FS_EmptySet DEF CountersTrue
    <3>3. Placed /\ OwnChannel /\ ConnectionsOwned
      BY DEF Init, Placed, OwnChannel, ConnectionsOwned, Unused, Fresh
    <3> QED
      BY <3>2, <3>3 DEF HubCounts
  <2>3. HubStreams
    BY DEF Init, HubStreams, StreamAlive, WaitersClean, Pending, Running, Unseen, Fresh
  <2> QED
    BY <2>1, <2>2, <2>3 DEF HubInv
<1>2. HubInv /\ [Next]_vars => HubInv'
  BY HubTypes, CountsStep, StreamsStep DEF HubInv
<1> QED
  BY <1>1, <1>2, PTL DEF Spec

\* The hub's counters are what they count.
THEOREM CountersAlwaysTrue == Spec => []CountersTrue
<1>1. HubInv => CountersTrue
  BY DEF HubInv, HubCounts
<1> QED
  BY <1>1, HubInvariance, PTL

\* No connection is kept for nobody, and one that is registered is alive.
THEOREM ConnectionsAlwaysOwned == Spec => []ConnectionsOwned
<1>1. HubInv => ConnectionsOwned
  BY DEF HubInv, HubCounts
<1> QED
  BY <1>1, HubInvariance, PTL

\* A subscriber that waits has missed nothing.
THEOREM NoWakeupMissed == Spec => []NoMissedWakeup
<1>1. HubInv => NoMissedWakeup
  BY DEF HubInv, HubStreams, WaitersClean, Pending, Unseen, NoMissedWakeup
<1> QED
  BY <1>1, HubInvariance, PTL
=============================================================================
