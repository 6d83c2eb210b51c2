------------------------ MODULE DeduplicationProofs ------------------------
(***************************************************************************)
(* Proofs about Deduplication, for any updates, number of deliveries and   *)
(* lifespan.                                                               *)
(***************************************************************************)
EXTENDS Deduplication, TLAPS

USE DeduplicationAssumption

\* Deliveries past their arrival carry an update, and the accepted ones were
\* accepted in the past.
DeliveriesFit ==
  /\ \A d \in Deliveries : delivery[d].pc # "queued" => delivery[d].update \in Updates
  /\ \A k \in DOMAIN accepted : accepted[k].at <= clock

\* An update of notification i as new as t was sent, or is about to be, now
\* and in the next state.
Sent(i, t) == \E k \in DOMAIN sent : sent[k].id = i /\ sent[k].timestamp >= t
SentNext(i, t) == \E k \in DOMAIN sent' : sent'[k].id = i /\ sent'[k].timestamp >= t

Sending(i, t) ==
  \E e \in Deliveries : /\ delivery[e].pc = "send"
                        /\ delivery[e].update.id = i
                        /\ delivery[e].update.timestamp >= t
SendingNext(i, t) ==
  \E e \in Deliveries : /\ delivery'[e].pc = "send"
                        /\ delivery'[e].update.id = i
                        /\ delivery'[e].update.timestamp >= t

\* The entry of a notification stands for an update that was sent or will be.
MapSent ==
  \A i \in DOMAIN last_updates :
    Sent(i, last_updates[i]) \/ Sending(i, last_updates[i])

\* Covered of an update of notification i with timestamp t, in the next state.
CoveredNext(i, t) ==
  \/ i \in DOMAIN last_updates' /\ t <= last_updates'[i]
  \/ t + Lifespan <= clock'

\* An update that passed stays covered by the map until the collector may
\* remove it, which is after its lifespan.
IInv == /\ TypeOK /\ DeliveriesFit
        /\ MapCovers /\ CollectorFits /\ PassedInOrder
        /\ MapSent /\ NewestSent

-----------------------------------------------------------------------------
\* What an update is made of.
LEMMA UpdateFields ==
  ASSUME NEW u \in Updates
  PROVE  u.id \in Ids /\ u.timestamp \in Nat
  OBVIOUS

\* What Append does to the positions of a sequence.
LEMMA AppendAt ==
  ASSUME NEW S, NEW s \in Seq(S), NEW x \in S
  PROVE  /\ Append(s, x) \in Seq(S)
         /\ DOMAIN s \subseteq DOMAIN Append(s, x)
         /\ DOMAIN Append(s, x) = DOMAIN s \cup {Len(s) + 1}
         /\ \A k \in DOMAIN s : Append(s, x)[k] = s[k] /\ k \in Nat /\ k < Len(s) + 1
         /\ Append(s, x)[Len(s) + 1] = x
         /\ Len(s) \in Nat
  OBVIOUS

\* What a sequence holds.
LEMMA ElementAt ==
  ASSUME NEW S, NEW s \in Seq(S), NEW k \in DOMAIN s
  PROVE  s[k] \in S
  OBVIOUS

\* One delivery moves on.
LEMMA Moved ==
  ASSUME TypeOK, NEW d \in Deliveries, NEW x \in Delivery,
         delivery' = [delivery EXCEPT ![d] = x]
  PROVE  /\ delivery' \in [Deliveries -> Delivery] /\ delivery'[d] = x
         /\ \A e \in Deliveries : e # d => delivery'[e] = delivery[e]
  BY DEF TypeOK

-----------------------------------------------------------------------------
\* Types, and what deliveries carry.
LEMMA TypeStep ==
  ASSUME TypeOK, DeliveriesFit, [Next]_vars
  PROVE  TypeOK' /\ DeliveriesFit'
<1>. USE DEF TypeOK
<1>1. ASSUME NEW d \in Deliveries, NEW u \in Updates, Consume(d, u)
      PROVE TypeOK' /\ DeliveriesFit'
  <2>1. [pc |-> "deduplicate", update |-> u] \in Delivery
    BY DEF Delivery
  <2>. QED
    BY <1>1, <2>1, Moved DEF Consume, DeliveriesFit
<1>2. ASSUME NEW d \in Deliveries, Deduplicate(d) PROVE TypeOK' /\ DeliveriesFit'
  <2> DEFINE u == delivery[d].update
  <2>1. u \in Updates /\ u.id \in Ids /\ u.timestamp \in Nat
    BY <1>2, UpdateFields DEF Deduplicate, DeliveriesFit
  <2>2. ASSUME NEW pc \in {"send", "acked"}, Goto(d, pc)
        PROVE  /\ delivery' \in [Deliveries -> Delivery]
               /\ \A e \in Deliveries : delivery'[e].pc # "queued" => delivery'[e].update \in Updates
    <3>1. delivery' = [delivery EXCEPT ![d] = [delivery[d] EXCEPT !.pc = pc]]
      BY <2>2 DEF Goto
    <3>2. [delivery[d] EXCEPT !.pc = pc] \in Delivery
      BY DEF Delivery
    <3>3. [delivery[d] EXCEPT !.pc = pc].update = delivery[d].update
      BY DEF Delivery
    <3>. QED
      BY <2>1, <3>1, <3>2, <3>3, Moved DEF DeliveriesFit
  <2>3. CASE IsDuplicate(u)
    BY <1>2, <2>2, <2>3 DEF Deduplicate, DeliveriesFit
  <2>4. CASE ~IsDuplicate(u)
    <3> DEFINE a == [update |-> u, at |-> clock]
    <3>1. a \in [update : Updates, at : Nat] /\ a.at <= clock
      BY <2>1
    <3>2. accepted' = Append(accepted, a) /\ clock' = clock
      BY <1>2, <2>4 DEF Deduplicate
    <3> HIDE DEF a
    <3>3. /\ accepted' \in Seq([update : Updates, at : Nat])
          /\ \A k \in DOMAIN accepted' : accepted'[k].at <= clock'
      BY <3>1, <3>2, AppendAt DEF DeliveriesFit
    <3>4. DOMAIN last_updates' \subseteq Ids /\ last_updates' \in [DOMAIN last_updates' -> Nat]
      BY <1>2, <2>1, <2>4 DEF Deduplicate
    <3>. QED
      BY <1>2, <2>2, <2>4, <3>3, <3>4 DEF Deduplicate, DeliveriesFit
  <2>. QED BY <2>3, <2>4
<1>3. ASSUME NEW d \in Deliveries, Send(d) PROVE TypeOK' /\ DeliveriesFit'
  <2>1. delivery[d].update \in Updates
    BY <1>3 DEF Send, DeliveriesFit
  <2>2. delivery' = [delivery EXCEPT ![d] = [delivery[d] EXCEPT !.pc = "acked"]]
    BY <1>3 DEF Send, Goto
  <2>3. /\ [delivery[d] EXCEPT !.pc = "acked"] \in Delivery
        /\ [delivery[d] EXCEPT !.pc = "acked"].update = delivery[d].update
    BY DEF Delivery
  <2>4. sent' \in Seq(Updates)
    BY <1>3, <2>1, AppendAt DEF Send
  <2>. QED
    BY <1>3, <2>1, <2>2, <2>3, <2>4, Moved DEF Send, DeliveriesFit
<1>4. CASE Wake
  BY <1>4 DEF Wake, DeliveriesFit
<1>5. CASE Collect
  BY <1>5 DEF Collect, DeliveriesFit
<1>6. CASE Tick
  <2>1. clock' = clock + 1 /\ UNCHANGED <<last_updates, delivery, sent, min_timestamp, accepted>>
    BY <1>6 DEF Tick
  <2>2. ASSUME NEW k \in DOMAIN accepted PROVE accepted[k].at <= clock + 1
    <3>1. accepted[k] \in [update : Updates, at : Nat]
      BY ElementAt
    <3>. QED BY <3>1 DEF DeliveriesFit
  <2>. QED
    BY <2>1, <2>2 DEF DeliveriesFit
<1>7. CASE UNCHANGED vars
  BY <1>7 DEF vars, DeliveriesFit
<1>. QED
  BY <1>1, <1>2, <1>3, <1>4, <1>5, <1>6, <1>7 DEF Next

-----------------------------------------------------------------------------
\* The map covers what passed, and what passes is in order.
LEMMA OrderStep ==
  ASSUME TypeOK, DeliveriesFit, MapCovers, CollectorFits, PassedInOrder, [Next]_vars
  PROVE  MapCovers' /\ CollectorFits' /\ PassedInOrder'
<1>. USE DEF TypeOK
<1>1. ASSUME NEW k \in DOMAIN accepted
      PROVE  /\ accepted[k].update.id \in Ids
             /\ accepted[k].update.timestamp \in Nat
             /\ accepted[k].at \in Nat
  <2>1. accepted[k] \in [update : Updates, at : Nat]
    BY <1>1, ElementAt
  <2>2. accepted[k].update \in Updates
    BY <2>1
  <2>. QED BY <2>1, <2>2, UpdateFields
<1>2. ASSUME NEW d \in Deliveries, Deduplicate(d), ~IsDuplicate(delivery[d].update)
      PROVE  MapCovers' /\ CollectorFits' /\ PassedInOrder'
  <2> DEFINE u == delivery[d].update
             a == [update |-> u, at |-> clock]
  <2>1. u \in Updates /\ u.id \in Ids /\ u.timestamp \in Nat
    BY <1>2, UpdateFields DEF Deduplicate, DeliveriesFit
  <2>2. /\ accepted' = Append(accepted, a) /\ clock' = clock
        /\ min_timestamp' = min_timestamp
        /\ DOMAIN last_updates' = DOMAIN last_updates \cup {u.id}
        /\ last_updates'[u.id] = u.timestamp
        /\ \A i \in DOMAIN last_updates : i # u.id => last_updates'[i] = last_updates[i]
    BY <1>2 DEF Deduplicate
  <2>3. u.id \in DOMAIN last_updates => last_updates[u.id] < u.timestamp
    BY <1>2, <2>1 DEF IsDuplicate
  <2>4. a \in [update : Updates, at : Nat] /\ a.update = u /\ a.at = clock
    BY <2>1
  <2> HIDE DEF a, u
  <2>5. /\ DOMAIN accepted' = DOMAIN accepted \cup {Len(accepted) + 1}
        /\ \A k \in DOMAIN accepted : accepted'[k] = accepted[k] /\ k < Len(accepted) + 1
        /\ \A k \in DOMAIN accepted : k \in Nat
        /\ accepted'[Len(accepted) + 1] = a /\ Len(accepted) \in Nat
    BY <2>2, <2>4, AppendAt
  <2>6. ASSUME NEW k \in DOMAIN accepted
        PROVE  CoveredNext(accepted[k].update.id, accepted[k].update.timestamp)
    <3>1. CASE accepted[k].update.timestamp + Lifespan <= clock
      BY <2>2, <2>5, <3>1 DEF CoveredNext
    <3>2. CASE /\ accepted[k].update.id \in DOMAIN last_updates
               /\ accepted[k].update.timestamp <= last_updates[accepted[k].update.id]
      <4>1. last_updates[accepted[k].update.id] \in Nat
        BY <3>2
      <4>2. accepted[k].update.id \in DOMAIN last_updates'
        BY <2>2, <3>2
      <4>3. accepted[k].update.timestamp <= last_updates'[accepted[k].update.id]
        <5>1. CASE accepted[k].update.id = u.id
          BY <1>1, <2>1, <2>2, <2>3, <3>2, <4>1, <5>1
        <5>2. CASE accepted[k].update.id # u.id
          BY <2>2, <3>2, <5>2
        <5>. QED BY <5>1, <5>2
      <4>. QED
        BY <4>2, <4>3 DEF CoveredNext
    <3>. QED BY <3>1, <3>2 DEF MapCovers, Covered, CoveredNext
  <2>7. CoveredNext(a.update.id, a.update.timestamp)
    BY <2>1, <2>2, <2>4 DEF CoveredNext, a, u
  <2>8. ASSUME NEW k \in DOMAIN accepted, accepted[k].update.id = u.id
        PROVE  \/ accepted[k].update.timestamp < u.timestamp
               \/ accepted[k].update.timestamp + Lifespan <= clock
    <3>1. CASE accepted[k].update.timestamp + Lifespan <= clock
      BY <3>1
    <3>2. CASE /\ u.id \in DOMAIN last_updates
               /\ accepted[k].update.timestamp <= last_updates[u.id]
      <4>1. last_updates[u.id] \in Nat
        BY <3>2
      <4>. QED
        BY <1>1, <2>1, <2>3, <3>2, <4>1
    <3>. QED BY <2>8, <3>1, <3>2 DEF MapCovers, Covered, CoveredNext
  <2>9. MapCovers'
    BY <2>5, <2>6, <2>7 DEF MapCovers, Covered, CoveredNext
  <2>10. PassedInOrder'
    <3>1. SUFFICES ASSUME NEW j \in DOMAIN accepted', NEW k \in DOMAIN accepted', j < k,
                          accepted'[j].update.id = accepted'[k].update.id
                   PROVE  \/ accepted'[j].update.timestamp < accepted'[k].update.timestamp
                          \/ accepted'[j].update.timestamp + Lifespan <= accepted'[k].at
      BY DEF PassedInOrder
    <3>2. j \in DOMAIN accepted /\ accepted'[j] = accepted[j]
      BY <2>5, <3>1
    <3>3. CASE k \in DOMAIN accepted
      BY <2>5, <3>1, <3>2, <3>3 DEF PassedInOrder
    <3>4. CASE k = Len(accepted) + 1
      BY <2>4, <2>5, <2>8, <3>1, <3>2, <3>4
    <3>. QED BY <2>5, <3>3, <3>4
  <2>. QED
    BY <2>2, <2>9, <2>10 DEF CollectorFits
<1>3. CASE Collect
  <2>1. ASSUME NEW k \in DOMAIN accepted
        PROVE  CoveredNext(accepted[k].update.id, accepted[k].update.timestamp)
    <3> DEFINE u == accepted[k].update
    <3>1. u.id \in Ids /\ u.timestamp \in Nat
      BY <1>1
    <3>2. min_timestamp \in Int /\ min_timestamp <= clock - Lifespan
      BY <1>3 DEF Collect, CollectorFits
    <3>3. accepted' = accepted /\ clock' = clock
      BY <1>3 DEF Collect
    <3>4. CASE u.timestamp + Lifespan <= clock
      BY <3>3, <3>4 DEF CoveredNext
    <3>5. CASE u.id \in DOMAIN last_updates /\ u.timestamp <= last_updates[u.id]
      <4>1. last_updates[u.id] \in Nat
        BY <3>5
      <4>2. CASE last_updates[u.id] > min_timestamp
        <5>1. u.id \in DOMAIN last_updates' /\ last_updates'[u.id] = last_updates[u.id]
          BY <1>3, <3>5, <4>2 DEF Collect
        <5>. QED
          BY <3>3, <3>5, <5>1 DEF CoveredNext
      <4>3. CASE ~(last_updates[u.id] > min_timestamp)
        <5>1. u.timestamp + Lifespan <= clock
          <6>1. u.timestamp <= min_timestamp
            BY <3>1, <3>2, <3>5, <4>1, <4>3
          <6>. QED
            BY <3>1, <3>2, <6>1, DeduplicationAssumption
        <5>. QED
          BY <3>3, <5>1 DEF CoveredNext
      <4>. QED BY <4>2, <4>3
    <3>. QED BY <3>4, <3>5 DEF MapCovers, Covered, CoveredNext
  <2>2. accepted' = accepted /\ min_timestamp' = None
    BY <1>3 DEF Collect
  <2>. QED
    BY <2>1, <2>2 DEF MapCovers, CollectorFits, PassedInOrder, Covered, CoveredNext
<1>4. CASE Tick
  <2>1. clock' = clock + 1 /\ UNCHANGED <<last_updates, min_timestamp, accepted>>
    BY <1>4 DEF Tick
  <2>2. MapCovers'
    BY <1>1, <2>1 DEF MapCovers, Covered
  <2>. QED
    BY <2>1, <2>2 DEF CollectorFits, PassedInOrder
<1>5. CASE Wake
  BY <1>5 DEF Wake, MapCovers, Covered, CollectorFits, PassedInOrder
<1>6. CASE UNCHANGED <<last_updates, min_timestamp, clock, accepted>>
  BY <1>6 DEF MapCovers, Covered, CollectorFits, PassedInOrder
<1>7. ASSUME NEW d \in Deliveries,
             \/ Send(d)
             \/ \E u \in Updates : Consume(d, u)
             \/ Deduplicate(d) /\ IsDuplicate(delivery[d].update)
      PROVE  UNCHANGED <<last_updates, min_timestamp, clock, accepted>>
  BY <1>7 DEF Send, Consume, Deduplicate
<1>. QED
  BY <1>2, <1>3, <1>4, <1>5, <1>6, <1>7 DEF Next, vars

-----------------------------------------------------------------------------
\* What was sent or is about to be stays so.
LEMMA StillSent ==
  ASSUME TypeOK, DeliveriesFit, [Next]_vars, NEW i, NEW t, Sent(i, t) \/ Sending(i, t)
  PROVE  SentNext(i, t) \/ SendingNext(i, t)
<1>. USE DEF TypeOK
<1>1. ASSUME NEW e \in Deliveries, Send(e)
      PROVE  /\ DOMAIN sent' = DOMAIN sent \cup {Len(sent) + 1}
             /\ \A k \in DOMAIN sent : sent'[k] = sent[k]
             /\ sent'[Len(sent) + 1] = delivery[e].update
             /\ \A f \in Deliveries : f # e => delivery'[f] = delivery[f]
  <2>1. delivery[e].update \in Updates /\ sent' = Append(sent, delivery[e].update)
    BY <1>1 DEF Send, DeliveriesFit
  <2>. QED
    BY <1>1, <2>1, AppendAt DEF Send, Goto
<1>2. ASSUME Sent(i, t) PROVE SentNext(i, t)
  <2>1. CASE \E e \in Deliveries : Send(e)
    BY <1>1, <1>2, <2>1 DEF Sent, SentNext
  <2>2. CASE sent' = sent
    BY <1>2, <2>2 DEF Sent, SentNext
  <2>. QED
    BY <2>1, <2>2 DEF Next, vars, Deduplicate, Consume, Wake, Collect, Tick
<1>3. ASSUME NEW e \in Deliveries, delivery[e].pc = "send",
             delivery[e].update.id = i, delivery[e].update.timestamp >= t
      PROVE  SentNext(i, t) \/ SendingNext(i, t)
  <2>1. CASE Send(e)
    BY <1>1, <1>3, <2>1 DEF SentNext
  <2>2. CASE ~Send(e)
    <3>1. delivery'[e] = delivery[e]
      BY <1>3, <2>2 DEF Next, vars, Deduplicate, Consume, Send, Goto, Wake, Collect, Tick
    <3>. QED
      BY <1>3, <3>1 DEF SendingNext
  <2>. QED BY <2>1, <2>2
<1>. QED
  BY <1>2, <1>3 DEF Sending

\* Every entry of the map, and every acknowledged update, has its sender.
LEMMA SentStep ==
  ASSUME TypeOK, DeliveriesFit, MapSent, NewestSent, [Next]_vars
  PROVE  MapSent' /\ NewestSent'
<1>. USE DEF TypeOK
<1> DEFINE Served(i, t) == Sent(i, t) \/ Sending(i, t)
           ServedNext(i, t) == SentNext(i, t) \/ SendingNext(i, t)
<1>1. \A i, t : Served(i, t) => ServedNext(i, t)
  BY StillSent
<1>2. MapSent' <=> \A i \in DOMAIN last_updates' : ServedNext(i, last_updates'[i])
  BY DEF MapSent, Sent, Sending, SentNext, SendingNext
<1>3. NewestSent' <=> \A d \in Deliveries : delivery'[d].pc = "acked" =>
                        ServedNext(delivery'[d].update.id, delivery'[d].update.timestamp)
  BY DEF NewestSent, SentNext, SendingNext
<1>4. \A i \in DOMAIN last_updates : Served(i, last_updates[i])
  BY DEF MapSent
<1>5. \A d \in Deliveries : delivery[d].pc = "acked" =>
        Served(delivery[d].update.id, delivery[d].update.timestamp)
  BY DEF NewestSent, Sent, Sending
<1> HIDE DEF Served, ServedNext
<1>6. ASSUME NEW d \in Deliveries, Deduplicate(d), IsDuplicate(delivery[d].update)
      PROVE  MapSent' /\ NewestSent'
  <2> DEFINE u == delivery[d].update
  <2>1. u \in Updates /\ u.id \in Ids /\ u.timestamp \in Nat
    BY <1>6, UpdateFields DEF Deduplicate, DeliveriesFit
  <2>2. ServedNext(u.id, u.timestamp)
    <3>1. last_updates[u.id] \in Nat /\ u.timestamp <= last_updates[u.id]
      BY <1>6 DEF IsDuplicate
    <3>2. ServedNext(u.id, last_updates[u.id])
      BY <1>1, <1>4, <1>6 DEF IsDuplicate
    <3>. QED
      <4>1. ASSUME NEW k \in DOMAIN sent', sent'[k].timestamp >= last_updates[u.id]
            PROVE  sent'[k].timestamp >= u.timestamp
        <5>1. sent' = sent /\ sent[k] \in Updates
          BY <1>6, <4>1 DEF Deduplicate
        <5>. QED BY <2>1, <3>1, <4>1, <5>1, UpdateFields
      <4>2. ASSUME NEW e \in Deliveries, delivery'[e].pc = "send",
                   delivery'[e].update.timestamp >= last_updates[u.id]
            PROVE  delivery'[e].update.timestamp >= u.timestamp
        <5>1. delivery'[e].update \in Updates
          BY <4>2, TypeStep DEF DeliveriesFit
        <5>. QED BY <2>1, <3>1, <4>2, <5>1, UpdateFields
      <4>. QED
        BY <3>2, <4>1, <4>2 DEF ServedNext, SentNext, SendingNext
  <2>3. /\ last_updates' = last_updates
        /\ delivery'[d].update = u
        /\ \A e \in Deliveries : e # d => delivery'[e] = delivery[e]
    BY <1>6 DEF Deduplicate, Goto, Delivery
  <2>. QED
    BY <1>1, <1>2, <1>3, <1>4, <1>5, <2>2, <2>3
<1>7. ASSUME NEW d \in Deliveries, Deduplicate(d), ~IsDuplicate(delivery[d].update)
      PROVE  MapSent' /\ NewestSent'
  <2> DEFINE u == delivery[d].update
  <2>1. u \in Updates /\ u.id \in Ids /\ u.timestamp \in Nat
    BY <1>7, UpdateFields DEF Deduplicate, DeliveriesFit
  <2>2. /\ delivery'[d].update = u /\ delivery'[d].pc = "send"
        /\ \A e \in Deliveries : e # d => delivery'[e] = delivery[e]
    BY <1>7 DEF Deduplicate, Goto, Delivery
  <2>3. /\ DOMAIN last_updates' = DOMAIN last_updates \cup {u.id}
        /\ last_updates'[u.id] = u.timestamp
        /\ \A i \in DOMAIN last_updates : i # u.id => last_updates'[i] = last_updates[i]
    BY <1>7 DEF Deduplicate
  <2>4. ServedNext(u.id, u.timestamp)
    <3>1. u.timestamp >= u.timestamp
      BY <2>1
    <3>. QED BY <2>2, <3>1, Zenon DEF ServedNext, SendingNext
  <2> HIDE DEF u, Served, ServedNext
  <2>5. ASSUME NEW i \in DOMAIN last_updates' PROVE ServedNext(i, last_updates'[i])
    <3>1. CASE i = u.id
      BY <2>3, <2>4, <3>1
    <3>2. CASE i # u.id
      BY <1>1, <1>4, <2>3, <3>2
    <3>. QED BY <3>1, <3>2
  <2>6. ASSUME NEW e \in Deliveries, delivery'[e].pc = "acked"
        PROVE  ServedNext(delivery'[e].update.id, delivery'[e].update.timestamp)
    <3>1. e # d /\ delivery'[e] = delivery[e]
      BY <2>2, <2>6
    <3>. QED BY <1>1, <1>5, <2>6, <3>1
  <2>. QED
    BY <1>2, <1>3, <2>5, <2>6
<1>8. ASSUME NEW d \in Deliveries, Send(d) PROVE MapSent' /\ NewestSent'
  <2> DEFINE u == delivery[d].update
  <2>1. u \in Updates /\ u.id \in Ids /\ u.timestamp \in Nat
    BY <1>8, UpdateFields DEF Send, DeliveriesFit
  <2>2. /\ delivery'[d].update = u /\ last_updates' = last_updates
        /\ \A e \in Deliveries : e # d => delivery'[e] = delivery[e]
    BY <1>8 DEF Send, Goto, Delivery
  <2>3. Served(u.id, u.timestamp)
    BY <1>8, <2>1 DEF Served, Sending, Send
  <2>. QED
    BY <1>1, <1>2, <1>3, <1>4, <1>5, <2>2, <2>3
<1>9. ASSUME NEW d \in Deliveries, NEW u \in Updates, Consume(d, u)
      PROVE  MapSent' /\ NewestSent'
  <2>1. /\ delivery'[d].pc = "deduplicate" /\ last_updates' = last_updates
        /\ \A e \in Deliveries : e # d => delivery'[e] = delivery[e]
    BY <1>9 DEF Consume, Delivery
  <2>. QED
    BY <1>1, <1>2, <1>3, <1>4, <1>5, <2>1
<1>10. CASE Collect
  <2>1. /\ delivery' = delivery
        /\ \A i \in DOMAIN last_updates' :
             i \in DOMAIN last_updates /\ last_updates'[i] = last_updates[i]
    BY <1>10 DEF Collect
  <2>. QED
    BY <1>1, <1>2, <1>3, <1>4, <1>5, <2>1
<1>11. CASE UNCHANGED <<delivery, last_updates>>
  BY <1>1, <1>2, <1>3, <1>4, <1>5, <1>11
<1>. QED
  BY <1>6, <1>7, <1>8, <1>9, <1>10, <1>11 DEF Next, vars, Wake, Tick

-----------------------------------------------------------------------------
THEOREM InvHolds == Spec => []IInv
<1>1. Init => IInv
  BY DEF Init, IInv, TypeOK, Delivery, DeliveriesFit, MapCovers, CollectorFits,
         PassedInOrder, MapSent, NewestSent
<1>2. IInv /\ [Next]_vars => IInv'
  BY TypeStep, OrderStep, SentStep DEF IInv
<1>. QED
  BY <1>1, <1>2, PTL DEF Spec

\* Variables keep their types: the collector leaves a map of notifications to
\* timestamps.
THEOREM TypesKept == Spec => []TypeOK
  BY InvHolds, PTL DEF IInv

\* deduplicate lets pass only what is newer than everything that passed for
\* the same notification within the lifespan, however the collector runs.
THEOREM OnlyNewerPass == Spec => []PassedInOrder
  BY InvHolds, PTL DEF IInv

\* An acknowledged update was sent, or one of its notification that is no
\* older was or is about to be.
THEOREM NewestIsSent == Spec => []NewestSent
  BY InvHolds, PTL DEF IInv
=============================================================================
