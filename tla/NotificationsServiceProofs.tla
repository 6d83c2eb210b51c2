--------------------- MODULE NotificationsServiceProofs ---------------------
(***************************************************************************)
(* The type correctness, the safety properties and the refinement of       *)
(* NotificationsService, for every set of ids, users, producers and        *)
(* concurrent requests.  The properties all rest on one fact: whatever the *)
(* request, the collection changes in one of six ways (CollectionSteps),   *)
(* each of them a single atomic update of MongoDB.                         *)
(***************************************************************************)
EXTENDS NotificationsService, TLAPS

-----------------------------------------------------------------------------
(* The writes of the repository yield documents. *)

\* A write of the entries of one user.
LEMMA EntriesWritten ==
  ASSUME NEW d \in Document, NEW u \in Users, NEW c \in Seq(Confirmation)
  PROVE  [d EXCEPT !.confirmations = [@ EXCEPT ![u] = c]] \in Document
<1>1. [d.confirmations EXCEPT ![u] = c] \in [Users -> Seq(Confirmation)]
  BY DEF Document
<1>2. \A f \in [Users -> Seq(Confirmation)] : [d EXCEPT !.confirmations = f] \in Document
  BY DEF Document
<1>3. QED
  BY <1>1, <1>2

LEMMA InsertedType ==
  ASSUME NEW p \in Producers, NEW n \in Pnids, NEW t \in Nat,
         NEW e \in Option(Nat), NEW to \in SUBSET Users
  PROVE  Inserted(p, n, t, e, to) \in Document
BY DEF Inserted, Document

LEMMA PushType ==
  ASSUME NEW d \in Document, NEW u \in Users
  PROVE  PushConfirmation(d, u) \in Document
<1> DEFINE c == Append(d.confirmations[u], [seen |-> FALSE, deleted |-> FALSE])
<1>1. c \in Seq(Confirmation)
  BY DEF Document, Confirmation
<1>2. PushConfirmation(d, u) = [d EXCEPT !.confirmations = [@ EXCEPT ![u] = c]]
  BY DEF PushConfirmation, Document
<1> HIDE DEF c
<1>3. QED
  BY <1>1, <1>2, EntriesWritten

\* An entry written over at any position leaves a sequence of entries.
LEMMA EntryType ==
  ASSUME NEW c \in Seq(Confirmation), NEW k, NEW b \in BOOLEAN
  PROVE  /\ [c EXCEPT ![k].seen = b] \in Seq(Confirmation)
         /\ [c EXCEPT ![k].deleted = b] \in Seq(Confirmation)
<1>1. Len(c) \in Nat /\ c \in [1 .. Len(c) -> Confirmation]
  OBVIOUS
<1>2. \A x \in Confirmation : /\ [x EXCEPT !.seen = b] \in Confirmation
                              /\ [x EXCEPT !.deleted = b] \in Confirmation
  BY DEF Confirmation
<1>3. [c EXCEPT ![k].seen = b] \in [1 .. Len(c) -> Confirmation]
  BY <1>1, <1>2
<1>4. [c EXCEPT ![k].deleted = b] \in [1 .. Len(c) -> Confirmation]
  BY <1>1, <1>2
<1>5. QED
  BY <1>1, <1>3, <1>4

LEMMA SetSeenType ==
  ASSUME NEW d \in Document, NEW u \in Users, NEW b \in BOOLEAN
  PROVE  SetSeen(d, u, b) \in Document
<1> DEFINE first == CHOOSE k \in Live(d, u) : \A j \in Live(d, u) : k <= j
           c     == [d.confirmations[u] EXCEPT ![first].seen = b]
<1>1. c \in Seq(Confirmation)
  BY EntryType DEF Document
<1>2. SetSeen(d, u, b) = [d EXCEPT !.confirmations = [@ EXCEPT ![u] = c]]
  BY DEF SetSeen, Document
<1> HIDE DEF c
<1>3. QED
  BY <1>1, <1>2, EntriesWritten

LEMMA SetDeletedType ==
  ASSUME NEW d \in Document, NEW u \in Users
  PROVE  SetDeleted(d, u) \in Document
<1> DEFINE c == [d.confirmations[u] EXCEPT ![1].deleted = TRUE]
<1>1. c \in Seq(Confirmation)
  BY EntryType DEF Document
<1>2. SetDeleted(d, u) = [d EXCEPT !.confirmations = [@ EXCEPT ![u] = c]]
  BY DEF SetDeleted, Document
<1> HIDE DEF c
<1>3. QED
  BY <1>1, <1>2, EntriesWritten

LEMMA SetInvalidateAtType ==
  ASSUME NEW d \in Document, NEW e \in Option(Nat)
  PROVE  SetInvalidateAt(d, e) \in Document
BY DEF SetInvalidateAt, Document

-----------------------------------------------------------------------------
(* Types *)

LEMMA WriteType ==
  ASSUME TypeOK, NEW i \in DOMAIN notifications, NEW d \in Document, Write(i, d)
  PROVE  /\ DOMAIN notifications' = DOMAIN notifications
         /\ notifications' \in [DOMAIN notifications' -> Document]
BY DEF TypeOK, Write

LEMMA GotoType ==
  ASSUME TypeOK, NEW r \in Requests, NEW pc \in Phases, Goto(r, pc)
  PROVE  request' \in [Requests -> Request]
<1>1. request[r] \in Request
  BY DEF TypeOK
<1>2. [request[r] EXCEPT !.pc = pc] \in Request
  BY <1>1 DEF Request
<1>3. request' = [request EXCEPT ![r] = [request[r] EXCEPT !.pc = pc]]
  BY DEF Goto
<1>4. QED
  BY <1>2, <1>3 DEF TypeOK

LEMMA ArriveType ==
  ASSUME TypeOK, NEW r \in Requests, ArriveAny(r)
  PROVE  TypeOK'
<1> USE ConstantsAssumption DEF Arrive, NewRequest, Request, Option, Ops, Phases, TypeOK
<1>1. ASSUME NEW p \in Producers, NEW n \in Pnids, NEW to \in Audiences, NEW e \in Expiries,
             PostUndelivered(r, p, n, to, e)
      PROVE  TypeOK'
  BY <1>1 DEF PostUndelivered
<1>2. ASSUME NEW u \in Users, GetUndelivered(r, u)
      PROVE  TypeOK'
  BY <1>2 DEF GetUndelivered
<1>3. ASSUME NEW u \in Users, NEW i \in Ids, NEW s \in BOOLEAN, PutSeen(r, u, i, s)
      PROVE  TypeOK'
  BY <1>3 DEF PutSeen
<1>4. ASSUME NEW u \in Users, NEW i \in Ids, DeleteDelivered(r, u, i)
      PROVE  TypeOK'
  BY <1>4 DEF DeleteDelivered
<1>5. ASSUME NEW p \in Producers, NEW i \in Ids, NEW e \in Expiries, PutInvalidateAt(r, p, i, e)
      PROVE  TypeOK'
  BY <1>5 DEF PutInvalidateAt
<1>6. ASSUME NEW u \in Users, NEW i \in Ids, ConsumeConfirmation(r, u, i)
      PROVE  TypeOK'
  BY <1>6 DEF ConsumeConfirmation
<1>7. QED
  BY <1>1, <1>2, <1>3, <1>4, <1>5, <1>6 DEF ArriveAny

LEMMA AdvanceType ==
  ASSUME TypeOK, RequestsFit, NEW r \in Requests, Advance(r)
  PROVE  TypeOK'
<1> USE DEF TypeOK, RequestsFit, RequestFits, At
<1> DEFINE i == request[r].id
           u == request[r].caller
<1>t. request[r] \in Request
  OBVIOUS
<1>1. CASE Insert(r)
  <2>1. PICK j \in Ids \ DOMAIN notifications :
          /\ notifications' =
               [k \in DOMAIN notifications \cup {j} |->
                  IF k = j
                  THEN Inserted(u, request[r].pnid, request[r].now,
                                request[r].invalidate_at, request[r].user_ids)
                  ELSE notifications[k]]
          /\ request' = [request EXCEPT ![r] = [@ EXCEPT !.pc = "announce", !.id = j]]
    BY <1>1 DEF Insert
  <2>2. Inserted(u, request[r].pnid, request[r].now, request[r].invalidate_at,
                 request[r].user_ids) \in Document
    BY <1>1, <1>t, InsertedType DEF Insert, Request, Option
  <2>3. [request[r] EXCEPT !.pc = "announce", !.id = j] \in Request
    BY <1>t DEF Request, Phases, Option
  <2>4. request' \in [Requests -> Request]
    BY <2>1, <2>3
  <2>5. QED
    BY <1>1, <2>1, <2>2, <2>4 DEF Insert
<1>2. CASE InsertRejected(r)
  BY <1>2, GotoType DEF InsertRejected, Phases
<1>3. CASE SendNew(r)
  <2>1. {[status |-> "NEW", id |-> i, user_ids |-> request[r].user_ids, seen |-> FALSE,
          timestamp |-> request[r].now]} \subseteq New
    BY <1>3, <1>t DEF SendNew, New, Request
  <2>2. QED
    BY <1>3, <2>1, GotoType DEF SendNew, Message, Phases
<1>4. CASE FindUndelivered(r)
  <2> DEFINE found == FindManyUndelivered(notifications, u, request[r].now)
             q     == [request[r] EXCEPT !.found = found, !.left = found, !.now = clock,
                                         !.pc = IF found = {} THEN "ok" ELSE "write"]
  <2>1. found \subseteq Ids
    BY DEF FindManyUndelivered
  <2> HIDE DEF found
  <2>2. q \in Request
    BY <1>t, <2>1 DEF Request, Phases
  <2>3. request' = [request EXCEPT ![r] = q]
    BY <1>4 DEF FindUndelivered, found
  <2> HIDE DEF q
  <2>4. QED
    BY <1>4, <2>2, <2>3 DEF FindUndelivered
<1>5. CASE RespondUndelivered(r)
  BY <1>5, GotoType DEF RespondUndelivered, Phases
<1>6. ASSUME NEW k \in Ids, InsertManyConfirmations(r, k)
      PROVE  TypeOK'
  <2>1. k \in DOMAIN notifications /\ u \in Users
    BY <1>6 DEF InsertManyConfirmations
  <2>2. notifications[k] \in Document /\ PushConfirmation(notifications[k], u) \in Document
    BY <2>1, PushType
  <2> DEFINE q == [request[r] EXCEPT !.left = @ \ {k},
                      !.pc = IF request[r].left = {k} THEN "respond" ELSE "write"]
  <2>3. q \in Request
    BY <1>t DEF Request, Phases
  <2>4. request' = [request EXCEPT ![r] = q]
    BY <1>6 DEF InsertManyConfirmations
  <2> HIDE DEF q
  <2>5. request' \in [Requests -> Request]
    BY <2>3, <2>4
  <2>6. QED
    BY <1>6, <2>1, <2>2, <2>5, WriteType DEF InsertManyConfirmations
<1>7. CASE UpdateConfirmationSeen(r)
  <2>1. i \in DOMAIN notifications /\ u \in Users /\ request[r].seen \in BOOLEAN
    BY <1>7, <1>t DEF UpdateConfirmationSeen, Request
  <2>2. SetSeen(notifications[i], u, request[r].seen) \in Document
    BY <2>1, SetSeenType
  <2>3. request' \in [Requests -> Request]
    BY <1>7, GotoType DEF UpdateConfirmationSeen, Phases
  <2>4. QED
    BY <1>7, <2>1, <2>2, <2>3, WriteType DEF UpdateConfirmationSeen
<1>8. CASE SendUpdated(r)
  <2>1. {[status |-> "UPDATED", id |-> i, user_ids |-> {u}, seen |-> request[r].seen,
          timestamp |-> clock]} \subseteq Updated
    BY <1>8, <1>t DEF SendUpdated, Updated, Request
  <2>2. QED
    BY <1>8, <2>1, GotoType DEF SendUpdated, Message, Phases
<1>9. CASE Delete(r)
  <2>1. i \in DOMAIN notifications /\ u \in Users
    BY <1>9, <1>t DEF Delete, Request
  <2>2. SetDeleted(notifications[i], u) \in Document
    BY <2>1, SetDeletedType
  <2>3. request' \in [Requests -> Request]
    BY <1>9, GotoType DEF Delete, Phases
  <2>4. QED
    BY <1>9, <2>1, <2>2, <2>3, WriteType DEF Delete
<1>10. CASE SendDeleted(r)
  <2>1. {[status |-> "DELETED", id |-> i, user_ids |-> {u}, seen |-> None,
          timestamp |-> clock]} \subseteq Deleted
    BY <1>10, <1>t DEF SendDeleted, Deleted, Request
  <2>2. QED
    BY <1>10, <2>1, GotoType DEF SendDeleted, Message, Phases
<1>11. CASE UpdateInvalidateAt(r)
  <2>1. i \in DOMAIN notifications /\ request[r].invalidate_at \in Option(Nat)
    BY <1>11, <1>t DEF UpdateInvalidateAt, Request
  <2>2. SetInvalidateAt(notifications[i], request[r].invalidate_at) \in Document
    BY <2>1, SetInvalidateAtType
  <2>3. request' \in [Requests -> Request]
    BY <1>11, GotoType DEF UpdateInvalidateAt, Phases
  <2>4. QED
    BY <1>11, <2>1, <2>2, <2>3, WriteType DEF UpdateInvalidateAt
<1>12. CASE InsertConfirmation(r)
  <2>1. i \in DOMAIN notifications /\ u \in Users
    BY <1>12, <1>t DEF InsertConfirmation, Request
  <2>2. PushConfirmation(notifications[i], u) \in Document
    BY <2>1, PushType
  <2>3. request' \in [Requests -> Request]
    BY <1>12, GotoType DEF InsertConfirmation, Phases
  <2>4. QED
    BY <1>12, <2>1, <2>2, <2>3, WriteType DEF InsertConfirmation
<1>13. CASE Cut(r)
  BY <1>13, GotoType DEF Cut, Phases
<1>14. QED
  BY <1>1, <1>2, <1>3, <1>4, <1>5, <1>6, <1>7, <1>8, <1>9, <1>10, <1>11, <1>12, <1>13
     DEF Advance

-----------------------------------------------------------------------------
(* What a step leaves of the requests *)

LEMMA OthersStay ==
  ASSUME TypeOK, NEW r \in Requests, ArriveAny(r) \/ Advance(r)
  PROVE  clock' = clock /\ \A q \in Requests \ {r} : request'[q] = request[q]
BY DEF TypeOK, Goto,
        ArriveAny, Arrive, PostUndelivered, GetUndelivered, PutSeen,
        DeleteDelivered, PutInvalidateAt, ConsumeConfirmation,
        Advance, Insert, InsertRejected, SendNew, FindUndelivered,
        RespondUndelivered, InsertManyConfirmations, UpdateConfirmationSeen,
        SendUpdated, Delete, SendDeleted, UpdateInvalidateAt, InsertConfirmation, Cut

LEMMA Unmoved ==
  ASSUME TypeOK, [Next]_vars, NEW r \in Requests, ~ArriveAny(r), ~Advance(r)
  PROVE  request'[r] = request[r]
BY OthersStay DEF Next, Tick, vars

\* A handler keeps its arguments; only an insert gives it an id.
LEMMA ArgumentsStay ==
  ASSUME TypeOK, NEW r \in Requests, Advance(r)
  PROVE  /\ request'[r].op = request[r].op /\ request'[r].caller = request[r].caller
         /\ request'[r].pnid = request[r].pnid /\ request'[r].seen = request[r].seen
         /\ Insert(r) \/ request'[r].id = request[r].id
         /\ request[r].pc \in {"find", "write", "announce", "respond"}
<1>1. request[r] \in Request /\ DOMAIN request = Requests
  BY DEF TypeOK
<1>2. CASE Insert(r)
  BY <1>1, <1>2 DEF Insert, At, Request
<1>3. CASE FindUndelivered(r)
  <2>1. PICK found, now, pc : request'[r] = [request[r] EXCEPT !.found = found, !.left = found,
                                             !.now = now, !.pc = pc]
    BY <1>1, <1>3 DEF FindUndelivered
  <2>2. QED
    BY <1>1, <1>3, <2>1 DEF FindUndelivered, At, Request
<1>4. ASSUME NEW k \in Ids, InsertManyConfirmations(r, k)
      PROVE  /\ request'[r].op = request[r].op /\ request'[r].caller = request[r].caller
             /\ request'[r].pnid = request[r].pnid /\ request'[r].seen = request[r].seen
             /\ request'[r].id = request[r].id /\ request[r].pc = "write"
  BY <1>1, <1>4 DEF InsertManyConfirmations, At, Request
<1>5. ASSUME NEW pc, Goto(r, pc), request[r].pc \in {"find", "write", "announce", "respond"}
      PROVE  /\ request'[r].op = request[r].op /\ request'[r].caller = request[r].caller
             /\ request'[r].pnid = request[r].pnid /\ request'[r].seen = request[r].seen
             /\ request'[r].id = request[r].id
  BY <1>1, <1>5 DEF Goto, Request
<1>6. QED
  BY <1>2, <1>3, <1>4, <1>5
     DEF Advance, At, InsertRejected, SendNew, RespondUndelivered, UpdateConfirmationSeen,
         SendUpdated, Delete, SendDeleted, UpdateInvalidateAt, InsertConfirmation, Cut

-----------------------------------------------------------------------------
(* Type correctness, with the shape of requests that makes it inductive *)

LEMMA DomainGrows ==
  ASSUME TypeOK, RequestsFit, [Next]_vars
  PROVE  DOMAIN notifications \subseteq DOMAIN notifications'
<1> USE DEF TypeOK, Write
<1>1. CASE UNCHANGED vars
  BY <1>1 DEF vars
<1>2. CASE Tick
  BY <1>2 DEF Tick
<1>3. ASSUME NEW r \in Requests, ArriveAny(r)
      PROVE  DOMAIN notifications \subseteq DOMAIN notifications'
  BY <1>3 DEF ArriveAny, Arrive, PostUndelivered, GetUndelivered, PutSeen,
              DeleteDelivered, PutInvalidateAt, ConsumeConfirmation
<1>4. ASSUME NEW r \in Requests, Advance(r)
      PROVE  DOMAIN notifications \subseteq DOMAIN notifications'
  BY <1>4 DEF Advance, Insert, InsertRejected, SendNew, FindUndelivered,
              RespondUndelivered, InsertManyConfirmations, UpdateConfirmationSeen,
              SendUpdated, Delete, SendDeleted, UpdateInvalidateAt,
              InsertConfirmation, Cut
<1>5. QED
  BY <1>1, <1>2, <1>3, <1>4 DEF Next

\* A request that a step does not move keeps fitting.
LEMMA OthersFit ==
  ASSUME TypeOK, RequestsFit, NEW r \in Requests, request'[r] = request[r],
         DOMAIN notifications \subseteq DOMAIN notifications', clock' \in Nat, clock <= clock'
  PROVE  RequestFits(r)'
<1>1. RequestFits(r) /\ request[r] \in Request
  BY DEF TypeOK, RequestsFit
<1>2. QED
  BY <1>1 DEF RequestFits, At, Request, TypeOK

LEMMA ArriveFits ==
  ASSUME TypeOK, RequestsFit, NEW r \in Requests, ArriveAny(r)
  PROVE  RequestFits(r)'
<1> USE DEF Arrive, NewRequest, TypeOK, RequestFits, At, Ops, Phases
<1>1. ASSUME NEW p \in Producers, NEW n \in Pnids, NEW to \in Audiences, NEW e \in Expiries,
             PostUndelivered(r, p, n, to, e)
      PROVE  RequestFits(r)'
  BY <1>1 DEF PostUndelivered
<1>2. ASSUME NEW u \in Users, GetUndelivered(r, u)
      PROVE  RequestFits(r)'
  BY <1>2 DEF GetUndelivered
<1>3. ASSUME NEW u \in Users, NEW i \in Ids, NEW s \in BOOLEAN, PutSeen(r, u, i, s)
      PROVE  RequestFits(r)'
  BY <1>3 DEF PutSeen
<1>4. ASSUME NEW u \in Users, NEW i \in Ids, DeleteDelivered(r, u, i)
      PROVE  RequestFits(r)'
  BY <1>4 DEF DeleteDelivered
<1>5. ASSUME NEW p \in Producers, NEW i \in Ids, NEW e \in Expiries, PutInvalidateAt(r, p, i, e)
      PROVE  RequestFits(r)'
  BY <1>5 DEF PutInvalidateAt
<1>6. ASSUME NEW u \in Users, NEW i \in Ids, ConsumeConfirmation(r, u, i)
      PROVE  RequestFits(r)'
  BY <1>6 DEF RequestsFit, ConsumeConfirmation
<1>7. QED
  BY <1>1, <1>2, <1>3, <1>4, <1>5, <1>6 DEF ArriveAny

LEMMA AdvanceFits ==
  ASSUME TypeOK, RequestsFit, NEW r \in Requests, Advance(r)
  PROVE  RequestFits(r)'
<1> USE DEF At, Goto, Write
<1>1. RequestFits(r) /\ request[r] \in Request /\ clock \in Nat
  BY DEF TypeOK, RequestsFit
<1>2. DOMAIN notifications \subseteq DOMAIN notifications'
  BY DomainGrows DEF Next
<1>3. CASE Insert(r)
  BY <1>1, <1>3 DEF Insert, RequestFits, TypeOK, Request
<1>4. CASE FindUndelivered(r)
  <2> DEFINE found == FindManyUndelivered(notifications, request[r].caller, request[r].now)
  <2>1. found \subseteq DOMAIN notifications
    BY DEF FindManyUndelivered
  <2> HIDE DEF found
  <2>2. /\ request'[r] = [request[r] EXCEPT !.found = found, !.left = found, !.now = clock,
                                            !.pc = IF found = {} THEN "ok" ELSE "write"]
        /\ UNCHANGED <<notifications, clock>>
        /\ request[r].op = "fetch" /\ request[r].pc = "find"
    BY <1>4 DEF FindUndelivered, found, TypeOK
  <2>3. QED
    BY <1>1, <2>1, <2>2 DEF RequestFits, Request
<1>5. ASSUME NEW i \in Ids, InsertManyConfirmations(r, i)
      PROVE  RequestFits(r)'
  <2>1. /\ request'[r] = [request[r] EXCEPT !.left = request[r].left \ {i},
                            !.pc = IF request[r].left = {i} THEN "respond" ELSE "write"]
        /\ clock' = clock
        /\ request[r].op = "fetch" /\ request[r].pc = "write"
    BY <1>5 DEF InsertManyConfirmations, TypeOK
  <2>2. QED
    BY <1>1, <1>2, <2>1 DEF RequestFits, Request
<1>6. ASSUME NEW pc \in Phases \ {"new"}, Goto(r, pc), clock' = clock, request[r].pc # "new",
             ~(request[r].op = "save" /\ pc = "announce")
      PROVE  RequestFits(r)'
  BY <1>1, <1>2, <1>6 DEF RequestFits, Request, TypeOK
<1>7. QED
  BY <1>3, <1>4, <1>5, <1>6
     DEF Advance, Phases, InsertRejected, SendNew, RespondUndelivered,
         UpdateConfirmationSeen, SendUpdated, Delete, SendDeleted, UpdateInvalidateAt,
         InsertConfirmation, Cut

LEMMA MessagesKnown ==
  ASSUME TypeOK, RequestsFit, [Next]_vars
  PROVE  \A m \in published' : m.id \in DOMAIN notifications'
<1>1. DOMAIN notifications \subseteq DOMAIN notifications'
  BY DomainGrows
<1>2. \A m \in published : m.id \in DOMAIN notifications
  BY DEF RequestsFit
<1>3. CASE published' = published
  BY <1>1, <1>2, <1>3
<1>4. ASSUME NEW r \in Requests, SendNew(r) \/ SendUpdated(r) \/ SendDeleted(r)
      PROVE  \A m \in published' : m.id \in DOMAIN notifications'
  <2>1. RequestFits(r)
    BY DEF RequestsFit
  <2>2. PICK m : m.id = request[r].id /\ published' = published \cup {m}
    BY <1>4 DEF SendNew, SendUpdated, SendDeleted
  <2>3. request[r].id \in DOMAIN notifications
    BY <1>4, <2>1 DEF SendNew, SendUpdated, SendDeleted, RequestFits, At
  <2>4. QED
    BY <1>1, <1>2, <2>2, <2>3
<1>5. CASE UNCHANGED vars
  BY <1>3, <1>5 DEF vars
<1>6. CASE Tick
  BY <1>3, <1>6 DEF Tick
<1>7. ASSUME NEW r \in Requests, ArriveAny(r)
      PROVE  published' = published
  BY <1>7 DEF ArriveAny, Arrive, PostUndelivered, GetUndelivered, PutSeen,
              DeleteDelivered, PutInvalidateAt, ConsumeConfirmation
<1>8. ASSUME NEW r \in Requests, Advance(r),
             ~(SendNew(r) \/ SendUpdated(r) \/ SendDeleted(r))
      PROVE  published' = published
  BY <1>8 DEF Advance, Insert, InsertRejected, FindUndelivered,
              RespondUndelivered, InsertManyConfirmations, UpdateConfirmationSeen,
              Delete, UpdateInvalidateAt, InsertConfirmation, Cut
<1>9. QED
  BY <1>3, <1>4, <1>5, <1>6, <1>7, <1>8 DEF Next

LEMMA InitTypes == Init => TypeOK /\ RequestsFit
<1> SUFFICES ASSUME Init PROVE TypeOK /\ RequestsFit
  OBVIOUS
<1>1. NewRequest \in Request
  BY DEF NewRequest, Request, Ops, Phases, Option
<1>2. TypeOK
  BY <1>1 DEF Init, TypeOK
<1>3. RequestsFit
  BY DEF Init, RequestsFit, RequestFits, NewRequest, At
<1>4. QED
  BY <1>2, <1>3

LEMMA StepTypes == TypeOK /\ RequestsFit /\ [Next]_vars => (TypeOK /\ RequestsFit)'
<1> SUFFICES ASSUME TypeOK, RequestsFit, [Next]_vars
             PROVE  (TypeOK /\ RequestsFit)'
  OBVIOUS
<1>1. DOMAIN notifications \subseteq DOMAIN notifications'
  BY DomainGrows
<1>2. \A m \in published' : m.id \in DOMAIN notifications'
  BY MessagesKnown
<1>3. CASE UNCHANGED vars
  BY <1>3 DEF vars, TypeOK, RequestsFit, RequestFits, At
<1>4. CASE Tick
  <2>1. TypeOK' /\ clock' \in Nat /\ clock <= clock' /\ request' = request
    BY <1>4 DEF Tick, TypeOK
  <2>2. QED
    BY <1>1, <1>2, <2>1, OthersFit DEF RequestsFit
<1>5. ASSUME NEW r \in Requests, ArriveAny(r) \/ Advance(r)
      PROVE  (TypeOK /\ RequestsFit)'
  <2>1. TypeOK' /\ RequestFits(r)'
    BY <1>5, ArriveType, ArriveFits, AdvanceType, AdvanceFits
  <2>2. clock' = clock /\ \A q \in Requests \ {r} : request'[q] = request[q]
    BY <1>5, OthersStay
  <2>3. \A q \in Requests \ {r} : RequestFits(q)'
    BY <1>1, <2>1, <2>2, OthersFit DEF TypeOK
  <2>4. QED
    BY <1>2, <2>1, <2>3 DEF RequestsFit
<1>6. QED
  BY <1>3, <1>4, <1>5 DEF Next

\* The variables keep their types, and a request only names documents that
\* exist, in every execution.
THEOREM TypeCorrect == Spec => [](TypeOK /\ RequestsFit)
<1>1. QED
  BY InitTypes, StepTypes, PTL DEF Spec

-----------------------------------------------------------------------------
(* The six ways the collection changes *)

\* A document is inserted with no confirmations.
InsertStep ==
  \E i \in Ids \ DOMAIN notifications :
    /\ DOMAIN notifications' = DOMAIN notifications \cup {i}
    /\ notifications'[i].confirmations = [u \in Users |-> << >>]
    /\ \A j \in DOMAIN notifications : notifications'[j] = notifications[j]

\* A user's confirmation is pushed by a request of that user, which has then
\* handed him the notification.
PushStep(r, i, u) ==
  /\ i \in DOMAIN notifications /\ u \in Users /\ HandedBy(r, i, u)'
  /\ \E now \in Nat : AcceptsConfirmation(notifications[i], u, now)
  /\ Write(i, PushConfirmation(notifications[i], u))

\* A flag of a user's entry is set by a request of that user, which is then
\* about to announce it.
SeenStep ==
  \E r \in Requests, i \in DOMAIN notifications, u \in Users, seen \in BOOLEAN :
    /\ Live(notifications[i], u) # {}
    /\ Write(i, SetSeen(notifications[i], u, seen))
    /\ CutOrAnnouncing(r, "seen", i, u)' /\ request'[r].seen = seen

DeletedStep ==
  \E r \in Requests, i \in DOMAIN notifications, u \in Users :
    /\ DeleteModifies(notifications[i], u)
    /\ Write(i, SetDeleted(notifications[i], u))
    /\ CutOrAnnouncing(r, "delete", i, u)'

InvalidateAtStep ==
  \E i \in DOMAIN notifications, e \in Option(Nat) :
    Write(i, SetInvalidateAt(notifications[i], e))

CollectionStep ==
  \/ UNCHANGED notifications
  \/ InsertStep
  \/ \E r \in Requests, i \in Ids, u \in Users : PushStep(r, i, u)
  \/ SeenStep
  \/ DeletedStep
  \/ InvalidateAtStep

LEMMA CollectionSteps ==
  ASSUME TypeOK, RequestsFit, [Next]_vars
  PROVE  CollectionStep
<1>1. CASE UNCHANGED vars
  BY <1>1 DEF vars, CollectionStep
<1>2. CASE Tick
  BY <1>2 DEF Tick, CollectionStep
<1>3. ASSUME NEW r \in Requests, ArriveAny(r)
      PROVE  CollectionStep
  BY <1>3 DEF ArriveAny, Arrive, PostUndelivered, GetUndelivered, PutSeen, CollectionStep,
              DeleteDelivered, PutInvalidateAt, ConsumeConfirmation
<1>4. ASSUME NEW r \in Requests, Advance(r)
      PROVE  CollectionStep
  <2> USE DEF At, CollectionStep
  <2> DEFINE i == request[r].id
             u == request[r].caller
  <2>1. request[r] \in Request /\ RequestFits(r)
    BY DEF TypeOK, RequestsFit
  <2>2. CASE Insert(r)
    <3>1. InsertStep
      BY <2>2 DEF Insert, InsertStep, Inserted
    <3>2. QED
      BY <3>1
  <2>3. ASSUME NEW k \in Ids, InsertManyConfirmations(r, k)
        PROVE  CollectionStep
    <3>1. k \in DOMAIN notifications /\ u \in Users /\ request[r].now \in Nat
      BY <2>1, <2>3 DEF InsertManyConfirmations, RequestFits, Request
    <3>2. CASE AcceptsConfirmation(notifications[k], u, request[r].now)
      <4>1. /\ request'[r].found = request[r].found /\ request'[r].left = request[r].left \ {k}
            /\ request'[r].op = "fetch" /\ request'[r].caller = u
            /\ k \in request[r].left /\ request[r].left \subseteq request[r].found
        BY <2>1, <2>3 DEF InsertManyConfirmations, TypeOK, Request, RequestFits
      <4>2. HandedBy(r, k, u)'
        BY <4>1 DEF HandedBy
      <4>3. PushStep(r, k, u)
        BY <2>3, <3>1, <3>2, <4>2 DEF InsertManyConfirmations, PushStep
      <4>4. QED
        BY <3>1, <4>3
    <3>3. CASE ~AcceptsConfirmation(notifications[k], u, request[r].now)
      <4>1. Write(k, notifications[k])
        BY <2>3, <3>3 DEF InsertManyConfirmations
      <4>2. notifications' = notifications
        BY <4>1, <3>1 DEF Write, TypeOK
      <4>3. QED
        BY <4>2
    <3>4. QED
      BY <3>2, <3>3
  <2>4. CASE UpdateConfirmationSeen(r)
    <3>1. u \in Users /\ i \in DOMAIN notifications /\ request[r].seen \in BOOLEAN
      BY <2>1, <2>4 DEF UpdateConfirmationSeen, RequestFits, Request
    <3>2. CASE Live(notifications[i], u) = {}
      BY <2>4, <3>1, <3>2 DEF UpdateConfirmationSeen, FindManyDelivered
    <3>3. CASE Live(notifications[i], u) # {}
      <4>1. Goto(r, "announce") /\ Write(i, SetSeen(notifications[i], u, request[r].seen))
        BY <2>4, <3>1, <3>3 DEF UpdateConfirmationSeen, FindManyDelivered
      <4>2. /\ request'[r].op = "seen" /\ request'[r].pc = "announce"
            /\ request'[r].id = i /\ request'[r].caller = u
            /\ request'[r].seen = request[r].seen
        BY <2>1, <2>4, <4>1 DEF UpdateConfirmationSeen, Goto, TypeOK, Request
      <4>3. SeenStep
        BY <3>1, <3>3, <4>1, <4>2 DEF SeenStep, CutOrAnnouncing
      <4>4. QED
        BY <4>3
    <3>4. QED
      BY <3>2, <3>3
  <2>5. CASE Delete(r)
    <3>1. u \in Users /\ i \in DOMAIN notifications
      BY <2>1, <2>5 DEF Delete, RequestFits, Request
    <3>2. CASE ~DeleteModifies(notifications[i], u)
      BY <2>5, <3>1, <3>2 DEF Delete
    <3>3. CASE DeleteModifies(notifications[i], u)
      <4>1. Goto(r, "announce") /\ Write(i, SetDeleted(notifications[i], u))
        BY <2>5, <3>1, <3>3 DEF Delete
      <4>2. /\ request'[r].op = "delete" /\ request'[r].pc = "announce"
            /\ request'[r].id = i /\ request'[r].caller = u
        BY <2>1, <2>5, <4>1 DEF Delete, Goto, TypeOK, Request
      <4>3. DeletedStep
        BY <3>1, <3>3, <4>1, <4>2 DEF DeletedStep, CutOrAnnouncing
      <4>4. QED
        BY <4>3
    <3>4. QED
      BY <3>2, <3>3
  <2>6. CASE UpdateInvalidateAt(r)
    <3>1. i \in DOMAIN notifications /\ request[r].invalidate_at \in Option(Nat)
      BY <2>1, <2>6 DEF UpdateInvalidateAt, RequestFits, Request
    <3>2. UNCHANGED notifications \/ InvalidateAtStep
      BY <2>6, <3>1 DEF UpdateInvalidateAt, InvalidateAtStep
    <3>3. QED
      BY <3>2
  <2>7. CASE InsertConfirmation(r)
    <3>1. u \in Users /\ i \in DOMAIN notifications /\ request[r].now \in Nat
      BY <2>1, <2>7 DEF InsertConfirmation, RequestFits, Request
    <3>2. HandedBy(r, i, u)'
      BY <2>1, <2>7 DEF InsertConfirmation, Goto, HandedBy, TypeOK, Request
    <3>3. UNCHANGED notifications \/ PushStep(r, i, u)
      BY <2>7, <3>1, <3>2 DEF InsertConfirmation, PushStep
    <3>4. QED
      BY <3>1, <3>3 DEF TypeOK
  <2>8. CASE \/ InsertRejected(r) \/ SendNew(r) \/ FindUndelivered(r) \/ RespondUndelivered(r)
             \/ SendUpdated(r) \/ SendDeleted(r) \/ Cut(r)
    BY <2>8 DEF InsertRejected, SendNew, FindUndelivered, RespondUndelivered,
                SendUpdated, SendDeleted, Cut
  <2>9. QED
    BY <1>4, <2>2, <2>3, <2>4, <2>5, <2>6, <2>7, <2>8 DEF Advance
<1>5. QED
  BY <1>1, <1>2, <1>3, <1>4 DEF Next
-----------------------------------------------------------------------------
(* What each write does to the confirmations of every user *)

\* What no write of an existing document changes.
Kept(d, e) ==
  /\ e.user_ids = d.user_ids /\ e.created_at = d.created_at
  /\ e.producer_id = d.producer_id
  /\ e.producer_notification_id = d.producer_notification_id

Single(d) == \A u \in Users : Len(d.confirmations[u]) <= 1

Fresh == [seen |-> FALSE, deleted |-> FALSE]

LEMMA AtMostOne ==
  ASSUME NEW S, NEW c \in Seq(S), Len(c) <= 1
  PROVE  \/ c = << >>
         \/ Len(c) = 1 /\ DOMAIN c = {1} /\ c[1] \in S
<1>1. Len(c) \in Nat /\ DOMAIN c = 1 .. Len(c)
  OBVIOUS
<1>2. CASE Len(c) = 0
  BY <1>2
<1>3. CASE Len(c) = 1
  <2>1. DOMAIN c = {1}
    BY <1>1, <1>3
  <2>2. c[1] \in S
    BY <1>3
  <2>3. QED
    BY <1>3, <2>1, <2>2
<1>4. QED
  BY <1>1, <1>2, <1>3

\* The entry of a sequence of one, overwritten.
LEMMA Overwrite ==
  ASSUME NEW S, NEW c \in Seq(S), Len(c) = 1, NEW x
  PROVE  [c EXCEPT ![1] = x] = <<x>>
<1>1. DOMAIN c = {1} /\ c \in [{1} -> S]
  <2>1. c \in [1 .. Len(c) -> S] /\ 1 .. Len(c) = {1}
    OBVIOUS
  <2>2. QED
    BY <2>1
<1>2. <<x>> = [k \in {1} |-> x]
  OBVIOUS
<1>3. [c EXCEPT ![1] = x] = [k \in {1} |-> x]
  BY <1>1
<1>4. QED
  BY <1>2, <1>3

LEMMA Flags ==
  ASSUME NEW x \in Confirmation, NEW b \in BOOLEAN
  PROVE  /\ [x EXCEPT !.seen = b] = [seen |-> b, deleted |-> x.deleted]
         /\ [x EXCEPT !.deleted = b] = [seen |-> x.seen, deleted |-> b]
         /\ x.deleted \in BOOLEAN /\ x.seen \in BOOLEAN
BY DEF Confirmation

LEMMA SingleEntry ==
  ASSUME NEW d \in Document, Single(d), NEW u \in Users
  PROVE  /\ ~Confirmed(d, u) => d.confirmations[u] = << >>
         /\ Confirmed(d, u) => /\ Len(d.confirmations[u]) = 1
                               /\ DOMAIN d.confirmations[u] = {1}
                               /\ d.confirmations[u][1] \in Confirmation
<1>1. d.confirmations[u] \in Seq(Confirmation)
  BY DEF Document
<1>2. Len(d.confirmations[u]) <= 1
  BY DEF Single
<1>3. \/ d.confirmations[u] = << >>
      \/ /\ Len(d.confirmations[u]) = 1 /\ DOMAIN d.confirmations[u] = {1}
         /\ d.confirmations[u][1] \in Confirmation
  BY <1>1, <1>2, AtMostOne
<1>4. Len(<< >>) = 0
  OBVIOUS
<1>5. QED
  BY <1>3, <1>4 DEF Confirmed

LEMMA PushEffect ==
  ASSUME NEW d \in Document, NEW u \in Users, NEW now \in Nat,
         AcceptsConfirmation(d, u, now)
  PROVE  LET e == PushConfirmation(d, u) IN
         /\ Kept(d, e)
         /\ e.confirmations[u] = <<Fresh>>
         /\ \A v \in Users \ {u} : e.confirmations[v] = d.confirmations[v]
<1>1. d.confirmations[u] = << >> /\ d.confirmations \in [Users -> Seq(Confirmation)]
  BY DEF AcceptsConfirmation, Confirmed, Document
<1>2. PushConfirmation(d, u) = [d EXCEPT !.confirmations = [@ EXCEPT ![u] = <<Fresh>>]]
  BY <1>1 DEF PushConfirmation, Document, Fresh
<1>3. QED
  BY <1>1, <1>2 DEF Kept, Document

LEMMA SeenEffect ==
  ASSUME NEW d \in Document, Single(d), NEW u \in Users, NEW b \in BOOLEAN,
         Live(d, u) # {}
  PROVE  LET e == SetSeen(d, u, b) IN
         /\ Kept(d, e)
         /\ Confirmed(d, u) /\ ~d.confirmations[u][1].deleted
         /\ e.confirmations[u] = <<[seen |-> b, deleted |-> FALSE]>>
         /\ \A v \in Users \ {u} : e.confirmations[v] = d.confirmations[v]
<1> DEFINE c     == d.confirmations[u]
           first == CHOOSE k \in Live(d, u) : \A j \in Live(d, u) : k <= j
<1>1. c \in Seq(Confirmation) /\ Confirmed(d, u)
  BY DEF Live, Confirmed, Document
<1>2. Len(c) = 1 /\ DOMAIN c = {1} /\ c[1] \in Confirmation
  BY <1>1, SingleEntry
<1>3. Live(d, u) = {1} /\ ~c[1].deleted
  BY <1>2 DEF Live
<1>4. first = 1
  BY <1>3
<1>5. [c EXCEPT ![1].seen = b] = <<[seen |-> b, deleted |-> FALSE]>>
  <2>1. [c[1] EXCEPT !.seen = b] = [seen |-> b, deleted |-> FALSE]
    <3>1. c[1].deleted = FALSE
      BY <1>2, <1>3, Flags
    <3>2. QED
      BY <1>2, <3>1, Flags
  <2>2. [c EXCEPT ![1] = [seen |-> b, deleted |-> FALSE]] = <<[seen |-> b, deleted |-> FALSE]>>
    BY <1>1, <1>2, Overwrite
  <2>3. QED
    BY <2>1, <2>2
<1>6. SetSeen(d, u, b) = [d EXCEPT !.confirmations = [@ EXCEPT ![u] = [c EXCEPT ![first].seen = b]]]
  BY DEF SetSeen, Document
<1> HIDE DEF first
<1>7. SetSeen(d, u, b) =
        [d EXCEPT !.confirmations = [@ EXCEPT ![u] = <<[seen |-> b, deleted |-> FALSE]>>]]
  BY <1>4, <1>5, <1>6
<1>8. QED
  BY <1>1, <1>3, <1>7 DEF Kept, Document

LEMMA DeletedEffect ==
  ASSUME NEW d \in Document, Single(d), NEW u \in Users, DeleteModifies(d, u)
  PROVE  LET e == SetDeleted(d, u) IN
         /\ Kept(d, e)
         /\ Confirmed(d, u) /\ ~d.confirmations[u][1].deleted
         /\ e.confirmations[u] = <<[seen |-> d.confirmations[u][1].seen, deleted |-> TRUE]>>
         /\ \A v \in Users \ {u} : e.confirmations[v] = d.confirmations[v]
<1> DEFINE c == d.confirmations[u]
           x == [seen |-> c[1].seen, deleted |-> TRUE]
<1>1. c \in Seq(Confirmation) /\ Confirmed(d, u) /\ ~c[1].deleted
  BY DEF DeleteModifies, Document
<1>2. Len(c) = 1 /\ DOMAIN c = {1} /\ c[1] \in Confirmation
  BY <1>1, SingleEntry
<1>3. [c[1] EXCEPT !.deleted = TRUE] = x
  BY <1>2, Flags
<1>4. [c EXCEPT ![1] = x] = <<x>>
  BY <1>1, <1>2, Overwrite
<1>5. SetDeleted(d, u) = [d EXCEPT !.confirmations = [@ EXCEPT ![u] = [c EXCEPT ![1].deleted = TRUE]]]
  BY DEF SetDeleted, Document
<1>6. SetDeleted(d, u) = [d EXCEPT !.confirmations = [@ EXCEPT ![u] = <<x>>]]
  BY <1>3, <1>4, <1>5
<1>7. QED
  BY <1>1, <1>6 DEF Kept, Document

LEMMA InvalidateAtEffect ==
  ASSUME NEW d \in Document, NEW e \in Option(Nat)
  PROVE  LET f == SetInvalidateAt(d, e) IN
         Kept(d, f) /\ f.confirmations = d.confirmations
BY DEF SetInvalidateAt, Kept, Document

-----------------------------------------------------------------------------
(* One confirmation per user *)

\* What a step may do to the entry of u in a document d that becomes e.
EntryStep(d, e, u) ==
  \/ e.confirmations[u] = d.confirmations[u]
  \/ ~Confirmed(d, u) /\ Addressed(d, u) /\ e.confirmations[u] = <<Fresh>>
  \/ /\ Confirmed(d, u) /\ ~d.confirmations[u][1].deleted
     /\ \E x \in Confirmation : e.confirmations[u] = <<x>>

LEMMA EntrySteps ==
  ASSUME TypeOK, RequestsFit, OneConfirmation, [Next]_vars, NEW i \in DOMAIN notifications
  PROVE  /\ i \in DOMAIN notifications'
         /\ Kept(notifications[i], notifications'[i])
         /\ \A u \in Users : EntryStep(notifications[i], notifications'[i], u)
<1> DEFINE d == notifications[i]
           e == notifications'[i]
           Goal == /\ i \in DOMAIN notifications'
                   /\ Kept(d, e)
                   /\ \A u \in Users : EntryStep(d, e, u)
<1>1. d \in Document /\ Single(d)
  BY DEF TypeOK, OneConfirmation, Single
<1>2. ASSUME i \in DOMAIN notifications', e = d
      PROVE  Goal
  BY <1>2 DEF Kept, EntryStep
\* A write of another document, or of this one.
<1>3. ASSUME NEW j \in DOMAIN notifications, NEW f, Write(j, f)
      PROVE  /\ i \in DOMAIN notifications'
             /\ j # i => e = d
             /\ j = i => e = f
  BY <1>3 DEF Write, TypeOK
<1>4. CASE UNCHANGED notifications
  BY <1>2, <1>4
<1>5. CASE InsertStep
  BY <1>2, <1>5 DEF InsertStep
<1>6. ASSUME NEW r \in Requests, NEW j \in Ids, NEW u \in Users, PushStep(r, j, u)
      PROVE  Goal
  <2>1. CASE j # i
    BY <1>2, <1>3, <1>6, <2>1 DEF PushStep
  <2>2. CASE j = i
    <3>1. PICK now \in Nat : AcceptsConfirmation(d, u, now)
      BY <1>6, <2>2 DEF PushStep
    <3>2. i \in DOMAIN notifications' /\ e = PushConfirmation(d, u)
      BY <1>3, <1>6, <2>2 DEF PushStep
    <3>3. ~Confirmed(d, u) /\ Addressed(d, u)
      BY <3>1 DEF AcceptsConfirmation
    <3>4. QED
      BY <1>1, <3>1, <3>2, <3>3, PushEffect DEF EntryStep
  <2>3. QED
    BY <2>1, <2>2
<1>7. CASE SeenStep
  <2>1. PICK j \in DOMAIN notifications, u \in Users, seen \in BOOLEAN :
          /\ Live(notifications[j], u) # {}
          /\ Write(j, SetSeen(notifications[j], u, seen))
    BY <1>7 DEF SeenStep
  <2>2. CASE j # i
    BY <1>2, <1>3, <2>1, <2>2
  <2>3. CASE j = i
    <3>1. i \in DOMAIN notifications' /\ e = SetSeen(d, u, seen)
      BY <1>3, <2>1, <2>3
    <3>2. [seen |-> seen, deleted |-> FALSE] \in Confirmation
      BY DEF Confirmation
    <3>3. QED
      BY <1>1, <2>1, <2>3, <3>1, <3>2, SeenEffect DEF EntryStep
  <2>4. QED
    BY <2>2, <2>3
<1>8. CASE DeletedStep
  <2>1. PICK j \in DOMAIN notifications, u \in Users :
          /\ DeleteModifies(notifications[j], u)
          /\ Write(j, SetDeleted(notifications[j], u))
    BY <1>8 DEF DeletedStep
  <2>2. CASE j # i
    BY <1>2, <1>3, <2>1, <2>2
  <2>3. CASE j = i
    <3>1. i \in DOMAIN notifications' /\ e = SetDeleted(d, u)
      BY <1>3, <2>1, <2>3
    <3>2. Confirmed(d, u)
      BY <2>1, <2>3 DEF DeleteModifies
    <3>3. [seen |-> d.confirmations[u][1].seen, deleted |-> TRUE] \in Confirmation
      BY <1>1, <3>2, SingleEntry DEF Confirmation
    <3>4. QED
      BY <1>1, <2>1, <2>3, <3>1, <3>3, DeletedEffect DEF EntryStep
  <2>4. QED
    BY <2>2, <2>3
<1>9. CASE InvalidateAtStep
  <2>1. PICK j \in DOMAIN notifications, at \in Option(Nat) :
          Write(j, SetInvalidateAt(notifications[j], at))
    BY <1>9 DEF InvalidateAtStep
  <2>2. CASE j # i
    BY <1>2, <1>3, <2>1, <2>2
  <2>3. CASE j = i
    BY <1>1, <1>3, <2>1, <2>3, InvalidateAtEffect DEF EntryStep
  <2>4. QED
    BY <2>2, <2>3
<1>10. QED
  BY <1>4, <1>5, <1>6, <1>7, <1>8, <1>9, CollectionSteps DEF CollectionStep

\* A document that was not there before has no confirmations.
LEMMA NewDocument ==
  ASSUME TypeOK, RequestsFit, [Next]_vars,
         NEW i \in DOMAIN notifications', i \notin DOMAIN notifications
  PROVE  notifications'[i].confirmations = [u \in Users |-> << >>]
BY CollectionSteps
   DEF CollectionStep, InsertStep, PushStep, SeenStep, DeletedStep, InvalidateAtStep,
       Write, TypeOK

LEMMA StepOneConfirmation ==
  ASSUME TypeOK, RequestsFit, OneConfirmation, [Next]_vars
  PROVE  OneConfirmation'
<1> SUFFICES ASSUME NEW i \in DOMAIN notifications', NEW u \in Users
             PROVE  Len(notifications'[i].confirmations[u]) <= 1
  BY DEF OneConfirmation
<1>1. Len(<< >>) = 0
  OBVIOUS
<1>2. \A x : Len(<<x>>) = 1
  OBVIOUS
<1>3. CASE i \notin DOMAIN notifications
  BY <1>1, <1>3, NewDocument
<1>4. CASE i \in DOMAIN notifications
  <2>1. Len(notifications[i].confirmations[u]) <= 1
    BY <1>4 DEF OneConfirmation
  <2>2. EntryStep(notifications[i], notifications'[i], u)
    BY <1>4, EntrySteps
  <2>3. \/ notifications'[i].confirmations[u] = notifications[i].confirmations[u]
        \/ \E x : notifications'[i].confirmations[u] = <<x>>
    BY <2>2 DEF EntryStep
  <2>4. ASSUME NEW x, notifications'[i].confirmations[u] = <<x>>
        PROVE  Len(notifications'[i].confirmations[u]) <= 1
    <3>1. Len(notifications'[i].confirmations[u]) = 1
      BY <1>2, <2>4
    <3>2. QED
      BY <3>1
  <2>5. QED
    BY <2>1, <2>3, <2>4
<1>5. QED
  BY <1>3, <1>4

LEMMA InitOneConfirmation == Init => OneConfirmation
BY DEF Init, OneConfirmation

\* However GETs, confirmations and redeliveries interleave, the filter of the
\* update and its atomicity keep one entry per user in a document.
THEOREM NeverConfirmedTwice == Spec => []OneConfirmation
<1>1. Init => TypeOK /\ RequestsFit /\ OneConfirmation
  BY InitTypes, InitOneConfirmation
<1>2. TypeOK /\ RequestsFit /\ OneConfirmation /\ [Next]_vars
        => (TypeOK /\ RequestsFit /\ OneConfirmation)'
  BY StepTypes, StepOneConfirmation
<1>3. QED
  BY <1>1, <1>2, PTL DEF Spec

-----------------------------------------------------------------------------
(* What was announced happened, and stays so *)

LEMMA FactsStable ==
  ASSUME TypeOK, RequestsFit, OneConfirmation, [Next]_vars,
         NEW i \in DOMAIN notifications, NEW u \in Users
  PROVE  /\ i \in DOMAIN notifications'
         /\ Kept(notifications[i], notifications'[i])
         /\ Confirmed(notifications[i], u) => Confirmed(notifications'[i], u)
         /\ Confirmed(notifications[i], u) /\ Live(notifications[i], u) = {}
              => Live(notifications'[i], u) = {}
<1> DEFINE d == notifications[i]
           e == notifications'[i]
<1>1. d \in Document /\ Single(d)
  BY DEF TypeOK, OneConfirmation, Single
<1>2. i \in DOMAIN notifications' /\ Kept(d, e) /\ EntryStep(d, e, u)
  BY EntrySteps
<1>3. \A x : <<x>> # << >>
  OBVIOUS
<1>4. Confirmed(d, u) => Confirmed(e, u)
  BY <1>2, <1>3 DEF EntryStep, Confirmed
<1>5. Confirmed(d, u) /\ Live(d, u) = {} => d.confirmations[u][1].deleted
  BY <1>1, SingleEntry DEF Live
<1>6. Confirmed(d, u) /\ Live(d, u) = {} => Live(e, u) = {}
  BY <1>2, <1>5 DEF EntryStep, Live
<1>7. QED
  BY <1>2, <1>4, <1>6

\* The invariant: AnnouncedHappened needs to know that what a request is about
\* to announce is already true.
Announcements == AnnouncementsFit /\ AnnouncedHappened

LEMMA AnnouncementStable ==
  ASSUME TypeOK, RequestsFit, OneConfirmation, [Next]_vars,
         NEW r \in Requests, AnnouncementFits(r), request'[r] = request[r]
  PROVE  AnnouncementFits(r)'
<1> DEFINE i == request[r].id
           u == request[r].caller
<1>1. RequestFits(r)
  BY DEF RequestsFit
<1>2. CASE At(r, "save", "announce")
  <2>1. i \in DOMAIN notifications
    BY <1>1, <1>2 DEF RequestFits
  <2>2. PICK v \in Users : TRUE
    BY ConstantsAssumption
  <2>3. Kept(notifications[i], notifications'[i])
    BY <2>1, <2>2, FactsStable
  <2>4. QED
    BY <1>2, <2>3 DEF AnnouncementFits, At, Kept
<1>3. CASE At(r, "seen", "announce") \/ At(r, "delete", "announce")
  <2>1. i \in DOMAIN notifications /\ u \in Users
    BY <1>1, <1>3 DEF RequestFits, At
  <2>2. /\ Confirmed(notifications[i], u) => Confirmed(notifications'[i], u)
        /\ Confirmed(notifications[i], u) /\ Live(notifications[i], u) = {}
             => Live(notifications'[i], u) = {}
    BY <2>1, FactsStable
  <2>3. QED
    BY <1>3, <2>2 DEF AnnouncementFits, At
<1>4. CASE ~(request[r].pc = "announce" /\ request[r].op \in {"save", "seen", "delete"})
  BY <1>4 DEF AnnouncementFits, At
<1>5. QED
  BY <1>2, <1>3, <1>4 DEF At

\* The request that moves has just written what it is about to announce.
LEMMA AnnouncementPrepared ==
  ASSUME TypeOK, RequestsFit, OneConfirmation, NEW r \in Requests, Advance(r)
  PROVE  AnnouncementFits(r)'
<1> DEFINE i == request[r].id
           u == request[r].caller
<1>1. RequestFits(r) /\ request[r] \in Request
  BY DEF RequestsFit, TypeOK
<1>2. CASE Insert(r)
  <2>1. PICK j \in Ids \ DOMAIN notifications :
          /\ notifications'[j] = Inserted(u, request[r].pnid, request[r].now,
                                     request[r].invalidate_at, request[r].user_ids)
          /\ request'[r] = [request[r] EXCEPT !.pc = "announce", !.id = j]
    BY <1>2 DEF Insert, TypeOK
  <2>2. /\ request'[r].id = j /\ request'[r].op = "save"
        /\ request'[r].user_ids = request[r].user_ids /\ request'[r].now = request[r].now
    BY <1>1, <1>2, <2>1 DEF Insert, At, Request
  <2>3. QED
    BY <2>1, <2>2 DEF AnnouncementFits, At, Inserted
<1>3. CASE UpdateConfirmationSeen(r)
  <2>1. i \in DOMAIN notifications /\ u \in Users /\ request[r].seen \in BOOLEAN
    BY <1>1, <1>3 DEF UpdateConfirmationSeen, RequestFits, Request, At
  <2>2. notifications[i] \in Document /\ Single(notifications[i])
    BY <2>1 DEF TypeOK, OneConfirmation, Single
  <2>3. request'[r].id = i /\ request'[r].caller = u /\ request'[r].op = "seen"
    BY <1>1, <1>3 DEF UpdateConfirmationSeen, Goto, TypeOK, Request, At
  <2>4. CASE Live(notifications[i], u) = {}
    <3>1. request'[r].pc = "not_found"
      BY <1>1, <1>3, <2>4 DEF UpdateConfirmationSeen, FindManyDelivered, Goto, TypeOK, Request
    <3>2. QED
      BY <3>1 DEF AnnouncementFits, At
  <2>5. CASE Live(notifications[i], u) # {}
    <3>1. notifications'[i] = SetSeen(notifications[i], u, request[r].seen)
      BY <1>3, <2>1, <2>5 DEF UpdateConfirmationSeen, FindManyDelivered, Write, TypeOK
    <3>2. notifications'[i].confirmations[u] = <<[seen |-> request[r].seen, deleted |-> FALSE]>>
      BY <2>1, <2>2, <2>5, <3>1, SeenEffect
    <3>3. \A x : <<x>> # << >>
      OBVIOUS
    <3>4. Confirmed(notifications'[i], u)
      BY <3>2, <3>3 DEF Confirmed
    <3>5. ~At(r, "save", "announce")' /\ ~At(r, "delete", "announce")'
      BY <2>3 DEF At
    <3>6. Confirmed(notifications'[request'[r].id], request'[r].caller)
      BY <2>3, <3>4
    <3>7. QED
      BY <3>5, <3>6 DEF AnnouncementFits
  <2>6. QED
    BY <2>4, <2>5
<1>4. CASE Delete(r)
  <2>1. i \in DOMAIN notifications /\ u \in Users
    BY <1>1, <1>4 DEF Delete, RequestFits, Request, At
  <2>2. notifications[i] \in Document /\ Single(notifications[i])
    BY <2>1 DEF TypeOK, OneConfirmation, Single
  <2>3. request'[r].id = i /\ request'[r].caller = u /\ request'[r].op = "delete"
    BY <1>1, <1>4 DEF Delete, Goto, TypeOK, Request, At
  <2>4. CASE ~DeleteModifies(notifications[i], u)
    <3>1. request'[r].pc = "not_found"
      BY <1>1, <1>4, <2>4 DEF Delete, Goto, TypeOK, Request
    <3>2. QED
      BY <3>1 DEF AnnouncementFits, At
  <2>5. CASE DeleteModifies(notifications[i], u)
    <3> DEFINE x == [seen |-> notifications[i].confirmations[u][1].seen, deleted |-> TRUE]
    <3>1. notifications'[i] = SetDeleted(notifications[i], u)
      BY <1>4, <2>1, <2>5 DEF Delete, Write, TypeOK
    <3>2. notifications'[i].confirmations[u] = <<x>>
      <4> DEFINE d == notifications[i]
      <4>1. d \in Document /\ Single(d) /\ DeleteModifies(d, u) /\ u \in Users
        BY <2>1, <2>2, <2>5
      <4> HIDE DEF d
      <4>2. SetDeleted(d, u).confirmations[u]
              = <<[seen |-> d.confirmations[u][1].seen, deleted |-> TRUE]>>
        BY <4>1, DeletedEffect
      <4>3. QED
        BY <3>1, <4>2 DEF d
    <3>3. x.deleted = TRUE
      OBVIOUS
    <3> HIDE DEF x
    <3>4. <<x>> # << >> /\ DOMAIN <<x>> = {1} /\ <<x>>[1] = x
      OBVIOUS
    <3>5. Confirmed(notifications'[i], u) /\ Live(notifications'[i], u) = {}
      BY <3>2, <3>3, <3>4 DEF Confirmed, Live
    <3>6. ~At(r, "save", "announce")' /\ ~At(r, "seen", "announce")'
      BY <2>3 DEF At
    <3>7. /\ Confirmed(notifications'[request'[r].id], request'[r].caller)
          /\ Live(notifications'[request'[r].id], request'[r].caller) = {}
      BY <2>3, <3>5
    <3>8. QED
      BY <3>6, <3>7 DEF AnnouncementFits
  <2>6. QED
    BY <2>4, <2>5
<1>5. ASSUME ~(Insert(r) \/ UpdateConfirmationSeen(r) \/ Delete(r))
      PROVE  request'[r].pc # "announce"
  <2>1. CASE FindUndelivered(r)
    <3>1. PICK found, now : request'[r] = [request[r] EXCEPT !.found = found, !.left = found,
                              !.now = now, !.pc = IF found = {} THEN "ok" ELSE "write"]
      BY <2>1 DEF FindUndelivered, TypeOK
    <3>2. QED
      BY <1>1, <3>1 DEF Request
  <2>2. ASSUME NEW k \in Ids, InsertManyConfirmations(r, k)
        PROVE  request'[r].pc # "announce"
    BY <1>1, <2>2 DEF InsertManyConfirmations, TypeOK, Request
  <2>3. ASSUME NEW pc, Goto(r, pc), pc # "announce"
        PROVE  request'[r].pc # "announce"
    BY <1>1, <2>3 DEF Goto, TypeOK, Request
  <2>4. QED
    BY <1>5, <2>1, <2>2, <2>3
       DEF Advance, InsertRejected, SendNew, RespondUndelivered, SendUpdated, SendDeleted,
           UpdateInvalidateAt, InsertConfirmation, Cut
<1>6. QED
  BY <1>2, <1>3, <1>4, <1>5 DEF AnnouncementFits, At

\* A request that has just arrived is about to query or to write, has found
\* nothing, and has changed nothing else.
LEMMA ArrivedFresh ==
  ASSUME TypeOK, NEW r \in Requests, ArriveAny(r)
  PROVE  /\ request'[r].pc \in {"find", "write"}
         /\ request'[r].found = {}
         /\ notifications' = notifications
<1>1. DOMAIN request = Requests
  BY DEF TypeOK
<1>2. ASSUME NEW p \in Producers, NEW n \in Pnids, NEW to \in Audiences, NEW e \in Expiries,
             PostUndelivered(r, p, n, to, e)
      PROVE  request'[r].pc = "write" /\ request'[r].found = {} /\ notifications' = notifications
  BY <1>1, <1>2 DEF PostUndelivered, Arrive, NewRequest
<1>3. ASSUME NEW u \in Users, GetUndelivered(r, u)
      PROVE  request'[r].pc = "find" /\ request'[r].found = {} /\ notifications' = notifications
  BY <1>1, <1>3 DEF GetUndelivered, Arrive, NewRequest
<1>4. ASSUME NEW u \in Users, NEW i \in Ids, NEW s \in BOOLEAN, PutSeen(r, u, i, s)
      PROVE  request'[r].pc = "write" /\ request'[r].found = {} /\ notifications' = notifications
  BY <1>1, <1>4 DEF PutSeen, Arrive, NewRequest
<1>5. ASSUME NEW u \in Users, NEW i \in Ids, DeleteDelivered(r, u, i)
      PROVE  request'[r].pc = "write" /\ request'[r].found = {} /\ notifications' = notifications
  BY <1>1, <1>5 DEF DeleteDelivered, Arrive, NewRequest
<1>6. ASSUME NEW p \in Producers, NEW i \in Ids, NEW e \in Expiries, PutInvalidateAt(r, p, i, e)
      PROVE  request'[r].pc = "write" /\ request'[r].found = {} /\ notifications' = notifications
  BY <1>1, <1>6 DEF PutInvalidateAt, Arrive, NewRequest
<1>7. ASSUME NEW u \in Users, NEW i \in Ids, ConsumeConfirmation(r, u, i)
      PROVE  request'[r].pc = "write" /\ request'[r].found = {} /\ notifications' = notifications
  BY <1>1, <1>7 DEF ConsumeConfirmation, Arrive, NewRequest
<1>8. QED
  BY <1>2, <1>3, <1>4, <1>5, <1>6, <1>7 DEF ArriveAny

\* Documents are added by inserts only.
LEMMA OnlyInsertAdds ==
  ASSUME TypeOK, RequestsFit, [Next]_vars, NEW i \in DOMAIN notifications',
         i \notin DOMAIN notifications
  PROVE  \E r \in Requests : Insert(r)
<1>1. notifications' # notifications
  OBVIOUS
<1>2. PICK r \in Requests : Advance(r)
  BY <1>1, ArrivedFresh DEF Next, Tick, vars
<1>3. ASSUME NEW j \in DOMAIN notifications, NEW d, Write(j, d)
      PROVE  DOMAIN notifications' = DOMAIN notifications
  BY <1>3 DEF Write
<1>4. CASE \E k \in Ids : InsertManyConfirmations(r, k)
  <2>1. PICK k \in Ids : InsertManyConfirmations(r, k)
    BY <1>4
  <2>2. k \in DOMAIN notifications
    BY <2>1 DEF InsertManyConfirmations, At, RequestsFit, RequestFits
  <2>3. QED
    BY <1>3, <2>1, <2>2 DEF InsertManyConfirmations
<1>5. CASE UpdateConfirmationSeen(r)
  <2>1. request[r].id \in DOMAIN notifications
    BY <1>5 DEF UpdateConfirmationSeen, At, RequestsFit, RequestFits
  <2>2. QED
    BY <1>1, <1>3, <1>5, <2>1 DEF UpdateConfirmationSeen
<1>6. CASE Delete(r)
  BY <1>1, <1>3, <1>6 DEF Delete
<1>7. CASE UpdateInvalidateAt(r)
  BY <1>1, <1>3, <1>7 DEF UpdateInvalidateAt
<1>8. CASE InsertConfirmation(r)
  BY <1>1, <1>3, <1>8 DEF InsertConfirmation
<1>9. CASE InsertRejected(r) \/ SendNew(r) \/ FindUndelivered(r) \/ RespondUndelivered(r)
             \/ SendUpdated(r) \/ SendDeleted(r) \/ Cut(r)
  BY <1>1, <1>9 DEF InsertRejected, SendNew, FindUndelivered, RespondUndelivered,
                    SendUpdated, SendDeleted, Cut
<1>10. QED
  BY <1>2, <1>4, <1>5, <1>6, <1>7, <1>8, <1>9 DEF Advance

LEMMA StepAnnouncementsFit ==
  ASSUME TypeOK, RequestsFit, OneConfirmation, AnnouncementsFit, [Next]_vars
  PROVE  AnnouncementsFit'
<1> SUFFICES ASSUME NEW r \in Requests PROVE AnnouncementFits(r)'
  BY DEF AnnouncementsFit
<1>1. CASE request'[r] = request[r]
  BY <1>1, AnnouncementStable DEF AnnouncementsFit
<1>2. CASE Advance(r)
  BY <1>2, AnnouncementPrepared
<1>3. CASE ArriveAny(r)
  <2>1. request'[r].pc # "announce"
    BY <1>3, ArrivedFresh
  <2>2. QED
    BY <2>1 DEF AnnouncementFits, At
<1>4. CASE ~ArriveAny(r) /\ ~Advance(r)
  BY <1>1, <1>4, Unmoved
<1>5. QED
  BY <1>1, <1>2, <1>3, <1>4

\* Published messages stay, and the one a step adds is the one prepared.
Prepared(r, m) ==
  LET q == request[r] IN
  /\ m.id = q.id
  /\ \/ At(r, "save", "announce") /\ m.status = "NEW" /\ m.user_ids = q.user_ids
                                 /\ m.timestamp = q.now
     \/ /\ At(r, "seen", "announce") /\ m.status = "UPDATED"
        /\ m.user_ids = {q.caller} /\ m.timestamp = clock
     \/ /\ At(r, "delete", "announce") /\ m.status = "DELETED"
        /\ m.user_ids = {q.caller} /\ m.timestamp = clock

LEMMA PublishSteps ==
  ASSUME TypeOK, [Next]_vars, NEW m \in published', m \notin published
  PROVE  UNCHANGED notifications /\ \E r \in Requests : Prepared(r, m)
<1>1. PICK r \in Requests : SendNew(r) \/ SendUpdated(r) \/ SendDeleted(r)
  BY DEF Next, Tick, vars, ArriveAny, Arrive, PostUndelivered, GetUndelivered, PutSeen,
        DeleteDelivered, PutInvalidateAt, ConsumeConfirmation, Advance, Insert,
        InsertRejected, FindUndelivered, RespondUndelivered, InsertManyConfirmations,
        UpdateConfirmationSeen, Delete, UpdateInvalidateAt, InsertConfirmation, Cut
<1>2. CASE SendNew(r)
  BY <1>2 DEF SendNew, Prepared, At
<1>3. CASE SendUpdated(r)
  BY <1>3 DEF SendUpdated, Prepared, At
<1>4. CASE SendDeleted(r)
  BY <1>4 DEF SendDeleted, Prepared, At
<1>5. QED
  BY <1>1, <1>2, <1>3, <1>4

LEMMA StepAnnouncedHappened ==
  ASSUME TypeOK, RequestsFit, OneConfirmation, Announcements, [Next]_vars
  PROVE  AnnouncedHappened'
<1> DEFINE Happened(m, d) ==
             CASE m.status = "NEW"     -> m.user_ids = d.user_ids
               [] m.status = "UPDATED" -> \A u \in m.user_ids : Confirmed(d, u)
               [] m.status = "DELETED" -> \A u \in m.user_ids : Confirmed(d, u) /\ Live(d, u) = {}
<1> SUFFICES ASSUME NEW m \in published'
             PROVE  m.id \in DOMAIN notifications' /\ Happened(m, notifications'[m.id])
  BY DEF AnnouncedHappened
<1>1. CASE m \in published
  <2>1. m.id \in DOMAIN notifications /\ Happened(m, notifications[m.id])
    BY <1>1 DEF Announcements, AnnouncedHappened
  <2>2. m.user_ids \subseteq Users /\ m.status \in {"NEW", "UPDATED", "DELETED"}
    BY <1>1 DEF TypeOK, Message, New, Updated, Deleted
  <2>3. PICK v \in Users : TRUE
    BY ConstantsAssumption
  <2>4. m.id \in DOMAIN notifications' /\ Kept(notifications[m.id], notifications'[m.id])
    BY <2>1, <2>3, FactsStable
  <2>5. \A u \in m.user_ids :
          /\ Confirmed(notifications[m.id], u) => Confirmed(notifications'[m.id], u)
          /\ Confirmed(notifications[m.id], u) /\ Live(notifications[m.id], u) = {}
                => Live(notifications'[m.id], u) = {}
    BY <2>1, <2>2, FactsStable
  <2>6. QED
    BY <2>1, <2>2, <2>4, <2>5 DEF Kept
<1>2. CASE m \notin published
  <2>1. PICK r \in Requests : Prepared(r, m)
    BY <1>2, PublishSteps
  <2>2. notifications' = notifications
    BY <1>2, PublishSteps
  <2>3. RequestFits(r) /\ AnnouncementFits(r)
    BY DEF RequestsFit, Announcements, AnnouncementsFit
  <2>4. m.id \in DOMAIN notifications'
    BY <2>1, <2>2, <2>3 DEF Prepared, RequestFits, At
  <2>5. Happened(m, notifications[m.id])
    BY <2>1, <2>3 DEF Prepared, AnnouncementFits, At
  <2>6. QED
    BY <2>2, <2>4, <2>5
<1>3. QED
  BY <1>1, <1>2

LEMMA StepMessagesDated ==
  ASSUME TypeOK, RequestsFit, OneConfirmation, Announcements, MessagesDated, [Next]_vars
  PROVE  MessagesDated'
<1>1. clock \in Nat /\ clock' \in Nat /\ clock <= clock'
  <2>1. clock' \in Nat
    BY StepTypes DEF TypeOK
  <2>2. clock' = clock \/ clock' = clock + 1
    BY DEF Next, Tick, vars, ArriveAny, Arrive, PostUndelivered, GetUndelivered, PutSeen,
        DeleteDelivered, PutInvalidateAt, ConsumeConfirmation, Advance, Insert, SendNew,
        InsertRejected, FindUndelivered, RespondUndelivered, InsertManyConfirmations,
        UpdateConfirmationSeen, SendUpdated, Delete, SendDeleted, UpdateInvalidateAt,
        InsertConfirmation, Cut
  <2>3. QED
    BY <2>1, <2>2 DEF TypeOK
<1>2. ASSUME NEW i \in DOMAIN notifications
      PROVE  /\ i \in DOMAIN notifications'
             /\ notifications'[i].created_at = notifications[i].created_at
             /\ notifications[i].created_at \in Nat /\ notifications[i].created_at <= clock
  <2>1. PICK v \in Users : TRUE
    BY ConstantsAssumption
  <2>2. i \in DOMAIN notifications' /\ Kept(notifications[i], notifications'[i])
    BY <2>1, FactsStable
  <2>3. QED
    BY <2>2 DEF Kept, TypeOK, Document, MessagesDated
<1>3. ASSUME NEW i \in DOMAIN notifications'
      PROVE  notifications'[i].created_at <= clock'
  <2>1. CASE i \in DOMAIN notifications
    BY <1>1, <1>2, <2>1
  <2>2. CASE i \notin DOMAIN notifications
    <3>1. PICK r \in Requests : Insert(r)
      BY <2>2, OnlyInsertAdds
    <3>2. notifications'[i].created_at = request[r].now
      BY <2>2, <3>1 DEF Insert, Inserted
    <3>3. request[r].now \in Nat /\ request[r].now <= clock
      BY DEF RequestsFit, RequestFits, TypeOK, Request
    <3>4. QED
      BY <1>1, <3>2, <3>3
  <2>3. QED
    BY <2>1, <2>2
<1>4. ASSUME NEW m \in published'
      PROVE  /\ notifications'[m.id].created_at <= m.timestamp
             /\ m.status = "NEW" => m.timestamp = notifications'[m.id].created_at
  <2>1. CASE m \in published
    <3>1. m.id \in DOMAIN notifications
      BY <2>1 DEF RequestsFit
    <3>2. QED
      BY <1>2, <2>1, <3>1 DEF MessagesDated
  <2>2. CASE m \notin published
    <3>1. PICK r \in Requests : Prepared(r, m)
      BY <2>2, PublishSteps
    <3>2. notifications' = notifications
      BY <2>2, PublishSteps
    <3>3. RequestFits(r) /\ AnnouncementFits(r)
      BY DEF RequestsFit, Announcements, AnnouncementsFit
    <3>4. m.id \in DOMAIN notifications
      BY <3>1, <3>3 DEF Prepared, RequestFits, At
    <3>5. notifications[m.id].created_at \in Nat /\ notifications[m.id].created_at <= clock
      BY <1>2, <3>4
    <3>6. CASE At(r, "save", "announce")
      BY <3>1, <3>2, <3>3, <3>5, <3>6 DEF Prepared, AnnouncementFits, At
    <3>7. CASE ~At(r, "save", "announce")
      BY <3>1, <3>2, <3>5, <3>7 DEF Prepared
    <3>8. QED
      BY <3>6, <3>7
  <2>3. QED
    BY <2>1, <2>2
<1>5. QED
  BY <1>3, <1>4 DEF MessagesDated

\* The messages about a notification are truthful and rightly dated.
THEOREM AnnouncementsTruthful == Spec => []AnnouncementsTrue
<1> DEFINE Inv == /\ TypeOK /\ RequestsFit /\ OneConfirmation
                  /\ Announcements /\ MessagesDated
<1>1. Init => Inv
  <2>1. Init => AnnouncementsFit
    BY DEF Init, AnnouncementsFit, AnnouncementFits, At, NewRequest
  <2>2. Init => AnnouncedHappened /\ MessagesDated
    BY DEF Init, AnnouncedHappened, MessagesDated
  <2>3. QED
    BY <2>1, <2>2, InitTypes, InitOneConfirmation DEF Announcements
<1>2. Inv /\ [Next]_vars => Inv'
  <2> SUFFICES ASSUME Inv, [Next]_vars PROVE Inv'
    OBVIOUS
  <2>1. (TypeOK /\ RequestsFit)' /\ OneConfirmation'
    BY StepTypes, StepOneConfirmation
  <2>2. AnnouncementsFit' /\ AnnouncedHappened' /\ MessagesDated'
    BY StepAnnouncementsFit, StepAnnouncedHappened, StepMessagesDated DEF Announcements
  <2>3. QED
    BY <2>1, <2>2 DEF Announcements
<1>3. Inv => AnnouncementsTrue
  BY DEF Announcements, MessagesDated, NewIsOldest, AnnouncementsTrue
<1>4. QED
  BY <1>1, <1>2, <1>3, PTL DEF Spec

-----------------------------------------------------------------------------
(* Delivered only on request *)

\* A GET that has not queried yet has found nothing.
NothingFoundYet == \A r \in Requests : At(r, "fetch", "find") => request[r].found = {}

LEMMA StepNothingFoundYet ==
  ASSUME TypeOK, NothingFoundYet, [Next]_vars
  PROVE  NothingFoundYet'
<1> SUFFICES ASSUME NEW r \in Requests, At(r, "fetch", "find")'
             PROVE  request'[r].found = {}
  BY DEF NothingFoundYet
<1>1. CASE request'[r] = request[r]
  BY <1>1 DEF NothingFoundYet, At
<1>2. CASE ArriveAny(r)
  BY <1>2, ArrivedFresh
<1>3. ASSUME Advance(r)
      PROVE  request'[r].pc # "find"
  <2>1. request[r] \in Request
    BY DEF TypeOK
  <2>2. CASE FindUndelivered(r)
    <3>1. PICK found, now : request'[r] = [request[r] EXCEPT !.found = found, !.left = found,
                              !.now = now, !.pc = IF found = {} THEN "ok" ELSE "write"]
      BY <2>2 DEF FindUndelivered, TypeOK
    <3>2. QED
      BY <2>1, <3>1 DEF Request
  <2>3. ASSUME NEW k \in Ids, InsertManyConfirmations(r, k)
        PROVE  request'[r].pc # "find"
    BY <2>1, <2>3 DEF InsertManyConfirmations, TypeOK, Request
  <2>4. CASE Insert(r)
    BY <2>1, <2>4 DEF Insert, TypeOK, Request
  <2>5. ASSUME NEW pc, Goto(r, pc), pc # "find"
        PROVE  request'[r].pc # "find"
    BY <2>1, <2>5 DEF Goto, TypeOK, Request
  <2>6. QED
    BY <1>3, <2>2, <2>3, <2>4, <2>5
       DEF Advance, InsertRejected, SendNew, RespondUndelivered, SendUpdated, SendDeleted,
           UpdateConfirmationSeen, Delete, UpdateInvalidateAt, InsertConfirmation, Cut
<1>4. CASE ~ArriveAny(r) /\ ~Advance(r)
  BY <1>1, <1>4, Unmoved
<1>5. QED
  BY <1>1, <1>2, <1>3, <1>4 DEF At

\* Whatever handed the notification to a user has, for ever after.
LEMMA HandedStable ==
  ASSUME TypeOK, RequestsFit, NothingFoundYet, [Next]_vars,
         NEW r \in Requests, NEW i \in Ids, NEW u \in Users, HandedBy(r, i, u)
  PROVE  HandedBy(r, i, u)'
<1>1. request[r] \in Request /\ RequestFits(r)
  BY DEF TypeOK, RequestsFit
<1>2. request[r].op \in {"fetch", "confirm"} /\ request[r].pc # "new"
  BY <1>1 DEF HandedBy, RequestFits
<1>3. CASE request'[r] = request[r]
  BY <1>3 DEF HandedBy
<1>4. ~ArriveAny(r)
  BY <1>2 DEF ArriveAny, Arrive, PostUndelivered, GetUndelivered, PutSeen, DeleteDelivered,
              PutInvalidateAt, ConsumeConfirmation
<1>5. CASE Advance(r)
  <2>1. CASE request[r].op = "confirm"
    <3>1. request[r].pc = "ok"
      BY <2>1 DEF HandedBy
    <3>2. QED
      BY <1>5, <3>1 DEF Advance, Insert, InsertRejected, SendNew, FindUndelivered, At,
        RespondUndelivered, InsertManyConfirmations, UpdateConfirmationSeen,
        SendUpdated, Delete, SendDeleted, UpdateInvalidateAt, InsertConfirmation, Cut
  <2>2. CASE request[r].op = "fetch"
    <3>1. i \in request[r].found \ request[r].left /\ request[r].caller = u
      BY <2>2 DEF HandedBy
    <3>2. ~FindUndelivered(r)
      BY <3>1 DEF FindUndelivered, NothingFoundYet, At
    <3>3. ASSUME NEW k \in Ids, InsertManyConfirmations(r, k)
          PROVE  HandedBy(r, i, u)'
      <4>1. /\ request'[r].found = request[r].found /\ request'[r].left = request[r].left \ {k}
            /\ request'[r].op = "fetch" /\ request'[r].caller = u
        BY <1>1, <2>2, <3>1, <3>3 DEF InsertManyConfirmations, TypeOK, Request
      <4>2. QED
        BY <3>1, <4>1 DEF HandedBy
    <3>4. ASSUME NEW pc, Goto(r, pc)
          PROVE  HandedBy(r, i, u)'
      <4>1. /\ request'[r].found = request[r].found /\ request'[r].left = request[r].left
            /\ request'[r].op = "fetch" /\ request'[r].caller = u
        BY <1>1, <2>2, <3>1, <3>4 DEF Goto, TypeOK, Request
      <4>2. QED
        BY <3>1, <4>1 DEF HandedBy
    <3>5. QED
      BY <1>5, <2>2, <3>2, <3>3, <3>4
         DEF Advance, Insert, InsertRejected, SendNew, RespondUndelivered, SendUpdated,
             SendDeleted, UpdateConfirmationSeen, Delete, UpdateInvalidateAt,
             InsertConfirmation, Cut, At
  <2>3. QED
    BY <1>2, <2>1, <2>2
<1>6. CASE ~ArriveAny(r) /\ ~Advance(r)
  BY <1>3, <1>6, Unmoved
<1>7. QED
  BY <1>3, <1>4, <1>5, <1>6

\* What a step does to the confirmation of u that was not there.
LEMMA Delivering ==
  ASSUME TypeOK, RequestsFit, OneConfirmation, [Next]_vars,
         NEW i \in DOMAIN notifications, NEW u \in Users,
         ~Confirmed(notifications[i], u), Confirmed(notifications'[i], u)
  PROVE  /\ Addressed(notifications[i], u)
         /\ \E r \in Requests : HandedBy(r, i, u)'
<1> DEFINE d == notifications[i]
<1>1. d \in Document /\ Single(d) /\ i \in Ids
  BY DEF TypeOK, OneConfirmation, Single
<1>2. \A x : <<x>> # << >>
  OBVIOUS
<1>3. Addressed(d, u)
  BY EntrySteps DEF EntryStep, Confirmed
\* A step that is not a push for u leaves u without a confirmation.
<1>4. ASSUME ~\E r \in Requests : PushStep(r, i, u)
      PROVE  FALSE
  <2>1. ASSUME NEW j \in DOMAIN notifications, NEW f, Write(j, f),
               i = j => f.confirmations[u] = d.confirmations[u]
        PROVE  FALSE
    BY <2>1 DEF Write, TypeOK, Confirmed
  <2>2. ~UNCHANGED notifications /\ ~InsertStep
    BY DEF InsertStep
  <2>3. ~InvalidateAtStep
    <3> SUFFICES ASSUME NEW j \in DOMAIN notifications, NEW at \in Option(Nat),
                        Write(j, SetInvalidateAt(notifications[j], at))
                 PROVE  FALSE
      BY DEF InvalidateAtStep
    <3>1. i = j => SetInvalidateAt(notifications[j], at).confirmations[u] = d.confirmations[u]
      BY <1>1, InvalidateAtEffect
    <3>2. QED
      BY <2>1, <3>1
  <2>4. ~SeenStep
    <3> SUFFICES ASSUME NEW j \in DOMAIN notifications, NEW v \in Users, NEW b \in BOOLEAN,
                        Live(notifications[j], v) # {},
                        Write(j, SetSeen(notifications[j], v, b))
                 PROVE  FALSE
      BY DEF SeenStep
    <3>1. ASSUME i = j
          PROVE  SetSeen(notifications[j], v, b).confirmations[u] = d.confirmations[u]
      <4>1. Live(d, v) # {}
        BY <3>1
      <4>2. Confirmed(d, v) /\ \A w \in Users \ {v} : SetSeen(d, v, b).confirmations[w] = d.confirmations[w]
        BY <1>1, <4>1, SeenEffect
      <4>3. u # v
        BY <4>2
      <4>4. QED
        BY <3>1, <4>2, <4>3
    <3>2. QED
      BY <2>1, <3>1
  <2>5. ~DeletedStep
    <3> SUFFICES ASSUME NEW j \in DOMAIN notifications, NEW v \in Users,
                        DeleteModifies(notifications[j], v),
                        Write(j, SetDeleted(notifications[j], v))
                 PROVE  FALSE
      BY DEF DeletedStep
    <3>1. ASSUME i = j
          PROVE  SetDeleted(notifications[j], v).confirmations[u] = d.confirmations[u]
      <4>1. DeleteModifies(d, v)
        BY <3>1
      <4>2. Confirmed(d, v) /\ \A w \in Users \ {v} : SetDeleted(d, v).confirmations[w] = d.confirmations[w]
        BY <1>1, <4>1, DeletedEffect
      <4>3. u # v
        BY <4>2
      <4>4. QED
        BY <3>1, <4>2, <4>3
    <3>2. QED
      BY <2>1, <3>1
  <2>6. ASSUME NEW r \in Requests, NEW j \in Ids, NEW v \in Users, PushStep(r, j, v)
        PROVE  FALSE
    <3>1. PICK now \in Nat : AcceptsConfirmation(notifications[j], v, now)
      BY <2>6 DEF PushStep
    <3>2. j = i => v # u
      BY <1>4, <2>6
    <3>3. i = j => PushConfirmation(notifications[j], v).confirmations[u] = d.confirmations[u]
      BY <1>1, <3>1, <3>2, PushEffect
    <3>4. QED
      BY <2>1, <2>6, <3>3 DEF PushStep
  <2>7. QED
    BY <2>2, <2>3, <2>4, <2>5, <2>6, CollectionSteps DEF CollectionStep
<1>5. QED
  BY <1>3, <1>4 DEF PushStep

LEMMA StepDeliveredOnRequest ==
  ASSUME TypeOK, RequestsFit, OneConfirmation, NothingFoundYet, DeliveredOnRequest,
         [Next]_vars
  PROVE  DeliveredOnRequest'
<1> SUFFICES ASSUME NEW i \in DOMAIN notifications', NEW u \in Users,
                    Confirmed(notifications'[i], u)
             PROVE  /\ Addressed(notifications'[i], u)
                    /\ \E r \in Requests : HandedBy(r, i, u)'
  BY DEF DeliveredOnRequest
<1>1. i \in DOMAIN notifications
  BY NewDocument DEF Confirmed
<1>2. Addressed(notifications[i], u) => Addressed(notifications'[i], u)
  BY <1>1, EntrySteps DEF Kept, Addressed
<1>3. CASE Confirmed(notifications[i], u)
  <2>1. PICK r \in Requests : HandedBy(r, i, u)
    BY <1>1, <1>3 DEF DeliveredOnRequest
  <2>2. HandedBy(r, i, u)'
    BY <1>1, <2>1, HandedStable DEF TypeOK
  <2>3. QED
    BY <1>1, <1>2, <1>3, <2>2 DEF DeliveredOnRequest
<1>4. CASE ~Confirmed(notifications[i], u)
  BY <1>1, <1>2, <1>4, Delivering
<1>5. QED
  BY <1>3, <1>4

\* A notification is marked as delivered to a user only for him, and only by a
\* request made in his name: no other recipient of a broadcast is affected.
THEOREM DeliveredOnlyOnRequest == Spec => []DeliveredOnRequest
<1> DEFINE Inv == /\ TypeOK /\ RequestsFit /\ OneConfirmation
                  /\ NothingFoundYet /\ DeliveredOnRequest
<1>1. Init => Inv
  <2>1. Init => NothingFoundYet /\ DeliveredOnRequest
    BY DEF Init, NothingFoundYet, DeliveredOnRequest, At, NewRequest
  <2>2. QED
    BY <2>1, InitTypes, InitOneConfirmation
<1>2. Inv /\ [Next]_vars => Inv'
  <2> SUFFICES ASSUME Inv, [Next]_vars PROVE Inv'
    OBVIOUS
  <2>1. (TypeOK /\ RequestsFit)' /\ OneConfirmation'
    BY StepTypes, StepOneConfirmation
  <2>2. NothingFoundYet' /\ DeliveredOnRequest'
    BY StepNothingFoundYet, StepDeliveredOnRequest
  <2>3. QED
    BY <2>1, <2>2
<1>3. Inv => DeliveredOnRequest
  OBVIOUS
<1>4. QED
  BY <1>1, <1>2, <1>3, PTL DEF Spec

-----------------------------------------------------------------------------
(* Fetches and validity, for the system this service is a part of *)

\* A GET that has not queried yet has found nothing (get_undelivered).
LEMMA NeverFoundBefore == Spec => []NothingFoundYet
<1>1. Init => NothingFoundYet
  BY DEF Init, NothingFoundYet, At, NewRequest
<1>2. QED
  BY <1>1, TypeCorrect, StepNothingFoundYet, PTL DEF Spec

\* A GET whose query has returned.
Answering(r) == request[r].op = "fetch" /\ request[r].pc \in {"write", "respond", "ok"}

\* A GET keeps its user and what it has found; it finds what its query selects.
LEMMA FetchSteps ==
  ASSUME TypeOK, RequestsFit, NothingFoundYet, [Next]_vars, NEW r \in Requests
  PROVE  /\ request[r].op = "fetch" =>
              /\ request'[r].op = "fetch" /\ request'[r].caller = request[r].caller
              /\ request[r].found \subseteq request'[r].found
         /\ Answering(r)' =>
              \/ Answering(r)
              \/ /\ At(r, "fetch", "find")
                 /\ request'[r].found = FindManyUndelivered(notifications, request[r].caller,
                                                            request[r].now)
<1>1. request[r] \in Request /\ RequestFits(r) /\ DOMAIN request = Requests
  BY DEF TypeOK, RequestsFit
<1>2. CASE request'[r] = request[r]
  BY <1>2 DEF Answering
<1>3. CASE ArriveAny(r)
  <2>1. request[r].pc = "new"
    BY <1>3 DEF ArriveAny, Arrive, PostUndelivered, GetUndelivered, PutSeen, DeleteDelivered,
                PutInvalidateAt, ConsumeConfirmation
  <2>2. request[r].op = "none"
    BY <1>1, <2>1 DEF RequestFits
  <2>3. ~Answering(r)'
    <3>1. ASSUME NEW u \in Users, GetUndelivered(r, u)
          PROVE  request'[r].pc = "find"
      BY <1>1, <3>1 DEF GetUndelivered, Arrive, NewRequest
    <3>2. ASSUME NEW args, args.op # "fetch", Arrive(r, args)
          PROVE  request'[r].op # "fetch"
      BY <1>1, <3>2 DEF Arrive
    <3>3. QED
      BY <1>3, <3>1, <3>2
         DEF Answering, ArriveAny, PostUndelivered, PutSeen, DeleteDelivered, PutInvalidateAt,
             ConsumeConfirmation, NewRequest
  <2>4. QED
    BY <2>2, <2>3
<1>4. CASE Advance(r)
  <2>1. /\ request'[r].op = request[r].op /\ request'[r].caller = request[r].caller
    BY <1>4, ArgumentsStay
  <2>2. CASE FindUndelivered(r)
    <3>1. request[r].found = {}
      BY <2>2 DEF FindUndelivered, NothingFoundYet
    <3>2. request'[r].found = FindManyUndelivered(notifications, request[r].caller,
                                                  request[r].now)
      BY <1>1, <2>2 DEF FindUndelivered, Request
    <3>3. QED
      BY <2>1, <2>2, <3>1, <3>2 DEF FindUndelivered
  <2>3. ASSUME NEW k \in Ids, InsertManyConfirmations(r, k)
        PROVE  request'[r].found = request[r].found /\ request[r].pc = "write"
    BY <1>1, <2>3 DEF InsertManyConfirmations, At, Request
  <2>4. ASSUME NEW pc, Goto(r, pc)
        PROVE  request'[r].found = request[r].found /\ request'[r].pc = pc
    BY <1>1, <2>4 DEF Goto, Request
  <2>5. CASE RespondUndelivered(r)
    BY <2>1, <2>4, <2>5 DEF RespondUndelivered, At, Answering
  <2>6. CASE Cut(r)
    BY <2>1, <2>4, <2>6 DEF Cut, Answering
  <2>7. CASE request[r].op # "fetch"
    BY <2>1, <2>7 DEF Answering
  <2>8. QED
    BY <1>4, <2>1, <2>2, <2>3, <2>5, <2>6, <2>7
       DEF Advance, At, Answering, Insert, InsertRejected, SendNew, SendUpdated, SendDeleted,
           UpdateConfirmationSeen, Delete, UpdateInvalidateAt, InsertConfirmation
<1>5. CASE ~ArriveAny(r) /\ ~Advance(r)
  BY <1>2, <1>5, Unmoved
<1>6. QED
  BY <1>3, <1>4, <1>5

\* Only PUT invalidate_at changes how long a notification is valid.
LEMMA ValidityStays ==
  ASSUME TypeOK, RequestsFit, [Next]_vars, NEW i \in DOMAIN notifications,
         \A r \in Requests : request[r].op # "invalidate"
  PROVE  /\ i \in DOMAIN notifications' /\ clock <= clock'
         /\ notifications'[i].invalidate_at = notifications[i].invalidate_at
<1> DEFINE Goal == /\ i \in DOMAIN notifications'
                   /\ notifications'[i].invalidate_at = notifications[i].invalidate_at
<1>1. notifications[i] \in Document /\ clock \in Nat
  BY DEF TypeOK
<1>2. UNCHANGED notifications => Goal
  OBVIOUS
<1>3. ASSUME NEW j, NEW d, Write(j, d), j = i => d.invalidate_at = notifications[i].invalidate_at
      PROVE  Goal
  BY <1>3 DEF Write
<1>4. ASSUME NEW u
      PROVE  /\ PushConfirmation(notifications[i], u).invalidate_at
                  = notifications[i].invalidate_at
             /\ SetDeleted(notifications[i], u).invalidate_at = notifications[i].invalidate_at
             /\ \A b : SetSeen(notifications[i], u, b).invalidate_at
                         = notifications[i].invalidate_at
  BY <1>1 DEF PushConfirmation, SetDeleted, SetSeen, Document
<1>5. ASSUME NEW r \in Requests, Advance(r)
      PROVE  Goal
  <2>1. CASE Insert(r)
    BY <2>1 DEF Insert
  <2>2. ASSUME NEW k \in Ids, InsertManyConfirmations(r, k)
        PROVE  Goal
    BY <1>3, <1>4, <2>2 DEF InsertManyConfirmations
  <2>3. CASE UpdateConfirmationSeen(r)
    BY <1>2, <1>3, <1>4, <2>3 DEF UpdateConfirmationSeen
  <2>4. CASE Delete(r)
    BY <1>2, <1>3, <1>4, <2>4 DEF Delete
  <2>5. CASE InsertConfirmation(r)
    BY <1>2, <1>3, <1>4, <2>5 DEF InsertConfirmation
  <2>6. QED
    BY <1>2, <1>5, <2>1, <2>2, <2>3, <2>4, <2>5
       DEF Advance, InsertRejected, SendNew, FindUndelivered, RespondUndelivered, SendUpdated,
           SendDeleted, UpdateInvalidateAt, At, Cut
<1>6. Goal
  BY <1>2, <1>5, ArrivedFresh DEF Next, Tick, vars
<1>7. clock <= clock'
  <2>1. CASE Tick
    BY <1>1, <2>1 DEF Tick
  <2>2. CASE ~Tick
    <3>1. clock' = clock
      BY <2>2, OthersStay DEF Next, vars
    <3>2. QED
      BY <1>1, <3>1
  <2>3. QED
    BY <2>1, <2>2
<1>8. QED
  BY <1>6, <1>7

-----------------------------------------------------------------------------
(* Of requests that can succeed once, one does *)

\* A POST and a DELETE that have succeeded, before and after they announce it.
Posted(r)  == request[r].op = "save"   /\ request[r].pc \in {"announce", "ok"}
Removed(r) == request[r].op = "delete" /\ request[r].pc \in {"announce", "ok"}

\* What succeeded is in the collection, where the next request runs into it.
SuccessStored(r) ==
  LET q == request[r] IN
  /\ Posted(r) => /\ q.id \in DOMAIN notifications
                  /\ notifications[q.id].producer_id = q.caller
                  /\ notifications[q.id].producer_notification_id = q.pnid
  /\ Removed(r) => /\ Confirmed(notifications[q.id], q.caller)
                   /\ Live(notifications[q.id], q.caller) = {}

SuccessesStored == \A r \in Requests : SuccessStored(r)

\* The unique index, and one successful POST for each of its keys.
UniqueKeys ==
  \A i, j \in DOMAIN notifications :
    /\ notifications[i].producer_id = notifications[j].producer_id
    /\ notifications[i].producer_notification_id
         = notifications[j].producer_notification_id
    => i = j

OnePost ==
  \A r, q \in Requests :
    /\ Posted(r) /\ Posted(q)
    /\ request[r].caller = request[q].caller /\ request[r].pnid = request[q].pnid
    => r = q

LEMMA InsertGives ==
  ASSUME TypeOK, NEW r \in Requests, Insert(r)
  PROVE  /\ ~UniqueViolation(notifications, request[r].caller, request[r].pnid)
         /\ \E i \in Ids \ DOMAIN notifications :
              /\ DOMAIN notifications' = DOMAIN notifications \cup {i}
              /\ notifications'[i].producer_id = request[r].caller
              /\ notifications'[i].producer_notification_id = request[r].pnid
              /\ \A j \in DOMAIN notifications : notifications'[j] = notifications[j]
              /\ request'[r].id = i /\ request'[r].pc = "announce"
<1>1. PICK i \in Ids \ DOMAIN notifications :
        /\ notifications' =
             [j \in DOMAIN notifications \cup {i} |->
                IF j = i
                THEN Inserted(request[r].caller, request[r].pnid, request[r].now,
                              request[r].invalidate_at, request[r].user_ids)
                ELSE notifications[j]]
        /\ request' = [request EXCEPT ![r] = [@ EXCEPT !.pc = "announce", !.id = i]]
  BY DEF Insert
<1>2. request[r] \in Request /\ DOMAIN request = Requests
  BY DEF TypeOK
<1>3. request'[r].id = i /\ request'[r].pc = "announce"
  BY <1>1, <1>2 DEF Request
<1>4. /\ DOMAIN notifications' = DOMAIN notifications \cup {i}
      /\ notifications'[i].producer_id = request[r].caller
      /\ notifications'[i].producer_notification_id = request[r].pnid
      /\ \A j \in DOMAIN notifications : notifications'[j] = notifications[j]
  BY <1>1 DEF Inserted
<1>5. QED
  BY <1>3, <1>4 DEF Insert

\* A POST succeeds by an insert, a DELETE by a modification, and by nothing else.
LEMMA Succeeding ==
  ASSUME TypeOK, NEW r \in Requests, Advance(r)
  PROVE  /\ Posted(r)' => Posted(r) \/ Insert(r)
         /\ Removed(r)' =>
              \/ Removed(r)
              \/ /\ DeleteModifies(notifications[request[r].id], request[r].caller)
                 /\ request'[r].pc = "announce"
<1>1. /\ request[r] \in Request /\ DOMAIN request = Requests
      /\ request'[r].op = request[r].op
  BY ArgumentsStay DEF TypeOK
<1>2. \A pc : Goto(r, pc) => request'[r].pc = pc
  BY <1>1 DEF Goto, Request
<1>3. ASSUME Posted(r)', ~Insert(r)
      PROVE  Posted(r)
  BY <1>1, <1>2, <1>3
     DEF Posted, Advance, At, InsertRejected, SendNew, FindUndelivered, RespondUndelivered,
         InsertManyConfirmations, UpdateConfirmationSeen, SendUpdated, Delete, SendDeleted,
         UpdateInvalidateAt, InsertConfirmation, Cut
<1>4. ASSUME Removed(r)', ~Removed(r)
      PROVE  /\ DeleteModifies(notifications[request[r].id], request[r].caller)
             /\ request'[r].pc = "announce"
  <2>1. Delete(r)
    BY <1>1, <1>2, <1>4
       DEF Removed, Advance, At, Insert, InsertRejected, SendNew, FindUndelivered,
           RespondUndelivered, InsertManyConfirmations, UpdateConfirmationSeen, SendUpdated,
           SendDeleted, UpdateInvalidateAt, InsertConfirmation, Cut
  <2>2. QED
    BY <1>2, <1>4, <2>1 DEF Delete, Removed
<1>5. QED
  BY <1>3, <1>4

LEMMA StepSuccessesStored ==
  ASSUME TypeOK, RequestsFit, OneConfirmation, SuccessesStored, [Next]_vars
  PROVE  SuccessesStored'
<1> SUFFICES ASSUME NEW r \in Requests PROVE SuccessStored(r)'
  BY DEF SuccessesStored
<1> DEFINE i == request[r].id
           u == request[r].caller
<1>1. RequestFits(r) /\ SuccessStored(r)
  BY DEF RequestsFit, SuccessesStored
\* What is stored stays, for a request that keeps its arguments.
<1>2. ASSUME Posted(r), request'[r].id = i, request'[r].caller = u,
             request'[r].pnid = request[r].pnid
      PROVE  /\ request'[r].id \in DOMAIN notifications'
             /\ notifications'[request'[r].id].producer_id = request'[r].caller
             /\ notifications'[request'[r].id].producer_notification_id = request'[r].pnid
  <2>1. i \in DOMAIN notifications
    BY <1>1, <1>2 DEF SuccessStored
  <2>2. PICK v \in Users : TRUE
    BY ConstantsAssumption
  <2>3. i \in DOMAIN notifications' /\ Kept(notifications[i], notifications'[i])
    BY <2>1, <2>2, FactsStable
  <2>4. QED
    BY <1>1, <1>2, <2>3 DEF SuccessStored, Kept
<1>3. ASSUME Removed(r), request'[r].id = i, request'[r].caller = u
      PROVE  /\ Confirmed(notifications'[request'[r].id], request'[r].caller)
             /\ Live(notifications'[request'[r].id], request'[r].caller) = {}
  <2>1. i \in DOMAIN notifications /\ u \in Users
    BY <1>1, <1>3 DEF RequestFits, Removed
  <2>2. Confirmed(notifications[i], u) /\ Live(notifications[i], u) = {}
    BY <1>1, <1>3 DEF SuccessStored
  <2>3. Confirmed(notifications'[i], u) /\ Live(notifications'[i], u) = {}
    BY <2>1, <2>2, FactsStable
  <2>4. QED
    BY <1>3, <2>3
<1>4. CASE ~ArriveAny(r) /\ ~Advance(r)
  <2>1. request'[r] = request[r]
    BY <1>4, Unmoved
  <2>2. QED
    BY <1>2, <1>3, <2>1 DEF SuccessStored, Posted, Removed
<1>5. CASE ArriveAny(r)
  BY <1>5, ArrivedFresh DEF SuccessStored, Posted, Removed
<1>6. CASE Advance(r)
  <2>1. /\ request'[r].caller = u /\ request'[r].pnid = request[r].pnid
        /\ Insert(r) \/ request'[r].id = i
        /\ request'[r].op = request[r].op
    BY <1>6, ArgumentsStay
  <2>2. CASE Insert(r)
    <3>1. request[r].op = "save"
      BY <2>2 DEF Insert, At
    <3>2. QED
      BY <2>1, <2>2, <3>1, InsertGives DEF SuccessStored, Removed
  <2>3. CASE ~Insert(r)
    <3>1. Posted(r)' => Posted(r)
      BY <1>6, <2>3, Succeeding
    <3>2. ASSUME Removed(r)', ~Removed(r)
          PROVE  /\ Confirmed(notifications'[request'[r].id], request'[r].caller)
                 /\ Live(notifications'[request'[r].id], request'[r].caller) = {}
      <4>1. At(r, "delete", "announce")'
        BY <1>6, <3>2, Succeeding DEF At, Removed
      <4>2. QED
        BY <1>6, <4>1, AnnouncementPrepared DEF AnnouncementFits
    <3>3. QED
      BY <1>2, <1>3, <2>1, <2>3, <3>1, <3>2 DEF SuccessStored
  <2>4. QED
    BY <2>2, <2>3
<1>7. QED
  BY <1>4, <1>5, <1>6

LEMMA StepUniqueKeys ==
  ASSUME TypeOK, RequestsFit, OneConfirmation, UniqueKeys, [Next]_vars
  PROVE  UniqueKeys'
<1> SUFFICES ASSUME NEW i \in DOMAIN notifications', NEW j \in DOMAIN notifications',
                    notifications'[i].producer_id = notifications'[j].producer_id,
                    notifications'[i].producer_notification_id
                      = notifications'[j].producer_notification_id
             PROVE  i = j
  BY DEF UniqueKeys
<1>1. CASE i \in DOMAIN notifications /\ j \in DOMAIN notifications
  <2>1. PICK v \in Users : TRUE
    BY ConstantsAssumption
  <2>2. Kept(notifications[i], notifications'[i]) /\ Kept(notifications[j], notifications'[j])
    BY <1>1, <2>1, FactsStable
  <2>3. QED
    BY <1>1, <2>2 DEF UniqueKeys, Kept
<1>2. CASE i \notin DOMAIN notifications \/ j \notin DOMAIN notifications
  <2>1. PICK r \in Requests : Insert(r)
    BY <1>2, OnlyInsertAdds
  <2>2. PICK k \in Ids \ DOMAIN notifications :
          /\ DOMAIN notifications' = DOMAIN notifications \cup {k}
          /\ notifications'[k].producer_id = request[r].caller
          /\ notifications'[k].producer_notification_id = request[r].pnid
          /\ \A l \in DOMAIN notifications : notifications'[l] = notifications[l]
    BY <2>1, InsertGives
  <2>3. ~UniqueViolation(notifications, request[r].caller, request[r].pnid)
    BY <2>1, InsertGives
  <2>4. QED
    BY <1>2, <2>2, <2>3 DEF UniqueViolation
<1>3. QED
  BY <1>1, <1>2

\* A request that succeeds now is not in the way of one that succeeded before.
LEMMA NoSecondSuccess ==
  ASSUME TypeOK, RequestsFit, OneConfirmation, SuccessesStored, OnePost, OneDeletion,
         [Next]_vars, NEW r \in Requests, NEW q \in Requests \ {r}, Advance(r),
         request'[r].caller = request'[q].caller
  PROVE  /\ Posted(r)' /\ Posted(q)' => request'[r].pnid # request'[q].pnid
         /\ Removed(r)' /\ Removed(q)' => request'[r].id # request'[q].id
<1>1. request'[q] = request[q]
  BY OthersStay
<1>2. /\ request'[r].op = request[r].op /\ request'[r].caller = request[r].caller
      /\ request'[r].pnid = request[r].pnid
      /\ Insert(r) \/ request'[r].id = request[r].id
  BY ArgumentsStay
<1>3. SuccessStored(q) /\ RequestFits(q) /\ RequestFits(r)
  BY DEF SuccessesStored, RequestsFit
<1>4. ASSUME Posted(r)', Posted(q)', request'[r].pnid = request'[q].pnid
      PROVE  FALSE
  <2>1. Posted(q)
    BY <1>1, <1>4 DEF Posted
  <2>2. ~Posted(r)
    BY <1>1, <1>2, <1>4, <2>1 DEF OnePost
  <2>3. Insert(r)
    BY <1>4, <2>2, Succeeding
  <2>4. ~UniqueViolation(notifications, request[r].caller, request[r].pnid)
    BY <2>3 DEF Insert
  <2>5. QED
    BY <1>1, <1>2, <1>3, <1>4, <2>1, <2>4 DEF SuccessStored, UniqueViolation
<1>5. ASSUME Removed(r)', Removed(q)', request'[r].id = request'[q].id
      PROVE  FALSE
  <2> DEFINE i == request[q].id
             u == request[q].caller
  <2>1. Removed(q) /\ request[r].op = "delete"
    BY <1>1, <1>2, <1>5 DEF Removed
  <2>2. request[r].id = i /\ request[r].caller = u
    BY <1>1, <1>2, <1>5, <2>1 DEF Insert, At
  <2>3. ~Removed(r)
    BY <2>1, <2>2 DEF OneDeletion, Removed
  <2>4. DeleteModifies(notifications[i], u)
    BY <1>5, <2>2, <2>3, Succeeding
  <2>5. i \in DOMAIN notifications /\ u \in Users
    BY <1>3, <2>1 DEF RequestFits, Removed
  <2>6. notifications[i] \in Document /\ Single(notifications[i])
    BY <2>5 DEF TypeOK, OneConfirmation, Single
  <2>7. Live(notifications[i], u) = {}
    BY <1>3, <2>1 DEF SuccessStored
  <2>8. DOMAIN notifications[i].confirmations[u] = {1}
    BY <2>4, <2>5, <2>6, SingleEntry DEF DeleteModifies
  <2>9. QED
    BY <2>4, <2>7, <2>8 DEF Live, DeleteModifies
<1>6. QED
  BY <1>4, <1>5

LEMMA StepOneSucceeds ==
  ASSUME TypeOK, RequestsFit, OneConfirmation, SuccessesStored, OnePost, OneDeletion,
         [Next]_vars
  PROVE  OnePost' /\ OneDeletion'
<1> SUFFICES ASSUME NEW r \in Requests, NEW q \in Requests \ {r},
                    request'[r].caller = request'[q].caller
             PROVE  /\ Posted(r)' /\ Posted(q)' => request'[r].pnid # request'[q].pnid
                    /\ Removed(r)' /\ Removed(q)' => request'[r].id # request'[q].id
  BY DEF OnePost, OneDeletion, Removed
<1>1. CASE Advance(r)
  BY <1>1, NoSecondSuccess
<1>2. CASE Advance(q)
  BY <1>2, NoSecondSuccess
<1>3. CASE ArriveAny(r) \/ ArriveAny(q)
  BY <1>3, ArrivedFresh DEF Posted, Removed
<1>4. CASE ~ArriveAny(r) /\ ~Advance(r) /\ ~ArriveAny(q) /\ ~Advance(q)
  <2>1. request'[r] = request[r] /\ request'[q] = request[q]
    BY <1>4, Unmoved
  <2>2. QED
    BY <2>1 DEF OnePost, OneDeletion, Posted, Removed
<1>5. QED
  BY <1>1, <1>2, <1>3, <1>4

\* However retried and concurrent POSTs and DELETEs interleave, the unique
\* index and the filter of the update let one of them succeed: one document,
\* one 200 and one NEW, one 204 and one DELETED.
THEOREM SucceedsOnce == Spec => []OneSucceeds
<1> DEFINE Inv == /\ TypeOK /\ RequestsFit /\ OneConfirmation
                  /\ SuccessesStored /\ UniqueKeys /\ OnePost /\ OneDeletion
<1>1. Init => Inv
  <2>1. Init => SuccessesStored /\ OnePost /\ OneDeletion
    BY DEF Init, SuccessesStored, SuccessStored, OnePost, OneDeletion, Posted, Removed,
           NewRequest
  <2>2. Init => UniqueKeys
    BY DEF Init, UniqueKeys
  <2>3. QED
    BY <2>1, <2>2, InitTypes, InitOneConfirmation
<1>2. Inv /\ [Next]_vars => Inv'
  <2> SUFFICES ASSUME Inv, [Next]_vars PROVE Inv'
    OBVIOUS
  <2>1. (TypeOK /\ RequestsFit)' /\ OneConfirmation'
    BY StepTypes, StepOneConfirmation
  <2>2. SuccessesStored' /\ UniqueKeys' /\ OnePost' /\ OneDeletion'
    BY StepSuccessesStored, StepUniqueKeys, StepOneSucceeds
  <2>3. QED
    BY <2>1, <2>2
<1>3. Inv => OneSucceeds
  BY DEF OneSucceeds, OneDocumentPerPost, UniqueKeys, OnePost, Posted, At
<1>4. QED
  BY <1>1, <1>2, <1>3, PTL DEF Spec

-----------------------------------------------------------------------------
(* What changed is announced *)

\* A flag that is set was announced, or the request that set it has yet to
\* announce it or was cut before it did.
SeenTold(i, u) ==
  \/ \E m \in published : /\ m.status = "UPDATED" /\ m.id = i
                          /\ m.user_ids = {u} /\ m.seen
  \/ \E r \in Requests : CutOrAnnouncing(r, "seen", i, u) /\ request[r].seen

DeletedTold(i, u) ==
  \/ \E m \in published : m.status = "DELETED" /\ m.id = i /\ m.user_ids = {u}
  \/ \E r \in Requests : CutOrAnnouncing(r, "delete", i, u)

LEMMA PublishedStays ==
  ASSUME [Next]_vars
  PROVE  published \subseteq published'
BY DEF Next, Tick, vars, ArriveAny, Arrive, PostUndelivered, GetUndelivered, PutSeen,
      DeleteDelivered, PutInvalidateAt, ConsumeConfirmation, Advance, Insert, SendNew,
      InsertRejected, FindUndelivered, RespondUndelivered, InsertManyConfirmations,
      UpdateConfirmationSeen, SendUpdated, Delete, SendDeleted, UpdateInvalidateAt,
      InsertConfirmation, Cut

\* A request at its announcement makes it or is cut; one that was cut is over.
LEMMA Announcing ==
  ASSUME TypeOK, [Next]_vars, NEW r \in Requests, NEW op \in {"seen", "delete"},
         NEW i \in Ids, NEW u \in Users, CutOrAnnouncing(r, op, i, u)
  PROVE  \/ CutOrAnnouncing(r, op, i, u)' /\ request'[r].seen = request[r].seen
         \/ SendUpdated(r) /\ op = "seen"
         \/ SendDeleted(r) /\ op = "delete"
<1>1. CASE ~ArriveAny(r) /\ ~Advance(r)
  BY <1>1, Unmoved DEF CutOrAnnouncing
<1>2. ~ArriveAny(r)
  BY DEF CutOrAnnouncing, ArriveAny, Arrive, PostUndelivered, GetUndelivered, PutSeen,
         DeleteDelivered, PutInvalidateAt, ConsumeConfirmation
<1>3. CASE Advance(r)
  <2>1. /\ request'[r].op = request[r].op /\ request'[r].caller = request[r].caller
        /\ request'[r].seen = request[r].seen
        /\ Insert(r) \/ request'[r].id = request[r].id
        /\ request[r].pc = "announce"
    BY <1>3, ArgumentsStay DEF CutOrAnnouncing
  <2>2. CASE Cut(r)
    <3>1. request'[r].pc = "failed"
      BY <2>2 DEF Cut, Goto, TypeOK, Request
    <3>2. ~Insert(r)
      BY <2>1 DEF Insert, At
    <3>3. QED
      BY <2>1, <3>1, <3>2 DEF CutOrAnnouncing
  <2>3. CASE ~Cut(r)
    BY <1>3, <2>1, <2>3
       DEF CutOrAnnouncing, Advance, At, Insert, InsertRejected, SendNew, FindUndelivered,
           RespondUndelivered, InsertManyConfirmations, UpdateConfirmationSeen, SendUpdated,
           Delete, SendDeleted, UpdateInvalidateAt, InsertConfirmation
  <2>4. QED
    BY <2>2, <2>3
<1>4. QED
  BY <1>1, <1>2, <1>3

LEMMA ToldStays ==
  ASSUME TypeOK, [Next]_vars, NEW i \in Ids, NEW u \in Users
  PROVE  /\ SeenTold(i, u) => SeenTold(i, u)'
         /\ DeletedTold(i, u) => DeletedTold(i, u)'
<1>1. published \subseteq published'
  BY PublishedStays
<1>2. ASSUME NEW r \in Requests, CutOrAnnouncing(r, "seen", i, u), request[r].seen
      PROVE  SeenTold(i, u)'
  <2>1. CASE CutOrAnnouncing(r, "seen", i, u)' /\ request'[r].seen = request[r].seen
    BY <1>2, <2>1 DEF SeenTold
  <2>2. CASE SendUpdated(r)
    <3> DEFINE m == [status |-> "UPDATED", id |-> request[r].id,
                     user_ids |-> {request[r].caller}, seen |-> request[r].seen,
                     timestamp |-> clock]
    <3>1. m \in published'
      BY <2>2 DEF SendUpdated
    <3>2. m.status = "UPDATED" /\ m.id = i /\ m.user_ids = {u} /\ m.seen
      BY <1>2 DEF CutOrAnnouncing
    <3> HIDE DEF m
    <3>3. QED
      BY <3>1, <3>2 DEF SeenTold
  <2>3. QED
    BY <1>2, <2>1, <2>2, Announcing
<1>3. ASSUME NEW r \in Requests, CutOrAnnouncing(r, "delete", i, u)
      PROVE  DeletedTold(i, u)'
  <2>1. CASE CutOrAnnouncing(r, "delete", i, u)'
    BY <2>1 DEF DeletedTold
  <2>2. CASE SendDeleted(r)
    <3> DEFINE m == [status |-> "DELETED", id |-> request[r].id,
                     user_ids |-> {request[r].caller}, seen |-> None, timestamp |-> clock]
    <3>1. m \in published'
      BY <2>2 DEF SendDeleted
    <3>2. m.status = "DELETED" /\ m.id = i /\ m.user_ids = {u}
      BY <1>3 DEF CutOrAnnouncing
    <3> HIDE DEF m
    <3>3. QED
      BY <3>1, <3>2 DEF DeletedTold
  <2>3. QED
    BY <1>3, <2>1, <2>2, Announcing
<1>4. SeenTold(i, u) => SeenTold(i, u)'
  BY <1>1, <1>2 DEF SeenTold
<1>5. DeletedTold(i, u) => DeletedTold(i, u)'
  BY <1>1, <1>3 DEF DeletedTold
<1>6. QED
  BY <1>4, <1>5

\* The flags of an entry were there before, or the request that set them is
\* about to announce them.
FlagsExplained(i, u) ==
  \A k \in DOMAIN notifications'[i].confirmations[u] :
    LET entry == notifications'[i].confirmations[u][k]
        old   == notifications[i].confirmations[u]
    IN /\ entry.seen =>
            \/ \E l \in DOMAIN old : old[l].seen
            \/ \E r \in Requests : CutOrAnnouncing(r, "seen", i, u)' /\ request'[r].seen
       /\ entry.deleted =>
            \/ \E l \in DOMAIN old : old[l].deleted
            \/ \E r \in Requests : CutOrAnnouncing(r, "delete", i, u)'

LEMMA FlagsSet ==
  ASSUME TypeOK, RequestsFit, OneConfirmation, [Next]_vars,
         NEW i \in DOMAIN notifications, NEW u \in Users
  PROVE  FlagsExplained(i, u)
<1> DEFINE d == notifications[i]
           e == notifications'[i]
<1>1. d \in Document /\ Single(d)
  BY DEF TypeOK, OneConfirmation, Single
\* Whatever leaves the entries of u alone.
<1>2. ASSUME e.confirmations[u] = d.confirmations[u]
      PROVE  FlagsExplained(i, u)
  BY <1>2 DEF FlagsExplained
<1>3. ASSUME NEW j \in DOMAIN notifications, NEW f, Write(j, f),
             i = j => f.confirmations[u] = d.confirmations[u]
      PROVE  FlagsExplained(i, u)
  <2>1. e.confirmations[u] = d.confirmations[u]
    BY <1>3 DEF Write, TypeOK
  <2>2. QED
    BY <1>2, <2>1
<1>4. \A x : DOMAIN <<x>> = {1} /\ <<x>>[1] = x
  OBVIOUS
<1>5. CASE UNCHANGED notifications \/ InsertStep
  BY <1>2, <1>5 DEF InsertStep
<1>6. ASSUME NEW r \in Requests, NEW j \in Ids, NEW v \in Users, PushStep(r, j, v)
      PROVE  FlagsExplained(i, u)
  <2> DEFINE f == PushConfirmation(notifications[j], v)
  <2>1. PICK now \in Nat : AcceptsConfirmation(notifications[j], v, now)
    BY <1>6 DEF PushStep
  <2>2. j \in DOMAIN notifications /\ Write(j, f)
    BY <1>6 DEF PushStep
  <2>3. notifications[j] \in Document
    BY <2>2 DEF TypeOK
  <2>4. /\ f.confirmations[v] = <<Fresh>>
        /\ \A w \in Users \ {v} : f.confirmations[w] = notifications[j].confirmations[w]
    BY <2>1, <2>3, PushEffect
  <2> HIDE DEF f
  <2>5. CASE i = j /\ u = v
    <3>1. e.confirmations[u] = <<Fresh>>
      BY <2>2, <2>4, <2>5 DEF Write, TypeOK
    <3>2. ~Fresh.seen /\ ~Fresh.deleted
      BY DEF Fresh
    <3>3. QED
      BY <1>4, <3>1, <3>2 DEF FlagsExplained
  <2>6. CASE ~(i = j /\ u = v)
    BY <1>3, <2>2, <2>4, <2>6
  <2>7. QED
    BY <2>5, <2>6
<1>7. CASE SeenStep
  <2>1. PICK r \in Requests, j \in DOMAIN notifications, v \in Users, b \in BOOLEAN :
          /\ Live(notifications[j], v) # {}
          /\ Write(j, SetSeen(notifications[j], v, b))
          /\ CutOrAnnouncing(r, "seen", j, v)' /\ request'[r].seen = b
    BY <1>7 DEF SeenStep
  <2> DEFINE f == SetSeen(notifications[j], v, b)
  <2>2. notifications[j] \in Document /\ Single(notifications[j])
    BY DEF TypeOK, OneConfirmation, Single
  <2>3. /\ f.confirmations[v] = <<[seen |-> b, deleted |-> FALSE]>>
        /\ \A w \in Users \ {v} : f.confirmations[w] = notifications[j].confirmations[w]
    BY <2>1, <2>2, SeenEffect
  <2>4. Write(j, f)
    BY <2>1
  <2> HIDE DEF f
  <2>5. CASE i = j /\ u = v
    <3> DEFINE x == [seen |-> b, deleted |-> FALSE]
    <3>1. e.confirmations[u] = <<x>>
      BY <2>3, <2>4, <2>5 DEF Write, TypeOK
    <3>2. x.seen = b /\ x.deleted = FALSE
      OBVIOUS
    <3> HIDE DEF x
    <3>3. DOMAIN e.confirmations[u] = {1} /\ e.confirmations[u][1] = x
      BY <1>4, <3>1
    <3>4. CutOrAnnouncing(r, "seen", i, u)' /\ request'[r].seen = b
      BY <2>1, <2>5
    <3>5. QED
      BY <3>2, <3>3, <3>4 DEF FlagsExplained
  <2>6. CASE ~(i = j /\ u = v)
    BY <1>3, <2>3, <2>4, <2>6
  <2>7. QED
    BY <2>5, <2>6
<1>8. CASE DeletedStep
  <2>1. PICK r \in Requests, j \in DOMAIN notifications, v \in Users :
          /\ DeleteModifies(notifications[j], v)
          /\ Write(j, SetDeleted(notifications[j], v))
          /\ CutOrAnnouncing(r, "delete", j, v)'
    BY <1>8 DEF DeletedStep
  <2> DEFINE f == SetDeleted(notifications[j], v)
             x == [seen |-> notifications[j].confirmations[v][1].seen, deleted |-> TRUE]
  <2>2. notifications[j] \in Document /\ Single(notifications[j])
    BY DEF TypeOK, OneConfirmation, Single
  <2>3. /\ Confirmed(notifications[j], v) /\ f.confirmations[v] = <<x>>
        /\ \A w \in Users \ {v} : f.confirmations[w] = notifications[j].confirmations[w]
    BY <2>1, <2>2, DeletedEffect
  <2>4. Write(j, f)
    BY <2>1
  <2> HIDE DEF f
  <2>5. CASE i = j /\ u = v
    <3>1. x.seen = d.confirmations[u][1].seen
      BY <2>5
    <3> HIDE DEF x
    <3>2. e.confirmations[u] = <<x>>
      BY <2>3, <2>4, <2>5 DEF Write, TypeOK
    <3>3. DOMAIN e.confirmations[u] = {1} /\ e.confirmations[u][1] = x
      BY <1>4, <3>2
    <3>4. 1 \in DOMAIN d.confirmations[u]
      BY <1>1, <2>3, <2>5, SingleEntry
    <3>5. CutOrAnnouncing(r, "delete", i, u)'
      BY <2>1, <2>5
    <3>6. QED
      BY <3>1, <3>3, <3>4, <3>5 DEF FlagsExplained
  <2>6. CASE ~(i = j /\ u = v)
    BY <1>3, <2>3, <2>4, <2>6
  <2>7. QED
    BY <2>5, <2>6
<1>9. CASE InvalidateAtStep
  <2>1. PICK j \in DOMAIN notifications, at \in Option(Nat) :
          Write(j, SetInvalidateAt(notifications[j], at))
    BY <1>9 DEF InvalidateAtStep
  <2>2. notifications[j] \in Document
    BY DEF TypeOK
  <2>3. SetInvalidateAt(notifications[j], at).confirmations = notifications[j].confirmations
    BY <2>2, InvalidateAtEffect
  <2>4. QED
    BY <1>3, <2>1, <2>3
<1>10. QED
  BY <1>5, <1>6, <1>7, <1>8, <1>9, CollectionSteps DEF CollectionStep

LEMMA StepChangesAnnounced ==
  ASSUME TypeOK, RequestsFit, OneConfirmation, ChangesAnnounced, [Next]_vars
  PROVE  ChangesAnnounced'
<1> SUFFICES ASSUME NEW i \in DOMAIN notifications', NEW u \in Users,
                    NEW k \in DOMAIN notifications'[i].confirmations[u]
             PROVE  /\ notifications'[i].confirmations[u][k].seen => SeenTold(i, u)'
                    /\ notifications'[i].confirmations[u][k].deleted => DeletedTold(i, u)'
  BY DEF ChangesAnnounced, SeenTold, DeletedTold
<1>1. CASE i \notin DOMAIN notifications
  <2>1. notifications'[i].confirmations[u] = << >>
    BY <1>1, NewDocument
  <2>2. DOMAIN << >> = {}
    OBVIOUS
  <2>3. QED
    BY <2>1, <2>2
<1>2. CASE i \in DOMAIN notifications
  <2> DEFINE old == notifications[i].confirmations[u]
  <2>1. i \in Ids
    BY <1>2 DEF TypeOK
  <2>2. /\ (\E l \in DOMAIN old : old[l].seen) => SeenTold(i, u)
        /\ (\E l \in DOMAIN old : old[l].deleted) => DeletedTold(i, u)
    BY <1>2 DEF ChangesAnnounced, SeenTold, DeletedTold
  <2>3. FlagsExplained(i, u)
    BY <1>2, FlagsSet
  <2>4. /\ notifications'[i].confirmations[u][k].seen =>
             SeenTold(i, u)
             \/ \E r \in Requests : CutOrAnnouncing(r, "seen", i, u)' /\ request'[r].seen
        /\ notifications'[i].confirmations[u][k].deleted =>
             DeletedTold(i, u) \/ \E r \in Requests : CutOrAnnouncing(r, "delete", i, u)'
    BY <2>2, <2>3 DEF FlagsExplained
  <2>5. (\E r \in Requests : CutOrAnnouncing(r, "seen", i, u)' /\ request'[r].seen)
           => SeenTold(i, u)'
    BY DEF SeenTold
  <2>6. (\E r \in Requests : CutOrAnnouncing(r, "delete", i, u)') => DeletedTold(i, u)'
    BY DEF DeletedTold
  <2>7. /\ SeenTold(i, u) => SeenTold(i, u)'
        /\ DeletedTold(i, u) => DeletedTold(i, u)'
    BY <2>1, ToldStays
  <2>8. QED
    BY <2>4, <2>5, <2>6, <2>7
<1>3. QED
  BY <1>1, <1>2

\* No seen flag and no deletion stays silent, except for a request cut between
\* its update and its announcement: that is the only way to lose one.
THEOREM NoChangeSilent == Spec => []ChangesAnnounced
<1> DEFINE Inv == TypeOK /\ RequestsFit /\ OneConfirmation /\ ChangesAnnounced
<1>1. Init => Inv
  <2>1. Init => ChangesAnnounced
    BY DEF Init, ChangesAnnounced
  <2>2. QED
    BY <2>1, InitTypes, InitOneConfirmation
<1>2. Inv /\ [Next]_vars => Inv'
  BY StepTypes, StepOneConfirmation, StepChangesAnnounced
<1>3. QED
  BY <1>1, <1>2, PTL DEF Spec

-----------------------------------------------------------------------------
(* The service implements NotificationLifecycle *)

\* A step writes the entry of at most one user in one document.
LEMMA OneEntryWritten ==
  ASSUME TypeOK, RequestsFit, OneConfirmation, [Next]_vars
  PROVE  \E x : \A i \in DOMAIN notifications, u \in Users :
           <<i, u>> # x =>
             notifications'[i].confirmations[u] = notifications[i].confirmations[u]
<1> DEFINE Only(x) == \A i \in DOMAIN notifications, u \in Users :
             <<i, u>> # x =>
               notifications'[i].confirmations[u] = notifications[i].confirmations[u]
<1>0. \A i \in DOMAIN notifications : notifications[i] \in Document /\ Single(notifications[i])
  BY DEF TypeOK, OneConfirmation, Single
<1>1. ASSUME NEW j \in DOMAIN notifications, NEW f, Write(j, f), NEW v \in Users,
             \A u \in Users \ {v} : f.confirmations[u] = notifications[j].confirmations[u]
      PROVE  Only(<<j, v>>)
  BY <1>1 DEF Write, TypeOK
<1>2. CASE UNCHANGED notifications \/ InsertStep
  <2>1. Only(<< >>)
    BY <1>2 DEF InsertStep
  <2>2. QED
    BY <2>1
<1>3. ASSUME NEW r \in Requests, NEW j \in Ids, NEW v \in Users, PushStep(r, j, v)
      PROVE  \E x : Only(x)
  <2>1. PICK now \in Nat : AcceptsConfirmation(notifications[j], v, now)
    BY <1>3 DEF PushStep
  <2>2. j \in DOMAIN notifications /\ Write(j, PushConfirmation(notifications[j], v))
    BY <1>3 DEF PushStep
  <2>3. \A u \in Users \ {v} : PushConfirmation(notifications[j], v).confirmations[u]
                               = notifications[j].confirmations[u]
    BY <1>0, <2>1, <2>2, PushEffect
  <2>4. Only(<<j, v>>)
    BY <1>1, <2>2, <2>3
  <2>5. QED
    BY <2>4
<1>4. CASE SeenStep
  <2>1. PICK j \in DOMAIN notifications, v \in Users, b \in BOOLEAN :
          /\ Live(notifications[j], v) # {}
          /\ Write(j, SetSeen(notifications[j], v, b))
    BY <1>4 DEF SeenStep
  <2>2. \A u \in Users \ {v} : SetSeen(notifications[j], v, b).confirmations[u]
                               = notifications[j].confirmations[u]
    BY <1>0, <2>1, SeenEffect
  <2>3. Only(<<j, v>>)
    BY <1>1, <2>1, <2>2
  <2>4. QED
    BY <2>3
<1>5. CASE DeletedStep
  <2>1. PICK j \in DOMAIN notifications, v \in Users :
          /\ DeleteModifies(notifications[j], v)
          /\ Write(j, SetDeleted(notifications[j], v))
    BY <1>5 DEF DeletedStep
  <2>2. \A u \in Users \ {v} : SetDeleted(notifications[j], v).confirmations[u]
                               = notifications[j].confirmations[u]
    BY <1>0, <2>1, DeletedEffect
  <2>3. Only(<<j, v>>)
    BY <1>1, <2>1, <2>2
  <2>4. QED
    BY <2>3
<1>6. CASE InvalidateAtStep
  <2>1. PICK j \in DOMAIN notifications, at \in Option(Nat) :
          Write(j, SetInvalidateAt(notifications[j], at))
    BY <1>6 DEF InvalidateAtStep
  <2>2. SetInvalidateAt(notifications[j], at).confirmations = notifications[j].confirmations
    BY <1>0, InvalidateAtEffect
  <2>3. PICK v \in Users : TRUE
    BY ConstantsAssumption
  <2>4. Only(<<j, v>>)
    BY <1>1, <2>1, <2>2
  <2>5. QED
    BY <2>4
<1>7. QED
  BY <1>2, <1>3, <1>4, <1>5, <1>6, CollectionSteps DEF CollectionStep

\* The refinement mapping of Lifecycle.
Stages == [x \in Ids \X Users |-> StageOf(x[1], x[2])]

LEMMA StageSame ==
  ASSUME TypeOK, NEW i \in DOMAIN notifications, i \in DOMAIN notifications',
         NEW u \in Users, Kept(notifications[i], notifications'[i]),
         notifications'[i].confirmations[u] = notifications[i].confirmations[u]
  PROVE  StageOf(i, u)' = StageOf(i, u)
BY DEF StageOf, Kept, Addressed, Confirmed

\* The stage of an entry that is written moves forward.
LEMMA StageMoves ==
  ASSUME TypeOK, OneConfirmation, NEW i \in DOMAIN notifications, i \in DOMAIN notifications',
         NEW u \in Users, Kept(notifications[i], notifications'[i]),
         EntryStep(notifications[i], notifications'[i], u)
  PROVE  \/ StageOf(i, u)' = StageOf(i, u)
         \/ StageOf(i, u) = "undelivered" /\ StageOf(i, u)' = "delivered"
         \/ /\ StageOf(i, u) \in {"delivered", "seen"}
            /\ StageOf(i, u)' \in {"delivered", "seen", "deleted"}
<1> DEFINE d == notifications[i]
           e == notifications'[i]
<1>1. Addressed(d, u) <=> Addressed(e, u)
  BY DEF Kept, Addressed
<1>2. \A x : <<x>> # << >> /\ <<x>>[1] = x
  OBVIOUS
<1>3. CASE e.confirmations[u] = d.confirmations[u]
  BY <1>3, StageSame
<1>4. CASE ~Confirmed(d, u) /\ Addressed(d, u) /\ e.confirmations[u] = <<Fresh>>
  <2>1. Confirmed(e, u) /\ e.confirmations[u][1] = Fresh
    BY <1>2, <1>4 DEF Confirmed
  <2>2. ~Fresh.deleted /\ ~Fresh.seen
    BY DEF Fresh
  <2>3. StageOf(i, u) = "undelivered" /\ StageOf(i, u)' = "delivered"
    BY <1>1, <1>4, <2>1, <2>2 DEF StageOf
  <2>4. QED
    BY <2>3
<1>5. CASE /\ Confirmed(d, u) /\ ~d.confirmations[u][1].deleted
           /\ \E x \in Confirmation : e.confirmations[u] = <<x>>
  <2>1. PICK x \in Confirmation : e.confirmations[u] = <<x>>
    BY <1>5
  <2>2. Confirmed(e, u) /\ e.confirmations[u][1] = x
    BY <1>2, <2>1 DEF Confirmed
  <2>3. CASE Addressed(d, u)
    BY <1>1, <1>5, <2>2, <2>3 DEF StageOf
  <2>4. CASE ~Addressed(d, u)
    BY <1>1, <2>4 DEF StageOf
  <2>5. QED
    BY <2>3, <2>4
<1>6. QED
  BY <1>3, <1>4, <1>5 DEF EntryStep

LEMMA StepLifecycle ==
  ASSUME TypeOK, TypeOK', RequestsFit, OneConfirmation, [Next]_vars
  PROVE  Lifecycle!Next \/ Stages' = Stages
<1>1. \A i \in DOMAIN notifications :
        /\ i \in Ids /\ i \in DOMAIN notifications' /\ Kept(notifications[i], notifications'[i])
        /\ \A u \in Users : EntryStep(notifications[i], notifications'[i], u)
  BY EntrySteps DEF TypeOK
<1>2. CASE InsertStep
  <2>1. PICK i \in Ids \ DOMAIN notifications :
          /\ DOMAIN notifications' = DOMAIN notifications \cup {i}
          /\ notifications'[i].confirmations = [u \in Users |-> << >>]
          /\ \A j \in DOMAIN notifications : notifications'[j] = notifications[j]
    BY <1>2 DEF InsertStep
  <2> DEFINE audience == {u \in Users : Addressed(notifications'[i], u)}
  <2>2. notifications'[i].user_ids \subseteq Users
    BY <2>1 DEF TypeOK, Document
  <2>3. audience \in (SUBSET Users) \ {{}}
    BY <2>2, ConstantsAssumption DEF Addressed
  <2>4. \A u \in Users : StageOf(i, u) = "absent"
    BY <2>1 DEF StageOf
  <2>5. \A u \in Users : StageOf(i, u)' = IF u \in audience THEN "undelivered" ELSE "absent"
    BY <2>1 DEF StageOf, Confirmed
  <2>6. \A j \in Ids \ {i}, u \in Users : StageOf(j, u)' = StageOf(j, u)
    BY <2>1 DEF StageOf
  <2> HIDE DEF audience
  <2>7. Stages' = [x \in Ids \X Users |->
                     IF x[1] = i /\ x[2] \in audience THEN "undelivered" ELSE Stages[x]]
    BY <2>1, <2>4, <2>5, <2>6 DEF Stages
  <2>8. \A u \in Users : Stages[<<i, u>>] = "absent"
    BY <2>1, <2>4 DEF Stages
  <2>9. Lifecycle!Create(i)
    BY <2>3, <2>7, <2>8 DEF Lifecycle!Create, Stages
  <2>10. QED
    BY <2>1, <2>9 DEF Lifecycle!Next
<1>3. CASE ~InsertStep
  <2>1. DOMAIN notifications' = DOMAIN notifications
    BY <1>3, CollectionSteps
       DEF CollectionStep, PushStep, SeenStep, DeletedStep, InvalidateAtStep, Write, TypeOK
  <2>2. PICK x : \A i \in DOMAIN notifications, u \in Users :
           <<i, u>> # x =>
             notifications'[i].confirmations[u] = notifications[i].confirmations[u]
    BY OneEntryWritten
  <2>3. \A i \in Ids, u \in Users :
          <<i, u>> # x \/ i \notin DOMAIN notifications => StageOf(i, u)' = StageOf(i, u)
    <3> TAKE i \in Ids, u \in Users
    <3>1. CASE i \notin DOMAIN notifications
      BY <2>1, <3>1 DEF StageOf
    <3>2. CASE i \in DOMAIN notifications /\ <<i, u>> # x
      BY <1>1, <2>1, <2>2, <3>2, StageSame
    <3>3. QED
      BY <3>1, <3>2
  <2>4. CASE \E i \in DOMAIN notifications, u \in Users : x = <<i, u>>
    <3>1. PICK i \in DOMAIN notifications, u \in Users : x = <<i, u>>
      BY <2>4
    <3>2. x \in Ids \X Users /\ x[1] = i /\ x[2] = u
      BY <1>1, <3>1
    <3>3. Stages' = [Stages EXCEPT ![x] = StageOf(i, u)']
      <4>1. ASSUME NEW y \in Ids \X Users
            PROVE  StageOf(y[1], y[2])' = IF y = x THEN StageOf(i, u)' ELSE StageOf(y[1], y[2])
        <5>1. y[1] \in Ids /\ y[2] \in Users /\ y = <<y[1], y[2]>>
          OBVIOUS
        <5>2. CASE y # x
          BY <2>3, <5>1, <5>2
        <5>3. CASE y = x
          BY <3>2, <5>3
        <5>4. QED
          BY <5>2, <5>3
      <4>2. Stages' = [y \in Ids \X Users |->
                         IF y = x THEN StageOf(i, u)' ELSE StageOf(y[1], y[2])]
        BY <4>1 DEF Stages
      <4>3. QED
        BY <4>2 DEF Stages
    <3>4. Stages[x] = StageOf(i, u)
      BY <3>2 DEF Stages
    <3>5. \/ StageOf(i, u)' = StageOf(i, u)
          \/ StageOf(i, u) = "undelivered" /\ StageOf(i, u)' = "delivered"
          \/ /\ StageOf(i, u) \in {"delivered", "seen"}
             /\ StageOf(i, u)' \in {"delivered", "seen", "deleted"}
      BY <1>1, <2>1, StageMoves
    <3>6. CASE StageOf(i, u)' = StageOf(i, u)
      BY <3>2, <3>3, <3>4, <3>6 DEF Stages
    <3>7. CASE StageOf(i, u) = "undelivered" /\ StageOf(i, u)' = "delivered"
      <4>1. Lifecycle!Deliver(x)
        BY <3>3, <3>4, <3>7 DEF Lifecycle!Deliver, Stages
      <4>2. QED
        BY <3>2, <4>1 DEF Lifecycle!Next
    <3>8. CASE /\ StageOf(i, u) \in {"delivered", "seen"}
               /\ StageOf(i, u)' \in {"delivered", "seen", "deleted"}
      <4>1. Lifecycle!SetSeen(x) \/ Lifecycle!Delete(x)
        BY <3>3, <3>4, <3>8 DEF Lifecycle!SetSeen, Lifecycle!Delete, Stages
      <4>2. QED
        BY <3>2, <4>1 DEF Lifecycle!Next
    <3>9. QED
      BY <3>5, <3>6, <3>7, <3>8
  <2>5. CASE ~\E i \in DOMAIN notifications, u \in Users : x = <<i, u>>
    <3>1. \A i \in Ids, u \in Users : StageOf(i, u)' = StageOf(i, u)
      BY <2>3, <2>5
    <3>2. QED
      BY <3>1 DEF Stages
  <2>6. QED
    BY <2>4, <2>5
<1>4. QED
  BY <1>2, <1>3

\* The service implements the lifecycle: a copy of a notification is delivered
\* at most once and never comes back once it is deleted.
THEOREM ServiceImplementsLifecycle == Spec => LifecycleSpec
<1> DEFINE Inv == TypeOK /\ RequestsFit /\ OneConfirmation
<1>1. Init => Lifecycle!Init
  BY DEF Init, Lifecycle!Init, StageOf
<1>2. Init => Inv
  BY InitTypes, InitOneConfirmation
<1>3. Inv /\ [Next]_vars => Inv'
  BY StepTypes, StepOneConfirmation
<1>4. Inv /\ Inv' /\ [Next]_vars => [Lifecycle!Next]_Stages
  BY StepLifecycle
<1>5. QED
  BY <1>1, <1>2, <1>3, <1>4, PTL DEF Spec, LifecycleSpec, Lifecycle!Spec, Stages

=============================================================================
