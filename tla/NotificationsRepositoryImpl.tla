-------------------- MODULE NotificationsRepositoryImpl --------------------
(***************************************************************************)
(* The methods of notifications_repository_impl.rs as functions of the     *)
(* collection: what each one writes, and what it answers.                  *)
(*                                                                         *)
(* The module NotificationsService takes the filters and the updates of    *)
(* NotificationsRepository one server call at a time; here the same        *)
(* filters and updates are put together as the methods do it, with the two *)
(* paged queries that change nothing and therefore have no action there.   *)
(*                                                                         *)
(* A collection is a function of the _ids of its documents.  A method that *)
(* writes answers [ok, coll]: ok is FALSE for Error::NoDocumentUpdated or  *)
(* Error::InsertUniqueViolation.                                           *)
(***************************************************************************)
EXTENDS NotificationsRepository, FiniteSets

CONSTANT
  U32    \* how many values a u32 has (2^32; fewer in the checks)

LOCAL SE == INSTANCE SequencesExt

Ok(coll) == [ok |-> TRUE, coll |-> coll]
Err(coll) == [ok |-> FALSE, coll |-> coll]

-----------------------------------------------------------------------------
(* Writes *)

\* insert: the document under the new _id i, or a clash on the unique index.
Insert(coll, i, to, created_at, e, p, n) ==
  IF UniqueViolation(coll, p, n)
  THEN Err(coll)
  ELSE Ok([j \in DOMAIN coll \cup {i} |->
             IF j = i THEN Inserted(p, n, created_at, e, to) ELSE coll[j]])

\* update_one: the update applied to document i if it passes the filter.
UpdateOne(coll, i, Filter(_), Update(_)) ==
  IF i \in DOMAIN coll /\ Filter(coll[i])
  THEN Ok([coll EXCEPT ![i] = Update(@)])
  ELSE Err(coll)

\* matched_count decides: writing the value that is there already is Ok.
UpdateInvalidateAt(coll, i, p, e) ==
  UpdateOne(coll, i, LAMBDA d : d.producer_id = p, LAMBDA d : SetInvalidateAt(d, e))

InsertConfirmation(coll, i, u, now) ==
  UpdateOne(coll, i, LAMBDA d : AcceptsConfirmation(d, u, now), LAMBDA d : PushConfirmation(d, u))

\* update_many over the given ids; how many it modified is not looked at.
InsertManyConfirmations(coll, ids, u, now) ==
  Ok([i \in DOMAIN coll |-> IF i \in ids /\ AcceptsConfirmation(coll[i], u, now)
                            THEN PushConfirmation(coll[i], u)
                            ELSE coll[i]])

UpdateConfirmationSeen(coll, i, u, seen) ==
  UpdateOne(coll, i, LAMBDA d : Live(d, u) # {}, LAMBDA d : SetSeen(d, u, seen))

\* modified_count decides: the second deletion is an error.
Delete(coll, i, u) ==
  UpdateOne(coll, i, LAMBDA d : DeleteModifies(d, u), LAMBDA d : SetDeleted(d, u))

-----------------------------------------------------------------------------
(* Queries *)

\* dto::Notification of the entry k of user u, the one the projection
\* "confirmations.$" keeps; k = 0 when the query projects no entry at all.
Notification(coll, i, u, k) ==
  [id          |-> i,
   created_at  |-> coll[i].created_at,
   producer_id |-> coll[i].producer_id,
   seen        |-> k # 0 /\ coll[i].confirmations[u][k].seen]

\* The entries $elemMatch accepts: live ones, of the wanted seen if any.
Matching(d, u, seen) ==
  {k \in Live(d, u) : seen = None \/ d.confirmations[u][k].seen = seen}

\* The positional projection binds the first entry that matches.
First(S) == CHOOSE k \in S : \A j \in S : k <= j

FindDelivered(coll, i, u) ==
  IF i \in DOMAIN coll /\ Live(coll[i], u) # {}
  THEN Notification(coll, i, u, First(Live(coll[i], u)))
  ELSE None

\* sort({"created_at": ...}): the lists the server may return.  Documents with
\* equal created_at come in any order, and in another one the next time.
SortedBy(coll, S, Before(_, _)) ==
  {list \in SE!SetToSeqs(S) :
     \A j, k \in DOMAIN list :
       j < k => ~Before(coll[list[k]].created_at, coll[list[j]].created_at)}

\* skip((page_size * page_idx) as u64).limit(page_size as i64): the product is
\* taken on u32 and wraps, and a limit of 0 is no limit.
Page(list, page_size, page_idx) ==
  LET skip == (page_size * page_idx) % U32
      end  == IF page_size = 0 THEN Len(list) ELSE skip + page_size
  IN  SubSeq(list, skip + 1, IF end < Len(list) THEN end ELSE Len(list))

\* The pages find_many_delivered may answer with.
FindManyDeliveredPages(coll, u, page_size, page_idx, seen) ==
  LET found == {i \in DOMAIN coll : Matching(coll[i], u, seen) # {}}
      Shown(i) == Notification(coll, i, u, First(Matching(coll[i], u, seen)))
  IN  {[j \in DOMAIN page |-> Shown(page[j])] :
         page \in {Page(list, page_size, page_idx) :
                     list \in SortedBy(coll, found, LAMBDA a, b : a > b)}}

\* The lists find_many_undelivered may answer with; no entry is projected.
FindManyUndeliveredLists(coll, u, now) ==
  {[j \in DOMAIN list |-> Notification(coll, list[j], u, 0)] :
     list \in SortedBy(coll, FindManyUndelivered(coll, u, now), LAMBDA a, b : a < b)}
=============================================================================
