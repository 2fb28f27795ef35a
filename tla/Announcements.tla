--------------------------- MODULE Announcements ---------------------------
(***************************************************************************)
(* What becomes of the news that a friend request has come: Delivery with  *)
(* a history variable beside it.  Any notice that reaches a client brings  *)
(* it all the news there is, since the client then asks for its requests   *)
(* (FRIEND_REQUEST_LIST).                                                  *)
(***************************************************************************)
EXTENDS Delivery

VARIABLE news  \* each user's client: "told" of every request, "due" to be told,
               \* or "missed" when the notice was lost for a known cause

newsVars == <<deliveryVars, news>>

News == [User -> {"told", "due", "missed"}]

NewsTypeOK == news \in News

NewsInit == Init /\ news = [u \in User |-> "told"]

(***************************************************************************)
(* Each of these gives in later what becomes of the news in one step, so   *)
(* that it can be said that there always is such a later: see NewsWatches  *)
(* of AnnouncementProofs.                                                  *)
(***************************************************************************)
Tell(u, later) == later = [news EXCEPT ![u] = "told"]

Miss(u, later) == later = [news EXCEPT ![u] = IF @ = "due" THEN "missed" ELSE @]

\* A notice goes to u's client, which is there or not.
Reach(u, later) == IF client[u] = "online" THEN Tell(u, later) ELSE Miss(u, later)

-----------------------------------------------------------------------------
(* Steps of the worker that has a notice in hand.                          *)

Notify(w, later) ==
  \E ask \in Asks : BeginNotice(w, ask) /\ later = [news EXCEPT ![ask[2]] = "due"]

SendNotice(w, later) ==
  /\ hand[w] = Notice
  /\ \/ SendDirect(w) /\ Reach(dest[w], later)
     \/ SendDirect(w) /\ target[w] = "gone" /\ Miss(dest[w], later)
     \/ SendFails(w) /\ Miss(dest[w], later)

\* A row is found, or stored, that a READY has read and is about to delete:
\* the client has been told already, and will not be again.
StoreNotice(w, later) ==
  /\ hand[w] = Notice
  /\ \/ /\ FindNotice(w) \/ SaveMessage(w)
        /\ IF pc'[w] = "idle" /\ Forwarding(dest[w]) THEN Miss(dest[w], later)
                                                     ELSE later = news
     \/ FindFails(w) /\ later = news
     \/ SaveFails(w) /\ Miss(dest[w], later)

\* Steps of READY that a notice is read or sent by.
NoticeAt(i, u) == i \in DOMAIN table[u] /\ table[u][i] = Notice

FetchNotices(w, later) ==
  \/ GetMessages(w) /\ later = news
  \/ /\ GetFails(w)
     /\ IF \E i \in DOMAIN table[dest[w]] : NoticeAt(i, dest[w]) /\ i > Len(list'[w])
          THEN Miss(dest[w], later) ELSE later = news

ForwardNotice(w, later) ==
  \/ Forward(w) /\ IF Head(list[w]) = Notice THEN Reach(user[w], later) ELSE later = news
  \/ ForwardFails(w) /\ IF Head(list[w]) = Notice THEN Miss(user[w], later) ELSE later = news

\* Steps that are not about notices, or only pass one on.
Other(w, later) ==
  /\ \/ \E c \in Chat : BeginChat(w, c)
     \/ \E u \in User : BeginReady(w, u)
     \/ Refuse(w) \/ Check(w) \/ Lookup(w)
     \/ hand[w] # Notice /\ (SendDirect(w) \/ SendFails(w) \/ SaveMessage(w) \/ SaveFails(w))
     \/ DeleteMessages(w) \/ DeleteFails(w)
  /\ later = news

Die(later) ==
  /\ Crash
  /\ later = [u \in User |->
       IF news[u] = "due" /\ \E w \in Worker : dest[w] = u /\ hand[w] = Notice
         THEN "missed" ELSE news[u]]

NewsStep(later) ==
  \/ Die(later)
  \/ \E u \in User : Environment(u) /\ later = news
  \/ \E w \in Worker :
       \/ Notify(w, later) \/ SendNotice(w, later) \/ StoreNotice(w, later)
       \/ FetchNotices(w, later) \/ ForwardNotice(w, later) \/ Other(w, later)

NewsNext == NewsStep(news')

NewsSpec == NewsInit /\ [][NewsNext]_newsVars

LiveNewsSpec == NewsSpec /\ Fairness

-----------------------------------------------------------------------------
(* Properties.                                                             *)

NoticeInHand(u) == \E w \in Worker : hand[w] = Notice /\ dest[w] = u

NoticeRead(u) ==
  \E w \in Worker : pc[w] = "forward" /\ user[w] = u /\ Notice \in Range(list[w])

(***************************************************************************)
(* No friend request goes unannounced without a cause: a client that is to *)
(* be told of one has a notice under way to it, in a handler's hand, in    *)
(* the table, or in the list of a READY.  The causes are a connection that *)
(* was gone, a failure, and a READY that deletes the row which the check   *)
(* for a stored notice relied on, or the row that was stored behind it.    *)
(***************************************************************************)
Announced ==
  \A u \in User :
    news[u] = "due" => NoticeInHand(u) \/ HasSystemNotify(u) \/ NoticeRead(u)

(***************************************************************************)
(* The news gets there in the end, or is missed for one of those causes.   *)
(***************************************************************************)
NewsArrives == \A u \in Addressed : news[u] = "due" ~> news[u] # "due"

=============================================================================
