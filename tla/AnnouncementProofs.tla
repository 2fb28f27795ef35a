------------------------- MODULE AnnouncementProofs -------------------------
(***************************************************************************)
(* Proof that no friend request goes unannounced without a cause, for any  *)
(* number of users, requests and workers, of failures and of crashes.      *)
(***************************************************************************)
EXTENDS Announcements, DeliveryProofs

\* A READY that will delete u's rows has told u of what it read, or will,
\* unless more news came since, which its handler still has in hand.
ReadNotDue ==
  \A w \in Worker :
    pc[w] \in {"forward", "delete"} /\ news[user[w]] = "due" =>
      \/ NoticeInHand(user[w])
      \/ pc[w] = "forward" /\ Notice \in Range(list[w])

NewsOK == NewsTypeOK /\ Announced /\ ReadNotDue

\* The history variable only watches.
LEMMA NewsNextWatches == [NewsNext]_newsVars => [Next]_deliveryVars
<1>1. ASSUME NEW w \in Worker,
             \/ Notify(w, news') \/ SendNotice(w, news') \/ StoreNotice(w, news')
             \/ FetchNotices(w, news') \/ ForwardNotice(w, news') \/ Other(w, news')
      PROVE  Next
  <2>1. Request(w) \/ Proceed(w) \/ Failure(w)
    BY <1>1 DEF Notify, SendNotice, StoreNotice, FetchNotices, ForwardNotice, Other,
                Request, Proceed, Failure
  <2>. QED  BY <2>1 DEF Next
<1>. QED  BY <1>1 DEF NewsNext, NewsStep, newsVars, Die, Next

LEMMA NewsTyped == StateOK /\ NewsTypeOK /\ [NewsNext]_newsVars => NewsTypeOK'
<1>. SUFFICES ASSUME StateOK, NewsTypeOK, [NewsNext]_newsVars PROVE NewsTypeOK'
  OBVIOUS
<1>. USE DeliveryAssumption DEF NewsTypeOK, News
<1>1. ASSUME NEW u, Tell(u, news') \/ Miss(u, news') \/ Reach(u, news') PROVE NewsTypeOK'
  BY <1>1 DEF Tell, Miss, Reach
<1>2. ASSUME NEW w \in Worker, Notify(w, news') PROVE NewsTypeOK'
  BY <1>2 DEF Notify
<1>3. ASSUME NEW w \in Worker, SendNotice(w, news') \/ StoreNotice(w, news') PROVE NewsTypeOK'
  BY <1>1, <1>3 DEF SendNotice, StoreNotice
<1>4. ASSUME NEW w \in Worker, FetchNotices(w, news') \/ ForwardNotice(w, news') PROVE NewsTypeOK'
  BY <1>1, <1>4 DEF FetchNotices, ForwardNotice
<1>5. ASSUME NEW w \in Worker, Other(w, news') PROVE NewsTypeOK'
  BY <1>5 DEF Other
<1>6. ASSUME Die(news') PROVE NewsTypeOK'
  BY <1>6 DEF Die
<1>. QED  BY <1>2, <1>3, <1>4, <1>5, <1>6 DEF NewsNext, NewsStep, newsVars

(* A step of worker w leaves the other workers' locals alone.              *)
Others(w) ==
  \A v \in Worker : v # w =>
    /\ pc'[v] = pc[v] /\ user'[v] = user[v] /\ dest'[v] = dest[v]
    /\ hand'[v] = hand[v] /\ list'[v] = list[v]

\* NoticeInHand of the next state.
StillInHand(u) == \E v \in Worker : hand'[v] = Notice /\ dest'[v] = u

LEMMA OneMoves ==
  ASSUME StateOK, NEW w \in Worker,
         \/ \E u, step, receiver, message : Begin(w, u, step, receiver, message)
         \/ \E step : Goto(w, step) /\ \A v \in Worker : v # w => list'[v] = list[v]
         \/ Return(w)
  PROVE  Others(w)
BY DEF Others, StateOK, TypeOK, Begin, Goto, Return

LEMMA HandStays ==
  ASSUME StateOK, NEW w \in Worker, Others(w), hand[w] # Notice
  PROVE  \A u \in User : NoticeInHand(u) => StillInHand(u)
BY DEF StillInHand, NoticeInHand, Others

(***************************************************************************)
(* What a step of worker w has to leave, for each user who is to be told,  *)
(* of what announces it: the rows of the table, the notice in w's hand, the*)
(* notice in w's list.  What the others have stays.                        *)
(***************************************************************************)
LEMMA Carried ==
  ASSUME StateOK, NewsOK, NewsTypeOK', NEW w \in Worker, Others(w),
         \A u \in User : news'[u] = "due" => news[u] = "due" \/ StillInHand(u),
         \A u \in User : news'[u] = "due" /\ HasSystemNotify(u) =>
           HasSystemNotify(u)' \/ StillInHand(u),
         hand[w] = Notice /\ news'[dest[w]] = "due" =>
           \/ hand'[w] = Notice /\ dest'[w] = dest[w]
           \/ Notice \in Range(table'[dest[w]]) /\ ~Forwarding(dest[w]),
         pc[w] = "forward" /\ Notice \in Range(list[w]) /\ news'[user[w]] = "due" =>
           pc'[w] = "forward" /\ user'[w] = user[w] /\ Notice \in Range(list'[w]),
         pc'[w] \in {"forward", "delete"} /\ news'[user'[w]] = "due" =>
           \/ StillInHand(user'[w])
           \/ pc'[w] = "forward" /\ Notice \in Range(list'[w])
  PROVE  NewsOK'
<1>1. ASSUME NEW u \in User, news'[u] = "due", NoticeInHand(u)
      PROVE  StillInHand(u) \/ (HasSystemNotify(u)' /\ ~Forwarding(u))
  <2>1. PICK v \in Worker : hand[v] = Notice /\ dest[v] = u
    BY <1>1 DEF NoticeInHand
  <2>2. CASE v = w
    BY <1>1, <2>1, <2>2 DEF StillInHand, HasSystemNotify
  <2>3. CASE v # w
    BY <2>1, <2>3 DEF StillInHand, Others
  <2>. QED  BY <2>2, <2>3
<1>2. ASSUME NEW u \in User, news'[u] = "due", NoticeRead(u) PROVE NoticeRead(u)'
  BY <1>2 DEF NoticeRead, Others
<1>3. Announced'
  BY <1>1, <1>2 DEF NewsOK, Announced, NoticeInHand, StillInHand
<1>4. ReadNotDue'
  <2>. SUFFICES ASSUME NEW v \in Worker, pc'[v] \in {"forward", "delete"},
                       news'[user'[v]] = "due"
                PROVE  \/ StillInHand(user'[v])
                       \/ pc'[v] = "forward" /\ Notice \in Range(list'[v])
    BY DEF ReadNotDue, NoticeInHand, StillInHand
  <2>1. CASE v = w
    BY <2>1
  <2>2. CASE v # w
    <3>1. pc'[v] = pc[v] /\ user'[v] = user[v] /\ list'[v] = list[v]
      BY <2>2 DEF Others
    <3>2. user[v] \in User
      BY <3>1, DeliveryAssumption DEF StateOK, TypeOK, HandlersOK
    <3>3. news'[user[v]] = "due" /\ (news[user[v]] = "due" \/ StillInHand(user[v]))
      BY <3>1, <3>2
    <3>4. Forwarding(user[v])
      BY <3>1 DEF Forwarding
    <3>5. \/ NoticeInHand(user[v]) \/ StillInHand(user[v])
          \/ pc[v] = "forward" /\ Notice \in Range(list[v])
      BY <3>1, <3>3 DEF NewsOK, ReadNotDue
    <3>6. NoticeInHand(user[v]) => StillInHand(user[v])
      BY <1>1, <3>2, <3>3, <3>4
    <3>. QED  BY <3>1, <3>5, <3>6
  <2>. QED  BY <2>1, <2>2
<1>. QED  BY <1>3, <1>4 DEF NewsOK

LEMMA NewsInitially == NewsInit => NewsOK
BY DEF NewsInit, NewsOK, NewsTypeOK, News, Announced, ReadNotDue, Init

\* A crash takes what the handlers have in hand, and leaves the table.
LEMMA NewsOverCrash ==
  ASSUME StateOK, PlacesOK, NewsOK, NewsTypeOK', Die(news')
  PROVE  NewsOK'
<1>. USE DeliveryAssumption DEF Die, Crash
<1>1. ReadNotDue'
  BY DEF ReadNotDue
<1>2. ASSUME NEW u \in User, news'[u] = "due" PROVE HasSystemNotify(u)'
  <2>1. news[u] = "due" /\ ~NoticeInHand(u)
    BY <1>2 DEF NewsOK, NewsTypeOK, News, NoticeInHand
  <2>2. NoticeRead(u) => HasSystemNotify(u)
    BY DEF NoticeRead, PlacesOK, HasSystemNotify
  <2>. QED  BY <2>1, <2>2 DEF NewsOK, Announced, HasSystemNotify
<1>. QED  BY <1>1, <1>2 DEF NewsOK, Announced

\* Every other step is a worker's or a client's.
LEMMA NewsOfHands ==
  ASSUME StateOK, NewsOK, NewsTypeOK', NEW w \in Worker,
         Notify(w, news') \/ SendNotice(w, news') \/ StoreNotice(w, news')
  PROVE  NewsOK'
<1>. USE DeliveryAssumption
<1>1. CASE Notify(w, news')
  <2>1. PICK ask \in Asks : BeginNotice(w, ask) /\ news' = [news EXCEPT ![ask[2]] = "due"]
    BY <1>1 DEF Notify
  <2>2. hand[w] = None /\ pc[w] = "idle" /\ Others(w)
    BY <2>1, OneMoves DEF BeginNotice, StateOK, HandlersOK, Begin
  <2>3. pc'[w] = "lookup" /\ hand'[w] = Notice /\ dest'[w] = ask[2] /\ table' = table
    BY <2>1 DEF BeginNotice, Begin, StateOK, TypeOK
  <2>4. \A u \in User : news'[u] = "due" => news[u] = "due" \/ StillInHand(u)
    BY <2>1, <2>3 DEF StillInHand, NewsOK, NewsTypeOK, News
  <2>. QED  BY <2>2, <2>3, <2>4, Carried DEF HasSystemNotify, Row
<1>2. CASE SendNotice(w, news')
  <2>1. /\ hand[w] = Notice /\ pc[w] = "send" /\ Return(w) /\ table' = table
        /\ Reach(dest[w], news') \/ Miss(dest[w], news')
    BY <1>2 DEF SendNotice, SendDirect, SendFails
  <2>2. dest[w] \in User /\ Others(w)
    BY <2>1, OneMoves DEF StateOK, HandlersOK, HandSteps
  <2>3. news'[dest[w]] # "due" /\ \A u \in User : news'[u] = "due" => news[u] = "due"
    BY <2>1, <2>2 DEF NewsOK, NewsTypeOK, News, Reach, Tell, Miss
  <2>4. pc'[w] = "idle"
    BY <2>1 DEF Return, StateOK, TypeOK
  <2>. QED  BY <2>1, <2>2, <2>3, <2>4, Carried DEF HasSystemNotify
<1>3. CASE StoreNotice(w, news')
  <2>0. hand[w] = Notice /\ pc[w] \in {"find", "save"} /\ dest[w] \in User
    BY <1>3 DEF StoreNotice, FindNotice, SaveMessage, FindFails, SaveFails,
                StateOK, HandlersOK, HandSteps
  <2>1. CASE SaveFails(w) /\ Miss(dest[w], news')
    <3>1. Others(w) /\ pc'[w] = "idle" /\ table' = table
      BY <2>1, OneMoves DEF SaveFails, Return, StateOK, TypeOK
    <3>2. news'[dest[w]] # "due" /\ \A u \in User : news'[u] = "due" => news[u] = "due"
      BY <2>0, <2>1 DEF NewsOK, NewsTypeOK, News, Miss
    <3>. QED  BY <2>0, <3>1, <3>2, Carried DEF HasSystemNotify
  <2>2. CASE Goto(w, "save") /\ UNCHANGED <<table, list, news>>
    <3>1. Others(w) /\ pc'[w] = "save" /\ hand' = hand /\ dest' = dest
      BY <2>2, OneMoves DEF Goto, StateOK, TypeOK
    <3>. QED  BY <2>0, <2>2, <3>1, Carried DEF HasSystemNotify
  <2>3. CASE /\ Return(w)
             /\ Notice \in Range(table'[dest[w]])
             /\ \A u \in User : Range(table[u]) \subseteq Range(table'[u])
             /\ IF Forwarding(dest[w]) THEN Miss(dest[w], news') ELSE UNCHANGED news
    <3>1. Others(w) /\ pc'[w] = "idle"
      BY <2>3, OneMoves DEF Return, StateOK, TypeOK
    <3>2. /\ Forwarding(dest[w]) => news'[dest[w]] # "due"
          /\ \A u \in User : news'[u] = "due" => news[u] = "due"
      BY <2>0, <2>3 DEF NewsOK, NewsTypeOK, News, Miss
    <3>. QED  BY <2>0, <2>3, <3>1, <3>2, Carried DEF HasSystemNotify
  <2>4. CASE /\ FindNotice(w)
             /\ IF pc'[w] = "idle" /\ Forwarding(dest[w])
                  THEN Miss(dest[w], news') ELSE UNCHANGED news
    <3>1. CASE HasSystemNotify(dest[w])
      <4>1. Return(w) /\ pc'[w] = "idle" /\ table' = table
        BY <2>4, <3>1 DEF FindNotice, Return, StateOK, TypeOK
      <4>. QED  BY <2>3, <2>4, <3>1, <4>1 DEF HasSystemNotify
    <3>2. CASE ~HasSystemNotify(dest[w])
      <4>1. Goto(w, "save") /\ pc'[w] = "save" /\ UNCHANGED <<table, list>>
        BY <2>4, <3>2 DEF FindNotice, Goto, StateOK, TypeOK
      <4>. QED  BY <2>2, <2>4, <4>1
    <3>. QED  BY <3>1, <3>2
  <2>5. CASE /\ SaveMessage(w)
             /\ IF pc'[w] = "idle" /\ Forwarding(dest[w])
                  THEN Miss(dest[w], news') ELSE UNCHANGED news
    <3>1. Return(w) /\ pc'[w] = "idle"
      BY <2>5 DEF SaveMessage, Return, StateOK, TypeOK
    <3>2. table' = [table EXCEPT ![dest[w]] = Append(@, Notice)]
      BY <2>0, <2>5 DEF SaveMessage
    <3>3. \A u \in User : table[u] \in Seq(Row) /\ Notice \in Row
      BY DEF StateOK, TypeOK, Row
    <3>4. Range(Append(table[dest[w]], Notice)) = Range(table[dest[w]]) \cup {Notice}
      BY <2>0, <3>3, RangeOfAppend
    <3>5. \A u \in User : table'[u] = IF u = dest[w] THEN Append(table[u], Notice) ELSE table[u]
      BY <2>0, <3>2 DEF StateOK, TypeOK
    <3>6. /\ Notice \in Range(table'[dest[w]])
          /\ \A u \in User : Range(table[u]) \subseteq Range(table'[u])
      BY <2>0, <3>4, <3>5
    <3>. QED  BY <2>3, <2>5, <3>1, <3>6
  <2>6. CASE FindFails(w) /\ UNCHANGED news
    BY <2>2, <2>6 DEF FindFails
  <2>. QED  BY <1>3, <2>1, <2>4, <2>5, <2>6 DEF StoreNotice
<1>. QED  BY <1>1, <1>2, <1>3

LEMMA NewsOfReady ==
  ASSUME StateOK, NewsOK, NewsTypeOK', NEW w \in Worker,
         FetchNotices(w, news') \/ ForwardNotice(w, news') \/ DeleteMessages(w) \/ DeleteFails(w),
         DeleteMessages(w) \/ DeleteFails(w) => news' = news
  PROVE  NewsOK'
<1>. USE DeliveryAssumption
<1>. DEFINE u == user[w]
<1>1. pc[w] \in ReadySteps
  BY DEF FetchNotices, ForwardNotice, GetMessages, GetFails, Forward, ForwardFails, Forwarded,
         DeleteMessages, DeleteFails, ReadySteps
<1>2. hand[w] = None /\ dest[w] = u /\ u \in User /\ Notice # None
  BY <1>1 DEF StateOK, TypeOK, HandlersOK, ReadySteps, Row
<1>3. Others(w) => \A v \in User : NoticeInHand(v) => StillInHand(v)
  BY <1>2, HandStays
\* The list holds every notice there was, or one is missed.
<1>4. CASE FetchNotices(w, news')
  <2>1. table' = table /\ pc[w] = "get"
    BY <1>4 DEF FetchNotices, GetMessages, GetFails
  <2>2. \A v \in User : news'[v] = "due" => news[v] = "due"
    BY <1>2, <1>4 DEF FetchNotices, Miss, NewsOK, NewsTypeOK, News
  <2>3. CASE Return(w)
    <3>1. Others(w) /\ pc'[w] = "idle"
      BY <2>3, OneMoves DEF Return, StateOK, TypeOK
    <3>. QED  BY <1>2, <2>1, <2>2, <3>1, Carried DEF HasSystemNotify
  <2>4. CASE Goto(w, "forward") /\ \E L \in Seq(Row) : list' = [list EXCEPT ![w] = L]
    <3>1. Others(w) /\ pc'[w] = "forward" /\ user' = user
      BY <2>4, OneMoves DEF Goto, StateOK, TypeOK
    <3>2. ~NoticeRead(u)
      BY <1>2, <2>1 DEF NoticeRead, StateOK, OneHandler
    <3>3. ASSUME news'[u] = "due", NoticeInHand(u) PROVE StillInHand(u)
      BY <1>2, <1>3, <3>1, <3>3
    <3>4. ASSUME news'[u] = "due", HasSystemNotify(u) PROVE Notice \in Range(list'[w])
      <4>1. CASE GetMessages(w)
        <5>1. list'[w] = table[u]
          BY <1>2, <2>1, <3>1, <4>1 DEF GetMessages, Fetched, Return, StateOK, TypeOK
        <5>. QED  BY <3>4, <5>1 DEF HasSystemNotify
      <4>2. CASE /\ GetFails(w)
                 /\ IF \E i \in DOMAIN table[dest[w]] : NoticeAt(i, dest[w]) /\ i > Len(list'[w])
                      THEN Miss(dest[w], news') ELSE UNCHANGED news
        <5>0. PICK n \in 0..Len(table[u]) :
                IF n = 0 THEN Return(w)
                         ELSE list' = [list EXCEPT ![w] = SubSeq(table[u], 1, n)]
          BY <1>2, <4>2 DEF GetFails
        <5>1. list'[w] = SubSeq(table[u], 1, n)
          BY <3>1, <5>0 DEF Return, StateOK, TypeOK
        <5>2. table[u] \in Seq(Row)
          BY <1>2 DEF StateOK, TypeOK
        <5>3. /\ Len(list'[w]) = n
              /\ DOMAIN list'[w] = 1..n
              /\ DOMAIN table[u] = 1..Len(table[u])
              /\ \A i \in 1..n : list'[w][i] = table[u][i]
          BY <5>1, <5>2
        <5>4. PICK i \in 1..Len(table[u]) : table[u][i] = Notice
          BY <3>4, <5>3 DEF HasSystemNotify, Range
        <5>5. ~(i > n)
          BY <1>2, <3>4, <4>2, <5>3, <5>4 DEF NoticeAt, Miss, NewsOK, NewsTypeOK, News
        <5>. QED  BY <5>3, <5>4, <5>5 DEF Range
      <4>. QED  BY <1>4, <4>1, <4>2 DEF FetchNotices
    <3>5. news'[u] = "due" => StillInHand(u) \/ Notice \in Range(list'[w])
      BY <1>2, <2>2, <3>2, <3>3, <3>4 DEF NewsOK, Announced
    <3>. QED  BY <1>2, <2>1, <2>2, <3>1, <3>5, Carried DEF HasSystemNotify
  <2>5. CASE GetMessages(w)
    <3>1. Fetched(dest[w]) \in Seq(Row)
      BY <1>2, FetchedOK DEF StateOK
    <3>. QED  BY <2>3, <2>4, <2>5, <3>1 DEF GetMessages
  <2>6. CASE GetFails(w)
    <3>1. \A n \in 0..Len(table[dest[w]]) : SubSeq(table[dest[w]], 1, n) \in Seq(Row)
      <4>1. table[dest[w]] \in Seq(Row)
        BY <1>2 DEF StateOK, TypeOK
      <4>. QED  BY <4>1
    <3>. QED  BY <2>3, <2>4, <2>6, <3>1 DEF GetFails
  <2>. QED  BY <1>4, <2>5, <2>6 DEF FetchNotices
\* What is forwarded is told or missed, the rest is still in the list.
<1>5. CASE ForwardNotice(w, news')
  <2>1. PICK reached : Forwarded(w, reached)
    BY <1>5 DEF ForwardNotice, Forward, ForwardFails
  <2>2. /\ pc[w] = "forward" /\ table' = table /\ user' = user
        /\ list[w] \in Seq(Row) /\ list[w] # <<>> /\ list'[w] = Tail(list[w])
        /\ pc'[w] = IF Len(list[w]) = 1 THEN "delete" ELSE "forward"
        /\ Others(w)
    BY <2>1, OneMoves DEF Forwarded, Goto, StateOK, TypeOK, HandlersOK, Others
  <2>3. /\ Range(list[w]) = {Head(list[w])} \cup Range(Tail(list[w]))
        /\ Len(list[w]) = 1 => Tail(list[w]) = <<>>
    BY <2>2, RangeOfTail
  <2>4. Range(<<>>) = {}
    BY DEF Range
  <2>5. /\ \A v \in User : news'[v] = "due" => news[v] = "due"
        /\ Head(list[w]) = Notice => news'[u] # "due"
    BY <1>2, <1>5 DEF ForwardNotice, Reach, Tell, Miss, NewsOK, NewsTypeOK, News
  <2>6. Notice \in Range(list[w]) /\ news'[u] = "due" =>
          Notice \in Range(list'[w]) /\ pc'[w] = "forward"
    BY <2>2, <2>3, <2>4, <2>5
  <2>7. news'[u] = "due" =>
          \/ StillInHand(u)
          \/ pc'[w] = "forward" /\ Notice \in Range(list'[w])
    BY <1>2, <1>3, <2>2, <2>5, <2>6 DEF NewsOK, ReadNotDue
  <2>. QED  BY <1>2, <2>2, <2>5, <2>6, <2>7, Carried DEF HasSystemNotify
\* Who is still to be told has a notice in some handler's hand.
<1>6. CASE DeleteMessages(w)
  <2>1. /\ pc[w] = "delete" /\ pc'[w] = "idle" /\ Others(w) /\ news' = news
        /\ table' = [table EXCEPT ![u] = <<>>]
    BY <1>2, <1>6, OneMoves DEF DeleteMessages, Deleted, Return, StateOK, TypeOK
  <2>2. news[u] = "due" => StillInHand(u)
    BY <1>2, <1>3, <2>1 DEF NewsOK, ReadNotDue
  <2>3. \A v \in User : v # u => table'[v] = table[v]
    BY <2>1 DEF StateOK, TypeOK
  <2>. QED  BY <1>2, <2>1, <2>2, <2>3, Carried DEF HasSystemNotify
<1>7. CASE DeleteFails(w)
  <2>1. pc[w] = "delete" /\ pc'[w] = "idle" /\ Others(w) /\ news' = news /\ table' = table
    BY <1>7, OneMoves DEF DeleteFails, Return, StateOK, TypeOK
  <2>. QED  BY <1>2, <2>1, Carried DEF HasSystemNotify
<1>. QED  BY <1>4, <1>5, <1>6, <1>7

LEMMA NewsKept == StateOK /\ PlacesOK /\ NewsOK /\ [NewsNext]_newsVars => NewsOK'
<1>. SUFFICES ASSUME StateOK, PlacesOK, NewsOK, [NewsNext]_newsVars PROVE NewsOK'
  OBVIOUS
<1>. USE DeliveryAssumption
<1>1. NewsTypeOK'
  BY NewsTyped DEF NewsOK
<1>2. CASE UNCHANGED <<table, pc, user, dest, hand, list, news>>
  BY <1>1, <1>2 DEF NewsOK, Announced, ReadNotDue, NoticeInHand, NoticeRead, HasSystemNotify
<1>3. ASSUME NEW u \in User, Environment(u), UNCHANGED news PROVE NewsOK'
  BY <1>2, <1>3 DEF Environment, LogIn, Leave, EndSession, workerVars
<1>4. ASSUME NEW w \in Worker, Other(w, news') PROVE NewsOK'
  <2>0. news' = news
    BY <1>4 DEF Other
  <2>1. CASE DeleteMessages(w) \/ DeleteFails(w)
    BY <1>1, <2>0, <2>1, NewsOfReady
  <2>2. CASE \/ \E c \in Chat : BeginChat(w, c)
             \/ \E u \in User : BeginReady(w, u)
    <3>1. PICK u, step, receiver, message :
            /\ Begin(w, u, step, receiver, message)
            /\ step \in {"check", "get"}
      BY <2>2 DEF BeginChat, BeginReady
    <3>2. pc[w] = "idle" /\ hand[w] = None /\ pc'[w] = step /\ table' = table
      BY <3>1 DEF Begin, StateOK, TypeOK, HandlersOK
    <3>. QED  BY <1>1, <2>0, <3>1, <3>2, OneMoves, Carried DEF HasSystemNotify, Row
  <2>3. CASE /\ hand[w] # Notice /\ pc[w] # "forward" /\ Return(w)
             /\ \A u \in User : Range(table[u]) \subseteq Range(table'[u])
    <3>1. pc'[w] = "idle" /\ Others(w)
      BY <2>3, OneMoves DEF Return, StateOK, TypeOK
    <3>. QED  BY <1>1, <2>0, <2>3, <3>1, Carried DEF HasSystemNotify
  <2>4. CASE Refuse(w) \/ (hand[w] # Notice /\ (SendDirect(w) \/ SendFails(w) \/ SaveFails(w)))
    <3>1. hand[w] # Notice /\ pc[w] # "forward" /\ Return(w) /\ table' = table
      BY <2>4 DEF Refuse, SendDirect, SendFails, SaveFails, StateOK, HandlersOK
    <3>. QED  BY <2>3, <3>1
  <2>5. CASE hand[w] # Notice /\ SaveMessage(w)
    <3>1. dest[w] \in User /\ hand[w] \in Row /\ pc[w] = "save" /\ Return(w)
          /\ table' = [table EXCEPT ![dest[w]] = Append(@, hand[w])]
      BY <2>5 DEF SaveMessage, StateOK, HandlersOK, HandSteps
    <3>2. Range(Append(table[dest[w]], hand[w])) = Range(table[dest[w]]) \cup {hand[w]}
      BY <3>1, RangeOfAppend DEF StateOK, TypeOK
    <3>3. \A u \in User : table'[u] =
            IF u = dest[w] THEN Append(table[u], hand[w]) ELSE table[u]
      BY <3>1 DEF StateOK, TypeOK
    <3>4. \A u \in User : Range(table[u]) \subseteq Range(table'[u])
      BY <3>2, <3>3
    <3>. QED  BY <2>3, <2>5, <3>1, <3>4
  <2>6. CASE Check(w) \/ Lookup(w)
    <3>1. PICK step \in {"lookup", "find", "save", "send"} : Goto(w, step)
      BY <2>6 DEF Check, Lookup
    <3>2. pc[w] \in {"check", "lookup"} /\ UNCHANGED <<table, list>>
      BY <2>6 DEF Check, Lookup
    <3>3. pc'[w] = step /\ hand' = hand /\ dest' = dest /\ Others(w)
      BY <3>1, <3>2, OneMoves DEF Goto, StateOK, TypeOK
    <3>. QED  BY <1>1, <2>0, <3>2, <3>3, Carried DEF HasSystemNotify
  <2>. QED  BY <1>4, <2>1, <2>2, <2>4, <2>5, <2>6 DEF Other
<1>5. ASSUME NEW w \in Worker, Notify(w, news') \/ SendNotice(w, news') \/ StoreNotice(w, news')
      PROVE  NewsOK'
  BY <1>1, <1>5, NewsOfHands
<1>6. ASSUME NEW w \in Worker, FetchNotices(w, news') \/ ForwardNotice(w, news') PROVE NewsOK'
  <2>1. ~DeleteMessages(w) /\ ~DeleteFails(w)
    BY <1>6 DEF FetchNotices, ForwardNotice, GetMessages, GetFails, Forward, ForwardFails,
                Forwarded, DeleteMessages, DeleteFails
  <2>. QED  BY <1>1, <1>6, <2>1, NewsOfReady
<1>7. CASE Die(news')
  BY <1>1, <1>7, NewsOverCrash
<1>. QED  BY <1>2, <1>3, <1>4, <1>5, <1>6, <1>7
     DEF NewsNext, NewsStep, newsVars, deliveryVars, workerVars

(* Steps of a worker have a later, whatever news there is.                 *)
LEMMA NewsOfWorker ==
  ASSUME StateOK, NewsTypeOK, NEW w \in Worker, Request(w) \/ Proceed(w) \/ Failure(w)
  PROVE  \E later \in News : NewsStep(later)
<1>. USE DeliveryAssumption
<1>1. news \in News
  BY DEF NewsTypeOK
<1>2. \A u : \E later \in News : Tell(u, later)
  BY <1>1 DEF Tell, News
<1>3. \A u : \E later \in News : Miss(u, later)
  BY <1>1 DEF Miss, News
<1>4. \A u : \E later \in News : Reach(u, later)
  BY <1>2, <1>3 DEF Reach
<1>5. CASE Request(w)
  <2>1. CASE \E ask \in Asks : BeginNotice(w, ask)
    <3>1. PICK ask \in Asks : BeginNotice(w, ask)
      BY <2>1
    <3>2. [news EXCEPT ![ask[2]] = "due"] \in News
      BY <1>1 DEF News
    <3>3. Notify(w, [news EXCEPT ![ask[2]] = "due"])
      BY <3>1 DEF Notify
    <3>. QED  BY <3>2, <3>3 DEF NewsStep
  <2>2. CASE (\E c \in Chat : BeginChat(w, c)) \/ (\E u \in User : BeginReady(w, u))
    BY <1>1, <2>2 DEF NewsStep, Other
  <2>. QED  BY <1>5, <2>1, <2>2 DEF Request
<1>6. CASE Refuse(w) \/ Check(w) \/ Lookup(w) \/ DeleteMessages(w) \/ DeleteFails(w)
  BY <1>1, <1>6 DEF NewsStep, Other
<1>7. CASE SendDirect(w) \/ SendFails(w)
  <2>1. CASE hand[w] = Notice
    BY <1>3, <1>4, <1>7, <2>1 DEF NewsStep, SendNotice
  <2>2. CASE hand[w] # Notice
    BY <1>1, <1>7, <2>2 DEF NewsStep, Other
  <2>. QED  BY <2>1, <2>2
<1>8. CASE FindNotice(w) \/ FindFails(w) \/ SaveMessage(w) \/ SaveFails(w)
  <2>1. CASE hand[w] = Notice
    <3>1. \E later \in News : StoreNotice(w, later)
      BY <1>1, <1>3, <1>8, <2>1 DEF StoreNotice
    <3>. QED  BY <3>1 DEF NewsStep
  <2>2. CASE hand[w] # Notice
    <3>1. SaveMessage(w) \/ SaveFails(w)
      BY <1>8, <2>2 DEF FindNotice, FindFails, StateOK, HandlersOK
    <3>. QED  BY <1>1, <2>2, <3>1 DEF NewsStep, Other
  <2>. QED  BY <2>1, <2>2
<1>9. CASE GetMessages(w) \/ GetFails(w)
  <2>1. \E later \in News : FetchNotices(w, later)
    BY <1>1, <1>3, <1>9 DEF FetchNotices
  <2>. QED  BY <2>1 DEF NewsStep
<1>10. CASE Forward(w) \/ ForwardFails(w)
  <2>1. \E later \in News : ForwardNotice(w, later)
    BY <1>1, <1>3, <1>4, <1>10 DEF ForwardNotice
  <2>. QED  BY <2>1 DEF NewsStep
<1>. QED  BY <1>5, <1>6, <1>7, <1>8, <1>9, <1>10 DEF Proceed, Failure

(***************************************************************************)
(* The history variable forbids nothing: whatever step a handler, a client *)
(* or a crash takes in a behaviour of Delivery, and whatever the news is   *)
(* before it, there is a value of it afterwards with which the step is one *)
(* of Announcements.  So every behaviour of Spec is one of NewsSpec, of    *)
(* which NewsIsSpec is the converse.                                       *)
(***************************************************************************)
THEOREM NewsWatches ==
  Spec => [][NewsTypeOK => \E later \in News : NewsStep(later)]_deliveryVars
<1>1. ASSUME StateOK, NewsTypeOK, Next PROVE \E later \in News : NewsStep(later)
  <2>1. news \in News
    BY <1>1 DEF NewsTypeOK
  <2>2. CASE Crash
    <3>. DEFINE later == [u \in User |->
                  IF news[u] = "due" /\ \E w \in Worker : dest[w] = u /\ hand[w] = Notice
                    THEN "missed" ELSE news[u]]
    <3>1. later \in News
      BY <2>1 DEF News
    <3>2. Die(later)
      BY <2>2 DEF Die
    <3>. QED  BY <3>1, <3>2 DEF NewsStep
  <2>3. ASSUME NEW u \in User, Environment(u) PROVE \E later \in News : NewsStep(later)
    BY <2>1, <2>3 DEF NewsStep
  <2>. QED  BY <1>1, <2>2, <2>3, NewsOfWorker DEF Next
<1>2. Inv /\ [Next]_deliveryVars =>
        [NewsTypeOK => \E later \in News : NewsStep(later)]_deliveryVars
  BY <1>1 DEF Inv, LossOK
<1>. QED  BY <1>2, Invariance, PTL DEF Spec

\* And it adds nothing: without it, a behaviour is one of Delivery.
LEMMA NewsIsSpec == NewsSpec => Spec
<1>1. NewsInit => Init
  BY DEF NewsInit
<1>. QED  BY <1>1, NewsNextWatches, PTL DEF NewsSpec, Spec

\* What holds of Delivery holds of it with the history variable beside it.
THEOREM NewsInvariance == NewsSpec => [](Inv /\ NewsOK)
<1>1. NewsInit => Inv /\ NewsOK
  BY Initially, NewsInitially DEF NewsInit
<1>2. Inv /\ NewsOK /\ [NewsNext]_newsVars => Inv' /\ NewsOK'
  BY NewsNextWatches, InvKept, NewsKept DEF Inv, LossOK
<1>. QED  BY <1>1, <1>2, PTL DEF NewsSpec

\* No friend request goes unannounced without one of the named causes.
THEOREM RequestsAnnounced == NewsSpec => []Announced
BY NewsInvariance, PTL DEF NewsOK

=============================================================================
