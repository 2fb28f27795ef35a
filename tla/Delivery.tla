------------------------------ MODULE Delivery ------------------------------
(***************************************************************************)
(* How a message gets to its receiver: the CHAT handler and the notice of  *)
(* ADD_FRIEND, which send to an online receiver and store for an offline   *)
(* one, READY, which forwards what is stored, and the table they share     *)
(* (OfflineMessageManager.h, OfflineMessageManager.cpp).                   *)
(*                                                                         *)
(* Reactor is used by what it shows: the requests of a client are handled  *)
(* one at a time, in order, and its session ends only between two of them. *)
(* A message sent on a session that has ended may be lost to its receiver  *)
(* (see NotifiesReceiver of Reactor for where it may go).                  *)
(***************************************************************************)
EXTENDS Naturals, Sequences, FiniteSets, Functions

CONSTANTS User,         \* account names
          Chat,         \* the chat messages of this instance, sent once each
          From, To,     \* the sender and the receiver of each
          Asks,         \* the friend requests of this instance, <<sender, receiver>>,
                        \* each sent any number of times
          Notice,       \* the notice that a friend request has come
          Worker,       \* threads of the pool
          None,         \* no user, no message
          MaxFaults,    \* bound: statements and sends that fail
          MaxCrashes    \* bound: deaths of the process

\* What a row of offline_messages holds, its receiver apart.
Row == Chat \cup {Notice}

ASSUME DeliveryAssumption ==
  /\ From \in [Chat -> User]
  /\ To \in [Chat -> User]
  /\ \A c \in Chat : From[c] # To[c]
  /\ Asks \subseteq {a \in User \X User : a[1] # a[2]}
  /\ Notice \notin Chat
  /\ None \notin Row \cup User
  /\ IsFiniteSet(Worker)
  /\ MaxFaults \in Nat
  /\ MaxCrashes \in Nat

VARIABLES
  table,     \* offline_messages: the rows of each receiver, by id
  client,    \* each user: "away", "online", or "left" when his client has
             \* hung up and the server has not noticed
  pc,        \* each worker: its next statement or call
  user,      \* the user whose request it handles
  dest,      \* the user it delivers to
  hand,      \* the message it delivers
  target,    \* the session GetSocket found: "live", or "gone" if it ended since
  list,      \* the stored messages it has yet to forward
  begun,     \* history: the chats whose handlers have begun, in order
  stored,    \* history: the chats that have been stored
  received,  \* history: the chats each user's client got, in order
  excused,   \* history: chats whose loss has a cause other than "late"
  late,      \* history: chats stored behind the back of a READY
  faults, crashes  \* how many there have been

workerVars   == <<pc, user, dest, hand, target, list>>
historyVars  == <<begun, stored, received, excused, late>>
deliveryVars == <<table, client, workerVars, historyVars, faults, crashes>>

ReadySteps == {"get", "forward", "delete"}

\* The steps at which a worker has a single message to deliver.
HandSteps  == {"check", "lookup", "send", "find", "save"}

TypeOK ==
  /\ table \in [User -> Seq(Row)]
  /\ client \in [User -> {"away", "online", "left"}]
  /\ pc \in [Worker -> {"idle"} \cup HandSteps \cup ReadySteps]
  /\ user \in [Worker -> User \cup {None}]
  /\ dest \in [Worker -> User \cup {None}]
  /\ hand \in [Worker -> Row \cup {None}]
  /\ target \in [Worker -> {"none", "live", "gone"}]
  /\ list \in [Worker -> Seq(Row)]
  /\ begun \in Seq(Chat)
  /\ stored \subseteq Chat
  /\ received \in [User -> Seq(Chat)]
  /\ excused \subseteq Chat
  /\ late \subseteq Chat
  /\ faults \in 0..MaxFaults
  /\ crashes \in 0..MaxCrashes

Init ==
  /\ table = [u \in User |-> <<>>]
  /\ client = [u \in User |-> "away"]
  /\ pc = [w \in Worker |-> "idle"]
  /\ user = [w \in Worker |-> None]
  /\ dest = [w \in Worker |-> None]
  /\ hand = [w \in Worker |-> None]
  /\ target = [w \in Worker |-> "none"]
  /\ list = [w \in Worker |-> <<>>]
  /\ begun = <<>>
  /\ stored = {}
  /\ received = [u \in User |-> <<>>]
  /\ excused = {}
  /\ late = {}
  /\ faults = 0
  /\ crashes = 0

-----------------------------------------------------------------------------
(* Clients and their sessions.                                             *)

Handled(u) == \E w \in Worker : user[w] = u

LogIn(u) ==
  /\ client[u] = "away"
  /\ client' = [client EXCEPT ![u] = "online"]
  /\ UNCHANGED <<table, workerVars, historyVars, faults, crashes>>

Leave(u) ==
  /\ client[u] = "online"
  /\ client' = [client EXCEPT ![u] = "left"]
  /\ UNCHANGED <<table, workerVars, historyVars, faults, crashes>>

\* LOGOUT, a login under another name, or the end of the stream.
EndSession(u) ==
  /\ client[u] # "away"
  /\ ~Handled(u)
  /\ client' = [client EXCEPT ![u] = "away"]
  /\ target' = [w \in Worker |->
       IF dest[w] = u /\ target[w] = "live" THEN "gone" ELSE target[w]]
  /\ UNCHANGED <<table, pc, user, dest, hand, list, historyVars, faults, crashes>>

-----------------------------------------------------------------------------
(* Handlers: what each of them begins with, and how it ends.               *)

Begin(w, u, step, receiver, message) ==
  /\ pc[w] = "idle"
  /\ client[u] # "away"
  /\ ~Handled(u)
  /\ pc' = [pc EXCEPT ![w] = step]
  /\ user' = [user EXCEPT ![w] = u]
  /\ dest' = [dest EXCEPT ![w] = receiver]
  /\ hand' = [hand EXCEPT ![w] = message]
  /\ UNCHANGED <<table, client, target, list, stored, received, excused, late, faults,
                 crashes>>

BeginChat(w, c) ==
  /\ c \notin Range(begun)
  /\ begun' = Append(begun, c)
  /\ Begin(w, From[c], "check", To[c], c)

\* ADD_FRIEND, its request stored and its sender told.
BeginNotice(w, ask) == Begin(w, ask[1], "lookup", ask[2], Notice) /\ UNCHANGED begun

BeginReady(w, u) == Begin(w, u, "get", u, None) /\ UNCHANGED begun

Goto(w, step) ==
  /\ pc' = [pc EXCEPT ![w] = step]
  /\ UNCHANGED <<user, dest, hand>>

Return(w) ==
  /\ pc' = [pc EXCEPT ![w] = "idle"]
  /\ user' = [user EXCEPT ![w] = None]
  /\ dest' = [dest EXCEPT ![w] = None]
  /\ hand' = [hand EXCEPT ![w] = None]
  /\ target' = [target EXCEPT ![w] = "none"]
  /\ list' = [list EXCEPT ![w] = <<>>]

-----------------------------------------------------------------------------
(* CHAT and the notice.                                                    *)

\* Not friends: the sender is told so.
Refuse(w) ==
  /\ pc[w] = "check"
  /\ Return(w)
  /\ excused' = excused \cup {hand[w]}
  /\ UNCHANGED <<table, client, begun, stored, received, late, faults, crashes>>

Check(w) ==
  /\ pc[w] = "check"
  /\ Goto(w, "lookup")
  /\ UNCHANGED <<table, client, target, list, historyVars, faults, crashes>>

\* GetSocket.  A notice is stored only if none is, a chat always.
Lookup(w) ==
  /\ pc[w] = "lookup"
  /\ IF client[dest[w]] = "away"
       THEN /\ Goto(w, IF hand[w] = Notice THEN "find" ELSE "save")
            /\ UNCHANGED target
       ELSE Goto(w, "send") /\ target' = [target EXCEPT ![w] = "live"]
  /\ UNCHANGED <<table, client, list, historyVars, faults, crashes>>

\* Mutant: a notice is sent as a chat.
DeliverNotices(u, message, reached) ==
  /\ received' = IF reached THEN [received EXCEPT ![u] = Append(@, message)] ELSE received
  /\ excused' = IF reached THEN excused ELSE excused \cup ({message} \cap Chat)

Deliver(u, message, reached) ==
  /\ received' = IF reached /\ message # Notice
                   THEN [received EXCEPT ![u] = Append(@, message)] ELSE received
  /\ excused' = IF reached THEN excused ELSE excused \cup ({message} \cap Chat)

\* A message reaches a client that is there on the session the message is
\* sent on.  What is sent on an ended session may reach it, if it uses the
\* same connection again, or not.
SendDirect(w) ==
  /\ pc[w] = "send"
  /\ \E same \in IF target[w] = "live" THEN {TRUE} ELSE BOOLEAN :
       Deliver(dest[w], hand[w], same /\ client[dest[w]] = "online")
  /\ Return(w)
  /\ UNCHANGED <<table, client, begun, stored, late, faults, crashes>>

\* Mutants: HasSystemNotify finds nothing, ever; it looks at the receiver only.
NoNoticeStored(u) == FALSE
AnyRowStored(u) == table[u] # <<>>

HasSystemNotify(u) == Notice \in Range(table[u])

FindNotice(w) ==
  /\ pc[w] = "find"
  /\ IF HasSystemNotify(dest[w])
       THEN Return(w)
       ELSE Goto(w, "save") /\ UNCHANGED <<target, list>>
  /\ UNCHANGED <<table, client, historyVars, faults, crashes>>

\* A READY of this user that has read the table and not yet emptied it.
Forwarding(u) == \E w \in Worker : user[w] = u /\ pc[w] \in {"forward", "delete"}

SaveMessage(w) ==
  /\ pc[w] = "save"
  /\ table' = [table EXCEPT ![dest[w]] = Append(@, hand[w])]
  /\ stored' = stored \cup ({hand[w]} \cap Chat)
  /\ late' = IF Forwarding(dest[w]) THEN late \cup ({hand[w]} \cap Chat) ELSE late
  /\ Return(w)
  /\ UNCHANGED <<client, begun, received, excused, faults, crashes>>

-----------------------------------------------------------------------------
(* READY.                                                                  *)

\* Mutants: the rows in reverse; the first one; those the user sent.
FetchedFirst(u) == IF table[u] = <<>> THEN <<>> ELSE <<Head(table[u])>>
FetchedBackwards(u) == [i \in DOMAIN table[u] |-> table[u][Len(table[u]) + 1 - i]]
FetchedBySender(u) == SelectSeq(table[u], LAMBDA m : m \in Chat /\ From[m] = u)

Fetched(u) == table[u]

\* With nothing stored, READY ends here.  SQLite steps through the rows one at
\* a time, and others may write in between; but rows are added at the end of
\* the order by id, and only the user's own READY deletes his, so that what
\* is read is what was there at the last step: the step of this action.
GetMessages(w) ==
  /\ pc[w] = "get"
  /\ IF Fetched(dest[w]) = <<>>
       THEN Return(w)
       ELSE /\ list' = [list EXCEPT ![w] = Fetched(dest[w])]
            /\ Goto(w, "forward")
            /\ UNCHANGED target
  /\ UNCHANGED <<table, client, historyVars, faults, crashes>>

Forwarded(w, reached) ==
  /\ pc[w] = "forward"
  /\ Deliver(user[w], Head(list[w]), reached)
  /\ list' = [list EXCEPT ![w] = Tail(@)]
  /\ Goto(w, IF Len(list[w]) = 1 THEN "delete" ELSE "forward")
  /\ UNCHANGED <<table, client, target, begun, stored, late, crashes>>

Forward(w) == Forwarded(w, client[user[w]] = "online") /\ UNCHANGED faults

\* Mutant: the DELETE does nothing.
DeletedNothing(u) == table

Deleted(u) == [table EXCEPT ![u] = <<>>]

DeleteMessages(w) ==
  /\ pc[w] = "delete"
  /\ table' = Deleted(dest[w])
  /\ Return(w)
  /\ UNCHANGED <<client, historyVars, faults, crashes>>

-----------------------------------------------------------------------------
(* Failures.                                                               *)

Fault == faults < MaxFaults /\ faults' = faults + 1

\* The buffer of the socket is full, or there is no send mutex.
SendFails(w) ==
  /\ pc[w] = "send"
  /\ Fault
  /\ Deliver(dest[w], hand[w], FALSE)
  /\ Return(w)
  /\ UNCHANGED <<table, client, begun, stored, late, crashes>>

ForwardFails(w) == Fault /\ Forwarded(w, FALSE)

\* Exists answers FALSE.
FindFails(w) ==
  /\ pc[w] = "find"
  /\ Fault
  /\ Goto(w, "save")
  /\ UNCHANGED <<table, client, target, list, historyVars, crashes>>

SaveFails(w) ==
  /\ pc[w] = "save"
  /\ Fault
  /\ excused' = excused \cup ({hand[w]} \cap Chat)
  /\ Return(w)
  /\ UNCHANGED <<table, client, begun, stored, received, late, crashes>>

\* The SELECT ends early with fewer rows, or with none.
GetFails(w) ==
  /\ pc[w] = "get"
  /\ Fault
  /\ \E n \in 0..Len(table[dest[w]]) :
       /\ excused' = excused \cup
            {c \in Chat : \E i \in DOMAIN table[dest[w]] : i > n /\ table[dest[w]][i] = c}
       /\ IF n = 0
            THEN Return(w)
            ELSE /\ list' = [list EXCEPT ![w] = SubSeq(table[dest[w]], 1, n)]
                 /\ Goto(w, "forward")
                 /\ UNCHANGED target
  /\ UNCHANGED <<table, client, begun, stored, received, late, crashes>>

DeleteFails(w) ==
  /\ pc[w] = "delete"
  /\ Fault
  /\ Return(w)
  /\ UNCHANGED <<table, client, historyVars, crashes>>

\* The process dies, of SIGPIPE for one, and is started again.
Crash ==
  /\ crashes < MaxCrashes
  /\ crashes' = crashes + 1
  /\ client' = [u \in User |-> "away"]
  /\ pc' = [w \in Worker |-> "idle"]
  /\ user' = [w \in Worker |-> None]
  /\ dest' = [w \in Worker |-> None]
  /\ hand' = [w \in Worker |-> None]
  /\ target' = [w \in Worker |-> "none"]
  /\ list' = [w \in Worker |-> <<>>]
  /\ excused' = excused \cup (Range(hand) \cap Chat)
  /\ UNCHANGED <<table, begun, stored, received, late, faults>>

-----------------------------------------------------------------------------
Environment(u) == LogIn(u) \/ Leave(u) \/ EndSession(u)

Request(w) ==
  \/ \E c \in Chat : BeginChat(w, c)
  \/ \E ask \in Asks : BeginNotice(w, ask)
  \/ \E u \in User : BeginReady(w, u)

\* What a handler does next by itself.
Proceed(w) ==
  \/ Refuse(w) \/ Check(w) \/ Lookup(w) \/ SendDirect(w)
  \/ FindNotice(w) \/ SaveMessage(w)
  \/ GetMessages(w) \/ Forward(w) \/ DeleteMessages(w)

Failure(w) ==
  \/ SendFails(w) \/ FindFails(w) \/ SaveFails(w)
  \/ GetFails(w) \/ ForwardFails(w) \/ DeleteFails(w)

Next ==
  \/ Crash
  \/ \E u \in User : Environment(u)
  \/ \E w \in Worker : Request(w) \/ Proceed(w) \/ Failure(w)

Spec == Init /\ [][Next]_deliveryVars

(***************************************************************************)
(* A handler that has begun goes on.  A client sends READY after each      *)
(* login, on the same connection, so it is handled before the session ends,*)
(* however long the queue; and every user who is written to comes back     *)
(* time and again.                                                         *)
(***************************************************************************)
Addressed == Range(To) \cup {ask[2] : ask \in Asks}

Fairness ==
  /\ \A w \in Worker : WF_deliveryVars(Proceed(w))
  /\ \A u \in Addressed : []<><<\E w \in Worker : BeginReady(w, u)>>_deliveryVars

LiveSpec == Spec /\ Fairness

-----------------------------------------------------------------------------
(* Properties.                                                             *)

InHand(c) == \E w \in Worker : hand[w] = c

Stored(c) == c \in Range(table[To[c]])

Received(c) == c \in Range(received[To[c]])

(***************************************************************************)
(* No chat disappears without a cause.  Once its handler has begun it is   *)
(* in a handler's hand, in the table, or with its receiver, unless it was  *)
(* refused, its receiver's connection or a statement failed, or it was     *)
(* stored while a READY of its receiver was between its SELECT and its     *)
(* DELETE.                                                                 *)
(***************************************************************************)
NoSilentLoss ==
  \A c \in Range(begun) :
    InHand(c) \/ Stored(c) \/ Received(c) \/ c \in excused \cup late

(***************************************************************************)
(* No chat reaches anybody twice, however sends, stores and READYs         *)
(* interleave, and each failure costs one copy at most: a DELETE that      *)
(* fails, or a crash between sending what is stored and deleting it, makes *)
(* the next READY send it again, once.                                     *)
(***************************************************************************)
Copies(u, c) == {i \in DOMAIN received[u] : received[u][i] = c}

CopiesBounded ==
  \A u \in User, c \in Chat : Cardinality(Copies(u, c)) <= 1 + faults + crashes

(***************************************************************************)
(* Between two users a chat overtakes an earlier one only when the earlier *)
(* was stored, and the later was sent directly to the receiver who had     *)
(* come online and not yet fetched it.                                     *)
(***************************************************************************)
Overtakes(c, earlier) ==
  \E j \in DOMAIN received[To[c]] :
    /\ received[To[c]][j] = c
    /\ \A i \in 1..j : received[To[c]][i] # earlier
    /\ earlier \in Range(received[To[c]])

OvertakesStoredOnly ==
  faults = 0 =>
    \A i, j \in DOMAIN begun :
      LET a == begun[i]  b == begun[j] IN
      i < j /\ From[a] = From[b] /\ To[a] = To[b] /\ Overtakes(b, a) =>
        a \in stored /\ b \notin stored

(***************************************************************************)
(* Notices do not pile up: an offline user never has more rows of them     *)
(* than there are workers, and SELECTs that failed.  A worker about to     *)
(* insert one is counted as the row it will add.                           *)
(***************************************************************************)
NoticeRows(u) == {i \in DOMAIN table[u] : table[u][i] = Notice}

SavingNotice(u) == {w \in Worker : pc[w] = "save" /\ hand[w] = Notice /\ dest[w] = u}

NoticesBounded ==
  \A u \in User :
    Cardinality(NoticeRows(u)) + Cardinality(SavingNotice(u)) <= Cardinality(Worker) + faults

(***************************************************************************)
(* Nothing is stored for ever: a READY takes all of a user's rows out of   *)
(* the table, whatever is stored for him meanwhile.                        *)
(***************************************************************************)
StoredIsFetched == \A u \in Addressed : table[u] # <<>> ~> table[u] = <<>>

(***************************************************************************)
(* "Offline, Message Saved." (Server.cpp:494), "send the offline messages" *)
(* (Server.cpp:514): what was saved stays saved until it has been sent to  *)
(* its receiver.                                                           *)
(***************************************************************************)
SavedUntilSent == \A c \in stored : Stored(c) \/ Received(c) \/ c \in excused

-----------------------------------------------------------------------------
(* The mailboxes that handlers, table and statements amount to.            *)

Carrying(c, steps) == \E w \in Worker : hand[w] = c /\ pc[w] \in steps

OnLiveSession(c) == \E w \in Worker : hand[w] = c /\ target[w] = "live"

StageOf ==
  [c \in Chat |->
    CASE c \notin Range(begun) -> "unsent"
      [] Carrying(c, {"check", "lookup"}) -> "posted"
      [] Carrying(c, {"send"}) -> IF OnLiveSession(c) THEN "direct" ELSE "astray"
      [] Carrying(c, {"save"}) -> "keep"
      [] OTHER -> "done"]

Served == {u \in User : Forwarding(u)}

\* Between its SELECT and its DELETE a READY has taken what is in the table.
BoxOf == [u \in User |-> IF Forwarding(u) THEN <<>> ELSE table[u]]

Forwards(w, u) == user[w] = u /\ pc[w] = "forward"

StreamOf ==
  [u \in User |->
    IF \E w \in Worker : Forwards(w, u) THEN list[CHOOSE w \in Worker : Forwards(w, u)]
                                        ELSE <<>>]

(***************************************************************************)
(* However sends, stores and READYs of several workers interleave, with    *)
(* failures and restarts, users see mailboxes: chats are sent one by one,  *)
(* a READY (Server.cpp:514) takes all that is stored as if at one moment   *)
(* and hands it over in order, and what was handed over or lost comes back *)
(* only after a failure.                                                   *)
(***************************************************************************)
MailboxOf ==
  INSTANCE Mailbox WITH
    sent     <- begun,
    stage    <- StageOf,
    box      <- BoxOf,
    kept     <- stored,
    served   <- Served,
    stream   <- StreamOf,
    inbox    <- received,
    failures <- faults + crashes

ImplementsMailbox == MailboxOf!Spec

=============================================================================
