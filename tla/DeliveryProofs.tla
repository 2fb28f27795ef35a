--------------------------- MODULE DeliveryProofs ---------------------------
(***************************************************************************)
(* Proofs about Delivery: what becomes of messages for any number of       *)
(* users, chats and workers, of failures and of crashes; and that what     *)
(* they see of it are mailboxes (module Mailbox).                          *)
(***************************************************************************)
EXTENDS Delivery, FiniteSetTheorems, TLAPS

\* What a worker's locals are at each step.
HandlersOK ==
  \A w \in Worker :
    /\ pc[w] = "idle" <=> user[w] = None
    /\ pc[w] = "idle" => hand[w] = None
    /\ pc[w] \in HandSteps => dest[w] \in User /\ hand[w] \in Row
    /\ pc[w] = "check" => hand[w] \in Chat
    /\ pc[w] = "find" => hand[w] = Notice
    /\ pc[w] \in ReadySteps => hand[w] = None /\ dest[w] = user[w]
    /\ pc[w] = "forward" => list[w] # <<>>
    /\ hand[w] \in Chat =>
         user[w] = From[hand[w]] /\ dest[w] = To[hand[w]] /\ hand[w] \in Range(begun)

\* A user's requests are handled one at a time.
OneHandler ==
  \A v, w \in Worker : user[v] = user[w] /\ user[v] # None => v = w

\* A chat is stored for, forwarded to and received by nobody but its receiver.
PlacesOK ==
  /\ \A u \in User : \A c \in Chat :
       c \in Range(table[u]) \cup Range(received[u]) => To[c] = u /\ c \in Range(begun)
  /\ \A w \in Worker : pc[w] = "forward" => Range(list[w]) \subseteq Range(table[user[w]])

\* What a READY has not yet forwarded of what it will delete.
ForwardedOK ==
  \A w \in Worker : pc[w] \in {"forward", "delete"} =>
    \A c \in Chat : c \in Range(table[user[w]]) =>
      \/ pc[w] = "forward" /\ c \in Range(list[w])
      \/ Received(c)
      \/ c \in excused \cup late

ChatsDistinct(s) == \A i, j \in DOMAIN s : s[i] = s[j] /\ s[i] \in Chat => i = j

\* A chat that is not yet received is in one handler's hand or in one row.
OnePlace ==
  /\ \A c \in Chat : InHand(c) => ~Stored(c) /\ ~Received(c)
  /\ \A u \in User : ChatsDistinct(table[u])
  /\ \A w \in Worker : pc[w] = "forward" => ChatsDistinct(list[w])

Coming(c) == \E w \in Worker : Forwards(w, To[c]) /\ c \in Range(list[w])

\* The chat may still arrive: it is in a handler's hand, or in a row that no
\* READY has sent yet.
ToCome(c) == InHand(c) \/ (Stored(c) /\ (Forwarding(To[c]) => Coming(c)))

(***************************************************************************)
(* What may still arrive is counted as arrived: only a failure puts what   *)
(* was sent back among what may still arrive.                              *)
(***************************************************************************)
InCredit(c) ==
  /\ Cardinality(Copies(To[c], c)) <= 1 + faults + crashes
  /\ ToCome(c) => Cardinality(Copies(To[c], c)) <= faults + crashes

OnceOK == OnePlace /\ \A c \in Chat : InCredit(c)

LossOK == PlacesOK /\ ForwardedOK /\ NoSilentLoss

-----------------------------------------------------------------------------
(* Sequences.                                                              *)

LEMMA RangeOfAppend ==
  ASSUME NEW S, NEW s \in Seq(S), NEW e \in S
  PROVE  Append(s, e) \in Seq(S) /\ Range(Append(s, e)) = Range(s) \cup {e}
<1>1. \A x : x \in Range(Append(s, e)) <=> x \in Range(s) \cup {e}
  <2>1. /\ Len(Append(s, e)) = Len(s) + 1
        /\ \A i \in 1..Len(s) : Append(s, e)[i] = s[i]
        /\ Append(s, e)[Len(s) + 1] = e
        /\ Len(s) \in Nat
        /\ DOMAIN Append(s, e) = 1..(Len(s) + 1) /\ DOMAIN s = 1..Len(s)
    OBVIOUS
  <2>. QED  BY <2>1 DEF Range
<1>. QED  BY <1>1

LEMMA RangeOfTail ==
  ASSUME NEW S, NEW s \in Seq(S), s # <<>>
  PROVE  /\ Head(s) \in S /\ Tail(s) \in Seq(S)
         /\ Range(s) = {Head(s)} \cup Range(Tail(s))
         /\ Len(s) = 1 => Tail(s) = <<>>
         /\ Len(s) # 1 => Tail(s) # <<>>
<1>1. /\ Len(s) \in Nat \ {0} /\ DOMAIN s = 1..Len(s) /\ Head(s) = s[1]
      /\ DOMAIN Tail(s) = 1..(Len(s) - 1) /\ Len(Tail(s)) = Len(s) - 1
      /\ \A i \in 1..(Len(s) - 1) : Tail(s)[i] = s[i + 1]
  OBVIOUS
<1>2. \A x : x \in Range(s) <=> x \in {Head(s)} \cup Range(Tail(s))
  <2>1. ASSUME NEW x, x \in Range(s) PROVE x \in {Head(s)} \cup Range(Tail(s))
    <3>1. PICK i \in 1..Len(s) : x = s[i]
      BY <1>1, <2>1 DEF Range
    <3>2. CASE i = 1
      BY <1>1, <3>1, <3>2
    <3>3. CASE i # 1
      <4>1. i - 1 \in 1..(Len(s) - 1) /\ Tail(s)[i - 1] = x
        BY <1>1, <3>1, <3>3
      <4>. QED  BY <1>1, <4>1 DEF Range
    <3>. QED  BY <3>2, <3>3
  <2>2. ASSUME NEW x, x \in Range(Tail(s)) PROVE x \in Range(s)
    <3>1. PICK i \in 1..(Len(s) - 1) : x = s[i + 1]
      BY <1>1, <2>2 DEF Range
    <3>. QED  BY <1>1, <3>1 DEF Range
  <2>. QED  BY <1>1, <2>1, <2>2 DEF Range
<1>3. Head(s) \in S /\ Tail(s) \in Seq(S)
  OBVIOUS
<1>4. Len(s) = 1 <=> Tail(s) = <<>>
  <2>1. \A t \in Seq(S) : Len(t) = 0 <=> t = <<>>
    OBVIOUS
  <2>2. Len(Tail(s)) = 0 <=> Tail(s) = <<>>
    BY <1>3, <2>1
  <2>3. Len(s) = 1 <=> Len(Tail(s)) = 0
    BY <1>1
  <2>. QED  BY <2>2, <2>3
<1>5. Range(s) = {Head(s)} \cup Range(Tail(s))
  BY <1>2
<1>. QED  BY <1>3, <1>4, <1>5

LEMMA RangeIsIn == ASSUME NEW S, NEW s \in Seq(S) PROVE Range(s) \subseteq S
BY DEF Range

LEMMA DistinctAppend ==
  ASSUME NEW S, NEW s \in Seq(S), NEW e \in S
  PROVE  /\ IsInjective(s) /\ e \notin Range(s) => IsInjective(Append(s, e))
         /\ ChatsDistinct(s) /\ (e \in Chat => e \notin Range(s)) => ChatsDistinct(Append(s, e))
<1>1. /\ Len(s) \in Nat /\ DOMAIN s = 1..Len(s) /\ DOMAIN Append(s, e) = 1..(Len(s) + 1)
      /\ \A i \in 1..Len(s) : Append(s, e)[i] = s[i]
      /\ Append(s, e)[Len(s) + 1] = e
  OBVIOUS
<1>2. \A i \in 1..(Len(s) + 1) : i \in 1..Len(s) \/ i = Len(s) + 1
  BY <1>1
<1>. QED  BY <1>1, <1>2 DEF IsInjective, ChatsDistinct, Range

LEMMA DistinctTail ==
  ASSUME NEW S, NEW s \in Seq(S), s # <<>>, ChatsDistinct(s)
  PROVE  /\ ChatsDistinct(Tail(s))
         /\ Head(s) \in Chat => Head(s) \notin Range(Tail(s))
<1>1. /\ Len(s) \in Nat \ {0} /\ DOMAIN s = 1..Len(s) /\ Head(s) = s[1]
      /\ DOMAIN Tail(s) = 1..(Len(s) - 1)
      /\ \A i \in 1..(Len(s) - 1) : Tail(s)[i] = s[i + 1]
  OBVIOUS
<1>2. \A i \in 1..(Len(s) - 1) : i + 1 \in 1..Len(s) /\ i + 1 # 1 /\ 1 \in 1..Len(s)
  BY <1>1
<1>3. \A i, j \in 1..(Len(s) - 1) : i + 1 = j + 1 => i = j
  BY <1>1
<1>. QED  BY <1>1, <1>2, <1>3 DEF ChatsDistinct, Range

-----------------------------------------------------------------------------
(* The locals of the workers.                                              *)

WorkersOK ==
  /\ pc \in [Worker -> {"idle"} \cup HandSteps \cup ReadySteps]
  /\ user \in [Worker -> User \cup {None}]
  /\ dest \in [Worker -> User \cup {None}]
  /\ hand \in [Worker -> Row \cup {None}]
  /\ target \in [Worker -> {"none", "live", "gone"}]
  /\ list \in [Worker -> Seq(Row)]
  /\ HandlersOK
  /\ OneHandler

StateOK == TypeOK /\ HandlersOK /\ OneHandler

\* Begin, Goto and Return keep the locals in order.
LEMMA BeginOK ==
  ASSUME StateOK, NEW w \in Worker, NEW u \in User, NEW receiver \in User,
         NEW step, NEW message, Begin(w, u, step, receiver, message),
         \/ step = "check" /\ message \in Chat /\ u = From[message]
              /\ receiver = To[message] /\ message \in Range(begun')
         \/ step = "lookup" /\ message = Notice
         \/ step = "get" /\ message = None /\ receiver = u,
         Range(begun) \subseteq Range(begun')
  PROVE  WorkersOK'
<1>. USE DeliveryAssumption
<1>1. message \in Row \cup {None} /\ step \in HandSteps \cup ReadySteps
  BY DEF Row, HandSteps, ReadySteps
<1>2. /\ pc' \in [Worker -> {"idle"} \cup HandSteps \cup ReadySteps]
      /\ user' \in [Worker -> User \cup {None}]
      /\ dest' \in [Worker -> User \cup {None}]
      /\ hand' \in [Worker -> Row \cup {None}]
      /\ target' \in [Worker -> {"none", "live", "gone"}]
      /\ list' \in [Worker -> Seq(Row)]
  BY <1>1 DEF StateOK, TypeOK, Begin
<1>3. HandlersOK'
  <2>1. ASSUME NEW v \in Worker, v # w
        PROVE  /\ pc'[v] = pc[v] /\ user'[v] = user[v] /\ dest'[v] = dest[v]
               /\ hand'[v] = hand[v] /\ list'[v] = list[v]
    BY <2>1 DEF StateOK, TypeOK, Begin
  <2>2. /\ pc'[w] = step /\ user'[w] = u /\ dest'[w] = receiver /\ hand'[w] = message
        /\ u # None /\ Notice # None /\ None \notin Chat /\ Notice \notin Chat
    BY DEF StateOK, TypeOK, Begin, Row
  <2>3. step \in {"check", "lookup", "get"}
    OBVIOUS
  <2>. QED  BY <1>1, <2>1, <2>2, <2>3 DEF StateOK, HandlersOK, HandSteps, ReadySteps
<1>4. OneHandler'
  BY DEF StateOK, TypeOK, OneHandler, Begin, Handled
<1>. QED  BY <1>2, <1>3, <1>4 DEF WorkersOK

LEMMA ReturnOK ==
  ASSUME StateOK, NEW w \in Worker, Return(w), begun' = begun
  PROVE  WorkersOK'
<1>. USE DeliveryAssumption
<1>1. /\ pc' \in [Worker -> {"idle"} \cup HandSteps \cup ReadySteps]
      /\ user' \in [Worker -> User \cup {None}]
      /\ dest' \in [Worker -> User \cup {None}]
      /\ hand' \in [Worker -> Row \cup {None}]
      /\ target' \in [Worker -> {"none", "live", "gone"}]
      /\ list' \in [Worker -> Seq(Row)]
  BY DEF StateOK, TypeOK, Return
<1>2. HandlersOK'
  BY DEF StateOK, TypeOK, HandlersOK, Return, HandSteps, ReadySteps, Row
<1>3. OneHandler'
  BY DEF StateOK, TypeOK, OneHandler, Return
<1>. QED  BY <1>1, <1>2, <1>3 DEF WorkersOK

\* To another step of the same kind, with any list and target.
LEMMA GotoOK ==
  ASSUME StateOK, NEW w \in Worker, NEW step, Goto(w, step), begun' = begun,
         target' \in [Worker -> {"none", "live", "gone"}],
         list' \in [Worker -> Seq(Row)],
         \A v \in Worker : v # w => list'[v] = list[v],
         \/ pc[w] \in HandSteps /\ step \in HandSteps
         \/ pc[w] \in ReadySteps /\ step \in ReadySteps,
         step # "check",
         step = "find" => hand[w] = Notice,
         step = "forward" => list'[w] # <<>>
  PROVE  WorkersOK'
<1>1. pc' \in [Worker -> {"idle"} \cup HandSteps \cup ReadySteps]
  BY DEF StateOK, TypeOK, Goto
<1>2. HandlersOK'
  <2>1. ASSUME NEW v \in Worker, v # w PROVE pc'[v] = pc[v] /\ list'[v] = list[v]
    BY <2>1 DEF StateOK, TypeOK, Goto
  <2>2. pc'[w] = step /\ step # "idle" /\ pc[w] # "idle"
    BY DEF StateOK, TypeOK, Goto, HandSteps, ReadySteps
  <2>3. user' = user /\ dest' = dest /\ hand' = hand
    BY DEF Goto
  <2>4. HandSteps \cap ReadySteps = {}
    BY DEF HandSteps, ReadySteps
  <2>5. "forward" \in ReadySteps
    BY DEF ReadySteps
  <2>. QED  BY <2>1, <2>2, <2>3, <2>4, <2>5 DEF StateOK, HandlersOK
<1>3. OneHandler' /\ user' \in [Worker -> User \cup {None}]
      /\ dest' \in [Worker -> User \cup {None}] /\ hand' \in [Worker -> Row \cup {None}]
  BY DEF StateOK, TypeOK, OneHandler, Goto
<1>. QED  BY <1>1, <1>2, <1>3 DEF WorkersOK

LEMMA UnchangedOK ==
  ASSUME StateOK, UNCHANGED <<pc, user, dest, hand, list, begun>>,
         target' \in [Worker -> {"none", "live", "gone"}]
  PROVE  WorkersOK'
BY DEF StateOK, TypeOK, HandlersOK, OneHandler, WorkersOK

\* Where a message goes.
LEMMA DeliverOK ==
  ASSUME TypeOK, NEW u \in User, NEW m \in Row, NEW reached \in BOOLEAN,
         Deliver(u, m, reached)
  PROVE  received' \in [User -> Seq(Chat)] /\ excused' \subseteq Chat
BY DEF TypeOK, Row, Deliver

LEMMA FetchedOK == ASSUME TypeOK, NEW u \in User PROVE Fetched(u) \in Seq(Row)
BY DEF TypeOK, Fetched

LEMMA StateKept == StateOK /\ [Next]_deliveryVars => StateOK'
<1>. SUFFICES ASSUME StateOK, [Next]_deliveryVars PROVE StateOK'
  OBVIOUS
<1>. USE DeliveryAssumption
<1>0. TypeOK /\ HandlersOK /\ OneHandler
  BY DEF StateOK
<1>a. ASSUME WorkersOK',
             /\ table' \in [User -> Seq(Row)]
             /\ client' \in [User -> {"away", "online", "left"}]
             /\ begun' \in Seq(Chat)
             /\ stored' \subseteq Chat
             /\ received' \in [User -> Seq(Chat)]
             /\ excused' \subseteq Chat
             /\ late' \subseteq Chat
             /\ faults' \in 0..MaxFaults
             /\ crashes' \in 0..MaxCrashes
      PROVE  StateOK'
  BY <1>a DEF StateOK, TypeOK, WorkersOK
<1>1. CASE Crash
  <2>1. WorkersOK'
    BY <1>0, <1>1 DEF Crash, WorkersOK, HandlersOK, OneHandler, HandSteps, ReadySteps, Row
  <2>. QED  BY <1>0, <1>1, <1>a, <2>1 DEF Crash, TypeOK
<1>2. ASSUME NEW u \in User, Environment(u) PROVE StateOK'
  <2>1. target' \in [Worker -> {"none", "live", "gone"}]
    BY <1>0, <1>2 DEF Environment, LogIn, Leave, EndSession, workerVars, TypeOK
  <2>2. UNCHANGED <<pc, user, dest, hand, list, begun>>
    BY <1>2 DEF Environment, LogIn, Leave, EndSession, workerVars, historyVars
  <2>3. WorkersOK'
    BY <2>1, <2>2, UnchangedOK
  <2>. QED
    BY <1>0, <1>2, <1>a, <2>3 DEF Environment, LogIn, Leave, EndSession, historyVars, TypeOK
<1>3. ASSUME NEW w \in Worker, Request(w) PROVE StateOK'
  <2>1. ASSUME NEW c \in Chat, BeginChat(w, c) PROVE StateOK'
    <3>1. begun' \in Seq(Chat) /\ Range(begun') = Range(begun) \cup {c}
      BY <1>0, <2>1, RangeOfAppend DEF BeginChat, TypeOK
    <3>2. WorkersOK'
      BY <2>1, <3>1, BeginOK DEF BeginChat
    <3>. QED  BY <1>0, <1>a, <2>1, <3>1, <3>2 DEF BeginChat, Begin, TypeOK
  <2>2. ASSUME NEW ask \in Asks, BeginNotice(w, ask) PROVE StateOK'
    <3>0. ask[1] \in User /\ ask[2] \in User
      OBVIOUS
    <3>1. WorkersOK'
      BY <2>2, <3>0, BeginOK DEF BeginNotice
    <3>. QED  BY <1>0, <1>a, <2>2, <3>0, <3>1 DEF BeginNotice, Begin, TypeOK
  <2>3. ASSUME NEW u \in User, BeginReady(w, u) PROVE StateOK'
    <3>1. WorkersOK'
      BY <2>3, BeginOK DEF BeginReady
    <3>. QED  BY <1>0, <1>a, <2>3, <3>1 DEF BeginReady, Begin, TypeOK
  <2>. QED  BY <1>3, <2>1, <2>2, <2>3 DEF Request
<1>4. ASSUME NEW w \in Worker, Refuse(w) \/ Check(w) \/ Lookup(w) \/ SendDirect(w) \/ SendFails(w)
      PROVE StateOK'
  <2>1. pc[w] \in HandSteps /\ dest[w] \in User /\ hand[w] \in Row
        /\ (pc[w] = "check" => hand[w] \in Chat)
    BY <1>0, <1>4 DEF Refuse, Check, Lookup, SendDirect, SendFails, HandSteps, HandlersOK
  <2>2. CASE Refuse(w)
    <3>1. WorkersOK'
      BY <2>2, ReturnOK DEF Refuse
    <3>. QED  BY <1>0, <1>a, <2>1, <2>2, <3>1 DEF Refuse, TypeOK
  <2>3. CASE Check(w)
    <3>1. WorkersOK'
      BY <1>0, <2>1, <2>3, GotoOK DEF Check, historyVars, TypeOK, HandSteps
    <3>. QED  BY <1>0, <1>a, <2>3, <3>1 DEF Check, historyVars, TypeOK
  <2>4. CASE Lookup(w)
    <3>1. target' \in [Worker -> {"none", "live", "gone"}]
      BY <1>0, <2>4 DEF Lookup, TypeOK
    <3>2. WorkersOK'
      BY <1>0, <2>1, <2>4, <3>1, GotoOK DEF Lookup, historyVars, TypeOK, HandSteps
    <3>. QED  BY <1>0, <1>a, <2>4, <3>2 DEF Lookup, historyVars, TypeOK
  <2>5. CASE SendDirect(w)
    <3>1. WorkersOK'
      BY <2>5, ReturnOK DEF SendDirect
    <3>2. received' \in [User -> Seq(Chat)] /\ excused' \subseteq Chat
      BY <1>0, <2>1, <2>5, DeliverOK DEF SendDirect
    <3>. QED  BY <1>0, <1>a, <2>5, <3>1, <3>2 DEF SendDirect, TypeOK
  <2>6. CASE SendFails(w)
    <3>1. WorkersOK'
      BY <2>6, ReturnOK DEF SendFails
    <3>2. received' \in [User -> Seq(Chat)] /\ excused' \subseteq Chat
      BY <1>0, <2>1, <2>6, DeliverOK DEF SendFails
    <3>. QED  BY <1>0, <1>a, <2>6, <3>1, <3>2 DEF SendFails, Fault, TypeOK
  <2>. QED  BY <1>4, <2>2, <2>3, <2>4, <2>5, <2>6
<1>5. ASSUME NEW w \in Worker, FindNotice(w) \/ FindFails(w) PROVE StateOK'
  <2>1. pc[w] = "find" /\ pc[w] \in HandSteps
    BY <1>5 DEF FindNotice, FindFails, HandSteps
  <2>2. WorkersOK'
    <3>1. CASE Return(w)
      BY <1>5, <3>1, ReturnOK DEF FindNotice, FindFails, historyVars
    <3>2. CASE Goto(w, "save") /\ UNCHANGED <<target, list>>
      BY <1>0, <1>5, <2>1, <3>2, GotoOK DEF FindNotice, FindFails, historyVars, TypeOK, HandSteps
    <3>. QED  BY <1>5, <3>1, <3>2 DEF FindNotice, FindFails
  <2>. QED  BY <1>0, <1>5, <1>a, <2>2 DEF FindNotice, FindFails, Fault, historyVars, TypeOK
<1>6. ASSUME NEW w \in Worker, SaveMessage(w) \/ SaveFails(w) PROVE StateOK'
  <2>1. WorkersOK'
    BY <1>6, ReturnOK DEF SaveMessage, SaveFails
  <2>2. hand[w] \in Row /\ dest[w] \in User
    BY <1>0, <1>6 DEF SaveMessage, SaveFails, HandlersOK, HandSteps
  <2>3. table' \in [User -> Seq(Row)]
    <3>1. Append(table[dest[w]], hand[w]) \in Seq(Row)
      BY <1>0, <2>2 DEF TypeOK
    <3>2. CASE SaveMessage(w)
      BY <1>0, <2>2, <3>1, <3>2 DEF SaveMessage, TypeOK
    <3>3. CASE SaveFails(w)
      BY <1>0, <3>3 DEF SaveFails, TypeOK
    <3>. QED  BY <1>6, <3>2, <3>3
  <2>. QED  BY <1>0, <1>6, <1>a, <2>1, <2>3 DEF SaveMessage, SaveFails, Fault, TypeOK
<1>7. ASSUME NEW w \in Worker, GetMessages(w) \/ GetFails(w) PROVE StateOK'
  <2>1. pc[w] = "get" /\ pc[w] \in ReadySteps /\ dest[w] \in User
    BY <1>0, <1>7 DEF GetMessages, GetFails, ReadySteps, HandlersOK, TypeOK
  <2>2. CASE Return(w)
    <3>1. WorkersOK'
      BY <1>7, <2>2, ReturnOK DEF GetMessages, GetFails, historyVars
    <3>. QED
      BY <1>0, <1>7, <1>a, <3>1 DEF GetMessages, GetFails, Fault, historyVars, TypeOK
  <2>3. ASSUME NEW rows \in Seq(Row), rows # <<>>, Goto(w, "forward"),
               list' = [list EXCEPT ![w] = rows], target' = target
        PROVE StateOK'
    <3>1. list' \in [Worker -> Seq(Row)] /\ list'[w] = rows /\ begun' = begun
          /\ \A v \in Worker : v # w => list'[v] = list[v]
      BY <1>0, <1>7, <2>3 DEF GetMessages, GetFails, historyVars, TypeOK
    <3>2. WorkersOK'
      BY <1>0, <2>1, <2>3, <3>1, GotoOK DEF TypeOK, ReadySteps
    <3>. QED
      BY <1>0, <1>7, <1>a, <3>2 DEF GetMessages, GetFails, Fault, historyVars, TypeOK
  <2>4. CASE GetMessages(w)
    BY <1>0, <2>1, <2>2, <2>3, <2>4, FetchedOK DEF GetMessages
  <2>5. CASE GetFails(w)
    <3>1. PICK n \in 0..Len(table[dest[w]]) :
            IF n = 0
              THEN Return(w)
              ELSE /\ list' = [list EXCEPT ![w] = SubSeq(table[dest[w]], 1, n)]
                   /\ Goto(w, "forward")
                   /\ UNCHANGED target
      BY <2>5 DEF GetFails
    <3>2. table[dest[w]] \in Seq(Row)
      BY <1>0, <2>1 DEF TypeOK
    <3>3. n # 0 => SubSeq(table[dest[w]], 1, n) \in Seq(Row) /\ SubSeq(table[dest[w]], 1, n) # <<>>
      BY <3>2
    <3>. QED  BY <2>2, <2>3, <3>1, <3>3
  <2>. QED  BY <1>7, <2>4, <2>5
<1>8. ASSUME NEW w \in Worker, Forward(w) \/ ForwardFails(w) PROVE StateOK'
  <2>1. /\ pc[w] = "forward" /\ pc[w] \in ReadySteps /\ user[w] \in User
        /\ list[w] \in Seq(Row) /\ list[w] # <<>>
    <3>1. pc[w] = "forward"
      BY <1>8 DEF Forward, ForwardFails, Forwarded
    <3>. QED  BY <1>0, <3>1 DEF ReadySteps, HandlersOK, TypeOK
  <2>2. /\ Head(list[w]) \in Row /\ Tail(list[w]) \in Seq(Row)
        /\ Len(list[w]) # 1 => Tail(list[w]) # <<>>
    BY <2>1, RangeOfTail
  <2>3. PICK reached \in BOOLEAN : Forwarded(w, reached)
    BY <1>8 DEF Forward, ForwardFails
  <2>4. received' \in [User -> Seq(Chat)] /\ excused' \subseteq Chat
    BY <1>0, <2>1, <2>2, <2>3, DeliverOK DEF Forwarded
  <2>5. /\ list' \in [Worker -> Seq(Row)] /\ list'[w] = Tail(list[w])
        /\ \A v \in Worker : v # w => list'[v] = list[v]
    BY <1>0, <2>2, <2>3 DEF Forwarded, TypeOK
  <2>6. WorkersOK'
    BY <1>0, <2>1, <2>2, <2>3, <2>5, GotoOK DEF Forwarded, TypeOK, ReadySteps
  <2>7. faults' \in 0..MaxFaults
    <3>1. CASE Forward(w)
      BY <1>0, <3>1 DEF Forward, TypeOK
    <3>2. CASE ForwardFails(w)
      BY <1>0, <3>2, DeliveryAssumption DEF ForwardFails, Fault, TypeOK
    <3>. QED  BY <1>8, <3>1, <3>2
  <2>. QED  BY <1>0, <1>a, <2>3, <2>4, <2>6, <2>7 DEF Forwarded, TypeOK
<1>9. ASSUME NEW w \in Worker, DeleteMessages(w) \/ DeleteFails(w) PROVE StateOK'
  <2>1. WorkersOK'
    BY <1>9, ReturnOK DEF DeleteMessages, DeleteFails, historyVars
  <2>2. CASE DeleteMessages(w)
    <3>1. table' \in [User -> Seq(Row)]
      <4>1. <<>> \in Seq(Row) /\ table' = [table EXCEPT ![dest[w]] = <<>>]
        BY <2>2 DEF DeleteMessages, Deleted
      <4>. QED  BY <1>0, <4>1 DEF TypeOK
    <3>. QED  BY <1>0, <1>a, <2>1, <2>2, <3>1 DEF DeleteMessages, historyVars, TypeOK
  <2>3. CASE DeleteFails(w)
    BY <1>0, <1>a, <2>1, <2>3 DEF DeleteFails, Fault, historyVars, TypeOK
  <2>. QED  BY <1>9, <2>2, <2>3
<1>10. CASE UNCHANGED deliveryVars
  BY <1>0, <1>10 DEF deliveryVars, workerVars, historyVars, StateOK, TypeOK, HandlersOK, OneHandler
<1>. QED
  BY <1>1, <1>2, <1>3, <1>4, <1>5, <1>6, <1>7, <1>8, <1>9, <1>10 DEF Next, Proceed, Failure

-----------------------------------------------------------------------------
(* No chat disappears without a cause.                                     *)

\* Steps that leave the table and what was received alone, and drop no chat
\* from a hand without an excuse.
LEMMA QuietLoss ==
  ASSUME StateOK, LossOK, table' = table, received' = received,
         excused \subseteq excused', late \subseteq late',
         Range(begun) \subseteq Range(begun'),
         \A c \in Range(begun') \ Range(begun) : InHand(c)',
         \A c \in Chat : InHand(c) => InHand(c)' \/ c \in excused',
         \A w \in Worker :
           pc'[w] \in {"forward", "delete"} =>
             pc'[w] = pc[w] /\ user'[w] = user[w] /\ list'[w] = list[w]
  PROVE  LossOK'
<1>1. PlacesOK'
  BY DEF LossOK, PlacesOK
<1>2. ForwardedOK'
  BY DEF LossOK, ForwardedOK, Received
<1>3. NoSilentLoss'
  <2>1. Range(begun) \subseteq Chat
    BY RangeIsIn DEF StateOK, TypeOK
  <2>. QED  BY <2>1 DEF LossOK, NoSilentLoss, Stored, Received
<1>. QED  BY <1>1, <1>2, <1>3 DEF LossOK

\* A message is sent to its receiver, and gets there or is excused.
LEMMA DeliverLoss ==
  ASSUME StateOK, LossOK, NEW u \in User, NEW m \in Row, NEW reached \in BOOLEAN,
         Deliver(u, m, reached),
         m \in Chat => To[m] = u /\ m \in Range(begun)
  PROVE  /\ \A v \in User : \A c \in Chat :
              c \in Range(received'[v]) => To[c] = v /\ c \in Range(begun)
         /\ \A c \in Chat : Received(c) => Received(c)'
         /\ excused \subseteq excused'
         /\ m \in Chat => Received(m)' \/ m \in excused'
<1>. USE DeliveryAssumption
<1>1. CASE reached /\ m # Notice
  <2>1. m \in Chat /\ received[u] \in Seq(Chat)
    BY <1>1 DEF StateOK, TypeOK, Row
  <2>2. received' = [received EXCEPT ![u] = Append(received[u], m)] /\ excused' = excused
    BY <1>1 DEF Deliver
  <2>3. Range(received'[u]) = Range(received[u]) \cup {m}
        /\ \A v \in User : v # u => received'[v] = received[v]
    BY <2>1, <2>2, RangeOfAppend DEF StateOK, TypeOK
  <2>. QED  BY <2>1, <2>2, <2>3 DEF Received, LossOK, PlacesOK
<1>2. CASE ~(reached /\ m # Notice)
  BY <1>2 DEF Deliver, Received, LossOK, PlacesOK
<1>. QED  BY <1>1, <1>2

LEMMA LossKept ==
  StateOK /\ LossOK /\ [Next]_deliveryVars => LossOK'
<1>. SUFFICES ASSUME StateOK, LossOK, [Next]_deliveryVars PROVE LossOK'
  OBVIOUS
<1>. USE DeliveryAssumption
<1>0. TypeOK /\ HandlersOK /\ OneHandler /\ TypeOK'
  BY StateKept DEF StateOK
<1>1. CASE Crash
  <2>1. \A c \in Chat : InHand(c) => c \in excused'
    BY <1>0, <1>1 DEF Crash, InHand, Range, TypeOK
  <2>. QED  BY <1>1, <2>1, QuietLoss DEF Crash
<1>2. ASSUME NEW u \in User, Environment(u) PROVE LossOK'
  <2>1. /\ UNCHANGED <<table, received, excused, late, begun, pc, user, list, hand>>
    BY <1>2 DEF Environment, LogIn, Leave, EndSession, workerVars, historyVars
  <2>. QED  BY <2>1, QuietLoss DEF InHand
<1>3. ASSUME NEW w \in Worker, NEW u \in User, NEW r \in User, NEW step, NEW m,
             Begin(w, u, step, r, m), step \in {"check", "lookup", "get"},
             Range(begun) \subseteq Range(begun'), Range(begun') \subseteq Range(begun) \cup {m}
      PROVE  LossOK'
  <2>1. \A v \in Worker : v # w => pc'[v] = pc[v] /\ user'[v] = user[v] /\ hand'[v] = hand[v]
    BY <1>0, <1>3 DEF Begin, TypeOK
  <2>2. pc'[w] = step /\ hand'[w] = m /\ hand[w] = None /\ list' = list
    BY <1>0, <1>3 DEF Begin, TypeOK, HandlersOK
  <2>3. \A c \in Chat : InHand(c) => InHand(c)'
    BY <2>1, <2>2 DEF InHand, Row
  <2>4. InHand(m)'
    BY <2>2 DEF InHand
  <2>. QED  BY <1>3, <2>1, <2>2, <2>3, <2>4, QuietLoss DEF Begin
<1>4. ASSUME NEW w \in Worker, Request(w) PROVE LossOK'
  <2>1. ASSUME NEW c \in Chat, BeginChat(w, c) PROVE LossOK'
    <3>1. Range(begun') = Range(begun) \cup {c}
      BY <1>0, <2>1, RangeOfAppend DEF BeginChat, TypeOK
    <3>. QED  BY <1>3, <2>1, <3>1 DEF BeginChat
  <2>. QED  BY <1>3, <1>4, <2>1 DEF Request, BeginNotice, BeginReady
<1>5. ASSUME NEW w \in Worker, Return(w), table' = table, received' = received, late' = late,
             begun' = begun, excused \subseteq excused', hand[w] \in Chat => hand[w] \in excused'
      PROVE  LossOK'
  <2>1. \A v \in Worker :
          v # w => pc'[v] = pc[v] /\ user'[v] = user[v] /\ hand'[v] = hand[v] /\ list'[v] = list[v]
    BY <1>0, <1>5 DEF Return, TypeOK
  <2>2. pc'[w] = "idle"
    BY <1>0, <1>5 DEF Return, TypeOK
  <2>3. \A c \in Chat : InHand(c) => InHand(c)' \/ c \in excused'
    BY <1>5, <2>1 DEF InHand
  <2>. QED  BY <1>5, <2>1, <2>2, <2>3, QuietLoss
<1>6. ASSUME NEW w \in Worker, NEW step, Goto(w, step), step \notin {"forward", "delete"},
             UNCHANGED <<table, received, excused, late, begun, list>>
      PROVE  LossOK'
  <2>1. \A v \in Worker : pc'[v] \in {"forward", "delete"} => pc'[v] = pc[v]
    BY <1>0, <1>6 DEF Goto, TypeOK
  <2>. QED  BY <1>6, <2>1, QuietLoss DEF Goto, InHand
<1>7. ASSUME NEW w \in Worker, Refuse(w) PROVE LossOK'
  BY <1>5, <1>7 DEF Refuse
<1>8. ASSUME NEW w \in Worker, Check(w) \/ Lookup(w) PROVE LossOK'
  BY <1>6, <1>8 DEF Check, Lookup, historyVars
<1>9. ASSUME NEW w \in Worker, FindNotice(w) \/ FindFails(w) PROVE LossOK'
  <2>1. hand[w] \notin Chat
    BY <1>0, <1>9 DEF FindNotice, FindFails, HandlersOK
  <2>. QED  BY <1>5, <1>6, <1>9, <2>1 DEF FindNotice, FindFails, historyVars
<1>10. ASSUME NEW w \in Worker, SaveFails(w) PROVE LossOK'
  BY <1>5, <1>10 DEF SaveFails
<1>11. ASSUME NEW w \in Worker, DeleteFails(w) PROVE LossOK'
  <2>1. hand[w] \notin Chat
    BY <1>0, <1>11 DEF DeleteFails, HandlersOK, ReadySteps, Row
  <2>. QED  BY <1>5, <1>11, <2>1 DEF DeleteFails, historyVars
<1>12. ASSUME NEW w \in Worker, SendDirect(w) \/ SendFails(w) PROVE LossOK'
  <2>1. /\ pc[w] = "send" /\ hand[w] \in Row /\ dest[w] \in User
        /\ hand[w] \in Chat => To[hand[w]] = dest[w] /\ hand[w] \in Range(begun)
    BY <1>0, <1>12 DEF SendDirect, SendFails, HandlersOK, HandSteps
  <2>0. PICK m \in Row : m = hand[w]
    BY <2>1
  <2>2. PICK reached \in BOOLEAN : Deliver(dest[w], hand[w], reached)
    BY <1>12 DEF SendDirect, SendFails
  <2>3. UNCHANGED <<table, begun, late>> /\ Return(w)
    BY <1>12 DEF SendDirect, SendFails
  <2>4. /\ \A v \in User : \A c \in Chat :
              c \in Range(received'[v]) => To[c] = v /\ c \in Range(begun)
        /\ \A c \in Chat : Received(c) => Received(c)'
        /\ excused \subseteq excused'
        /\ m \in Chat => Received(m)' \/ m \in excused'
    BY <2>0, <2>1, <2>2, DeliverLoss
  <2>5. /\ pc'[w] = "idle"
        /\ \A v \in Worker : v # w =>
              pc'[v] = pc[v] /\ user'[v] = user[v] /\ hand'[v] = hand[v] /\ list'[v] = list[v]
    BY <1>0, <2>3 DEF Return, TypeOK
  <2>6. PlacesOK'
    BY <2>3, <2>4, <2>5 DEF LossOK, PlacesOK
  <2>7. ForwardedOK'
    BY <2>3, <2>4, <2>5 DEF LossOK, ForwardedOK
  <2>8. NoSilentLoss'
    <3>1. Range(begun) \subseteq Chat
      BY <1>0, RangeIsIn DEF TypeOK
    <3>2. \A c \in Chat : InHand(c) => InHand(c)' \/ Received(c)' \/ c \in excused'
      BY <2>0, <2>4, <2>5 DEF InHand
    <3>. QED  BY <2>3, <2>4, <3>1, <3>2 DEF LossOK, NoSilentLoss, Stored
  <2>. QED  BY <2>6, <2>7, <2>8 DEF LossOK
<1>13. ASSUME NEW w \in Worker, SaveMessage(w) PROVE LossOK'
  <2>1. /\ hand[w] \in Row /\ dest[w] \in User
        /\ hand[w] \in Chat => To[hand[w]] = dest[w] /\ hand[w] \in Range(begun)
    BY <1>0, <1>13 DEF SaveMessage, HandlersOK, HandSteps
  <2>2. /\ Range(table'[dest[w]]) = Range(table[dest[w]]) \cup {hand[w]}
        /\ \A u \in User : u # dest[w] => table'[u] = table[u]
    BY <1>0, <1>13, <2>1, RangeOfAppend DEF SaveMessage, TypeOK
  <2>3. UNCHANGED <<begun, received, excused>> /\ Return(w) /\ late \subseteq late'
    BY <1>13 DEF SaveMessage
  <2>4. /\ pc'[w] = "idle"
        /\ \A v \in Worker : v # w =>
              pc'[v] = pc[v] /\ user'[v] = user[v] /\ hand'[v] = hand[v] /\ list'[v] = list[v]
    BY <1>0, <2>3 DEF Return, TypeOK
  <2>5. PlacesOK'
    <3>1. \A v \in Worker :
            pc'[v] = "forward" => Range(list'[v]) \subseteq Range(table'[user'[v]])
      <4>1. \A v \in Worker : pc[v] = "forward" => user[v] \in User
        BY <1>0 DEF HandlersOK, TypeOK
      <4>. QED  BY <2>2, <2>4, <4>1 DEF LossOK, PlacesOK
    <3>2. \A u \in User : \A c \in Chat :
            c \in Range(table'[u]) \cup Range(received'[u]) => To[c] = u /\ c \in Range(begun')
      BY <2>1, <2>2, <2>3 DEF LossOK, PlacesOK
    <3>. QED  BY <3>1, <3>2 DEF PlacesOK
  <2>6. ForwardedOK'
    <3>. SUFFICES ASSUME NEW v \in Worker, pc'[v] \in {"forward", "delete"},
                         NEW c \in Chat, c \in Range(table'[user'[v]])
                  PROVE  \/ pc'[v] = "forward" /\ c \in Range(list'[v])
                         \/ Received(c)'
                         \/ c \in excused' \cup late'
      BY DEF ForwardedOK
    <3>1. v # w /\ pc'[v] = pc[v] /\ user'[v] = user[v] /\ list'[v] = list[v]
      BY <2>4
    <3>2. user[v] \in User
      BY <1>0, <3>1 DEF HandlersOK, TypeOK
    <3>3. CASE c \in Range(table[user[v]])
      BY <2>3, <3>1, <3>3 DEF LossOK, ForwardedOK, Received
    <3>4. CASE c = hand[w] /\ user[v] = dest[w]
      BY <1>13, <3>1, <3>4 DEF SaveMessage, Forwarding
    <3>. QED  BY <2>2, <3>1, <3>2, <3>3, <3>4
  <2>7. NoSilentLoss'
    <3>1. Range(begun) \subseteq Chat
      BY <1>0, RangeIsIn DEF TypeOK
    <3>2. \A c \in Chat : InHand(c) => InHand(c)' \/ Stored(c)'
      BY <2>1, <2>2, <2>4 DEF InHand, Stored
    <3>3. \A c \in Chat : Stored(c) => Stored(c)'
      BY <2>2 DEF Stored
    <3>. QED  BY <2>3, <3>1, <3>2, <3>3 DEF LossOK, NoSilentLoss, Received
  <2>. QED  BY <2>5, <2>6, <2>7 DEF LossOK
<1>14. ASSUME NEW w \in Worker, GetMessages(w) \/ GetFails(w) PROVE LossOK'
  <2>1. pc[w] = "get" /\ hand[w] \notin Chat /\ dest[w] = user[w] /\ user[w] \in User
    BY <1>0, <1>14 DEF GetMessages, GetFails, HandlersOK, ReadySteps, TypeOK, Row
  <2>2. UNCHANGED <<table, received, late, begun>> /\ excused \subseteq excused'
    BY <1>14 DEF GetMessages, GetFails, historyVars
  <2>3. CASE Return(w)
    BY <1>5, <2>1, <2>2, <2>3
  <2>4. ASSUME NEW rows \in Seq(Row), Goto(w, "forward"), list' = [list EXCEPT ![w] = rows],
               Range(rows) \subseteq Range(table[user[w]]),
               \A c \in Chat : c \in Range(table[user[w]]) => c \in Range(rows) \/ c \in excused'
        PROVE  LossOK'
    <3>1. /\ pc'[w] = "forward" /\ list'[w] = rows /\ user' = user /\ hand' = hand
          /\ \A v \in Worker : v # w => pc'[v] = pc[v] /\ list'[v] = list[v]
      BY <1>0, <2>4 DEF Goto, TypeOK
    <3>2. PlacesOK'
      BY <2>2, <2>4, <3>1 DEF LossOK, PlacesOK
    <3>3. ForwardedOK'
      BY <2>2, <2>4, <3>1 DEF LossOK, ForwardedOK, Received
    <3>4. NoSilentLoss'
      BY <2>2, <3>1 DEF LossOK, NoSilentLoss, InHand, Stored, Received
    <3>. QED  BY <3>2, <3>3, <3>4 DEF LossOK
  <2>5. CASE GetMessages(w)
    <3>1. table[user[w]] \in Seq(Row)
      BY <1>0, <2>1 DEF TypeOK
    <3>. QED  BY <2>1, <2>3, <2>4, <2>5, <3>1 DEF GetMessages, Fetched
  <2>6. CASE GetFails(w)
    <3>. DEFINE t == table[user[w]]
    <3>1. PICK n \in 0..Len(t) :
            /\ excused' = excused \cup {c \in Chat : \E i \in DOMAIN t : i > n /\ t[i] = c}
            /\ n # 0 => list' = [list EXCEPT ![w] = SubSeq(t, 1, n)] /\ Goto(w, "forward")
            /\ n = 0 => Return(w)
      BY <2>1, <2>6 DEF GetFails
    <3>2. t \in Seq(Row)
      BY <1>0, <2>1 DEF TypeOK
    <3>3. /\ SubSeq(t, 1, n) \in Seq(Row)
          /\ DOMAIN SubSeq(t, 1, n) = 1..n
          /\ \A i \in 1..n : SubSeq(t, 1, n)[i] = t[i]
          /\ DOMAIN t = 1..Len(t) /\ Len(t) \in Nat
      BY <3>2
    <3>4. Range(SubSeq(t, 1, n)) \subseteq Range(t)
      BY <3>3 DEF Range
    <3>5. \A c \in Chat : c \in Range(t) => c \in Range(SubSeq(t, 1, n)) \/ c \in excused'
      BY <3>1, <3>3 DEF Range
    <3>. QED  BY <2>3, <2>4, <3>1, <3>3, <3>4, <3>5
  <2>. QED  BY <1>14, <2>5, <2>6
<1>15. ASSUME NEW w \in Worker, Forward(w) \/ ForwardFails(w) PROVE LossOK'
  <2>1. PICK reached \in BOOLEAN : Forwarded(w, reached)
    BY <1>15 DEF Forward, ForwardFails
  <2>2. /\ pc[w] = "forward" /\ user[w] \in User /\ list[w] \in Seq(Row) /\ list[w] # <<>>
        /\ UNCHANGED <<table, begun, late>> /\ Deliver(user[w], Head(list[w]), reached)
    BY <1>0, <2>1 DEF Forwarded, HandlersOK, TypeOK
  <2>3. /\ Head(list[w]) \in Row
        /\ Range(list[w]) = {Head(list[w])} \cup Range(Tail(list[w]))
        /\ Len(list[w]) = 1 => Tail(list[w]) = <<>>
    BY <2>2, RangeOfTail
  <2>0. PICK m \in Row : m = Head(list[w])
    BY <2>3
  <2>4. Head(list[w]) \in Chat => To[Head(list[w])] = user[w] /\ Head(list[w]) \in Range(begun)
    BY <2>2, <2>3 DEF LossOK, PlacesOK
  <2>5. /\ \A v \in User : \A c \in Chat :
              c \in Range(received'[v]) => To[c] = v /\ c \in Range(begun)
        /\ \A c \in Chat : Received(c) => Received(c)'
        /\ excused \subseteq excused'
        /\ m \in Chat => Received(m)' \/ m \in excused'
    BY <2>0, <2>2, <2>3, <2>4, DeliverLoss
  <2>6. /\ list'[w] = Tail(list[w]) /\ user' = user /\ hand' = hand
        /\ pc'[w] \in {"forward", "delete"}
        /\ pc'[w] # "forward" => Range(Tail(list[w])) = {}
        /\ \A v \in Worker : v # w => pc'[v] = pc[v] /\ list'[v] = list[v]
    BY <1>0, <2>1, <2>3 DEF Forwarded, Goto, TypeOK, Range
  <2>7. PlacesOK'
    BY <2>2, <2>3, <2>5, <2>6 DEF LossOK, PlacesOK
  <2>8. ForwardedOK'
    BY <2>0, <2>2, <2>3, <2>5, <2>6 DEF LossOK, ForwardedOK
  <2>9. NoSilentLoss'
    <3>1. Range(begun) \subseteq Chat
      BY <1>0, RangeIsIn DEF TypeOK
    <3>. QED  BY <2>2, <2>5, <2>6, <3>1 DEF LossOK, NoSilentLoss, InHand, Stored
  <2>. QED  BY <2>7, <2>8, <2>9 DEF LossOK
<1>16. ASSUME NEW w \in Worker, DeleteMessages(w) PROVE LossOK'
  <2>1. pc[w] = "delete" /\ dest[w] = user[w] /\ user[w] \in User /\ hand[w] \notin Chat
    BY <1>0, <1>16 DEF DeleteMessages, HandlersOK, ReadySteps, TypeOK, Row
  <2>2. /\ table'[user[w]] = <<>> /\ \A u \in User : u # user[w] => table'[u] = table[u]
        /\ UNCHANGED <<begun, received, excused, late>> /\ Return(w)
    BY <1>0, <1>16, <2>1 DEF DeleteMessages, Deleted, historyVars, TypeOK
  <2>3. /\ pc'[w] = "idle"
        /\ \A v \in Worker : v # w =>
              pc'[v] = pc[v] /\ user'[v] = user[v] /\ hand'[v] = hand[v] /\ list'[v] = list[v]
    BY <1>0, <2>2 DEF Return, TypeOK
  <2>4. Range(table'[user[w]]) = {}
    BY <2>2 DEF Range
  <2>5. \A v \in Worker : v # w /\ pc[v] # "idle" => user[v] \in User /\ user[v] # user[w]
    BY <1>0, <2>1 DEF HandlersOK, OneHandler, TypeOK
  <2>6. PlacesOK'
    BY <2>2, <2>3, <2>4, <2>5 DEF LossOK, PlacesOK
  <2>7. ForwardedOK'
    BY <2>2, <2>3, <2>5 DEF LossOK, ForwardedOK, Received
  <2>8. NoSilentLoss'
    <3>1. Range(begun) \subseteq Chat
      BY <1>0, RangeIsIn DEF TypeOK
    <3>2. \A c \in Chat : InHand(c) => InHand(c)'
      BY <2>1, <2>3 DEF InHand
    <3>3. \A c \in Chat : Stored(c) => Stored(c)' \/ Received(c) \/ c \in excused \cup late
      <4>. SUFFICES ASSUME NEW c \in Chat, Stored(c)
                    PROVE  Stored(c)' \/ Received(c) \/ c \in excused \cup late
        OBVIOUS
      <4>1. CASE To[c] = user[w]
        BY <2>1, <4>1 DEF LossOK, ForwardedOK, Stored
      <4>2. CASE To[c] # user[w]
        BY <2>2, <4>2 DEF Stored
      <4>. QED  BY <4>1, <4>2
    <3>. QED  BY <2>2, <3>1, <3>2, <3>3 DEF LossOK, NoSilentLoss, Received
  <2>. QED  BY <2>6, <2>7, <2>8 DEF LossOK
<1>17. CASE UNCHANGED deliveryVars
  BY <1>17, QuietLoss DEF deliveryVars, workerVars, historyVars, InHand
<1>. QED
  BY <1>1, <1>2, <1>4, <1>7, <1>8, <1>9, <1>10, <1>11, <1>12, <1>13, <1>14, <1>15, <1>16, <1>17
  DEF Next, Proceed, Failure

-----------------------------------------------------------------------------
(* No chat arrives twice.                                                  *)

LEMMA CopiesCounted ==
  ASSUME TypeOK, NEW u \in User, NEW c
  PROVE  /\ IsFiniteSet(Copies(u, c)) /\ Cardinality(Copies(u, c)) \in Nat
         /\ c \notin Range(received[u]) => Cardinality(Copies(u, c)) = 0
<1>1. received[u] \in Seq(Chat) /\ DOMAIN received[u] = 1..Len(received[u]) /\ Len(received[u]) \in Nat
  BY DEF TypeOK
<1>2. IsFiniteSet(1..Len(received[u])) /\ Copies(u, c) \subseteq 1..Len(received[u])
  BY <1>1, FS_Interval DEF Copies
<1>3. c \notin Range(received[u]) => Copies(u, c) = {}
  BY DEF Copies, Range
<1>. QED  BY <1>2, <1>3, FS_Subset, FS_CardinalityType, FS_EmptySet

LEMMA CopiesOfAppend ==
  ASSUME TypeOK, NEW u \in User, NEW m \in Chat, NEW c \in Chat,
         received'[u] = Append(received[u], m)
  PROVE  Cardinality(Copies(u, c)') = Cardinality(Copies(u, c)) + (IF c = m THEN 1 ELSE 0)
<1>. DEFINE n == Len(received[u])
<1>1. /\ received[u] \in Seq(Chat) /\ n \in Nat /\ DOMAIN received[u] = 1..n
      /\ DOMAIN received'[u] = 1..(n + 1) /\ received'[u][n + 1] = m
      /\ \A i \in 1..n : received'[u][i] = received[u][i]
  BY DEF TypeOK
<1>2. Copies(u, c)' = Copies(u, c) \cup (IF c = m THEN {n + 1} ELSE {}) /\ n + 1 \notin Copies(u, c)
  BY <1>1 DEF Copies
<1>3. IsFiniteSet(Copies(u, c)) /\ Cardinality(Copies(u, c)) \in Nat
  BY CopiesCounted
<1>4. c = m => Cardinality(Copies(u, c)') = Cardinality(Copies(u, c)) + 1
  BY <1>2, <1>3, FS_AddElement
<1>5. c # m => Copies(u, c)' = Copies(u, c)
  BY <1>2
<1>6. c # m => Cardinality(Copies(u, c)') = Cardinality(Copies(u, c))
  BY <1>5
<1>7. CASE c = m
  BY <1>4, <1>7
<1>8. CASE c # m
  BY <1>3, <1>6, <1>8
<1>. QED  BY <1>7, <1>8

\* What is not received now stays in credit, if it is only failures that make
\* it come once more.
LEMMA CreditStays ==
  ASSUME TypeOK, NEW c \in Chat, InCredit(c), received'[To[c]] = received[To[c]],
         faults' \in {faults, faults + 1}, crashes' \in {crashes, crashes + 1},
         ToCome(c)' => \/ ToCome(c) \/ c \notin Range(received[To[c]])
                       \/ faults' = faults + 1 \/ crashes' = crashes + 1
  PROVE  InCredit(c)'
<1>. USE DeliveryAssumption
<1>1. Copies(To[c], c)' = Copies(To[c], c)
  BY DEF Copies
<1>2. Cardinality(Copies(To[c], c)) \in Nat /\ faults \in Nat /\ crashes \in Nat
  BY CopiesCounted DEF TypeOK
<1>3. c \notin Range(received[To[c]]) => Cardinality(Copies(To[c], c)) = 0
  BY CopiesCounted
<1>4. /\ Cardinality(Copies(To[c], c)') <= 1 + faults' + crashes'
      /\ ToCome(c)' => Cardinality(Copies(To[c], c)') <= faults' + crashes'
  <2>. DEFINE n == Cardinality(Copies(To[c], c))
  <2>1. n <= 1 + faults + crashes /\ (ToCome(c) => n <= faults + crashes)
    BY DEF InCredit
  <2>2. n <= 1 + faults' + crashes'
    BY <1>2, <2>1
  <2>3. ToCome(c)' => n <= faults' + crashes'
    BY <1>2, <1>3, <2>1
  <2>. QED  BY <1>1, <2>2, <2>3
<1>. QED  BY <1>4 DEF InCredit

\* What is received was to come, and is so no more.
LEMMA CreditSpent ==
  ASSUME TypeOK, NEW m \in Chat, \A c \in Chat : InCredit(c), NEW u \in User, u = To[m],
         received' = [received EXCEPT ![u] = Append(@, m)],
         faults' = faults, crashes' = crashes, ToCome(m), ~ToCome(m)',
         \A c \in Chat : ToCome(c)' => ToCome(c)
  PROVE  \A c \in Chat : InCredit(c)'
<1>. USE DeliveryAssumption
<1>1. /\ received'[u] = Append(received[u], m)
      /\ \A v \in User : v # u => received'[v] = received[v]
  BY DEF TypeOK
<1>2. ASSUME NEW c \in Chat, To[c] # u PROVE InCredit(c)'
  BY <1>1, <1>2, CreditStays
<1>3. ASSUME NEW c \in Chat, To[c] = u PROVE InCredit(c)'
  <2>1. Cardinality(Copies(u, c)') = Cardinality(Copies(u, c)) + (IF c = m THEN 1 ELSE 0)
    BY <1>1, CopiesOfAppend
  <2>2. Cardinality(Copies(u, c)) \in Nat /\ faults \in Nat /\ crashes \in Nat
    BY CopiesCounted DEF TypeOK
  <2>3. /\ Cardinality(Copies(To[c], c)') <= 1 + faults' + crashes'
        /\ ToCome(c)' => Cardinality(Copies(To[c], c)') <= faults' + crashes'
    BY <1>3, <2>1, <2>2 DEF InCredit
  <2>. QED  BY <2>3 DEF InCredit
<1>. QED  BY <1>2, <1>3

\* Steps that leave the table, what was received and every READY alone.
LEMMA QuietOnce ==
  ASSUME StateOK, LossOK, OnceOK, table' = table, received' = received,
         faults' \in {faults, faults + 1}, crashes' = crashes,
         \A c \in Chat : InHand(c)' => InHand(c) \/ c \notin Range(begun),
         \A w \in Worker :
           pc[w] \in {"forward", "delete"} \/ pc'[w] \in {"forward", "delete"} =>
             pc'[w] = pc[w] /\ user'[w] = user[w] /\ list'[w] = list[w]
  PROVE  OnceOK'
<1>. USE DeliveryAssumption
<1>1. \A c \in Chat : (Stored(c)' <=> Stored(c)) /\ (Received(c)' <=> Received(c))
  BY DEF Stored, Received
<1>2. \A c \in Chat : Stored(c) \/ Received(c) => c \in Range(begun)
  BY DEF LossOK, PlacesOK, Stored, Received
<1>3. \A u \in User : Forwarding(u) => Forwarding(u)'
  BY DEF Forwarding
<1>4. \A c \in Chat : Coming(c)' => Coming(c)
  BY DEF Coming, Forwards
<1>5. OnePlace'
  BY <1>1, <1>2 DEF OnceOK, OnePlace
<1>6. \A c \in Chat : ToCome(c)' => ToCome(c) \/ ~Received(c)
  BY <1>1, <1>2, <1>3, <1>4 DEF ToCome
<1>7. \A c \in Chat : InCredit(c)'
  BY <1>6, CreditStays DEF OnceOK, StateOK, Received
<1>. QED  BY <1>5, <1>7 DEF OnceOK

LEMMA OnceKept ==
  StateOK /\ LossOK /\ OnceOK /\ [Next]_deliveryVars => OnceOK'
<1>. SUFFICES ASSUME StateOK, LossOK, OnceOK, [Next]_deliveryVars PROVE OnceOK'
  OBVIOUS
<1>. USE DeliveryAssumption
<1>0. TypeOK /\ HandlersOK /\ OneHandler /\ PlacesOK /\ OnePlace /\ \A c \in Chat : InCredit(c)
  BY DEF StateOK, LossOK, OnceOK
<1>1. CASE UNCHANGED deliveryVars
  BY <1>1, QuietOnce DEF deliveryVars, workerVars, historyVars, InHand
<1>2. ASSUME NEW u \in User, Environment(u) PROVE OnceOK'
  <2>1. UNCHANGED <<table, received, pc, user, list, hand, faults, crashes>>
    BY <1>2 DEF Environment, LogIn, Leave, EndSession, workerVars, historyVars
  <2>. QED  BY <2>1, QuietOnce DEF InHand
<1>3. ASSUME NEW w \in Worker, Request(w) PROVE OnceOK'
  <2>1. PICK u \in User, r \in User, step \in {"check", "lookup", "get"}, m \in Row \cup {None} :
          Begin(w, u, step, r, m) /\ (m \in Chat => m \notin Range(begun))
    BY <1>3 DEF Request, BeginChat, BeginNotice, BeginReady, Row
  <2>2. /\ UNCHANGED <<table, received, list, faults, crashes>> /\ pc[w] = "idle"
        /\ pc'[w] = step /\ hand'[w] = m
        /\ \A v \in Worker : v # w => pc'[v] = pc[v] /\ user'[v] = user[v] /\ hand'[v] = hand[v]
    BY <1>0, <2>1 DEF Begin, TypeOK
  <2>3. \A c \in Chat : InHand(c)' => InHand(c) \/ c \notin Range(begun)
    BY <2>1, <2>2 DEF InHand
  <2>. QED  BY <2>2, <2>3, QuietOnce
\* A crash puts what was sent and not yet deleted back among what may come.
<1>4. CASE Crash
  <2>1. UNCHANGED <<table, received, faults>> /\ crashes' = crashes + 1
    BY <1>4 DEF Crash
  <2>2. \A w \in Worker : pc'[w] = "idle" /\ hand'[w] = None
    BY <1>4 DEF Crash
  <2>3. OnePlace'
    BY <1>0, <2>1, <2>2 DEF OnePlace, InHand, Row
  <2>4. \A c \in Chat : InCredit(c)'
    BY <1>0, <2>1, CreditStays
  <2>. QED  BY <2>3, <2>4 DEF OnceOK
<1>. SUFFICES ASSUME NEW w \in Worker, Proceed(w) \/ Failure(w) PROVE OnceOK'
  BY <1>1, <1>2, <1>3, <1>4 DEF Next
<1>5. Fault => faults' = faults + 1
  BY DEF Fault
<1>6. /\ Return(w) =>
            /\ pc'[w] = "idle" /\ hand'[w] = None
            /\ \A v \in Worker : v # w =>
                 pc'[v] = pc[v] /\ user'[v] = user[v] /\ hand'[v] = hand[v] /\ list'[v] = list[v]
      /\ \A step : Goto(w, step) =>
            /\ pc'[w] = step /\ user' = user /\ hand' = hand
            /\ \A v \in Worker : v # w => pc'[v] = pc[v]
  BY <1>0 DEF Return, Goto, TypeOK
<1>7. Return(w) => \A c \in Chat : InHand(c)' => InHand(c)
  BY <1>6 DEF InHand, Row
<1>8. CASE \/ Refuse(w) \/ Check(w) \/ Lookup(w) \/ FindNotice(w)
           \/ SendFails(w) \/ FindFails(w) \/ SaveFails(w)
  <2>1. UNCHANGED <<table, received, crashes>> /\ pc[w] \in HandSteps /\ faults' \in {faults, faults + 1}
    BY <1>5, <1>8 DEF Refuse, Check, Lookup, FindNotice, SendFails, FindFails, SaveFails, Deliver,
                      historyVars, HandSteps
  <2>2. \/ Return(w)
        \/ \E step \in HandSteps : Goto(w, step) /\ list' = list
    BY <1>8 DEF Refuse, Check, Lookup, FindNotice, SendFails, FindFails, SaveFails, HandSteps
  <2>3. \A c \in Chat : InHand(c)' => InHand(c)
    BY <1>6, <1>7, <2>2 DEF InHand
  <2>. QED  BY <1>6, <2>1, <2>2, <2>3, QuietOnce DEF HandSteps
\* One worker has a chat in hand: the one that handles its sender's request.
<1>9. \A v \in Worker : hand[v] = hand[w] /\ hand[w] \in Chat => v = w
  BY <1>0 DEF HandlersOK, OneHandler, TypeOK
<1>10. CASE SendDirect(w)
  <2>1. /\ pc[w] = "send" /\ hand[w] \in Row /\ dest[w] \in User /\ Return(w) /\ table' = table
        /\ hand[w] \in Chat => To[hand[w]] = dest[w]
        /\ UNCHANGED <<faults, crashes>>
    BY <1>0, <1>10 DEF SendDirect, HandlersOK, HandSteps
  <2>2. PICK reached \in BOOLEAN : Deliver(dest[w], hand[w], reached)
    BY <1>10 DEF SendDirect
  <2>3. CASE reached /\ hand[w] \in Chat
    <3>1. PICK m \in Chat : m = hand[w]
      BY <2>3
    <3>2. InHand(m) /\ ~Stored(m) /\ ~Received(m)
      BY <1>0, <3>1 DEF InHand, OnePlace
    <3>3. received' = [received EXCEPT ![dest[w]] = Append(@, m)] /\ To[m] = dest[w]
      BY <2>1, <2>2, <2>3, <3>1 DEF Deliver
    <3>4. /\ received[dest[w]] \in Seq(Chat)
          /\ Range(received'[dest[w]]) = Range(received[dest[w]]) \cup {m}
          /\ \A u \in User : u # dest[w] => received'[u] = received[u]
      BY <1>0, <2>1, <3>3, RangeOfAppend DEF TypeOK
    <3>5. \A c \in Chat : Received(c)' => Received(c) \/ c = m
      BY <2>1, <3>4 DEF Received
    <3>6. \A c \in Chat : InHand(c)' => InHand(c) /\ c # m
      BY <1>6, <1>9, <2>1, <3>1 DEF InHand, Row
    <3>7. \A c \in Chat : Stored(c)' <=> Stored(c)
      BY <2>1 DEF Stored
    <3>8. OnePlace'
      BY <1>0, <1>6, <2>1, <3>5, <3>6, <3>7 DEF OnePlace
    <3>9. \A c \in Chat : (Forwarding(To[c]) => Forwarding(To[c])') /\ (Coming(c)' => Coming(c))
      BY <1>6, <2>1 DEF Forwarding, Coming, Forwards
    <3>10. \A c \in Chat : ToCome(c)' => ToCome(c) /\ c # m
      BY <3>2, <3>6, <3>7, <3>9 DEF ToCome
    <3>11. \A c \in Chat : InCredit(c)'
      BY <1>0, <2>1, <3>2, <3>3, <3>10, CreditSpent DEF ToCome
    <3>. QED  BY <3>8, <3>11 DEF OnceOK
  <2>4. CASE ~(reached /\ hand[w] \in Chat)
    <3>1. received' = received
      BY <2>1, <2>2, <2>4 DEF Deliver, Row
    <3>. QED  BY <1>6, <1>7, <2>1, <3>1, QuietOnce
  <2>. QED  BY <2>3, <2>4
<1>11. CASE SaveMessage(w)
  <2>1. /\ pc[w] = "save" /\ hand[w] \in Row /\ dest[w] \in User /\ Return(w)
        /\ UNCHANGED <<received, faults, crashes>>
        /\ hand[w] \in Chat => To[hand[w]] = dest[w]
    BY <1>0, <1>11 DEF SaveMessage, HandlersOK, HandSteps
  <2>2. PICK m \in Row : m = hand[w]
    BY <2>1
  <2>3. m \in Chat => InHand(m) /\ ~Stored(m) /\ ~Received(m) /\ m \notin Range(table[dest[w]])
    BY <1>0, <2>1, <2>2 DEF InHand, OnePlace, Stored
  <2>4. /\ table[dest[w]] \in Seq(Row) /\ table'[dest[w]] = Append(table[dest[w]], m)
        /\ Range(table'[dest[w]]) = Range(table[dest[w]]) \cup {m}
        /\ \A u \in User : u # dest[w] => table'[u] = table[u]
    BY <1>0, <1>11, <2>1, <2>2, RangeOfAppend DEF SaveMessage, TypeOK
  <2>5. \A u \in User : ChatsDistinct(table'[u])
    <3>1. ChatsDistinct(table[dest[w]])
      BY <1>0, <2>1 DEF OnePlace
    <3>2. ChatsDistinct(Append(table[dest[w]], m))
      BY <2>3, <2>4, <3>1, DistinctAppend
    <3>. QED  BY <1>0, <2>4, <3>2 DEF OnePlace
  <2>6. \A c \in Chat : Stored(c)' => Stored(c) \/ c = m
    BY <2>4 DEF Stored
  <2>7. \A c \in Chat : InHand(c)' => InHand(c) /\ c # m
    BY <1>6, <1>9, <2>1, <2>2 DEF InHand, Row
  <2>8. \A c \in Chat : Received(c)' <=> Received(c)
    BY <2>1 DEF Received
  <2>9. \A c \in Chat : (Forwarding(To[c]) => Forwarding(To[c])') /\ (Coming(c)' => Coming(c))
    BY <1>6, <2>1 DEF Forwarding, Coming, Forwards
  <2>10. \A v \in Worker : pc'[v] = "forward" => pc[v] = "forward" /\ list'[v] = list[v]
    BY <1>6, <2>1
  <2>11. OnePlace'
    BY <1>0, <2>3, <2>5, <2>6, <2>7, <2>8, <2>10 DEF OnePlace
  <2>12. \A c \in Chat : ToCome(c)' => ToCome(c)
    BY <2>3, <2>6, <2>7, <2>9 DEF ToCome
  <2>. QED  BY <1>0, <2>1, <2>11, <2>12, CreditStays DEF OnceOK
\* The rows read, all or the first of them, come from here on.
<1>12. CASE GetMessages(w) \/ GetFails(w)
  <2>1. /\ pc[w] = "get" /\ dest[w] = user[w] /\ user[w] \in User
        /\ UNCHANGED <<table, received, crashes>> /\ faults' \in {faults, faults + 1}
    BY <1>0, <1>5, <1>12 DEF GetMessages, GetFails, HandlersOK, ReadySteps, TypeOK, historyVars
  <2>2. CASE Return(w)
    BY <1>6, <1>7, <2>1, <2>2, QuietOnce
  <2>3. ASSUME NEW rows, Goto(w, "forward"), list' = [list EXCEPT ![w] = rows],
               ChatsDistinct(rows)
        PROVE  OnceOK'
    <3>1. /\ pc'[w] = "forward" /\ list'[w] = rows /\ user' = user /\ hand' = hand
          /\ \A v \in Worker : v # w => pc'[v] = pc[v] /\ list'[v] = list[v]
      BY <1>0, <1>6, <2>3 DEF TypeOK
    <3>2. \A c \in Chat :
            /\ InHand(c)' <=> InHand(c)
            /\ Stored(c)' <=> Stored(c)
            /\ Received(c)' <=> Received(c)
      BY <2>1, <3>1 DEF InHand, Stored, Received
    <3>3. ~Forwarding(user[w])
      BY <1>0, <2>1 DEF Forwarding, OneHandler
    <3>4. \A c \in Chat : Forwarding(To[c]) => Forwarding(To[c])' /\ (Coming(c)' => Coming(c))
      BY <2>1, <3>1, <3>3 DEF Forwarding, Coming, Forwards
    <3>5. \A v \in Worker : pc'[v] = "forward" => ChatsDistinct(list'[v])
      BY <1>0, <2>3, <3>1 DEF OnePlace
    <3>6. OnePlace'
      BY <1>0, <2>1, <3>2, <3>5 DEF OnePlace
    <3>7. \A c \in Chat : ToCome(c)' => ToCome(c)
      BY <3>2, <3>4 DEF ToCome
    <3>. QED  BY <1>0, <2>1, <3>6, <3>7, CreditStays DEF OnceOK
  <2>4. table[user[w]] \in Seq(Row) /\ ChatsDistinct(table[user[w]])
    BY <1>0, <2>1 DEF TypeOK, OnePlace
  <2>5. \A n \in 0..Len(table[user[w]]) : ChatsDistinct(SubSeq(table[user[w]], 1, n))
    BY <2>4 DEF ChatsDistinct
  <2>6. CASE GetMessages(w)
    BY <2>1, <2>2, <2>3, <2>4, <2>6 DEF GetMessages, Fetched
  <2>7. CASE GetFails(w)
    <3>1. PICK n \in 0..Len(table[user[w]]) :
            \/ Return(w)
            \/ Goto(w, "forward") /\ list' = [list EXCEPT ![w] = SubSeq(table[user[w]], 1, n)]
      BY <2>1, <2>7 DEF GetFails
    <3>2. ChatsDistinct(SubSeq(table[user[w]], 1, n))
      BY <2>5
    <3>3. CASE Goto(w, "forward") /\ list' = [list EXCEPT ![w] = SubSeq(table[user[w]], 1, n)]
      BY <2>3, <3>2, <3>3
    <3>. QED  BY <2>2, <3>1, <3>3
  <2>. QED  BY <1>12, <2>6, <2>7
<1>13. CASE Forward(w) \/ ForwardFails(w)
  <2>1. PICK reached \in BOOLEAN :
          /\ Forwarded(w, reached)
          /\ faults' = faults \/ (faults' = faults + 1 /\ ~reached)
    BY <1>5, <1>13 DEF Forward, ForwardFails
  <2>2. /\ pc[w] = "forward" /\ user[w] \in User /\ list[w] \in Seq(Row) /\ list[w] # <<>>
        /\ UNCHANGED <<table, crashes>> /\ Deliver(user[w], Head(list[w]), reached)
    BY <1>0, <2>1 DEF Forwarded, HandlersOK, TypeOK
  <2>3. PICK m \in Row : m = Head(list[w])
    BY <2>2, RangeOfTail
  <2>4. /\ Range(list[w]) = {m} \cup Range(Tail(list[w]))
        /\ ChatsDistinct(Tail(list[w]))
        /\ m \in Chat => m \notin Range(Tail(list[w])) /\ Stored(m) /\ To[m] = user[w]
    <3>1. ChatsDistinct(list[w])
      BY <1>0, <2>2 DEF OnePlace
    <3>2. Range(list[w]) = {m} \cup Range(Tail(list[w]))
      BY <2>2, <2>3, RangeOfTail
    <3>3. m \in Chat => m \in Range(table[user[w]])
      BY <1>0, <2>2, <3>2 DEF PlacesOK
    <3>4. m \in Chat => To[m] = user[w]
      BY <1>0, <2>2, <3>3 DEF PlacesOK
    <3>. QED  BY <2>2, <2>3, <3>1, <3>2, <3>3, <3>4, DistinctTail DEF Stored
  <2>5. /\ list'[w] = Tail(list[w]) /\ user' = user /\ hand' = hand
        /\ pc'[w] \in {"forward", "delete"}
        /\ \A v \in Worker : v # w => pc'[v] = pc[v] /\ list'[v] = list[v]
    BY <1>0, <1>6, <2>1 DEF Forwarded, TypeOK
  <2>6. \A c \in Chat : (InHand(c)' <=> InHand(c)) /\ (Stored(c)' <=> Stored(c))
    BY <2>2, <2>5 DEF InHand, Stored
  <2>7. \A u \in User : Forwarding(u) => Forwarding(u)'
    BY <2>5 DEF Forwarding
  <2>8. \A c \in Chat : Coming(c)' => Coming(c)
    BY <2>2, <2>4, <2>5 DEF Coming, Forwards
  <2>9. \A c \in Chat : ToCome(c)' => ToCome(c)
    BY <2>6, <2>7, <2>8 DEF ToCome
  <2>10. m \in Chat => ToCome(m) /\ ~ToCome(m)'
    <3>1. m \in Chat => Coming(m) /\ Forwarding(To[m])'
      BY <2>2, <2>4, <2>5 DEF Coming, Forwards, Forwarding
    <3>2. m \in Chat => ~Coming(m)'
      <4>1. ASSUME m \in Chat, NEW v \in Worker, Forwards(v, To[m])' PROVE v = w
        BY <1>0, <2>2, <2>4, <2>5, <4>1 DEF Forwards, OneHandler
      <4>. QED  BY <2>4, <2>5, <4>1 DEF Coming
    <3>3. m \in Chat => ~InHand(m)'
      BY <1>0, <2>4, <2>6 DEF OnePlace
    <3>. QED  BY <2>4, <3>1, <3>2, <3>3 DEF ToCome
  <2>11. \A v \in Worker : pc'[v] = "forward" => ChatsDistinct(list'[v])
    BY <1>0, <2>2, <2>4, <2>5 DEF OnePlace
  <2>12. CASE received' = received
    <3>1. \A c \in Chat : Received(c)' <=> Received(c)
      BY <2>12 DEF Received
    <3>2. OnePlace'
      BY <1>0, <2>2, <2>6, <2>11, <3>1 DEF OnePlace
    <3>. QED  BY <1>0, <2>1, <2>2, <2>9, <2>12, <3>2, CreditStays DEF OnceOK
  <2>13. CASE /\ m \in Chat /\ reached
              /\ received' = [received EXCEPT ![user[w]] = Append(@, m)]
    <3>1. /\ Range(received'[user[w]]) = Range(received[user[w]]) \cup {m}
          /\ \A u \in User : u # user[w] => received'[u] = received[u]
      BY <1>0, <2>2, <2>13, RangeOfAppend DEF TypeOK
    <3>2. \A c \in Chat : Received(c)' => Received(c) \/ c = m
      BY <2>2, <3>1 DEF Received
    <3>3. OnePlace'
      BY <1>0, <2>2, <2>4, <2>6, <2>11, <2>13, <3>2 DEF OnePlace
    <3>4. \A c \in Chat : InCredit(c)'
      BY <1>0, <2>1, <2>2, <2>4, <2>9, <2>10, <2>13, CreditSpent
    <3>. QED  BY <3>3, <3>4 DEF OnceOK
  <2>. QED  BY <2>2, <2>3, <2>12, <2>13 DEF Deliver, Row
<1>14. CASE DeleteMessages(w)
  <2>1. pc[w] = "delete" /\ dest[w] = user[w] /\ user[w] \in User
    BY <1>0, <1>14 DEF DeleteMessages, HandlersOK, ReadySteps, TypeOK
  <2>2. /\ table'[user[w]] = <<>> /\ \A u \in User : u # user[w] => table'[u] = table[u]
        /\ UNCHANGED <<received, faults, crashes>> /\ Return(w)
    BY <1>0, <1>14, <2>1 DEF DeleteMessages, Deleted, historyVars, TypeOK
  <2>3. Range(table'[user[w]]) = {} /\ ChatsDistinct(table'[user[w]])
    BY <2>2 DEF Range, ChatsDistinct
  <2>4. \A c \in Chat : Stored(c)' => Stored(c) /\ To[c] # user[w]
    BY <2>1, <2>2, <2>3 DEF Stored
  <2>5. \A c \in Chat : Received(c)' <=> Received(c)
    BY <2>2 DEF Received
  <2>6. \A u \in User : Forwarding(u) /\ u # user[w] => Forwarding(u)'
    BY <1>6, <2>2 DEF Forwarding
  <2>7. \A v \in Worker : pc'[v] = "forward" => pc[v] = "forward" /\ list'[v] = list[v]
    BY <1>6, <2>2
  <2>8. \A c \in Chat : Coming(c)' => Coming(c)
    BY <1>6, <2>2 DEF Coming, Forwards
  <2>9. OnePlace'
    BY <1>0, <1>7, <2>2, <2>3, <2>4, <2>5, <2>7 DEF OnePlace
  <2>10. \A c \in Chat : ToCome(c)' => ToCome(c)
    BY <1>7, <2>2, <2>4, <2>6, <2>8 DEF ToCome
  <2>. QED  BY <1>0, <2>2, <2>9, <2>10, CreditStays DEF OnceOK
\* What was sent stays in the table: this failure may bring it once more.
<1>15. CASE DeleteFails(w)
  <2>1. /\ UNCHANGED <<table, received, crashes>> /\ faults' = faults + 1 /\ Return(w)
    BY <1>5, <1>15 DEF DeleteFails, historyVars
  <2>2. \A c \in Chat : (Stored(c)' <=> Stored(c)) /\ (Received(c)' <=> Received(c))
    BY <2>1 DEF Stored, Received
  <2>3. \A v \in Worker : pc'[v] = "forward" => pc[v] = "forward" /\ list'[v] = list[v]
    BY <1>6, <2>1
  <2>4. OnePlace'
    BY <1>0, <1>7, <2>1, <2>2, <2>3 DEF OnePlace
  <2>. QED  BY <1>0, <2>1, <2>4, CreditStays DEF OnceOK
<1>. QED
  BY <1>8, <1>10, <1>11, <1>12, <1>13, <1>14, <1>15 DEF Proceed, Failure

-----------------------------------------------------------------------------
(* Notices do not pile up.                                                 *)

LEMMA NoticesFinite ==
  ASSUME TypeOK, NEW u \in User
  PROVE  /\ IsFiniteSet(NoticeRows(u)) /\ Cardinality(NoticeRows(u)) \in Nat
         /\ IsFiniteSet(SavingNotice(u)) /\ Cardinality(SavingNotice(u)) \in Nat
         /\ Cardinality(SavingNotice(u)) <= Cardinality(Worker)
         /\ Cardinality(Worker) \in Nat
<1>1. table[u] \in Seq(Row) /\ DOMAIN table[u] = 1..Len(table[u]) /\ Len(table[u]) \in Nat
  BY DEF TypeOK
<1>2. IsFiniteSet(1..Len(table[u])) /\ NoticeRows(u) \subseteq 1..Len(table[u])
  BY <1>1, FS_Interval DEF NoticeRows
<1>3. SavingNotice(u) \subseteq Worker
  BY DEF SavingNotice
<1>. QED  BY <1>2, <1>3, DeliveryAssumption, FS_Subset, FS_CardinalityType

\* Steps that neither add a notice nor lead a worker to add one.
LEMMA FewerNotices ==
  ASSUME TypeOK, TypeOK', NoticesBounded, faults' \in {faults, faults + 1}, NEW u \in User,
         NoticeRows(u)' \subseteq NoticeRows(u), SavingNotice(u)' \subseteq SavingNotice(u)
  PROVE  Cardinality(NoticeRows(u)') + Cardinality(SavingNotice(u)') <= Cardinality(Worker) + faults'
<1>1. /\ Cardinality(NoticeRows(u)') <= Cardinality(NoticeRows(u))
      /\ Cardinality(SavingNotice(u)') <= Cardinality(SavingNotice(u))
  BY NoticesFinite, FS_Subset
<1>2. Cardinality(NoticeRows(u)') \in Nat /\ Cardinality(SavingNotice(u)') \in Nat
  BY NoticesFinite, FS_Subset, FS_CardinalityType
<1>3. faults \in Nat
  BY DEF TypeOK
<1>. QED  BY <1>1, <1>2, <1>3, NoticesFinite DEF NoticesBounded

LEMMA NoticesKept ==
  StateOK /\ NoticesBounded /\ [Next]_deliveryVars => NoticesBounded'
<1>. SUFFICES ASSUME StateOK, NoticesBounded, [Next]_deliveryVars, NEW u \in User
              PROVE  Cardinality(NoticeRows(u)') + Cardinality(SavingNotice(u)')
                       <= Cardinality(Worker) + faults'
  BY DEF NoticesBounded
<1>. USE DeliveryAssumption
<1>0. TypeOK /\ HandlersOK /\ TypeOK'
  BY StateKept DEF StateOK
<1>1. /\ faults \in Nat /\ IsFiniteSet(NoticeRows(u)) /\ IsFiniteSet(SavingNotice(u))
      /\ Cardinality(NoticeRows(u)) \in Nat /\ Cardinality(SavingNotice(u)) \in Nat
      /\ Cardinality(Worker) \in Nat
      /\ Cardinality(NoticeRows(u)) + Cardinality(SavingNotice(u)) <= Cardinality(Worker) + faults
  BY <1>0, NoticesFinite DEF TypeOK, NoticesBounded
<1>2. table'[u] = table[u] => NoticeRows(u)' = NoticeRows(u)
  BY DEF NoticeRows
<1>3. ASSUME NEW w \in Worker, FindNotice(w), Goto(w, "save"), ~HasSystemNotify(dest[w])
      PROVE  Cardinality(NoticeRows(u)') + Cardinality(SavingNotice(u)') <= Cardinality(Worker) + faults'
  <2>1. /\ table' = table /\ faults' = faults
        /\ pc'[w] = "save" /\ UNCHANGED <<hand, dest>>
        /\ \A v \in Worker : v # w => pc'[v] = pc[v]
    BY <1>0, <1>3 DEF FindNotice, Goto, historyVars, TypeOK
  <2>2. CASE dest[w] = u
    <3>1. NoticeRows(u)' = {}
      BY <1>2, <1>3, <2>1, <2>2 DEF NoticeRows, HasSystemNotify, Range
    <3>2. SavingNotice(u)' \subseteq Worker
      BY DEF SavingNotice
    <3>3. /\ Cardinality(SavingNotice(u)') <= Cardinality(Worker)
          /\ Cardinality(SavingNotice(u)') \in Nat
      BY <3>2, FS_Subset, FS_CardinalityType
    <3>4. Cardinality(NoticeRows(u)') = 0
      BY <3>1, FS_EmptySet
    <3>. QED  BY <1>1, <2>1, <3>3, <3>4
  <2>3. CASE dest[w] # u
    <3>1. SavingNotice(u)' \subseteq SavingNotice(u)
      BY <2>1, <2>3 DEF SavingNotice
    <3>. QED  BY <1>0, <1>2, <2>1, <3>1, FewerNotices
  <2>. QED  BY <2>2, <2>3
<1>4. ASSUME NEW w \in Worker, FindFails(w)
      PROVE  Cardinality(NoticeRows(u)') + Cardinality(SavingNotice(u)') <= Cardinality(Worker) + faults'
  <2>1. /\ table' = table /\ faults' = faults + 1 /\ UNCHANGED <<hand, dest>>
        /\ \A v \in Worker : v # w => pc'[v] = pc[v]
    BY <1>0, <1>4 DEF FindFails, Fault, Goto, TypeOK
  <2>2. SavingNotice(u)' \subseteq SavingNotice(u) \cup {w}
    BY <2>1 DEF SavingNotice
  <2>3. /\ IsFiniteSet(SavingNotice(u) \cup {w})
        /\ Cardinality(SavingNotice(u) \cup {w}) <= Cardinality(SavingNotice(u)) + 1
        /\ Cardinality(SavingNotice(u) \cup {w}) \in Nat
    <3>1. /\ IsFiniteSet(SavingNotice(u) \cup {w})
          /\ Cardinality(SavingNotice(u) \cup {w})
               \in {Cardinality(SavingNotice(u)), Cardinality(SavingNotice(u)) + 1}
      BY <1>1, FS_AddElement
    <3>. QED  BY <1>1, <3>1
  <2>4. /\ Cardinality(SavingNotice(u)') \in Nat
        /\ Cardinality(SavingNotice(u)') <= Cardinality(SavingNotice(u) \cup {w})
    BY <2>2, <2>3, FS_Subset, FS_CardinalityType
  <2>5. Cardinality(NoticeRows(u)') = Cardinality(NoticeRows(u))
    BY <1>2, <2>1
  <2>. QED  BY <1>1, <2>1, <2>3, <2>4, <2>5
<1>5. ASSUME NEW w \in Worker, SaveMessage(w)
      PROVE  Cardinality(NoticeRows(u)') + Cardinality(SavingNotice(u)') <= Cardinality(Worker) + faults'
  <2>1. /\ pc[w] = "save" /\ dest[w] \in User /\ hand[w] \in Row /\ faults' = faults
        /\ table' = [table EXCEPT ![dest[w]] = Append(table[dest[w]], hand[w])]
    BY <1>0, <1>5 DEF SaveMessage, HandlersOK, HandSteps
  <2>2. /\ pc'[w] = "idle"
        /\ \A v \in Worker : v # w => pc'[v] = pc[v] /\ hand'[v] = hand[v] /\ dest'[v] = dest[v]
    BY <1>0, <1>5 DEF SaveMessage, Return, TypeOK
  <2>3. SavingNotice(u)' = SavingNotice(u) \ {w}
    BY <2>2 DEF SavingNotice
  <2>4. CASE dest[w] = u /\ hand[w] = Notice
    <3>1. /\ Len(table[u]) \in Nat /\ DOMAIN table[u] = 1..Len(table[u])
          /\ DOMAIN table'[u] = 1..(Len(table[u]) + 1)
          /\ \A i \in 1..Len(table[u]) : table'[u][i] = table[u][i]
          /\ table'[u][Len(table[u]) + 1] = Notice
      <4>1. table[u] \in Seq(Row) /\ table'[u] = Append(table[u], Notice) /\ Notice \in Row
        BY <1>0, <2>1, <2>4 DEF TypeOK
      <4>. QED  BY <4>1
    <3>2. NoticeRows(u)' = NoticeRows(u) \cup {Len(table[u]) + 1}
      BY <3>1 DEF NoticeRows
    <3>3. Len(table[u]) + 1 \notin NoticeRows(u)
      BY <3>1 DEF NoticeRows
    <3>4. Cardinality(NoticeRows(u)') = Cardinality(NoticeRows(u)) + 1
      BY <1>1, <3>2, <3>3, FS_AddElement
    <3>5. w \in SavingNotice(u)
      BY <2>1, <2>4 DEF SavingNotice
    <3>6. Cardinality(SavingNotice(u)') = Cardinality(SavingNotice(u)) - 1
      BY <1>1, <2>3, <3>5, FS_RemoveElement
    <3>. QED  BY <1>1, <2>1, <3>4, <3>6
  <2>5. CASE ~(dest[w] = u /\ hand[w] = Notice)
    <3>1. NoticeRows(u)' \subseteq NoticeRows(u)
      <4>1. CASE dest[w] = u
        <5>1. /\ table[u] \in Seq(Row) /\ table'[u] = Append(table[u], hand[w]) /\ hand[w] # Notice
          BY <1>0, <2>1, <2>5, <4>1 DEF TypeOK
        <5>2. /\ Len(table[u]) \in Nat /\ DOMAIN table[u] = 1..Len(table[u])
              /\ DOMAIN table'[u] = 1..(Len(table[u]) + 1)
              /\ \A i \in 1..Len(table[u]) : table'[u][i] = table[u][i]
              /\ table'[u][Len(table[u]) + 1] # Notice
          BY <2>1, <5>1
        <5>3. \A i \in 1..(Len(table[u]) + 1) : i \in 1..Len(table[u]) \/ i = Len(table[u]) + 1
          BY <5>2
        <5>. QED  BY <5>2, <5>3 DEF NoticeRows
      <4>2. CASE dest[w] # u
        <5>1. table'[u] = table[u]
          BY <1>0, <2>1, <4>2 DEF TypeOK
        <5>. QED  BY <1>2, <5>1
      <4>. QED  BY <4>1, <4>2
    <3>. QED  BY <1>0, <2>1, <2>3, <3>1, FewerNotices
  <2>. QED  BY <2>4, <2>5
<1>6. ASSUME NEW w \in Worker, DeleteMessages(w)
      PROVE  Cardinality(NoticeRows(u)') + Cardinality(SavingNotice(u)') <= Cardinality(Worker) + faults'
  <2>1. table'[u] = table[u] \/ table'[u] = <<>>
    BY <1>0, <1>6 DEF DeleteMessages, Deleted, TypeOK
  <2>2. NoticeRows(u)' \subseteq NoticeRows(u)
    BY <2>1 DEF NoticeRows
  <2>3. SavingNotice(u)' \subseteq SavingNotice(u)
    BY <1>0, <1>6 DEF DeleteMessages, Return, SavingNotice, TypeOK
  <2>4. faults' = faults
    BY <1>6 DEF DeleteMessages
  <2>. QED  BY <1>0, <2>2, <2>3, <2>4, FewerNotices
\* Every other step leaves the table alone, and leads to no INSERT of a notice.
<1>7. ASSUME table' = table, faults' \in {faults, faults + 1},
             \A v \in Worker : pc'[v] = "save" /\ hand'[v] = Notice =>
               pc[v] = "save" /\ hand'[v] = hand[v] /\ dest'[v] = dest[v]
      PROVE  Cardinality(NoticeRows(u)') + Cardinality(SavingNotice(u)') <= Cardinality(Worker) + faults'
  <2>1. SavingNotice(u)' \subseteq SavingNotice(u)
    BY <1>7 DEF SavingNotice
  <2>. QED  BY <1>0, <1>2, <1>7, <2>1, FewerNotices
<1>8. ASSUME NEW w \in Worker, Return(w), table' = table, faults' \in {faults, faults + 1}
      PROVE  Cardinality(NoticeRows(u)') + Cardinality(SavingNotice(u)') <= Cardinality(Worker) + faults'
  BY <1>0, <1>7, <1>8 DEF Return, TypeOK
<1>9. ASSUME NEW w \in Worker, NEW step, Goto(w, step), table' = table,
             faults' \in {faults, faults + 1}, step = "save" => hand[w] # Notice
      PROVE  Cardinality(NoticeRows(u)') + Cardinality(SavingNotice(u)') <= Cardinality(Worker) + faults'
  BY <1>0, <1>7, <1>9 DEF Goto, TypeOK
<1>10. CASE Crash
  BY <1>7, <1>10 DEF Crash
<1>11. ASSUME NEW v \in User, Environment(v)
       PROVE  Cardinality(NoticeRows(u)') + Cardinality(SavingNotice(u)') <= Cardinality(Worker) + faults'
  BY <1>7, <1>11 DEF Environment, LogIn, Leave, EndSession, workerVars, historyVars
<1>12. ASSUME NEW w \in Worker, Request(w)
       PROVE  Cardinality(NoticeRows(u)') + Cardinality(SavingNotice(u)') <= Cardinality(Worker) + faults'
  <2>1. PICK v \in User, r \in User, step \in {"check", "lookup", "get"}, m \in Row \cup {None} :
          Begin(w, v, step, r, m)
    BY <1>12 DEF Request, BeginChat, BeginNotice, BeginReady, Row
  <2>. QED  BY <1>0, <1>7, <2>1 DEF Begin, TypeOK
<1>13. ASSUME NEW w \in Worker, Refuse(w) \/ Check(w) \/ Lookup(w) \/ SendDirect(w)
       PROVE  Cardinality(NoticeRows(u)') + Cardinality(SavingNotice(u)') <= Cardinality(Worker) + faults'
  BY <1>8, <1>9, <1>13 DEF Refuse, Check, Lookup, SendDirect
<1>14. ASSUME NEW w \in Worker, GetMessages(w) \/ Forward(w)
       PROVE  Cardinality(NoticeRows(u)') + Cardinality(SavingNotice(u)') <= Cardinality(Worker) + faults'
  BY <1>8, <1>9, <1>14 DEF GetMessages, Forward, Forwarded
<1>15. ASSUME NEW w \in Worker, FindNotice(w)
       PROVE  Cardinality(NoticeRows(u)') + Cardinality(SavingNotice(u)') <= Cardinality(Worker) + faults'
  BY <1>3, <1>8, <1>15 DEF FindNotice
<1>16. ASSUME NEW w \in Worker, Failure(w), ~FindFails(w)
       PROVE  Cardinality(NoticeRows(u)') + Cardinality(SavingNotice(u)') <= Cardinality(Worker) + faults'
  BY <1>8, <1>9, <1>16
  DEF Failure, Fault, SendFails, SaveFails, GetFails, ForwardFails, Forwarded, DeleteFails
<1>17. CASE UNCHANGED deliveryVars
  BY <1>7, <1>17 DEF deliveryVars, workerVars
<1>. QED
  BY <1>4, <1>5, <1>6, <1>10, <1>11, <1>12, <1>13, <1>14, <1>15, <1>16, <1>17 DEF Next, Proceed

-----------------------------------------------------------------------------
(* Chats keep their order.                                                 *)

\* Two chats between the same users, the handler of a the first to begin.
Earlier(a, b) ==
  /\ From[a] = From[b] /\ To[a] = To[b]
  /\ \E i, j \in DOMAIN begun : i < j /\ begun[i] = a /\ begun[j] = b

Before(s, a, b) == \A i, j \in DOMAIN s : s[i] = a /\ s[j] = b => i < j

\* A request is handled while its client's session lasts.
PresentOK == \A w \in Worker : user[w] # None => client[user[w]] # "away"

\* A chat in a handler's hand has been nowhere yet.
HandOK ==
  /\ stored \subseteq Range(begun)
  /\ \A c \in Chat : Stored(c) => c \in stored
  /\ \A c \in Chat : InHand(c) => c \notin stored /\ ~Received(c)

(***************************************************************************)
(* Of two chats between the same users the earlier is out of the sender's  *)
(* hands before the later is in them, so rows are in order; and a READY    *)
(* whose client is there forwards the earlier row first.                   *)
(***************************************************************************)
InOrder(a, b) ==
  /\ ~InHand(a)
  /\ Before(table[To[a]], a, b)
  /\ Stored(a) /\ Received(b) /\ b \in stored => Received(a)
  /\ \A w \in Worker : pc[w] = "forward" =>
       /\ Before(list[w], a, b)
       /\ client[user[w]] = "online" /\ Stored(a) /\ b \in Range(list[w]) =>
            a \in Range(list[w]) \/ Received(a)

OrderOK == faults = 0 => \A a, b \in Chat : Earlier(a, b) => InOrder(a, b)

LEMMA BeforeAppend ==
  ASSUME NEW S, NEW s \in Seq(S), NEW e \in S, NEW a, NEW b, Before(s, a, b), e # a
  PROVE  Before(Append(s, e), a, b)
<1>1. /\ Len(s) \in Nat /\ DOMAIN s = 1..Len(s) /\ DOMAIN Append(s, e) = 1..(Len(s) + 1)
      /\ \A i \in 1..Len(s) : Append(s, e)[i] = s[i]
      /\ Append(s, e)[Len(s) + 1] = e
  OBVIOUS
<1>2. \A i \in 1..(Len(s) + 1) : i \in 1..Len(s) \/ i = Len(s) + 1
  BY <1>1
<1>3. \A i \in 1..Len(s) : i < Len(s) + 1
  BY <1>1
<1>. QED  BY <1>1, <1>2, <1>3 DEF Before

LEMMA BeforeTail ==
  ASSUME NEW S, NEW s \in Seq(S), s # <<>>, NEW a, NEW b, Before(s, a, b)
  PROVE  /\ Before(Tail(s), a, b)
         /\ Head(s) = b => a \notin Range(s)
<1>1. /\ Len(s) \in Nat \ {0} /\ DOMAIN s = 1..Len(s) /\ Head(s) = s[1]
      /\ DOMAIN Tail(s) = 1..(Len(s) - 1)
      /\ \A i \in 1..(Len(s) - 1) : Tail(s)[i] = s[i + 1]
  OBVIOUS
<1>2. \A i \in 1..(Len(s) - 1) : i + 1 \in 1..Len(s)
  BY <1>1
<1>3. Before(Tail(s), a, b)
  <2>. SUFFICES ASSUME NEW i \in 1..(Len(s) - 1), NEW j \in 1..(Len(s) - 1),
                       Tail(s)[i] = a, Tail(s)[j] = b
                PROVE  i < j
    BY <1>1 DEF Before
  <2>1. i + 1 < j + 1
    BY <1>1, <1>2 DEF Before
  <2>. QED  BY <1>1, <2>1
<1>4. ASSUME Head(s) = b, NEW i \in 1..Len(s), s[i] = a PROVE FALSE
  <2>1. i < 1
    BY <1>1, <1>4 DEF Before
  <2>. QED  BY <1>1, <2>1
<1>. QED  BY <1>1, <1>3, <1>4 DEF Range

LEMMA BeforeAbsent ==
  ASSUME NEW s, NEW a, NEW b, a \notin Range(s) \/ b \notin Range(s)
  PROVE  Before(s, a, b)
BY DEF Before, Range

-----------------------------------------------------------------------------
(* What a step does to the history.                                        *)

\* A worker that returns, or goes on, has nothing new in hand.
LEMMA HandsEmptied ==
  ASSUME StateOK, NEW w \in Worker, Return(w) \/ \E step : Goto(w, step)
  PROVE  /\ \A c \in Chat : InHand(c)' => InHand(c)
         /\ Return(w) => \A c \in Chat : c = hand[w] => ~InHand(c)'
         /\ \A v \in Worker : v # w => pc'[v] = pc[v] /\ user'[v] = user[v]
         /\ \A v \in Worker : user'[v] # None => user'[v] = user[v]
         /\ Return(w) => pc'[w] = "idle" /\ \A v \in Worker : v # w => list'[v] = list[v]
         /\ \A step : Goto(w, step) => pc'[w] = step /\ user' = user
<1>. USE DeliveryAssumption
<1>0. TypeOK /\ HandlersOK /\ OneHandler
  BY DEF StateOK
<1>1. \A v \in Worker : v # w =>
        pc'[v] = pc[v] /\ user'[v] = user[v] /\ hand'[v] = hand[v]
  BY <1>0 DEF Return, Goto, TypeOK
<1>2. Return(w) => /\ pc'[w] = "idle" /\ user'[w] = None /\ hand'[w] = None
                   /\ \A v \in Worker : v # w => list'[v] = list[v]
  BY <1>0 DEF Return, TypeOK
<1>3. \A step : Goto(w, step) => pc'[w] = step /\ user' = user /\ hand' = hand
  BY <1>0 DEF Goto, TypeOK
<1>4. \A v \in Worker : hand[v] = hand[w] /\ hand[w] \in Chat => v = w
  BY <1>0 DEF HandlersOK, OneHandler, TypeOK
<1>5. None \notin Chat
  BY DEF Row
<1>. QED  BY <1>1, <1>2, <1>3, <1>4, <1>5 DEF InHand

LEMMA ReceivedGrows ==
  ASSUME TypeOK, NEW m \in Chat,
         received' = [received EXCEPT ![To[m]] = Append(received[To[m]], m)]
  PROVE  \A c \in Chat : Received(c)' <=> Received(c) \/ c = m
<1>1. To[m] \in User /\ received[To[m]] \in Seq(Chat)
  BY DeliveryAssumption DEF TypeOK
<1>2. /\ Range(received'[To[m]]) = Range(received[To[m]]) \cup {m}
      /\ \A u \in User : u # To[m] => received'[u] = received[u]
  BY <1>1, RangeOfAppend DEF TypeOK
<1>. QED  BY <1>2, DeliveryAssumption DEF Received

\* What a client receives was in a handler's hand or in its row.
LEMMA ReceivedStep ==
  ASSUME StateOK, LossOK, [Next]_deliveryVars, received' # received
  PROVE  \E m \in Chat :
           /\ received' = [received EXCEPT ![To[m]] = Append(received[To[m]], m)]
           /\ \/ InHand(m) /\ ~InHand(m)'
              \/ Stored(m) /\ Stored(m)' /\ UNCHANGED hand
           /\ UNCHANGED <<stored, table, begun>>
<1>. USE DeliveryAssumption
<1>0. TypeOK /\ HandlersOK /\ PlacesOK
  BY DEF StateOK, LossOK
<1>1. ASSUME NEW w \in Worker, SendDirect(w) \/ SendFails(w),
             received' = [received EXCEPT ![dest[w]] = Append(@, hand[w])], hand[w] # Notice
      PROVE  \E m \in Chat :
               /\ received' = [received EXCEPT ![To[m]] = Append(received[To[m]], m)]
               /\ InHand(m) /\ ~InHand(m)'
               /\ UNCHANGED <<stored, table, begun>>
  <2>1. pc[w] = "send" /\ hand[w] \in Chat /\ dest[w] = To[hand[w]] /\ Return(w)
    BY <1>0, <1>1 DEF SendDirect, SendFails, HandlersOK, HandSteps, Row
  <2>2. PICK m \in Chat : m = hand[w]
    BY <2>1
  <2>3. InHand(m) /\ ~InHand(m)'
    BY <2>1, <2>2, HandsEmptied DEF InHand
  <2>4. UNCHANGED <<stored, table, begun>>
    BY <1>1 DEF SendDirect, SendFails
  <2>. QED  BY <1>1, <2>1, <2>2, <2>3, <2>4
<1>2. ASSUME NEW w \in Worker, Forward(w) \/ ForwardFails(w),
             received' = [received EXCEPT ![user[w]] = Append(@, Head(list[w]))],
             Head(list[w]) # Notice
      PROVE  \E m \in Chat :
               /\ received' = [received EXCEPT ![To[m]] = Append(received[To[m]], m)]
               /\ Stored(m) /\ Stored(m)' /\ UNCHANGED hand
               /\ UNCHANGED <<stored, table, begun>>
  <2>1. pc[w] = "forward" /\ UNCHANGED <<stored, table, begun, hand>>
    BY <1>2 DEF Forward, ForwardFails, Forwarded, Goto
  <2>2. user[w] \in User /\ list[w] \in Seq(Row) /\ list[w] # <<>>
    BY <1>0, <2>1 DEF HandlersOK, TypeOK
  <2>3. Head(list[w]) \in Row /\ Head(list[w]) \in Range(list[w])
    BY <2>2, RangeOfTail
  <2>4. PICK m \in Chat : m = Head(list[w])
    BY <1>2, <2>3 DEF Row
  <2>5. m \in Range(table[user[w]])
    BY <1>0, <2>1, <2>3, <2>4 DEF PlacesOK
  <2>6. To[m] = user[w] /\ Stored(m) /\ Stored(m)'
    BY <1>0, <2>1, <2>2, <2>5 DEF PlacesOK, Stored
  <2>. QED  BY <1>2, <2>1, <2>4, <2>6
<1>3. ASSUME NEW w \in Worker, SendDirect(w) \/ SendFails(w)
      PROVE  received' = [received EXCEPT ![dest[w]] = Append(@, hand[w])] /\ hand[w] # Notice
  BY <1>3 DEF SendDirect, SendFails, Deliver
<1>4. ASSUME NEW w \in Worker, Forward(w) \/ ForwardFails(w)
      PROVE  received' = [received EXCEPT ![user[w]] = Append(@, Head(list[w]))]
             /\ Head(list[w]) # Notice
  BY <1>4 DEF Forward, ForwardFails, Forwarded, Deliver
<1>5. ~Crash /\ received' # received
  BY DEF Crash
<1>6. \A u \in User : ~Environment(u)
  BY DEF Environment, LogIn, Leave, EndSession, historyVars
<1>7. \A w \in Worker : ~Request(w)
  BY DEF Request, BeginChat, BeginNotice, BeginReady, Begin
<1>8. ASSUME NEW w \in Worker, Proceed(w) \/ Failure(w)
      PROVE  SendDirect(w) \/ SendFails(w) \/ Forward(w) \/ ForwardFails(w)
  BY <1>8 DEF Proceed, Failure, Refuse, Check, Lookup, FindNotice, SaveMessage, GetMessages,
              DeleteMessages, FindFails, SaveFails, GetFails, DeleteFails, historyVars
<1>9. ~UNCHANGED deliveryVars
  BY DEF deliveryVars, historyVars
<1>10. PICK w \in Worker :
         \/ SendDirect(w) \/ SendFails(w)
         \/ Forward(w) \/ ForwardFails(w)
  BY <1>5, <1>6, <1>7, <1>8, <1>9 DEF Next
<1>11. CASE SendDirect(w) \/ SendFails(w)
  BY <1>1, <1>3, <1>11
<1>12. CASE Forward(w) \/ ForwardFails(w)
  BY <1>2, <1>4, <1>12
<1>. QED  BY <1>10, <1>11, <1>12

\* What is stored for a client was in a handler's hand, and is no longer.
LEMMA StoredStep ==
  ASSUME StateOK, [Next]_deliveryVars
  PROVE  \/ stored' = stored /\ \A c \in Chat : Stored(c)' => Stored(c)
         \/ \E w \in Worker, m \in Chat :
              /\ InHand(m) /\ ~InHand(m)' /\ stored' = stored \cup {m}
              /\ table' = [table EXCEPT ![To[m]] = Append(table[To[m]], m)]
              /\ UNCHANGED <<received, begun>> /\ Return(w)
<1>. USE DeliveryAssumption
<1>0. TypeOK /\ HandlersOK
  BY DEF StateOK
<1>1. table' = table => \A c \in Chat : Stored(c)' => Stored(c)
  BY DEF Stored
<1>2. ASSUME NEW w \in Worker, SaveMessage(w), hand[w] \in Chat
      PROVE  \E m \in Chat :
               /\ InHand(m) /\ ~InHand(m)' /\ stored' = stored \cup {m}
               /\ table' = [table EXCEPT ![To[m]] = Append(table[To[m]], m)]
               /\ UNCHANGED <<received, begun>> /\ Return(w)
  <2>1. PICK m \in Chat : m = hand[w]
    BY <1>2
  <2>2. dest[w] = To[m]
    BY <1>0, <2>1 DEF HandlersOK
  <2>3. InHand(m) /\ ~InHand(m)'
    BY <1>2, <2>1, HandsEmptied DEF InHand, SaveMessage
  <2>. QED  BY <1>2, <2>1, <2>2, <2>3 DEF SaveMessage
<1>3. ASSUME NEW w \in Worker, SaveMessage(w), hand[w] \notin Chat
      PROVE  stored' = stored /\ \A c \in Chat : Stored(c)' => Stored(c)
  <2>1. hand[w] = Notice /\ dest[w] \in User
    BY <1>0, <1>3 DEF SaveMessage, HandlersOK, HandSteps, Row
  <2>2. /\ Range(table'[dest[w]]) = Range(table[dest[w]]) \cup {Notice}
        /\ \A u \in User : u # dest[w] => table'[u] = table[u]
    <3>1. table[dest[w]] \in Seq(Row) /\ Notice \in Row
      BY <1>0, <2>1 DEF TypeOK, Row
    <3>2. table' = [table EXCEPT ![dest[w]] = Append(table[dest[w]], Notice)]
      BY <1>3, <2>1 DEF SaveMessage
    <3>. QED  BY <1>0, <2>1, <3>1, <3>2, RangeOfAppend DEF TypeOK
  <2>. QED  BY <1>3, <2>2 DEF SaveMessage, Stored
<1>4. ASSUME NEW w \in Worker, DeleteMessages(w)
      PROVE  stored' = stored /\ \A c \in Chat : Stored(c)' => Stored(c)
  <2>1. \A u \in User : table'[u] = table[u] \/ table'[u] = <<>>
    BY <1>0, <1>4 DEF DeleteMessages, Deleted, TypeOK
  <2>2. Range(<<>>) = {}
    BY DEF Range
  <2>3. ASSUME NEW c \in Chat, Stored(c)' PROVE Stored(c)
    <3>1. c \in Range(table'[To[c]]) /\ To[c] \in User
      BY <2>3 DEF Stored
    <3>. QED  BY <2>1, <2>2, <3>1 DEF Stored
  <2>. QED  BY <1>4, <2>3 DEF DeleteMessages, historyVars
<1>5. CASE Crash \/ UNCHANGED deliveryVars
  BY <1>1, <1>5 DEF Crash, deliveryVars, historyVars
<1>6. ASSUME NEW u \in User, Environment(u) PROVE UNCHANGED <<stored, table>>
  BY <1>6 DEF Environment, LogIn, Leave, EndSession, historyVars
<1>7. ASSUME NEW w \in Worker, Request(w) PROVE UNCHANGED <<stored, table>>
  BY <1>7 DEF Request, BeginChat, BeginNotice, BeginReady, Begin
<1>8. ASSUME NEW w \in Worker, Proceed(w) \/ Failure(w), ~SaveMessage(w), ~DeleteMessages(w)
      PROVE  UNCHANGED <<stored, table>>
  BY <1>8 DEF Proceed, Failure, Refuse, Check, Lookup, SendDirect, FindNotice, GetMessages,
              Forward, Forwarded, SendFails, FindFails, SaveFails, GetFails, ForwardFails,
              DeleteFails, historyVars
<1>. QED
  <2>1. CASE \E u \in User : Environment(u)
    BY <1>1, <1>6, <2>1
  <2>2. CASE \E w \in Worker :
               \/ Request(w)
               \/ (Proceed(w) \/ Failure(w)) /\ ~SaveMessage(w) /\ ~DeleteMessages(w)
    BY <1>1, <1>7, <1>8, <2>2
  <2>3. CASE \E w \in Worker : SaveMessage(w) \/ DeleteMessages(w)
    BY <1>2, <1>3, <1>4, <2>3
  <2>. QED  BY <1>5, <2>1, <2>2, <2>3 DEF Next

\* Which chats come into a hand, and when two chats are in order.
LEMMA HandStep ==
  ASSUME StateOK, [Next]_deliveryVars
  PROVE  \/ begun' = begun /\ \A c \in Chat : InHand(c)' => InHand(c)
         \/ \E w \in Worker, c \in Chat : BeginChat(w, c)
<1>. USE DeliveryAssumption
<1>0. TypeOK /\ HandlersOK
  BY DEF StateOK
<1>1. CASE Crash
  BY <1>0, <1>1 DEF Crash, InHand, Row
<1>2. ASSUME NEW u \in User, Environment(u) PROVE UNCHANGED <<begun, hand>>
  BY <1>2 DEF Environment, LogIn, Leave, EndSession, workerVars, historyVars
<1>3. ASSUME NEW w \in Worker,
             \/ \E ask \in Asks : BeginNotice(w, ask)
             \/ \E u \in User : BeginReady(w, u)
      PROVE  begun' = begun /\ \A c \in Chat : InHand(c)' => InHand(c)
  BY <1>0, <1>3 DEF BeginNotice, BeginReady, Begin, InHand, Row, TypeOK
<1>4. ASSUME NEW w \in Worker, Proceed(w) \/ Failure(w)
      PROVE  begun' = begun /\ \A c \in Chat : InHand(c)' => InHand(c)
  <2>1. begun' = begun
    BY <1>4 DEF Proceed, Failure, Refuse, Check, Lookup, SendDirect, FindNotice, SaveMessage,
                GetMessages, Forward, Forwarded, DeleteMessages, SendFails, FindFails, SaveFails,
                GetFails, ForwardFails, DeleteFails, historyVars
  <2>2. Return(w) \/ \E step : Goto(w, step)
    BY <1>4 DEF Proceed, Failure, Refuse, Check, Lookup, SendDirect, FindNotice, SaveMessage,
                GetMessages, Forward, Forwarded, DeleteMessages, SendFails, FindFails, SaveFails,
                GetFails, ForwardFails, DeleteFails
  <2>. QED  BY <2>1, <2>2, HandsEmptied
<1>5. CASE UNCHANGED deliveryVars
  BY <1>5 DEF deliveryVars, workerVars, historyVars, InHand
<1>6. UNCHANGED <<begun, hand>> => begun' = begun /\ \A c \in Chat : InHand(c)' => InHand(c)
  BY DEF InHand
<1>. QED  BY <1>1, <1>2, <1>3, <1>4, <1>5, <1>6 DEF Next, Request

-----------------------------------------------------------------------------
(* The invariants behind the order.                                        *)

LEMMA PresentKept == StateOK /\ PresentOK /\ [Next]_deliveryVars => PresentOK'
<1>. SUFFICES ASSUME StateOK, PresentOK, [Next]_deliveryVars PROVE PresentOK'
  OBVIOUS
<1>. USE DeliveryAssumption
<1>0. TypeOK /\ HandlersOK
  BY DEF StateOK
<1>1. CASE Crash
  BY <1>0, <1>1 DEF Crash, PresentOK
<1>2. ASSUME NEW u \in User, Environment(u) PROVE PresentOK'
  <2>1. user' = user /\ client' \in [User -> {"away", "online", "left"}]
        /\ \A v \in User : client'[v] = "away" => client[v] = "away" \/ ~Handled(v)
    BY <1>0, <1>2 DEF Environment, LogIn, Leave, EndSession, workerVars, TypeOK
  <2>. QED  BY <1>0, <2>1 DEF PresentOK, Handled, TypeOK
<1>3. ASSUME NEW w \in Worker, Request(w) PROVE PresentOK'
  <2>1. PICK u \in User, r \in User, step \in {"check", "lookup", "get"}, m \in Row \cup {None} :
          Begin(w, u, step, r, m)
    BY <1>3 DEF Request, BeginChat, BeginNotice, BeginReady, Row
  <2>. QED  BY <1>0, <2>1 DEF Begin, PresentOK, TypeOK
<1>4. ASSUME NEW w \in Worker, Proceed(w) \/ Failure(w) PROVE PresentOK'
  <2>1. client' = client
    BY <1>4 DEF Proceed, Failure, Refuse, Check, Lookup, SendDirect, FindNotice, SaveMessage,
                GetMessages, Forward, Forwarded, DeleteMessages, SendFails, FindFails, SaveFails,
                GetFails, ForwardFails, DeleteFails
  <2>2. Return(w) \/ \E step : Goto(w, step)
    BY <1>4 DEF Proceed, Failure, Refuse, Check, Lookup, SendDirect, FindNotice, SaveMessage,
                GetMessages, Forward, Forwarded, DeleteMessages, SendFails, FindFails, SaveFails,
                GetFails, ForwardFails, DeleteFails
  <2>. QED  BY <2>1, <2>2, HandsEmptied DEF PresentOK
<1>5. CASE UNCHANGED deliveryVars
  BY <1>5 DEF deliveryVars, workerVars, PresentOK
<1>. QED  BY <1>1, <1>2, <1>3, <1>4, <1>5 DEF Next

LEMMA HandKept == StateOK /\ LossOK /\ HandOK /\ [Next]_deliveryVars => HandOK'
<1>. SUFFICES ASSUME StateOK, LossOK, HandOK, [Next]_deliveryVars PROVE HandOK'
  OBVIOUS
<1>. USE DeliveryAssumption
<1>0. TypeOK /\ HandlersOK /\ PlacesOK
  BY DEF StateOK, LossOK
<1>1. CASE received' # received
  <2>1. PICK m \in Chat :
          /\ received' = [received EXCEPT ![To[m]] = Append(received[To[m]], m)]
          /\ \/ InHand(m) /\ ~InHand(m)'
             \/ Stored(m) /\ Stored(m)' /\ UNCHANGED hand
          /\ UNCHANGED <<stored, table, begun>>
    BY <1>1, ReceivedStep
  <2>2. \A c \in Chat : Received(c)' => Received(c) \/ c = m
    BY <1>0, <2>1, ReceivedGrows
  <2>3. \A c \in Chat : InHand(c)' => InHand(c)
    <3>1. \A w \in Worker, c \in Chat : ~BeginChat(w, c)
      BY <1>1 DEF BeginChat, Begin
    <3>. QED  BY <3>1, HandStep
  <2>4. \A c \in Chat : InHand(c)' => c # m
    BY <2>1, <2>3 DEF HandOK
  <2>5. \A c \in Chat : Stored(c)' <=> Stored(c)
    BY <2>1 DEF Stored
  <2>. QED  BY <2>1, <2>2, <2>3, <2>4, <2>5 DEF HandOK
<1>2. CASE received' = received /\ stored' = stored /\ \A c \in Chat : Stored(c)' => Stored(c)
  <2>1. \A c \in Chat : Received(c)' <=> Received(c)
    BY <1>2 DEF Received
  <2>2. CASE begun' = begun /\ \A c \in Chat : InHand(c)' => InHand(c)
    BY <1>2, <2>1, <2>2 DEF HandOK
  <2>3. ASSUME NEW w \in Worker, NEW c \in Chat, BeginChat(w, c) PROVE HandOK'
    <3>1. Range(begun') = Range(begun) \cup {c}
      BY <1>0, <2>3, RangeOfAppend DEF BeginChat, TypeOK
    <3>2. c \notin Range(begun) /\ c \notin stored /\ ~Received(c)
      BY <1>0, <2>3 DEF BeginChat, HandOK, PlacesOK, Received
    <3>3. \A d \in Chat : InHand(d)' => InHand(d) \/ d = c
      BY <1>0, <2>3 DEF BeginChat, Begin, InHand, TypeOK
    <3>. QED  BY <1>2, <2>1, <3>1, <3>2, <3>3 DEF HandOK
  <2>. QED  BY <2>2, <2>3, HandStep
<1>3. CASE \E w \in Worker, m \in Chat :
             /\ InHand(m) /\ ~InHand(m)' /\ stored' = stored \cup {m}
             /\ table' = [table EXCEPT ![To[m]] = Append(table[To[m]], m)]
             /\ UNCHANGED <<received, begun>> /\ Return(w)
  <2>1. PICK w \in Worker, m \in Chat :
          /\ InHand(m) /\ ~InHand(m)' /\ stored' = stored \cup {m}
          /\ table' = [table EXCEPT ![To[m]] = Append(table[To[m]], m)]
          /\ UNCHANGED <<received, begun>> /\ Return(w)
    BY <1>3
  <2>2. m \in Range(begun)
    BY <1>0, <2>1 DEF InHand, HandlersOK
  <2>3. \A c \in Chat : InHand(c)' => InHand(c) /\ c # m
    BY <2>1, HandsEmptied
  <2>4. \A c \in Chat : Stored(c)' => Stored(c) \/ c = m
    <3>1. To[m] \in User /\ table[To[m]] \in Seq(Row) /\ m \in Row
      BY <1>0 DEF TypeOK, Row
    <3>2. /\ Range(table'[To[m]]) = Range(table[To[m]]) \cup {m}
          /\ \A u \in User : u # To[m] => table'[u] = table[u]
      BY <1>0, <2>1, <3>1, RangeOfAppend DEF TypeOK
    <3>. QED  BY <3>2 DEF Stored
  <2>. QED  BY <2>1, <2>2, <2>3, <2>4 DEF HandOK, Received
<1>. QED  BY <1>1, <1>2, <1>3, StoredStep

\* A later chat comes into order as the earlier one's handler is through.
LEMMA EarlierStep ==
  ASSUME StateOK, LossOK, HandOK, [Next]_deliveryVars, NEW a \in Chat, NEW b \in Chat,
         Earlier(a, b)', Earlier(a, b) => ~InHand(a)
  PROVE  /\ ~InHand(a)'
         /\ Earlier(a, b) \/ (b \notin Range(begun) /\ \E w \in Worker : BeginChat(w, b))
<1>. USE DeliveryAssumption
<1>0. TypeOK /\ HandlersOK
  BY DEF StateOK
<1>1. CASE begun' = begun /\ \A c \in Chat : InHand(c)' => InHand(c)
  <2>1. Earlier(a, b)
    BY <1>1 DEF Earlier
  <2>. QED  BY <1>1, <2>1
<1>2. ASSUME NEW w \in Worker, NEW c \in Chat, BeginChat(w, c)
      PROVE  /\ ~InHand(a)'
             /\ Earlier(a, b) \/ (b \notin Range(begun) /\ BeginChat(w, b))
  <2>1. begun \in Seq(Chat) /\ begun' = Append(begun, c) /\ c \notin Range(begun)
    BY <1>0, <1>2 DEF BeginChat, TypeOK
  <2>2. /\ Len(begun) \in Nat /\ DOMAIN begun = 1..Len(begun)
        /\ DOMAIN begun' = 1..(Len(begun) + 1) /\ begun'[Len(begun) + 1] = c
        /\ \A i \in 1..Len(begun) : begun'[i] = begun[i]
    BY <2>1
  <2>3. PICK i \in 1..(Len(begun) + 1), j \in 1..(Len(begun) + 1) :
          i < j /\ begun'[i] = a /\ begun'[j] = b
    BY <2>2 DEF Earlier
  <2>4. i \in 1..Len(begun) /\ begun[i] = a /\ a \in Range(begun) /\ a # c
    <3>1. i \in 1..Len(begun)
      BY <2>2, <2>3
    <3>. QED  BY <2>1, <2>2, <2>3, <3>1 DEF Range
  <2>5. From[a] = From[b] /\ To[a] = To[b]
    BY DEF Earlier
  <2>6. Earlier(a, b) \/ b = c
    <3>1. CASE j = Len(begun) + 1
      BY <2>2, <2>3, <3>1
    <3>2. CASE j \in 1..Len(begun)
      BY <2>2, <2>3, <2>4, <2>5, <3>2 DEF Earlier
    <3>. QED  BY <2>2, <2>3, <3>1, <3>2
  <2>7. ASSUME InHand(a)' PROVE FALSE
    <3>1. InHand(a)
      BY <1>0, <1>2, <2>4, <2>7 DEF BeginChat, Begin, InHand, TypeOK
    <3>2. Handled(From[a])
      BY <1>0, <3>1 DEF InHand, HandlersOK, Handled
    <3>. QED  BY <1>2, <2>5, <2>6, <3>1, <3>2 DEF BeginChat, Begin
  <2>. QED  BY <1>2, <2>1, <2>6, <2>7
<1>. QED  BY <1>1, <1>2, HandStep

LEMMA NoFault ==
  ASSUME TypeOK, [Next]_deliveryVars, faults' = 0
  PROVE  faults = 0 /\ \A w \in Worker : ~Failure(w)
<1>. USE DeliveryAssumption
<1>1. ~Fault /\ faults \in Nat
  BY DEF Fault, TypeOK
<1>2. \A w \in Worker : ~Failure(w)
  BY <1>1 DEF Failure, SendFails, FindFails, SaveFails, GetFails, ForwardFails, DeleteFails
<1>3. ASSUME NEW w \in Worker, Request(w) \/ Proceed(w) PROVE faults' = faults
  BY <1>3 DEF Request, BeginChat, BeginNotice, BeginReady, Begin, Proceed, Refuse, Check, Lookup,
              SendDirect, FindNotice, SaveMessage, GetMessages, Forward, Forwarded, DeleteMessages
<1>4. ASSUME NEW u \in User, Environment(u) PROVE faults' = faults
  BY <1>4 DEF Environment, LogIn, Leave, EndSession
<1>5. CASE Crash \/ UNCHANGED deliveryVars
  BY <1>2, <1>5 DEF Crash, deliveryVars
<1>. QED  BY <1>2, <1>3, <1>4, <1>5 DEF Next

\* Steps that leave the rows, the READYs and what was received alone.
LEMMA QuietOrder ==
  ASSUME NEW a \in Chat, NEW b \in Chat, InOrder(a, b), ~InHand(a)',
         UNCHANGED <<table, received, stored>>,
         \A w \in Worker : pc'[w] = "forward" =>
           /\ pc[w] = "forward" /\ list'[w] = list[w] /\ user'[w] = user[w]
           /\ client'[user[w]] = "online" => client[user[w]] = "online"
  PROVE  InOrder(a, b)'
BY DEF InOrder, Stored, Received

LEMMA OrderStep ==
  ASSUME StateOK, LossOK, PresentOK, HandOK, [Next]_deliveryVars, faults' = 0,
         NEW a \in Chat, NEW b \in Chat, Earlier(a, b)', Earlier(a, b) => InOrder(a, b)
  PROVE  InOrder(a, b)'
<1>. USE DeliveryAssumption
<1>0. TypeOK /\ HandlersOK /\ OneHandler /\ PlacesOK
  BY DEF StateOK, LossOK
<1>1. ~InHand(a)' /\ (Earlier(a, b) \/ (b \notin Range(begun) /\ \E w \in Worker : BeginChat(w, b)))
  BY EarlierStep DEF InOrder
<1>2. To[a] = To[b]
  BY DEF Earlier
<1>3. ASSUME NEW w \in Worker, BeginChat(w, b), b \notin Range(begun) PROVE InOrder(a, b)'
  <2>1. /\ UNCHANGED <<table, received, list>>
        /\ \A v \in Worker : pc'[v] = "forward" => pc[v] = "forward"
    BY <1>0, <1>3 DEF BeginChat, Begin, TypeOK
  <2>2. b \notin Range(table[To[a]]) /\ ~Received(b)
    BY <1>0, <1>2, <1>3 DEF PlacesOK, Received
  <2>3. \A v \in Worker : pc[v] = "forward" => b \notin Range(list[v])
    <3>1. \A v \in Worker : pc[v] = "forward" => user[v] \in User
      BY <1>0 DEF HandlersOK, TypeOK
    <3>. QED  BY <1>0, <1>3, <3>1 DEF PlacesOK
  <2>4. ~Received(b)' /\ Before(table'[To[a]], a, b)
    BY <2>1, <2>2, BeforeAbsent DEF Received
  <2>5. \A v \in Worker : pc'[v] = "forward" => b \notin Range(list'[v]) /\ Before(list'[v], a, b)
    BY <2>1, <2>3, BeforeAbsent
  <2>. QED  BY <1>1, <2>4, <2>5 DEF InOrder, Stored
<1>. SUFFICES ASSUME Earlier(a, b), InOrder(a, b) PROVE InOrder(a, b)'
  BY <1>1, <1>3
<1>4. CASE Crash \/ UNCHANGED deliveryVars
  <2>1. UNCHANGED <<table, received, stored>>
        /\ \A w \in Worker : pc'[w] = "forward" =>
             UNCHANGED <<pc, list, user, client>>
    BY <1>0, <1>4 DEF Crash, deliveryVars, workerVars, historyVars
  <2>. QED  BY <1>1, <2>1, QuietOrder
<1>5. ASSUME NEW u \in User, Environment(u) PROVE InOrder(a, b)'
  <2>1. /\ UNCHANGED <<table, received, stored, pc, list, user>>
        /\ \A v \in User : client'[v] = "online" => client[v] = "online" \/ client[v] = "away"
    BY <1>0, <1>5 DEF Environment, LogIn, Leave, EndSession, workerVars, historyVars, TypeOK
  <2>2. \A w \in Worker : pc[w] = "forward" => user[w] \in User /\ client[user[w]] # "away"
    BY <1>0 DEF HandlersOK, PresentOK, TypeOK
  <2>. QED  BY <1>1, <2>1, <2>2, QuietOrder
<1>6. ASSUME NEW w \in Worker, Request(w) PROVE InOrder(a, b)'
  <2>1. PICK u \in User, r \in User, step \in {"check", "lookup", "get"}, m \in Row \cup {None} :
          Begin(w, u, step, r, m)
    BY <1>6 DEF Request, BeginChat, BeginNotice, BeginReady, Row
  <2>2. /\ UNCHANGED <<table, received, stored, list, client>> /\ pc'[w] = step
        /\ \A v \in Worker : v # w => pc'[v] = pc[v] /\ user'[v] = user[v]
    BY <1>0, <2>1 DEF Begin, TypeOK
  <2>. QED  BY <1>1, <2>2, QuietOrder
\* Steps to an end, or to another step but "forward".
<1>7. ASSUME NEW w \in Worker, UNCHANGED <<table, received, stored, client>>,
             \/ Return(w)
             \/ \E step : Goto(w, step) /\ step # "forward" /\ list' = list
      PROVE  InOrder(a, b)'
  <2>1. /\ pc'[w] # "forward"
        /\ \A v \in Worker : v # w => pc'[v] = pc[v] /\ user'[v] = user[v] /\ list'[v] = list[v]
    BY <1>7, HandsEmptied
  <2>. QED  BY <1>1, <1>7, <2>1, QuietOrder
<1>8. ASSUME NEW w \in Worker, Refuse(w) \/ Check(w) \/ Lookup(w) \/ FindNotice(w)
      PROVE  InOrder(a, b)'
  BY <1>7, <1>8 DEF Refuse, Check, Lookup, FindNotice, historyVars
<1>9. ASSUME NEW w \in Worker, SendDirect(w) PROVE InOrder(a, b)'
  <2>1. /\ Return(w) /\ UNCHANGED <<table, stored, client>>
        /\ hand[w] \in Chat => InHand(hand[w])
    BY <1>9 DEF SendDirect, InHand
  <2>2. CASE received' = received
    BY <1>7, <2>1, <2>2
  <2>3. CASE received' # received
    <3>1. PICK m \in Chat :
            /\ received' = [received EXCEPT ![To[m]] = Append(received[To[m]], m)]
            /\ \/ InHand(m) /\ ~InHand(m)'
               \/ Stored(m) /\ Stored(m)' /\ UNCHANGED hand
      BY <2>3, ReceivedStep
    <3>2. InHand(m)
      <4>1. hand[w] # None /\ hand'[w] = None
        BY <1>0, <1>9, <2>1 DEF SendDirect, Return, HandlersOK, HandSteps, TypeOK, Row
      <4>. QED  BY <3>1, <4>1
    <3>3. \A c \in Chat : Received(c)' <=> Received(c) \/ c = m
      BY <1>0, <3>1, ReceivedGrows
    <3>4. Received(b)' /\ b \in stored => Received(b)
      BY <3>2, <3>3 DEF HandOK
    <3>5. \A v \in Worker : pc'[v] = "forward" =>
            pc[v] = "forward" /\ list'[v] = list[v] /\ user'[v] = user[v]
      BY <2>1, HandsEmptied
    <3>6. Stored(a)' <=> Stored(a)
      BY <2>1 DEF Stored
    <3>. QED  BY <1>1, <2>1, <3>3, <3>4, <3>5, <3>6 DEF InOrder
  <2>. QED  BY <2>2, <2>3
<1>10. ASSUME NEW w \in Worker, SaveMessage(w) PROVE InOrder(a, b)'
  <2>1. /\ Return(w) /\ UNCHANGED <<received, client>> /\ hand[w] \in Row /\ dest[w] \in User
        /\ hand[w] # a
    BY <1>0, <1>10 DEF SaveMessage, HandlersOK, HandSteps, InOrder, InHand
  <2>2. /\ table[dest[w]] \in Seq(Row)
        /\ table' = [table EXCEPT ![dest[w]] = Append(table[dest[w]], hand[w])]
    BY <1>0, <1>10, <2>1 DEF SaveMessage, TypeOK
  <2>3. \A u \in User : u # dest[w] => table'[u] = table[u]
    BY <1>0, <2>2 DEF TypeOK
  <2>4. table'[dest[w]] = Append(table[dest[w]], hand[w])
    BY <1>0, <2>1, <2>2 DEF TypeOK
  <2>5. Before(table'[To[a]], a, b)
    <3>1. CASE To[a] = dest[w]
      BY <2>1, <2>2, <2>4, <3>1, BeforeAppend DEF InOrder
    <3>2. CASE To[a] # dest[w]
      BY <2>3, <3>2 DEF InOrder
    <3>. QED  BY <3>1, <3>2
  <2>6. Stored(a)' => Stored(a)
    <3>1. CASE To[a] = dest[w]
      BY <2>1, <2>2, <2>4, <3>1, RangeOfAppend DEF Stored
    <3>2. CASE To[a] # dest[w]
      BY <2>3, <3>2 DEF Stored
    <3>. QED  BY <3>1, <3>2
  <2>7. Received(b) /\ b \in stored' => b \in stored
    <3>1. hand[w] = b => ~Received(b)
      BY DEF HandOK, InHand
    <3>. QED  BY <1>10, <3>1 DEF SaveMessage
  <2>8. \A v \in Worker : pc'[v] = "forward" =>
          pc[v] = "forward" /\ list'[v] = list[v] /\ user'[v] = user[v]
    BY <2>1, HandsEmptied
  <2>9. \A c \in Chat : Received(c)' <=> Received(c)
    BY <2>1 DEF Received
  <2>. QED  BY <1>1, <2>1, <2>5, <2>6, <2>7, <2>8, <2>9 DEF InOrder
<1>11. ASSUME NEW w \in Worker, GetMessages(w) PROVE InOrder(a, b)'
  <2>1. /\ dest[w] = user[w] /\ user[w] \in User /\ UNCHANGED <<table, received, stored, client>>
    BY <1>0, <1>11 DEF GetMessages, HandlersOK, ReadySteps, TypeOK, historyVars
  <2>2. CASE Return(w)
    BY <1>7, <2>1, <2>2
  <2>3. CASE Goto(w, "forward") /\ list' = [list EXCEPT ![w] = table[user[w]]]
    <3>1. /\ list'[w] = table[user[w]] /\ user' = user
          /\ \A v \in Worker : v # w => pc'[v] = pc[v] /\ list'[v] = list[v]
      BY <1>0, <2>3 DEF Goto, TypeOK
    <3>2. CASE user[w] = To[a]
      <4>1. Before(list'[w], a, b) /\ (Stored(a) => a \in Range(list'[w]))
        BY <3>1, <3>2 DEF InOrder, Stored
      <4>. QED  BY <1>1, <2>1, <3>1, <4>1 DEF InOrder, Stored, Received
    <3>3. CASE user[w] # To[a]
      <4>1. a \notin Range(list'[w]) /\ b \notin Range(list'[w])
        BY <1>0, <1>2, <2>1, <3>1, <3>3 DEF PlacesOK
      <4>2. Before(list'[w], a, b)
        BY <4>1, BeforeAbsent
      <4>. QED  BY <1>1, <2>1, <3>1, <4>1, <4>2 DEF InOrder, Stored, Received
    <3>. QED  BY <3>2, <3>3
  <2>. QED  BY <1>11, <2>1, <2>2, <2>3 DEF GetMessages, Fetched
<1>12. ASSUME NEW w \in Worker, Forward(w) PROVE InOrder(a, b)'
  <2>1. /\ pc[w] = "forward" /\ user[w] \in User /\ list[w] \in Seq(Row) /\ list[w] # <<>>
        /\ UNCHANGED <<table, stored, client>>
    BY <1>0, <1>12 DEF Forward, Forwarded, HandlersOK, TypeOK
  <2>2. Deliver(user[w], Head(list[w]), client[user[w]] = "online")
    BY <1>12 DEF Forward, Forwarded
  <2>3. PICK m \in Row : m = Head(list[w]) /\ Range(list[w]) = {m} \cup Range(Tail(list[w]))
    BY <2>1, RangeOfTail
  <2>4. /\ list'[w] = Tail(list[w]) /\ user' = user
        /\ \A v \in Worker : v # w => pc'[v] = pc[v] /\ list'[v] = list[v]
    BY <1>0, <1>12 DEF Forward, Forwarded, Goto, TypeOK
  <2>5. /\ \A c \in Chat : Received(c) => Received(c)'
        /\ \A c \in Chat : Received(c)' =>
             Received(c) \/ (c = m /\ client[user[w]] = "online")
        /\ m \in Chat /\ client[user[w]] = "online" => Received(m)'
    <3>1. CASE client[user[w]] = "online" /\ m \in Chat
      <4>1. To[m] = user[w]
        BY <1>0, <2>1, <2>3, <3>1 DEF PlacesOK
      <4>2. received' = [received EXCEPT ![To[m]] = Append(received[To[m]], m)]
        BY <2>2, <2>3, <3>1, <4>1 DEF Deliver
      <4>. QED  BY <1>0, <3>1, <4>2, ReceivedGrows
    <3>2. CASE ~(client[user[w]] = "online" /\ m \in Chat)
      <4>1. received' = received
        BY <2>2, <2>3, <3>2 DEF Deliver, Row
      <4>. QED  BY <3>2, <4>1 DEF Received
    <3>. QED  BY <3>1, <3>2
  <2>6. Before(list'[w], a, b) /\ (m = b => a \notin Range(list[w]))
    BY <2>1, <2>3, <2>4, BeforeTail DEF InOrder
  <2>7. client[user[w]] = "online" /\ Stored(a) /\ b \in Range(list'[w]) =>
          a \in Range(list'[w]) \/ Received(a)'
    BY <2>1, <2>3, <2>4, <2>5 DEF InOrder
  <2>8. Stored(a) /\ Received(b)' /\ b \in stored => Received(a)'
    BY <2>1, <2>3, <2>5, <2>6 DEF InOrder
  <2>9. Stored(a)' <=> Stored(a)
    BY <2>1 DEF Stored
  <2>10. \A v \in Worker : v # w /\ pc'[v] = "forward" =>
           /\ Before(list'[v], a, b)
           /\ client[user[v]] = "online" /\ Stored(a) /\ b \in Range(list'[v]) =>
                a \in Range(list'[v]) \/ Received(a)'
    BY <2>4, <2>5 DEF InOrder
  <2>. QED  BY <1>1, <2>1, <2>4, <2>6, <2>7, <2>8, <2>9, <2>10 DEF InOrder
<1>13. ASSUME NEW w \in Worker, DeleteMessages(w) PROVE InOrder(a, b)'
  <2>1. Return(w) /\ UNCHANGED <<received, stored, client>>
    BY <1>13 DEF DeleteMessages, historyVars
  <2>2. table'[To[a]] = table[To[a]] \/ table'[To[a]] = <<>>
    BY <1>0, <1>13 DEF DeleteMessages, Deleted, TypeOK
  <2>3. (Stored(a)' => Stored(a)) /\ Before(table'[To[a]], a, b)
    <3>1. CASE table'[To[a]] = <<>>
      BY <3>1, BeforeAbsent DEF Stored, Range
    <3>2. CASE table'[To[a]] = table[To[a]]
      BY <3>2 DEF Stored, InOrder
    <3>. QED  BY <2>2, <3>1, <3>2
  <2>4. \A v \in Worker : pc'[v] = "forward" =>
          pc[v] = "forward" /\ list'[v] = list[v] /\ user'[v] = user[v]
    BY <2>1, HandsEmptied
  <2>5. \A c \in Chat : Received(c)' <=> Received(c)
    BY <2>1 DEF Received
  <2>. QED  BY <1>1, <2>1, <2>3, <2>4, <2>5 DEF InOrder
<1>14. \A w \in Worker : ~Failure(w)
  BY <1>0, NoFault
<1>. QED
  BY <1>4, <1>5, <1>6, <1>8, <1>9, <1>10, <1>11, <1>12, <1>13, <1>14 DEF Next, Proceed

LEMMA OrderKept ==
  StateOK /\ LossOK /\ PresentOK /\ HandOK /\ OrderOK /\ [Next]_deliveryVars => OrderOK'
<1>. SUFFICES ASSUME StateOK, LossOK, PresentOK, HandOK, OrderOK, [Next]_deliveryVars, faults' = 0,
                     NEW a \in Chat, NEW b \in Chat, Earlier(a, b)'
              PROVE  InOrder(a, b)'
  BY DEF OrderOK
<1>1. faults = 0
  BY NoFault DEF StateOK
<1>. QED  BY <1>1, OrderStep DEF OrderOK

\* Overtaking: what is received now comes after all that was received before.
LEMMA OvertakesStep ==
  ASSUME TypeOK, NEW a \in Chat, NEW b \in Chat, To[a] = To[b], NEW m \in Chat,
         received' = [received EXCEPT ![To[m]] = Append(received[To[m]], m)], Overtakes(b, a)'
  PROVE  Overtakes(b, a) \/ (m = a /\ Received(b) /\ ~Received(a))
<1>. USE DeliveryAssumption
<1>. DEFINE s == received[To[b]]
            t == received'[To[b]]
<1>0. s \in Seq(Chat) /\ To[m] \in User
  BY DEF TypeOK
<1>1. CASE To[m] # To[b]
  BY <1>1 DEF Overtakes, TypeOK
<1>2. CASE To[m] = To[b]
  <2>1. t = Append(s, m)
    BY <1>2 DEF TypeOK
  <2>2. /\ Len(s) \in Nat /\ DOMAIN s = 1..Len(s) /\ DOMAIN t = 1..(Len(s) + 1)
        /\ t[Len(s) + 1] = m /\ \A i \in 1..Len(s) : t[i] = s[i]
    BY <1>0, <2>1
  <2>3. PICK j \in 1..(Len(s) + 1) :
          t[j] = b /\ (\A i \in 1..j : t[i] # a) /\ a \in Range(t)
    BY <2>2 DEF Overtakes
  <2>4. j \in 1..Len(s)
    <3>1. PICK k \in 1..(Len(s) + 1) : t[k] = a
      BY <2>2, <2>3 DEF Range
    <3>. QED  BY <2>2, <2>3, <3>1
  <2>5. s[j] = b /\ \A i \in 1..j : s[i] # a
    BY <2>2, <2>3, <2>4
  <2>6. a \in Range(s) \cup {m}
    BY <1>0, <2>1, <2>3, RangeOfAppend
  <2>7. CASE a \in Range(s)
    BY <2>2, <2>4, <2>5, <2>7 DEF Overtakes
  <2>8. CASE a \notin Range(s)
    <3>1. b \in Range(s)
      BY <2>2, <2>4, <2>5 DEF Range
    <3>. QED  BY <2>6, <2>8, <3>1 DEF Received
  <2>. QED  BY <2>7, <2>8
<1>. QED  BY <1>1, <1>2

\* OvertakesStoredOnly, of two chats.
OvertakingOK ==
  faults = 0 =>
    \A a, b \in Chat : Earlier(a, b) /\ Overtakes(b, a) => a \in stored /\ b \notin stored

LEMMA OvertakingKept ==
  StateOK /\ LossOK /\ HandOK /\ OrderOK /\ OvertakingOK /\ [Next]_deliveryVars => OvertakingOK'
<1>. SUFFICES ASSUME StateOK, LossOK, HandOK, OrderOK, OvertakingOK, [Next]_deliveryVars, faults' = 0,
                     NEW a \in Chat, NEW b \in Chat, Earlier(a, b)', Overtakes(b, a)'
              PROVE  a \in stored' /\ b \notin stored'
  BY DEF OvertakingOK
<1>. USE DeliveryAssumption
<1>0. TypeOK /\ PlacesOK /\ faults = 0
  BY NoFault DEF StateOK, LossOK
<1>1. Earlier(a, b) => ~InHand(a)
  BY <1>0 DEF OrderOK, InOrder
<1>2. To[a] = To[b]
  BY DEF Earlier
<1>3. /\ stored \subseteq stored'
      /\ \A c \in Chat : c \in stored' => c \in stored \/ InHand(c)
  BY StoredStep
<1>4. Overtakes(b, a) => Received(b)
  BY DEF Overtakes, Received, Range
<1>5. Received(b) => Earlier(a, b)
  <2>1. Received(b) => b \in Range(begun)
    BY <1>0 DEF PlacesOK, Received
  <2>. QED  BY <1>1, <2>1, EarlierStep
<1>6. CASE Overtakes(b, a)
  <2>1. a \in stored /\ b \notin stored
    BY <1>0, <1>4, <1>5, <1>6 DEF OvertakingOK
  <2>. QED  BY <1>3, <1>4, <1>6, <2>1 DEF HandOK
<1>7. CASE ~Overtakes(b, a)
  <2>1. received' # received
    BY <1>7 DEF Overtakes
  <2>2. PICK m \in Chat :
          /\ received' = [received EXCEPT ![To[m]] = Append(received[To[m]], m)]
          /\ \/ InHand(m) /\ ~InHand(m)'
             \/ Stored(m) /\ Stored(m)' /\ UNCHANGED hand
          /\ UNCHANGED <<stored, table, begun>>
    BY <2>1, ReceivedStep
  <2>3. m = a /\ Received(b) /\ ~Received(a)
    BY <1>0, <1>2, <1>7, <2>2, OvertakesStep
  <2>4. Earlier(a, b) /\ InOrder(a, b)
    BY <1>0, <1>5, <2>3 DEF OrderOK
  <2>5. Stored(a)
    BY <2>2, <2>3, <2>4 DEF InOrder
  <2>. QED  BY <2>2, <2>3, <2>4, <2>5 DEF InOrder, HandOK
<1>. QED  BY <1>6, <1>7

LEMMA InOrderThen == TypeOK /\ OvertakingOK => OvertakesStoredOnly
<1>. SUFFICES ASSUME TypeOK, OvertakingOK, faults = 0, NEW i \in DOMAIN begun, NEW j \in DOMAIN begun,
                     i < j, From[begun[i]] = From[begun[j]], To[begun[i]] = To[begun[j]],
                     Overtakes(begun[j], begun[i])
              PROVE  begun[i] \in stored /\ begun[j] \notin stored
  BY DEF OvertakesStoredOnly
<1>1. begun[i] \in Chat /\ begun[j] \in Chat
  BY DEF TypeOK
<1>2. Earlier(begun[i], begun[j])
  BY DEF Earlier
<1>. QED  BY <1>1, <1>2 DEF OvertakingOK

-----------------------------------------------------------------------------
ArrivalOK == PresentOK /\ HandOK /\ OrderOK /\ OvertakingOK

Inv == StateOK /\ LossOK /\ OnceOK /\ NoticesBounded /\ ArrivalOK

LEMMA Initially == Init => Inv
<1>. SUFFICES ASSUME Init PROVE Inv
  OBVIOUS
<1>. USE DeliveryAssumption
<1>1. TypeOK
  BY DEF Init, TypeOK
<1>2. HandlersOK /\ OneHandler
  BY DEF Init, HandlersOK, OneHandler, HandSteps, ReadySteps, Row
<1>3. Range(<<>>) = {}
  BY DEF Range
<1>4. LossOK
  BY <1>3 DEF Init, LossOK, PlacesOK, ForwardedOK, NoSilentLoss
<1>5. OnceOK
  <2>1. \A c \in Chat : ~InHand(c) /\ ~Stored(c)
    BY <1>3 DEF Init, InHand, Stored, Row
  <2>2. OnePlace
    BY <2>1 DEF Init, OnePlace, ChatsDistinct
  <2>3. \A c \in Chat : ~ToCome(c)
    BY <2>1 DEF ToCome
  <2>4. \A c \in Chat : Cardinality(Copies(To[c], c)) = 0
    BY <1>1, <1>3, CopiesCounted DEF Init
  <2>5. faults = 0 /\ crashes = 0
    BY DEF Init
  <2>. QED  BY <2>2, <2>3, <2>4, <2>5 DEF OnceOK, InCredit
<1>6. NoticesBounded
  <2>. SUFFICES ASSUME NEW u \in User
                PROVE  Cardinality(NoticeRows(u)) + Cardinality(SavingNotice(u))
                         <= Cardinality(Worker) + faults
    BY DEF NoticesBounded
  <2>1. NoticeRows(u) = {} /\ SavingNotice(u) = {} /\ faults = 0
    BY DEF Init, NoticeRows, SavingNotice
  <2>. QED  BY <1>1, <2>1, NoticesFinite, FS_EmptySet
<1>7. ArrivalOK
  <2>1. \A a, b \in Chat : ~Earlier(a, b)
    BY DEF Init, Earlier
  <2>2. HandOK
    <3>1. \A c \in Chat : ~InHand(c) /\ ~Stored(c)
      BY <1>3 DEF Init, InHand, Stored, Row
    <3>. QED  BY <3>1 DEF Init, HandOK
  <2>. QED  BY <2>1, <2>2 DEF Init, ArrivalOK, PresentOK, OrderOK, OvertakingOK
<1>. QED  BY <1>1, <1>2, <1>4, <1>5, <1>6, <1>7 DEF Inv, StateOK

LEMMA InvKept == Inv /\ [Next]_deliveryVars => Inv'
<1>1. StateOK /\ LossOK /\ ArrivalOK /\ [Next]_deliveryVars => ArrivalOK'
  BY PresentKept, HandKept, OrderKept, OvertakingKept DEF ArrivalOK
<1>. QED  BY <1>1, StateKept, LossKept, OnceKept, NoticesKept DEF Inv

\* The inductive invariant of delivery: locals of the handlers, one handler
\* per user, where each chat is, and which of two was there first.
THEOREM Invariance == Spec => []Inv
BY Initially, InvKept, PTL DEF Spec

\* Typing, for every instance.
THEOREM Typing == Spec => []TypeOK
BY Invariance, PTL DEF Inv, StateOK

\* No chat disappears without a cause: it is in a hand, in the table or with
\* its receiver, unless it was refused, something failed, or it was stored
\* behind the back of a READY.
THEOREM Accounted == Spec => []NoSilentLoss
BY Invariance, PTL DEF Inv, LossOK

\* No chat arrives twice, and each failure brings one copy of it at most.
THEOREM Once == Spec => []CopiesBounded
<1>1. ASSUME Inv PROVE CopiesBounded
  <2>. SUFFICES ASSUME NEW u \in User, NEW c \in Chat
                PROVE  Cardinality(Copies(u, c)) <= 1 + faults + crashes
    BY DEF CopiesBounded
  <2>1. TypeOK /\ PlacesOK /\ InCredit(c)
    BY <1>1 DEF Inv, StateOK, LossOK, OnceOK
  <2>2. CASE To[c] = u
    BY <2>1, <2>2 DEF InCredit
  <2>3. CASE To[c] # u
    <3>1. c \notin Range(received[u])
      BY <2>1, <2>3 DEF PlacesOK
    <3>2. Cardinality(Copies(u, c)) = 0 /\ faults \in Nat /\ crashes \in Nat
      BY <2>1, <3>1, CopiesCounted, DeliveryAssumption DEF TypeOK
    <3>. QED  BY <3>2
  <2>. QED  BY <2>2, <2>3
<1>. QED  BY Invariance, <1>1, PTL

\* Without failures a chat overtakes an earlier one only when that one was
\* stored and waits for the READY of a receiver who has just come online.
THEOREM Overtaking == Spec => []OvertakesStoredOnly
<1>1. Inv => OvertakesStoredOnly
  BY InOrderThen DEF Inv, StateOK, ArrivalOK
<1>. QED  BY Invariance, <1>1, PTL

\* An offline user never has more notices than there are workers and failures.
THEOREM FewNotices == Spec => []NoticesBounded
BY Invariance, PTL DEF Inv

\* What is stored stays until it is sent, but for what is stored behind a READY's
\* back: that one window is all that stands between the code and its words.
THEOREM OnlyLateIsLost == Spec => [](late = {} => SavedUntilSent)
<1>1. Inv => (late = {} => SavedUntilSent)
  <2>. SUFFICES ASSUME Inv, late = {}, NEW c \in stored
                PROVE  Stored(c) \/ Received(c) \/ c \in excused
    BY DEF SavedUntilSent
  <2>1. c \in Chat /\ c \in Range(begun) /\ ~InHand(c)
    BY DEF Inv, StateOK, TypeOK, ArrivalOK, HandOK
  <2>. QED  BY <2>1 DEF Inv, LossOK, NoSilentLoss
<1>. QED  BY Invariance, <1>1, PTL

-----------------------------------------------------------------------------
(* Delivery implements Mailbox: where the mapping puts each chat and each  *)
(* user, and which steps change that.                                      *)

Mapped == <<client, begun, StageOf, BoxOf, stored, Served, StreamOf, received, faults + crashes>>

\* The stage of a chat that a worker with these locals has in hand.
StageAt(step, session) ==
  CASE step \in {"check", "lookup"} -> "posted"
    [] step = "send" -> IF session = "live" THEN "direct" ELSE "astray"
    [] step = "save" -> "keep"
    [] OTHER -> "done"

LEMMA StageInHand ==
  ASSUME StateOK, NEW w \in Worker, NEW c \in Chat, hand[w] = c
  PROVE  /\ StageOf[c] = StageAt(pc[w], target[w])
         /\ pc[w] \in {"check", "lookup", "send", "save"}
         /\ user[w] = From[c] /\ dest[w] = To[c] /\ c \in Range(begun)
         /\ \A v \in Worker : hand[v] = c => v = w
<1>. USE DeliveryAssumption
<1>0. TypeOK /\ HandlersOK /\ OneHandler
  BY DEF StateOK
<1>1. None \notin Chat /\ Notice \notin Chat
  BY DEF Row
<1>2. pc[w] \in {"check", "lookup", "send", "save"}
  BY <1>0, <1>1 DEF TypeOK, HandlersOK, HandSteps, ReadySteps
<1>3. user[w] = From[c] /\ dest[w] = To[c] /\ c \in Range(begun)
  BY <1>0 DEF HandlersOK
<1>4. \A v \in Worker : hand[v] = c => v = w
  BY <1>0, <1>3 DEF HandlersOK, OneHandler
<1>5. \A steps : Carrying(c, steps) <=> pc[w] \in steps
  BY <1>4 DEF Carrying
<1>6. OnLiveSession(c) <=> target[w] = "live"
  BY <1>4 DEF OnLiveSession
<1>7. StageOf[c] = StageAt(pc[w], target[w])
  BY <1>2, <1>3, <1>5, <1>6 DEF StageOf, StageAt
<1>. QED  BY <1>2, <1>3, <1>4, <1>7

\* The same after a step.
HandStagesOK ==
  \A w \in Worker : hand[w] \in Chat => StageOf[hand[w]] = StageAt(pc[w], target[w])

LEMMA HandStages == StateOK => HandStagesOK
BY StageInHand DEF HandStagesOK

LEMMA HandStagesNext == StateOK' => HandStagesOK'
BY HandStages, PTL

LEMMA StageElse ==
  ASSUME NEW c \in Chat, ~InHand(c)
  PROVE  StageOf[c] = IF c \in Range(begun) THEN "done" ELSE "unsent"
<1>1. \A steps : ~Carrying(c, steps)
  BY DEF InHand, Carrying
<1>. QED  BY <1>1 DEF StageOf

\* What a step of w leaves of the stages.
LEMMA StageFrame ==
  ASSUME NEW w \in Worker, NEW c \in Chat, hand[w] # c, hand'[w] # c,
         \A v \in Worker \ {w} : UNCHANGED <<pc[v], hand[v], target[v]>>,
         c \in Range(begun') <=> c \in Range(begun)
  PROVE  StageOf'[c] = StageOf[c]
<1>1. \A steps : Carrying(c, steps)' <=> Carrying(c, steps)
  BY DEF Carrying
<1>2. OnLiveSession(c)' <=> OnLiveSession(c)
  BY DEF OnLiveSession
<1>. QED  BY <1>1, <1>2 DEF StageOf

\* A worker that returns is done with what it has in hand.
LEMMA StageReturn ==
  ASSUME StateOK, NEW w \in Worker, Return(w), begun' = begun
  PROVE  /\ hand[w] \notin Chat => StageOf' = StageOf
         /\ hand[w] \in Chat => StageOf' = [StageOf EXCEPT ![hand[w]] = "done"]
<1>. USE DeliveryAssumption
<1>1. /\ \A v \in Worker \ {w} : UNCHANGED <<pc[v], hand[v], target[v]>>
      /\ hand'[w] = None /\ None \notin Chat
  BY DEF StateOK, TypeOK, Return, Row
<1>2. \A c \in Chat : hand[w] # c => StageOf'[c] = StageOf[c]
  BY <1>1, StageFrame
<1>3. ASSUME NEW c \in Chat, hand[w] = c PROVE StageOf'[c] = "done"
  <2>1. ~InHand(c)' /\ c \in Range(begun')
    BY <1>1, <1>3, StageInHand DEF InHand
  <2>. QED  BY <2>1 DEF StageOf, InHand, Carrying
<1>4. StageOf = [c \in Chat |-> StageOf[c]] /\ StageOf' = [c \in Chat |-> StageOf'[c]]
  BY DEF StageOf
<1>. QED  BY <1>2, <1>3, <1>4

\* One that goes on moves it to the stage of its next step.
LEMMA StageGoto ==
  ASSUME StateOK, StateOK', NEW w \in Worker, NEW step, Goto(w, step), begun' = begun,
         \A v \in Worker \ {w} : UNCHANGED target[v]
  PROVE  /\ hand[w] \notin Chat => StageOf' = StageOf
         /\ hand[w] \in Chat =>
              StageOf' = [StageOf EXCEPT ![hand[w]] = StageAt(step, target'[w])]
<1>1. /\ \A v \in Worker \ {w} : UNCHANGED <<pc[v], hand[v], target[v]>>
      /\ hand' = hand /\ pc'[w] = step
  BY DEF StateOK, TypeOK, Goto
<1>2. \A c \in Chat : hand[w] # c => StageOf'[c] = StageOf[c]
  BY <1>1, StageFrame
<1>3. ASSUME hand[w] \in Chat PROVE StageOf'[hand[w]] = StageAt(step, target'[w])
  BY <1>1, <1>3, HandStagesNext DEF HandStagesOK
<1>4. StageOf = [c \in Chat |-> StageOf[c]] /\ StageOf' = [c \in Chat |-> StageOf'[c]]
  BY DEF StageOf
<1>. QED  BY <1>1, <1>2, <1>3, <1>4

\* A READY at work on a user is the only one.
LEMMA ServedBy ==
  ASSUME StateOK, NEW w \in Worker, user[w] \in User
  PROVE  /\ user[w] \in Served <=> pc[w] \in {"forward", "delete"}
         /\ StreamOf[user[w]] = IF pc[w] = "forward" THEN list[w] ELSE <<>>
         /\ BoxOf[user[w]] = IF pc[w] \in {"forward", "delete"} THEN <<>> ELSE table[user[w]]
<1>1. user[w] # None
  BY DeliveryAssumption
<1>2. \A v \in Worker : user[v] = user[w] => v = w
  BY <1>1 DEF StateOK, OneHandler
<1>3. Forwarding(user[w]) <=> pc[w] \in {"forward", "delete"}
  BY <1>2 DEF Forwarding
<1>4. \A v \in Worker : Forwards(v, user[w]) <=> v = w /\ pc[w] = "forward"
  BY <1>2 DEF Forwards
<1>5. StreamOf[user[w]] = IF pc[w] = "forward" THEN list[w] ELSE <<>>
  BY <1>4 DEF StreamOf
<1>. QED  BY <1>3, <1>5 DEF Served, BoxOf

LEMMA ServedFrame ==
  ASSUME NEW w \in Worker, NEW u \in User, user[w] # u, user'[w] # u,
         \A v \in Worker \ {w} : UNCHANGED <<pc[v], user[v], list[v]>>
  PROVE  /\ u \in Served' <=> u \in Served
         /\ StreamOf'[u] = StreamOf[u]
         /\ table'[u] = table[u] => BoxOf'[u] = BoxOf[u]
<1>1. Forwarding(u)' <=> Forwarding(u)
  BY DEF Forwarding
<1>2. \A v \in Worker : Forwards(v, u)' <=> Forwards(v, u)
  BY DEF Forwards
<1>3. \A v \in Worker : Forwards(v, u) => list'[v] = list[v]
  BY DEF Forwards
<1>4. StreamOf'[u] = StreamOf[u]
  <2>1. CASE \E v \in Worker : Forwards(v, u)
    <3>. DEFINE v == CHOOSE v \in Worker : Forwards(v, u)
    <3>1. v \in Worker /\ Forwards(v, u)
      BY <2>1
    <3>2. (CHOOSE x \in Worker : Forwards(x, u)') = v
      BY <1>2
    <3>. QED  BY <1>2, <1>3, <2>1, <3>1, <3>2 DEF StreamOf
  <2>2. CASE ~\E v \in Worker : Forwards(v, u)
    BY <1>2, <2>2 DEF StreamOf
  <2>. QED  BY <2>1, <2>2
<1>. QED  BY <1>1, <1>4 DEF Served, BoxOf

\* A worker that is not at work on a READY leaves all READYs as they are.
LEMMA ServedQuiet ==
  ASSUME NEW w \in Worker, pc[w] \notin {"forward", "delete"}, pc'[w] \notin {"forward", "delete"},
         \A v \in Worker \ {w} : UNCHANGED <<pc[v], user[v], list[v]>>
  PROVE  /\ Served' = Served /\ StreamOf' = StreamOf
         /\ table' = table => BoxOf' = BoxOf
<1>1. \A u \in User : Forwarding(u)' <=> Forwarding(u)
  BY DEF Forwarding
<1>2. \A v \in Worker, u \in User : Forwards(v, u)' <=> Forwards(v, u)
  BY DEF Forwards
<1>3. \A v \in Worker, u \in User : Forwards(v, u) => list'[v] = list[v]
  BY DEF Forwards
<1>4. ASSUME NEW u \in User PROVE StreamOf'[u] = StreamOf[u]
  <2>1. CASE \E v \in Worker : Forwards(v, u)
    <3>. DEFINE v == CHOOSE v \in Worker : Forwards(v, u)
    <3>1. v \in Worker /\ Forwards(v, u)
      BY <2>1
    <3>2. (CHOOSE x \in Worker : Forwards(x, u)') = v
      BY <1>2
    <3>. QED  BY <1>2, <1>3, <2>1, <3>1, <3>2 DEF StreamOf
  <2>2. CASE ~\E v \in Worker : Forwards(v, u)
    BY <1>2, <2>2 DEF StreamOf
  <2>. QED  BY <2>1, <2>2
<1>5. StreamOf' = StreamOf
  <2>1. StreamOf = [u \in User |-> StreamOf[u]] /\ StreamOf' = [u \in User |-> StreamOf'[u]]
    BY DEF StreamOf
  <2>. QED  BY <1>4, <2>1
<1>. QED  BY <1>1, <1>5 DEF Served, BoxOf

LEMMA NotBusy ==
  ASSUME StateOK, NEW u \in User,
         \A w \in Worker : user[w] = u => hand[w] \notin Chat /\ pc[w] \notin {"forward", "delete"}
  PROVE  ~MailboxOf!Busy(u)
<1>1. u \notin Served
  BY DEF Served, Forwarding
<1>2. ASSUME NEW c \in Chat, From[c] = u PROVE StageOf[c] \notin MailboxOf!Carried
  <2>1. ~InHand(c)
    BY <1>2, StageInHand DEF InHand
  <2>. QED  BY <2>1, StageElse DEF MailboxOf!Carried
<1>. QED  BY <1>1, <1>2 DEF MailboxOf!Busy

-----------------------------------------------------------------------------
(* The steps of Delivery as steps of Mailbox.                              *)

MailboxStep == MailboxOf!Next \/ UNCHANGED Mapped

LEMMA MappedFrame ==
  ASSUME UNCHANGED <<begun, pc, user, hand, target, list, table>>
  PROVE  UNCHANGED <<StageOf, BoxOf, Served, StreamOf>>
<1>1. StageOf' = StageOf
  BY DEF StageOf, Carrying, OnLiveSession
<1>2. Served' = Served /\ BoxOf' = BoxOf
  BY DEF Served, BoxOf, Forwarding
<1>3. StreamOf' = StreamOf
  BY DEF StreamOf, Forwards
<1>. QED  BY <1>1, <1>2, <1>3

LEMMA ClientsMap ==
  ASSUME Inv, NEW u \in User, Environment(u)
  PROVE  MailboxStep
<1>. USE DeliveryAssumption
<1>0. StateOK /\ TypeOK
  BY DEF Inv, StateOK
<1>1. CASE LogIn(u) \/ Leave(u)
  <2>1. UNCHANGED <<begun, StageOf, BoxOf, stored, Served, StreamOf, received, faults + crashes>>
    BY <1>1, MappedFrame DEF LogIn, Leave, workerVars, historyVars
  <2>2. MailboxOf!LogIn(u) \/ MailboxOf!Leave(u)
    BY <1>1, <2>1 DEF LogIn, Leave, MailboxOf!LogIn, MailboxOf!Leave
  <2>. QED  BY <2>2 DEF MailboxStep, MailboxOf!Next
<1>2. CASE EndSession(u)
  <2>1. UNCHANGED <<begun, BoxOf, stored, Served, StreamOf, received, faults + crashes>>
    BY <1>2 DEF EndSession, historyVars, BoxOf, Served, Forwarding, StreamOf, Forwards
  <2>2. ~MailboxOf!Busy(u)
    BY <1>0, <1>2, NotBusy DEF EndSession, Handled
  <2>3. ASSUME NEW c \in Chat
        PROVE  StageOf'[c] = IF To[c] = u /\ StageOf[c] = "direct" THEN "astray" ELSE StageOf[c]
    <3>1. CASE InHand(c)
      <4>1. PICK w \in Worker : hand[w] = c
        BY <3>1 DEF InHand
      <4>2. /\ StageOf[c] = StageAt(pc[w], target[w]) /\ dest[w] = To[c]
            /\ \A v \in Worker : hand[v] = c => v = w
            /\ c \in Range(begun)
        BY <1>0, <4>1, StageInHand
      <4>3. StageOf'[c] = StageAt(pc[w], target'[w])
        <5>1. \A steps : Carrying(c, steps)' <=> pc[w] \in steps
          BY <1>2, <4>1, <4>2 DEF EndSession, Carrying
        <5>2. OnLiveSession(c)' <=> target'[w] = "live"
          BY <1>2, <4>1, <4>2 DEF EndSession, OnLiveSession
        <5>3. pc[w] \in {"check", "lookup", "send", "save"}
          BY <1>0, <4>1, StageInHand
        <5>4. c \in Range(begun')
          BY <1>2, <4>2 DEF EndSession, historyVars
        <5>. QED  BY <5>1, <5>2, <5>3, <5>4 DEF StageOf, StageAt
      <4>4. target'[w] = IF To[c] = u /\ target[w] = "live" THEN "gone" ELSE target[w]
        BY <1>2, <4>2 DEF EndSession
      <4>. QED  BY <4>2, <4>3, <4>4 DEF StageAt
    <3>2. CASE ~InHand(c)
      <4>1. ~InHand(c)' /\ begun' = begun
        BY <1>2, <3>2 DEF EndSession, InHand, historyVars
      <4>2. StageOf'[c] = StageOf[c]
        BY <3>2, <4>1 DEF StageOf, InHand, Carrying
      <4>3. StageOf[c] # "direct"
        BY <3>2, StageElse
      <4>. QED  BY <4>2, <4>3
    <3>. QED  BY <3>1, <3>2
  <2>4. StageOf' = [c \in Chat |->
                      IF To[c] = u /\ StageOf[c] = "direct" THEN "astray" ELSE StageOf[c]]
    <3>1. StageOf' = [c \in Chat |-> StageOf'[c]]
      BY DEF StageOf
    <3>. QED  BY <2>3, <3>1
  <2>5. MailboxOf!EndSession(u)
    BY <1>2, <2>1, <2>2, <2>4 DEF EndSession, MailboxOf!EndSession
  <2>. QED  BY <2>5 DEF MailboxStep, MailboxOf!Next
<1>. QED  BY <1>1, <1>2 DEF Environment

\* The step of a worker that leaves the table and the READYs alone.
LEMMA QuietStep ==
  ASSUME NEW w \in Worker, pc[w] \notin {"forward", "delete"}, pc'[w] \notin {"forward", "delete"},
         \A v \in Worker \ {w} : UNCHANGED <<pc[v], user[v], list[v]>>,
         UNCHANGED <<client, table, faults, crashes>>
  PROVE  UNCHANGED <<client, BoxOf, Served, StreamOf, faults + crashes>>
BY ServedQuiet

LEMMA BeginsMap ==
  ASSUME Inv, StateOK', NEW w \in Worker, Request(w)
  PROVE  MailboxStep
<1>. USE DeliveryAssumption
<1>0. StateOK /\ TypeOK
  BY DEF Inv, StateOK
<1>1. ASSUME NEW u \in User, NEW step, NEW receiver, NEW message,
             Begin(w, u, step, receiver, message), step \in {"check", "lookup", "get"}
      PROVE  /\ UNCHANGED <<client, BoxOf, stored, Served, StreamOf, received, faults + crashes>>
             /\ ~MailboxOf!Busy(u) /\ client[u] # "away"
             /\ pc'[w] = step /\ hand'[w] = message /\ hand[w] = None
             /\ \A v \in Worker \ {w} : UNCHANGED <<pc[v], hand[v], target[v]>>
  <2>1. /\ pc'[w] = step /\ hand'[w] = message /\ hand[w] = None /\ pc[w] = "idle"
        /\ \A v \in Worker \ {w} : UNCHANGED <<pc[v], user[v], hand[v], target[v], list[v]>>
    BY <1>0, <1>1 DEF Begin, TypeOK, StateOK, HandlersOK
  <2>2. UNCHANGED <<client, BoxOf, Served, StreamOf, faults + crashes>>
    BY <1>1, <2>1, QuietStep DEF Begin
  <2>3. ~MailboxOf!Busy(u)
    BY <1>0, <1>1, NotBusy DEF Begin, Handled
  <2>. QED  BY <1>1, <2>1, <2>2, <2>3 DEF Begin
<1>2. ASSUME NEW c \in Chat, BeginChat(w, c) PROVE MailboxOf!Send(c)
  <2>1. From[c] \in User /\ Begin(w, From[c], "check", To[c], c)
    BY <1>2 DEF BeginChat
  <2>2. /\ c \notin Range(begun) /\ begun' = Append(begun, c)
        /\ Range(begun') = Range(begun) \cup {c}
    BY <1>0, <1>2, RangeOfAppend DEF BeginChat, TypeOK
  <2>3. StageOf[c] = "unsent"
    <3>1. ~InHand(c)
      BY <1>0, <2>2, StageInHand DEF InHand
    <3>. QED  BY <2>2, <3>1, StageElse
  <2>4. hand'[w] = c /\ pc'[w] = "check"
    BY <1>1, <2>1
  <2>5. StageOf'[c] = "posted"
    BY <2>4, HandStagesNext DEF HandStagesOK, StageAt
  <2>6. ASSUME NEW d \in Chat, d # c PROVE StageOf'[d] = StageOf[d]
    <3>1. hand[w] # d /\ hand'[w] # d
      BY <1>1, <2>1, <2>6 DEF Row
    <3>. QED  BY <1>1, <2>1, <2>2, <2>6, <3>1, StageFrame
  <2>7. StageOf' = [StageOf EXCEPT ![c] = "posted"]
    <3>1. StageOf = [d \in Chat |-> StageOf[d]] /\ StageOf' = [d \in Chat |-> StageOf'[d]]
      BY DEF StageOf
    <3>. QED  BY <2>5, <2>6, <3>1
  <2>. QED  BY <1>1, <2>1, <2>2, <2>3, <2>7 DEF MailboxOf!Send
<1>3. ASSUME NEW u \in User, NEW step, NEW receiver, NEW message,
             Begin(w, u, step, receiver, message), step \in {"lookup", "get"},
             message \notin Chat, begun' = begun
      PROVE  UNCHANGED Mapped
  <2>1. ASSUME NEW c \in Chat PROVE StageOf'[c] = StageOf[c]
    <3>1. hand[w] # c /\ hand'[w] # c
      BY <1>1, <1>3 DEF Row
    <3>. QED  BY <1>1, <1>3, <3>1, StageFrame
  <2>2. StageOf' = StageOf
    <3>1. StageOf = [d \in Chat |-> StageOf[d]] /\ StageOf' = [d \in Chat |-> StageOf'[d]]
      BY DEF StageOf
    <3>. QED  BY <2>1, <3>1
  <2>. QED  BY <1>1, <1>3, <2>2 DEF Mapped
<1>4. ASSUME NEW ask \in Asks, BeginNotice(w, ask) PROVE UNCHANGED Mapped
  <2>1. ask[1] \in User /\ Notice \notin Chat
    OBVIOUS
  <2>. QED  BY <1>3, <1>4, <2>1 DEF BeginNotice
<1>5. ASSUME NEW u \in User, BeginReady(w, u) PROVE UNCHANGED Mapped
  <2>1. None \notin Chat
    BY DEF Row
  <2>. QED  BY <1>3, <1>5, <2>1 DEF BeginReady
<1>. QED  BY <1>2, <1>4, <1>5 DEF Request, MailboxStep, MailboxOf!Next

\* What the steps of CHAT and of the notice have in common.
LEMMA HandlerFrame ==
  ASSUME StateOK, NEW w \in Worker, pc[w] \in HandSteps,
         Return(w) \/ \E step \in HandSteps : Goto(w, step) /\ UNCHANGED list
  PROVE  /\ hand[w] \in Row /\ dest[w] \in User
         /\ hand[w] \in Chat => dest[w] = To[hand[w]]
         /\ hand[w] \notin Chat => hand[w] = Notice
         /\ Served' = Served /\ StreamOf' = StreamOf
         /\ table' = table => BoxOf' = BoxOf
<1>1. hand[w] \in Row /\ dest[w] \in User /\ (hand[w] \in Chat => dest[w] = To[hand[w]])
  BY DEF StateOK, HandlersOK
<1>2. hand[w] \notin Chat => hand[w] = Notice
  BY <1>1 DEF Row
<1>3. /\ pc[w] \notin {"forward", "delete"} /\ pc'[w] \notin {"forward", "delete"}
      /\ \A v \in Worker \ {w} : UNCHANGED <<pc[v], user[v], list[v]>>
  BY DEF StateOK, TypeOK, Return, Goto, HandSteps
<1>. QED  BY <1>1, <1>2, <1>3, ServedQuiet

LEMMA ChatsMap ==
  ASSUME Inv, StateOK', NEW w \in Worker,
         Refuse(w) \/ Check(w) \/ Lookup(w) \/ SendDirect(w) \/ FindNotice(w)
  PROVE  MailboxStep
<1>. USE DeliveryAssumption
<1>0. StateOK /\ TypeOK
  BY DEF Inv, StateOK
<1>1. CASE Refuse(w)
  <2>1. pc[w] \in HandSteps /\ pc[w] = "check" /\ Return(w)
    BY <1>1 DEF Refuse, HandSteps
  <2>2. hand[w] \in Chat
    BY <1>0, <2>1 DEF StateOK, HandlersOK
  <2>3. UNCHANGED <<client, begun, BoxOf, stored, Served, StreamOf, received, faults + crashes>>
    BY <1>0, <1>1, <2>1, HandlerFrame DEF Refuse
  <2>4. StageOf' = [StageOf EXCEPT ![hand[w]] = "done"]
    BY <1>0, <2>1, <2>2, <2>3, StageReturn
  <2>5. StageOf[hand[w]] = "posted"
    BY <1>0, <2>1, <2>2, StageInHand DEF StageAt
  <2>6. MailboxOf!Refuse(hand[w])
    BY <2>3, <2>4, <2>5 DEF MailboxOf!Refuse
  <2>. QED  BY <2>2, <2>6 DEF MailboxStep, MailboxOf!Next
<1>2. CASE Check(w)
  <2>1. pc[w] \in HandSteps /\ pc[w] = "check" /\ Goto(w, "lookup") /\ "lookup" \in HandSteps
    BY <1>2 DEF Check, HandSteps
  <2>2. hand[w] \in Chat
    BY <1>0, <2>1 DEF StateOK, HandlersOK
  <2>3. UNCHANGED <<client, begun, BoxOf, stored, Served, StreamOf, received, faults + crashes>>
    BY <1>0, <1>2, <2>1, HandlerFrame DEF Check, historyVars
  <2>4. StageOf' = [StageOf EXCEPT ![hand[w]] = "posted"]
    BY <1>0, <1>2, <2>1, <2>2, StageGoto DEF Check, historyVars, StageAt
  <2>5. StageOf[hand[w]] = "posted"
    BY <1>0, <2>1, <2>2, StageInHand DEF StageAt
  <2>6. StageOf' = StageOf
    BY <2>4, <2>5 DEF StageOf
  <2>. QED  BY <2>3, <2>6 DEF MailboxStep, Mapped
<1>3. CASE Lookup(w)
  <2>. DEFINE step == IF client[dest[w]] = "away"
                        THEN IF hand[w] = Notice THEN "find" ELSE "save" ELSE "send"
  <2>1. pc[w] \in HandSteps /\ pc[w] = "lookup" /\ Goto(w, step) /\ step \in HandSteps
    BY <1>3 DEF Lookup, HandSteps
  <2>2. /\ UNCHANGED <<client, begun, BoxOf, stored, Served, StreamOf, received, faults + crashes>>
        /\ hand[w] \in Chat => dest[w] = To[hand[w]]
    BY <1>0, <1>3, <2>1, HandlerFrame DEF Lookup, historyVars
  <2>3. /\ \A v \in Worker \ {w} : UNCHANGED target[v]
        /\ step = "send" => target'[w] = "live"
        /\ begun' = begun
    BY <1>0, <1>3 DEF Lookup, historyVars, TypeOK
  <2>4. CASE hand[w] \notin Chat
    <3>1. StageOf' = StageOf
      BY <1>0, <2>1, <2>3, <2>4, StageGoto
    <3>. QED  BY <2>2, <3>1 DEF MailboxStep, Mapped
  <2>5. CASE hand[w] \in Chat
    <3>1. StageOf[hand[w]] = "posted"
      BY <1>0, <2>1, <2>5, StageInHand DEF StageAt
    <3>2. StageOf' = [StageOf EXCEPT ![hand[w]] = StageAt(step, target'[w])]
      BY <1>0, <2>1, <2>3, <2>5, StageGoto
    <3>3. StageAt(step, target'[w]) = IF client[To[hand[w]]] = "away" THEN "keep" ELSE "direct"
      BY <2>2, <2>3, <2>5 DEF StageAt
    <3>4. MailboxOf!Route(hand[w])
      BY <2>2, <3>1, <3>2, <3>3 DEF MailboxOf!Route
    <3>. QED  BY <2>5, <3>4 DEF MailboxStep, MailboxOf!Next
  <2>. QED  BY <2>4, <2>5
<1>4. CASE SendDirect(w)
  <2>1. pc[w] \in HandSteps /\ pc[w] = "send" /\ Return(w) /\ begun' = begun
    BY <1>4 DEF SendDirect, HandSteps
  <2>2. /\ UNCHANGED <<client, begun, BoxOf, stored, Served, StreamOf, faults + crashes>>
        /\ hand[w] \in Chat => dest[w] = To[hand[w]]
        /\ hand[w] \notin Chat => hand[w] = Notice
    BY <1>0, <1>4, <2>1, HandlerFrame DEF SendDirect
  <2>3. PICK same \in IF target[w] = "live" THEN {TRUE} ELSE BOOLEAN :
               Deliver(dest[w], hand[w], same /\ client[dest[w]] = "online")
    BY <1>4 DEF SendDirect
  <2>4. CASE hand[w] \notin Chat
    <3>1. StageOf' = StageOf
      BY <1>0, <2>1, <2>4, StageReturn
    <3>2. received' = received
      BY <2>2, <2>3, <2>4 DEF Deliver
    <3>. QED  BY <2>2, <3>1, <3>2 DEF MailboxStep, Mapped
  <2>5. CASE hand[w] \in Chat
    <3>1. StageOf[hand[w]] = IF target[w] = "live" THEN "direct" ELSE "astray"
      BY <1>0, <2>1, <2>5, StageInHand DEF StageAt
    <3>2. StageOf' = [StageOf EXCEPT ![hand[w]] = "done"]
      BY <1>0, <2>1, <2>5, StageReturn
    <3>3. hand[w] # Notice
      BY <2>5
    <3>4. CASE same /\ client[dest[w]] = "online"
      <4>1. received' = [received EXCEPT ![To[hand[w]]] = Append(@, hand[w])]
        BY <2>2, <2>3, <2>5, <3>3, <3>4 DEF Deliver
      <4>2. MailboxOf!Arrive(hand[w])
        BY <2>2, <2>5, <3>1, <3>2, <3>4, <4>1 DEF MailboxOf!Arrive
      <4>. QED  BY <2>5, <4>2 DEF MailboxStep, MailboxOf!Next
    <3>5. CASE ~(same /\ client[dest[w]] = "online")
      <4>1. received' = received
        BY <2>3, <3>5 DEF Deliver
      <4>2. target[w] = "live" => client[To[hand[w]]] # "online"
        BY <2>2, <2>3, <2>5, <3>5
      <4>3. MailboxOf!Miss(hand[w])
        BY <2>2, <3>1, <3>2, <4>1, <4>2 DEF MailboxOf!Miss
      <4>. QED  BY <2>5, <4>3 DEF MailboxStep, MailboxOf!Next
    <3>. QED  BY <3>4, <3>5
  <2>. QED  BY <2>4, <2>5
<1>5. CASE FindNotice(w)
  <2>0. Return(w) \/ (Goto(w, "save") /\ UNCHANGED <<target, list>>)
    <3>1. CASE HasSystemNotify(dest[w])
      BY <1>5, <3>1, Zenon DEF FindNotice
    <3>2. CASE ~HasSystemNotify(dest[w])
      BY <1>5, <3>2, Zenon DEF FindNotice
    <3>. QED  BY <3>1, <3>2
  <2>1. pc[w] \in HandSteps /\ pc[w] = "find" /\ "save" \in HandSteps
    BY <1>5 DEF FindNotice, HandSteps
  <2>2. hand[w] \notin Chat
    BY <1>0, <2>1 DEF StateOK, HandlersOK
  <2>3. UNCHANGED <<client, begun, BoxOf, stored, Served, StreamOf, received, faults + crashes>>
    BY <1>0, <1>5, <2>0, <2>1, HandlerFrame DEF FindNotice, historyVars
  <2>4. StageOf' = StageOf
    BY <1>0, <2>0, <2>1, <2>2, <2>3, StageReturn, StageGoto
  <2>. QED  BY <2>3, <2>4 DEF MailboxStep, Mapped
<1>. QED  BY <1>1, <1>2, <1>3, <1>4, <1>5

LEMMA SaveMap ==
  ASSUME Inv, NEW w \in Worker, SaveMessage(w)
  PROVE  MailboxStep
<1>. USE DeliveryAssumption
<1>. DEFINE u == dest[w]  m == hand[w]
<1>0. StateOK /\ TypeOK
  BY DEF Inv, StateOK
<1>1. /\ pc[w] \in HandSteps /\ pc[w] = "save" /\ Return(w)
      /\ table' = [table EXCEPT ![u] = Append(@, m)]
      /\ UNCHANGED <<client, begun, received, faults, crashes>>
  BY DEF SaveMessage, HandSteps
<1>2. /\ u \in User
      /\ m \in Chat => u = To[m]
      /\ m \notin Chat => m = Notice
      /\ Served' = Served /\ StreamOf' = StreamOf
  BY <1>0, <1>1, HandlerFrame
<1>3. BoxOf' = IF u \in Served THEN BoxOf ELSE [BoxOf EXCEPT ![u] = Append(@, m)]
  <2>1. \A v \in User : Forwarding(v)' <=> Forwarding(v)
    BY <1>2 DEF Served
  <2>. QED  BY <1>0, <1>1, <1>2, <2>1 DEF BoxOf, Served, TypeOK
<1>4. CASE m \in Chat
  <2>1. StageOf[m] = "keep" /\ StageOf' = [StageOf EXCEPT ![m] = "done"]
    BY <1>0, <1>1, <1>4, StageInHand, StageReturn DEF StageAt
  <2>2. stored' = stored \cup {m}
    BY <1>4 DEF SaveMessage
  <2>3. MailboxOf!Keep(m)
    BY <1>1, <1>2, <1>3, <1>4, <2>1, <2>2 DEF MailboxOf!Keep
  <2>. QED  BY <1>4, <2>3 DEF MailboxStep, MailboxOf!Next
<1>5. CASE m \notin Chat
  <2>1. StageOf' = StageOf
    BY <1>0, <1>1, <1>5, StageReturn
  <2>2. stored' = stored
    BY <1>5 DEF SaveMessage
  <2>3. CASE u \in Served
    BY <1>1, <1>2, <1>3, <2>1, <2>2, <2>3 DEF MailboxStep, Mapped
  <2>4. CASE u \notin Served
    <3>1. MailboxOf!KeepNotice(u)
      BY <1>1, <1>2, <1>3, <1>5, <2>1, <2>2, <2>4 DEF MailboxOf!KeepNotice
    <3>. QED  BY <1>2, <3>1 DEF MailboxStep, MailboxOf!Next
  <2>. QED  BY <2>3, <2>4
<1>. QED  BY <1>4, <1>5

-----------------------------------------------------------------------------
\* What the steps of a READY have in common.
LEMMA ReadyFrame ==
  ASSUME StateOK, NEW w \in Worker, NEW u, u = user[w], pc[w] \in ReadySteps, begun' = begun,
         Return(w) \/ \E step \in {"forward", "delete"} : Goto(w, step) /\ UNCHANGED target,
         \A v \in Worker \ {w} : list'[v] = list[v],
         \A v \in User \ {u} : table'[v] = table[v]
  PROVE  /\ u \in User /\ dest[w] = u /\ hand[w] = None
         /\ pc[w] = "get" => ~MailboxOf!Busy(u)
         /\ StageOf' = StageOf
         /\ Served' = IF pc'[w] = "idle" THEN Served \ {u} ELSE Served \cup {u}
         /\ StreamOf' = [StreamOf EXCEPT ![u] = IF pc'[w] = "forward" THEN list'[w] ELSE <<>>]
         /\ BoxOf' = [BoxOf EXCEPT ![u] = IF pc'[w] = "idle" THEN table'[u] ELSE <<>>]
<1>. USE DeliveryAssumption
<1>0. TypeOK /\ HandlersOK /\ OneHandler
  BY DEF StateOK
<1>1. /\ u \in User /\ dest[w] = u /\ hand[w] = None /\ None \notin Chat
      /\ \A v \in Worker : user[v] = u => v = w
  BY <1>0 DEF HandlersOK, OneHandler, TypeOK, ReadySteps, Row
<1>2. /\ \A v \in Worker \ {w} : UNCHANGED <<pc[v], user[v], hand[v], target[v]>>
      /\ hand'[w] = None
      /\ \/ pc'[w] = "idle" /\ user'[w] = None
         \/ pc'[w] \in {"forward", "delete"} /\ user'[w] = u
  BY <1>0, <1>1 DEF Return, Goto, TypeOK
<1>3. StageOf' = StageOf
  <2>1. \A c \in Chat : StageOf'[c] = StageOf[c]
    BY <1>1, <1>2, StageFrame
  <2>2. StageOf = [d \in Chat |-> StageOf[d]] /\ StageOf' = [d \in Chat |-> StageOf'[d]]
    BY DEF StageOf
  <2>. QED  BY <2>1, <2>2
<1>4. pc[w] = "get" => ~MailboxOf!Busy(u)
  BY <1>1, NotBusy
<1>5. ASSUME NEW v \in User, v # u
      PROVE  (v \in Served' <=> v \in Served) /\ StreamOf'[v] = StreamOf[v] /\ BoxOf'[v] = BoxOf[v]
  <2>1. user[w] # v /\ user'[w] # v
    BY <1>1, <1>2, <1>5
  <2>. QED  BY <1>2, <1>5, <2>1, ServedFrame
<1>6. Forwarding(u)' <=> pc'[w] # "idle"
  BY <1>1, <1>2 DEF Forwarding
<1>7. \A v \in Worker : Forwards(v, u)' <=> v = w /\ pc'[w] = "forward"
  BY <1>1, <1>2 DEF Forwards
<1>8. /\ u \in Served' <=> pc'[w] # "idle"
      /\ StreamOf'[u] = IF pc'[w] = "forward" THEN list'[w] ELSE <<>>
      /\ BoxOf'[u] = IF pc'[w] = "idle" THEN table'[u] ELSE <<>>
  <2>1. StreamOf'[u] = IF pc'[w] = "forward" THEN list'[w] ELSE <<>>
    BY <1>1, <1>7 DEF StreamOf
  <2>. QED  BY <1>1, <1>6, <2>1 DEF Served, BoxOf
<1>9. Served' = IF pc'[w] = "idle" THEN Served \ {u} ELSE Served \cup {u}
  BY <1>1, <1>5, <1>8 DEF Served
<1>10. /\ StreamOf = [v \in User |-> StreamOf[v]] /\ StreamOf' = [v \in User |-> StreamOf'[v]]
       /\ BoxOf = [v \in User |-> BoxOf[v]] /\ BoxOf' = [v \in User |-> BoxOf'[v]]
  BY DEF StreamOf, BoxOf
<1>11. StreamOf' = [StreamOf EXCEPT ![u] = IF pc'[w] = "forward" THEN list'[w] ELSE <<>>]
  BY <1>5, <1>8, <1>10
<1>12. BoxOf' = [BoxOf EXCEPT ![u] = IF pc'[w] = "idle" THEN table'[u] ELSE <<>>]
  BY <1>5, <1>8, <1>10
<1>. QED  BY <1>1, <1>3, <1>4, <1>9, <1>11, <1>12

LEMMA MapsAreFunctions ==
  /\ StreamOf = [v \in User |-> StreamOf[v]] /\ BoxOf = [v \in User |-> BoxOf[v]]
  /\ \A u \in User : /\ [StreamOf EXCEPT ![u] = StreamOf[u]] = StreamOf
                     /\ [BoxOf EXCEPT ![u] = BoxOf[u]] = BoxOf
<1>1. StreamOf = [v \in User |-> StreamOf[v]] /\ BoxOf = [v \in User |-> BoxOf[v]]
  BY DEF StreamOf, BoxOf
<1>. QED  BY <1>1

LEMMA ForwardedMap ==
  ASSUME StateOK, NEW w \in Worker, NEW u, u = user[w], NEW reached \in BOOLEAN,
         Forwarded(w, reached)
  PROVE  u \in User /\ MailboxOf!HandOver(u, reached)
<1>. USE DeliveryAssumption
<1>. DEFINE step == IF Len(list[w]) = 1 THEN "delete" ELSE "forward"
<1>0. TypeOK /\ HandlersOK
  BY DEF StateOK
<1>1. /\ pc[w] = "forward" /\ pc[w] \in ReadySteps /\ Goto(w, step) /\ step \in {"forward", "delete"}
      /\ list' = [list EXCEPT ![w] = Tail(@)]
      /\ UNCHANGED <<table, client, target, begun, stored>>
      /\ Deliver(u, Head(list[w]), reached)
  BY DEF Forwarded, ReadySteps
<1>2. /\ pc'[w] = step /\ list'[w] = Tail(list[w])
      /\ \A v \in Worker \ {w} : list'[v] = list[v]
  BY <1>0, <1>1 DEF Goto, TypeOK
<1>3. /\ u \in User /\ StageOf' = StageOf /\ Served' = Served \cup {u}
      /\ StreamOf' = [StreamOf EXCEPT ![u] = IF step = "forward" THEN Tail(list[w]) ELSE <<>>]
      /\ BoxOf' = [BoxOf EXCEPT ![u] = <<>>]
  <2>1. \E next \in {"forward", "delete"} : Goto(w, next) /\ UNCHANGED target
    BY <1>1
  <2>2. /\ u \in User /\ StageOf' = StageOf
        /\ Served' = IF pc'[w] = "idle" THEN Served \ {u} ELSE Served \cup {u}
        /\ StreamOf' = [StreamOf EXCEPT ![u] = IF pc'[w] = "forward" THEN list'[w] ELSE <<>>]
        /\ BoxOf' = [BoxOf EXCEPT ![u] = IF pc'[w] = "idle" THEN table'[u] ELSE <<>>]
    BY <1>1, <1>2, <2>1, ReadyFrame
  <2>. QED  BY <1>2, <2>2
<1>4. u \in Served /\ StreamOf[u] = list[w] /\ BoxOf[u] = <<>>
  BY <1>1, <1>3, ServedBy
<1>5. list[w] # <<>> /\ (Len(list[w]) = 1 => Tail(list[w]) = <<>>)
  <2>1. list[w] \in Seq(Row) /\ list[w] # <<>>
    BY <1>0, <1>1 DEF TypeOK, HandlersOK
  <2>. QED  BY <2>1, RangeOfTail
<1>6. StreamOf' = [StreamOf EXCEPT ![u] = Tail(@)]
  BY <1>3, <1>4, <1>5
<1>7. Served' = Served /\ BoxOf' = BoxOf
  BY <1>3, <1>4, MapsAreFunctions
<1>8. received' = IF reached /\ Head(StreamOf[u]) # Notice
                    THEN [received EXCEPT ![u] = Append(@, Head(StreamOf[u]))] ELSE received
  BY <1>1, <1>4 DEF Deliver
<1>. QED  BY <1>1, <1>3, <1>4, <1>5, <1>6, <1>7, <1>8 DEF MailboxOf!HandOver

LEMMA ReadyMap ==
  ASSUME Inv, NEW w \in Worker, GetMessages(w) \/ Forward(w) \/ DeleteMessages(w)
  PROVE  MailboxStep
<1>. USE DeliveryAssumption
<1>0. PICK u : u = user[w]
  OBVIOUS
<1>1. StateOK /\ TypeOK /\ PresentOK
  BY DEF Inv, StateOK, ArrivalOK
<1>2. /\ u \in User /\ dest[w] = u /\ pc[w] \in ReadySteps
      /\ u \in Served <=> pc[w] \in {"forward", "delete"}
      /\ StreamOf[u] = IF pc[w] = "forward" THEN list[w] ELSE <<>>
      /\ BoxOf[u] = IF pc[w] \in {"forward", "delete"} THEN <<>> ELSE table[u]
      /\ client[u] # "away"
  <2>1. pc[w] \in ReadySteps
    BY DEF GetMessages, Forward, Forwarded, DeleteMessages, ReadySteps
  <2>2. u \in User /\ dest[w] = u
    BY <1>0, <1>1, <2>1 DEF StateOK, HandlersOK, TypeOK, ReadySteps
  <2>3. client[u] # "away"
    BY <1>0, <1>1, <2>2 DEF PresentOK
  <2>. QED  BY <1>0, <1>1, <2>1, <2>2, <2>3, ServedBy
<1>3. CASE GetMessages(w)
  <2>1. /\ pc[w] = "get" /\ Fetched(u) = table[u]
        /\ UNCHANGED <<table, client, begun, stored, received, faults, crashes>>
    BY <1>2, <1>3 DEF GetMessages, Fetched, historyVars
  <2>2. CASE table[u] = <<>>
    <3>1. Return(w)
      BY <1>2, <1>3, <2>1, <2>2, Zenon DEF GetMessages
    <3>2. pc'[w] = "idle" /\ \A v \in Worker \ {w} : list'[v] = list[v]
      BY <1>1, <3>1 DEF Return, TypeOK
    <3>3. /\ StageOf' = StageOf /\ Served' = Served \ {u}
          /\ StreamOf' = [StreamOf EXCEPT ![u] = <<>>]
          /\ BoxOf' = [BoxOf EXCEPT ![u] = table'[u]]
      BY <1>0, <1>1, <1>2, <2>1, <3>1, <3>2, ReadyFrame
    <3>4. Served' = Served
      BY <1>2, <2>1, <3>3
    <3>5. StreamOf' = StreamOf /\ BoxOf' = BoxOf
      BY <1>2, <2>1, <3>3, MapsAreFunctions
    <3>. QED  BY <2>1, <3>3, <3>4, <3>5 DEF MailboxStep, Mapped
  <2>3. CASE table[u] # <<>>
    <3>1. /\ list' = [list EXCEPT ![w] = table[u]]
          /\ Goto(w, "forward") /\ UNCHANGED target
      BY <1>2, <1>3, <2>1, <2>3, Zenon DEF GetMessages
    <3>2. /\ pc'[w] = "forward" /\ list'[w] = table[u]
          /\ \A v \in Worker \ {w} : list'[v] = list[v]
      BY <1>1, <3>1 DEF Goto, TypeOK
    <3>3. /\ StageOf' = StageOf /\ Served' = Served \cup {u}
          /\ StreamOf' = [StreamOf EXCEPT ![u] = table[u]]
          /\ BoxOf' = [BoxOf EXCEPT ![u] = <<>>]
          /\ ~MailboxOf!Busy(u)
      BY <1>0, <1>1, <1>2, <2>1, <3>1, <3>2, ReadyFrame
    <3>4. MailboxOf!TakeAll(u)
      BY <1>2, <2>1, <2>3, <3>3 DEF MailboxOf!TakeAll, MailboxOf!Take
    <3>. QED  BY <1>2, <3>4 DEF MailboxStep, MailboxOf!Next
  <2>. QED  BY <2>2, <2>3
<1>4. CASE Forward(w)
  <2>. DEFINE reached == client[u] = "online"
  <2>1. Forwarded(w, reached) /\ UNCHANGED <<faults, crashes>>
    BY <1>0, <1>4 DEF Forward, Forwarded
  <2>2. MailboxOf!HandOver(u, reached) /\ client[u] # "away"
    BY <1>0, <1>1, <1>2, <2>1, ForwardedMap
  <2>3. MailboxOf!HandOverNext(u)
    BY <2>1, <2>2 DEF MailboxOf!HandOverNext
  <2>. QED  BY <1>2, <2>3 DEF MailboxStep, MailboxOf!Next
<1>5. CASE DeleteMessages(w)
  <2>1. /\ pc[w] = "delete" /\ Return(w)
        /\ table' = [table EXCEPT ![u] = <<>>]
        /\ UNCHANGED <<client, begun, stored, received, faults, crashes>>
    BY <1>2, <1>5 DEF DeleteMessages, Deleted, historyVars
  <2>2. pc'[w] = "idle" /\ \A v \in Worker \ {w} : list'[v] = list[v]
    BY <1>1, <2>1 DEF Return, TypeOK
  <2>3. table'[u] = <<>> /\ \A v \in User \ {u} : table'[v] = table[v]
    BY <1>1, <1>2, <2>1 DEF TypeOK
  <2>4. /\ StageOf' = StageOf /\ Served' = Served \ {u}
        /\ StreamOf' = [StreamOf EXCEPT ![u] = <<>>]
        /\ BoxOf' = [BoxOf EXCEPT ![u] = <<>>]
    BY <1>0, <1>1, <1>2, <2>1, <2>2, <2>3, ReadyFrame
  <2>5. StreamOf' = StreamOf /\ BoxOf' = BoxOf
    BY <1>2, <2>1, <2>4, MapsAreFunctions
  <2>6. MailboxOf!Finish(u)
    BY <1>2, <2>1, <2>4, <2>5 DEF MailboxOf!Finish
  <2>. QED  BY <1>2, <2>6 DEF MailboxStep, MailboxOf!Next
<1>. QED  BY <1>3, <1>4, <1>5

-----------------------------------------------------------------------------
\* Whatever is in the table has been put there, for the user it is written to.
LEMMA TableHolds ==
  ASSUME Inv, NEW u \in User
  PROVE  \A m \in Range(table[u]) : m = Notice \/ (m \in stored /\ To[m] = u)
<1>1. table[u] \in Seq(Row) /\ PlacesOK /\ HandOK
  BY DEF Inv, StateOK, TypeOK, LossOK, ArrivalOK
<1>2. ASSUME NEW m \in Range(table[u]), m # Notice PROVE m \in stored /\ To[m] = u
  <2>1. m \in Chat
    BY <1>1, <1>2, RangeIsIn DEF Row
  <2>2. To[m] = u
    BY <1>1, <2>1 DEF PlacesOK
  <2>. QED  BY <1>1, <2>1, <2>2 DEF HandOK, Stored
<1>. QED  BY <1>2

LEMMA FailuresCount ==
  ASSUME TypeOK, faults' = faults + 1, crashes' = crashes
  PROVE  (faults + crashes)' = (faults + crashes) + 1
<1>1. faults \in Nat /\ crashes \in Nat
  BY DeliveryAssumption DEF TypeOK
<1>. QED  BY <1>1

LEMMA RecallMap ==
  ASSUME Inv, NEW users \in SUBSET User,
         \A u \in User : BoxOf'[u] = IF u \in users THEN table[u] ELSE BoxOf[u]
  PROVE  MailboxOf!Recall(users)
<1>1. BoxOf' = [u \in User |-> IF u \in users THEN BoxOf'[u] ELSE BoxOf[u]]
  <2>1. BoxOf' = [u \in User |-> BoxOf'[u]]
    BY DEF BoxOf
  <2>. QED  BY <2>1
<1>2. ASSUME NEW u \in users, NEW m \in Range(BoxOf'[u])
      PROVE  m = Notice \/ (m \in stored /\ To[m] = u)
  BY <1>2, TableHolds
<1>. QED  BY <1>1, <1>2 DEF MailboxOf!Recall, MailboxOf!Range, Range

\* A message is lost in a handler's hand.
LEMMA LosesMap ==
  ASSUME Inv, StateOK', NEW w \in Worker, SendFails(w) \/ FindFails(w) \/ SaveFails(w)
  PROVE  MailboxOf!Fail
<1>0. StateOK /\ TypeOK /\ (faults + crashes)' = (faults + crashes) + 1
  <2>1. StateOK /\ TypeOK
    BY DEF Inv, StateOK
  <2>2. faults' = faults + 1 /\ crashes' = crashes
    BY DEF SendFails, FindFails, SaveFails, Fault
  <2>. QED  BY <2>1, <2>2, FailuresCount
<1>1. CASE FindFails(w)
  <2>1. pc[w] \in HandSteps /\ pc[w] = "find" /\ "save" \in HandSteps /\ Goto(w, "save")
    BY <1>1 DEF FindFails, HandSteps
  <2>2. hand[w] \notin Chat
    BY <1>0, <2>1, DeliveryAssumption DEF StateOK, HandlersOK
  <2>3. UNCHANGED <<client, begun, BoxOf, stored, Served, StreamOf, received>>
    BY <1>0, <1>1, <2>1, HandlerFrame DEF FindFails, historyVars
  <2>4. StageOf' = StageOf
    BY <1>0, <1>1, <2>1, <2>2, <2>3, StageGoto DEF FindFails
  <2>. QED  BY <1>0, <2>3, <2>4 DEF MailboxOf!Fail
<1>2. CASE SendFails(w) \/ SaveFails(w)
  <2>1. pc[w] \in HandSteps /\ pc[w] \in {"send", "save"} /\ Return(w) /\ begun' = begun
    BY <1>2 DEF SendFails, SaveFails, HandSteps
  <2>2. UNCHANGED <<client, begun, BoxOf, stored, Served, StreamOf, received>>
    BY <1>0, <1>2, <2>1, HandlerFrame DEF SendFails, SaveFails, Deliver
  <2>3. CASE hand[w] \notin Chat
    <3>1. StageOf' = StageOf
      BY <1>0, <2>1, <2>3, StageReturn
    <3>. QED  BY <1>0, <2>2, <3>1 DEF MailboxOf!Fail
  <2>4. CASE hand[w] \in Chat
    <3>1. StageOf[hand[w]] \in {"direct", "astray", "keep"}
      BY <1>0, <2>1, <2>4, StageInHand DEF StageAt
    <3>2. StageOf' = [StageOf EXCEPT ![hand[w]] = "done"]
      BY <1>0, <2>1, <2>4, StageReturn
    <3>3. MailboxOf!LoseCarried(hand[w])
      BY <2>2, <3>1, <3>2 DEF MailboxOf!LoseCarried, MailboxOf!Carried
    <3>. QED  BY <1>0, <2>4, <3>3 DEF MailboxOf!Fail
  <2>. QED  BY <2>3, <2>4
<1>. QED  BY <1>1, <1>2

\* A statement or a send of READY fails.
LEMMA ReadyFailsMap ==
  ASSUME Inv, NEW w \in Worker, GetFails(w) \/ ForwardFails(w) \/ DeleteFails(w)
  PROVE  MailboxOf!Fail
<1>. USE DeliveryAssumption
<1>0. PICK u : u = user[w]
  OBVIOUS
<1>1. StateOK /\ TypeOK /\ PresentOK /\ (faults + crashes)' = (faults + crashes) + 1
  <2>1. StateOK /\ TypeOK /\ PresentOK
    BY DEF Inv, StateOK, ArrivalOK
  <2>2. faults' = faults + 1 /\ crashes' = crashes
    BY DEF GetFails, ForwardFails, Forwarded, DeleteFails, Fault
  <2>. QED  BY <2>1, <2>2, FailuresCount
<1>2. /\ u \in User /\ dest[w] = u /\ pc[w] \in ReadySteps
      /\ u \in Served <=> pc[w] \in {"forward", "delete"}
      /\ StreamOf[u] = IF pc[w] = "forward" THEN list[w] ELSE <<>>
      /\ BoxOf[u] = IF pc[w] \in {"forward", "delete"} THEN <<>> ELSE table[u]
      /\ client[u] # "away"
  <2>1. pc[w] \in ReadySteps
    BY DEF GetFails, ForwardFails, Forwarded, DeleteFails, ReadySteps
  <2>2. u \in User /\ dest[w] = u
    BY <1>0, <1>1, <2>1 DEF StateOK, HandlersOK, TypeOK, ReadySteps
  <2>3. client[u] # "away"
    BY <1>0, <1>1, <2>2 DEF PresentOK
  <2>. QED  BY <1>0, <1>1, <2>1, <2>2, <2>3, ServedBy
<1>3. CASE GetFails(w)
  <2>1. /\ pc[w] = "get"
        /\ UNCHANGED <<table, client, begun, stored, received>>
    BY <1>3 DEF GetFails
  <2>2. PICK n \in 0..Len(table[u]) :
          IF n = 0 THEN Return(w)
                   ELSE /\ list' = [list EXCEPT ![w] = SubSeq(table[u], 1, n)]
                        /\ Goto(w, "forward") /\ UNCHANGED target
    BY <1>2, <1>3 DEF GetFails
  <2>3. CASE n = 0
    <3>1. Return(w)
      BY <2>2, <2>3
    <3>2. pc'[w] = "idle" /\ \A v \in Worker \ {w} : list'[v] = list[v]
      BY <1>1, <3>1 DEF Return, TypeOK
    <3>3. /\ StageOf' = StageOf /\ Served' = Served \ {u}
          /\ StreamOf' = [StreamOf EXCEPT ![u] = <<>>]
          /\ BoxOf' = [BoxOf EXCEPT ![u] = table'[u]]
      BY <1>0, <1>1, <1>2, <2>1, <3>1, <3>2, ReadyFrame
    <3>4. Served' = Served
      BY <1>2, <2>1, <3>3
    <3>5. StreamOf' = StreamOf /\ BoxOf' = BoxOf
      BY <1>2, <2>1, <3>3, MapsAreFunctions
    <3>. QED  BY <1>1, <2>1, <3>3, <3>4, <3>5 DEF MailboxOf!Fail
  <2>4. CASE n # 0
    <3>1. /\ list' = [list EXCEPT ![w] = SubSeq(table[u], 1, n)]
          /\ Goto(w, "forward") /\ UNCHANGED target
      BY <2>2, <2>4
    <3>2. /\ pc'[w] = "forward" /\ list'[w] = SubSeq(table[u], 1, n)
          /\ \A v \in Worker \ {w} : list'[v] = list[v]
      BY <1>1, <3>1 DEF Goto, TypeOK
    <3>3. /\ StageOf' = StageOf /\ Served' = Served \cup {u}
          /\ StreamOf' = [StreamOf EXCEPT ![u] = SubSeq(table[u], 1, n)]
          /\ BoxOf' = [BoxOf EXCEPT ![u] = <<>>]
          /\ ~MailboxOf!Busy(u)
      BY <1>0, <1>1, <1>2, <2>1, <3>1, <3>2, ReadyFrame
    <3>4. n \in 1..Len(BoxOf[u]) /\ SubSeq(BoxOf[u], 1, n) # <<>>
      <4>1. table[u] \in Seq(Row) /\ BoxOf[u] = table[u]
        BY <1>1, <1>2, <2>1 DEF TypeOK
      <4>2. n \in 1..Len(table[u])
        BY <2>4, <4>1
      <4>3. Len(SubSeq(table[u], 1, n)) = n
        BY <4>1, <4>2
      <4>4. SubSeq(table[u], 1, n) # <<>>
        BY <4>2, <4>3
      <4>. QED  BY <4>1, <4>2, <4>4
    <3>5. MailboxOf!TakeSome(u)
      <4>1. MailboxOf!Take(u, SubSeq(BoxOf[u], 1, n))
        BY <1>2, <2>1, <3>3, <3>4 DEF MailboxOf!Take
      <4>. QED  BY <3>4, <4>1 DEF MailboxOf!TakeSome
    <3>. QED  BY <1>1, <1>2, <3>5 DEF MailboxOf!Fail
  <2>. QED  BY <2>3, <2>4
<1>4. CASE ForwardFails(w)
  <2>1. MailboxOf!HandOver(u, FALSE)
    BY <1>0, <1>1, <1>4, ForwardedMap DEF ForwardFails
  <2>. QED  BY <1>1, <1>2, <2>1 DEF MailboxOf!Fail
<1>5. CASE DeleteFails(w)
  <2>1. /\ pc[w] = "delete" /\ Return(w)
        /\ UNCHANGED <<table, client, begun, stored, received>>
    BY <1>2, <1>5 DEF DeleteFails, historyVars
  <2>2. pc'[w] = "idle" /\ \A v \in Worker \ {w} : list'[v] = list[v]
    BY <1>1, <2>1 DEF Return, TypeOK
  <2>3. /\ StageOf' = StageOf /\ Served' = Served \ {u}
        /\ StreamOf' = [StreamOf EXCEPT ![u] = <<>>]
        /\ BoxOf' = [BoxOf EXCEPT ![u] = table[u]]
    BY <1>0, <1>1, <1>2, <2>1, <2>2, ReadyFrame
  <2>4. StreamOf' = StreamOf
    BY <1>2, <2>1, <2>3, MapsAreFunctions
  <2>5. MailboxOf!Recall({u})
    <3>1. \A v \in User : BoxOf'[v] = IF v \in {u} THEN table[v] ELSE BoxOf[v]
      BY <1>2, <2>3, MapsAreFunctions
    <3>. QED  BY <1>2, <3>1, RecallMap
  <2>6. MailboxOf!FinishInVain(u)
    BY <1>2, <2>1, <2>3, <2>4, <2>5 DEF MailboxOf!FinishInVain
  <2>. QED  BY <1>1, <1>2, <2>6 DEF MailboxOf!Fail
<1>. QED  BY <1>3, <1>4, <1>5

LEMMA CrashMap ==
  ASSUME Inv, Crash
  PROVE  MailboxOf!Fail
<1>. USE DeliveryAssumption
<1>0. StateOK /\ TypeOK /\ (faults + crashes)' = (faults + crashes) + 1
  BY DEF Inv, StateOK, TypeOK, Crash
<1>1. /\ client' = [u \in User |-> "away"] /\ UNCHANGED <<table, begun, stored, received>>
      /\ \A w \in Worker : pc'[w] = "idle" /\ hand'[w] = None
      /\ None \notin Chat
  BY DEF Crash, Row
<1>2. StageOf' = [c \in Chat |-> IF StageOf[c] \in MailboxOf!Carried THEN "done" ELSE StageOf[c]]
  <2>1. ASSUME NEW c \in Chat
        PROVE  StageOf'[c] = IF StageOf[c] \in MailboxOf!Carried THEN "done" ELSE StageOf[c]
    <3>1. StageOf'[c] = IF c \in Range(begun) THEN "done" ELSE "unsent"
      BY <1>1 DEF StageOf, Carrying
    <3>2. CASE InHand(c)
      <4>1. PICK w \in Worker : hand[w] = c
        BY <3>2 DEF InHand
      <4>2. c \in Range(begun) /\ StageOf[c] \in MailboxOf!Carried
        BY <1>0, <4>1, StageInHand DEF StageAt, MailboxOf!Carried
      <4>. QED  BY <3>1, <4>2
    <3>3. CASE ~InHand(c)
      BY <3>1, <3>3, StageElse DEF MailboxOf!Carried
    <3>. QED  BY <3>2, <3>3
  <2>2. StageOf' = [c \in Chat |-> StageOf'[c]]
    BY DEF StageOf
  <2>. QED  BY <2>1, <2>2
<1>3. \A u \in User : ~Forwarding(u)' /\ \A w \in Worker : ~Forwards(w, u)'
  BY <1>1 DEF Forwarding, Forwards
<1>4. Served' = {} /\ StreamOf' = [u \in User |-> <<>>]
  BY <1>3 DEF Served, StreamOf
<1>5. MailboxOf!Recall(Served)
  <2>1. BoxOf' = [u \in User |-> table[u]]
    BY <1>1, <1>3 DEF BoxOf
  <2>2. \A u \in User \ Served : BoxOf[u] = table[u]
    BY DEF BoxOf, Served
  <2>3. Served \in SUBSET User
    BY DEF Served
  <2>. QED  BY <2>1, <2>2, <2>3, RecallMap
<1>6. MailboxOf!Restart
  BY <1>1, <1>2, <1>4, <1>5 DEF MailboxOf!Restart
<1>. QED  BY <1>0, <1>6 DEF MailboxOf!Fail

-----------------------------------------------------------------------------
LEMMA MailboxInit == Init => MailboxOf!Init
<1>. SUFFICES ASSUME Init PROVE MailboxOf!Init
  OBVIOUS
<1>1. /\ begun = <<>> /\ stored = {} /\ faults + crashes = 0
      /\ table = [u \in User |-> <<>>] /\ received = [u \in User |-> <<>>]
      /\ client = [u \in User |-> "away"] /\ \A w \in Worker : pc[w] = "idle"
  BY DEF Init
<1>2. StageOf = [c \in Chat |-> "unsent"]
  <2>1. Range(begun) = {}
    BY <1>1 DEF Range
  <2>. QED  BY <1>1, <2>1 DEF StageOf, Carrying
<1>3. \A u \in User : ~Forwarding(u) /\ \A w \in Worker : ~Forwards(w, u)
  BY <1>1 DEF Forwarding, Forwards
<1>4. Served = {} /\ StreamOf = [u \in User |-> <<>>] /\ BoxOf = [u \in User |-> <<>>]
  BY <1>1, <1>3 DEF Served, StreamOf, BoxOf
<1>. QED  BY <1>1, <1>2, <1>4 DEF MailboxOf!Init

LEMMA MailboxNext == Inv /\ StateOK' /\ [Next]_deliveryVars => MailboxStep
<1>. SUFFICES ASSUME Inv, StateOK', [Next]_deliveryVars PROVE MailboxStep
  OBVIOUS
<1>1. CASE UNCHANGED deliveryVars
  <2>1. UNCHANGED <<StageOf, BoxOf, Served, StreamOf>>
    BY <1>1, MappedFrame DEF deliveryVars, workerVars, historyVars
  <2>. QED  BY <1>1, <2>1 DEF deliveryVars, historyVars, MailboxStep, Mapped
<1>2. CASE Crash
  BY <1>2, CrashMap DEF MailboxStep, MailboxOf!Next
<1>3. ASSUME NEW u \in User, Environment(u) PROVE MailboxStep
  BY <1>3, ClientsMap
<1>4. ASSUME NEW w \in Worker, Request(w) PROVE MailboxStep
  BY <1>4, BeginsMap
<1>5. ASSUME NEW w \in Worker, Proceed(w) PROVE MailboxStep
  BY <1>5, ChatsMap, SaveMap, ReadyMap DEF Proceed
<1>6. ASSUME NEW w \in Worker, Failure(w) PROVE MailboxStep
  <2>1. MailboxOf!Fail
    BY <1>6, LosesMap, ReadyFailsMap DEF Failure
  <2>. QED  BY <2>1 DEF MailboxStep, MailboxOf!Next
<1>. QED  BY <1>1, <1>2, <1>3, <1>4, <1>5, <1>6 DEF Next

\* However handlers, their statements, failures and restarts interleave, users
\* see mailboxes: chats sent one by one, a READY (Server.cpp:514) that takes
\* all that is stored as if at one moment, and nothing that comes back unless
\* a statement or the process failed.
THEOREM Mailboxes == Spec => ImplementsMailbox
<1>1. Init => MailboxOf!Init
  BY MailboxInit
<1>2. Inv /\ Inv' /\ [Next]_deliveryVars => [MailboxOf!Next]_MailboxOf!vars
  BY MailboxNext DEF Inv, MailboxStep, Mapped, MailboxOf!vars
<1>. QED  BY <1>1, <1>2, Invariance, PTL DEF Spec, ImplementsMailbox, MailboxOf!Spec

=============================================================================
