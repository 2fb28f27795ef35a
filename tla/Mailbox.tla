------------------------------ MODULE Mailbox ------------------------------
(***************************************************************************)
(* What CHAT and READY promise, with no worker, table or statement in it.  *)
(* A user has one request in hand at a time.  A chat goes to a receiver    *)
(* who was there when he was looked for, or into his box.  READY takes the *)
(* whole box at one moment and hands it over in order; what is put into    *)
(* the box of a user who is being served is lost.  Only a failure brings   *)
(* back what was taken out of a box.                                       *)
(***************************************************************************)
EXTENDS Naturals, Sequences, Functions

CONSTANTS User, Chat, From, To, Notice

VARIABLES client,   \* each user: "away", "online", or "left" unnoticed
          sent,     \* the chats that have been sent, in order
          stage,    \* how far each chat is
          box,      \* what is kept for each user
          kept,     \* the chats that have been put into a box
          served,   \* the users whose READY is at work
          stream,   \* what it has yet to hand over to each of them
          inbox,    \* the chats each user's client has got, in order
          failures  \* statements, sends and processes that have failed

vars == <<client, sent, stage, box, kept, served, stream, inbox, failures>>

\* Posted; on its way to a session, or to one that has ended; to be kept.
Carried == {"posted", "direct", "astray", "keep"}

Init ==
  /\ client = [u \in User |-> "away"]
  /\ sent = <<>>
  /\ stage = [c \in Chat |-> "unsent"]
  /\ box = [u \in User |-> <<>>]
  /\ kept = {}
  /\ served = {}
  /\ stream = [u \in User |-> <<>>]
  /\ inbox = [u \in User |-> <<>>]
  /\ failures = 0

\* A request of this user is being handled.
Busy(u) == (u \in served) \/ (\E c \in Chat : From[c] = u /\ stage[c] \in Carried)

-----------------------------------------------------------------------------
LogIn(u) ==
  /\ client[u] = "away"
  /\ client' = [client EXCEPT ![u] = "online"]
  /\ UNCHANGED <<sent, stage, box, kept, served, stream, inbox, failures>>

Leave(u) ==
  /\ client[u] = "online"
  /\ client' = [client EXCEPT ![u] = "left"]
  /\ UNCHANGED <<sent, stage, box, kept, served, stream, inbox, failures>>

EndSession(u) ==
  /\ ~Busy(u)
  /\ client' = [client EXCEPT ![u] = "away"]
  /\ stage' = [c \in Chat |->
       IF To[c] = u /\ stage[c] = "direct" THEN "astray" ELSE stage[c]]
  /\ UNCHANGED <<sent, box, kept, served, stream, inbox, failures>>

-----------------------------------------------------------------------------
Send(c) ==
  /\ stage[c] = "unsent"
  /\ client[From[c]] # "away"
  /\ ~Busy(From[c])
  /\ sent' = Append(sent, c)
  /\ stage' = [stage EXCEPT ![c] = "posted"]
  /\ UNCHANGED <<client, box, kept, served, stream, inbox, failures>>

\* Its sender and its receiver are no friends.
Refuse(c) ==
  /\ stage[c] = "posted"
  /\ stage' = [stage EXCEPT ![c] = "done"]
  /\ UNCHANGED <<client, sent, box, kept, served, stream, inbox, failures>>

Route(c) ==
  /\ stage[c] = "posted"
  /\ stage' = [stage EXCEPT ![c] = IF client[To[c]] = "away" THEN "keep" ELSE "direct"]
  /\ UNCHANGED <<client, sent, box, kept, served, stream, inbox, failures>>

\* It reaches a client that is there on the session it was routed to, and
\* may reach one that is there on a later session.
Arrive(c) ==
  /\ stage[c] \in {"direct", "astray"}
  /\ client[To[c]] = "online"
  /\ inbox' = [inbox EXCEPT ![To[c]] = Append(@, c)]
  /\ stage' = [stage EXCEPT ![c] = "done"]
  /\ UNCHANGED <<client, sent, box, kept, served, stream, failures>>

Miss(c) ==
  /\ stage[c] = "direct" => client[To[c]] # "online"
  /\ stage[c] \in {"direct", "astray"}
  /\ stage' = [stage EXCEPT ![c] = "done"]
  /\ UNCHANGED <<client, sent, box, kept, served, stream, inbox, failures>>

Keep(c) ==
  /\ stage[c] = "keep"
  /\ stage' = [stage EXCEPT ![c] = "done"]
  /\ box' = IF To[c] \in served THEN box ELSE [box EXCEPT ![To[c]] = Append(@, c)]
  /\ kept' = kept \cup {c}
  /\ UNCHANGED <<client, sent, served, stream, inbox, failures>>

\* A notice takes a place in the box; nothing else is told of notices.
KeepNotice(u) ==
  /\ u \notin served
  /\ box' = [box EXCEPT ![u] = Append(@, Notice)]
  /\ UNCHANGED <<client, sent, stage, kept, served, stream, inbox, failures>>

-----------------------------------------------------------------------------
(* READY.                                                                  *)

Take(u, rows) ==
  /\ client[u] # "away"
  /\ ~Busy(u)
  /\ rows # <<>>
  /\ served' = served \cup {u}
  /\ stream' = [stream EXCEPT ![u] = rows]
  /\ box' = [box EXCEPT ![u] = <<>>]
  /\ UNCHANGED <<client, sent, stage, kept, inbox>>

TakeAll(u) == Take(u, box[u]) /\ UNCHANGED failures

HandOver(u, reached) ==
  /\ stream[u] # <<>>
  /\ stream' = [stream EXCEPT ![u] = Tail(@)]
  /\ inbox' = IF reached /\ Head(stream[u]) # Notice
                THEN [inbox EXCEPT ![u] = Append(@, Head(stream[u]))] ELSE inbox
  /\ UNCHANGED <<client, sent, stage, box, kept, served>>

HandOverNext(u) == HandOver(u, client[u] = "online") /\ UNCHANGED failures

Finish(u) ==
  /\ u \in served
  /\ stream[u] = <<>>
  /\ served' = served \ {u}
  /\ UNCHANGED <<client, sent, stage, box, kept, stream, inbox, failures>>

-----------------------------------------------------------------------------
(* Failures.                                                               *)

LoseCarried(c) ==
  /\ stage[c] \in Carried \ {"posted"}
  /\ stage' = [stage EXCEPT ![c] = "done"]
  /\ UNCHANGED <<client, sent, box, kept, served, stream, inbox>>

\* READY reads the first rows only, and takes the rest for read.
TakeSome(u) == \E n \in 1..Len(box[u]) : Take(u, SubSeq(box[u], 1, n))

\* In the boxes of these users anything may be found that was ever put there.
Recall(users) ==
  /\ box' = [u \in User |-> IF u \in users THEN box'[u] ELSE box[u]]
  /\ \A u \in users : \A m \in Range(box'[u]) : m = Notice \/ (m \in kept /\ To[m] = u)

\* READY cannot empty the box.
FinishInVain(u) ==
  /\ u \in served
  /\ stream[u] = <<>>
  /\ served' = served \ {u}
  /\ Recall({u})
  /\ UNCHANGED <<client, sent, stage, kept, stream, inbox>>

\* All that is under way is gone, what is in a box is not.
Restart ==
  /\ client' = [u \in User |-> "away"]
  /\ stage' = [c \in Chat |-> IF stage[c] \in Carried THEN "done" ELSE stage[c]]
  /\ served' = {}
  /\ stream' = [u \in User |-> <<>>]
  /\ Recall(served)
  /\ UNCHANGED <<sent, kept, inbox>>

Fail ==
  /\ failures' = failures + 1
  /\ \/ \E c \in Chat : LoseCarried(c)
     \/ \E u \in User : TakeSome(u) \/ HandOver(u, FALSE) \/ FinishInVain(u)
     \/ Restart
     \/ UNCHANGED <<client, sent, stage, box, kept, served, stream, inbox>>

-----------------------------------------------------------------------------
Next ==
  \/ \E u \in User :
       LogIn(u) \/ Leave(u) \/ EndSession(u) \/ KeepNotice(u) \/ TakeAll(u)
         \/ HandOverNext(u) \/ Finish(u)
  \/ \E c \in Chat :
       Send(c) \/ Refuse(c) \/ Route(c) \/ Arrive(c) \/ Miss(c) \/ Keep(c)
  \/ Fail

Spec == Init /\ [][Next]_vars

=============================================================================
