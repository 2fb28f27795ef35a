--------------------------- MODULE FriendManager ---------------------------
(***************************************************************************)
(* Friend requests and friendships (FriendManager.h, FriendManager.cpp) in *)
(* the tables friend_requests and friends (Database.cpp).  Each method is  *)
(* a series of SQL statements on the one connection all worker threads     *)
(* share.  SQLite runs one statement at a time, and there is no            *)
(* transaction around a method: a statement is a step, and between two of  *)
(* them any other worker may run.  A statement can fail, and the process   *)
(* can die and start again with the tables as they were.                   *)
(***************************************************************************)
EXTENDS Naturals, FiniteSets

CONSTANTS User,        \* account names
          Registered,  \* those that are in the users table
          Worker,      \* threads of the pool
          Calls,       \* bound: the pairs of users that methods are called with
          NoPair,      \* "this worker runs no method"
          MaxFailures  \* bound: statements that fail, and deaths of the process

Pair == User \X User

Reverse(p) == <<p[2], p[1]>>

ASSUME FriendAssumption ==
  /\ NoPair \notin Pair
  /\ Calls \subseteq Pair
  /\ IsFiniteSet(Worker)
  /\ MaxFailures \in Nat

Status == {"pending", "accepted", "rejected"}

VARIABLES
  friends,   \* (user, friend) -> its row: none, or status 1 or 0
  requests,  \* (sender, receiver) -> how many rows of each status
  pc,        \* each worker: its next statement
  pair,      \* the two users its method was called with
  torn,      \* history: pairs of users between whose two rows an accept was cut
  faults,    \* statements that have failed so far
  crashes    \* deaths of the process so far

friendVars == <<friends, requests, pc, pair, torn, faults, crashes>>

\* Every SELECT, and the statement that follows when it finds a row ...
IfFound ==
  [user    |-> "friend",   friend  |-> "idle",     pending |-> "idle",
   history |-> "delete",   find1   |-> "update1",  find2   |-> "update2"]

\* ... and when it finds none, or fails: Exists does not tell them apart.
IfMissing ==
  [user    |-> "idle",     friend  |-> "pending",  pending |-> "history",
   history |-> "insert",   find1   |-> "insert1",  find2   |-> "insert2"]

Selects == {"user", "friend", "pending", "history", "find1", "find2"}
Writes  == {"delete", "insert", "accept", "update1", "insert1", "update2",
            "insert2", "reject", "remove"}

TypeOK ==
  /\ friends \in [Pair -> {"none", "active", "removed"}]
  /\ requests \in [Pair -> [Status -> Nat]]
  /\ pc \in [Worker -> {"idle"} \cup Selects \cup Writes]
  /\ pair \in [Worker -> Pair \cup {NoPair}]
  /\ torn \subseteq Pair
  /\ faults \in Nat
  /\ crashes \in Nat

NoRows == [s \in Status |-> 0]

Init ==
  /\ friends = [p \in Pair |-> "none"]
  /\ requests = [p \in Pair |-> NoRows]
  /\ pc = [w \in Worker |-> "idle"]
  /\ pair = [w \in Worker |-> NoPair]
  /\ torn = {}
  /\ faults = 0
  /\ crashes = 0

-----------------------------------------------------------------------------
Total(p) == requests[p]["pending"] + requests[p]["accepted"] + requests[p]["rejected"]

IsFriend(p) == friends[p] = "active"

\* Mutant: the other's request is not looked for.
OwnRequestPending(p) == requests[p]["pending"] > 0

\* A request of either of the two counts.
PendingRequestExists(p) == \E q \in {p, Reverse(p)} : requests[q]["pending"] > 0

RequestExists(p) == \E q \in {p, Reverse(p)} : Total(q) > 0

\* The worker has written its first row of friends and not yet the second.
HalfDone(w) == pc[w] \in {"find2", "update2", "insert2"}

\* The pairs, in both directions, that these workers have half accepted.
HalfAccepted(ws) == UNION {{pair[w], Reverse(pair[w])} : w \in {v \in ws : HalfDone(v)}}

Goto(w, step) ==
  /\ pc' = [pc EXCEPT ![w] = step]
  /\ pair' = IF step = "idle" THEN [pair EXCEPT ![w] = NoPair] ELSE pair

-----------------------------------------------------------------------------
(* The calls, and the statements that read.                                *)

\* SendRequest, AcceptRequest, RejectRequest, DeleteFriend.  The first refuses
\* a user and himself before any statement; the others do not look.
Call(w, p) ==
  /\ pc[w] = "idle"
  /\ \E first \in {"user", "accept", "reject", "remove"} :
       /\ first = "user" => p[1] # p[2]
       /\ pc' = [pc EXCEPT ![w] = first]
  /\ pair' = [pair EXCEPT ![w] = p]
  /\ UNCHANGED <<friends, requests, torn, faults, crashes>>

Exists(select, p) ==
  CASE select = "user"    -> p[2] \in Registered
    [] select = "friend"  -> IsFriend(p)
    [] select = "pending" -> PendingRequestExists(p)
    [] select = "history" -> RequestExists(p)
    [] select = "find1"   -> friends[p] # "none"
    [] select = "find2"   -> friends[Reverse(p)] # "none"

Select(w) ==
  /\ pc[w] \in Selects
  /\ Goto(w, IF Exists(pc[w], pair[w]) THEN IfFound[pc[w]] ELSE IfMissing[pc[w]])
  /\ UNCHANGED <<friends, requests, torn, faults, crashes>>

SelectFails(w) ==
  /\ pc[w] \in Selects
  /\ faults + crashes < MaxFailures
  /\ faults' = faults + 1
  /\ torn' = torn \cup HalfAccepted({w})
  /\ Goto(w, IfMissing[pc[w]])
  /\ UNCHANGED <<friends, requests, crashes>>

-----------------------------------------------------------------------------
(* The statements that write.                                              *)

\* The method returns when one of them fails.
WriteFails(w) ==
  /\ pc[w] \in Writes
  /\ faults + crashes < MaxFailures
  /\ faults' = faults + 1
  /\ torn' = torn \cup HalfAccepted({w})
  /\ Goto(w, "idle")
  /\ UNCHANGED <<friends, requests, crashes>>

\* Mutant: the rows of one direction only.
OwnHistory(p) == {p}

History(p) == {p, Reverse(p)}

DeleteHistory(w) ==
  /\ pc[w] = "delete"
  /\ requests' = [p \in Pair |-> IF p \in History(pair[w]) THEN NoRows ELSE requests[p]]
  /\ Goto(w, "insert")
  /\ UNCHANGED <<friends, torn, faults, crashes>>

InsertRequest(w) ==
  /\ pc[w] = "insert"
  /\ requests' = [requests EXCEPT ![pair[w]]["pending"] = @ + 1]
  /\ Goto(w, "idle")
  /\ UNCHANGED <<friends, torn, faults, crashes>>

\* Mutant: the rows of the other direction are marked too.
MarkBothWays(p, status) ==
  requests' = [q \in Pair |->
    IF q \in {p, Reverse(p)} THEN [NoRows EXCEPT ![status] = Total(q)] ELSE requests[q]]

\* Every row of the pair, whatever its status was.
Mark(p, status) ==
  requests' = [requests EXCEPT ![p] = [NoRows EXCEPT ![status] = Total(p)]]

AcceptRequest(w) ==
  /\ pc[w] = "accept"
  /\ Mark(pair[w], "accepted")
  /\ Goto(w, "find1")
  /\ UNCHANGED <<friends, torn, faults, crashes>>

\* The primary key of friends makes an INSERT fail when the row is there by
\* now, and AcceptRequest return.
DuplicateKey(w, row) == pc[w] \in {"insert1", "insert2"} /\ friends[row] # "none"

WriteRow(w, row, next) ==
  /\ IF DuplicateKey(w, row)
       THEN Goto(w, "idle") /\ UNCHANGED friends
       ELSE Goto(w, next) /\ friends' = [friends EXCEPT ![row] = "active"]
  /\ UNCHANGED <<requests, torn, faults, crashes>>

\* Mutant: AcceptRequest forgets that friendship has two rows.
AfterFirstAlone == "idle"

AfterFirst == "find2"

WriteFirst(w) == pc[w] \in {"update1", "insert1"} /\ WriteRow(w, pair[w], AfterFirst)

WriteSecond(w) == pc[w] \in {"update2", "insert2"} /\ WriteRow(w, Reverse(pair[w]), "idle")

RejectRequest(w) ==
  /\ pc[w] = "reject"
  /\ Mark(pair[w], "rejected")
  /\ Goto(w, "idle")
  /\ UNCHANGED <<friends, torn, faults, crashes>>

\* Mutant: the row of one direction only.
RowsOneWay(p) == {p}

Rows(p) == {p, Reverse(p)}

DeleteFriend(w) ==
  /\ pc[w] = "remove"
  /\ friends' = [p \in Pair |->
       IF p \in Rows(pair[w]) /\ friends[p] # "none" THEN "removed" ELSE friends[p]]
  /\ torn' = (torn \ {pair[w], Reverse(pair[w])})
               \cup (HalfAccepted(Worker) \cap {pair[w], Reverse(pair[w])})
  /\ Goto(w, "idle")
  /\ UNCHANGED <<requests, faults, crashes>>

\* The process dies, of SIGPIPE for one, and is started again.
Crash ==
  /\ faults + crashes < MaxFailures
  /\ crashes' = crashes + 1
  /\ torn' = torn \cup HalfAccepted(Worker)
  /\ pc' = [w \in Worker |-> "idle"]
  /\ pair' = [w \in Worker |-> NoPair]
  /\ UNCHANGED <<friends, requests, faults>>

-----------------------------------------------------------------------------
Step(w) ==
  \/ \E p \in Calls : Call(w, p)
  \/ Select(w) \/ SelectFails(w) \/ WriteFails(w)
  \/ DeleteHistory(w) \/ InsertRequest(w)
  \/ AcceptRequest(w) \/ WriteFirst(w) \/ WriteSecond(w)
  \/ RejectRequest(w) \/ DeleteFriend(w)

Next == Crash \/ \E w \in Worker : Step(w)

Spec == Init /\ [][Next]_friendVars

-----------------------------------------------------------------------------
(* Properties.                                                             *)

\* The workers whose next statement is one of these, for p or its reverse.
Busy(p, steps) == {w \in Worker : pc[w] \in steps /\ pair[w] \in {p, Reverse(p)}}

Accepting == {"accept", "find1", "update1", "insert1", "find2", "update2", "insert2"}

(***************************************************************************)
(* Between two users friend_requests never holds more rows than there are  *)
(* workers (and SELECTs that failed): the check for a pending request and  *)
(* the deletion of the history are not atomic with the INSERT, so several  *)
(* workers can insert one request each, but rows do not pile up from there.*)
(* A worker about to insert is counted as the row it will add.             *)
(***************************************************************************)
RequestsBounded ==
  \A p \in {q \in Pair : q[1] # q[2]} :
    Total(p) + Total(Reverse(p)) + Cardinality(Busy(p, {"insert"}))
      <= Cardinality(Worker) + faults

(***************************************************************************)
(* Friendship is mutual.  The two rows of it differ only while an accept   *)
(* is between the two writes, or after one was cut there, by a failure, a  *)
(* crash or a DeleteFriend; a later DeleteFriend repairs that.             *)
(***************************************************************************)
FriendsMutual ==
  \A p \in Pair :
    IsFriend(p) /\ ~IsFriend(Reverse(p)) =>
      \/ p \in torn
      \/ \E w \in Worker : HalfDone(w) /\ pair[w] = p

(***************************************************************************)
(* Unless the database or the process failed, a request that is marked     *)
(* accepted leads to both rows in friends (whatever becomes of them), or   *)
(* an accept of these two users is still at work.  An accept that runs     *)
(* into the primary key gives up, which is right only because another one  *)
(* then completes the pair.                                                *)
(***************************************************************************)
AcceptedIsCarriedOut ==
  faults = 0 /\ crashes = 0 =>
    \A p \in Pair :
      requests[p]["accepted"] > 0 =>
        \/ friends[p] # "none" /\ friends[Reverse(p)] # "none"
        \/ Busy(p, Accepting) # {}

(***************************************************************************)
(* "There is history, such as a rejected request" (FriendManager.cpp:30):  *)
(* what SendRequest deletes before it inserts is history, never a request  *)
(* that still waits for its answer.                                        *)
(***************************************************************************)
DeletesHistoryOnly ==
  [][\A w \in Worker, p \in Pair :
       DeleteHistory(w) /\ pair[w] = p =>
         requests[p]["pending"] = 0 /\ requests[Reverse(p)]["pending"] = 0]_friendVars

(***************************************************************************)
(* "First check whether both sides are still friends" (Server.cpp:442):    *)
(* CHAT asks for the row of one direction only, which is an answer for     *)
(* both when no method is at work between the two users.                   *)
(***************************************************************************)
OneSideTellsBoth ==
  \A p \in Pair :
    (\A w \in Worker : pair[w] \notin {p, Reverse(p)}) =>
      (IsFriend(p) <=> IsFriend(Reverse(p)))

=============================================================================
