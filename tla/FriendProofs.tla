---------------------------- MODULE FriendProofs ----------------------------
(***************************************************************************)
(* Proofs about FriendManager: what holds of the two tables for any number *)
(* of users and workers, of failing statements and of crashes; and what    *)
(* the methods amount to between users whose methods do not meet.          *)
(***************************************************************************)
EXTENDS Friendships, FiniteSetTheorems, TLAPS

\* A worker is called with two users exactly while it runs a method.
CallsOK == \A w \in Worker : pc[w] = "idle" <=> pair[w] = NoPair

\* A pair is torn in both directions.
TornBothWays == \A p \in Pair : p \in torn <=> Reverse(p) \in torn

(***************************************************************************)
(* A worker between its two rows has the first one still active, and finds *)
(* the second missing only if it is missing or active by now: anything     *)
(* else takes a DeleteFriend or a failure in between.                      *)
(***************************************************************************)
HalvesOK ==
  \A w \in Worker :
    HalfDone(w) =>
      /\ pair[w] \in torn \/ IsFriend(pair[w])
      /\ friends[pair[w]] # "none"
      /\ pc[w] = "insert2" /\ friends[Reverse(pair[w])] = "removed" => pair[w] \in torn

\* Without failures a lone row is one whose accept is between its two rows.
LoneRowsOK ==
  faults = 0 /\ crashes = 0 =>
    \A p \in Pair :
      friends[p] # "none" /\ friends[Reverse(p)] = "none" =>
        \E w \in Worker : HalfDone(w) /\ pair[w] = p

Inv ==
  /\ TypeOK /\ CallsOK
  /\ TornBothWays /\ HalvesOK /\ FriendsMutual
  /\ LoneRowsOK /\ AcceptedIsCarriedOut
  /\ RequestsBounded

-----------------------------------------------------------------------------
LEMMA ReversePair ==
  ASSUME NEW p \in Pair
  PROVE  /\ Reverse(p) \in Pair /\ Reverse(Reverse(p)) = p
         /\ p[1] # p[2] => Reverse(p) # p /\ Reverse(p)[1] # Reverse(p)[2]
BY DEF Pair, Reverse

LEMMA TotalIsNat == ASSUME TypeOK, NEW p \in Pair PROVE Total(p) \in Nat
BY DEF TypeOK, Status, Total

LEMMA TypingKept == TypeOK /\ CallsOK /\ [Next]_friendVars => TypeOK' /\ CallsOK'
<1>. SUFFICES ASSUME TypeOK, CallsOK, [Next]_friendVars PROVE TypeOK' /\ CallsOK'
  OBVIOUS
<1>. USE FriendAssumption DEF TypeOK, CallsOK
<1>1. CASE Crash
  <2>1. torn' \subseteq Pair
    BY <1>1, ReversePair DEF Crash, HalfAccepted, HalfDone
  <2>. QED  BY <1>1, <2>1 DEF Crash
<1>2. ASSUME NEW w \in Worker, NEW p \in Calls, Call(w, p) PROVE TypeOK' /\ CallsOK'
  BY <1>2 DEF Call, Writes, Selects
<1>3. ASSUME NEW w \in Worker, NEW next \in {"idle"} \cup Selects \cup Writes, Goto(w, next),
             pc[w] # "idle"
      PROVE  /\ pc' \in [Worker -> {"idle"} \cup Selects \cup Writes]
             /\ pair' \in [Worker -> Pair \cup {NoPair}]
             /\ CallsOK'
  BY <1>3 DEF Goto
<1>4. ASSUME NEW w \in Worker, Select(w) PROVE TypeOK' /\ CallsOK'
  <2>1. /\ IfFound[pc[w]] \in {"idle"} \cup Selects \cup Writes
        /\ IfMissing[pc[w]] \in {"idle"} \cup Selects \cup Writes
        /\ pc[w] # "idle"
    BY <1>4 DEF Select, IfFound, IfMissing, Selects, Writes
  <2>. QED  BY <1>3, <1>4, <2>1 DEF Select
<1>5. ASSUME NEW w \in Worker, SelectFails(w) \/ WriteFails(w) PROVE TypeOK' /\ CallsOK'
  <2>1. torn' \subseteq Pair /\ faults' \in Nat
    BY <1>5, ReversePair DEF SelectFails, WriteFails, HalfAccepted, HalfDone
  <2>2. CASE SelectFails(w)
    <3>1. IfMissing[pc[w]] \in {"idle"} \cup Selects \cup Writes /\ pc[w] # "idle"
      BY <2>2 DEF SelectFails, IfMissing, Selects, Writes
    <3>. QED  BY <1>3, <2>1, <2>2, <3>1 DEF SelectFails
  <2>3. CASE WriteFails(w)
    <3>1. pc[w] # "idle"
      BY <2>3 DEF WriteFails, Writes
    <3>. QED  BY <1>3, <2>1, <2>3, <3>1 DEF WriteFails
  <2>. QED  BY <1>5, <2>2, <2>3
<1>6. ASSUME NEW p \in Pair, NEW s \in Status, Mark(p, s)
      PROVE  requests' \in [Pair -> [Status -> Nat]]
  BY <1>6, TotalIsNat DEF Mark, NoRows
<1>7. ASSUME NEW w \in Worker, DeleteHistory(w) \/ InsertRequest(w) PROVE TypeOK' /\ CallsOK'
  <2>1. requests' \in [Pair -> [Status -> Nat]] /\ pc[w] # "idle"
    BY <1>7 DEF DeleteHistory, InsertRequest, NoRows, Status
  <2>. QED  BY <1>3, <1>7, <2>1 DEF DeleteHistory, InsertRequest, Writes
<1>8. ASSUME NEW w \in Worker, AcceptRequest(w) \/ RejectRequest(w) PROVE TypeOK' /\ CallsOK'
  <2>1. requests' \in [Pair -> [Status -> Nat]] /\ pc[w] # "idle"
    BY <1>6, <1>8 DEF AcceptRequest, RejectRequest, Status
  <2>. QED  BY <1>3, <1>8, <2>1 DEF AcceptRequest, RejectRequest, Selects
<1>9. ASSUME NEW w \in Worker, WriteFirst(w) \/ WriteSecond(w) PROVE TypeOK' /\ CallsOK'
  BY <1>3, <1>9, ReversePair DEF WriteFirst, WriteSecond, WriteRow, AfterFirst, Selects
<1>10. ASSUME NEW w \in Worker, DeleteFriend(w) PROVE TypeOK' /\ CallsOK'
  <2>1. torn' \subseteq Pair /\ friends' \in [Pair -> {"none", "active", "removed"}]
    BY <1>10, ReversePair DEF DeleteFriend
  <2>. QED  BY <1>3, <1>10, <2>1 DEF DeleteFriend
<1>11. CASE UNCHANGED friendVars
  BY <1>11 DEF friendVars
<1>. QED
  BY <1>1, <1>2, <1>4, <1>5, <1>7, <1>8, <1>9, <1>10, <1>11 DEF Next, Step

-----------------------------------------------------------------------------
(* The rows of friends.                                                    *)

RowsOK == TornBothWays /\ HalvesOK /\ FriendsMutual /\ LoneRowsOK

LEMMA HalfAcceptedBothWays ==
  ASSUME TypeOK, CallsOK, NEW ws \in SUBSET Worker, NEW p \in Pair
  PROVE  /\ p \in HalfAccepted(ws) <=>
              \E w \in ws : HalfDone(w) /\ p \in {pair[w], Reverse(pair[w])}
         /\ p \in HalfAccepted(ws) <=> Reverse(p) \in HalfAccepted(ws)
<1>1. \A q \in Pair :
        q \in HalfAccepted(ws) <=>
          \E w \in ws : HalfDone(w) /\ q \in {pair[w], Reverse(pair[w])}
  BY DEF HalfAccepted
<1>2. ASSUME NEW w \in ws, HalfDone(w)
      PROVE  p \in {pair[w], Reverse(pair[w])} <=> Reverse(p) \in {pair[w], Reverse(pair[w])}
  <2>1. pair[w] \in Pair
    BY <1>2 DEF HalfDone, TypeOK, CallsOK
  <2>. QED  BY <2>1, ReversePair
<1>. QED  BY <1>1, <1>2, ReversePair

(***************************************************************************)
(* Steps that leave friends alone: no worker gets between its two rows,    *)
(* and one that gives up there leaves its pair torn.                       *)
(***************************************************************************)
LEMMA SameRows ==
  ASSUME TypeOK, CallsOK, RowsOK,
         friends' = friends, torn \subseteq torn', TornBothWays',
         \A w \in Worker : HalfDone(w)' => HalfDone(w) /\ pair'[w] = pair[w],
         \A w \in Worker : HalfDone(w) => HalfDone(w)' \/ pair[w] \in torn',
         \A w \in Worker :
           pc'[w] = "insert2" =>
             \/ pc[w] = "insert2"
             \/ friends[Reverse(pair[w])] = "none"
             \/ pair[w] \in torn',
         faults' = 0 /\ crashes' = 0 =>
           /\ faults = 0 /\ crashes = 0
           /\ \A w \in Worker : HalfDone(w) => HalfDone(w)'
  PROVE  RowsOK'
<1>1. HalvesOK'
  <2>. SUFFICES ASSUME NEW w \in Worker, HalfDone(w)'
                PROVE  /\ pair'[w] \in torn' \/ friends[pair'[w]] = "active"
                       /\ friends[pair'[w]] # "none"
                       /\ pc'[w] = "insert2" /\ friends[Reverse(pair'[w])] = "removed"
                            => pair'[w] \in torn'
    BY DEF HalvesOK, IsFriend
  <2>1. HalfDone(w) /\ pair'[w] = pair[w]
    OBVIOUS
  <2>. QED  BY <2>1 DEF RowsOK, HalvesOK, IsFriend
<1>2. FriendsMutual'
  BY DEF RowsOK, FriendsMutual, IsFriend
<1>3. LoneRowsOK'
  BY DEF RowsOK, LoneRowsOK
<1>. QED  BY <1>1, <1>2, <1>3 DEF RowsOK

LEMMA RowsKept == TypeOK /\ CallsOK /\ RowsOK /\ [Next]_friendVars => RowsOK'
<1>. SUFFICES ASSUME TypeOK, CallsOK, RowsOK, [Next]_friendVars PROVE RowsOK'
  OBVIOUS
<1>0. TypeOK' /\ CallsOK'
  BY TypingKept
<1>1. CASE Crash
  <2>1. TornBothWays' /\ torn \subseteq torn'
    BY <1>1, HalfAcceptedBothWays, ReversePair DEF Crash, RowsOK, TornBothWays
  <2>2. \A w \in Worker : HalfDone(w) => pair[w] \in torn'
    BY <1>1, HalfAcceptedBothWays DEF Crash, HalfDone, TypeOK, CallsOK
  <2>3. \A w \in Worker : ~HalfDone(w)' /\ pc'[w] # "insert2"
    BY <1>1 DEF Crash, HalfDone
  <2>4. crashes' # 0 /\ friends' = friends
    BY <1>1 DEF Crash, TypeOK
  <2>. QED  BY <2>1, <2>2, <2>3, <2>4, SameRows
<1>2. ASSUME NEW w \in Worker,
             \/ \E p \in Calls : Call(w, p)
             \/ DeleteHistory(w) \/ InsertRequest(w)
             \/ AcceptRequest(w) \/ RejectRequest(w)
      PROVE  RowsOK'
  <2>1. UNCHANGED <<friends, torn, faults, crashes>> /\ ~HalfDone(w) /\ ~HalfDone(w)'
    BY <1>2
       DEF Call, DeleteHistory, InsertRequest, AcceptRequest, RejectRequest, Goto, HalfDone,
           TypeOK
  <2>2. \A v \in Worker : v # w => pc'[v] = pc[v] /\ pair'[v] = pair[v]
    BY <1>2
       DEF Call, DeleteHistory, InsertRequest, AcceptRequest, RejectRequest, Goto, TypeOK
  <2>3. TornBothWays'
    BY <2>1 DEF RowsOK, TornBothWays
  <2>. QED  BY <2>1, <2>2, <2>3, SameRows DEF HalfDone
<1>3. ASSUME NEW w \in Worker, Select(w) PROVE RowsOK'
  <2>1. UNCHANGED <<friends, torn, faults, crashes>>
    BY <1>3 DEF Select
  <2>2. \A v \in Worker : v # w => pc'[v] = pc[v] /\ pair'[v] = pair[v]
    BY <1>3 DEF Select, Goto, TypeOK
  <2>3. /\ HalfDone(w)' <=> HalfDone(w)
        /\ HalfDone(w) => pair'[w] = pair[w]
        /\ pc'[w] = "insert2" => friends[Reverse(pair[w])] = "none"
    <3>1. CASE pc[w] = "find2"
      <4>1. /\ pc'[w] = IF friends[Reverse(pair[w])] # "none" THEN "update2" ELSE "insert2"
            /\ pair'[w] = pair[w]
        BY <1>3, <3>1 DEF Select, Exists, IfFound, IfMissing, Goto, TypeOK
      <4>. QED  BY <3>1, <4>1 DEF HalfDone
    <3>2. CASE pc[w] # "find2"
      <4>1. pc'[w] \in {IfFound[pc[w]], IfMissing[pc[w]]} /\ pc[w] \in Selects
        BY <1>3 DEF Select, Goto, TypeOK
      <4>2. IfFound[pc[w]] \notin {"find2", "update2", "insert2"}
            /\ IfMissing[pc[w]] \notin {"find2", "update2", "insert2"}
        BY <3>2, <4>1 DEF Selects, IfFound, IfMissing
      <4>. QED  BY <3>2, <4>1, <4>2 DEF HalfDone, Selects
    <3>. QED  BY <3>1, <3>2
  <2>4. TornBothWays'
    BY <2>1 DEF RowsOK, TornBothWays
  <2>. QED  BY <2>1, <2>2, <2>3, <2>4, SameRows DEF HalfDone
<1>4. ASSUME NEW w \in Worker, SelectFails(w) \/ WriteFails(w) PROVE RowsOK'
  <2>1. UNCHANGED <<friends, crashes>> /\ faults' # 0 /\ torn \subseteq torn'
    BY <1>4 DEF SelectFails, WriteFails, TypeOK
  <2>2. TornBothWays'
    BY <1>4, HalfAcceptedBothWays, ReversePair
       DEF SelectFails, WriteFails, RowsOK, TornBothWays
  <2>3. HalfDone(w) => pair[w] \in torn'
    <3>1. HalfDone(w) => pair[w] \in Pair
      BY DEF HalfDone, TypeOK, CallsOK
    <3>. QED  BY <1>4, <3>1, HalfAcceptedBothWays DEF SelectFails, WriteFails
  <2>4. \A v \in Worker : v # w => pc'[v] = pc[v] /\ pair'[v] = pair[v]
    BY <1>4 DEF SelectFails, WriteFails, Goto, TypeOK
  <2>5. /\ HalfDone(w)' => HalfDone(w) /\ pair'[w] = pair[w]
        /\ pc'[w] = "insert2" => HalfDone(w)
    BY <1>4 DEF SelectFails, WriteFails, Selects, IfMissing, Goto, HalfDone, TypeOK
  <2>. QED  BY <2>1, <2>2, <2>3, <2>4, <2>5, SameRows DEF HalfDone
<1>8. CASE UNCHANGED friendVars
  <2>1. TornBothWays'
    BY <1>8 DEF friendVars, RowsOK, TornBothWays
  <2>. QED  BY <1>8, <2>1, SameRows DEF friendVars, HalfDone
<1>5. ASSUME NEW w \in Worker, WriteFirst(w) PROVE RowsOK'
  <2>. DEFINE p == pair[w]
  <2>1. p \in Pair /\ ~HalfDone(w)
    BY <1>5 DEF WriteFirst, HalfDone, TypeOK, CallsOK
  <2>2. UNCHANGED <<torn, faults, crashes>> /\ TornBothWays'
    BY <1>5 DEF WriteFirst, WriteRow, RowsOK, TornBothWays
  <2>3. \A v \in Worker : v # w => pc'[v] = pc[v] /\ pair'[v] = pair[v]
    BY <1>5 DEF WriteFirst, WriteRow, Goto, TypeOK
  <2>4. CASE DuplicateKey(w, p)
    <3>1. friends' = friends /\ ~HalfDone(w)' /\ pc'[w] # "insert2"
      BY <1>5, <2>4 DEF WriteFirst, WriteRow, Goto, HalfDone, TypeOK
    <3>. QED  BY <2>1, <2>2, <2>3, <3>1, SameRows DEF HalfDone
  <2>5. CASE ~DuplicateKey(w, p)
    <3>1. /\ friends' = [friends EXCEPT ![p] = "active"]
          /\ pc'[w] = "find2" /\ pair'[w] = p
      BY <1>5, <2>5 DEF WriteFirst, WriteRow, AfterFirst, Goto, TypeOK
    <3>2. friends'[p] = "active" /\ \A q \in Pair : q # p => friends'[q] = friends[q]
      BY <2>1, <3>1 DEF TypeOK
    <3>. HIDE DEF p
    <3>3. HalvesOK'
      <4>. SUFFICES ASSUME NEW v \in Worker, HalfDone(v)'
                    PROVE  /\ pair'[v] \in torn \/ friends'[pair'[v]] = "active"
                           /\ friends'[pair'[v]] # "none"
                           /\ pc'[v] = "insert2" /\ friends'[Reverse(pair'[v])] = "removed"
                                => pair'[v] \in torn
        BY <2>2 DEF HalvesOK, IsFriend
      <4>1. CASE v = w
        BY <3>1, <3>2, <4>1
      <4>2. CASE v # w
        <5>1. HalfDone(v) /\ pc'[v] = pc[v] /\ pair'[v] = pair[v] /\ pair[v] \in Pair
          BY <2>3, <4>2 DEF HalfDone, TypeOK, CallsOK
        <5>. QED  BY <3>2, <5>1, ReversePair DEF RowsOK, HalvesOK, IsFriend
      <4>. QED  BY <4>1, <4>2
    <3>4. \A v \in Worker : HalfDone(v) => HalfDone(v)' /\ pair'[v] = pair[v]
      BY <2>1, <2>3 DEF HalfDone
    <3>5. HalfDone(w)'
      BY <3>1 DEF HalfDone
    <3>6. FriendsMutual'
      BY <2>2, <3>1, <3>2, <3>4, <3>5, ReversePair DEF RowsOK, FriendsMutual, IsFriend
    <3>7. LoneRowsOK'
      BY <2>2, <3>1, <3>2, <3>4, <3>5, ReversePair DEF RowsOK, LoneRowsOK
    <3>. QED  BY <2>2, <3>3, <3>6, <3>7 DEF RowsOK
  <2>. QED  BY <2>4, <2>5
<1>6. ASSUME NEW w \in Worker, WriteSecond(w) PROVE RowsOK'
  <2>. DEFINE p == pair[w]
  <2>1. p \in Pair /\ Reverse(p) \in Pair /\ HalfDone(w) /\ ~HalfDone(w)'
    BY <1>6, ReversePair DEF WriteSecond, WriteRow, Goto, HalfDone, TypeOK, CallsOK
  <2>2. UNCHANGED <<torn, faults, crashes>> /\ TornBothWays'
    BY <1>6 DEF WriteSecond, WriteRow, RowsOK, TornBothWays
  <2>3. \A v \in Worker : v # w => pc'[v] = pc[v] /\ pair'[v] = pair[v]
    BY <1>6 DEF WriteSecond, WriteRow, Goto, TypeOK
  <2>4. /\ friends'[Reverse(p)] = "active" \/ p \in torn
        /\ friends'[Reverse(p)] # "none"
        /\ \A q \in Pair :
             friends'[q] = friends[q] \/ (q = Reverse(p) /\ friends'[q] = "active")
    <3>1. CASE DuplicateKey(w, Reverse(p))
      <4>1. friends' = friends /\ pc[w] = "insert2" /\ friends[Reverse(p)] # "none"
        BY <1>6, <3>1 DEF WriteSecond, WriteRow, DuplicateKey
      <4>2. friends[Reverse(p)] = "removed" => p \in torn
        BY <2>1, <4>1 DEF RowsOK, HalvesOK
      <4>3. friends[Reverse(p)] \in {"none", "active", "removed"}
        BY <2>1 DEF TypeOK
      <4>. QED  BY <4>1, <4>2, <4>3
    <3>2. CASE ~DuplicateKey(w, Reverse(p))
      <4>1. friends' = [friends EXCEPT ![Reverse(p)] = "active"]
        BY <1>6, <3>2 DEF WriteSecond, WriteRow
      <4>. HIDE DEF p
      <4>. QED  BY <2>1, <4>1 DEF TypeOK
    <3>. QED  BY <3>1, <3>2
  <2>5. /\ p \in torn \/ friends[p] = "active"
        /\ friends[p] # "none"
    BY <2>1 DEF RowsOK, HalvesOK, IsFriend
  <2>. HIDE DEF p
  <2>6. \A v \in Worker : v # w /\ HalfDone(v) => HalfDone(v)' /\ pair'[v] = pair[v]
    BY <2>3 DEF HalfDone
  <2>7. HalvesOK'
    <3>. SUFFICES ASSUME NEW v \in Worker, HalfDone(v)'
                  PROVE  /\ pair'[v] \in torn \/ friends'[pair'[v]] = "active"
                         /\ friends'[pair'[v]] # "none"
                         /\ pc'[v] = "insert2" /\ friends'[Reverse(pair'[v])] = "removed"
                              => pair'[v] \in torn
      BY <2>2 DEF HalvesOK, IsFriend
    <3>1. HalfDone(v) /\ pc'[v] = pc[v] /\ pair'[v] = pair[v] /\ pair[v] \in Pair
      BY <2>1, <2>3 DEF HalfDone, TypeOK, CallsOK
    <3>. QED  BY <2>4, <3>1, ReversePair DEF RowsOK, HalvesOK, IsFriend
  <2>8. FriendsMutual'
    <3>. SUFFICES ASSUME NEW q \in Pair, friends'[q] = "active",
                         friends'[Reverse(q)] # "active", q \notin torn
                  PROVE  \E v \in Worker : HalfDone(v)' /\ pair'[v] = q
      BY <2>2 DEF FriendsMutual, IsFriend
    <3>1. q # p
      BY <2>4
    <3>2. q # Reverse(p)
      BY <2>1, <2>4, <2>5, ReversePair DEF RowsOK, TornBothWays
    <3>3. friends[q] = "active" /\ friends[Reverse(q)] # "active"
      BY <2>4, <3>2, ReversePair
    <3>4. PICK v \in Worker : HalfDone(v) /\ pair[v] = q
      BY <3>3 DEF RowsOK, FriendsMutual, IsFriend
    <3>. QED  BY <2>6, <3>1, <3>4 DEF p
  <2>9. LoneRowsOK'
    <3>. SUFFICES ASSUME faults = 0, crashes = 0, NEW q \in Pair,
                         friends'[q] # "none", friends'[Reverse(q)] = "none"
                  PROVE  \E v \in Worker : HalfDone(v)' /\ pair'[v] = q
      BY <2>2 DEF LoneRowsOK
    <3>1. q # p /\ q # Reverse(p)
      BY <2>1, <2>4, <2>5, ReversePair
    <3>2. friends[q] # "none" /\ friends[Reverse(q)] = "none"
      BY <2>4, <3>1, ReversePair
    <3>3. PICK v \in Worker : HalfDone(v) /\ pair[v] = q
      BY <3>2 DEF RowsOK, LoneRowsOK
    <3>. QED  BY <2>6, <3>1, <3>3 DEF p
  <2>. QED  BY <2>2, <2>7, <2>8, <2>9 DEF RowsOK
<1>7. ASSUME NEW w \in Worker, DeleteFriend(w) PROVE RowsOK'
  <2>. DEFINE p == pair[w]
  <2>1. p \in Pair /\ Reverse(p) \in Pair /\ ~HalfDone(w) /\ ~HalfDone(w)'
    BY <1>7, ReversePair DEF DeleteFriend, Goto, HalfDone, TypeOK, CallsOK
  <2>2. UNCHANGED <<faults, crashes>>
    BY <1>7 DEF DeleteFriend
  <2>3. \A v \in Worker : v # w => pc'[v] = pc[v] /\ pair'[v] = pair[v]
    BY <1>7 DEF DeleteFriend, Goto, TypeOK
  <2>4. \A q \in Pair :
          friends'[q] = IF q \in {p, Reverse(p)} /\ friends[q] # "none"
                          THEN "removed" ELSE friends[q]
    BY <1>7 DEF DeleteFriend, Rows
  <2>5. torn' = (torn \ {p, Reverse(p)}) \cup (HalfAccepted(Worker) \cap {p, Reverse(p)})
    BY <1>7 DEF DeleteFriend
  <2>. HIDE DEF p
  <2>6. TornBothWays'
    BY <2>1, <2>5, HalfAcceptedBothWays, ReversePair DEF RowsOK, TornBothWays
  <2>7. \A v \in Worker : HalfDone(v) => HalfDone(v)' /\ pair'[v] = pair[v] /\ pair[v] \in Pair
    BY <2>1, <2>3 DEF HalfDone, TypeOK, CallsOK
  <2>8. \A v \in Worker : HalfDone(v) /\ pair[v] \in {p, Reverse(p)} => pair[v] \in torn'
    BY <2>5, <2>7, HalfAcceptedBothWays
  <2>9. HalvesOK'
    <3>. SUFFICES ASSUME NEW v \in Worker, HalfDone(v)'
                  PROVE  /\ pair'[v] \in torn' \/ friends'[pair'[v]] = "active"
                         /\ friends'[pair'[v]] # "none"
                         /\ pc'[v] = "insert2" /\ friends'[Reverse(pair'[v])] = "removed"
                              => pair'[v] \in torn'
      BY DEF HalvesOK, IsFriend
    <3>1. HalfDone(v) /\ pc'[v] = pc[v] /\ pair'[v] = pair[v] /\ pair[v] \in Pair
      BY <2>1, <2>3 DEF HalfDone, TypeOK, CallsOK
    <3>2. CASE pair[v] \in {p, Reverse(p)}
      BY <2>4, <2>8, <3>1, <3>2 DEF RowsOK, HalvesOK
    <3>3. CASE pair[v] \notin {p, Reverse(p)}
      <4>1. Reverse(pair[v]) \in Pair /\ Reverse(pair[v]) \notin {p, Reverse(p)}
        BY <2>1, <3>1, <3>3, ReversePair
      <4>. QED  BY <2>4, <2>5, <3>1, <3>3, <4>1 DEF RowsOK, HalvesOK, IsFriend
    <3>. QED  BY <3>2, <3>3
  <2>10. FriendsMutual'
    <3>. SUFFICES ASSUME NEW q \in Pair, friends'[q] = "active",
                         friends'[Reverse(q)] # "active", q \notin torn'
                  PROVE  \E v \in Worker : HalfDone(v)' /\ pair'[v] = q
      BY DEF FriendsMutual, IsFriend
    <3>1. q \notin {p, Reverse(p)}
      BY <2>4
    <3>2. Reverse(q) \notin {p, Reverse(p)} /\ Reverse(q) \in Pair
      BY <2>1, <3>1, ReversePair
    <3>3. friends[q] = "active" /\ friends[Reverse(q)] # "active" /\ q \notin torn
      BY <2>4, <2>5, <3>1, <3>2
    <3>. QED  BY <2>7, <3>3 DEF RowsOK, FriendsMutual, IsFriend
  <2>11. LoneRowsOK'
    <3>. SUFFICES ASSUME faults = 0, crashes = 0, NEW q \in Pair,
                         friends'[q] # "none", friends'[Reverse(q)] = "none"
                  PROVE  \E v \in Worker : HalfDone(v)' /\ pair'[v] = q
      BY <2>2 DEF LoneRowsOK
    <3>1. friends[q] # "none" /\ friends[Reverse(q)] = "none"
      BY <2>4, ReversePair
    <3>. QED  BY <2>7, <3>1 DEF RowsOK, LoneRowsOK
  <2>. QED  BY <2>6, <2>9, <2>10, <2>11 DEF RowsOK
<1>. QED
  BY <1>1, <1>2, <1>3, <1>4, <1>5, <1>6, <1>7, <1>8 DEF Next, Step

-----------------------------------------------------------------------------
(* Accepted requests and the rows they lead to.                            *)

LEMMA CarriedOutKept ==
  TypeOK /\ CallsOK /\ RowsOK /\ AcceptedIsCarriedOut /\ [Next]_friendVars
    => AcceptedIsCarriedOut'
<1>. SUFFICES ASSUME TypeOK, CallsOK, RowsOK, AcceptedIsCarriedOut, [Next]_friendVars,
                     faults' = 0, crashes' = 0,
                     NEW p \in Pair, requests'[p]["accepted"] > 0
              PROVE  \/ friends'[p] # "none" /\ friends'[Reverse(p)] # "none"
                     \/ Busy(p, Accepting)' # {}
  BY DEF AcceptedIsCarriedOut
<1>. DEFINE Both  == friends[p] # "none" /\ friends[Reverse(p)] # "none"
            Working(v) == pc[v] \in Accepting /\ pair[v] \in {p, Reverse(p)}
            Done == Both' \/ \E v \in Worker : Working(v)'
<1>1. SUFFICES Done
  BY DEF Busy
<1>2. Reverse(p) \in Pair
  BY ReversePair
<1>3. faults = 0 /\ crashes = 0 /\ requests[p]["accepted"] > 0
        => Both \/ \E v \in Worker : Working(v)
  BY DEF AcceptedIsCarriedOut, Busy
<1>4. ASSUME UNCHANGED <<friends, faults, crashes>>, NEW w \in Worker,
             requests'[p]["accepted"] > 0 => requests[p]["accepted"] > 0,
             \A v \in Worker : v # w => pc'[v] = pc[v] /\ pair'[v] = pair[v],
             pc[w] \in Accepting => pc'[w] \in Accepting /\ pair'[w] = pair[w]
      PROVE  Done
  BY <1>3, <1>4
<1>5. CASE Crash
  BY <1>5 DEF Crash, TypeOK
<1>6. ASSUME NEW w \in Worker, SelectFails(w) \/ WriteFails(w) PROVE FALSE
  BY <1>6 DEF SelectFails, WriteFails, TypeOK
<1>7. ASSUME NEW w \in Worker, NEW q \in Calls, Call(w, q) PROVE Done
  <2>1. /\ UNCHANGED <<friends, requests, faults, crashes>>
        /\ pc[w] \notin Accepting
        /\ \A v \in Worker : v # w => pc'[v] = pc[v] /\ pair'[v] = pair[v]
    BY <1>7 DEF Call, Accepting, TypeOK
  <2>. QED  BY <1>4, <2>1
<1>8. ASSUME NEW w \in Worker, Select(w) PROVE Done
  <2>1. /\ UNCHANGED <<friends, requests, faults, crashes>>
        /\ \A v \in Worker : v # w => pc'[v] = pc[v] /\ pair'[v] = pair[v]
    BY <1>8 DEF Select, Goto, TypeOK
  <2>2. pc[w] \in Accepting => pc[w] \in {"find1", "find2"}
    BY <1>8 DEF Select, Selects, Accepting
  <2>3. pc[w] \in {"find1", "find2"} => pc'[w] \in Accepting /\ pair'[w] = pair[w]
    BY <1>8 DEF Select, IfFound, IfMissing, Goto, Accepting, TypeOK
  <2>. QED  BY <1>4, <2>1, <2>2, <2>3
<1>9. ASSUME NEW w \in Worker,
             DeleteHistory(w) \/ InsertRequest(w) \/ RejectRequest(w)
      PROVE  Done
  <2>1. /\ UNCHANGED <<friends, faults, crashes>>
        /\ pc[w] \notin Accepting
        /\ \A v \in Worker : v # w => pc'[v] = pc[v] /\ pair'[v] = pair[v]
    BY <1>9 DEF DeleteHistory, InsertRequest, RejectRequest, Goto, Accepting, TypeOK
  <2>2. requests'[p]["accepted"] > 0 => requests[p]["accepted"] > 0
    BY <1>9
       DEF DeleteHistory, InsertRequest, RejectRequest, Mark, NoRows, Status, TypeOK
  <2>. QED  BY <1>4, <2>1, <2>2
<1>10. ASSUME NEW w \in Worker, AcceptRequest(w) PROVE Done
  <2>1. /\ UNCHANGED <<friends, faults, crashes>>
        /\ pc'[w] \in Accepting /\ pair'[w] = pair[w]
        /\ \A v \in Worker : v # w => pc'[v] = pc[v] /\ pair'[v] = pair[v]
    BY <1>10 DEF AcceptRequest, Goto, Accepting, TypeOK
  <2>2. pair[w] # p => requests'[p] = requests[p]
    BY <1>10 DEF AcceptRequest, Mark, TypeOK
  <2>3. CASE pair[w] = p
    BY <2>1, <2>3
  <2>. QED  BY <1>4, <2>1, <2>2, <2>3
<1>11. ASSUME NEW w \in Worker, WriteFirst(w) PROVE Done
  <2>1. /\ UNCHANGED <<requests, faults, crashes>> /\ pair[w] \in Pair
        /\ \A v \in Worker : v # w => pc'[v] = pc[v] /\ pair'[v] = pair[v]
    BY <1>11 DEF WriteFirst, WriteRow, Goto, TypeOK, CallsOK
  <2>2. CASE DuplicateKey(w, pair[w])
    <3>1. friends' = friends /\ friends[pair[w]] # "none" /\ ~HalfDone(w)
      BY <1>11, <2>2 DEF WriteFirst, WriteRow, DuplicateKey, HalfDone
    <3>2. CASE pair[w] \in {p, Reverse(p)} /\ friends[Reverse(pair[w])] = "none"
      <4>1. PICK v \in Worker : HalfDone(v) /\ pair[v] = pair[w]
        BY <2>1, <3>1, <3>2 DEF RowsOK, LoneRowsOK
      <4>. QED  BY <2>1, <3>1, <3>2, <4>1 DEF HalfDone, Accepting
    <3>3. CASE pair[w] \in {p, Reverse(p)} /\ friends[Reverse(pair[w])] # "none"
      BY <3>1, <3>3, ReversePair
    <3>4. CASE pair[w] \notin {p, Reverse(p)}
      BY <1>3, <2>1, <3>1, <3>4
    <3>. QED  BY <3>2, <3>3, <3>4
  <2>3. CASE ~DuplicateKey(w, pair[w])
    <3>1. /\ pc'[w] \in Accepting /\ pair'[w] = pair[w]
          /\ friends' = [friends EXCEPT ![pair[w]] = "active"]
      BY <1>11, <2>3 DEF WriteFirst, WriteRow, AfterFirst, Goto, Accepting, TypeOK
    <3>2. \A q \in Pair : friends[q] # "none" => friends'[q] # "none"
      BY <2>1, <3>1 DEF TypeOK
    <3>. QED  BY <1>2, <1>3, <2>1, <3>1, <3>2
  <2>. QED  BY <2>2, <2>3
<1>12. ASSUME NEW w \in Worker, WriteSecond(w) PROVE Done
  <2>1. /\ UNCHANGED <<requests, faults, crashes>> /\ pair[w] \in Pair
        /\ \A v \in Worker : v # w => pc'[v] = pc[v] /\ pair'[v] = pair[v]
    BY <1>12 DEF WriteSecond, WriteRow, Goto, TypeOK, CallsOK
  <2>2. /\ friends'[Reverse(pair[w])] # "none"
        /\ \A q \in Pair : friends[q] # "none" => friends'[q] # "none"
    <3>1. CASE DuplicateKey(w, Reverse(pair[w]))
      BY <1>12, <3>1 DEF WriteSecond, WriteRow, DuplicateKey
    <3>2. CASE ~DuplicateKey(w, Reverse(pair[w]))
      <4>1. friends' = [friends EXCEPT ![Reverse(pair[w])] = "active"]
        BY <1>12, <3>2 DEF WriteSecond, WriteRow
      <4>. QED  BY <2>1, <4>1, ReversePair DEF TypeOK
    <3>. QED  BY <3>1, <3>2
  <2>3. friends[pair[w]] # "none"
    BY <1>12 DEF WriteSecond, HalfDone, RowsOK, HalvesOK
  <2>4. CASE pair[w] \in {p, Reverse(p)}
    BY <2>1, <2>2, <2>3, <2>4, ReversePair
  <2>5. CASE pair[w] \notin {p, Reverse(p)}
    BY <1>2, <1>3, <2>1, <2>2, <2>5
  <2>. QED  BY <2>4, <2>5
<1>13. ASSUME NEW w \in Worker, DeleteFriend(w) PROVE Done
  <2>1. /\ UNCHANGED <<requests, faults, crashes>> /\ pc[w] \notin Accepting
        /\ \A v \in Worker : v # w => pc'[v] = pc[v] /\ pair'[v] = pair[v]
        /\ \A q \in Pair : friends[q] # "none" => friends'[q] # "none"
    BY <1>13 DEF DeleteFriend, Goto, Accepting, TypeOK
  <2>. QED  BY <1>2, <1>3, <2>1
<1>14. CASE UNCHANGED friendVars
  BY <1>3, <1>14 DEF friendVars
<1>. QED
  BY <1>5, <1>6, <1>7, <1>8, <1>9, <1>10, <1>11, <1>12, <1>13, <1>14 DEF Next, Step

-----------------------------------------------------------------------------
(* The number of rows in friend_requests.                                  *)

Inserting(p) == Busy(p, {"insert"})

RowsBetween(p) == Total(p) + Total(Reverse(p))

LEMMA InsertingFinite ==
  ASSUME NEW p
  PROVE  /\ IsFiniteSet(Inserting(p)) /\ Cardinality(Inserting(p)) \in Nat
         /\ Cardinality(Inserting(p)) <= Cardinality(Worker)
BY FriendAssumption, FS_Subset, FS_CardinalityType DEF Inserting, Busy

LEMMA InsertingFiniteNext ==
  ASSUME NEW p
  PROVE  /\ IsFiniteSet(Inserting(p)') /\ Cardinality(Inserting(p)') \in Nat
         /\ Cardinality(Inserting(p)') <= Cardinality(Worker)
BY FriendAssumption, FS_Subset, FS_CardinalityType DEF Inserting, Busy

\* Changing the status of rows keeps their number.
LEMMA MarkKeepsTotals ==
  ASSUME TypeOK, NEW p \in Pair, NEW s \in Status, Mark(p, s), NEW q \in Pair
  PROVE  Total(q)' = Total(q)
<1>1. CASE q = p
  <2>1. requests'[q] = [NoRows EXCEPT ![s] = Total(p)]
    BY <1>1 DEF Mark, TypeOK
  <2>2. Total(p) \in Nat
    BY TotalIsNat
  <2>. HIDE DEF Total
  <2>3. /\ requests'[q]["pending"] + requests'[q]["accepted"] + requests'[q]["rejected"] = Total(p)
    BY <2>1, <2>2 DEF NoRows, Status
  <2>. QED  BY <1>1, <2>3 DEF Total
<1>2. CASE q # p
  BY <1>2 DEF Mark, Total, TypeOK
<1>. QED  BY <1>1, <1>2

\* Where there are no rows, the workers that insert are within the bound.
LEMMA NoRowsWithin == \A k, n, f \in Nat : k <= n => 0 + k <= n + f
OBVIOUS

LEMMA BoundKept ==
  TypeOK /\ CallsOK /\ RequestsBounded /\ [Next]_friendVars => RequestsBounded'
<1>. SUFFICES ASSUME TypeOK, CallsOK, RequestsBounded, [Next]_friendVars,
                     NEW p \in Pair, p[1] # p[2]
              PROVE  RowsBetween(p)' + Cardinality(Inserting(p)')
                       <= Cardinality(Worker) + faults'
  BY DEF RequestsBounded, RowsBetween, Inserting
<1>. DEFINE n == Cardinality(Worker)
            k == Cardinality(Inserting(p))
            rows == RowsBetween(p)
            Within == rows + k <= n + faults
<1>1. SUFFICES Within'
  OBVIOUS
<1>2. /\ n \in Nat /\ faults \in Nat /\ faults' \in Nat
      /\ k \in Nat /\ k <= n /\ k' \in Nat /\ k' <= n
  <2>1. n \in Nat
    BY FriendAssumption, FS_CardinalityType
  <2>2. faults \in Nat /\ faults' \in Nat
    BY TypingKept, FriendAssumption DEF TypeOK
  <2>. QED  BY <2>1, <2>2, InsertingFinite, InsertingFiniteNext
<1>3. /\ Reverse(p) \in Pair /\ Total(p) \in Nat /\ Total(Reverse(p)) \in Nat
      /\ rows = Total(p) + Total(Reverse(p)) /\ rows' = Total(p)' + Total(Reverse(p))'
      /\ Reverse(p)' = Reverse(p)
  BY ReversePair, TotalIsNat DEF RowsBetween, Reverse
<1>4. Within
  BY DEF RequestsBounded, RowsBetween, Inserting
<1>5. ASSUME UNCHANGED requests PROVE rows' = rows
  BY <1>5 DEF RowsBetween, Total, Reverse
<1>6. ASSUME NEW w \in Worker, \A v \in Worker : v # w => pc'[v] = pc[v] /\ pair'[v] = pair[v]
      PROVE  /\ k' <= k + 1
             /\ pc'[w] # "insert" => k' <= k
             /\ w \in Inserting(p) /\ pc'[w] # "insert" => k' = k - 1
             /\ pair[w] \notin {p, Reverse(p)} /\ pair'[w] \in {pair[w], NoPair} => k' <= k
  <2>1. \A v \in Worker : v # w => (v \in Inserting(p)' <=> v \in Inserting(p))
    BY <1>6 DEF Inserting, Busy
  <2>2. Inserting(p) \subseteq Worker /\ Inserting(p)' \subseteq Worker
    BY DEF Inserting, Busy
  <2>3. CASE w \in Inserting(p)' /\ w \notin Inserting(p)
    <3>1. Inserting(p)' = Inserting(p) \cup {w}
      BY <2>1, <2>2, <2>3
    <3>2. k' = k + 1
      BY <2>3, <3>1, InsertingFinite, FS_AddElement
    <3>3. pc'[w] = "insert" /\ pair'[w] \in {p, Reverse(p)}
      BY <2>3 DEF Inserting, Busy, Reverse
    <3>. QED  BY <1>2, <2>3, <3>2, <3>3, <1>3, FriendAssumption
  <2>4. CASE w \notin Inserting(p)' /\ w \in Inserting(p)
    <3>1. Inserting(p)' = Inserting(p) \ {w}
      BY <2>1, <2>2, <2>4
    <3>2. k' = k - 1
      BY <2>4, <3>1, InsertingFinite, FS_RemoveElement
    <3>. QED  BY <1>2, <3>2
  <2>5. CASE w \in Inserting(p)' <=> w \in Inserting(p)
    <3>1. Inserting(p)' = Inserting(p)
      BY <2>1, <2>2, <2>5
    <3>2. w \in Inserting(p) => pc'[w] = "insert"
      BY <3>1 DEF Inserting, Busy
    <3>. QED  BY <1>2, <3>1, <3>2
  <2>. QED  BY <2>3, <2>4, <2>5
<1>. HIDE DEF k, rows, n
<1>7. CASE Crash
  <2>1. Inserting(p)' = {}
    BY <1>7 DEF Crash, Inserting, Busy
  <2>2. k' = 0
    BY <2>1, FS_EmptySet DEF k
  <2>3. rows' = rows /\ faults' = faults
    BY <1>5, <1>7 DEF Crash
  <2>. QED  BY <1>2, <1>3, <1>4, <2>2, <2>3
<1>8. ASSUME NEW w \in Worker,
             \/ \E q \in Calls : Call(w, q)
             \/ AcceptRequest(w) \/ RejectRequest(w)
             \/ WriteFirst(w) \/ WriteSecond(w) \/ DeleteFriend(w) \/ WriteFails(w)
      PROVE  Within'
  <2>1. /\ \A v \in Worker : v # w => pc'[v] = pc[v] /\ pair'[v] = pair[v]
        /\ pc'[w] # "insert"
    BY <1>8
       DEF Call, AcceptRequest, RejectRequest, WriteFirst, WriteSecond, WriteRow, AfterFirst,
           DeleteFriend, WriteFails, Goto, TypeOK
  <2>2. faults' >= faults
    BY <1>2, <1>8
       DEF Call, AcceptRequest, RejectRequest, WriteFirst, WriteSecond, WriteRow,
           DeleteFriend, WriteFails
  <2>3. rows' = rows
    <3>1. CASE AcceptRequest(w) \/ RejectRequest(w)
      <4>1. pair[w] \in Pair
        BY <3>1 DEF AcceptRequest, RejectRequest, TypeOK, CallsOK
      <4>2. \E s \in Status : Mark(pair[w], s)
        BY <3>1 DEF AcceptRequest, RejectRequest, Status
      <4>3. Total(p)' = Total(p) /\ Total(Reverse(p))' = Total(Reverse(p))
        BY <1>3, <4>1, <4>2, MarkKeepsTotals
      <4>. QED  BY <1>3, <4>3
    <3>2. CASE ~(AcceptRequest(w) \/ RejectRequest(w))
      BY <1>5, <1>8, <3>2
         DEF Call, WriteFirst, WriteSecond, WriteRow, DeleteFriend, WriteFails
    <3>. QED  BY <3>1, <3>2
  <2>4. k' <= k
    BY <1>6, <2>1
  <2>. QED  BY <1>2, <1>3, <1>4, <2>2, <2>3, <2>4
<1>9. ASSUME NEW w \in Worker, Select(w) PROVE Within'
  <2>1. /\ \A v \in Worker : v # w => pc'[v] = pc[v] /\ pair'[v] = pair[v]
        /\ rows' = rows /\ faults' = faults
        /\ pair[w] \in Pair /\ pair'[w] \in {pair[w], NoPair}
    BY <1>5, <1>9 DEF Select, Selects, Goto, TypeOK, CallsOK
  <2>2. CASE pair[w] \notin {p, Reverse(p)} \/ pc'[w] # "insert"
    <3>1. k' <= k
      BY <1>6, <2>1, <2>2
    <3>. QED  BY <1>2, <1>3, <1>4, <2>1, <3>1
  <2>3. CASE pair[w] \in {p, Reverse(p)} /\ pc'[w] = "insert"
    <3>1. ~RequestExists(pair[w])
      <4>1. pc'[w] = IF Exists(pc[w], pair[w]) THEN IfFound[pc[w]] ELSE IfMissing[pc[w]]
        BY <1>9 DEF Select, Goto, TypeOK
      <4>2. /\ pc[w] \in Selects
            /\ IfFound[pc[w]] # "insert"
            /\ IfMissing[pc[w]] = "insert" => pc[w] = "history"
        BY <1>9 DEF Select, Selects, IfFound, IfMissing
      <4>3. pc[w] = "history" /\ ~Exists(pc[w], pair[w])
        BY <2>3, <4>1, <4>2
      <4>. QED  BY <4>3 DEF Exists
    <3>2. ~(Total(p) > 0) /\ ~(Total(Reverse(p)) > 0)
      BY <2>3, <3>1, ReversePair DEF RequestExists
    <3>3. rows = 0
      BY <1>3, <3>2
    <3>. QED  BY <1>2, <2>1, <3>3, NoRowsWithin
  <2>. QED  BY <2>2, <2>3
<1>10. ASSUME NEW w \in Worker, SelectFails(w) PROVE Within'
  <2>1. /\ \A v \in Worker : v # w => pc'[v] = pc[v] /\ pair'[v] = pair[v]
        /\ rows' = rows /\ faults' = faults + 1
    BY <1>5, <1>10 DEF SelectFails, Goto, TypeOK
  <2>2. k' <= k + 1
    BY <1>6, <2>1
  <2>. QED  BY <1>2, <1>3, <1>4, <2>1, <2>2
<1>11. ASSUME NEW w \in Worker, DeleteHistory(w) PROVE Within'
  <2>1. /\ \A v \in Worker : v # w => pc'[v] = pc[v] /\ pair'[v] = pair[v]
        /\ faults' = faults /\ pair[w] \in Pair /\ pair'[w] = pair[w]
    BY <1>11 DEF DeleteHistory, Goto, TypeOK, CallsOK
  <2>2. CASE pair[w] \in {p, Reverse(p)}
    <3>1. requests'[p] = NoRows /\ requests'[Reverse(p)] = NoRows
      BY <1>3, <1>11, <2>2, ReversePair DEF DeleteHistory, History
    <3>2. Total(p)' = 0 /\ Total(Reverse(p))' = 0
      BY <1>3, <3>1 DEF Total, NoRows, Status
    <3>3. rows' = 0
      BY <1>3, <3>2
    <3>. QED  BY <1>2, <3>3, NoRowsWithin
  <2>3. CASE pair[w] \notin {p, Reverse(p)}
    <3>1. requests'[p] = requests[p] /\ requests'[Reverse(p)] = requests[Reverse(p)]
      BY <1>3, <1>11, <2>1, <2>3, ReversePair DEF DeleteHistory, History
    <3>2. rows' = rows
      BY <1>3, <3>1 DEF Total
    <3>3. k' <= k
      BY <1>6, <2>1, <2>3
    <3>. QED  BY <1>2, <1>3, <1>4, <2>1, <3>2, <3>3
  <2>. QED  BY <2>2, <2>3
<1>12. ASSUME NEW w \in Worker, InsertRequest(w) PROVE Within'
  <2>1. /\ \A v \in Worker : v # w => pc'[v] = pc[v] /\ pair'[v] = pair[v]
        /\ faults' = faults /\ pair[w] \in Pair /\ pc'[w] # "insert"
        /\ requests' = [requests EXCEPT ![pair[w]]["pending"] = @ + 1]
    BY <1>12 DEF InsertRequest, Goto, TypeOK, CallsOK
  <2>2. \A q \in Pair : Total(q)' = IF q = pair[w] THEN Total(q) + 1 ELSE Total(q)
    BY <2>1 DEF Total, TypeOK, Status
  <2>3. CASE pair[w] \in {p, Reverse(p)}
    <3>1. rows' = rows + 1
      BY <1>3, <2>2, <2>3, ReversePair
    <3>2. w \in Inserting(p)
      BY <1>12, <2>3 DEF InsertRequest, Inserting, Busy
    <3>3. k' = k - 1
      BY <1>6, <2>1, <3>2
    <3>. QED  BY <1>2, <1>3, <1>4, <2>1, <3>1, <3>3
  <2>4. CASE pair[w] \notin {p, Reverse(p)}
    <3>1. rows' = rows
      BY <1>3, <2>2, <2>4
    <3>2. k' <= k
      BY <1>6, <2>1
    <3>. QED  BY <1>2, <1>3, <1>4, <2>1, <3>1, <3>2
  <2>. QED  BY <2>3, <2>4
<1>13. CASE UNCHANGED friendVars
  <2>1. Inserting(p)' = Inserting(p)
    BY <1>13 DEF friendVars, Inserting, Busy, Reverse
  <2>2. k' = k /\ rows' = rows /\ faults' = faults
    BY <1>5, <1>13, <2>1 DEF friendVars, k
  <2>. QED  BY <1>4, <2>2
<1>. QED
  BY <1>7, <1>8, <1>9, <1>10, <1>11, <1>12, <1>13 DEF Next, Step

-----------------------------------------------------------------------------
LEMMA Initially == Init => Inv
<1>. SUFFICES ASSUME Init PROVE Inv
  OBVIOUS
<1>1. TypeOK /\ CallsOK
  BY FriendAssumption DEF Init, TypeOK, CallsOK, NoRows, Status
<1>2. TornBothWays /\ HalvesOK /\ FriendsMutual /\ LoneRowsOK
  BY DEF Init, TornBothWays, HalvesOK, HalfDone, FriendsMutual, IsFriend, LoneRowsOK
<1>3. \A p \in Pair : requests[p]["accepted"] = 0 /\ Total(p) = 0
  BY DEF Init, NoRows, Status, Total
<1>4. AcceptedIsCarriedOut
  BY <1>3 DEF AcceptedIsCarriedOut
<1>5. RequestsBounded
  <2>. SUFFICES ASSUME NEW p \in {q \in Pair : q[1] # q[2]}
                PROVE  Total(p) + Total(Reverse(p)) + Cardinality(Busy(p, {"insert"}))
                         <= Cardinality(Worker) + faults
    BY DEF RequestsBounded
  <2>1. Total(p) = 0 /\ Total(Reverse(p)) = 0 /\ faults = 0
    BY <1>3, ReversePair DEF Init
  <2>2. Cardinality(Busy(p, {"insert"})) \in Nat /\ Cardinality(Worker) \in Nat
        /\ Cardinality(Busy(p, {"insert"})) <= Cardinality(Worker)
    BY InsertingFinite, FriendAssumption, FS_CardinalityType DEF Inserting
  <2>. QED  BY <2>1, <2>2
<1>. QED  BY <1>1, <1>2, <1>4, <1>5 DEF Inv

\* The inductive invariant of the two tables and of the methods on them.
THEOREM Invariance == Spec => []Inv
<1>1. Inv /\ [Next]_friendVars => Inv'
  BY TypingKept, RowsKept, CarriedOutKept, BoundKept DEF Inv, RowsOK
<1>. QED  BY Initially, <1>1, PTL DEF Spec

\* Friendship is mutual but where an accept is, or was, cut between its rows.
THEOREM Mutual == Spec => []FriendsMutual
BY Invariance, PTL DEF Inv

\* Without failures every accepted request gets its two rows.
THEOREM CarriedOut == Spec => []AcceptedIsCarriedOut
BY Invariance, PTL DEF Inv

\* Two users never have more request rows than there are workers, and failed
\* statements, whatever they and their methods do.
THEOREM Bounded == Spec => []RequestsBounded
BY Invariance, PTL DEF Inv

-----------------------------------------------------------------------------
(* Friendships: what the methods promise between users who are left in     *)
(* peace, and that trouble between two users stays between them.           *)

Asking == {"friend", "pending", "history", "delete", "insert"}

\* What a method has found out still holds.
FoundOK(w) ==
  /\ pc[w] \in Asking => pair[w][2] \in Registered
  /\ pc[w] \in Asking \ {"friend"} => ~IsFriend(pair[w])
  /\ pc[w] \in {"history", "delete", "insert"} => ~PendingRequestExists(pair[w])
  /\ pc[w] = "insert1" => friends[pair[w]] = "none"
  /\ pc[w] = "insert2" => friends[Reverse(pair[w])] = "none"
  /\ HalfDone(w) => IsFriend(pair[w])

OneWay(p) == IsFriend(p) /\ ~IsFriend(Reverse(p))

InPeace(w) == Between(w) \cap disturbed = {}

\* The methods of users left in peace know what they act on, and one of them
\* is between its two writes wherever friendship is one-sided.
PeaceOK ==
  /\ \A w \in Worker : InPeace(w) => FoundOK(w)
  /\ \A p \in Pair :
       OneWay(p) => Ends(p) \in disturbed \/ \E w \in Worker : HalfDone(w) /\ pair[w] = p

TrackedInv ==
  /\ TypeOK /\ CallsOK
  /\ Meeting \subseteq disturbed /\ disturbed \subseteq WorkedOn \cup Lopsided
  /\ PeaceOK

LEMMA SameEnds ==
  ASSUME NEW p \in Pair, NEW q \in Pair
  PROVE  Ends(p) = Ends(q) <=> q \in {p, Reverse(p)}
<1>1. p = <<p[1], p[2]>> /\ q = <<q[1], q[2]>>
  BY DEF Pair
<1>. QED  BY <1>1 DEF Ends, Reverse

LEMMA BetweenIs ==
  ASSUME TypeOK, NEW w \in Worker
  PROVE  /\ pair[w] \in Pair => Between(w) = {Ends(pair[w])}
         /\ pair[w] \notin Pair => Between(w) = {}
BY FriendAssumption DEF TypeOK, Between

LEMMA BetweenThen ==
  ASSUME TypeOK', NEW w \in Worker
  PROVE  /\ pair'[w] \in Pair => Between(w)' = {Ends(pair'[w])}
         /\ pair'[w] \notin Pair => Between(w)' = {}
BY FriendAssumption DEF TypeOK, Between, Ends

\* Where users are left in peace there is one method at work, at most.
LEMMA Alone ==
  ASSUME TypeOK, Meeting \subseteq disturbed, NEW w \in Worker, NEW v \in Worker, v # w,
         pair[w] \in Pair, InPeace(w)
  PROVE  pair[v] \notin {pair[w], Reverse(pair[w])}
<1>. SUFFICES ASSUME pair[v] \in {pair[w], Reverse(pair[w])} PROVE FALSE
  OBVIOUS
<1>1. pair[v] \in Pair /\ Ends(pair[v]) = Ends(pair[w])
  BY ReversePair, SameEnds
<1>2. Ends(pair[w]) \in Between(v) \cap Between(w)
  BY <1>1, BetweenIs
<1>3. Ends(pair[w]) \in Meeting
  BY <1>2 DEF Meeting, WorkedOn
<1>. QED  BY <1>2, <1>3 DEF InPeace

\* Whose rows a step of w touches.
Untouched(p) ==
  UNCHANGED <<friends[p], friends[Reverse(p)], requests[p], requests[Reverse(p)]>>

LEMMA TouchesOwn ==
  ASSUME TypeOK, CallsOK, NEW w \in Worker, Step(w)
  PROVE  /\ \A v \in Worker \ {w} : UNCHANGED <<pc[v], pair[v]>>
         /\ \A p \in Pair : pair[w] \notin {p, Reverse(p)} => Untouched(p)
<1>1. ASSUME NEW p \in Calls, Call(w, p) \/ Select(w) \/ SelectFails(w) \/ WriteFails(w)
      PROVE  UNCHANGED <<friends, requests>> /\ \A v \in Worker \ {w} : UNCHANGED <<pc[v], pair[v]>>
  BY <1>1 DEF Call, Select, SelectFails, WriteFails, Goto, TypeOK
<1>2. CASE DeleteHistory(w) \/ InsertRequest(w) \/ AcceptRequest(w) \/ RejectRequest(w)
  <2>1. /\ pair[w] \in Pair /\ friends' = friends
        /\ \A v \in Worker \ {w} : UNCHANGED <<pc[v], pair[v]>>
    BY <1>2 DEF DeleteHistory, InsertRequest, AcceptRequest, RejectRequest, Goto, TypeOK, CallsOK
  <2>2. \A q \in Pair : q \notin {pair[w], Reverse(pair[w])} => requests'[q] = requests[q]
    BY <1>2, <2>1 DEF DeleteHistory, InsertRequest, AcceptRequest, RejectRequest, Mark,
       History, TypeOK
  <2>. QED  BY <2>1, <2>2, ReversePair DEF Untouched
<1>3. CASE WriteFirst(w) \/ WriteSecond(w) \/ DeleteFriend(w)
  <2>1. /\ pair[w] \in Pair /\ requests' = requests
        /\ \A v \in Worker \ {w} : UNCHANGED <<pc[v], pair[v]>>
    BY <1>3 DEF WriteFirst, WriteSecond, WriteRow, DeleteFriend, Goto, TypeOK, CallsOK
  <2>2. \A q \in Pair : q \notin {pair[w], Reverse(pair[w])} => friends'[q] = friends[q]
    BY <1>3, <2>1 DEF WriteFirst, WriteSecond, WriteRow, DeleteFriend, Rows, TypeOK
  <2>. QED  BY <2>1, <2>2, ReversePair DEF Untouched
<1>4. CASE \E p \in Calls : Call(w, p)
  BY <1>1, <1>4 DEF Untouched
<1>5. CASE Select(w) \/ SelectFails(w) \/ WriteFails(w)
  <2>1. UNCHANGED <<friends, requests>> /\ \A v \in Worker \ {w} : UNCHANGED <<pc[v], pair[v]>>
    BY <1>5 DEF Select, SelectFails, WriteFails, Goto, TypeOK
  <2>. QED  BY <2>1 DEF Untouched
<1>. QED  BY <1>2, <1>3, <1>4, <1>5 DEF Step

\* A step that is no call is of a method that goes on between the same two
\* users, or returns.
LEMMA StepsOfMethods ==
  ASSUME TypeOK, CallsOK, NEW w \in Worker, Step(w), \A p \in Calls : ~Call(w, p)
  PROVE  /\ pair[w] \in Pair /\ pair'[w] \in {pair[w], NoPair} /\ pc[w] # "idle"
         /\ SelectFails(w) \/ WriteFails(w) => pc'[w] # pc[w]
         /\ UNCHANGED <<faults, crashes>> \/ SelectFails(w) \/ WriteFails(w)
<1>1. PICK next : Goto(w, next)
  BY DEF Step, Select, SelectFails, WriteFails, DeleteHistory, InsertRequest,
         AcceptRequest, WriteFirst, WriteSecond, WriteRow, RejectRequest, DeleteFriend
<1>2. pc[w] # "idle"
  BY DEF Step, Select, Selects, SelectFails, WriteFails, Writes, DeleteHistory, InsertRequest,
         AcceptRequest, WriteFirst, WriteSecond, RejectRequest, DeleteFriend
<1>3. pair[w] \in Pair /\ pair'[w] \in {pair[w], NoPair}
  BY <1>1, <1>2 DEF Goto, TypeOK, CallsOK
<1>4. SelectFails(w) \/ WriteFails(w) => pc'[w] # pc[w]
  BY DEF SelectFails, Selects, IfMissing, WriteFails, Writes, Goto, TypeOK
<1>5. UNCHANGED <<faults, crashes>> \/ SelectFails(w) \/ WriteFails(w)
  BY DEF Step, Select, DeleteHistory, InsertRequest,
         AcceptRequest, WriteFirst, WriteSecond, WriteRow, RejectRequest, DeleteFriend
<1>. QED  BY <1>2, <1>3, <1>4, <1>5

LEMMA SelectKept ==
  ASSUME TypeOK, CallsOK, NEW w \in Worker, FoundOK(w), Select(w)
  PROVE  FoundOK(w)' /\ (HalfDone(w)' <=> HalfDone(w)) /\ UNCHANGED <<friends, requests>>
<1>. PICK p : p = pair[w]
  OBVIOUS
<1>1. p \in Pair /\ FoundOK(w) /\ UNCHANGED <<friends, requests>>
  BY DEF Select, Selects, TypeOK, CallsOK
<1>2. /\ pc'[w] = IF Exists(pc[w], p) THEN IfFound[pc[w]] ELSE IfMissing[pc[w]]
      /\ pc'[w] # "idle" => pair'[w] = p
  BY DEF Select, Goto, TypeOK
<1>3. (IsFriend(p)' <=> IsFriend(p)) /\ (PendingRequestExists(p)' <=> PendingRequestExists(p))
  BY <1>1 DEF IsFriend, PendingRequestExists
<1>4. pc[w] \in Selects
  BY DEF Select
<1>5. CASE pc'[w] = "idle"
  BY <1>1, <1>2, <1>4, <1>5 DEF FoundOK, Asking, HalfDone, IfFound, IfMissing, Selects
<1>6. CASE pc'[w] # "idle"
  <2>1. pair'[w] = p
    BY <1>2, <1>6
  <2>2. CASE pc[w] = "user"
    <3>1. pc'[w] = "friend" /\ p[2] \in Registered
      BY <1>2, <1>6, <2>2 DEF Exists, IfFound, IfMissing
    <3>. QED  BY <1>1, <2>1, <2>2, <3>1 DEF FoundOK, Asking, HalfDone
  <2>3. CASE pc[w] = "friend"
    <3>1. pc'[w] = "pending" /\ ~IsFriend(p) /\ p[2] \in Registered
      BY <1>1, <1>2, <1>6, <2>3 DEF Exists, IfFound, IfMissing, FoundOK, Asking
    <3>. QED  BY <1>1, <1>3, <2>1, <2>3, <3>1 DEF FoundOK, Asking, HalfDone, IsFriend
  <2>4. CASE pc[w] = "pending"
    <3>1. /\ pc'[w] = "history" /\ ~PendingRequestExists(p)
          /\ ~IsFriend(p) /\ p[2] \in Registered
      BY <1>1, <1>2, <1>6, <2>4 DEF Exists, IfFound, IfMissing, FoundOK, Asking
    <3>. QED  BY <1>1, <1>3, <2>1, <2>4, <3>1
    DEF FoundOK, Asking, HalfDone, IsFriend, PendingRequestExists
  <2>5. CASE pc[w] = "history"
    <3>1. /\ pc'[w] \in {"delete", "insert"} /\ ~PendingRequestExists(p)
          /\ ~IsFriend(p) /\ p[2] \in Registered
      BY <1>1, <1>2, <1>6, <2>5 DEF IfFound, IfMissing, FoundOK, Asking
    <3>. QED  BY <1>1, <1>3, <2>1, <2>5, <3>1
    DEF FoundOK, Asking, HalfDone, IsFriend, PendingRequestExists
  <2>6. CASE pc[w] = "find1"
    <3>1. \/ pc'[w] = "update1"
          \/ pc'[w] = "insert1" /\ friends[p] = "none"
      BY <1>2, <2>6 DEF Exists, IfFound, IfMissing
    <3>. QED  BY <1>1, <2>1, <2>6, <3>1 DEF FoundOK, Asking, HalfDone
  <2>7. CASE pc[w] = "find2"
    <3>1. \/ pc'[w] = "update2"
          \/ pc'[w] = "insert2" /\ friends[Reverse(p)] = "none"
      BY <1>2, <2>7 DEF Exists, IfFound, IfMissing
    <3>2. IsFriend(p)
      BY <1>1, <2>7 DEF FoundOK, HalfDone
    <3>. QED  BY <1>1, <1>3, <2>1, <2>7, <3>1, <3>2 DEF FoundOK, Asking, HalfDone, IsFriend
  <2>. QED  BY <1>4, <2>2, <2>3, <2>4, <2>5, <2>6, <2>7 DEF Selects
<1>. QED  BY <1>1, <1>5, <1>6

\* With no other method at work on them the two writes of an accept succeed.
LEMMA WritesSucceed ==
  ASSUME TypeOK, CallsOK, NEW w \in Worker, FoundOK(w), NEW p, p = pair[w],
         WriteFirst(w) \/ WriteSecond(w)
  PROVE  /\ p \in Pair /\ Reverse(p) \in Pair /\ requests' = requests
         /\ \/ /\ pc[w] \in {"update1", "insert1"} /\ pc'[w] = "find2" /\ pair'[w] = p
               /\ friends' = [friends EXCEPT ![p] = "active"]
            \/ /\ HalfDone(w) /\ pc'[w] = "idle" /\ friends[p] = "active"
               /\ friends' = [friends EXCEPT ![Reverse(p)] = "active"]
<1>1. p \in Pair /\ Reverse(p) \in Pair
  BY ReversePair DEF WriteFirst, WriteSecond, TypeOK, CallsOK
<1>2. FoundOK(w)
  OBVIOUS
<1>3. CASE WriteFirst(w)
  <2>1. ~DuplicateKey(w, p) /\ pc[w] \in {"update1", "insert1"} /\ pc[w] # "idle"
    BY <1>2, <1>3 DEF FoundOK, DuplicateKey, WriteFirst
  <2>2. Goto(w, "find2") /\ friends' = [friends EXCEPT ![p] = "active"] /\ requests' = requests
    BY <1>3, <2>1 DEF WriteFirst, WriteRow, AfterFirst
  <2>3. pc'[w] = "find2" /\ pair'[w] = p
    BY <2>2 DEF Goto, TypeOK
  <2>. QED  BY <1>1, <2>1, <2>2, <2>3
<1>4. CASE WriteSecond(w)
  <2>1. ~DuplicateKey(w, Reverse(p)) /\ HalfDone(w) /\ friends[p] = "active"
    BY <1>2, <1>4 DEF FoundOK, DuplicateKey, WriteSecond, HalfDone, IsFriend
  <2>2. Goto(w, "idle") /\ friends' = [friends EXCEPT ![Reverse(p)] = "active"]
        /\ requests' = requests
    BY <1>4, <2>1 DEF WriteSecond, WriteRow
  <2>3. pc'[w] = "idle"
    BY <2>2 DEF Goto, TypeOK
  <2>. QED  BY <1>1, <2>1, <2>2, <2>3
<1>. QED  BY <1>3, <1>4

\* Left in peace, a method goes on knowing what it acts on, and leaves
\* friendship one-sided only between its own two writes.
LEMMA OwnKept ==
  ASSUME TypeOK, CallsOK, NEW w \in Worker, FoundOK(w),
         Step(w), \A q \in Calls : ~Call(w, q), ~SelectFails(w), ~WriteFails(w),
         NEW p \in Pair, p = pair[w],
         \A q \in {p, Reverse(p)} : OneWay(q) => HalfDone(w) /\ q = p
  PROVE  /\ FoundOK(w)'
         /\ \A q \in {p, Reverse(p)} : OneWay(q)' => HalfDone(w)' /\ pair'[w] = q
<1>. DEFINE Sides == \A q \in {p, Reverse(p)} : OneWay(q)' => HalfDone(w)' /\ pair'[w] = q
<1>1. ASSUME UNCHANGED friends, HalfDone(w) => HalfDone(w)' /\ pair'[w] = p PROVE Sides
  BY <1>1 DEF OneWay, IsFriend
<1>2. CASE Select(w)
  <2>1. FoundOK(w)' /\ (HalfDone(w)' <=> HalfDone(w)) /\ UNCHANGED friends
    BY <1>2, SelectKept
  <2>2. HalfDone(w)' => pair'[w] = p
    BY <1>2 DEF Select, Goto, HalfDone, TypeOK
  <2>. QED  BY <1>1, <2>1, <2>2
<1>3. CASE InsertRequest(w) \/ AcceptRequest(w) \/ RejectRequest(w)
  <2>1. pc'[w] \in {"idle", "find1"} /\ ~HalfDone(w) /\ UNCHANGED friends
    BY <1>3 DEF InsertRequest, AcceptRequest, RejectRequest, Goto, TypeOK, HalfDone
  <2>. QED  BY <1>1, <2>1 DEF FoundOK, Asking, HalfDone
<1>4. CASE DeleteHistory(w)
  <2>1. /\ pc[w] = "delete" /\ pc'[w] = "insert" /\ pair'[w] = p /\ UNCHANGED friends
        /\ ~HalfDone(w)
    BY <1>4 DEF DeleteHistory, Goto, TypeOK, CallsOK, HalfDone
  <2>2. p[2] \in Registered /\ ~IsFriend(p)
    BY <2>1 DEF FoundOK, Asking
  <2>3. requests'[p] = NoRows /\ requests'[Reverse(p)] = NoRows
    BY <1>4, <2>1, ReversePair DEF DeleteHistory, History
  <2>4. ~PendingRequestExists(p)'
    BY <2>3 DEF PendingRequestExists, NoRows, Status
  <2>. QED  BY <1>1, <2>1, <2>2, <2>4
    DEF FoundOK, Asking, HalfDone, IsFriend, PendingRequestExists
<1>5. CASE WriteFirst(w) \/ WriteSecond(w)
  <2>1. /\ Reverse(p) \in Pair
        /\ \/ /\ pc[w] \in {"update1", "insert1"} /\ pc'[w] = "find2" /\ pair'[w] = p
              /\ friends' = [friends EXCEPT ![p] = "active"]
           \/ /\ HalfDone(w) /\ pc'[w] = "idle" /\ friends[p] = "active"
              /\ friends' = [friends EXCEPT ![Reverse(p)] = "active"]
    BY <1>5, WritesSucceed
  <2>2. CASE /\ pc[w] \in {"update1", "insert1"} /\ pc'[w] = "find2" /\ pair'[w] = p
             /\ friends' = [friends EXCEPT ![p] = "active"]
    <3>1. friends'[p] = "active" /\ HalfDone(w)'
      BY <2>1, <2>2 DEF TypeOK, HalfDone
    <3>2. FoundOK(w)'
      BY <2>2, <3>1 DEF FoundOK, Asking, IsFriend
    <3>3. Sides
      BY <2>1, <2>2, <3>1, ReversePair DEF OneWay, IsFriend
    <3>. QED  BY <3>2, <3>3
  <2>3. CASE /\ HalfDone(w) /\ pc'[w] = "idle" /\ friends[p] = "active"
             /\ friends' = [friends EXCEPT ![Reverse(p)] = "active"]
    <3>1. friends'[Reverse(p)] = "active" /\ friends'[p] = "active"
      BY <2>1, <2>3, ReversePair DEF TypeOK
    <3>2. FoundOK(w)'
      BY <2>3 DEF FoundOK, Asking, HalfDone
    <3>3. Sides
      BY <2>1, <3>1, ReversePair DEF OneWay, IsFriend
    <3>. QED  BY <3>2, <3>3
  <2>. QED  BY <2>1, <2>2, <2>3
<1>6. CASE DeleteFriend(w)
  <2>1. pc'[w] = "idle"
    BY <1>6 DEF DeleteFriend, Goto, TypeOK, CallsOK
  <2>2. \A q \in Pair : q \in {p, Reverse(p)} => friends'[q] # "active"
    BY <1>6 DEF DeleteFriend, Rows
  <2>3. FoundOK(w)'
    BY <2>1 DEF FoundOK, Asking, HalfDone
  <2>4. Sides
    BY <2>2, ReversePair DEF OneWay, IsFriend
  <2>. QED  BY <2>3, <2>4
<1>. QED  BY <1>2, <1>3, <1>4, <1>5, <1>6 DEF Step

\* What the others have found out goes on holding too.
LEMMA OthersKept ==
  ASSUME TypeOK, CallsOK, NEW w \in Worker, Step(w),
         NEW v \in Worker, v # w, FoundOK(v),
         pair[v] \in Pair => pair[w] \notin {pair[v], Reverse(pair[v])}
  PROVE  FoundOK(v)'
<1>1. UNCHANGED <<pc[v], pair[v]>>
  BY TouchesOwn
<1>2. CASE pc[v] = "idle"
  BY <1>1, <1>2 DEF FoundOK, Asking, HalfDone
<1>3. CASE pc[v] # "idle"
  <2>1. pair[v] \in Pair /\ Reverse(pair[v]) \in Pair
    BY <1>3, ReversePair DEF TypeOK, CallsOK
  <2>3. Untouched(pair[v])
    BY <2>1, TouchesOwn
  <2>4. PICK p \in Pair : p = pair[v] /\ p = pair'[v] /\ Untouched(p)
    BY <1>1, <2>1, <2>3
  <2>5. IsFriend(p)' <=> IsFriend(p)
    BY <2>4 DEF Untouched, IsFriend
  <2>6. PendingRequestExists(p)' <=> PendingRequestExists(p)
    BY <2>4 DEF Untouched, PendingRequestExists
  <2>. QED  BY <1>1, <2>4, <2>5, <2>6
  DEF Untouched, FoundOK, HalfDone, IsFriend, PendingRequestExists
<1>. QED  BY <1>2, <1>3

-----------------------------------------------------------------------------
(* The invariant of the history.                                           *)

LEMMA DisturbedThen ==
  ASSUME TrackedNext
  PROVE  /\ \A e \in disturbed \cup Meeting' \cup Interrupted :
              e \in WorkedOn' \cup Lopsided' => e \in disturbed'
         /\ Meeting' \subseteq disturbed' /\ disturbed' \subseteq WorkedOn' \cup Lopsided'
         /\ disturbed' \subseteq disturbed \cup Meeting' \cup Interrupted
BY DEF TrackedNext, Meeting

LEMMA PeaceKept == TrackedInv /\ TrackedNext /\ TypeOK' /\ CallsOK' => PeaceOK'
<1>. SUFFICES ASSUME TrackedInv, TrackedNext, TypeOK', CallsOK' PROVE PeaceOK'
  OBVIOUS
<1>. DEFINE Known == \A v \in Worker : InPeace(v)' => FoundOK(v)'
            BothSides(q) == OneWay(q)' => \/ Ends(q) \in disturbed'
                                       \/ \E v \in Worker : HalfDone(v)' /\ pair'[v] = q
<1>0. TypeOK /\ CallsOK /\ PeaceOK /\ Meeting \subseteq disturbed
  BY DEF TrackedInv
<1>1. ASSUME NEW q \in Pair, OneWay(q)', Ends(q) \in disturbed \cup Meeting' \cup Interrupted
      PROVE  Ends(q) \in disturbed'
  <2>1. Ends(q) \in Lopsided'
    BY <1>1 DEF Lopsided, OneWay, IsFriend, Ends, Reverse
  <2>. QED  BY <1>1, <2>1, DisturbedThen
<1>2. CASE Crash
  <2>1. Known
    BY <1>2 DEF Crash, FoundOK, Asking, HalfDone
  <2>2. ASSUME NEW q \in Pair, OneWay(q)', Ends(q) \notin disturbed' PROVE FALSE
    <3>1. OneWay(q) /\ Ends(q) \notin disturbed \cup Interrupted
      BY <1>1, <1>2, <2>2 DEF Crash, OneWay, IsFriend
    <3>2. PICK v \in Worker : HalfDone(v) /\ pair[v] = q
      BY <1>0, <3>1 DEF PeaceOK
    <3>3. pc'[v] # pc[v] /\ Between(v) = {Ends(q)} /\ crashes' # crashes
      BY <1>0, <1>2, <3>2, BetweenIs DEF Crash, HalfDone, TypeOK
    <3>4. Ends(q) \in Interrupted
      BY <3>3 DEF Interrupted
    <3>. QED  BY <3>1, <3>4
  <2>. QED  BY <2>1, <2>2 DEF PeaceOK
<1>3. ASSUME NEW w \in Worker, NEW p \in Calls, Call(w, p) PROVE PeaceOK'
  <2>1. /\ UNCHANGED <<friends, requests>> /\ ~HalfDone(w)
        /\ \A v \in Worker \ {w} : UNCHANGED <<pc[v], pair[v]>>
    BY <1>0, <1>3 DEF Call, HalfDone, TypeOK
  <2>2. FoundOK(w)'
    BY <1>0, <1>3 DEF Call, FoundOK, Asking, HalfDone, TypeOK
  <2>3. ASSUME NEW v \in Worker, v # w, InPeace(v)' PROVE FoundOK(v)'
    <3>1. UNCHANGED <<pc[v], pair[v]>>
      BY <2>1, <2>3
    <3>2. Between(v)' = Between(v)
      BY <3>1 DEF Between, Ends
    <3>3. Between(v) \subseteq WorkedOn'
      BY <3>2 DEF WorkedOn
    <3>4. InPeace(v)
      BY <2>3, <3>2, <3>3, DisturbedThen DEF InPeace
    <3>5. FoundOK(v)
      BY <1>0, <3>4 DEF PeaceOK
    <3>. QED  BY <2>1, <3>1, <3>5 DEF FoundOK, HalfDone, IsFriend, PendingRequestExists
  <2>4. ASSUME NEW q \in Pair PROVE BothSides(q)
    <3>. SUFFICES ASSUME OneWay(q)', Ends(q) \notin disturbed'
                  PROVE  \E v \in Worker : HalfDone(v)' /\ pair'[v] = q
      OBVIOUS
    <3>1. OneWay(q) /\ Ends(q) \notin disturbed
      BY <1>1, <2>1 DEF OneWay, IsFriend
    <3>2. PICK v \in Worker : HalfDone(v) /\ pair[v] = q
      BY <1>0, <3>1 DEF PeaceOK
    <3>. QED  BY <2>1, <3>2 DEF HalfDone
  <2>. QED  BY <2>2, <2>3, <2>4 DEF PeaceOK
<1>4. ASSUME NEW w \in Worker, Step(w), \A q \in Calls : ~Call(w, q) PROVE PeaceOK'
  <2>. PICK p \in Pair : p = pair[w]
    BY <1>0, <1>4, StepsOfMethods
  <2>1. /\ \A v \in Worker \ {w} : UNCHANGED <<pc[v], pair[v]>>
        /\ \A q \in Pair : p \notin {q, Reverse(q)} => Untouched(q)
        /\ pair'[w] \in {p, NoPair}
    BY <1>0, <1>4, TouchesOwn, StepsOfMethods
  <2>2. Between(w) = {Ends(p)}
    BY <1>0, BetweenIs
  <2>3. ASSUME SelectFails(w) \/ WriteFails(w) PROVE Ends(p) \in Interrupted
    <3>1. pc'[w] # pc[w]
      BY <1>0, <1>4, <2>3, StepsOfMethods
    <3>2. faults' = faults + 1 /\ faults \in Nat
      BY <1>0, <2>3 DEF SelectFails, WriteFails, TypeOK
    <3>3. faults' # faults
      BY <3>2
    <3>. QED  BY <2>2, <3>1, <3>3 DEF Interrupted
  <2>4. ASSUME Ends(p) \notin disturbed, Ends(p) \notin Interrupted
        PROVE  /\ FoundOK(w)'
               /\ \A q \in {p, Reverse(p)} : OneWay(q)' => HalfDone(w)' /\ pair'[w] = q
    <3>1. InPeace(w) /\ FoundOK(w)
      BY <1>0, <2>2, <2>4 DEF InPeace, PeaceOK
    <3>2. ASSUME NEW q \in {p, Reverse(p)}, OneWay(q) PROVE HalfDone(w) /\ q = p
      <4>1. q \in Pair /\ Ends(q) = Ends(p)
        BY ReversePair, SameEnds
      <4>2. PICK v \in Worker : HalfDone(v) /\ pair[v] = q
        BY <1>0, <2>4, <3>2, <4>1 DEF PeaceOK
      <4>3. v = w
        BY <1>0, <3>1, <4>2, Alone
      <4>. QED  BY <4>2, <4>3
    <3>. QED  BY <1>0, <1>4, <2>3, <2>4, <3>1, <3>2, OwnKept
  <2>5. ASSUME NEW v \in Worker, InPeace(v)' PROVE FoundOK(v)'
    <3>1. CASE v = w /\ pair'[w] = NoPair
      <4>1. pc'[w] = "idle"
        BY <3>1 DEF CallsOK
      <4>. QED  BY <3>1, <4>1 DEF FoundOK, Asking, HalfDone
    <3>2. CASE v = w /\ pair'[w] = p
      <4>1. Between(w)' = {Ends(p)}
        BY <3>2, BetweenThen
      <4>2. Ends(p) \in WorkedOn' /\ Ends(p) \notin disturbed'
        BY <2>5, <3>2, <4>1 DEF WorkedOn, InPeace
      <4>. QED  BY <2>4, <3>2, <4>2, DisturbedThen
    <3>3. CASE v # w
      <4>1. UNCHANGED <<pc[v], pair[v]>>
        BY <2>1, <3>3
      <4>2. Between(v)' = Between(v)
        BY <4>1 DEF Between, Ends
      <4>3. Between(v) \subseteq WorkedOn'
        BY <4>2 DEF WorkedOn
      <4>4. InPeace(v)
        BY <2>5, <4>2, <4>3, DisturbedThen DEF InPeace
      <4>5. FoundOK(v)
        BY <1>0, <4>4 DEF PeaceOK
      <4>6. pair[v] \in Pair => pair[w] \notin {pair[v], Reverse(pair[v])}
        BY <1>0, <3>3, <4>4, Alone
      <4>. QED  BY <1>0, <1>4, <3>3, <4>5, <4>6, OthersKept
    <3>. QED  BY <2>1, <3>1, <3>2, <3>3
  <2>6. ASSUME NEW q \in Pair PROVE BothSides(q)
    <3>. SUFFICES ASSUME OneWay(q)', Ends(q) \notin disturbed'
                  PROVE  \E v \in Worker : HalfDone(v)' /\ pair'[v] = q
      OBVIOUS
    <3>1. Ends(q) \notin disturbed \cup Interrupted
      BY <1>1
    <3>2. CASE p \in {q, Reverse(q)}
      <4>1. q \in {p, Reverse(p)} /\ Ends(q) = Ends(p)
        BY <3>2, ReversePair, SameEnds
      <4>. QED  BY <2>4, <3>1, <4>1
    <3>3. CASE p \notin {q, Reverse(q)}
      <4>1. OneWay(q)
        BY <2>1, <3>3 DEF Untouched, OneWay, IsFriend
      <4>2. PICK v \in Worker : HalfDone(v) /\ pair[v] = q
        BY <1>0, <3>1, <4>1 DEF PeaceOK
      <4>3. v # w
        BY <3>3, <4>2
      <4>. QED  BY <2>1, <4>2, <4>3 DEF HalfDone
    <3>. QED  BY <3>2, <3>3
  <2>. QED  BY <2>5, <2>6 DEF PeaceOK
<1>. QED  BY <1>2, <1>3, <1>4 DEF TrackedNext, Next, Step

LEMMA TrackedKept == TrackedInv /\ [TrackedNext]_trackedVars => TrackedInv'
<1>. SUFFICES ASSUME TrackedInv, [TrackedNext]_trackedVars PROVE TrackedInv'
  OBVIOUS
<1>1. CASE TrackedNext
  <2>1. TypeOK' /\ CallsOK'
    BY <1>1, TypingKept DEF TrackedInv, TrackedNext
  <2>. QED  BY <1>1, <2>1, PeaceKept, DisturbedThen DEF TrackedInv
<1>2. CASE UNCHANGED trackedVars
  <2>1. TypeOK' /\ CallsOK'
    BY <1>2, TypingKept DEF trackedVars, TrackedInv
  <2>2. Meeting' = Meeting /\ WorkedOn' = WorkedOn /\ Lopsided' = Lopsided
    BY <1>2 DEF trackedVars, friendVars, Meeting, WorkedOn, Between, Lopsided, IsFriend
  <2>3. PeaceOK'
    BY <1>2 DEF trackedVars, friendVars, TrackedInv, PeaceOK, InPeace, Between, FoundOK, OneWay,
       IsFriend, HalfDone, PendingRequestExists
  <2>. QED  BY <1>2, <2>1, <2>2, <2>3 DEF trackedVars, TrackedInv
<1>. QED  BY <1>1, <1>2

LEMMA TrackedInitially == TrackedInit => TrackedInv
<1>. SUFFICES ASSUME TrackedInit PROVE TrackedInv
  OBVIOUS
<1>1. TypeOK /\ CallsOK
  BY Initially DEF TrackedInit, Inv
<1>2. WorkedOn = {}
  BY DEF TrackedInit, Init, WorkedOn, Between
<1>3. PeaceOK
  BY DEF TrackedInit, Init, PeaceOK, OneWay, IsFriend, FoundOK, Asking, HalfDone
<1>. QED  BY <1>1, <1>2, <1>3 DEF TrackedInit, TrackedInv, Meeting

\* What is proved of Spec holds with the history beside it.
LEMMA TrackedIsSpec == TrackedSpec => Spec
<1>1. TrackedInit => Init
  BY DEF TrackedInit
<1>2. [TrackedNext]_trackedVars => [Next]_friendVars
  BY DEF TrackedNext, trackedVars
<1>. QED  BY <1>1, <1>2, PTL DEF TrackedSpec, Spec

\* The inductive invariant of the history and of what methods know.
THEOREM TrackedInvariance == TrackedSpec => []TrackedInv
BY TrackedInitially, TrackedKept, PTL DEF TrackedSpec

-----------------------------------------------------------------------------
(* The steps as steps of the book.                                         *)

FriendOf(p) ==
  BothWays(p) \/ \E w \in Worker : Befriending(w) /\ pair[w] \in {p, Reverse(p)}

MethodOf(step) ==
  CASE step = "idle"   -> "nothing"
    [] step = "accept" -> "AcceptRequest"
    [] step \in {"find1", "update1", "insert1", "find2", "update2", "insert2"} -> "Befriended"
    [] step = "reject" -> "RejectRequest"
    [] step = "remove" -> "DeleteFriend"
    [] OTHER           -> "SendRequest"

LEMMA DoingIs == Doing = [w \in Worker |-> MethodOf(pc[w])]
BY DEF Doing, MethodOf, Befriending, Accepting

LEMMA FriendshipsAre ==
  ASSUME TypeOK, CallsOK
  PROVE  /\ Friendships \subseteq {Ends(q) : q \in Pair}
         /\ \A q \in Pair : Ends(q) \in Friendships <=> FriendOf(q)
<1>1. \A w \in Worker : Befriending(w) => pair[w] \in Pair
  BY DEF Befriending, Accepting, TypeOK, CallsOK
<1>2. Friendships \subseteq {Ends(q) : q \in Pair}
  BY <1>1 DEF Friendships
<1>3. ASSUME NEW q \in Pair PROVE Ends(q) \in Friendships <=> FriendOf(q)
  <2>1. BothWays(q) <=> \E r \in Pair : BothWays(r) /\ Ends(r) = Ends(q)
    <3>1. ASSUME NEW r \in Pair, BothWays(r), Ends(r) = Ends(q) PROVE BothWays(q)
      BY <3>1, SameEnds, ReversePair DEF BothWays
    <3>. QED  BY <3>1
  <2>2. \A w \in Worker : Befriending(w) =>
          (Ends(pair[w]) = Ends(q) <=> pair[w] \in {q, Reverse(q)})
    BY <1>1, SameEnds
  <2>. QED  BY <2>1, <2>2 DEF Friendships, FriendOf
<1>. QED  BY <1>2, <1>3

\* The same after a step.
FriendshipsOK ==
  /\ Friendships \subseteq {Ends(q) : q \in Pair}
  /\ \A q \in Pair : Ends(q) \in Friendships <=> FriendOf(q)

LEMMA FriendshipsNow == TypeOK /\ CallsOK => FriendshipsOK
BY FriendshipsAre DEF FriendshipsOK

LEMMA FriendshipsThen == TypeOK' /\ CallsOK' => FriendshipsOK'
BY FriendshipsNow, PTL

\* A method makes or breaks no friendship but that of its own two users.
LEMMA FriendshipsStep ==
  ASSUME TypeOK, CallsOK, TypeOK', CallsOK',
         NEW w \in Worker, Step(w), NEW p \in Pair, p = pair[w]
  PROVE  /\ (FriendOf(p)' <=> FriendOf(p)) => Friendships' = Friendships
         /\ FriendOf(p)' => Friendships' = Friendships \cup {Ends(p)}
         /\ ~FriendOf(p)' => Friendships' = Friendships \ {Ends(p)}
         /\ Friendships' \ {Ends(p)} = Friendships \ {Ends(p)}
<1>1. FriendshipsOK /\ FriendshipsOK'
  BY FriendshipsNow, FriendshipsThen
<1>2. /\ \A v \in Worker \ {w} : UNCHANGED <<pc[v], pair[v]>>
      /\ \A q \in Pair : q \notin {p, Reverse(p)} => Untouched(q)
  <2>1. \A q \in Pair : q \notin {p, Reverse(p)} => p \notin {q, Reverse(q)}
    BY ReversePair
  <2>. QED  BY <2>1, TouchesOwn
<1>3. pair'[w] \in {p, NoPair} /\ NoPair \notin Pair
  <2>1. \A q \in Calls : ~Call(w, q)
    BY FriendAssumption DEF Call, CallsOK
  <2>. QED  BY <2>1, StepsOfMethods, FriendAssumption
<1>4. ASSUME NEW q \in Pair, q \notin {p, Reverse(p)} PROVE FriendOf(q)' <=> FriendOf(q)
  <2>1. BothWays(q)' <=> BothWays(q)
    BY <1>2, <1>4 DEF Untouched, BothWays, IsFriend
  <2>2. pair[w] \notin {q, Reverse(q)} /\ pair'[w] \notin {q, Reverse(q)}
    BY <1>3, <1>4, ReversePair
  <2>3. ASSUME NEW v \in Worker
        PROVE  (Befriending(v) /\ pair[v] \in {q, Reverse(q)})'
                  <=> Befriending(v) /\ pair[v] \in {q, Reverse(q)}
    BY <1>2, <2>2 DEF Befriending
  <2>. QED  BY <2>1, <2>3 DEF FriendOf
<1>5. \A q \in Pair : Ends(q) # Ends(p) => (Ends(q) \in Friendships' <=> Ends(q) \in Friendships)
  BY <1>1, <1>4, SameEnds DEF FriendshipsOK
<1>6. /\ Ends(p) \in Friendships <=> FriendOf(p)
      /\ Ends(p) \in Friendships' <=> FriendOf(p)'
  BY <1>1 DEF FriendshipsOK
<1>. QED  BY <1>1, <1>5, <1>6 DEF FriendshipsOK

LEMMA MayAskIs ==
  ASSUME TypeOK, CallsOK, NEW p \in Pair
  PROVE  BookOf!MayAsk(p) <=>
           p[2] \in Registered /\ ~FriendOf(p) /\ ~PendingRequestExists(p)
<1>1. Ends(p) \in Friendships <=> FriendOf(p)
  BY FriendshipsAre
<1>2. {p, Reverse(p)} \cap Waiting = {} <=> ~PendingRequestExists(p)
  BY ReversePair DEF Waiting, PendingRequestExists
<1>. QED  BY <1>1, <1>2 DEF BookOf!MayAsk, BookOf!Ends, BookOf!Reverse, Ends, Reverse

\* No other worker befriends two users who are left in peace.
LEMMA FriendOfOwn ==
  ASSUME TrackedInv, NEW w \in Worker, NEW p \in Pair, p = pair[w], InPeace(w)
  PROVE  /\ FriendOf(p) <=> BothWays(p) \/ Befriending(w)
         /\ ~Befriending(w) => (FriendOf(p) <=> IsFriend(p))
<1>1. ASSUME NEW v \in Worker, pair[v] \in {p, Reverse(p)} PROVE v = w
  BY <1>1, Alone DEF TrackedInv
<1>2. FriendOf(p) <=> BothWays(p) \/ Befriending(w)
  BY <1>1 DEF FriendOf
<1>3. ~Befriending(w) => (IsFriend(p) => IsFriend(Reverse(p)))
  <2>1. Ends(p) \notin disturbed
    BY BetweenIs DEF TrackedInv, InPeace
  <2>. QED  BY <1>1, <2>1 DEF TrackedInv, PeaceOK, OneWay, HalfDone, Befriending, Accepting
<1>. QED  BY <1>2, <1>3 DEF BothWays

\* What a method does between users who are left in peace.
MethodStep ==
  \/ \E w \in Worker : BookOf!Method(w)
  \/ UNCHANGED <<Friendships, Waiting, Doing, pair>>

\* What a statement shows of the worker that ran it.
LEMMA WorkerMap ==
  ASSUME TypeOK, NEW w \in Worker, NEW step, Goto(w, step)
  PROVE  /\ Doing[w] = MethodOf(pc[w])
         /\ InPeace(w) => BookOf!Begun(w, MethodOf(pc[w]))
         /\ Doing' = [Doing EXCEPT ![w] = MethodOf(step)]
         /\ step # "idle" => UNCHANGED pair
         /\ step # "idle" /\ MethodOf(step) = MethodOf(pc[w]) => UNCHANGED <<Doing, pair>>
         /\ step = "idle" => BookOf!Return(w)
<1>1. Doing = [v \in Worker |-> MethodOf(pc[v])] /\ Doing' = [v \in Worker |-> MethodOf(pc'[v])]
  BY DEF Doing, MethodOf, Befriending, Accepting
<1>2. pc' = [pc EXCEPT ![w] = step]
      /\ pair' = IF step = "idle" THEN [pair EXCEPT ![w] = NoPair] ELSE pair
  BY DEF Goto
<1>3. Doing' = [Doing EXCEPT ![w] = MethodOf(step)]
  BY <1>1, <1>2 DEF TypeOK
<1>4. MethodOf("idle") = "nothing"
  BY DEF MethodOf
<1>5. MethodOf(step) = MethodOf(pc[w]) => Doing' = Doing
  BY <1>1, <1>3
<1>6. InPeace(w) => BookOf!Begun(w, MethodOf(pc[w]))
  BY <1>1 DEF InPeace, Between, Ends, BookOf!Begun, BookOf!Between, BookOf!Ends
<1>. QED  BY <1>1, <1>2, <1>3, <1>4, <1>5, <1>6 DEF BookOf!Return

LEMMA CallMap ==
  ASSUME TypeOK, CallsOK, TypeOK', CallsOK', NEW w \in Worker, NEW p \in Calls, Call(w, p),
         Ends(p) \notin WorkedOn \cup disturbed
  PROVE  MethodStep
<1>1. FriendshipsOK /\ FriendshipsOK'
  BY FriendshipsNow, FriendshipsThen
<1>2. PICK first \in {"user", "accept", "reject", "remove"} :
        (first = "user" => p[1] # p[2]) /\ pc' = [pc EXCEPT ![w] = first]
  BY DEF Call
<1>3. pc[w] = "idle" /\ UNCHANGED <<friends, requests>> /\ pair' = [pair EXCEPT ![w] = p]
  BY DEF Call
<1>4. ASSUME NEW q \in Pair PROVE FriendOf(q)' <=> FriendOf(q)
  <2>1. BothWays(q)' <=> BothWays(q)
    BY <1>3 DEF BothWays, IsFriend
  <2>2. \A v \in Worker : /\ Befriending(v)' <=> Befriending(v)
                          /\ Befriending(v) => pair'[v] = pair[v]
    BY <1>1, <1>2, <1>3 DEF Befriending, Accepting, TypeOK
  <2>. QED  BY <2>1, <2>2 DEF FriendOf
<1>5. Friendships' = Friendships
  BY <1>1, <1>4 DEF FriendshipsOK
<1>6. Waiting' = Waiting
  BY <1>3 DEF Waiting
<1>7. Doing[w] = "nothing" /\ MethodOf(first) \in BookOf!Methods
      /\ Doing' = [Doing EXCEPT ![w] = MethodOf(first)]
  <2>1. Doing = [v \in Worker |-> MethodOf(pc[v])] /\ Doing' = [v \in Worker |-> MethodOf(pc'[v])]
    BY DEF Doing, MethodOf, Befriending, Accepting
  <2>2. Doing' = [Doing EXCEPT ![w] = MethodOf(first)]
    BY <1>1, <1>2, <2>1 DEF TypeOK
  <2>3. MethodOf(first) \in BookOf!Methods /\ MethodOf("idle") = "nothing"
    BY DEF MethodOf, BookOf!Methods
  <2>. QED  BY <1>3, <2>1, <2>2, <2>3
<1>8. MethodOf(first) = "SendRequest" => first = "user"
  BY DEF MethodOf
<1>9. p \in BookOf!Pair /\ BookOf!Ends(p) \notin BookOf!WorkedOn \cup disturbed
  BY FriendAssumption
     DEF Pair, BookOf!Pair, BookOf!Ends, Ends, BookOf!WorkedOn, WorkedOn, BookOf!Between, Between
<1>10. BookOf!Call(w)
  BY <1>2, <1>3, <1>5, <1>6, <1>7, <1>8, <1>9 DEF BookOf!Call
<1>. QED  BY <1>10 DEF MethodStep, BookOf!Method

\* A statement that is no part of an accept and leaves the rows of friends.
LEMMA StatementFrame ==
  ASSUME TypeOK, CallsOK, TypeOK', CallsOK',
         NEW w \in Worker, Step(w), NEW p \in Pair, p = pair[w],
         ~Befriending(w), ~Befriending(w)', UNCHANGED friends
  PROVE  Friendships' = Friendships
<1>1. \A v \in Worker : /\ Befriending(v)' <=> Befriending(v)
                        /\ Befriending(v) => pair'[v] = pair[v]
  BY TouchesOwn DEF Befriending
<1>2. FriendOf(p)' <=> FriendOf(p)
  BY <1>1 DEF FriendOf, BothWays, IsFriend
<1>. QED  BY <1>2, FriendshipsStep

\* A SELECT decides nothing but whether SendRequest refuses.
LEMMA SelectMap ==
  ASSUME TrackedInv, TypeOK', CallsOK', NEW w \in Worker, InPeace(w), Select(w)
  PROVE  MethodStep
<1>. PICK p : p = pair[w]
  OBVIOUS
<1>0. TypeOK /\ CallsOK /\ FoundOK(w) /\ Step(w)
  BY DEF TrackedInv, PeaceOK, Step
<1>1. p \in Pair /\ pc[w] \in Selects
  BY <1>0 DEF Select, Selects, TypeOK, CallsOK
<1>. DEFINE next == IF Exists(pc[w], p) THEN IfFound[pc[w]] ELSE IfMissing[pc[w]]
<1>2. Goto(w, next) /\ UNCHANGED <<friends, requests>>
  BY DEF Select
<1>3. Waiting' = Waiting
  BY <1>2 DEF Waiting
<1>4. pc'[w] = next /\ (next # "idle" => pair'[w] = p)
  BY <1>0, <1>2 DEF Goto, TypeOK
<1>5. CASE next # "idle"
  <2>1. MethodOf(next) = MethodOf(pc[w])
    <3>1. next \in {IfFound[pc[w]], IfMissing[pc[w]]}
      OBVIOUS
    <3>. QED  BY <1>1, <1>5, <3>1 DEF Selects, IfFound, IfMissing, MethodOf
  <2>2. UNCHANGED <<Doing, pair>>
    BY <1>0, <1>2, <1>5, <2>1, WorkerMap
  <2>3. Befriending(w)' <=> Befriending(w)
    <3>1. next \in {IfFound[pc[w]], IfMissing[pc[w]]}
      OBVIOUS
    <3>. QED  BY <1>1, <1>4, <1>5, <3>1 DEF Selects, IfFound, IfMissing, Befriending, Accepting
  <2>4. FriendOf(p)' <=> FriendOf(p)
    <3>1. \A v \in Worker : Befriending(v)' <=> Befriending(v)
      BY <1>0, <2>3, TouchesOwn DEF Befriending
    <3>. QED  BY <1>2, <2>2, <3>1 DEF FriendOf, BothWays, IsFriend
  <2>5. Friendships' = Friendships
    BY <1>0, <1>1, <2>4, FriendshipsStep
  <2>. QED  BY <1>3, <2>2, <2>5 DEF MethodStep
<1>6. CASE next = "idle"
  <2>1. \/ pc[w] = "user" /\ ~(p[2] \in Registered)
        \/ pc[w] = "friend" /\ IsFriend(p)
        \/ pc[w] = "pending" /\ PendingRequestExists(p)
    <3>1. \/ pc[w] = "user" /\ ~Exists(pc[w], p)
          \/ pc[w] \in {"friend", "pending"} /\ Exists(pc[w], p)
      BY <1>1, <1>6 DEF Selects, IfFound, IfMissing
    <3>. QED  BY <3>1 DEF Exists
  <2>2. MethodOf(pc[w]) = "SendRequest" /\ ~Befriending(w) /\ ~Befriending(w)'
    BY <1>4, <1>6, <2>1 DEF MethodOf, Befriending, Accepting
  <2>3. FriendOf(p) <=> IsFriend(p)
    BY <1>1, <2>2, FriendOfOwn
  <2>4. ~BookOf!MayAsk(p)
    BY <1>0, <1>1, <2>1, <2>3, MayAskIs
  <2>6. Friendships' = Friendships
    BY <1>0, <1>1, <1>2, <2>2, StatementFrame
  <2>7. BookOf!Return(w) /\ BookOf!Begun(w, "SendRequest")
    BY <1>0, <1>2, <1>6, <2>2, WorkerMap
  <2>8. BookOf!Refuse(w)
    BY <1>3, <2>4, <2>6, <2>7 DEF BookOf!Refuse
  <2>. QED  BY <2>8 DEF MethodStep, BookOf!Method
<1>. QED  BY <1>5, <1>6

LEMMA MarkMap ==
  ASSUME TypeOK, NEW p \in Pair, NEW status \in {"accepted", "rejected"}, Mark(p, status)
  PROVE  Waiting' = Waiting \ {p}
<1>1. \A q \in Pair : requests'[q] = IF q = p THEN [NoRows EXCEPT ![status] = Total(p)]
                                              ELSE requests[q]
  BY DEF Mark, TypeOK
<1>2. [NoRows EXCEPT ![status] = Total(p)]["pending"] = 0
  BY DEF NoRows, Status
<1>3. ASSUME NEW q \in Pair
      PROVE  requests'[q]["pending"] > 0 <=> q # p /\ requests[q]["pending"] > 0
  <2>1. CASE q = p
    <3>1. requests'[q]["pending"] = 0
      BY <1>1, <1>2, <2>1
    <3>. QED  BY <2>1, <3>1
  <2>2. CASE q # p
    BY <1>1, <2>2
  <2>. QED  BY <2>1, <2>2
<1>. QED  BY <1>3 DEF Waiting

LEMMA RequestsMap ==
  ASSUME TrackedInv, TypeOK', CallsOK', NEW w \in Worker, InPeace(w),
         DeleteHistory(w) \/ InsertRequest(w) \/ RejectRequest(w)
  PROVE  MethodStep
<1>. PICK p : p = pair[w]
  OBVIOUS
<1>0. TypeOK /\ CallsOK /\ FoundOK(w) /\ Step(w)
  BY DEF TrackedInv, PeaceOK, Step
<1>1. p \in Pair /\ Reverse(p) \in Pair /\ pc[w] \in {"delete", "insert", "reject"}
  BY <1>0, ReversePair DEF DeleteHistory, InsertRequest, RejectRequest, TypeOK, CallsOK
<1>2. Friendships' = Friendships
  <2>1. ~Befriending(w) /\ ~Befriending(w)' /\ UNCHANGED friends
    BY <1>0 DEF DeleteHistory, InsertRequest, RejectRequest, Goto, Befriending, Accepting, TypeOK
  <2>. QED  BY <1>0, <1>1, <2>1, StatementFrame
<1>3. CASE DeleteHistory(w)
  <2>1. pc[w] = "delete" /\ Goto(w, "insert")
    BY <1>3 DEF DeleteHistory
  <2>2. UNCHANGED <<Doing, pair>>
    <3>1. MethodOf("insert") = MethodOf("delete")
      BY DEF MethodOf
    <3>. QED  BY <1>0, <2>1, <3>1, WorkerMap
  <2>3. ~PendingRequestExists(p)
    BY <1>0, <2>1 DEF FoundOK
  <2>4. requests[p]["pending"] \in Nat /\ requests[Reverse(p)]["pending"] \in Nat
    BY <1>0, <1>1 DEF TypeOK, Status
  <2>5. \A q \in Pair : requests'[q]["pending"] > 0 <=> requests[q]["pending"] > 0
    BY <1>1, <1>3, <2>3, <2>4
       DEF DeleteHistory, History, NoRows, Status, PendingRequestExists
  <2>6. Waiting' = Waiting
    BY <2>5 DEF Waiting
  <2>. QED  BY <1>2, <2>2, <2>6 DEF MethodStep
<1>4. CASE InsertRequest(w)
  <2>1. /\ pc[w] = "insert" /\ Goto(w, "idle")
        /\ requests' = [requests EXCEPT ![p]["pending"] = @ + 1]
    BY <1>4 DEF InsertRequest
  <2>2. BookOf!Return(w) /\ BookOf!Begun(w, "SendRequest")
    <3>1. MethodOf("insert") = "SendRequest"
      BY DEF MethodOf
    <3>. QED  BY <1>0, <2>1, <3>1, WorkerMap
  <2>3. BookOf!MayAsk(p)
    <3>1. p[2] \in Registered /\ ~IsFriend(p) /\ ~PendingRequestExists(p) /\ ~Befriending(w)
      BY <1>0, <2>1 DEF FoundOK, Asking, Befriending, Accepting
    <3>. QED  BY <1>0, <1>1, <3>1, MayAskIs, FriendOfOwn
  <2>4. Waiting' = Waiting \cup {p}
    <3>1. \A q \in Pair : requests[q]["pending"] \in Nat
      BY <1>0 DEF TypeOK, Status
    <3>2. \A q \in Pair :
            requests'[q]["pending"] = IF q = p THEN requests[q]["pending"] + 1
                                               ELSE requests[q]["pending"]
      BY <1>0, <1>1, <2>1 DEF TypeOK, Status
    <3>3. \A q \in Pair : requests'[q]["pending"] > 0 <=> requests[q]["pending"] > 0 \/ q = p
      BY <3>1, <3>2
    <3>. QED  BY <1>1, <3>3 DEF Waiting
  <2>5. BookOf!Ask(w)
    BY <1>2, <2>2, <2>3, <2>4 DEF BookOf!Ask
  <2>. QED  BY <2>5 DEF MethodStep, BookOf!Method
<1>5. CASE RejectRequest(w)
  <2>1. pc[w] = "reject" /\ Goto(w, "idle") /\ Mark(p, "rejected")
    BY <1>5 DEF RejectRequest
  <2>2. BookOf!Return(w) /\ BookOf!Begun(w, "RejectRequest")
    <3>1. MethodOf("reject") = "RejectRequest"
      BY DEF MethodOf
    <3>. QED  BY <1>0, <2>1, <3>1, WorkerMap
  <2>3. Waiting' = Waiting \ {p}
    BY <1>0, <1>1, <2>1, MarkMap
  <2>4. BookOf!Reject(w)
    BY <1>2, <2>2, <2>3 DEF BookOf!Reject
  <2>. QED  BY <2>4 DEF MethodStep, BookOf!Method
<1>. QED  BY <1>3, <1>4, <1>5

LEMMA AcceptMap ==
  ASSUME TrackedInv, TypeOK', CallsOK', NEW w \in Worker, InPeace(w),
         AcceptRequest(w) \/ WriteFirst(w) \/ WriteSecond(w)
  PROVE  MethodStep
<1>. PICK p : p = pair[w]
  OBVIOUS
<1>0. TypeOK /\ CallsOK /\ FoundOK(w) /\ Step(w)
  BY DEF TrackedInv, PeaceOK, Step
<1>1. CASE AcceptRequest(w)
  <2>1. pc[w] = "accept" /\ Goto(w, "find1") /\ Mark(p, "accepted") /\ UNCHANGED friends
    BY <1>1 DEF AcceptRequest
  <2>2. p \in Pair /\ pc'[w] = "find1" /\ pair'[w] = p
    BY <1>0, <2>1 DEF Goto, TypeOK, CallsOK
  <2>3. /\ BookOf!Begun(w, "AcceptRequest") /\ Doing' = [Doing EXCEPT ![w] = "Befriended"]
        /\ UNCHANGED pair
    <3>1. MethodOf("accept") = "AcceptRequest" /\ MethodOf("find1") = "Befriended"
      BY DEF MethodOf
    <3>. QED  BY <1>0, <2>1, <3>1, WorkerMap
  <2>4. Waiting' = Waiting \ {p}
    BY <1>0, <2>1, <2>2, MarkMap
  <2>5. Friendships' = Friendships \cup {Ends(p)}
    <3>1. FriendOf(p)'
      BY <2>2 DEF FriendOf, Befriending, Accepting
    <3>. QED  BY <1>0, <2>2, <3>1, FriendshipsStep
  <2>6. BookOf!Befriend(w)
    BY <2>3, <2>4, <2>5 DEF BookOf!Befriend, BookOf!Ends, Ends
  <2>. QED  BY <2>6 DEF MethodStep, BookOf!Method
<1>2. CASE WriteFirst(w) \/ WriteSecond(w)
  <2>1. /\ p \in Pair /\ Reverse(p) \in Pair /\ requests' = requests
        /\ \/ /\ pc[w] \in {"update1", "insert1"} /\ pc'[w] = "find2" /\ pair'[w] = p
              /\ friends' = [friends EXCEPT ![p] = "active"]
           \/ /\ HalfDone(w) /\ pc'[w] = "idle" /\ friends[p] = "active"
              /\ friends' = [friends EXCEPT ![Reverse(p)] = "active"]
    BY <1>0, <1>2, WritesSucceed
  <2>2. Waiting' = Waiting
    BY <2>1 DEF Waiting
  <2>3. Befriending(w) /\ MethodOf(pc[w]) = "Befriended"
    BY <2>1 DEF Befriending, Accepting, HalfDone, MethodOf
  <2>4. FriendOf(p)
    BY <2>1, <2>3 DEF FriendOf
  <2>5. FriendOf(p)'
    <3>1. CASE pc'[w] = "find2" /\ pair'[w] = p
      BY <3>1 DEF FriendOf, Befriending, Accepting
    <3>2. CASE friends[p] = "active" /\ friends' = [friends EXCEPT ![Reverse(p)] = "active"]
      <4>1. friends'[p] = "active" /\ friends'[Reverse(p)] = "active"
        BY <1>0, <2>1, <3>2, ReversePair DEF TypeOK
      <4>. QED  BY <4>1 DEF FriendOf, BothWays, IsFriend
    <3>. QED  BY <2>1, <3>1, <3>2
  <2>6. Friendships' = Friendships
    BY <1>0, <2>1, <2>4, <2>5, FriendshipsStep
  <2>7. PICK next : Goto(w, next)
    BY <1>2 DEF WriteFirst, WriteSecond, WriteRow
  <2>8. pc'[w] = next
    BY <1>0, <2>7 DEF Goto, TypeOK
  <2>9. CASE next = "find2"
    <3>1. MethodOf("find2") = "Befriended"
      BY DEF MethodOf
    <3>2. UNCHANGED <<Doing, pair>>
      BY <1>0, <2>3, <2>7, <2>9, <3>1, WorkerMap
    <3>. QED  BY <2>2, <2>6, <3>2 DEF MethodStep
  <2>10. CASE next = "idle"
    <3>1. BookOf!Return(w) /\ BookOf!Begun(w, "Befriended")
      BY <1>0, <2>3, <2>7, <2>10, WorkerMap
    <3>2. BookOf!Befriended(w)
      BY <2>2, <2>6, <3>1 DEF BookOf!Befriended
    <3>. QED  BY <3>2 DEF MethodStep, BookOf!Method
  <2>. QED  BY <2>1, <2>8, <2>9, <2>10
<1>. QED  BY <1>1, <1>2

LEMMA PartMap ==
  ASSUME TrackedInv, TypeOK', CallsOK', NEW w \in Worker, InPeace(w), DeleteFriend(w)
  PROVE  MethodStep
<1>. PICK p : p = pair[w]
  OBVIOUS
<1>0. TypeOK /\ CallsOK /\ Step(w)
  BY DEF TrackedInv, Step
<1>1. /\ p \in Pair /\ pc[w] = "remove" /\ pc'[w] = "idle" /\ Goto(w, "idle")
      /\ requests' = requests
  BY <1>0 DEF DeleteFriend, Goto, TypeOK, CallsOK
<1>2. Waiting' = Waiting
  BY <1>1 DEF Waiting
<1>3. BookOf!Return(w) /\ BookOf!Begun(w, "DeleteFriend")
  <2>1. MethodOf("remove") = "DeleteFriend"
    BY DEF MethodOf
  <2>. QED  BY <1>0, <1>1, <2>1, WorkerMap
<1>4. ~FriendOf(p)'
  <2>1. ~BothWays(p)'
    BY <1>1 DEF DeleteFriend, Rows, BothWays, IsFriend
  <2>2. ASSUME NEW v \in Worker, v # w PROVE pair[v] \notin {p, Reverse(p)}
    BY <1>1, <2>2, Alone DEF TrackedInv
  <2>3. ASSUME NEW v \in Worker PROVE ~(Befriending(v)' /\ pair'[v] \in {p, Reverse(p)})
    <3>1. CASE v = w
      BY <1>1, <3>1 DEF Befriending, Accepting
    <3>2. CASE v # w
      BY <1>0, <2>2, <3>2, TouchesOwn
    <3>. QED  BY <3>1, <3>2
  <2>. QED  BY <2>1, <2>3 DEF FriendOf
<1>5. Friendships' = Friendships \ {Ends(p)}
  BY <1>0, <1>1, <1>4, FriendshipsStep
<1>6. BookOf!Part(w)
  BY <1>2, <1>3, <1>5 DEF BookOf!Part, BookOf!Ends, Ends
<1>. QED  BY <1>6 DEF MethodStep, BookOf!Method

-----------------------------------------------------------------------------
(* Trouble stays where it is.                                              *)

\* What is between other users than those of a step.
LEMMA Elsewhere ==
  ASSUME TrackedInv, TrackedNext, TypeOK', CallsOK', NEW w \in Worker, Step(w), NEW e,
         Between(w) \subseteq {e}, Between(w)' \subseteq {e}
  PROVE  disturbed' \ {e} = disturbed \ {e}
<1>0. TypeOK /\ CallsOK /\ Meeting \subseteq disturbed /\ disturbed \subseteq WorkedOn \cup Lopsided
  BY DEF TrackedInv
<1>1. /\ \A v \in Worker \ {w} : UNCHANGED <<pc[v], pair[v]>>
      /\ \A p \in Pair : pair[w] \notin {p, Reverse(p)} => Untouched(p)
  BY <1>0, TouchesOwn
<1>2. \A v \in Worker \ {w} : Between(v)' = Between(v)
  BY <1>1 DEF Between, Ends
<1>. SUFFICES ASSUME NEW f, f # e PROVE f \in disturbed' <=> f \in disturbed
  OBVIOUS
<1>3. \A v \in Worker : f \in Between(v)' <=> f \in Between(v)
  BY <1>2
<1>4. f \in WorkedOn' <=> f \in WorkedOn
  BY <1>3 DEF WorkedOn
<1>5. f \in Meeting' <=> f \in Meeting
  BY <1>3, <1>4 DEF Meeting
<1>6. f \in Lopsided' <=> f \in Lopsided
  <2>1. ASSUME NEW q \in Pair, Ends(q) = f PROVE OneWay(q)' <=> OneWay(q)
    <3>1. pair[w] \notin {q, Reverse(q)}
      <4>1. ASSUME pair[w] \in {q, Reverse(q)} PROVE FALSE
        <5>1. pair[w] \in Pair /\ Ends(pair[w]) = f
          BY <2>1, <4>1, ReversePair, SameEnds
        <5>. QED  BY <1>0, <5>1, BetweenIs
      <4>. QED  BY <4>1
    <3>. QED  BY <1>1, <3>1 DEF Untouched, OneWay, IsFriend
  <2>. QED  BY <2>1 DEF Lopsided, OneWay, IsFriend, Ends, Reverse
<1>7. f \notin Interrupted
  BY <1>1 DEF Interrupted
<1>. QED  BY <1>0, <1>4, <1>5, <1>6, <1>7 DEF TrackedNext

\* A failing statement interrupts its method.
LEMMA InterruptedBy ==
  ASSUME TypeOK, CallsOK, NEW w \in Worker, SelectFails(w) \/ WriteFails(w)
  PROVE  pair[w] \in Pair /\ Ends(pair[w]) \in Interrupted /\ faults' = faults + 1
         /\ crashes' = crashes
<1>1. Step(w) /\ \A q \in Calls : ~Call(w, q)
  BY DEF Step, SelectFails, WriteFails, Selects, Writes, Call
<1>2. pair[w] \in Pair /\ pc'[w] # pc[w]
  BY <1>1, StepsOfMethods
<1>3. faults' = faults + 1 /\ crashes' = crashes
  BY DEF SelectFails, WriteFails
<1>4. faults' # faults
  BY <1>3 DEF TypeOK
<1>5. Between(w) = {Ends(pair[w])}
  BY <1>2, BetweenIs
<1>. QED  BY <1>2, <1>3, <1>4, <1>5 DEF Interrupted

\* A step between these two users is trouble between them, or as promised.
LEMMA TroubleMap ==
  ASSUME TrackedInv, TrackedNext, TypeOK', CallsOK', NEW w \in Worker, Step(w),
         NEW p \in Pair, pair[w] = p \/ (p \in Calls /\ Call(w, p)),
         Ends(p) \in disturbed \cup Meeting' \cup Interrupted
  PROVE  BookOf!Trouble({Ends(p)})
<1>. PICK e : e = Ends(p)
  OBVIOUS
<1>0. TypeOK /\ CallsOK
  BY DEF TrackedInv
<1>1. /\ \A v \in Worker \ {w} : UNCHANGED <<pc[v], pair[v]>>
      /\ \A q \in Pair : pair[w] \notin {q, Reverse(q)} => Untouched(q)
  BY <1>0, TouchesOwn
<1>2. Between(w) \subseteq {e} /\ Between(w)' \subseteq {e} /\ e \in Between(w) \cup Between(w)'
      /\ Friendships' \ {e} = Friendships \ {e}
  <2>1. CASE p \in Calls /\ Call(w, p)
    <3>1. pair[w] = NoPair /\ pair'[w] = p /\ UNCHANGED friends
      BY <1>0, <2>1 DEF Call, TypeOK, CallsOK
    <3>2. \A v \in Worker : /\ Befriending(v)' <=> Befriending(v)
                            /\ Befriending(v) => pair'[v] = pair[v]
      BY <1>0, <1>1, <2>1 DEF Call, Befriending, Accepting, TypeOK
    <3>3. Friendships' = Friendships
      <4>1. \A q \in Pair : FriendOf(q)' <=> FriendOf(q)
        BY <3>1, <3>2 DEF FriendOf, BothWays, IsFriend
      <4>. QED  BY <1>0, <4>1, FriendshipsNow, FriendshipsThen DEF FriendshipsOK
    <3>4. Between(w) = {} /\ Between(w)' = {e}
      BY <1>0, <3>1, FriendAssumption, BetweenIs, BetweenThen
    <3>. QED  BY <3>3, <3>4
  <2>2. CASE pair[w] = p
    <3>1. \A q \in Calls : ~Call(w, q)
      BY <1>0, <2>2, FriendAssumption DEF Call, CallsOK
    <3>2. pair'[w] \in {p, NoPair}
      BY <1>0, <2>2, <3>1, StepsOfMethods
    <3>3. Between(w) = {e} /\ Between(w)' \subseteq {e}
      BY <1>0, <2>2, <3>2, FriendAssumption, BetweenIs, BetweenThen
    <3>4. Friendships' \ {e} = Friendships \ {e}
      BY <1>0, <2>2, FriendshipsStep
    <3>. QED  BY <3>3, <3>4
  <2>. QED  BY <2>1, <2>2
<1>3. disturbed' \ {e} = disturbed \ {e}
  BY <1>2, Elsewhere
<1>4. {e} \cap WorkedOn' \subseteq disturbed'
  BY DisturbedThen
<1>5. {q \in Waiting' : Ends(q) \notin {e}} = {q \in Waiting : Ends(q) \notin {e}}
  <2>1. ASSUME NEW q \in Pair, Ends(q) # e PROVE requests'[q] = requests[q]
    <3>1. pair[w] \notin {q, Reverse(q)}
      <4>1. ASSUME pair[w] \in {q, Reverse(q)} PROVE FALSE
        <5>1. pair[w] \in Pair /\ Ends(pair[w]) # e
          BY <2>1, <4>1, ReversePair, SameEnds
        <5>. QED  BY <1>0, <1>2, <5>1, BetweenIs
      <4>. QED  BY <4>1
    <3>. QED  BY <1>1, <3>1 DEF Untouched
  <2>. QED  BY <2>1 DEF Waiting
<1>6. ASSUME NEW v \in Worker, {e} \cap (Between(v) \cup Between(v)') = {}
      PROVE  UNCHANGED <<Doing[v], pair[v]>>
  <2>1. v # w
    BY <1>2, <1>6
  <2>2. UNCHANGED <<pc[v], pair[v]>>
    BY <1>1, <2>1
  <2>. QED  BY <2>2, DoingIs DEF Doing, Befriending, Accepting
<1>7. /\ BookOf!WorkedOn' = WorkedOn'
      /\ \A v \in Worker : BookOf!Between(v) = Between(v) /\ BookOf!Between(v)' = Between(v)'
      /\ \A q : BookOf!Ends(q) = Ends(q)
  BY DEF BookOf!WorkedOn, WorkedOn, BookOf!Between, Between, BookOf!Ends, Ends
<1>. QED  BY <1>2, <1>3, <1>4, <1>5, <1>6, <1>7 DEF BookOf!Trouble

LEMMA OrderlyMap ==
  ASSUME TrackedInv, TrackedNext, TypeOK', CallsOK', NEW w \in Worker, Step(w),
         ~SelectFails(w), ~WriteFails(w), NEW p \in Pair,
         pair[w] = p \/ (p \in Calls /\ Call(w, p)),
         Ends(p) \notin disturbed \cup Meeting'
  PROVE  MethodStep /\ UNCHANGED <<disturbed, faults, crashes>>
<1>0. TypeOK /\ CallsOK
  BY DEF TrackedInv
<1>1. CASE p \in Calls /\ Call(w, p)
  <2>1. /\ pair[w] = NoPair /\ pair'[w] = p /\ UNCHANGED <<faults, crashes>>
        /\ \A v \in Worker \ {w} : UNCHANGED pair[v]
    BY <1>0, <1>1 DEF Call, TypeOK, CallsOK
  <2>2. Between(w) = {} /\ Between(w)' = {Ends(p)}
    BY <1>0, <2>1, FriendAssumption, BetweenIs, BetweenThen
  <2>3. Ends(p) \notin WorkedOn
    <3>1. ASSUME NEW v \in Worker, Ends(p) \in Between(v) PROVE FALSE
      <4>0. v # w
        BY <2>2, <3>1
      <4>1. Between(v)' = Between(v)
        BY <2>1, <4>0 DEF Between, Ends
      <4>2. Ends(p) \in Meeting'
        BY <2>2, <3>1, <4>0, <4>1 DEF Meeting, WorkedOn
      <4>. QED  BY <4>2
    <3>. QED  BY <3>1 DEF WorkedOn
  <2>4. MethodStep
    BY <1>0, <1>1, <2>3, CallMap
  <2>5. disturbed' \ {Ends(p)} = disturbed \ {Ends(p)}
    BY <2>2, Elsewhere
  <2>6. Ends(p) \notin Interrupted
    BY <2>1 DEF Interrupted
  <2>. QED  BY <2>1, <2>4, <2>5, <2>6, DisturbedThen
<1>2. CASE pair[w] = p
  <2>1. \A q \in Calls : ~Call(w, q)
    BY <1>0, <1>2, FriendAssumption DEF Call, CallsOK
  <2>2. pair'[w] \in {p, NoPair} /\ UNCHANGED <<faults, crashes>>
    BY <1>0, <1>2, <2>1, StepsOfMethods
  <2>3. Between(w) = {Ends(p)} /\ Between(w)' \subseteq {Ends(p)} /\ InPeace(w)
    BY <1>0, <1>2, <2>2, FriendAssumption, BetweenIs, BetweenThen DEF InPeace
  <2>4. MethodStep
    BY <2>1, <2>3, SelectMap, RequestsMap, AcceptMap, PartMap DEF Step
  <2>5. disturbed' \ {Ends(p)} = disturbed \ {Ends(p)}
    BY <2>3, Elsewhere
  <2>6. Ends(p) \notin Interrupted
    BY <2>2 DEF Interrupted
  <2>. QED  BY <2>2, <2>4, <2>5, <2>6, DisturbedThen
<1>. QED  BY <1>1, <1>2

LEMMA DieMap == ASSUME TrackedInv, TrackedNext, TypeOK', CallsOK', Crash PROVE BookOf!Die
<1>0. TypeOK /\ CallsOK /\ disturbed \subseteq WorkedOn \cup Lopsided
  BY DEF TrackedInv
<1>1. /\ pc' = [w \in Worker |-> "idle"] /\ pair' = [w \in Worker |-> NoPair]
      /\ crashes' = crashes + 1 /\ UNCHANGED <<friends, requests, faults>>
  BY DEF Crash
<1>2. WorkedOn' = {} /\ Meeting' = {} /\ \A w \in Worker : Between(w)' = {}
  BY <1>1 DEF Meeting, WorkedOn, Between
<1>3. Interrupted \subseteq WorkedOn
  BY DEF Interrupted, WorkedOn
<1>4. Lopsided' = Lopsided
  BY <1>1 DEF Lopsided, IsFriend
<1>5. disturbed' \ WorkedOn = disturbed \ WorkedOn
  BY <1>0, <1>2, <1>3, <1>4 DEF TrackedNext
<1>6. Friendships' \ WorkedOn = Friendships \ WorkedOn
  <2>1. \A w \in Worker : Befriending(w) => Ends(pair[w]) \in WorkedOn
    BY <1>0, BetweenIs DEF Befriending, Accepting, TypeOK, CallsOK, WorkedOn
  <2>2. \A w \in Worker : ~Befriending(w)'
    BY <1>1 DEF Befriending, Accepting
  <2>3. Friendships' = {Ends(q) : q \in {r \in Pair : BothWays(r)}}
    BY <1>1, <2>2 DEF Friendships, BothWays, IsFriend
  <2>. QED  BY <2>1, <2>3 DEF Friendships
<1>7. Waiting' = Waiting
  BY <1>1 DEF Waiting
<1>8. ASSUME NEW w \in Worker, WorkedOn \cap (Between(w) \cup Between(w)') = {}
      PROVE  UNCHANGED <<Doing[w], pair[w]>>
  <2>1. Between(w) = {}
    BY <1>8 DEF WorkedOn
  <2>2. pair[w] = NoPair /\ pc[w] = "idle"
    BY <1>0, <2>1, BetweenIs DEF TypeOK, CallsOK
  <2>3. pair'[w] = NoPair /\ pc'[w] = "idle"
    BY <1>1
  <2>. QED  BY <2>2, <2>3 DEF Doing, Befriending, Accepting
<1>9. /\ BookOf!WorkedOn = WorkedOn /\ BookOf!WorkedOn' = WorkedOn'
      /\ \A v \in Worker : BookOf!Between(v) = Between(v) /\ BookOf!Between(v)' = Between(v)'
  BY DEF BookOf!WorkedOn, WorkedOn, BookOf!Between, Between, BookOf!Ends, Ends
<1>10. BookOf!Trouble(WorkedOn)
  BY <1>2, <1>5, <1>6, <1>7, <1>8, <1>9 DEF BookOf!Trouble
<1>. QED  BY <1>1, <1>2, <1>9, <1>10 DEF BookOf!Die

LEMMA BookKept == TrackedInv /\ TrackedInv' /\ [TrackedNext]_trackedVars
                    => [BookOf!Next]_BookOf!vars
<1>. SUFFICES ASSUME TrackedInv, TrackedInv', [TrackedNext]_trackedVars
              PROVE  [BookOf!Next]_BookOf!vars
  OBVIOUS
<1>0. TypeOK /\ CallsOK /\ TypeOK' /\ CallsOK'
  BY DEF TrackedInv
<1>1. CASE UNCHANGED trackedVars
  BY <1>1 DEF trackedVars, friendVars, BookOf!vars, Friendships, BothWays, IsFriend, Befriending,
     Waiting, Doing
<1>2. CASE TrackedNext /\ Crash
  BY <1>0, <1>2, DieMap DEF BookOf!Next
<1>3. ASSUME TrackedNext, NEW w \in Worker, Step(w) PROVE [BookOf!Next]_BookOf!vars
  <2>1. PICK p \in Pair : pair[w] = p \/ (p \in Calls /\ Call(w, p))
    BY <1>0, <1>3, StepsOfMethods, FriendAssumption
  <2>2. CASE SelectFails(w) \/ WriteFails(w)
    <3>1. /\ pair[w] \in Pair /\ Ends(pair[w]) \in Interrupted
          /\ faults' = faults + 1 /\ crashes' = crashes
      BY <1>0, <2>2, InterruptedBy
    <3>2. BookOf!Trouble({Ends(pair[w])})
      BY <1>0, <1>3, <3>1, TroubleMap
    <3>3. Ends(pair[w]) \in BookOf!WorkedOn
      BY <3>1, FriendAssumption DEF BookOf!WorkedOn, BookOf!Between, BookOf!Ends, Ends
    <3>. QED  BY <3>1, <3>2, <3>3 DEF BookOf!Fail, BookOf!Next
  <2>3. CASE ~SelectFails(w) /\ ~WriteFails(w) /\ Ends(p) \in disturbed \cup Meeting'
    <3>1. BookOf!Trouble({Ends(p)})
      BY <1>0, <1>3, <2>1, <2>3, TroubleMap
    <3>2. UNCHANGED <<faults, crashes>>
      BY <1>0, <1>3, <2>3, StepsOfMethods DEF Call
    <3>3. BookOf!Meeting' = Meeting'
      BY DEF BookOf!Meeting, Meeting, BookOf!WorkedOn, WorkedOn, BookOf!Between, Between,
         BookOf!Ends, Ends
    <3>. QED  BY <2>3, <3>1, <3>2, <3>3 DEF BookOf!Meet, BookOf!Next
  <2>4. CASE ~SelectFails(w) /\ ~WriteFails(w) /\ Ends(p) \notin disturbed \cup Meeting'
    <3>1. MethodStep /\ UNCHANGED <<disturbed, faults, crashes>>
      BY <1>0, <1>3, <2>1, <2>4, OrderlyMap
    <3>. QED  BY <3>1 DEF MethodStep, BookOf!Orderly, BookOf!Next, BookOf!vars
  <2>. QED  BY <2>2, <2>3, <2>4
<1>. QED  BY <1>1, <1>2, <1>3 DEF TrackedNext, Next

LEMMA BookInit == TrackedInit => BookOf!Init
<1>. SUFFICES ASSUME TrackedInit PROVE BookOf!Init
  OBVIOUS
<1>1. Friendships = {} /\ Waiting = {}
  BY DEF TrackedInit, Init, Friendships, BothWays, IsFriend, Befriending, Accepting, Waiting,
     NoRows, Status
<1>2. Doing = [w \in Worker |-> "nothing"]
  BY DoingIs DEF TrackedInit, Init, MethodOf
<1>. QED  BY <1>1, <1>2 DEF TrackedInit, Init, BookOf!Init

\* What SendRequest deletes is history (FriendManager.cpp:30), failures and
\* crashes elsewhere and races of others included: to delete a request that
\* waits it has to meet another method of the same two users, or its own
\* SELECT has to fail.
THEOREM HistoryOnly == TrackedSpec => HistoryUnlessDisturbed
<1>. DEFINE A == \A w \in Worker, p \in Pair :
                   DeleteHistory(w) /\ pair[w] = p /\ Ends(p) \notin disturbed =>
                     requests[p]["pending"] = 0 /\ requests[Reverse(p)]["pending"] = 0
<1>1. TrackedInv => A
  <2>. SUFFICES ASSUME TrackedInv, NEW w \in Worker, NEW p \in Pair, DeleteHistory(w),
                       pair[w] = p, Ends(p) \notin disturbed
                PROVE  requests[p]["pending"] = 0 /\ requests[Reverse(p)]["pending"] = 0
    OBVIOUS
  <2>1. InPeace(w)
    BY BetweenIs DEF TrackedInv, InPeace
  <2>2. ~PendingRequestExists(p)
    BY <2>1 DEF DeleteHistory, TrackedInv, PeaceOK, FoundOK
  <2>3. requests[p]["pending"] \in Nat /\ requests[Reverse(p)]["pending"] \in Nat
    BY ReversePair DEF TrackedInv, TypeOK, Status
  <2>. QED  BY <2>2, <2>3 DEF PendingRequestExists
<1>. QED  BY TrackedInvariance, <1>1, PTL DEF HistoryUnlessDisturbed

\* Methods that are series of statements take effect at one moment between
\* users who are left in peace, and races, failures and crashes between two
\* users go unnoticed by all others.
THEOREM Book == TrackedSpec => ImplementsBook
BY BookKept, BookInit, TrackedInvariance, PTL
   DEF TrackedSpec, ImplementsBook, BookOf!Spec

=============================================================================
