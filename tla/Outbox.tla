------------------------------- MODULE Outbox -------------------------------
(***************************************************************************)
(* READY on a connection whose client reads slowly: SendMessage writes     *)
(* each stored record to a non-blocking socket and drops what send()       *)
(* returns, while the kernel takes no more bytes than its buffer has room  *)
(* for.  Nothing fails here: the database answers, the client stays.       *)
(***************************************************************************)
EXTENDS Naturals, Sequences, SequencesExt

CONSTANTS Stored,      \* how many records are stored for the user
          RecordSize,  \* sizeof(Message), in bytes of this model, not 0
          BufferSize   \* room in the socket's send buffer, in the same

VARIABLES
  table,   \* offline_messages: the records stored for the user, by id
  pc,      \* the handler: "get", "send", "delete", "enable"
  list,    \* the records it has yet to send
  buffer,  \* bytes the kernel holds for the client, a byte being
           \* <<record, position in it>>
  arrived  \* bytes the client has read

outboxVars == <<table, pc, list, buffer, arrived>>

Init ==
  /\ table = [r \in 1..Stored |-> r]
  /\ pc = "get"
  /\ list = <<>>
  /\ buffer = <<>>
  /\ arrived = <<>>

GetMessages ==
  /\ pc = "get"
  /\ list' = table
  /\ pc' = IF table = <<>> THEN "enable" ELSE "send"
  /\ UNCHANGED <<table, buffer, arrived>>

\* What send() takes of a record: all of it, the part there is room for, or
\* nothing (EAGAIN).
Taken(record) ==
  LET room == BufferSize - Len(buffer) IN
  [i \in 1..(IF room < RecordSize THEN room ELSE RecordSize) |-> <<record, i>>]

SendMessage ==
  /\ pc = "send"
  /\ buffer' = buffer \o Taken(Head(list))
  /\ list' = Tail(list)
  /\ pc' = IF Len(list) = 1 THEN "delete" ELSE "send"
  /\ UNCHANGED <<table, arrived>>

DeleteMessages ==
  /\ pc = "delete"
  /\ table' = <<>>
  /\ pc' = "enable"
  /\ UNCHANGED <<list, buffer, arrived>>

\* The client reads some of what is there.
ClientRead ==
  \E n \in 1..Len(buffer) :
    /\ arrived' = arrived \o SubSeq(buffer, 1, n)
    /\ buffer' = SubSeq(buffer, n + 1, Len(buffer))
    /\ UNCHANGED <<table, pc, list>>

\* The request is handled and the client has read everything.
Done == pc = "enable" /\ buffer = <<>> /\ UNCHANGED outboxVars

Next == GetMessages \/ SendMessage \/ DeleteMessages \/ ClientRead \/ Done

Spec == Init /\ [][Next]_outboxVars

(***************************************************************************)
(* "Send the offline messages" (Server.cpp:514): a record that READY has   *)
(* deleted was sent, every byte of it.                                     *)
(***************************************************************************)
Sent(record) ==
  \A i \in 1..RecordSize : <<record, i>> \in ToSet(arrived) \cup ToSet(buffer)

DeletedWasSent == \A record \in 1..Stored : record \in ToSet(table) \/ Sent(record)

=============================================================================
