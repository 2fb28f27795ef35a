------------------------------ MODULE Sessions ------------------------------
(***************************************************************************)
(* What the reactor promises each connection, with no descriptors, event   *)
(* sets, task queues or threads: its requests are taken one at a time and  *)
(* in the order they were sent, the next one only when the handler of the  *)
(* previous one is done, and the server ends a session only when a request *)
(* asks for it or when the peer is gone and everything it sent was handled.*)
(***************************************************************************)
EXTENDS Sequences

CONSTANTS Conn, Requests, NoRequest,
          Final  \* the requests that end a session

VARIABLES hungUp,  \* connections whose peer closed or reset its end
          open,    \* connections being served
          gone,    \* connections that were served and closed
          queue,   \* requests sent and not yet taken
          current  \* the request being handled, or NoRequest

sessionVars == <<hungUp, open, gone, queue, current>>

Init ==
  /\ hungUp = {}
  /\ open = {}
  /\ gone = {}
  /\ queue = [c \in Conn |-> <<>>]
  /\ current = [c \in Conn |-> NoRequest]

Arrive(c, r) ==
  /\ c \notin hungUp
  /\ queue' = [queue EXCEPT ![c] = Append(@, r)]
  /\ UNCHANGED <<hungUp, open, gone, current>>

\* A reset throws away what was not taken yet.
HangUp(c) ==
  /\ c \notin hungUp
  /\ hungUp' = hungUp \cup {c}
  /\ queue' \in {queue, [queue EXCEPT ![c] = <<>>]}
  /\ UNCHANGED <<open, gone, current>>

Open(c) ==
  /\ c \notin open \cup gone
  /\ open' = open \cup {c}
  /\ UNCHANGED <<hungUp, gone, queue, current>>

Begin(c) ==
  /\ c \in open
  /\ current[c] = NoRequest
  /\ queue[c] # <<>>
  /\ current' = [current EXCEPT ![c] = Head(queue[c])]
  /\ queue' = [queue EXCEPT ![c] = Tail(@)]
  /\ UNCHANGED <<hungUp, open, gone>>

Finish(c) ==
  /\ current[c] \notin Final \cup {NoRequest}
  /\ current' = [current EXCEPT ![c] = NoRequest]
  /\ UNCHANGED <<hungUp, open, gone, queue>>

Close(c) ==
  /\ c \in open
  /\ \/ current[c] \in Final
     \/ c \in hungUp /\ current[c] = NoRequest /\ queue[c] = <<>>
  /\ open' = open \ {c}
  /\ gone' = gone \cup {c}
  /\ current' = [current EXCEPT ![c] = NoRequest]
  /\ UNCHANGED <<hungUp, queue>>

Next ==
  \E c \in Conn :
    \/ \E r \in Requests : Arrive(c, r)
    \/ HangUp(c) \/ Open(c) \/ Begin(c) \/ Finish(c) \/ Close(c)

Spec == Init /\ [][Next]_sessionVars

=============================================================================
