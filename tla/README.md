# MiniChat server: models, checks and proofs

MiniChat is a chat server in C++ for Linux: one epoll thread, a pool of 32
worker threads, one SQLite connection. This directory holds TLA+ models of it,
TLC configurations that check them on small instances, and TLAPS proofs of
their most important properties for instances of any size.

1. [The system](#1-the-system)
2. [What is hard, and what correct means](#2-what-is-hard-and-what-correct-means)
3. [The modules](#3-the-modules)
4. [The runs](#4-the-runs)
5. [The proofs](#5-the-proofs)
6. [Where code and comments disagree](#6-where-code-and-comments-disagree)
7. [What is not modelled](#7-what-is-not-modelled)
8. [Plan](#8-plan)

## 1. The system

| component | source | state | operations |
|---|---|---|---|
| main | `main_Server.cpp` | none | `Start(8888)`, then `Run` for ever |
| Reactor | `Server.cpp`: `Run`, `HandleClient`, `EnableRead`, `RemoveConnection`, `SendMessage` | the epoll set, the descriptors, `sendMutexMap` (descriptor -> mutex, **with no lock of its own**) | accept, submit, receive, dispatch, re-arm, remove, send |
| ThreadPool | `ThreadPool.cpp` | `tasks`, `stop`, `mtx`, `cv`, the threads | `Submit`, the worker loop, the destructor |
| ClientManager | `ClientManager.cpp` | `onlineUsers`, `socketUsers` under one `shared_mutex` | `Login`, `Logout`, `GetSocket` (`GetUserName` and `IsOnline` are never called) |
| UserManager | `UserManager.cpp` | table `users` | `Register`, `Login` |
| FriendManager | `FriendManager.cpp` | tables `friends`, `friend_requests` | `SendRequest`, `AcceptRequest`, `RejectRequest`, `DeleteFriend`, `IsFriend`, two lists |
| OfflineMessageManager | `OfflineMessageManager.cpp` | table `offline_messages` | `SaveMessage`, `GetMessages`, `DeleteMessages`, `HasSystemNotify` |
| Database | `Database.cpp` | the SQLite connection; `writeMutex` around `Execute` only | `Execute`, `Exists`, `QueryString`, `QueryVector`, `CreateTables` |
| Message, SafeString | `Message.h`, `SafeString.h` | none | a record of fixed size; truncating copies |
| SQLite | `sqlite3.c`, `sqlite3.h` | vendored | |

How they interact:

- The main thread waits in `epoll_wait`. It accepts connections itself, makes a
  send mutex for each and adds it to epoll with `EPOLLONESHOT`. For a readable
  client socket it submits `HandleClient(fd)` to the pool; the event is disarmed
  until `EnableRead` arms it again at the end of the handler.
- A worker calls `recv` once, dispatches on the message's type, calls the
  managers, and sends replies through `SendMessage`, which looks up the
  descriptor's mutex, locks it and calls `send` without looking at its result.
  A handler also sends to OTHER users' descriptors, which `GetSocket` names.
- `RemoveConnection` runs on a worker: `Logout`, `EPOLL_CTL_DEL`, erase the
  mutex, `close`. From then on the kernel may give the number to a new client.
- The managers share one SQLite connection. No method opens a transaction: each
  SQL statement is atomic by itself, and any other worker's statements may come
  between two of them.

## 2. What is hard, and what correct means

There are no tests in the repository, and what can go wrong is a matter of
interleavings that tests would hardly reach. `PROJECT.json` lists each hazard at
its line with the properties that watch it.

- **Reactor.** A descriptor is a number that is reused; it travels through epoll,
  an event batch, the task queue and a handler, and two threads must never have
  it at once, nor may it get lost between them. Correct: one owner at a time, no
  connection forgotten, a reused number starts logged out, each connection served
  in order, every request taken, every dead connection closed.
- **ThreadPool.** Notifications are sent outside the mutex. Correct: no lost
  wake-up, tasks start once each and in order, the destructor drains the queue.
- **ClientManager.** Two maps edited key by key. Correct: they stay inverse.
- **Accounts** (REGISTER, LOGIN, `users`). Check, then insert; check, then compare,
  then ask the registry. Correct: each request takes effect as if at one moment, a
  promised account stands, the answer is about the account and not about the race.
- **FriendManager.** Check-then-act over several statements, two rows for one
  friendship, methods that return half-way when a statement fails. Correct:
  requests do not pile up, friendship is mutual, an accepted request is carried
  out.
- **Delivery** (CHAT, notices, READY, `offline_messages`). A receiver comes and
  goes between the look-up, the store, the fetch and the delete. Correct: no chat
  is lost without a cause or received twice without a failure, order is kept where it can be,
  notices do not pile up, what is stored is fetched, no friend request goes
  unannounced without a cause, and what READY deletes it has sent.

## 3. The modules

Names follow the source. Each variable has a comment that says which state it is;
`PROJECT.json` "map" gives the lines behind each definition.

| module | models | abstract specification | instances | proofs |
|---|---|---|---|---|
| `ClientManager` | the registry | | (through `Reactor`, `UserManager`) | `ClientManagerProofs` |
| `Reactor` (EXTENDS `ClientManager`) | main thread, handlers, descriptors, epoll, send mutexes | `Sessions` | `MCReactor` | `ReactorProofs`, `ReactorRefinement` |
| `ThreadPool` | the pool | `TaskQueue` | `MCThreadPool` | `ThreadPoolProofs` |
| `FriendManager` | the friend tables and the methods on them | | `MCFriendManager` | `FriendProofs` |
| `Friendships` (EXTENDS `FriendManager`) | between whom methods met or were interrupted | `FriendBook` | `MCFriendManager` | `FriendProofs` |
| `UserManager` (EXTENDS `ClientManager`) | table `users`, the REGISTER and LOGIN handlers, the registry after them | `Accounts` | `MCUserManager` | `UserProofs` |
| `Delivery` | the offline table and the handlers that use it | `Mailbox` | `MCDelivery` | `DeliveryProofs` |
| `Announcements` (EXTENDS `Delivery`) | what becomes of the news that a request has come | | `MCDelivery` | `AnnouncementProofs` |
| `Outbox` | READY towards a client that reads slowly, byte by byte | | (itself) | |

### Reactor and ClientManager

A step is what one thread does between two calls that others can see: an
`epoll_wait`, an `accept`, a `recv`, one call of the registry, the look-up of a
mutex, its lock, a `send`, each of the four calls of `RemoveConnection`. `pc` is
where a worker is in `HandleClient`. `conn` is the kernel's descriptor table, so
that "descriptor" and "connection" are different things and a number can be
reused while someone still holds it. `epoll` is armed, disarmed or absent per
descriptor; events are level triggered, and an `epoll_wait` may also report a
socket on which `recv` then finds nothing.

A request is what one `recv` returns. `Dispatch` gives, per type, the step a
handler goes to and how many messages it sends to its own client; what the
handler asks of the database is a nondeterministic choice of the way it goes
on. So `Reactor` covers every outcome of `Register`, `Login`, `IsFriend` and the
friend methods; `UserManager`, `FriendManager` and `Delivery` say which outcomes
there are.
The pool is used here as its specification `TaskQueue` promises: a queue from
which idle workers take the oldest task.

`sendMutexMap` is a `std::unordered_map` that the main thread writes
(`try_emplace`) and workers write and read (`erase`, `find`) without a lock. Two
threads in it at once, one of them writing, is undefined behaviour: `WrittenMap`
lets a write in such a race get lost and take any other entries with it,
`RaceKills` lets the process die, and a concurrent `find` may find nothing.
`intact` records that no race has happened yet. `SendKills` is the SIGPIPE of a
`send` to a connection that its peer has reset: nothing in the code ignores it.

Two properties are what the other modules take from here. `OneRequestPerUser`: no two
handlers are at work for connections of one user. `SessionsKept`: a user comes online on
the socket that sent his LOGIN, and goes offline only by a LOGIN or LOGOUT on that socket
or by the end of the connection that is behind it at that moment; a late removal of an
earlier connection with the same number does not end his session.

`Sessions` is what each connection may rely on, with no descriptor, thread or
queue in it: its requests are taken in order and one at a time, and the session
ends after a LOGOUT or at the end of the stream. `ImplementsSessions` maps a
connection's current request to the one its handler has received.

### ThreadPool

`Submit` is two steps (push under the mutex, notify after it), and so is the
destructor. A worker is at the mutex, asleep in `cv.wait`, in a task or returned.
A wake-up only lets a thread compete for the mutex; spurious ones happen.
`Server::Run` never returns and the server never destroys a pool that has run
tasks; the destructor runs when `Start` fails, and is modelled for the class's
own sake. `TaskQueue` is what is left when mutex, sleep and wake-up are
forgotten.

### FriendManager

A step is one SQL statement. `pc` is the worker's next statement, `IfFound` and
`IfMissing` say what follows a SELECT, and a SELECT that fails reads as "missing"
since `Exists` answers false. `friends` holds the row of each direction,
`requests` counts the rows of each direction and status. `torn` is a history
variable: pairs between whose two rows an accept was cut off. A crash forgets the
methods at work and keeps the tables.

Methods are called with any two names, in either order. `SendRequest` refuses a user and
himself; the other three do not look, so an accept can write the row (u, u), and does so in
the model. `Calls` is the bound on the pairs of names an instance calls methods with.

`Friendships` adds one history variable, `disturbed`, to the same actions: the users between
whom two methods have met (`Meeting`) or one was interrupted by a failing statement or a
crash (`Interrupted`). It forbids nothing, since it is a function of the step. A pair
stays in it until the last method at work between the two has returned and their
friendship, if half of it is left, is whole or gone (`Lopsided`).

`FriendBook` is what the methods promise with no statement in it: each takes effect at one
moment, on mutual friendships and requests that wait. No transaction makes it so, and
between users who are disturbed it is not so (section 6); there `Trouble` lets anything
happen, and requires that it happens to nobody else. So `ImplementsBook` says of the
code as it runs, with races, failures and restarts, that methods between two users
are atomic unless they themselves met or were interrupted, whatever goes on and goes wrong
between others, and again once that is over. The mapping (`BookOf`) takes an accept to have
its effect at its first statement, which marks the request: while it writes the two
rows the users count as friends already. `HistoryUnlessDisturbed` is the same of the
comment that `DeletesHistoryOnly` quotes.

### UserManager

A step is one statement on `users`, the call of `ClientManager::Login`, or the answer.
The handler of a socket keeps its locals under that socket, since it has one handler
at a time (`OneOwner`). `Exists` and `QueryString` do not tell a failed SELECT from
one that finds nothing (`ExistsFails`, `QueryFails`); the primary key makes the
INSERT of a name that is there fail (`Inserted`). The registry is the module the
reactor uses too, so a login on a socket that is bound to another account, refused or
not, is in here. A restart keeps the table and forgets the registry and the handlers.
`known` and `promised` are history variables.

`Accounts` is what a client may rely on: between its arrival and its answer each
request takes effect at one moment. The mapping reads the table, the registry, the
requests and the results as they are; no prophecy is needed, since a handler has its
result in the very step that decides it.

### Delivery

A step is one statement, one `GetSocket` or one `send`. `GetMessages` is one step although
SQLite steps through its rows one at a time and others may write in between: rows are
added at the end of the order by id, and only the user's own READY deletes his, so what
the loop reads is what a SELECT at its last step would. The rows of each receiver
are a sequence, by id. A user is away, online, or "left" when the client has hung
up and the server does not know yet. That a user has at most one handler at a
time, and that a session ends only between two of them, is what `Reactor`
guarantees per connection (`OneOwner`, `ImplementsSessions`), and per user
(`OneRequestPerUser`, `SessionsKept`) when he comes back on another; here it is the
guard `~Handled(u)`. It takes a client that sends under its own name, as the real one
does: the server itself does not compare `msg.sender` with the session. `target`
is "live" while the session that `GetSocket` returned is still the receiver's;
a message sent on one that ended may or may not reach him.

`begun`, `stored`, `received`, `excused` and `late` are history variables. A chat is
excused when it was refused, when it was sent to a connection that was gone, or
when the statement, the send or the process failed; it is late when it was stored
while a READY of its receiver was between its SELECT and its DELETE.
`Asks` says who sends friend requests to whom: each may do so any number of times.

`Mailbox` is what users may rely on, with no worker, table or statement in it: a chat is
on its way to a session, to be kept, or in the receiver's box; a READY takes the whole box at
one moment and hands it over in order; what is put into the box of a user who is being
served is lost; a box's contents come back only after a failure. That last loss
is part of the promise because it is what the code does (section 6, item 4). The mapping
(`MailboxOf`) has the box empty from the SELECT of a READY on, not from its DELETE.

`Announcements` adds one history variable, `news`, to the same actions: whether a
user's client is still to be told of a request. Any notice tells it of all of them,
because the client then asks for its list. Each definition of it gives the next value as a
parameter, `later`, so that it can be said, and proved (`NewsWatches`), that the variable
forbids nothing: every step of `Delivery` has a `later`, whatever `news` was.

### Outbox

The one place where the size of things matters: the socket is non-blocking, and
`SendMessage` drops what `send` returns. A step is one record of READY's loop, of which
the kernel takes what its buffer has room for, or some bytes read by the client.
Nothing fails in it, and the receiver stays online.

## 4. The runs

The last figure under "bounds" is the distinct states TLC explores, symmetric states counted once.

| run | question | bounds | properties |
|---|---|---|---|
| `reactor` | do descriptors stay owned, found and clean while they are reused, and the handlers' locals and mutexes fit, on every way through them? | 3 connections over 2 descriptors, 2 workers, 1 request each, up to 2 stored messages; 2.3 million distinct states | `TypeOK`, `OneOwner`, `NeverOrphaned`, `CleanSlate`, `RegistryInverse`, `HandlerOK`, `OwnMutexAlive`, `OneRequestPerUser`, `SessionsKept` |
| `reactor_live` | is everyone on a connection served in the end, in the order of its stream, and accepted in his turn? | 2 connections over 2 descriptors, 2 workers, 1 request each (both ends of a session, and the longest handler); 235 000 | `RequestsTaken`, `HangupsReaped`, `BacklogAccepted`, `ImplementsSessions` |
| `reactor_notify` | (violated) does a notice go to its receiver? | 3 connections, 2 users | `NotifiesReceiver` |
| `thread_pool` | are wake-ups lost, tasks repeated or left behind; does every task run, and the destructor return? | 5 tasks, 3 threads; 43 000 | `NoLostWakeup`, `StopReachesAll`, `ImplementsQueue`, `TasksRun`, `StopEnds` |
| `friends` | what do overlapping methods leave in the tables, when a statement fails or the process dies too; and are they atomic between everybody else? | 2 workers; two users either way round, and one of them with himself; 1 failure, of a statement or of the process; 3.1 million | `RequestsBounded`, `FriendsMutual`, `AcceptedIsCarriedOut`, `HistoryUnlessDisturbed`, `ImplementsBook` |
| `friends_history`, `friends_one_side` | (violated) do the comments hold when methods overlap? | 2 workers | `DeletesHistoryOnly`, `OneSideTellsBoth` |
| `delivery` | is a chat ever lost, repeated or overtaken, a request ever unannounced? | 2 users, 2 chats, 2 workers, any number of READYs, sessions and friend requests, 1 fault, 1 crash; 1.1 million | `TypeOK`, `NoSilentLoss`, `CopiesBounded`, `OvertakesStoredOnly`, `Announced`, `ImplementsMailbox` |
| `delivery_notices` | do notices pile up; does the news arrive, and is what is stored fetched? | 3 users, two of whom ask the third, 3 workers, 1 fault, 1 crash; 340 000 | `NoticesBounded`, `NewsArrives`, `StoredIsFetched` |
| `delivery_saved` | (violated) does a message stay saved until it is sent? | 2 chats, 2 workers, no failures | `SavedUntilSent` |
| `outbox` | (violated) has READY sent what it deletes? | 3 records of 2 units, a buffer of 3 | `DeletedWasSent` |
| `accounts` | do REGISTER and LOGIN take effect as if at one moment, and do accounts stand? | 2 users, 2 passwords, 3 sockets, any number of requests, 1 fault, 1 crash; 2.1 million | `RegistryInverse`, `PromisesKept`, `AnswersFit`, `ImplementsAccounts` |

`MCFriendManagerThree.cfg` is not one of these runs: 3 workers on two users, either way round,
with the same failures, and the properties of `friends` but `ImplementsBook`; 4.1 million states. It
passes, and has what two workers cannot show, an accept, another accept and a delete between
their statements.

**Why the bounds are enough to be interesting.** Two descriptors for three connections make a
number be reused while another is in use; two workers and the main thread make every race of two
threads; a third connection makes a race with a thread that holds an old number. `accept` may
fail at any time, with the connection left in the backlog. One request and the end of its stream
are what a connection has to be served in order; more requests in a row are covered by the proof
of `ImplementsSessions`. A login that is refused while its socket is bound to another account
needs three sockets for two users, which `accounts` has. A statement of `FriendManager` touches
the rows of two users only, so two users, and one of them with himself for "somebody else", are
enough; a user who is not in `users` takes the branch of a SELECT that failed, which they have.
Two workers make methods meet, and a third finds what the two have left
(`MCFriendManagerThree.cfg`). In `Delivery` two chats show order and loss, and two workers are
all that two users can keep busy, with one handler each; it takes three users for two notices to
meet at one receiver, and their READY a third worker. In `UserManager` two connections race for
a name and a third logs in to it meanwhile. The tables need no bound of their own:
`RequestsBounded` and `NoticesBounded` are what keeps the state finite, and a chat is sent once.
`MaxRequests`, `MaxOffline`, `MaxFaults`, `MaxCrashes`, `MaxFailures` (statements and crashes
together) and `Calls` appear in the guards of the actions they bound. `epoll_wait` has room for
1024 events, which no instance reaches.

**Symmetry** is used in safety runs only: threads, and in `Reactor` connections and
descriptors, are interchangeable, and in `UserManager` users, sockets and passwords.

**Deadlock** is checked in the friend, delivery, account and outbox runs, where a client
can always ask for more. It is not in the others (`CHECK_DEADLOCK FALSE`): a server whose clients
are idle waits in `epoll_wait` for ever, and a joined pool has ended.

**Fairness.**
- `Reactor`: the main thread and each worker take a step when they can. The
  operating system schedules every thread, and no handler waits for anything but
  a send mutex, held over one non-blocking `send`. Weak fairness of a worker is
  enough although another could take the mutex again and again: requests are
  finite in number. An `accept` that could succeed time and again does so in the end
  (strong fairness of `AcceptOne`): an error that returned for ever would leave nothing
  to show. Clients are under no obligation.
- `ThreadPool`: a notification begun is sent, a runnable worker runs, a task
  returns. Nobody has to submit, and no spurious wake-up has to come.
- `Delivery`: a handler goes on. The rest is about clients, not code: every user who is
  written to comes back time and again, and his client sends READY after each login. It
  does so on the connection it logged in on, whose requests are taken in order
  (`ImplementsSessions`, `RequestsTaken`) before its end is noticed, so the READY is
  handled however long the pool's queue is. `StoredIsFetched` and `NewsArrives` say what
  the server does for such users.

## 5. The proofs

All theorems are checked by TLAPS for every value of the constants, from the assumptions the
modules name (`ReactorAssumption`, `PoolAssumption`, `FriendAssumption`, `DeliveryAssumption`,
`ManagerAssumption`, `UserAssumption`): the "nothing" values are no members of the sets they
complete, the set of threads is finite, bounds are numbers, nobody chats with himself. None of
the bounds of the runs is used.

**`ReactorProofs`**: `Typing`, `Ownership`, `NoOrphans`, `HandlersFit`, `FreshSessions`,
`Registry`, `MutexLife`, `OneAtATime`, all from `Invariance`. No part of the invariant is
inductive alone. Typing needs `HandlerOK` (a handler that goes to send has a message) and
`NeverOrphaned` (what a handler handles is an open descriptor). `NeverOrphaned` needs
`OneOwner`: closing a descriptor is right only since nobody else has it. `OneOwner` needs that
an armed socket is nowhere else, which is what `EPOLLONESHOT` gives. `CleanSlate` needs
`HandlerOK`: between `Logout` and `close` nobody logs in on the socket. `OneAtATime`
(`OneRequestPerUser`) is where two components meet: one socket per user by `RegistryInverse`,
one handler per socket by `OneOwner`.

**`ReactorRefinement`**: `Refinement`, `Spec => ImplementsSessions`. Each step of the
reactor maps to a step of `Sessions` or leaves the mapped variables alone; the lemmas
say which. It needs `SessionInv`: a connection is behind one descriptor, a waiting one
behind none, and a handler that removes one has a LOGOUT in hand or found the stream's
end. `SessionsStand` (`SessionsKept`) needs the same, and `LoggingIn`, that a handler which
asks the registry for a login has a LOGIN in hand.

**`ThreadPoolProofs`**: `WakeupsReach`, `StopDrains`, `Refinement`. The invariant
`NoLostWakeup` counts: tasks in the queue against workers at the mutex plus the
notification under way. `Phases` links the main thread's step to the stop flag.

**`FriendProofs`**: `Bounded`, `Mutual`, `CarriedOut`. `RequestsBounded` counts rows plus
workers about to insert, against workers plus failed statements. `FriendsMutual` and
`AcceptedIsCarriedOut` need `HalvesOK` (between its two rows an accept still has the
first one active, or its pair is torn), `LoneRowsOK` (without failures a lone row has an
accept at work) and `TornBothWays`.

`Book` (`TrackedSpec => ImplementsBook`) and `HistoryOnly` (`HistoryUnlessDisturbed`) are about
all behaviours, with races, failures and crashes in them. The invariant `TrackedInv` says of
users who are not disturbed that at most one method is at work between them, that what its
earlier SELECTs told it is still so, and that a friendship in one direction has that accept
between its two rows. A step touches the rows of its own two users only, so it keeps this for
everybody else; and it becomes true again of two users who cease to be disturbed because then no
method is at work between them and their rows agree. `TrackedIsSpec` carries what is proved of
`FriendManager` over.

**`ClientManagerProofs`** has the lemmas on `Login` and `Logout` that the two users of
the registry share: each keeps the maps inverse, whatever the socket was bound to.

**`UserProofs`**: `Registry`, `AccountsStand`, `AnswersTrue`, `Refinement`
(`Spec => ImplementsAccounts`). The fact behind all of them is `AccountsStep`, that no
step changes an account that is there. From it follows `LocalOK`, what a handler may
still rely on from its earlier statements: "the account is there" and "this is its
password" stay true, only "there is none" goes stale, and that is what the primary key is
for. `KnownOK` carries it to the answers.

**`DeliveryProofs`**: `Typing`, `Accounted`, `Once`, `Overtaking`, `FewNotices`. The invariant
rests on `OneHandler`: a user's requests are handled one at a time, so no two READYs of one user
overlap, and a chat is in one hand. `ForwardedOK` says that a READY will delete only rows that
it has yet to forward, that were received, or whose loss has a cause; `OnePlace` that a chat not
yet received is in one hand or one row. `Once` (`CopiesBounded`) needs more than a count of what
has arrived: `InCredit` counts what may still arrive (`ToCome`: a chat in a hand, or in a row
that no READY at work has passed) as arrived already. A delivery then changes nothing, and only
a failed DELETE and a crash put a chat that was sent back among what may arrive.

`Overtaking` (`OvertakesStoredOnly`) needs `InOrder`, for every two chats between the same
users. Once the later one's handler has begun, the earlier is in nobody's hand; hence
rows, and what a READY has yet to forward, are in order, and a READY whose client is
there and that has the later in its list has forwarded the earlier or will first. So if
the later was stored and has been received, the earlier, if stored, has been received too.
It holds over crashes, since `HandOK` (a chat in a hand has been nowhere yet) and
`PresentOK` (a request is handled while its session lasts) do.

`Mailboxes` (`Spec => ImplementsMailbox`) has one lemma per group of actions, on where
a step takes each chat and each box. The mapping reads a chat's stage from the one handler
that has it in hand (`StageInHand`) and a stream from the one READY of its user (`ServedBy`);
both are unique by `OneHandler`. A user whose handler begins has no other request
(`NotBusy`), and what a failed READY brings back was kept before and is his
(`TableHolds`), by `PlacesOK` and `HandOK`. `OnlyLateIsLost`: the chats in `late` are the
only ones for which `SavedUntilSent` fails.

**`AnnouncementProofs`**: `RequestsAnnounced`, and `NewsWatches`: for every step of a behaviour of
`Delivery`, and whatever `news` was before it, there is a value of `news` after it with which
the step is one of `Announcements`. So the history variable forbids nothing (and, by
`NewsIsSpec`, adds nothing). `Announced` is not inductive
because a READY deletes rows: `ReadNotDue` adds that a READY that will delete a user's
rows leaves nobody in the dark, unless a newer notice is still in a handler's hand.

What is proved and in no run: `NewsWatches` and `OnlyLateIsLost`.

**Only model-checked**: the liveness properties (`RequestsTaken`, `HangupsReaped`,
`BacklogAccepted`, `TasksRun`, `StopEnds`, `StoredIsFetched`, `NewsArrives`), as liveness
under fairness is out of the prover's reach. Every invariant and every refinement of a
passing run is a theorem, `TypeOK` included.

## 6. Where code and comments disagree

Each is a "violation" run, with TLC's trace as the evidence.

1. `NotifiesReceiver` (`Server.cpp:402`): a notice, or a chat, is sent on a descriptor
   that has meanwhile been closed and given to another user.
2. `DeletesHistoryOnly` (`FriendManager.cpp:30`): the DELETE of old requests removes one
   that was stored since the check and is still waiting.
3. `OneSideTellsBoth` (`Server.cpp:442`): a DeleteFriend between the two rows of an
   accept leaves a friendship in one direction, and CHAT asks for one direction only.
4. `SavedUntilSent` (`Server.cpp:494`, `:514`): READY deletes every row of the receiver,
   also those stored after it had read the table. They are lost unsent.
5. `DeletedWasSent` (`Server.cpp:514`, `:705`, `:563`): READY deletes records of which a full
   socket buffer took a part or nothing, because what `send` returns is dropped. After a
   part, the client reads every later record out of step.

2 to 4 need two handlers that overlap, 5 one and a slow reader; none of the
counterexamples has a failing statement or a crash in it. A failing
SELECT can do 2 and a failure or a crash in an accept can do 3 as well, and nothing else can:
that is `HistoryUnlessDisturbed` and `FriendsMutual`. Likewise 4: a message that is not saved
between the SELECT and the DELETE of a READY stays saved until it is sent (`OnlyLateIsLost`).

Two more races are in the models, with properties that say what they can do at most:
`sendMutexMap` is used by several threads with no lock (`MapRace`; `OwnMutexAlive`
holds until it happens), and the checks before two INSERTs (`FriendManager.cpp:25`,
`Server.cpp:418`) do not keep a second row out (`RequestsBounded`, `NoticesBounded`).

## 7. What is not modelled

- **Short reads.** A request is received whole. `recv` can return a part of a record, whose
  zeroed rest is then read as its fields, and what follows is out of step. Which part is
  TCP's choice, and no line of the server says what should happen then. Short writes are
  in `Outbox`; in the other modules a `send` passes on its record, or fails.
- **Strings and lists**: the truncating copies of `SafeString`, the 511 characters a list is
  cut at, the quoting of SQL text, the list replies of `QueryVector`. They read and write
  locals of one handler and change no state others see.
- **`Database::Open` and `Close`**: called by one thread before and after everything else.
  `Execute` takes `writeMutex` and the reading methods do not, which is of no consequence
  with SQLite running one statement at a time.
- **A chat and the friendship it was checked against**: `Delivery` lets the check come out
  either way at any time. A DeleteFriend between check and delivery is allowed by that,
  and no document says which of the two should win.
- **The receiver's send mutex.** `SendMessage` locks a mutex of a map entry that another
  worker may erase meanwhile. `Reactor` keeps mutex and connection apart (`mtx`), but
  what a destroyed mutex does is left out: a thread that locks one simply goes on.
- **Failures of `epoll_ctl`, `fcntl`, `listen`** and the like: the code ignores them or
  does not start.
- **`main`, logging, SQLite itself**: SQLite is taken to run one statement at a time, as its
  serialized default build does, and each statement to be atomic.

## 8. Plan

Done, in this order: `ClientManager` and `Reactor` with `Sessions`, since everything else runs
inside its handlers; `ThreadPool` with `TaskQueue`; `FriendManager`; `Delivery`; the proofs of
each; `UserManager` with `Accounts` and its proofs; `Announcements` with its proofs; `Outbox`;
the proof of `OvertakesStoredOnly`; `Mailbox`, and `FriendBook` with `Friendships`, with their
refinements; `OneRequestPerUser` and `SessionsKept`, on which `Delivery` leans.

Next:
1. `FriendManager` and `Delivery` composed with the handlers that call them, so that a CHAT
   is checked against the tables and not against either outcome.
2. `Outbox` with a client that reads as fast as the server writes: `DeletedWasSent` as a
   theorem under that condition.
3. `Lists`: the list replies and their cut at 511 characters, as pure operators checked
   against a reference over bounded inputs.
