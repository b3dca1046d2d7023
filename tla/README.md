# The chat system in TLA+

The repository is a small chat system in C: a server (`server-codes/`) in which
every connection has a thread of its own, and a client program
(`client-codes/`) with one thread for the user and one that receives. Users
sign up, log in, ask whether a friend is online ("knock"), and send messages
and files, which the server queues for the receiver. No data structure of the
server has a lock. The questions asked here are the ones that this leaves open:
what do the threads do to each other, and what does a user get who signs up,
writes, sends a file, logs out, or whose connection ends?

Line numbers are of the files under `src/`; `server.c`, `account.h`,
`cqueue.h`, `parse.h` are in `server-codes/`, `client-state.c` and
`client-state.h` in `client-codes/`.

## 1. The system

| component | state | operations | shared with |
|---|---|---|---|
| account table (`account.h`) | `accountinfo[100]`, `accountcnt` | `create_account`, `authenticate`, `is_online`, `logout_account`, `job_assign`, `job_get`, `add_message`, `get_historical_message` | all threads of the server |
| job queue of an account (`cqueue.h`, `job.h`) | `head`, `tail`, `jobarray[100]` | `enqueue`, `dequeue`, `print_queue` | every sender to the account and every login of it |
| message history (`msg_history.h`) | 1000 records, `msgcnt` | `add_message0`, `get_historical_message0` | all threads of the server |
| command parser (`parse.h`, `mystring.h`; copies in `client-codes/`) | none | `parse`: the next `<tag>` or `<tag>argument<\>` of a buffer | - |
| handler thread (`threadAnothSrv`) | buffer, `continuityIndex`, `islogin`, `istonextstage`, `acc`, `toWhoseAcc`, `fileName` | read, parse, `dealwithLoginout` before the login, `KnockMtransFiletrans` after it | the socket and a stack frame, with the delivery thread |
| delivery thread (`threadSecondSrv`) | `OurBuf`, and an argument in the handler's stack | take a job, write it, free it, sleep a second | the same |
| main loop (`main`) | `requestP[10]`, `data[10]`, `conNum` | accept, start a handler | handlers |
| client, user thread | the function it is in, its locals, `rf_list` | sign-up, login, knock, message, files, logout | the socket, `_itsig` (under a mutex) |
| client, receiving thread | `r_buf`, `src_usr`, `wf_list` | show a message, write a file, pass a signal on | the same |
| dirty-word filter (`filter.h`) | none | `filter`, never called | - |

`functions/` holds copies of the headers and a manual test program;
`frank.h` is included nowhere; `temp-server-main.c` is a stub of a server.

What is hard here, and what makes each part correct:

- *job queue*: one thread enqueues while another dequeues, without a lock. A job
  for which `job_assign` returned 0 must be delivered, once, in order, and must
  be alive when it is written and freed.
- *account table*: a search runs while an entry is being filled. A name must
  have one entry, an entry must not be seen half filled, and what was signed up
  must be found.
- *message history*: a message is recorded twice, with its sender and its
  receiver, and read while others are added. What is recorded must stay, both
  accounts must remember the same conversation, and an answer must hold all of
  it that was asked for.
- *parser and handler*: a `read` ends anywhere in the stream and the rest is
  thrown away. A handler must not be led into a stage its client is not in, nor
  put one user's name on another user's message.
- *handler and delivery thread*: they write to one socket, and the second reads
  its argument from a frame of the first. Replies and jobs must come whole and
  in an order the client can cope with.
- *client*: two threads, a busy loop for one signal, blocking `recv` for exactly
  one reply, two-command messages (`<username>`, then `<message>`), interleaved
  files. What is shown must be what was typed, by whom it was typed; the user
  must get the program back.
- *ends*: a user may leave or be killed at any moment; the server may die.

PROJECT.json lists each hazard with its line and the properties that watch it.

## 2. The modules

    Mailbox   <== JobQueue          (refinement)     JobQueueProofs
    Directory <== AccountTable      (refinement)     AccountTableProofs
    MessageLog <== History          (refinement)     HistoryProofs
    Messenger <== Chat              (refinement)     SessionProofs <-- SenderProofs
                                                       <-- OrderProofs <-- MessengerProofs <-- FileProofs
    Commands  <-- Parser  <-- MCParser
    Commands  <-- Wire <-- Server, Client <-- Chat <-- MCChat   (EXTENDS)

The system is modelled on two levels. Down at the memory, *JobQueue*,
*AccountTable* and *History* take one access to shared memory per step, and are
shown to implement what an ordinary reader takes them for, *Mailbox*,
*Directory* and *MessageLog*.
Up at the commands, *Server* uses a call of `account.h` as one step with the
effect that the abstract modules give it, and is composed with *Client* over
*Wire* to the whole system, *Chat*, which is shown to be a *Messenger*. Between
the two, *Parser* shows that the
operator `Parsed` with which *Server* reads commands is what `parse()` does.

**JobQueue** models `enqueue`, `dequeue` and `print_queue` with the loops of
their callers: each thread has a program counter `pc` and a register `reg` for
the index it has loaded. The programs are built without optimisation
(`client-codes/Makefile:9`; there is no build file for the server), so every
expression that names `cq->tail` loads it, and `LoadTail`/`LoadHead` are steps of
their own. `Assign`..`StoreTail` are `job_assign` and `enqueue`; `PrintBegin`..
`PrintEnd` the debugging print-out after every message (`server.c:268-272`);
`LoadHead`..`Free` the loop of the delivery thread. `accepted`, `taken`,
`refused` record what the calls returned. Sequential consistency is assumed: the
reference machine is an x86, which does not reorder two stores or two loads.

**Mailbox** is a bounded first-in first-out mailbox: accept, refuse only when
full, take in order.

**AccountTable** models all functions that read or write the table: each
`i<accountcnt`, each `strcmp` and each assignment is a step, as is each load of
the index `accountcnt` inside one. `Call` starts any of the functions with any
arguments; `Creators` are the threads that may sign users up. Strings of exactly
the limit ("brimful") pass the tests with `>` (`account.h:30-33`) and lose their
terminator: `ReadName` and `ReadPassword` say what they then read as. The
server itself never calls `logout_account`; the module covers it because it is
part of the interface.

**Directory** is the table as its callers see it: a function from names to
passwords, a set of online names, a set of names with mail; a call has an effect
at one moment between its beginning and its end and then its answer.

**History** models `add_message` and `get_historical_message` with the functions
of `msg_history.h` that they call, for accounts that exist. A writer goes through
the accounts (`NotConcerned`, `Full`, `NotFull`) and fills a record with six
assignments, each of which loads `msgcnt` anew (`LoadCount`, `StoreField`) before
`msgcnt++` (`LoadCount`, `StoreCount`). A reader loads it up to three times before
the first record and once per record (`ReadAll`, `ReadSome`, `Start`, `InBound`),
compares sender and receiver (`Matches`, ...) and copies the four parts of a line
one by one (`Copy`). A length is named by the string it is the length of: a line
whose parts do not belong together would not be what `MessageLog` allows. The
server never calls `get_historical_message`; `functions/function_test.c` does.

**MessageLog** is what the histories promise. Every message gets a record with its
sender and one with its receiver, if there is room, at two moments between the
beginning and the end of the call. An answer starts at a message chosen at one
moment and holds, of all messages recorded from there to the moment it ends, those
of the friend.

**Commands** has the commands, and `Parsed`: the commands `parse()` finds in a
buffer. A command cut at the end of a buffer is lost; what the next read returns
of it is skipped, except that a whole `<\>` at its end is taken for a tag that
swallows everything through the next command with an argument (`Rest`).

**Parser** steps through the loops over `parse()` on the characters of a stream
that is cut anywhere, for both programs: `HandleRead` replaces the buffer of the
server, `Recv` (`adjust_buffer` and `recv`) appends to the client's, as far as there
is room. `ParseTag`, `ParseArgument` and `ParseFragment` are the three ways out of
`parse()`; `Saying` splits the tag of a file segment at its commas and reads the
number digit by digit, as the sender printed it (`Decimal`, `Atoi`). A name or an
argument is one character: where inside it a cut falls makes no difference.

**Wire** has the two byte streams of a connection, as sequences of commands, and
what the operating system does at their ends: `closed` sockets, the `reset` that
answers the first write to a closed one, and SIGPIPE, which the server leaves
fatal, at the second (`ServerWrites`).

**Server** has one action per command and stage, named for what is done:
`TakeTag`, `TakeUsername`, `SignUp`, `LogIn`, `RefuseLogin`, `TakeUnexpected`
before the login, `TakeTarget`, `TakeMessage`, `TakeFileData`, `TakeKnock`,
`TakeOther` after it; `Read` and `ReadEnd` for `handle_read`; `StartDelivery` and
`Deliver` for the delivery thread. Its state keeps the names of the code's
locals, including `islogin`, which is also the segment number of a file, and
`continuityIndex`, in which "stuck" stands for -1126.
`Fragments` chooses whether a `read` may end inside any command. One that does
not fit into the 512 bytes of a `read` is always cut: these are the segments of
a file but its last, which carry 1000 bytes (`Long`). Without `Fragments` all
others come whole, as they do when a user writes no faster than the handler
reads, if the messages are shorter than a buffer (`fgets` takes up to 1000
characters; longer messages are as lost as a `Long` segment). A command after the login
may overwrite the frame that holds the delivery thread's argument
(`server.c:163`, `243-247`). What it does is up to the compiler, so `Online`
makes it a nondeterministic choice, at every command: with gcc 64-bit builds at
-O0, -O1 and -O2 the first command clears the descriptor and the thread goes on
to write to descriptor 0; with a frame laid out differently, or while the user
sends nothing, the argument stays. A thread that starts after the frame was
cleared finds an empty name. `recorded` remembers for each account the calls of
`add_message` about it: nothing in the server depends on what becomes of them in
the histories, so that is left to *History*.

*Server* takes a call of `account.h` as one step, which is right only as far as
*JobQueue* and *AccountTable* show it: for one thread that creates accounts,
and for queues with one sender and one receiver. So *Chat* has the assumption
`OneOfEach`: the names users log in with differ from user to user, so do the
names they write to, and only one user signs up. Every run of *Chat* and
every theorem about it is within that. What is beyond it, two logins of one account, two senders to one, two sign-ups at once, is wrong in the code:
`accounts_twins` shows two sign-ups, and a further thread in the configurations of
*JobQueue* and *AccountTable* the rest (section 3).

**Client** has one action per thing the user does and per reply: the `state` of a
user thread is the function it is in. `RemoveFile` has the recursion of
`remove_fl` that does not end unless the file is first in the list
(`client-state.h:88`); `EndMessage` has the two behaviours of C libraries after
the end-of-file that ends a message (`StickyEOF`: glibc from 2.28 on keeps the
mark, and then every further `scanf` fails and leaves the menu with its last
choice). The receiving thread keeps incomplete commands for the next `recv`, so
it takes whole commands. When the server is gone, a user thread that waits in
`recv` for the reply to a sign-up or login gives up (`RecvFails`). One that waits
for its user, in `scanf` or `fgets`, does not look at the socket, and the first
`send` after that may even succeed; `s_online_ftp` ignores that it has failed.
So `SendFails` may end such a client and need not.

**Messenger** is what users expect of a chat: a message flies from the one who
typed it until it is lost or shown, once, to somebody who has the name it is for,
under the typist's name, and later than what the same typist wrote before.

**Chat** puts them together and states the properties; **MCChat** and
**MCParser** hold values for TLC.

Left to abstraction: texts are records that say who typed them for whom (`by`,
`to`, `n`), so that a property can tell what was shown from what was meant;
names, passwords and file names are model values; formats are tags.

## 3. What is checked

| run | bounds | states | shows |
|---|---|---|---|
| `queue` | 1 sender, 1 login, 3 slots, 5 jobs | 41544 | the unlocked ring is a mailbox, jobs are alive when used, accepted jobs are delivered |
| `accounts` | 2 threads, 1 of them signing up; 2 entries; 2 names and one too long; 1 password and one too long | 236207 | the unlocked table acts as a directory; every call returns |
| `history` | 1 writer with 3 messages, 1 reader asking for 0, 1 or 2; 2 accounts with 2 records | 230469 | records stay whole, two accounts remember alike, answers are complete |
| `parser` | both programs, streams of 3 commands of 4 or 5 kinds, every cut | 52904 | `Parsed` is what the server finds; the client finds all, whole |
| `chat_talk` | 2 users, 1 login and knock each, 2 messages and 1 | 736798 | messages are shown as typed, once, in order; a knock tells the truth; who listens gets every job; Chat is a Messenger |
| `chat_fragments` | right and wrong passwords, a sign-up, 2 messages, reads cut anywhere | 1719960 | no foreign session, no false sender, no wrong order, no handler stuck |
| `chat_files` | one user writes or sends the other an empty file and one of a segment, a third cannot be opened; a full table | 193809 | files arrive whole, a waiting message reaches a user who listens |
| `chat_deaths` | kills, exits, two sign-ups, a list of files that ends the client | 71515 | replies come; when the server dies, clients that wait for one notice |
| `accounts_twins` | 2 threads signing up | violation | a name is created twice |
| `history_latest` | 3 accounts, 2 messages, a reader asking for 1 | violation | the latest message with a friend is left out |
| `chat_after_end` | a client dies after its message | violation | the last commands of a connection are repeated for ever |
| `chat_dangling` | the receiver sends a command | violation | jobs are taken from the queue and written elsewhere |

The bounds. Three slots hold two jobs, and five jobs make the ring full, empty
and wrapped in every combination of places the two threads can be in. Two
entries let a search meet an entry before, at and behind the one being filled,
and let the table be full. Two records and three messages, each from and to either
account, fill one history before the other and leave one message out of it, and
a reader asks for none, some or all of it. Three commands are needed to have one
cut, one swallowed and one found; the client's buffer has room for 14 letters,
one of the longest commands (12) and not two, as in the code (2000 bytes, and
at most about 1550), so that it fills up. In *Chat*, two connections on two
accounts show every pairing of threads (handler, delivery, client) there is
within `OneOfEach`; a third connection would add no new kind. Each user's
actions are bounded by the constants `Max...`, per connection, and where a run
needs only one active user it says so with `OnlyC1`. `MaxRecorded` is above the
number of messages, so that `recorded` leaves none out. `CHECK_DEADLOCK FALSE` is given
for *Chat*, where a user may stop doing anything and where a logout waits for
ever, for *Parser*, which stops at the end of the stream, and for *History*,
where neither thread has to call anything.

The properties, by what would break them:

- `DeliveredInOrder`, `HoldsLiveJob`, `AcceptedIsKept`, `ImplementsMailbox`,
  `AcceptedIsDelivered`: any reordering of the stores of `enqueue` and
  `dequeue`, or an index that is off by one. They need one sender and one
  receiver: with a second sender `AcceptedIsKept` fails (both store into one
  slot), with a second login of the account `HoldsLiveJob` does (both free one
  job). A second thread in `Senders` or `Receivers` of `JobQueueSPSC.cfg` shows it.
- `UniqueNames`, `EntriesStay`, `CreatedIsLetIn`, `ImplementsDirectory`,
  `CallsReturn`: publishing an entry too early, filling another one, scanning
  too little. They need one creator: two create one name twice
  (`accounts_twins`), fill one entry, or go beyond the last (with both threads of
  `AccountTable.cfg` in `Creators`, `CreatedIsLetIn` and `TypeOK` fail). They also
  need strings shorter than the limit: with a password in `Brimful`,
  `CreatedIsLetIn` fails.
- `RecordsStay`, `SameConversation`, `ImplementsMessageLog`: counting a record
  before it is filled, reaching one beyond the count, making room by dropping
  what the other account still has. They need one writer. With two,
  `RecordsStay` and `ImplementsMessageLog` fail, as both fill the record that
  `msgcnt` names; and with one record and two writers `TypeOK` fails, as `msgcnt`
  passes the test with `==`. A second thread in `Writers` shows both. What
  `ImplementsMessageLog` says of an answer is what the code does: it goes back so
  many records and gives those of them that are with the friend.
- `LatestBetween`: that the answer has the latest messages with the friend, which
  `function_test.c` expects. `history_latest` has it violated.
- `ParsesAsModelled`: a wrong idea of what a cut does. `ClientTakesWhole`,
  `ClientTakesAll`: losing the rest of a buffer, reading it twice, or having no
  room behind it. The same stream that costs the server commands costs the
  client none; that is why *Client* takes commands one by one.
- `ShownAsTyped`, `ShownBySender`, `ShownInOrder`, `NoMessageTwice`: mixing up
  sender and receiver, jobs out of order, commands executed again, two writers
  on one socket. With fragments `ShownAsTyped` fails, since a message
  may go to the previous receiver; the other two stay.
- `ImplementsMessenger`: all of these together. It needs connections that last
  (`chat_after_end`) and reads that end behind commands.
- `SessionIsOwned`: the server and the client disagree on who is logged in.
- `KnockIsTrue`: an answer that was never true. (Nobody goes offline, since the
  server never calls `logout_account`; so it cannot be out of date either.)
- `TellsListeners`: a job taken from the queue of one user and written to the
  connection of another, or to none, or to a user not logged in, although its
  receiver has done nothing but listen. Whatever other handlers do to their
  frames, the argument of this user's thread is its own and stays. `TellsTheUser`
  is the same of all users, and violated (`chat_dangling`): a command of the user
  overwrites the argument.
- `FilesAreWhole`, `SendingSurvives`: segments missing, repeated, in the wrong
  file; a file is looked at when it is closed as complete. They need segments that
  fit into a read, room in the queue, one sender per file name, and the first
  file of the list to end first; otherwise all segments but the last are lost
  (`server.c:475`), a segment is dropped unnoticed (`server.c:278`), two files run into one (`client-state.h:119`), or the client recurses
  until it dies (`chat_deaths` takes this step).
- `RepliesCome`, `KnocksAreAnswered`, `ListenersAreTold`, `ServerDeathIsNoticed`:
  a reply left out, a thread that stops. `RepliesCome` needs room in the
  table: for a full one the server has no reply. `KnocksAreAnswered` needs
  `StickyEOF = FALSE`. `ListenersAreTold` excludes accounts with a delivery
  thread that has lost its argument, which is what `chat_dangling` is about.
  `ServerDeathIsNoticed` is about clients that wait for the reply to a sign-up or
  login, or for the end of their receiving thread; one that has knocked waits for
  ever, and one that waits for its user notices nothing.

Each property of a passing run has a mutant of the code, an operator marked
"Mutant" before the one it replaces, which it refutes.

**Fairness.** `FairSpec` has weak fairness on each thread's own steps, as the
operating systems run every thread that can run and TCP carries every byte to a
peer that is there. There is no fairness on `Assign`, `Call` or `UserActs`: no
user has to do anything. In *Parser* the one thread is fair: what was sent comes,
in pieces of any length. Nor is any needed between the actions of a thread,
because each thread has at most one of them enabled apart from choices of how
many bytes a `read` returns. In *Chat* the handler and the delivery thread of a
connection are fair separately, and so are the two threads of a client. `UserActs`
has what waits for the user's input, and `SendFails`, as a `send` to a server
that has died need not fail.

**Findings.** The violations are disagreements between the code and what it says
of itself, quoted in PROJECT.json: `accounts_twins` about the account table,
`history_latest` (the history is cut to the
latest records, `msg_history.h:55`, before those of the friend are picked,
`msg_history.h:59`, while `functions/function_test.c:233` asks for the "16 latest
chatting records between Alice and Bob"), `chat_after_end` and `chat_dangling` about the server. Others were met on the way and
have no run of their own: two senders, two receivers, two creators and brimful
strings, as said above; a file of more than 512 bytes, which arrives without its
beginning, as no read returns the whole of a segment of 1000; a user
who has left stays online (`account.h:55` is undone nowhere); a logout never ends
(`client-state.c:191` waits for a `<logout-confirmed>` that `server.c:221` does not
send); Sample 2 of `parse.h:31-44` is not what `parse()` does, since the `<\>` left
over swallows the next command; two writers spoil a history, as said above;
`print_queue` after a message (`server.c:268-272`) reads jobs that a delivery
thread has freed (`PrintNext` with its index at such a job).

## 4. What is proved

TLAPS proves, for every value of the constants:

*JobQueueProofs*, for every size of ring, number of jobs and number of threads,
`TypeCorrect`; and under `SingleThreads` (one sender and one receiver) `InOrder`,
`LiveJob`, `KeptJob` (an accepted job stays in its slot until it is taken) and
`QueueIsMailbox`. The inductive invariant `IInv` adds to `TypeOK` what the code
relies on without saying so: the number of jobs accepted minus the
number taken is the distance from `head` to `tail` (`RingInv`), the slots between
them hold exactly the accepted and not yet taken jobs in order, the register of
a thread in the middle of `enqueue` or `dequeue` is still the current index
since no other thread writes it, and the job at hand is fresh. The type
invariant alone is not enough, nor is order: whether a slot may be overwritten
depends on the distance, and the distance on what each thread has loaded. The
refinement follows step by step: `Full` is `Refuse`, `StoreTail` is `Accept`,
`StoreHead` is `Take`, all else stutters.

*AccountTableProofs*, for every size of table and number of threads, under
`Proviso` (one creator, and no brimful strings): `TypeCorrect`, `NamesAreUnique`,
`EntriesAreFinal`, `TableIsDirectory` and `SignedUpIsLetIn`. Here `IInv` says
that published entries differ in their names, that a searching thread has not
met its name in the entries before its index, that a creator past its search
knows its name to be free of all published entries, and that the slot behind the
last one is being filled by that creator only. `CreatedInv`, an invariant on top
of it, says that what `create_account` has answered 0 for is in the table; a
thread that refuses a login has seen every entry or the only one of
its name. A call takes effect when it returns, or, for a
`logout_account` that goes on with its loop, at the store.

*HistoryProofs*, for any number of accounts, records, messages and readers, under
`SingleWriter`: `TypeCorrect`, `HistoryStays`, `ConversationIsShared` and
`HistoryIsMessageLog`. `IInv` says that the records below `msgcnt` are whole, that
a writer in the middle of `add_message0` has loaded the current `msgcnt` and fills
the record there, with its fields up to the one at hand stored, and that a
reader's lines are those of the records between its start and its index, as far as
they are copied. With two writers both fill the record at `msgcnt`, and a record may be
counted before it is whole. `SameConversation` has an invariant of its own on top of it (in
this module named `OrderInv`): records are in the order sent, and the account
on the other side of a record has it too, is full of older ones, or is still
to be reached by the writer. So only the end of a conversation can be missing on
one side; that both sides have the end is not claimed, as one may be full earlier.
In the refinement `StoreCount` and `Full` are `Record`;
an answer begins where the start is known (`ReadAll` or `Start`) and ends with the
test that fails (`EndOfHistory`).

All theorems about *Chat* rest on `OneOfEach`, an assumption of the module: each
account has one connection and one that writes to it, and one user signs up. Without
it `JobAssign`, `Deliver` and `SignUp` would not be what the code does.

*SessionProofs* has no other proviso: reads end anywhere, users
leave, the server dies, arguments dangle. `TypeCorrect`, `SessionOwned` and
`KnocksAreTrue` follow from `IInv`, the types and, for each connection, `ConnInv`:
`StageInv` (a handler inside a sign-up or login has a name and a purpose and is
not past its login; a delivery thread has the handler's account or none),
`RequestInv` (there is one request under way: its last command is the last on the
wire, and from there on at most one answer is, until the client takes it),
`KnockInv` (the knock on its way is for the friend the client waits for),
`OfferInv` (what a client that is not logged in has sent is what its user entered,
and the handler accepts nothing else) and `SessionInv`. `SessionIsOwned` alone is
not inductive: whether a `<login-good>` may come depends on what was sent.
What `parse()` leaves of a buffer that is cut anywhere, a recursive function in
*Commands*, is handled by the lemma `ParsedEnds`: it is made of the last commands
of the buffer, escapes aside. It is proved by an induction on the length, with the
set of good lengths instead of a predicate (`Induction`, from the least element
of a set of numbers). `ListenersAreServed` has `LoginInv` besides: a handler that is past its login, the
delivery thread it has started and its client have the name that the user has
entered (`EnteredInv`, `KnockedInv`), and as these differ (`OneLogin`), the thread that
takes a job from a queue is the one of the account; as long as the user has sent
nothing since the login, its argument is as it was (`JustListenInv`).

*SenderProofs*, without a further proviso: `SendersAreShown`. `SignInv` says that once a
user has typed something, the handler of the connection acts for the name the
user has entered, and the user can no more enter another one (`TypistInv`); that a
job with a message has that name in front (`JobInv`), and that on the wire to
a client a message has it in front too, or the receiving thread has it in
`src_usr` (`SourceInv`), although replies come in between.

*OrderProofs*: `MessagesInOrder` and `RecordedOnce`, under `Lasting`: no user kills
the client program, and in no list of files a longer file that can be opened comes
before a shorter one, as a client that has ended another file than the first of its
list recurses until it dies. A client that ends while the server lives makes
`handle_read` find the end of the stream, and the last buffer is executed again and
again (`chat_after_end`): both properties are then false. Users may quit from the menu
before they log in, a read may end anywhere and the server may die. `OrderInv` says
that no message is numbered beyond what its typist has typed (`CountInv`); that what
the server has not read or executed yet is later than all it has (`AheadInv`); that
the messages rise, typist by typist, in the handler's buffer, in what it has not read,
in every queue and in `recorded`, on the wire to a client and on its screen, and from each
of these to the next (`UnreadInv`, `AccountInv`, `ShownInv`); that what a delivery
thread has written is earlier than all that its queue still has (`ListenerInv`); and that a message is in one place
only (`OnceInv`). None of these is inductive without the others.

`SendersSurvive`, under `Lasting` too, states `SendingSurvives` of behaviours in which
the server does not die (`[]~crashed`), since a client leaves when it does, and says
why `Lasting` is what is needed: what is left of a list is a round (`Round`). Each
file before `rf_ptr` is one segment ahead of each file from there on, and none ends
before a shorter one. So the file that is at its end is the first one (`LastInv`),
which `remove_fl` finds without recursion.

*MessengerProofs*: `ShownAsMeant` and `SystemIsMessenger`, under `Lasting` and
`WholeReads`: reads end behind commands, and no file has more than one segment, as
those but the last are always cut. The second proviso is needed too: a read that ends
inside a `<username>` loses it, and the message behind it goes to the previous receiver.
`TargetInv` adds to the above that in the commands ahead of a handler, read or
not, each message directly follows the name of its receiver, or is the next and has it
in `toWhoseAcc` (`AimInv`); that only a knock for a name is answered, so that
nobody types for the empty name (`FriendInv`); and that what is queued for,
coming to or shown on a connection is for the name its user entered (`MeantInv`).
In the refinement the messages flying are those in all buffers, queues
and wires (`Ways`). `AskSignUp` and `AskLogIn` are `SignIn`, `TypeMessage` is `Type`,
`ShowMessage` is `Show`: that the shown message is nowhere else is `OnceInv` and
`AheadInv`, that the earlier ones of its typist are below it `ShownInv`. All other steps of
both programs are `Lose`, which includes losing nothing.

*FileProofs*: `FilesWhole`, that files arrive whole. It has four provisos, and none
can be left out, so that it is a theorem about small files: of one segment, which fits
into a read. A client that ends between two segments, as without `Lasting`, leaves
a handler that executes the last ones again and again; without `WholeReads` a segment
is lost where a read ends. `Apart` says that the accounts users write to have been
registered before, since what is for an unknown name is dropped, and that no file is
twice in a list: a segment carries the name of its file and its number, and nothing
of the transfer it belongs to, so that two transfers of one name mix in one file. `Room` says that no
queue is ever full: a segment that finds it so is dropped without a word. The run
`chat_files` is an instance in which all four hold; in variants of it in which one of
them fails (a queue of one job, reads cut anywhere, a file of two segments, one file
twice in the list, a sender who is killed) TLC finds `FilesAreWhole`
violated. The invariant, `FileInv`, follows a segment of a file through the four
places it waits at: the wire to the handler together with what the handler has read
(`Front`), the queue (`Back`), the wire to the receiver (`Shows`) and the disk
(`Pos`). `Leads(s, X, x, a, b)` says of one place that its segments of x go on from
the a-th, one by one, to the b-th, where 0 is both before the first and after the
last, so that transfers of one file may follow on each other. `PipeInv` joins the
places: from what the receiver has written last, through each of them in turn, to what
the sender sends next (`At`). Taking, queueing, delivering and writing a segment moves
it from the front of a place to the end of the next (`LeadsFrom`, `LeadsTo`); all
other steps move nothing. A place holds commands for several receivers, and what names
the receiver of a segment is the command ahead of it; so `PostInv` says that a segment
follows a name its sender may write to, and `QueueInv` and `InboxInv` that it stays
with that account. A client that is not logged in has written no file (`InboxInv`),
and a connection is the only one of its account (`Alone`, by `OneLogin`). `ComingInv` says that what comes to such a connection goes on from its disk
even when the argument of the delivery thread is lost and `PipeInv` is silent; this
and the order of the segments make what is closed whole, when it is closed.

Besides those provisos the proofs use what the modules assume of their constants
(`WireAssumption`, `ServerAssumption`, `ClientAssumption`, `OneOfEach`): sets are sets of the right
kind, a registered account has a name and a password, the length of a file is a
natural number, and `None` is neither a name nor a text.

All of this is for any number of connections, names, messages and files, and any
length of the queues, within `OneOfEach`.

Only model-checked: `ParsesAsModelled` and `ClientTakesWhole`, whose statements are
about recursive functions on strings of characters, so that a proof would be an
induction over the characters of both; and all liveness (`AcceptedIsDelivered`,
`CallsReturn`, `RepliesCome`, ...), which is beyond the prover, as is ENABLED. No
module uses RECURSIVE; recursive functions are unfolded in the proofs by the
definition of the function on `Nat`.

## 5. What is not modelled, and the plan

Not modelled: `client-main.c` before the connection (input and output);
the accept loop of `main` (a connection exists from the start of *Server*, and
one that is made later is one that does nothing at first; what the loop adds is
that its tables of ten entries are indexed by descriptors and connections that
are never given back, and what lies behind them is up to the allocator and the
compiler); `filter.h` (never called); `frank.h`, `function_test.c`, `temp-server-main.c`;
the failure branches of `send` to a server that lives, of `pthread_create` and `open`; memory beyond an
array (the fixed arrays that data may overrun are listed as hazards); the
allocations that are too small (`client-state.h:52`, `msg_history.h:37`), which
with short names do no harm under glibc.

In the order of importance:

1. *Core*: JobQueue, AccountTable, their abstract modules and proofs; Server,
   Client, Chat; Parser. Done.
2. *History*, the client's side of *Parser*, *Messenger*. Done.
3. *Proofs about History*: types, `RecordsStay`, `SameConversation` and
   `ImplementsMessageLog` under one writer. Done.
4. *Proofs about Chat*: types, sessions, knocks, delivery; senders; order; the
   refinement of *Messenger*. Done.
5. *Proofs about files*: `SendingSurvives`, and `FilesAreWhole` with the invariant of
   the segments under way. Done.
6. *Names of files*: `write_file` with names of different lengths, which depends
   on what the allocator returns (`client-state.h:109`).
