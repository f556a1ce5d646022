# A TLA+ model of ft_irc

ft_irc (`src/v1.2`) is an IRC server: one process, one thread, one epoll set. The
thread waits for events, takes a handler for each and runs it to its end. What makes it
hard is what happens *between* handlers: the kernel hands the same descriptors out
again, peers read and write at any moment, epoll reports edges and not levels, the
network cuts lines anywhere, clients send commands in every order, several clients change
the same channel, and several tables (sessions, nicknames, channels, membership lists,
timers, event masks, queues, and what the clients themselves show) have to tell the same
story afterwards.

## The system and its parts

| part | source | state | operations | what makes it correct |
|---|---|---|---|---|
| event loop | `main.cpp`, `Server.cpp` | the batch of events (`MAX_CLIENTS` = 2 of them), epoll's ready list | `loop` | every event reaches its owner; no edge is forgotten; nobody starves |
| signals | `signal_handler.cpp` | `should_exit`, the signal descriptor | `manage_signal_events`, `handle_signal`, `shutDown` | the server ends when told to, and closes what it opened |
| reading and parsing | `Client.cpp`, `IrcMessage.cpp` | `_read_buff`, `Client::_msg` | `handleReadEvent`, `extractAndParseNextCommand`, `parse` | the lines handled are the lines sent, and each yields its own command |
| sessions | `Server.cpp` | `_Clients` | `create_Client`, `remove_Client` | what a session opened is closed, once |
| nickname registry | `Server.cpp`, `IrcMessage.cpp` | `_nickname_to_fd` (lowered name to descriptor), `Client::_nickName` (as spelled) | `handleNickCommand`, `check_nickname`, `updateNickname`, `getClientByNickname` | a name has one owner; a name leads to its owner |
| registration, command gate | `passwordHandler.cpp`, `CommandDispatcher.cpp`, `Server.cpp` | flags of `Client` | `handlePassword`, `handleUser`, `tryRegisterClient`, `validateRegistrationTime` | PASS, NICK and USER before registration; ten seconds of silence after it |
| channels | `Channel.cpp`, `Server.cpp` | `_channels`, `Channel` objects, `Client::_joinedChannels` | JOIN, PART, KICK, INVITE, TOPIC, MODE, the end of a session | both sides of a membership agree; counters agree; operators rule |
| MODE | `Channel.cpp`, `Server.cpp` | two cursors over one command | `modeSyntaxValidator`, `applymodes`, `setChannelMode` | the second loop reads what the first checked; the mode string announced is what is applied |
| recipients | `broadcast.cpp`, `Server.cpp` | `_quit` | `getChannelRecipients`, `getSharedChannelRecipients` | whoever shares a channel is told, nobody else |
| output | `broadcast.cpp`, `Server.cpp`, `IrcMessage.cpp` | `_messageQue`, `_bytesSentForCurrentMessage`, `_epollEventMap` | `broadcastMessage`, `updateEpollEvents`, `send_message` | each message arrives once, whole and in order; no wakeup is lost |
| timers | `Server.cpp`, `epoll_utills.cpp` | `_timer_map`, a timerfd per client, `_failed_response_counter` | `checkTimers`, `resetClientFullTimer`, PING, PONG | a silent client goes; nobody else is touched |
| formatting, start-up | `MessageBuilder.cpp`, `general_utilities.cpp`, `serverUtilities.cpp` | none that lasts | | |

The parts interact by direct calls. Commands reach channels, registry and registration
through `dispatchCommand`; all of them queue messages with `broadcastMessage`, which sets
the event mask; the loop calls `send_message` for `EPOLLOUT`. A session ends in
`remove_Client`, from a read, a failed send, a timeout, or after QUIT. A client that
quits is only marked (`_quit`) and removed at its next `EPOLLOUT`. `Channel` holds
clients, and `Client` holds channels, by `weak_ptr`: nothing keeps the two in step but
the handlers.

## Modules

| module | models | proofs |
|---|---|---|
| `NickRegistry` | sessions and nicknames | `NickRegistryProofs` |
| `Channels` (extends `NickRegistry`) | channels, members, modes, invitations | `ChannelsProofs` |
| `Rooms` | abstract: who is in which room; `Channels` implements it | `ChannelsProofs` |
| `Audience` (extends `Channels`) | who is told what, QUIT and removal, the member lists of the clients | `AudienceProofs` |
| `ModeCommand` (extends `Channels`) | one MODE of several letters and words, pass by pass | `ModeCommandProofs` |
| `Registration` (extends `NickRegistry`) | PASS, NICK, USER, the gate, the way out | `RegistrationProofs` |
| `SendQueue` | queues, `send()`, `EPOLLOUT` edges, QUIT | `SendQueueProofs` |
| `Outbox` | abstract: messages owed and handed over; `SendQueue` implements it | `SendQueueProofs` |
| `Timers` | descriptors, timers, `_timer_map` | `EventLoopProofs` |
| `EventLoop` (extends `Timers`) | the loop, batches, epoll's ready list, signals, peers | `EventLoopProofs` |
| `Input` | `recv()`, `_read_buff`, lines, `parse` | `InputProofs` |
| `Lines` | abstract: the lines a peer has said, heard once and in order; `Input` implements it | `InputProofs` |
| `MC*` | the instances TLC checks | |

A handler is an action: one thread runs it to its end and nothing else sees it half way.
There are three exceptions. `send_message` is a step per `send()`, since the peer
reads meanwhile (`SendQueue`); `handleReadEvent` is a step per command, so that what a
batch of commands may do is visible (`Registration`, variable `reading`; `Input`); and MODE is a
step per pass of its loops where those are the question (`ModeCommand`).

*NickRegistry.* `conn`, `fdOf`, `nick` and `nickToFd` are `_Clients`, `Client::_fd`,
`Client::_nickName` and `_nickname_to_fd`. A member of `Clients` is one `Client` object:
it connects once. Descriptors are reused, lowest first. Names are values of `Nicks` with a
function `Lower`, so that two names may be one but for case. `Forget` is the end of
`remove_Client`, which erases the entry under the name *as spelled*, so dead entries
remain; the model keeps them, and the properties hold in spite of them.

*Channels.* `chan[n]` is the `Channel` object: its entries, operators, the two counters
`_clientCount` and `_operatorCount`, modes, limit, key, invitations and topic. `joined` and
`dangling` are `Client::_joinedChannels` and those of its `weak_ptr`s that have expired. Each lookup by
nickname is kept the way the code does it: `Matching` lowers the member's side and
`Exact` does not lower at all. `up` becomes FALSE where an exception leaves `loop` or a
null pointer is dereferenced. `_ClientModes` is ordered by address, so "the first
member that ..." is any. Command lists (`JOIN #a,#b`) are sequences of the single command.
Nobody reads the FOUNDER bit, `_topicSetter` or `Client::_isOperator`; they are left out.

*Audience.* `view[a]` is what the IRC client of `a` shows, known from messages alone: the
NAMES list of its own JOIN, then JOIN, PART, KICK, QUIT and NICK. Each handler is the one
of `Channels` with the recipients the code picks, taken from the state before or after its
change as the code does. `quit` is `_quit`, with the value `"reading"` while commands
behind the QUIT in the same read are still obeyed. A message counts as shown once it is
queued; `SendQueue` has the rest of its way. Messages that change no member list
(PRIVMSG, TOPIC, the text of MODE) are left out.

*ModeCommand.* `asked` are the arguments after the channel, `at`, `word` and `done` the
cursors of whichever loop runs. `checked` and `applied` record the letters each loop has passed with
the place of the argument it gave them, `announced` the signs and letters sent to the channel
(`modeparams[0]`) and `parameter` what is sent with them (`params[2]` of a command of three
parameters, else nothing); `before` only observes. What the code does, and the model with it: only the first
mode word is applied, since `modeIndex` is never reset; `q` is given the
argument at the cursor and ends the server if that names no member; `-k` and `-l` demand an
argument; the list of targets `applymodes` fills has no reader, and `params[2]` is announced
whatever it was for. So `MODE #c +i +t` tells the channel `+i +t` and applies `+i` only: the letters of
the mode string are right (`LettersAnnounced`), and so is a parameter that stands for a key or a limit
(`ParameterAnnounced`), but who takes the parameter for a second mode string is misled, and of
`+kl key 2` nobody is told the key or the limit. No text of the repository promises more.

*Registration.* `pass`, `user`, `registered`, `settled`, `ready` and `quit` are the flags
`_passwordValid`, `_hasSentUser`, `_registered`, "ten seconds since `_pleaseWait`",
`_clientReadyForInput` and `_quit`; `_hasSentNick` is `nick # NoNick`. `ran` only observes.

*SendQueue.* `wants` is `EPOLLOUT` in `_epollEventMap`, `ready` an edge that the next
`epoll_pwait` reports, `room` the free bytes of the socket. A message is its length.
`offset` follows `advanceCurrentMessageOffset` literally, modulo `SizeMod` as `size_t` does.
A `send()` with a count past the end of its buffer may take any number of bytes
(`Taken`). `sent`, `wire` and `intact` only observe what reached the peer.

*Timers.* `openFds` is the kernel's table; `timerMap` is `_timer_map`, whose entries
outlive their timers. A client is `"refused"` when `accept()` has opened its socket and
`createTimerFD` throws: the server ends and the socket stays open, which `NothingLeaks`
counts as the one descriptor that belongs to no live client.

*EventLoop.* `pc` is where the thread is, `ready` the kernel's ready list, `batch` the
events returned and not handled. Sockets of clients are edge-triggered: `Fetch` takes them
off the list, and only new readiness or an `EPOLL_CTL_MOD` puts them back; everything else is
level-triggered. Each event has its EPOLLIN branch and then its EPOLLOUT branch, and
everybody else acts between any two: peers send, close and connect, timers run out, signals
come. The handlers of descriptors are those of `Timers`. What a command does is abstracted
to whom it tells something (`told`) and whether it quits. `unread` counts the `recv()`s a
socket's input is worth. `left` (the one `recv()` of an edge has not taken all there was),
`dropped` (a SIGUSR1 has thrown an event away), both until the socket is ready again, and `of` only
observe.

*Input.* A byte is one of CR, LF, blank, colon, or a word. `parse` is followed operation
by operation (the prefix, `operator>>`, `getline`, the trailing parameter), the
stream operations being modelled from their use. `msg` is the one `IrcMessage` of the client, kept
from line to line.

Behaviours worth knowing that are modelled as they are:

* `-o` may be undone in the same command by `promoteFallbackOperator`, as
  `_operatorCount` leaves out the creator; KICK by an operator may promote another member.
* Commands other than PASS, NICK and USER run before registration, too, although
  `test_robustness_edgecases.py:163-166` expects 451.
* `EventsReachOwners` holds because a batch has two events: the `get_Client` at
  `main.cpp:71` is outside of any `try`, and with three events a client told about and removed by an
  earlier one would end the server. Raising `config::MAX_CLIENTS` needs a change there.
* One `recv()` per edge: what exceeds 1023 bytes, and the end of the stream behind any
  input, waits for the peer to act again or for something to be sent to it (`left`).
  A peer that sends something and closes before it is read is in that case: the `recv()` takes the
  input, the end stays unread, and the client stays until something is sent to it. `Input` has whole streams without an end; there `NothingForgotten` exempts the
  full buffer.
* A SIGUSR1 throws the rest of its batch away; a client whose edge was in it waits for its
  peer's next action (`dropped`), the first message of a new client, for instance, if its `EPOLLOUT` was lost. SIGTSTP and SIGQUIT, "handling as no-op"
  (`signal_handler.cpp:71,74`), shut the server down.
* Input of a client that is not acknowledged is not read and its edge is gone. It is
  read later only because `send_message` takes `EPOLLOUT` back with `EPOLL_CTL_MOD`, which
  makes epoll look again (`InputNoticed`).
* Only a QUIT and a failed `send()` tell anybody that a client is gone. After a `recv()` of 0 or an error,
  or a timeout, `remove_Client` takes it out of its channels and the members go on showing it, although
  `Server.cpp:206` logs "Notifying and removing client" (`Disconnect` of `Audience`; `FarewellsAreHeard` is about QUIT).
* A connection that takes the last descriptor ends the server: `createTimerFD` throws instead of
  returning -1, so the clean-up at `Server.cpp:167-170` never runs, and `main` catches `ServerException` only
  (`AcceptWithoutTimer` of `Timers`).
* With an upper-case letter in its nickname a client leaves its lowered name in `_nickname_to_fd` when it
  goes, and nobody can take that name again. `NicksUnique` and `NickReaches` hold all the same.

## Runs

Passing runs:

| run | instance | distinct states | checks |
|---|---|---|---|
| `ChannelsModes` | 3 clients, 3 lower-case names, one channel, +i +l +o, limits 1 and 2, `_operatorCount` up to ±2 | 180 thousand | `ListsAgree`, `NoGhosts`, `OperatorAuthority`, `Admission` |
| `Audience` | 3 clients, 3 lower-case names, 2 channels, no modes | 18 thousand | `ViewsAgree`, `FarewellsAreHeard`; `Channels` implements `Rooms` |
| `ChannelsAnyNick` | 2 clients, names that differ in case only, clients without a name, +t +k +o +q | 326 thousand | `TypeOK`, `Bookkeeping`, `NicksUnique`, `NickReaches` |
| `ModeCommand` | 2 clients, one MODE of up to three arguments out of 13 mode words and 6 others | 2.4 million | `ModeTypeOK`, `ReadsWhatWasChecked`, `SettingsMatchModes`, `LettersAnnounced`, `ParameterAnnounced`, `OneLetterIsOneStep` |
| `Registration` | 3 sessions on 2 descriptors, 2 spellings of one name | 681 thousand | `TypeOK`, `RegisteredProperly`, `GateHolds` |
| `Send` | 2 clients, 3 posts of two messages of 1 byte, sockets of 1 byte | 11 thousand | `QueueArmed`, `QuitHasEvent`, `NoLostWakeup`, `SendQueue` implements `Outbox`, `MessagesArrive`, `QuitLeaves` |
| `EventLoop` | 2 sessions, 4 descriptors for them, batches of 2, up to 2 `recv()`s of input each | 164 thousand | `LoopTypeOK`, `NothingLeaks`, `InputNotTaken`, `OwnTimer`, `EventsReachOwners`, `InputNoticed`, `OutputNoticed`, `InputIsRead`, `StopsWhenTold` |
| `Input` | streams of 6 pieces (word, blank, colon, CR LF, CR, LF), `recv()` of 3 bytes | 1.8 million | `TypeOK`, `CommandsAreOfTheirLine`, `RoundTrip`, `NothingForgotten`; `Input` implements `Lines` |

The properties on several parts at once: `ViewsAgree` relates the views of two clients to
the channel table and the registry; `OneLetterIsOneStep` shows that the pass-by-pass MODE
does what the single step of `Channels` says; `EventsReachOwners` relates events in hand to
the client they were about when epoll reported them.

Bounds. Three clients are what the interesting cases need: an operator, an heir and a
bystander in a channel, or an owner of a name, its successor on the descriptor and a
rival. Two channels (`Audience`) show that a disconnect is one step for all of them and that a
list is not mixed up between two; there at most `MaxQuitting` = 1 clients are between
QUIT and removal. `ModeCommand` has one command per behaviour, in every state that a first key, joins,
and +o/-o lead to (`_operatorCount` within ±1 before the command); three arguments are
a mode word with both of its arguments, or two mode words with one, which is where the cursors could part. In
`EventLoop` two clients fill a batch, and a third event (the listening socket, a timer or
the signal descriptor) shows what waits behind one; `MaxUnread` = 2 is input for two `recv()`s,
so that the one `recv()` of an edge leaves some behind, or the end of the stream. At most one timer or signal is
pending at a time, no input follows a QUIT and no timer follows SIGINT. There are four descriptors, so
that a session meets those of the one before it; `TimeoutEnds` has the same. A
`recv()` of three bytes cuts CR LF, a word and a line of `Input`. Two messages that
differ make order visible in `Send`; messages sent in parts are covered by the proofs for all sizes
(`QueuesStayArmed`, `QuitWillBeSeen`, `NoWakeupIsLost`) and by `SendOffset`. `MaxOpCount`, `MaxPosts`,
`MaxPieces` and `SizeMod` bound a counter each.

Deadlock is not checked: every instance may stop when its sessions have come and gone,
its one command or its stream is over, or the server is down.

`ChannelsModes` and `Audience` use lower-case names and clients that have one.
That is a real restriction: with an upper-case letter `NoGhosts` and what depends
on it do not hold, which is what `GhostMember` shows, and `ChannelsAnyNick` checks
what holds for every spelling. Names in lower case do not keep the server up either: `FounderEnds`.

Violated on purpose, each a disagreement of the code with what its own texts say (the
findings of `PROJECT.json` quote both sides):

| run | what TLC finds |
|---|---|
| `GhostMember` | `Bob` disconnects and stays in his channels: `removeClientByNickname` compares the lowered name of the member with the name as spelled; `bob` also stays in `_nickname_to_fd`, which is erased as spelled |
| `SendOffset` | a message sent in two parts moves its offset past its end; the remainder wraps around and the message never leaves the queue |
| `TimeoutEnds` | `checkTimers` asks `get_Client` for the timer's descriptor; the exception ends the loop |
| `FounderEnds` | an operator sends `MODE #c +q`; `getClientModes` finds no member called "+q" and throws, and the loop ends |

## Fairness

`FairLoopSpec` of `EventLoop` assumes that the thread goes on (`WF` of `Loop`: one thread whose
handlers do not block) and that epoll serves its ready list in turn (`SF` of a batch
with `c`'s socket in it: the kernel moves what it reports to the end of the list).
Nothing is assumed of peers, timers and signals. `StopsWhenTold` excludes the one
window the code leaves open: a SIGINT between the look at `should_exit` and `epoll_pwait`
is noticed at the next event.

`FairSpec` of `SendQueue` assumes that the loop handles a reported edge, that a handler goes
on until it returns, and that the peer reads. The first of these assumes that no SIGUSR1 comes:
one that comes in the same batch throws a reported edge away, and then a message or a
client that quits waits for the next one. Without a peer that reads a full socket rightly
holds its queue for ever. Nothing is assumed of new input: a message arrives and a
client that quits leaves even if no client ever sends a line again. Liveness is checked
with whole messages only, since after a partial send a message may never leave, see
`SendOffset`.

## Proofs

TLAPS proves, for all values of the constants that satisfy the named assumptions
(`NickAssumption`: `Lower` is idempotent and keeps the empty name apart;
`ChannelAssumption`: finitely many clients):

* `NickRegistryProofs`: `NickTypeCorrect`, `NicksAreUnique` and `NicksReach`. The
  invariant `NickInv` says that live clients have distinct descriptors and that the
  entry under the lowered name of a live client is its own descriptor. Neither
  property is inductive without it: `check_nickname` looks at the table only, so
  a step keeps names unique because every live owner is in the table. Dead entries may exist
  but are overwritten only by an owner who found the name free; and `remove_Client`,
  which erases `nick[c]` unlowered, hits no entry of another live client, since
  that name, if it is a key at all, is c's own.
* `ChannelsProofs`: `TypeCorrect`, `BookkeepingHolds` and `NicksStayUnique`. `IInv` is `NickInv`
  with `ChanInv`: each channel's counter is the cardinality of its entries, its operators
  are entries, it is open exactly while it has entries, and lists name only known
  channels. The counter needs the join guard: a client that is not found by its
  lowered nickname is no entry (`NotFoundNotIn`), so `AddClient` adds exactly one. Each
  handler has a lemma; `StepOfNicks` shows that every step of `Channels` is one of
  `NickRegistry` or changes nothing of it, which lifts the results on nicknames.
* `ChannelsProofs`, second part: `AdmissionHolds` for every spelling of names; and, under `LowerNames`
  (`Lower` is the identity on the names there are, and clients have a name before they use channels),
  `ListsAlwaysAgree`, `NoGhostsEver`, `ChannelsImplementRooms` and `OperatorsRule`.
  `LowerNames` is the restriction of `ChannelsModes`: `GhostMember` shows that it is needed. `ListInv` adds to
  `IInv` that the two sides of a membership agree, that no `weak_ptr` to a channel has expired, and that
  members are live and named. With it every lookup by nickname finds its client, and
  so a handler's effect on the members of all channels is one of four (`StepCases`), which are the actions of `Rooms`.
* `AudienceProofs`: `AudienceKeepsChannels` (the composition is an implementation of `Channels`, so
  that all of the above holds in it) and, under `LowerNames`, `ViewsAlwaysAgree` and `FarewellsAlwaysHeard` (an action property). `ViewInv` is `ViewsAgree` entry by entry, with two
  facts it does not say: who is not connected is shown nothing and is not quitting, and nobody is shown
  before it has connected, so that the list of a newcomer starts empty. With it a client on
  somebody's list shares a channel with them, and whoever shares one is among those the QUIT goes to (`FarewellStep`).
* `RegistrationProofs`: `RegTypeCorrect`, `RegistrationIsProper`, `NicksWhileRegistering`
  and `GateIsTight` (an action property). `RegInv` adds to the properties that a client
  that has not connected is not registered, and that `_clientReadyForInput` is set after the
  ten seconds only (`ReadyAfterWait`): the flag opens the gate by itself, so without this a client
  might be let through early. `CommandInv` is what all commands share; the lemma of each says that it
  leaves its own client in order.
* `ModeCommandProofs` (from `ModeAssumption`: words are a sign and letters, and no plain argument is a word): `ModeTypeCorrect`,
  `LoopsCountAlike`, `SettingsAlwaysMatch`, `LettersAnnouncedRight` and `ParameterAnnouncedRight`, for commands and words of any length. The two
  loops never run at once, so the invariant has to remember what the first did: every letter accepted so far
  is the next of the first word that has letters, and its argument is at the place that follows from the place of
  the one before (`Chain`). That holds while the validator has met no such word (`BeforeWord`)
  and ever after (`SinceWord`), and it is what the second loop finds, whether there is such a word
  (`OneWord`) or not (`NoWord`). An accepted argument is sound, so `Set` keeps keys and limits
  in step with the modes (`Settled`). The announcement is compared letter by letter with the place
  of its last occurrence and of the last sign before it. The parameter is announced only when the command has
  one argument behind its mode word, and that is then the argument of every letter that takes one
  (`OneArgument`), so `ParameterInv` compares it with the key and the limit stored. `OneLetterRefines`: while the loops run, everybody else sees the channel as
  it was `before` (`Seen`), so their passes are stutters of `Channels` and the last one is
  its `ModeChannel`, `ModeOperator` or `ModeCrash`. `SingleInv` carries over what that step needs:
  what the validator has granted and what `applymodes` has made of the channel (`Granted`, `Changed`). Its assumption
  `ChannelsCover`, which TLC evaluates on the instance, says that the sets of `Channels` contain what the
  command may ask for and that nobody is called "-q": `isValidNickname` allows that name, and then
  `MODE #c -q` does not end the server.
* `SendQueueProofs` (from `SendAssumption`: messages are not empty and shorter than
  `size_t` counts): `SendTypeCorrect`, `QueuesStayArmed` and `QuitWillBeSeen`.
  `QuitHasEvent` needs `QueueArmed`, since QUIT asks for `EPOLLOUT` only if the queue was empty, and
  with the types the two are inductive. They hold for messages sent in parts too, where
  `StreamIntact` does not. So does `NoWakeupIsLost`, whose invariant adds that a client with an empty queue does
  not ask for `EPOLLOUT` outside of its handler (`IdleDisarmed`): only so does the next message change the mask, which makes epoll look at
  the socket again. `IntactStreamIsOutbox` maps every step to one of `Outbox` or a stutter as long as no stream is
  damaged; it says that the offset is the only thing that can lose, repeat or reorder a message. `WholeMessagesFlow`
  shows that messages of one byte, which a socket takes whole or not at all, never get there.
* `EventLoopProofs`, first part (from `TimerAssumption`: descriptors are natural numbers): `TimerTypeCorrect`,
  `NothingEverLeaks`, `InputStaysInput` and `OwnTimerFound`. The invariant is about parity: the kernel returns
  the lowest descriptor, a session takes two and closes both, so sockets are at even
  distances from the first descriptor and timers right behind them (`NewPair`). Stale entries of
  `_timer_map` are at odd distances and lead one back, so that they are never under a
  socket and are overwritten before they could mislead. The argument stops holding
  as soon as anything else opens a single descriptor. The socket of a client that can be given no timer does, but the
  server is down from then on (`Timerless`). `TimeoutsEndIt` proves the finding
  of `TimeoutEnds` for every client and descriptor.
* `EventLoopProofs`, second part: `LoopImplementsTimers` (every step of the loop, with batches, signals and
  peers, is a step of `Timers` or stutters), and from it `LoopLeaksNothing`, `LoopInputStaysInput` and
  `LoopOwnTimerFound` for any number of clients and any batch. `LoopInv` adds what the events need for
  `LoopTypeCorrect`, `EventsAlwaysReachOwners`, `InputAlwaysNoticed` and `OutputAlwaysNoticed`. `BatchInv`: if the first
  of two events may open or close a descriptor, the second is of the listening socket, of the signals or of a client that is there, and the
  two have different descriptors; a session closes only its own two, and what
  it opens is not what the second event is about. `PeersInv`: a client that
  may not talk yet asks for `EPOLLOUT`, whose removal makes epoll look at its unread input. `NoticedInv` is the
  two properties client by client, kept because an event leaves the batch only when its handler has
  read, sent, or removed the client (`Keeps`). `TimersIdle` says that no timeout is ever counted, as `TimeoutsEndIt` shows.
* `InputProofs` (from `InputAssumption`: pieces are not empty; CR, LF, blank and colon differ), for streams of any
  bytes and any cuts: `NothingIsForgotten` and `LinesAreHeard`, the implementation of `Lines`. `StreamInv` says that
  `_read_buff` is what `recv()` has returned since the end `b` of the last line heard, and that
  as many ends lie before `b` as lines have been heard; the least end of the buffer is then the next end of
  the stream (`NextEnd`), and more bytes move no earlier end (`EndsOfLonger`). `InputTypeCorrect` and
  `CommandsAreTheirs` are about `parse`, for lines of any length. `Parameters` is a recursive function of
  the position: that there is one (`CutExists`), that each step depends only on later positions
  (`CutAlike`), and that what it makes has white space in the last parameter only (`ParametersAsCut`)
  go by induction on how much of the line is left. `AnotherWord` counts the words of a line against the tokens
  `parse` takes. The induction is stated for sets of numbers (`Induct`, from `Least`, from the library's `WFMin`),
  which needs no theorem with an operator for a parameter.
* `InputProofs`, second part: `WrittenAsRead`, that is `RoundTrip` for lines of any length and any bytes. `Extract` cuts
  at the first line end, so that a line holds none, although it may hold a CR or an LF alone; what
  `getline` leaves of it holds no LF and does not end with CR (`Clean`, from `Tame`). Every message
  handled is therefore `WellFormed`: its parameters are words that begin with no colon and a last one that is clean
  (`ParametersWellCut`, by the least counterexample in length). `Unfold` turns the recursion on positions into one on
  what is left of the line, as the cutting of a rest is the rest of the cutting (`CutShift`). `FlattenSeq`
  joins from the left and `parse` reads from the left, so the fold of `toRawString` is first taken from the right
  (`FlattenFromRight`); then a parameter at a time is written before what is read already (`LastReads`, `WordReads`),
  and the prefix, the command and the line end go around them (`ChompJoin`, `WrittenRead`).

Only model-checked:

* liveness (`MessagesArrive`, `QuitLeaves`, `InputIsRead`, `StopsWhenTold`), which is out of the prover's reach, and
  the violated properties.

## Not modelled

* `MessageBuilder.cpp`: the text of replies. It has no state, and no branch of it decides
  anything elsewhere. (NO_SUCH_CHANNEL and UNKNOWN_MODE get its default text.)
* Start-up (`general_utilities.cpp`, `serverUtilities.cpp`, the setup in `main`): runs once before the loop.
* Failures of `epoll_ctl`, `fcntl` and `timerfd_settime`. After one in `create_Client`,
  `closeAndResetClient` closes the descriptor of the last client in progress and not the
  new one, so `NothingLeaks` would not hold; `updateEpollEvents` removes a client.
* The contents of PRIVMSG, WHOIS and CAP: they answer and change nothing but queues and a flag
  (`Post` in `SendQueue`, `Other` and `Run` in `Registration`). Missing parameters of PRIVMSG
  and USER are read past the end of a vector; handlers are modelled for complete commands.
* Code that cannot run: `NO_Client_INMAP` at `main.cpp:78-79`, the third failed response (PING
  asks `get_Client` for a timer and throws before it counts), `toRawString` in the server
  (modelled in `Input` only to state what `parse` preserves).
* Logging, and the wording and layout of everything.

## Plan

1. *(done)* nicknames, channels, output, timers, registration, and their proofs.
2. *(done)* the event loop and signals, MODE pass by pass, recipients, input and parsing; proofs of
   `Rooms`, `Audience` and the loop.
3. *(done)* `Outbox`, `NoLostWakeup`, the events of the loop, MODE of any length and as one step of `Channels`,
   lines and commands, what `parse` and `toRawString` make of each other, as theorems.
4. A failure of `epoll_ctl` in `create_Client` and in `updateEpollEvents`, with the descriptor that is
   closed then.
