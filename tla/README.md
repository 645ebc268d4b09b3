# libalgol in TLA+

Specifications, model-checking runs and proofs for libalgol, a C++ library that gives an
application messaging over an AMQP broker, an administration console, analytics, plugins, a Lua
engine, configuration files, and logging. Paths below are relative to the repository.

## The system

| part | state it keeps | operations | talks to |
| --- | --- | --- | --- |
| channel (`src/messaging/channel.cpp`) | subscriber lists per queue, broker connection, consumers and their threads, two mutexes | `open`, `close`, `subscribe`, `unsubscribe`, `unsubscribe_all`, `publish`, `accept`, `dispatch` | called by communicators and the station; calls `on_message_received` of communicators from consumer threads |
| consumer (`channel_consumer.cpp`) | its connection, its queue, the message being read | `consume`, `stop` | one thread per subscribed queue; reads broker frames, calls `dispatch` |
| communicator (`communicator.cpp`) | nothing of its own | `subscribe`, `unsubscribe`, `is_subscribed`, `send`, the destructor | opens channels through the station; its destructor leaves every list |
| station (`station.cpp`) | identifier -> channel, without a lock | `open_channel`, `close_channel`, `is_channel_open`, `shutdown` | any thread; `shutdown` is called by `algol_cleanup` |
| message (`message.cpp`) | body, properties, headers, queue | copy, `serialize`, `deserialize` | `publish` and `consume` |
| admin console (`src/admin/console.cpp`, `connection.cpp`, `bot.cpp`) | acceptor, bots, connections with buffers and a dispatcher | `launch`, `accept`, `read`, `send`, `stop`, `close`, `shutdown` | handlers of a boost::asio event loop, some on strands |
| dispatcher (`src/admin/dispatcher.cpp`) | handlers per message, queue of events | `bind`, `unbind`, `reset`, `deliver`, `dispatch` | connections, bots, algolSH delegates |
| algolSH (`src/algolSH/`) | delegates, readline state | `run`, `quit` | a client of the console; loads plugins |
| configurator (`src/configurator.cpp`, `configurable.cpp`) | subscribers per context, state of a JSON parse | `subscribe`, `unsubscribe`, `run` and its callbacks | calls `set_option` of configurables; includes files recursively |
| monitor (`src/monitor.cpp`) | counters, averages, names | `track_*`, `inc_stat`, `dec_stat`, `avg_stat` | - |
| plugin manager (`src/plugin_manager.cpp`) | libraries, plugins, an initialised flag | `load_plugin`, `unload_plugin`, `install_plugin`, `uninstall_plugin`, `initialise_plugins`, ... | calls back and forth with plugin code |
| analytics (`src/analytics/`) | trees of sheets, trackers attached to them | `attach_sheet`, `detach_sheet`, `commit`, destructors | sends through a communicator |
| Lua engine (`src/lua/engine.cpp`) | a Lua state, a corrupt flag | `start`, `stop`, `restart`, `invoke`, `on_error` | scripts |
| start-up and clean-up (`src/algol.cpp`) | singletons | `algol_init`, `algol_cleanup` | everything |
| logging (`src/log_manager.cpp`, `logger.cpp`) | the appender of a log4cpp category, category objects | `init`, `configure`, `cleanup`; construction, copies, `assign_uuid` | every part logs; the log manager is a configurable |
| text and digests (`src/utility.cpp`, `md5.cpp`) | the MD5 context | `html_encode`, `split`; `update`, `finalize` | - |
| identifiable (`src/identifiable.cpp`) | a UUID, children | `__set_uuid`, `__add_child`, copies | logs and messages name objects by it |
| HTTP values, files, regular expressions, bindings | - | - | - |

The hard part is messaging: application threads and one consumer thread per queue share the
subscriber table and the connections, handlers run inside `dispatch` with a non-recursive mutex
held, the broker may refuse or drop any connection, and communicators are destroyed while messages
arrive. The console is the other concurrent part (asynchronous handlers that delete the objects
other handlers name). The rest is sequential, and hard through its sequences of calls and
callbacks. What each part must get right is listed, at its line, as the hazards of PROJECT.json.

## Modules

| module | what it is |
| --- | --- |
| `PubSub` | what a channel promises, without threads or locks: members of a queue, a message owed to exactly the members at the moment it is taken, one message at a time, membership changing only in between |
| `Channel` | one open channel, the communicators that subscribe to it and its consumer threads |
| `MCChannel` | small instances of `Channel` |
| `ChannelProofs` | the inductive invariant of `Channel`, its safety invariants, and the silence after `unsubscribe`; that `Channel` implements `PubSub`; that nothing calls a destroyed communicator |
| `Station` | the table of channels: opening, publishing, listening, closing, shutdown |
| `MCStation` | small instances of `Station` |
| `StationProofs` | the inductive invariant of `Station` and its safety properties |
| `Delivery` | a message from `publish` through the broker's queue and the frames to `dispatch` |
| `MCDelivery` | small instances of `Delivery` |
| `DeliveryProofs` | the inductive invariant of `Delivery` and its safety invariants |
| `Console` | the administration console: its accept loop, connections, dispatchers and bots |
| `MCConsole` | small instances of `Console` |
| `ConsoleProofs` | the inductive invariant of `Console` and its safety invariants |
| `Plugins` | the plugin manager and what it calls of its plugins |
| `Shell` | algolSH, with its three threads and its connection; owns a plugin manager and so EXTENDS `Plugins` |
| `MCShell` | small instances of `Shell` |
| `ShellProofs` | the inductive invariant of `Shell` with its plugins, and its safety invariants |
| `Configurator` | the configurator's parse of a sheet and of those it includes, and the configurables that subscribe to contexts |
| `MCConfigurator` | small instances of `Configurator` |
| `ConfiguratorProofs` | the inductive invariant of `Configurator`, its safety invariants, and who is told what |
| `Engine` | the Lua engine as a call stack that errors unwind |
| `Logging` | the log manager's appenders and the loggers' category objects |
| `MCWrappers` | small instances of `Engine`, `Logging` and `Identifiable`, one at a time |
| `Analytics` | sheets, the trackers that share them, and who deletes whom |
| `MCAnalytics` | small instances of `Analytics` |
| `Monitor` | statistics and cumulative averages, in words of any size |
| `AdminMessage` | the text format of the console's messages, and one buffer of a connection |
| `Digest` | the MD5 context: what it makes of chunks of any size |
| `Html` | `html_encode` and the buffer it writes to |
| `MCComputations` | small instances of `Monitor`, `AdminMessage`, `Digest` and `Html`, one at a time |
| `ComputationProofs` | the inductive invariants of `Monitor`, `Html` and `Digest` and their safety invariants; the round trip of `AdminMessage` |
| `Identifiable` | objects with a UUID that is handed down to children |
| `WrapperProofs` | the inductive invariants of `Engine`, `Logging`, `Identifiable` and `Analytics` and their safety invariants |

### Channel

A thread has a program counter, and a step is what it does between two points at which another
thread can interfere; everything under `subscription_mtx_` would be one step but for `accept`, which
talks to the broker and can throw, and for `dispatch`, whose handlers run application code. So
`subscribe` is `CallSubscribe`, `SubscribeLock`, then `SubscribeRefused` or `FindQueue`, the latter
followed by `AcceptStarts`/`AcceptThrows` for a new queue, and `Push`. `unsubscribe` is
`CallUnsubscribe`, `UnsubscribeLock`, and `UnsubscribeRefused` or `Erase`. `~communicator` is
`Destroy`, a `Walk` over the keys of the table that calls `unsubscribe` for each (unlocked, as in the
code), and `Destroyed`. A consumer's thread goes through `ConsumeStarts`, and then round
`Receive`, `DispatchLock`, `CallHandler` and `HandlerReturns` for each subscriber, `DispatchEnds`;
`ConnectionLost` ends it and `ProcessDies` ends the process (the uncaught `connection_error` of
`consume`, its `abort`s).

| variable | code |
| --- | --- |
| `keys`, `subscribers` | `subscribers_`; a list is kept for every queue, `keys` says which have an entry |
| `mutex` | `subscription_mtx_` |
| `pc`, `queue`, `comm` | where a thread is and the arguments of its call; for a consumer, `queue_` |
| `todo` | what the range-for of `unsubscribe_all` has yet to visit |
| `cursor`, `callee` | the iterator of `dispatch`, and whose handler it is in |
| `life` | whether a communicator exists |
| `running` | the process |

`WalkTorn` stands for the data race of `unsubscribe_all` with the insertion of a key: the walk may
miss a key. `Reentrant` communicators have handlers that call back into the channel; their thread
then waits for a mutex it holds itself (`stuck`).

Abstracted: messages (a dispatch does not look at their content), the broker connection (it fails or
it does not), frames, and `is_subscribed` called from outside, which only reads. The channel is open
throughout: `close` belongs to `Station`.

### Station

`channels` is the table, and `state` follows a channel object through `new`, `open`, `closed`,
`deleted`. `Call` starts one of the calls that open a channel first; `Found` or `Create`, `Connects`
or `ConnectThrows`, and `Insert` are the steps of `open_channel`, which holds no lock: another thread
may come between the lookup and the insertion. `PublishLock` and `PublishEnds` are `publish`;
`Attach` is the first subscription to a queue, which starts a consumer. `CallClose`, `StopConsumer`
and `Join` are `close_channel` and `channel::close` in the order of the code, `CallShutdown`, `Sweep`
and `ShutdownEnds` are `shutdown`. Using what was freed (`UseClosed`, and the flags in `Join`,
`Dispatched` and `AcceptorEnds`) may or may not kill the process. `Relinking` stands for lookups and
insertions that overlap the insertion of another thread. `raced` is a history: the threads that created
a channel while another was creating one, until their calls return. It is what `AnswersAgree` excepts: everybody
else who names an identifier has its registered object in hand.

Closing is done by one thread, `Closer`, which also shuts the station down when no call is under
way, as `algol_cleanup` at the end of `main` does. One consumer per channel is kept.

### Delivery

| variable | code |
| --- | --- |
| `sent`, `ready` | what was published, and the broker queue `queue_ + "_queue"` that all consumers of a queue share |
| `link`, `wire` | a consumer's connection `conn_` and the frames that wait to be read from it |
| `at` | which of the three calls of `amqp_simple_wait_frame` in `consume` is next; `aborted` for its `abort`s |
| `msg`, `received`, `body` | the properties of the header read last, `body_received`, `body` |
| `dispatched` | the messages passed to `channel::dispatch`, whose own steps are those of `Channel` |

`Publish` is `publish`: `Published` is the message after `clone` and `serialize`. `ReadMethod`,
`ReadHeader`, `ReadBody` and `WaitFails` are the waits of `consume` with what follows each of them;
`Process` is what comes after the body, `Deserialized` and `Accepts` included. The broker is
external: `Deliver` hands the oldest message to any consumer, as method, header and body frames in a
row (the protocol allows no other method of a channel between them); `OtherMethod`, `CloseOk` and
`Lose` may come between two messages, and `Lose` cuts the stream anywhere.

A body is a sequence of pieces, each of them as many bytes as one frame carries, so that a body
target in bytes is a number of pieces. The piece `Zero` is one whose first byte is zero, where
`amqp_cstring_bytes` ends the body. Properties that nothing here tells apart are left out. So is
sending on a message that was received: `serialize` would announce a table of headers that `clone`
left uninitialised.

### Console

| variable | code |
| --- | --- |
| `phase`, `io`, `alive` | the console object, the `io_service`, the process |
| `accept`, `newConn`, `busy` | the `async_accept`, `new_conn_`, and the io thread between the two halves of `handle_accept` |
| `bots`, `closes` | `bots_`, and the handlers of `console::close` on the console's strand |
| `life`, `peer`, `stopped` | a connection object with its bot, its client, and whether `stop` has shut the socket down |
| `sent`, `inbox`, `reading` | the client's requests, those on the wire or in the socket, and the `async_read_until` |
| `events` | the dispatcher's `events`, each with the `dispatch` posted for it |
| `sends`, `replies` | the posted `do_send`s, and what was written |

One thread runs the `io_service`, as in `console_test` and in the `main` of algolSH, so a handler is
one action: `OnRead`, `OnReadError`, `Dispatch` (with the handlers of the bot), `DoSend`, `Close`,
`AcceptFailed`. The exception is `handle_accept`, whose second half (`AcceptNext`) sets `new_conn_`,
which `shutdown` of the main thread resets: that race is kept, between `HandleAccept` and `AcceptNext`.
The handlers of one strand and kind keep their order; those of different queues come in any order.
`Shutdown`, `Delete` and `StopIo` may come at any time. `Connect`, `Request` and `Disconnect` are the
clients, which are external.

Deleting a connection under its posted handlers is possible in the code and in the model
(`StopsAllOperations` does not hold): `UseFreed` and the second branch of `Close` then end the process or have no effect.

Abstracted: a request is two halves, of which the tail holds the whole footer (a request cut inside
its footer is not distinguished from one cut before it); `Parsed` gives every outcome `from_stream`
can have on a buffer (the format itself is `AdminMessage`), `Merged` the properties that `inbound_` keeps from one message to the next. The
next connection object is any fresh one (`CHOOSE`; they are alike). `set_option` and
`register_bot_maker`, called before `launch`, are left out.

### Shell and Plugins

`Shell` is `main.cpp` with `algolSH::run`. `main` is where the main thread is: it connects, loads the
plugins file line by line, starts the other threads, waits for a signal, stops the `io_service`,
joins the thread in `run`, and destroys the shell (the connection first, the plugins after it).
`feeder` is the thread in `run`: initialise the plugins, ask for the commands and wait for
`help_populated`, bind the delegate and the refresh, prompt; or, when not interactive, feed the one
command. `io` is the thread of the `io_service`: `Send`, `Read`, `ReadError`, and a dispatch in its
steps (`Dispatch`, `HandleHelp`, `FindUnassigned`, `HandleNext`, `Dispatched`), since the other
threads bind handlers and delete the connection meanwhile. That thread is detached, so it may still run
when the connection is gone (`UseFreed`); it is not followed further than the end of `main`.

`handlers` is the dispatcher's table, `todo` what the loop of `dispatch` has yet to call. The data
races of `help_populated`, which resets the table it is called from, and of `bind` with a dispatch
may end the process or go by unnoticed. `HandleHelp` is both parts of the handler, with
no handler of a help answer left after it.

`Plugins` has the manager's `init_`, `dyn_libs_`, `plugin_libs_` and `plugins_`, and in `calls` the
history of what it called of each plugin. Its operations are actions that `Shell` composes: `Load` with
`LoadThrows` and `Loaded` are `load_plugin`, through `dllStartPlugin` and `install_plugin`;
`UnloadPlugins` is the same way back. Plugins behave as `plugin.hpp` asks: a library has one
plugin, and its callbacks neither throw nor call the manager. `init_` starts with any value, as the
constructor does not set it.

Left out: command lines, completion, readline and the printing of answers; operations of the manager
that neither the shell nor the tests call (`unload_plugin` of a single one).

### Configurator

`subs` is `subs_`; `parsers` is the stack of configurators, since a sheet that includes another one runs
a new configurator inside its own handler. A parser has the handlers' state (`depth`, `key`,
`subs` for `curr_subs_`) and the sheet's own structure (`open`), which they do not see: a sheet is any
well-formed JSON map, taken token by token, or a prefix of one, because `run` never asks yajl to complete
the parse. One action is one handler: `MapStart`, `MapKey`, `Option` and `OptionIsMissing` and `Include` (three ways
through `__on_json_map_val`), `MapEnd`, `ArrayStart`, `ArrayEnd`; `Scalar` is what no handler is called
for. `calls` are the calls to configurables the last token led to.

Configurables come and go between two runs (`Construct`, `Destroy`, `CopyConstruct`, `Assign`), and
`SubscribeDirectly` is the call of `algol_init` that subscribes the log manager. `tidy` is not in the code: it
records whether the sheet so far keeps to what the handlers provide for. `InStep` and `ToldInTurn` speak of
tidy sheets and say in their comments which these are. Left out: a configurable that subscribes or dies
inside a handler (none does), and `current_ctx_`, which nothing reads.

### Engine

Scripts call back and fail anywhere, and the error handler stops the engine, which runs a
script. So `stack` is the call stack, with a frame for each method under way that says where it is; `Throw`
unwinds it to a handler. `StartOff`, `RunFails`/`RunLoads`, `StartLookup` and `Started` are `start`; `StopOn`,
`StopOff` and `Close` are `stop`; `OnError` and `Caught` are the error handler before and after it stops the engine. The options
are in `config` and begin with any value, as no constructor sets them, and `asserts` says whether the
build has assertions. `fault` is how the process ended, if it did. `MaxCalls` stands for the size of the call
stack; `unstoppable` records that an `Algol.stop` failed, the one thing the handler is not safe from.

### Logging

`mgr` has the manager's pointers and the two options that matter. Appenders are numbered as they are made; `attached`
says on which category they are, `freed` which of them log4cpp has freed. `heap` has the category objects that
loggers own, `log` is the pointer of each logger. `Configure` and `ConfigureFails` are `configure`, whose creation of the log
directory can throw between the two appenders. What is undefined ends the process or not (`sound`), and `blame` collects what
the clients did that the code does not provide for: `LoggingIsDefined` says that nothing undefined happens
to those who did none of it. Levels and layouts are left out, but for the header's layout, which is deleted while
the appender owns it.

### Analytics

A sheet knows its parent, its nested sheets and the trackers on it; a tracker has a pointer to its sheet.
`AttachSheet` and `BuildSheet` are the two ways to get one, `Nest` is `operator[]`, `Delete` the destructor of a sheet with those
below it (`Tree`, the least set with the sheet that is closed under nesting), `DestroyTracker` that of a tracker, `Commit` what a commit sends. Stats are one
flag. `causes` collects what leaves a pointer dangling: copying a tracker, `set_parent`, and the death of a tracker of a nested sheet
before the sheet.

### Monitor, AdminMessage, Digest, Html

These compute, and keep little state. The sizes of words are constants: what the code does with 16 and 64 bits holds
or fails for the same reason with three identifiers and six values, and the proofs hold for all sizes.

`Monitor`: `averages` keeps with each average, besides the code's `pop` and `val`, the sum and the least of what was entered,
which the properties compare it with. `Entered` is the update, `Overflows` the test before it.

`AdminMessage`: texts are sequences of characters, as the properties are about where a field ends. `ToStream` is
`to_stream`; `Header`, `Body`, `Accepts` and `PastFooter` are the parts of `from_stream`, and `FromStream` and `Read` what
a connection does with its buffer. The checksum is a constant operator, and may be negative, as the code's `int` may. What streams do with
numbers (`Text`, `Number`) and `split` are recursive functions; `Leading` is how far a stream or `getline` reads.

`Digest`: `Updated` is `update` with its copying into the block's buffer, its whole blocks and its rest; `Finalize` pads. What
`transform` computes is left uninterpreted: `blocks` lists the blocks it was given. Clients pass `Message` in chunks of any size.

`Html`: a byte is one of eight kinds, by what the encoder makes of it; the length of an entity is any that
there is for such a character. `Outsz` is the size of the buffer.

### Identifiable

An object's UUID is given once and handed to its children, by recursion. `calls` is that recursion, one per call of
`__set_uuid` with the place of its loop, because the calls meet each other: an object is added to two parents, to one twice, or
below itself. A call that finds a UUID throws (`Refused`), which unwinds them all and leaves the part of the family that has been told with it.
Nobody takes a destroyed child off its parent's list: `HandDownToDestroyed` is then a call on what is left of it.

## Runs

| run | question | instance | expected |
| --- | --- | --- | --- |
| `channel` | is the table consistent, and does the channel implement `PubSub`, under every interleaving? | 2 application threads, 2 communicators, 2 queues, 2 consumer threads, one re-entrant handler | pass |
| `channel_teardown` | is a destroyed communicator never called, does every call return, does a message reach its subscriber? | 1 application thread, 1 communicator, 2 queues, 2 consumer threads, fairness | pass |
| `station` | do the table and the connections survive two threads, closing and shutdown? | 2 threads, 2 channel identifiers, 3 channel objects | pass |
| `delivery` | does what is dispatched have the body it was sent with, at somebody it is for, with the consumer in step with the broker; and is what reaches a connection that lasts dispatched? | 2 applications, 3 messages, consumers fair | pass |
| `delivery_headers` | does a message keep its headers? | 2 applications, 1 message | violated |
| `console` | does the console keep accepting and listing its bots, and does each client get the replies it asked for, in order? | 3 connections, 2 requests | pass |
| `console_fair` | is a request read by itself answered, is the connection of a client that left deleted? | 2 connections, 2 requests, io thread fair | pass |
| `shell` | do plugins live and die in order, are answers shown, does quitting end the shell? | 2 plugins, a file of up to 2 lines, 2 commands, threads fair | pass |
| `configurator` | is each subscriber told of what is in its context, in order, and never after its death? | 2 configurables, 2 contexts, 5 open maps, arrays and sheets, 2 sheets deep | pass |
| `wrappers` | do errors of the engine end, with its state closed once; is a message logged once, and is logging defined; does handing down a UUID end, and reach the whole family? | 3 Lua states, 12 frames; 3 appenders, 2 loggers, 2 category objects; 3 objects with up to 2 children, one UUID, 6 calls | pass |
| `analytics` | are pointers between sheets and trackers sound, is every sheet deleted in the end, does a commit send all? | 3 sheets, 2 trackers | pass |
| `computations` | do averages lose only what is rounded off, and stay in range, are identifiers unique, do chunks add up to the padded message, do messages arrive as they were sent, is the HTML buffer large enough? | words of 3 and 6 values; 42 bytes in blocks of 4; 2 messages; texts of 4 bytes | pass |

Bounds of `Channel` and `Station`. `Acceptors` bounds the consumer threads and `Objects` the channel objects; there is nothing
else to bound, since communicators and queues come back to their first state. Two consumer threads
and two application threads are enough for each kind of contention for the mutex: caller with
caller, caller with consumer, consumer with consumer. Two communicators on a list let the loop of
`dispatch` stand on a first, middle (after an erasure) or last element. Three channel objects let two
threads race for one identifier while the other is opened. Deadlock is not checked: the process may
end, the application may stop calling, and a re-entrant handler does deadlock.

Bounds of `Delivery`. Each of `Messages` is published at most once, and another method is sent only on
an idle connection (two in a row are read like one). The three messages are one for everybody, of
four pieces that are cut at the zero byte to two, an empty answer, and one of a foreign client
whose first piece is zero: an empty, a longer and a cut body, in every order on two connections, are the cases of
the counting loop; a first, an own, a foreign and a directed message are those of the filter. Both
hold for more by the proofs.

Bounds of `Console`. `Conns` bounds the accepts: of three connections two can serve while the console
waits with the third. `MaxSent` bounds the requests of all clients together: two on one connection
arrive in one buffer, in two, or cut anywhere, and two on two connections show what leaks between
them. When no connection object is left, `NextAccept` and `Connect` are disabled, which only takes
behaviours away.

Bounds of `Shell`. `MaxFile` lines of the plugins file (so that a library can be listed twice, or two
be loaded in either order) and `MaxFeeds` commands (so that answers can be out of order). The request
for help is not counted.

Bounds of `Configurator`. `MaxOpen` counts the open maps and arrays of all sheets, and the sheets: a
context at the top, a map in it, an array and one more is where every condition on depth and key differs.
`MaxParsers` is two, so that a sheet is included while another one is in any state; included
sheets share nothing with the ones that include them but `subs`. A sheet that includes itself recurses without
bound in the code (`configurator.cpp:261`); the bound cuts it. `MaxListed` lets a context have two subscribers, or an object be
listed twice.

Bounds of `Engine` and `Logging`. Three states let the engine be restarted within an error; the deepest chain of calls
without an `Algol.stop` that fails takes six frames, so that twelve are reached only by the
recursion. Three appenders let one be replaced before and after a cleanup. Two category objects let one be shared, and the
other be forgotten by an assignment. `MCWrappers` runs one of the two at a time, which have nothing in common; the engine's options
are not varied while the loggers run.

Bounds of `Analytics`. Three sheets are a chain of two nestings or two sheets nested in one; two trackers share a sheet or
have one each, and one is copied. Objects are not made again.

Bounds of the `computations`. `MaxTracked` exceeds `IdSize` by one, so that an identifier is handed out twice; values
below six make the products of four updates overflow. Blocks of four bytes with words of one byte: 42 bytes are 336 bits, more than
one word holds, and end at any offset of a block. Two messages of at most two properties make a buffer with one, two or a cut
message, and `MaxLength` is met exactly. Texts of four bytes hold the longest character, and the room that is needed for a text is
the sum of its characters'.

Bounds of `Identifiable`. Three objects of two children make every kind of graph the recursion can meet (a child twice, two parents,
circles of one to three). Six calls are more than any UUID needs, and as few as a circle with "0" takes to overflow.

The safety runs of `Channel`, `Station`, `Configurator`, `Analytics`, `Monitor` and `Identifiable` use symmetry over threads, queues, objects and names that nothing tells apart; the runs with liveness do not.

Fairness (`FairSpec`, run `channel_teardown`). A thread that can go on does (weak fairness of
`AppStep` and `AcceptorStep`, which assumes that handlers return); a thread that waits for the mutex
while it keeps becoming free gets it (strong fairness of the lock steps: an operating system's
scheduler with a fair wait queue, weaker than first come, first served). Nothing is assumed of the
application's calls or of the broker: messages, lost connections and failures may or may not happen.

In `Delivery` only the consumer is fair (`Consume`, run `delivery`): the wait for a frame that is
there returns, and the wait on a lost connection fails. Publishers and the broker may stop.

In `Console` the `io_service` runs each handler that is ready (run `console_fair`; weak fairness of the
handlers, as its queue is first come, first served). `AcceptFailed`, the clients and the main thread
need no fairness. In `Shell` each of the three threads goes on when it can (weak fairness of
`MainStep`, `FeederStep`, `IoStep`); the user and the server may do nothing.

Nothing is fair in the other modules: they have no liveness properties. What must end there is a call, and that it does
is an invariant of the call stack (`ErrorsEnd`, `SettingEnds`).

The violated run shows headers that `clone` does not copy (`message.cpp:66-81`); it is a finding in
PROJECT.json.

### Documented, and not so

Some statements of the headers do not hold of the code. Each is a definition with a comment in its module and
can be given to TLC with the configuration of its module's run, which then refutes it.

| property | what the code does |
| --- | --- |
| `SubscribedQueueHasConsumer` (`Channel`) | a failed first subscription turns a retry into a subscription to nothing (`channel.cpp:153-156`; `communicator.hpp:78-79`) |
| `OpenedIsOpen` (`Station`) | closed channels are handed out as open (`station.cpp:77-92`; `station.hpp:55-58`) |
| `ListenerNotified` (`Delivery`) | a competing consumer takes and drops a message (`channel_consumer.cpp:192-203`; `communicator.hpp:78-79`) |
| `StopsAllOperations` (`Console`) | `stop` leaves handlers of a connection about to be deleted (`connection.cpp:64-77`) |
| `ContextIsHeeded` (`Configurator`) | a context with a plain value keeps its subscribers current (`configurator.cpp:341`; `configurator.hpp:66`) |
| `AverageIsMean` (`Monitor`) | what the divisions round off adds up (`monitor.cpp:155`; `monitor.hpp:44`) |
| `StartedHasRun` (`Engine`) | `start` after a script that could not be loaded returns true (`engine.cpp:112-147`; `engine.hpp:55`) |
| `ChildrenAreManaged` (`Analytics`) | `set_parent` does not change the list of children (`sheet.cpp:106-109`; `sheet.hpp:133`) |
| `NamedCategoryIsWritten` (`Logging`) | `init` after the constructor only renames the category, and what is logged by that name is lost (`log_manager.cpp:68-72`; `log_manager.hpp:81`) |
| `UuidIsFinal` (`Identifiable`) | an assignment copies over a UUID that is set (`identifiable.cpp:46-57`; `identifiable.hpp:52-53`) |
| `NothingIsDropped` (`Html`) | a last character that is cut short is dropped, and true returned (`utility.cpp:456-457`) |

Others are conditions of the properties that hold, named in their comments: messages whose identifier begins with a digit or whose names
and values have commas do not survive `from_stream` (`RoundTrip`); copies of trackers and loggers dangle (`PointersAreSound`,
`LoggingIsDefined`); the log header's layout is deleted while the appender has it (`log_manager.cpp:225`); a refused
registration returns 0, and `avg_stat(0)` reads the last entry of an empty vector (`monitor.cpp:135-136`).

## Proofs

The proofs hold for every value of the constants that the assumption of the module allows:

| module | for every | assumed |
| --- | --- | --- |
| `ChannelProofs` | number of threads, queues and communicators | threads and consumers are different, `None` is none of them |
| `StationProofs` | number of threads, identifiers and channel objects | `Closer` is a thread, `None` is no thread and no object |
| `DeliveryProofs` | number of applications and messages, length of body | messages are well typed and told apart by their `id` |
| `ConsoleProofs` | number of connections and requests | connections are finitely many, `None` is none of them |
| `ShellProofs` | plugins, length of the plugins file and number of commands | the generic target is no plugin |
| `ConfiguratorProofs` | number of configurables and contexts, depth of sheets and of includes | no context is named like the directive `include`, or `Unknown`, or is empty; a parser may run |
| `WrapperProofs` | number of Lua states, appenders, loggers, objects and UUIDs, sheets and trackers | sheets and trackers are different, and none is the null pointer; a call stack has room for six frames, no category has one of the names that mark a missing or deleted one, and handing down may go deeper than there are objects |
| `ComputationProofs` | size of a word and of a block, number of names, length of a text or a message, alphabet, checksum, and names and values of a message's properties | there is an identifier and a value at least, and fewer updates than values; the count of bits fits a block, and a word counts a whole number of blocks; texts are of the alphabet, which has the format's own characters, checksums are integers, and a feedback is below `sanity_check` |

`IInv` in `ChannelProofs` is the inductive invariant. The safety invariants are not inductive by
themselves: that `FindQueue` adds no second consumer needs to know that a queue without an entry has
no consumer and that nobody else is between finding the entry missing and starting a consumer;
that `Push` adds no duplicate needs to know that the list is still as `subscribe` found it. Both
follow from the mutex: `TableInv` says what a thread inside its critical section may rely on,
`ArgsInv` that a call has the arguments its point needs, and `MutexInv` that there is at most one such
thread. `Inductive` has a step for each action; `Invariance` is `Spec => []IInv`, and `TypeCorrect`,
`MutualExclusion`, `SubscribedOnce`, `ConsumedOnce` and `IteratorValid` are its parts. `Silence` is the
action property of `unsubscribe`, from the same invariant and from `ErasedProperties`, what erasing
from a list without duplicates gives.

`Implementation`: each step of `Channel` is a step of `PubSub` or leaves its
variables alone. The lists are the members; what is owed is the rest of the list that the loop has
not passed.

`Destruction`: with at most one application thread (`SingleApp`, an
assumption of the theorem), the keys a walk has yet to visit are all of those whose list may still
name the communicator. With several threads it fails, because `unsubscribe_all` is not locked.

`IInv` in `StationProofs` says of each thread what it has in hand: whoever writes holds the lock of its channel
(`WritersHoldTheLock`, which is why two never write on one connection), a channel that is being connected is known to its thread alone
(`NewIsPrivate`), what is registered was open (`RegisteredWasOpen`), and the `Closer` closes what is open (`ClosingIsOpen`). That no lookup
finds a deleted channel (`PublishingIsSafe`) rests on `ShutdownIsAlone`: nothing is deleted before the shutdown, and nobody else is in a call by then.
`FreedConsumersAreStill` is one of the parts. `UnracedAgree` is what makes `CallersMeet` inductive: a thread that has not raced and is creating
a channel is the only one that is, so that what it registers is kept and what it looked up is still there.

`IInv` in `DeliveryProofs` adds to the types three things that none of the safety invariants says and
all of them need. `StreamInv`: the frames on a connection follow each other as those of whole messages
(`Formed`), to the end unless the connection is lost (`Whole`), and they go on where the consumer is
(`Reading`: the pieces read so far are a prefix of the body in the header, the next frames are the
rest of it). `GenuineInv`: every message in the queue, on a connection or in a consumer is one that
was published, as `clone` and `serialize` left it. `DispatchInv`: each dispatched message carries one
that was sent, in content and in recipient at once. The lemmas `Grown`, `Cut` and `Taken` say what
appending, cutting and taking frames do to a well formed stream, and `AfterDelivery`, `AfterHeader`,
`AfterPiece` and `AfterBody` what each wait finds; `CStringType` needs that a nonempty bounded set of
numbers has a maximum (`MaxExists`). From `Invariance` follow `TypeCorrect`, `StaysInStep` (no abort,
no frame of one message taken for another's), `Intact` and `Recipients`.

`IInv` in `ConsoleProofs` has a part for the acceptor (`Accepting`, with `NothingYet` for the console before its launch) and one for each connection,
`Pipe`. The order of the replies is not inductive: it says nothing of what is on its way. `PipeOf` relates the five sequences a request goes through: what
was sent and what of it is unread (`WireOf`: the halves of the last requests), the events, the posted `do_send`s, and the replies. Each is in order, and each is behind
the next (`OrderOf`); and each has the properties that its request, or an earlier one of the same connection, gave it (`ContentOf`). It is a statement
about any five sequences, so that a lemma for each step (written, read, refused, dispatched, sent) needs no state. From it come `RepliesComeInOrder` and, from `Accepting`, `AcceptsAlways`.

`IInv` in `ShellProofs` has two halves that have little in common. `LineInv`: what was shown was asked before what is in the four queues, and these are in order, all of them
and each (`Line`); the event that is being dispatched comes between them as long as a handler that shows it is still to be called (`Current`), and only one such handler is ever
bound (`BoundOnce`), so that nothing is shown twice. `Unwinding`: the manager's three lists are in step, and what was called of each plugin is the
`History` of the libraries loaded, of whether the shell ran and of whether its user quit. `HistoryGrows` and the lemmas after it say what loading, initialising,
shutting down and unloading make of a history; that its last part is the reverse of its first (`HistoryIsTold`) is `PluginsAreAlwaysUnwound`. `AnswersComeInOrder` follows from `LineInv`.

`ConfiguratorInv` in `ConfiguratorProofs` has three parts. `StackInv`: the open maps and arrays of each parser are `WellFormed` (only the innermost may want a key, and the outermost is a map),
the depth counts the maps among them, and a parser whose sheet is tidy `Follows` it. `InStep` is not inductive alone: that the subscribers are dropped when the map of a context ends, and at no other end, needs that
the value of a context in force is a map (the third part of `Follows`), since then a map at depth two is just the one opened second (`DepthOfContext`). `AfterOpening`, `AfterKey`, `AfterValue`, `AfterMapEnd` and `AfterArrayEnd`
say of one parser what each token makes of it. `ObjectInv`: who is in a list was constructed, and is alive and knows of the context unless his subscriptions went astray (`Due`); so the
destructor takes him out of every list that he is in (`WithoutIt`, on what `std::list::remove` leaves, a recursive function whose existence and type follow from there being no first entry where it fails). `CallsInv` says that the last
calls went to such objects. `TheParserIsInStep`, `WhoIsDueIsTold` and `TheDeadAreLeftAlone` follow.

`EngineInv` in `WrapperProofs` describes the call stack: which method waits for which (`Nested`), and that unless an `Algol.stop` fails each is no deeper than its `Level`
(`Shallow`), which is why handling an error never overflows. `ErrorIsHandled` follows an error to the handler that is still on the stack, and `StateIsKept` says when the
state is open. Neither `ClosedOnce` nor `ErrorsEnd` is inductive without them: that `Close` does not close a null state needs to know who can have called it.
`LoggingInv` adds to `LoggingIsSound` where appenders are attached (`OneCategory`, `AppendersAreMade`), and that every logger has an object of its own as long as none is copied (`LogsAreTheirOwn`).

`IdentityInv` describes the calls under way: all hand down the same UUID, each that has come to its children
has given it to its object, and so no two of them are for the same object, since the second would have found it there.
`HandingDownEnds` follows. `FamilyInv` says who has been reached: there is a set V of objects, all with the UUID, such that the children that a call
has passed are in V, or are no longer alive, or are just being called; and only an object of V whose own call is under way has other children.
When the outermost call returns no other is under way and nobody is just being called, so V with the dead is closed under children and holds the whole family: `TheFamilyIsTold`.

`AnalyticsInv` says what sheets and trackers know of each other: a sheet is nested in one other at most, its parent (`NestedAreOwn`, until `set_parent` is called), a tracker is known to
one sheet at most, its own (`TrackersAreOwn`, until one is copied), and what is gone points to nothing (`GoneIsBare`). `PointersAreSound` needs all of it when a tracker deletes a tree: only
the trackers of that tree may point into it, and no sheet outside it may have one of it for its parent. `NoSheetIsLost` is not inductive, as it follows parents and the destructor
follows the lists: `AllAreHeld` says it of the lists, the two ways up and down agree (`AncestorsOfTree`, `TreeOfAncestor`), a tree that is not deleted stays
whole (`TreesRemain`), and a sheet without a parent is in no tree but its own (`RootIsAlone`), so that deleting one tree leaves whoever is held by another. Each fact about trees is one about least closed sets,
which needs no induction. `PointersAreAlwaysSound`, `EverySheetIsHeld` and `CommitsAreComplete` follow.

`IInv` in `ComputationProofs` adds to the types of the monitor that each average is `Sound`: it is at least the least entry, and its
product with the population fits a word, is at most the sum of the entries, and falls behind it by what was rounded off only. That is
inductive and no part of it is: each needs the sum that is divided not to have wrapped around, which is what the test of `Overflows` is for (`SumIsExact`: behind it the
arithmetic of words is that of numbers; `OverflowIsReal`: it stops nothing that fits), and the test is right only while the product fits. `RoundingGrows` is the step of the error. `DivBound` and `DivGreatest` say what rounding does; `EnteredIsSound` puts them
together, and is where the algorithm's correctness lies. `IdsInv` ties the counter to the names handed out. From `Invariance` follow
`TypeCorrect`, `RoundingErrorIsBounded`, `AveragesAreInRange` and `IdentifiersAreUnique`, and of the step `SumsNeverWrap`: `OverflowIsCaught`, which TLC confirms
with `PROPERTY OverflowIsCaught` in `Computations.cfg`, says more of the test than the runs need.

`HtmlInv` bounds what is written by the bytes it stands for: one for each, and six more for each that is counted (`CharacterIsBounded`: a name or number of ten bytes
stands for two bytes at least). With what is left of the text that is less than the buffer (`BufferHasRoom`), so the loop never ends for want of room: `TheBufferIsEnough`.

`DigestInv` says that a context that is not finalized `Took` the bytes passed so far: its count is their number in bits (`CountedIs`, on the carry), its blocks are their whole blocks,
and what follows these begins the buffer. The buffer's fill can be read off the count although that overflows, since a word is a whole number of blocks (`FilledIs`). A chunk that does not fill the
buffer and one that does keep that (`ShortIsTaken`, `LongIsTaken`). Finalizing takes two more chunks, which are just what completes the padded message: the number of zeros is the only
one that fits (`PadLengthIs`), and the bytes of the two words are those of the length (`EncodedIs`). `ThePaddedIsDigested` follows. It needs little of division but that quotient and rest are unique (`DivModOnly`).

`MessagesArrive` needs little of an invariant (`WireInv`: the buffer is text, the queue is of messages). It rests on what the recursive functions compute. That they exist
is `Recursion`: a function that refers to itself only at what ranks lower is built rank by rank, and the ranks below any number are reached by `UpTo`. `OfAllRanks` then
proves what holds of all their values: `Number` inverts `Text` (`NumberOfText`), and `Split` takes off what is before a comma (`SplitAtComma`). A field is found because what follows it
cannot belong to it (`LeadingOfParts`): behind the first length stands the identifier, which does not begin with a digit, or a raw byte; behind the others a space (`HeaderIs`, `BodyIs`).
The list of names and values is split into just the pairs that were joined, property by property (`PairsSplit`), where the erased comma is made up for by the end of the text, unless the last value is empty (`FlattenedIs`).
To set these is to put the properties on top of the old ones (`SetPropertiesIs`), and `PlainArrives` puts it together.

Only model-checked: the liveness properties (`CallsReturn`, `MessageReachesSubscriber`, `DeliveredIsDispatched`, `AloneIsAnswered`, `GoneIsDeleted`, `AnswerIsShown` and
`QuitEnds`), as liveness under fairness is out of the prover's reach. Every other property of a run that passes is stated by a theorem.

## Not modelled, and the plan

1. `ChannelClose`: `close` against `dispatch` and `publish` in `Channel`'s detail, in place of the
   summary in `Station`; and sending on a received message, in `Delivery`.
2. Proofs: of what the liveness properties wait for, that each step brings it nearer (a measure that decreases), which is the part of them that is safety.

Observed while reading, and in no run: a shell that is not interactive never ends when the server
does not answer (`algolSH.hpp:77-78`), an interrupted interactive shell waits in `join` for its user to quit
(`main.cpp:161`), `shutdown` of the station leaves the channels, with their consumers, that another thread
kept out of the table (`station.cpp:77-92,116-124`), `remove_in_string` removes one occurrence less than asked
(`utility.hpp:225-230`), `html_decode` writes through a null pointer (`utility.cpp:540`), copies of a
regular expression share what they compile (`regex.cpp:64-67`), and `request::get_header` never finds one (`http/request.cpp:119-129`).

Left out for good. The Lua bindings are generated by SWIG and binreloc is vendored: together more than a third of the lines
under `src/`. The layouts of log lines, the values of HTTP messages with their stock replies, and the table of HTML entities are formatting
and data. `file_manager` and `regex` call the file system, curl and PCRE and keep no state that two
steps share. The other helpers of `utility.hpp` are functions of
one string. The transform of MD5 is the RFC's algorithm on 32-bit words.
