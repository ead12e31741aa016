# A TLA+ model of cftp_server

cftp_server is an FTP server in C on top of libevent and OpenSSL. One parent
process accepts control connections and forks a child, the *session*, for each.
This directory holds the specifications of the session, of the parent and of the
parts they rest on (command reader, login, file commands, passive ports,
configuration, hash map), the TLC configurations that check them on small
instances and the TLAPS proofs of their invariants for instances of any size.
Paths below are relative to the repository root.

## Inventory

| component | state | operations | interacts with |
|---|---|---|---|
| control connection (`src/engine/control_handler.c`, `src/core/connection.c`) | control bufferevent, `control_write_cb`, `timeout_event` | greeting, reply, deferred `on_write`, `AUTH TLS` upgrade, authentication timeout, end of connection | every handler replies through it; `on_write` closes data connections and ends the process |
| commands (`src/engine/command_parser.c`, `src/actions/command_actions.*`) | `authenticated`, `data_tls_required`, command registry | one pair of handlers for each command, chosen by the login state | all others |
| data connection (`src/engine/data_handler.c`) | `pasv_listener`, `data_bev`, `data_active`, four callbacks, `data_stream`, `upload_fd` | PASV/EPSV, accept, handshake, read, write, event, close, listener timeout | transfers install the callbacks, the event loop runs them |
| transfers (`src/actions/list.c`, `retr.c`, `stor.c`) | the fields of the data connection | LIST, NLST, RETR, STOR, ABOR and their callbacks | data connection, control replies, file system, parent (names) |
| parent (`src/engine/main.c`, `src/core/connection.c`, `server_state.c`) | `current_connections`, children, pipes, socket pairs | accept and fork, SIGCHLD | sessions, through the descriptors fork copies |
| IPC (`src/ipc/interprocess_handler.c`, `execute_root_command`) | request and answer in a socket pair, nested event loop | ask, answer, reply callback, end of the socket pair, kill switch | session and parent |
| framing and parsing (`on_read`, `parse_text_command`) | input buffer of the control connection | one read is one command; quotes, escapes | commands |
| hash map (`src/core/structures/hashmap.c`) | buckets with their chains, `length`, `elem_count` | create, insert, look up, resize, delete, free | command registry |
| passive port search (`data_handler.c`, `server_state.c`) | port range | try the ports of the range in turn | data connection |
| login (`src/security/auth.c`, `security.c`) | identity, root and working directory of the process | user and password database, `chroot`, `chdir`, `setgid`, `setuid`, path check | USER, PASS, file commands |
| file commands (`dele.c`, `command_actions.c`) | the file system | DELE, MKD, RMD, CWD, PWD, SIZE, MDTM, and STOR creating a file | shared by all sessions |
| configuration (`src/config_manager`) | configuration file, settings | seed, read, validate | parent, port range |
| logging, error texts | none | | |

What is hard here:

* A session is single threaded, but its handlers run in whatever order the two
  connections, two kinds of timer and deferred callbacks become ready. The
  handlers share one `connection_t` with raw pointers; whether a pointer or a
  callback is still good when the next one runs depends on the whole history.
* The reply to a command is often sent by a callback, and the callback is often
  triggered by the reply having been written. Something must always be left to
  trigger.
* A client may pipeline, connect early, late, twice or never, break off at any
  moment or stop inside a TLS handshake.
* fork copies descriptors. That a session sees the end of the parent depends on
  who else holds a copy.
* Sessions end at any time, also between a question to the parent and its
  answer; signals are not queued; SIGPIPE is not ignored.
* Sessions share the file system and the ports without any lock: between two
  system calls of one, another may have changed what the first has seen.
* Login and the seeding of the configuration are sequences of system calls, each
  of which may fail, or be the last before a crash, after the earlier ones took
  effect.
* TCP has no lines: what one read returns is up to the network.

`PROJECT.json` lists these hazards at their lines, with the properties that
would catch them.

## Modules

| module | content |
|---|---|
| `Session.tla` | one session: control connection, login gate, listener and timers, data connections, transfers |
| `MCSession.tla` | `Session` for TLC, with the symmetry of timers and data connections |
| `SessionProofs.tla` | the safety invariant of `Session` is inductive |
| `SessionClientProofs.tla` | what a session owes to a client that opens one data connection at a time or waits for replies |
| `Server.tla` | the parent and its sessions: admission, descriptors, kill switch, reaping, IPC |
| `ServerProofs.tla` | the invariant of `Server` is inductive, and what follows from it |
| `AbstractMap.tla` | what the hash map promises: a map from keys to addresses and its return codes |
| `HashMap.tla` | the chained hash map with its resize; `Map` is the refinement mapping to `AbstractMap` |
| `MCHashMap.tla` | `HashMap` for TLC, with a hash that makes keys collide |
| `HashMapProofs.tla` | the invariant of `HashMap` is inductive, and `HashMap` implements `AbstractMap` |
| `Config.tla` | the configuration file: seeding, reading, validating, with crashes |
| `PassivePorts.tla` | EXTENDS `Config`: sessions that search the ports of the range the configuration gives |
| `MCPassivePorts.tla` | `PassivePorts` for TLC, with the configuration files an administrator may write |
| `PassivePortsProofs.tla` | invariants of `Config` and `PassivePorts` |
| `Login.tla` | USER and PASS, step by step |
| `Files.tla` | EXTENDS `Login`: the commands on files of sessions that are logged in |
| `MCFiles.tla` | `Files` for TLC, with a file tree |
| `FilesProofs.tla` | the invariant of `Login` and `Files`, and what follows from it |
| `DeleteProofs.tla` | what DELE and RMD remove, leave and answer |
| `CommandReader.tla` | from bytes to commands |
| `CommandReaderProofs.tla` | the parser takes back what quoting did, and lines are executed as they were meant |
| `MCCommandReader.tla` | `CommandReader` for TLC, with the commands clients send |

### Session

`proc` is the process, `ctl` the control bufferevent (plain, in the handshake or
encrypted; replies still in the output buffer; the deferred `on_write` due),
`data` the data fields of `connection_t`, `bevs` the data bufferevents that were
ever accepted, `timers` the timer events and `timeout_event` the pointer to one
of them. A listener is named by the timer that was started with it. An action is
one handler: everything from the callback libevent runs until it returns. The
commands are the operators under `Command`; a command without an effect of its
own on the session is `SimpleReply`.

Data is abstracted to what the handlers tell apart: the output of a data
bufferevent is empty, at most the 128 KB low watermark, or more; its input is
there or not; a file is open or at its end. `acks` and `lost` of a bufferevent
and the variable `reply` are history: how many final replies its transfer got,
whether it was freed with confirmed data still buffered, and how far the last
command got.

`ControlWritten`, `ControlHandshake`, `DataWritten`, `DataBroken` and the types
of bufferevents stand for libevent, OpenSSL and the kernel. They follow the way
the code uses them: with `BEV_OPT_DEFER_CALLBACKS` a write callback runs later
than the write; a write callback runs when the output is at or below the low
watermark and something was written; an accepted plain bufferevent that finds an
empty output has one first writable event (`kick`); `bufferevent_free` drops the
buffers; a write to a reset connection raises SIGPIPE, which ends the process.

What the surroundings do is a parameter, `Env`:

| | |
|---|---|
| `tls` | the client uses AUTH TLS and PROT P |
| `pipeline` | it sends commands without waiting for replies |
| `eager` | it ends the TLS handshake of a data connection before it has the 150 of the transfer |
| `early` | it ends an upload before the server has read all of it |
| `multi` | it opens a data connection while another one is open |
| `abort` | it sends ABOR at any time |
| `neterr` | data connections fail at any time |
| `empty` | files may be empty |
| `io`, `diskfull`, `dirgone` | opening and reading files, writing uploads, and reopening a directory fail |

The proofs hold for every `Env`; a run chooses those its question needs.

### Server

Children are numbered in the order of their forks. `pipe_w[i]` and `rpc_p[i]`
are the processes that hold the parent's end of the kill switch pipe and of the
socket pair of child `i`: the parent, and every younger child, because a child
closes only its own copy. A child sees an end of file when the set is empty.
`waiting`, `request` and `answer` are the dialogue over the socket pair; while a
child waits, its own event loop does not run. `Env` has failing forks,
sessions that loop for ever in `on_stor_read` and sessions killed by a signal
while they wait; an answer to one of those raises SIGPIPE and ends the parent,
and the run `server` shows that the other sessions then end too.

### HashMap

A chain of the table is a sequence; the `prev` pointers, which the code writes
and never reads, are left out, and so is `load_factor`, which is always 0.75.
Each operation is a step, but the resize inside
`insert_entry` moves one element in each step, as its loops do, from `table` to
`new_table`; until it ends no other operation is enabled. `fnv1a_string_hash` is
any function from keys to numbers. The command registry fills such a table of 21
buckets with more than 14 commands at the start of every session, so each session
goes through a resize. No code of the server deletes an entry. `delete_entry`
does not lower `elem_count`, so a table in which keys come and go would grow
without need; the model follows the code here.

### Config and PassivePorts

`pc` is where the start of the server is: each system call of
`seed_default_config_if_missing` is a step that may succeed or take its error
path, then `read_configurations` takes one line a step, then the server serves.
`conf` is the configuration file and `tmp` the temporary one, each with what a
power failure would leave of it: content that was not synced may be cut
anywhere, a name that was not synced may be missing. A line is a key and a
number or a text that is none; comments, blanks, unknown keys and settings that
are texts are lines without effect. The administrator replaces the file as a
whole, at any time the server is not serving. A temporary file that a crash left
behind is dropped from the model: no later start looks at it.

`pasv_port[s]` is the loop counter of the session, `listener[s]` the port that is
bound and `told[s]` the one in the reply. Each turn of the loop is a step, so
sessions compete. `bind` fails exactly when the port is in use by another
listener or program (`Taken`). If the counter wraps to 0 the kernel chooses a
port of `Ephemeral`. The sessions end with the server at once; how they do is in
`Server`.

### Login and Files

`conn[s]` holds `username` and `authenticated` of the `connection_t` of a session
and what the kernel keeps of its process: root and working directory, user and
group. PASS is one step, because nothing else of the session runs meanwhile and
no other session sees these values; its outcomes are the states after each call
that may fail. After a `chroot` that was followed by a failure the user database
is no longer found: homes hold none. `Superuser` stands for the names that begin
with "root", which `user_exists` refuses.

A path is a sequence of names from the root of the machine; `kind` says what is
at it. `op`, `at`, `entry` and `stack` are the command a session executes, its
next system call, that call's path and the open directories of
`delete_directory_recursively`. `Resolve` follows links, from the root directory
of the process. `readdir` returns each entry that was there when the directory
was opened, and of those that came later any or none; a directory that was
replaced while it was open is read as the new one. A name with ".." in it is
`Dots`; where such a path leads is not followed: SIZE, DELE, MKD, RMD and CWD
refuse it, MDTM may find anything and STOR may create a file anywhere under the
root directory. Replies to a wrong number of arguments are in `Session`.
`disturbed` and `goal` are history.

### CommandReader

The client sends lines, the network delivers them in segments, `on_read` takes
at most `MaxInput` bytes of what has arrived and `parse_text_command` goes
through them character by character. A `Char` is a small or a capital letter,
each standing for all of its kind, a blank, a line end (for CR LF), a quote or
the escape. Clients put arguments in quotes and escape quotes and escapes in
them. The bounds of the code on the length of a name and of an argument
(`MAX_ARG_LEN`) are not in the model. `Habits` are the clients and networks:
lines that arrive whole, lines that arrive in two segments, clients that do not
wait for replies.

## Runs

| run | instance | what it shows |
|---|---|---|
| `session_plain` | 2 data connections, 2 timers; pipeline, multi, neterr, abort, empty | no timer is freed twice, a listener always has its own timer, nothing before the login, no stale callback, callbacks find their stream and file |
| `session_tls` | 1 data connection, 2 timers; tls, eager, early, neterr, abort and all failures of files; fairness | a client that waits for replies, with TLS and without: confirmed uploads and plain downloads are whole, no leaked connection, `data_active` is right, a confirmed transfer is closed, a plain transfer under way ends, sessions without login and listeners end |
| `tls_download` | violation | a TLS download is confirmed and freed with output left (`TlsDownloadWhole`) |
| `two_replies` | violation | a LIST gets two 226, the first before its output is sent (`OneFinalReply`) |
| `unanswered` | violation | a RETR without a data connection gets no reply (`CommandAnswered`) |
| `server` | 4 sessions; failing forks, sessions that spin, sessions killed while they wait; fairness | admission, order of the kill switch, matching answers, reaping; the parent's end ends every session, and every question returns, unless the session or a younger one spins |
| `server_counter` | violation | `current_connections` is not the number of active connections |
| `hash_map` | 4 keys, 2 values, 3 buckets growing to 6 and 12 | lookups are right, the load stays bounded, the table implements a map |
| `ports` | 3 sessions, 6 configuration files, one port taken by another program; fairness of the loop | the configuration file is never a part of the seed, settings are in bounds, no PASV is refused while there are as many ports as sessions, the port told is the port bound, every search ends |
| `files` | 2 sessions, 2 users, 11 paths with a link and a read-only directory, 3 commands; fairness of a command that has begun | a login that failed half way does not count for another, sessions stay in their home and change nothing else, DELE removes only what was named, its 250 is true, alone it removes everything, it ends |
| `command_reader` | 2 lines of at most 9 bytes a read, 2 arguments; whole and in two segments; fairness of network and loop | lines that arrive whole are executed as they were meant, for every line of a client that waits something is executed |
| `command_pipeline` | violation | two lines in one read are one command |

The three violations of `Session` need no client that misbehaves. In
`tls_download` `close_on_retrcb` runs at the low watermark that
`ftp_send_file_with_evbuffer` set, and does not look at the output. In
`two_replies` the client waits for every reply and has only connected to the
listener: when its LIST is read in the round of the event loop in which the
bufferevent of the data connection finds itself writable, the write callback of
that first event is queued before LIST installs `close_on_listcb` and runs after
it. The callback sends 226 whether or not the output was written; after the
output it runs again. (If the 226 is written before the listing, the listing is
even cut; `lost` is "listing" then.) In `unanswered` the two functions of RETR
return at once when `data_bev` is null, where LIST and STOR answer 425.

Some behaviours of the code that a client may not expect are in the model and
show when `Env` or a constant is changed: with `empty` in `session_tls`, RETR
of an empty file over a plain connection never gets its 226 (`TransferEnds`),
because nothing is written and so no write callback runs; a client that stops
inside the handshake of the control connection is never thrown out (the exception
in `UnauthSessionEnds`), and one that ends the handshake of the data connection
before STOR or LIST is handled waits in vain, because `data_tls_cb` is then
installed too late (hence `~data_tls_required` in `TransferEnds`); a
second PASV leaves the timer of the first pending, which closes the second
listener before its time; a range that ends at 65535 and is too small lets the
counter wrap, and the client is told port 0 (the exception in
`ToldIsListening`); a configuration file the administrator writes between `stat`
and `rename` is replaced by the seed.

Bounds. Two data bufferevents are enough for one to be overwritten by another
that still has events to come; a closed one is used again. Without `multi` no
second one is open at a time, so `session_tls` has one. Two timers are the
authentication or an old listener timer and a new one; with all timers pending a
further PASV finds none free, which bounds the number of listeners at a time,
not over time. Four sessions give chains of holders of length three and several
zombies at once. `N` bounds forks over the whole behaviour because the code
never lowers its counter; `max_connections` equals it in the runs, so that
failing forks use up room too.

In `hash_map` three keys share a bucket of the smallest table, part in the larger
ones, and two of them share a bucket in all: a resize splits chains and keeps
others together. `MaxLength` stops the growth after two doublings.

In `ports` the ranges have one to four ports for three sessions, some at the
upper end of 16 bits, one of them taken: there are ranges with room and without,
and the counter wraps. In `files` the recursive walk has two levels, an empty
directory, a link to a directory outside of what is named, and a second session
that creates and removes in between; three commands are enough for a walk and
two disturbances of it. In `command_reader` a line is longer than a read, has
more arguments than there is room for, quoted blanks, quotes, escapes, and an
empty argument; two lines show what is left over from the first.

Deadlock is checked in `ports` and `files`. In the others it is not: a session
may end or wait for a client for ever, the clients of `command_reader` have sent
their lines, and a freed hash map has nothing left to do.

Fairness. libevent delivers what is ready, so writing, the deferred callbacks
and the timers are weakly fair, and so are the handlers of the parent and of
`on_parent_dead`, `ipc_reply_cb` and `event_cb`. In the runs of `Session` the
client also reads the data it asked for, completes the data handshake and ends
the upload it announced: without that no server could answer. Nobody owes a
command, a connection or a control handshake. The port loop and a command on
files are loops of one thread and go on; an administrator, a client or a crash
need never come. In `command_reader` the network delivers and the event loop
comes round.

A client that waits (no `pipeline`) sends a command when it has the final reply to
the one before. It does not wait for anything it cannot see: the accept, the first
writable event and the callbacks of the data connection may come before or after
the command. That `on_write` is not due any more when the command is handled is
not an assumption about the client: the deferred callback runs in the round of
the loop in which the reply was written, before the answer to it can be read. A
421 or a second 226 that is still under way is waited for too; a client that does
not is a case of `pipeline`.

`TransferEnds` accepts that the data connection is gone instead of a final reply:
after a failed data connection the code sends no reply (in
`data_connection_event_cb` a download whose client goes away is dropped in
silence).

## Proofs

`SessionProofs` proves `SafetyInv`, the conjunction of the type invariant,
`TimerSafety`, `ListenerTimed`, `AuthGate`, `NothingStale` and
`CallbacksEquipped`, inductive for any sets of timers and bufferevents and any
`Env` (assumption `SessionAssumption`). The parts need each other: that an accept
frees a live timer needs `ListenerTimed`; that PASS does needs that no listener
was opened before the login, `AuthGate`; that a completion callback finds its
bufferevent needs `NothingStale`, and that it leaves nothing behind needs
`CallbacksEquipped`. The lemmas `ReplySafe`, `TimersSafe`, `DataSafe` and
`CloseSafe` each prove the invariant for steps that touch one group of variables;
each handler is then shown to be such a step.

`ServerProofs` proves `ServerInv` inductive for every `N` and `max_connections`.
`KillSwitchOrder` speaks of live children only; its inductive form `Holders`
speaks of all of them, because the copies of a descriptor outlive the child it
was made for, and says that only forked children have holders, because
otherwise a fork could add the new child below an old holder. `AnswerMatches`
needs `Dialogue` (a request and an answer are never both under way). `Admission`
follows from `Counts` with the cardinality theorems: live children are among
`1..forked`, and each fork was counted.

`HashMapProofs` proves `Inv` inductive for any keys, values, hash function and
sizes (`HashMapAssumption`; the initial table must have at least two buckets, or
one doubling would not be enough). `LookupRight` needs `Placed` (an element is in
the bucket of its key, and once in its chain) of the table in use; a resize keeps
it because the new table is `Placed` for the new length from the start, because
`Apart` (no key in both tables) lets an element be pushed without a search, and
because `Emptied` (the buckets passed are empty) makes it safe to drop the old
table. `BelowLoad` speaks of the table that will be in use, so that `LoadBound`
survives `ReplaceTable`. The chain lemmas say what `Cons`, `Tail`, `RemoveAt` and
an update do to the elements of a sequence, the table lemmas what a push, a take,
an unlinking and an update do to `Placed` and `Elements`. `HashMapImplementsMap`
maps the entries of both tables together to the abstract map: the steps of a
resize are stutters.

`PassivePortsProofs` proves the invariants of the configuration and of the port
search for any files, any number of sessions, any ports taken
(`ConfigAssumption`, `PortsAssumption`). `SeedAtomic` needs what is known at each
step of the seeding (`Progress`): after `fsync` the temporary file is the whole
seed and synced, so a power failure after `rename` leaves all of it or no file.
`EnoughPorts` is the counting argument `Thinning`: a session gets past a port
only when another one has it, so for every port the sessions at or beyond it and
the free ports before it are together no more than the sessions. With as many
free ports as sessions nobody gets past the last. `ToldTruly` rests on it and on
`Bounded`, which keeps the counter from wrapping in ranges below 65535.

`FilesProofs` proves for any tree, links, users, arguments and number of sessions
that a login is complete (`LoginsComplete`), that CWD stays in the home
(`StaysInJail`) and that a command changes only entries below its own home
(`ChangesOwnHome`). `FilesAssumption` asks that no part of the path of a home is
a link and that no link leads through another one (a chain is a single link to
where it ends). `FilesInv` has the types, `Confined` and
`LinksKept` (no command makes a link). `Confined` is about what a command keeps
from one system call to the next, when another session may have changed the tree:
its path, its current entry and all open directories of the recursion are `In`
the home, or begin at a working directory that was removed and lead nowhere
(`Lost`). `Resolve` of a path in the home is the path itself or something under
the root, since links are followed from the root; so the entry a call changes is
in the home, and `Writable` excludes the home itself.

`DeleteProofs` proves what DELE and RMD promise while other sessions change the
tree. `FilesAssumption` asks for that, besides the above, that what there is at
first is a tree; `Shaped` says that it stays one, because an entry is made only in
a directory and a directory is removed only when it is empty. Since no command
makes a link, the links on a path can only become fewer. `WalkInv` then says of
each command under way that a link on the path that was named leads where it led
when the command began (`goal`), and that the current entry and every open
directory of the recursion are at or below the path named, with no link below it
(`Inside`; the last part of an entry, which is removed and not followed, may be a
link, `Near`).
`RemovesOnlyNamed` follows because `unlink`, `rmdir` and `remove` act on such an
entry; `RepliesHonest` because without `-f` only the call that removed the
path that was named sends 250 (`WhoSays250`), and what it removed was a file, a
link or an empty directory, with nothing below it. For
`DeletesAll` the invariant is strengthened again (`CompleteInv`): for a walk that
was not disturbed, the entries of an open directory are among those that `readdir`
has still to return and the one at hand. `Real` names a path of the walk in the
tree by way of `goal`, so that it does not depend on what is still there.
`DeleteSafe` and `DeleteClears` state that the two invariants are inductive.

`SessionClientProofs` has two parts. `NothingLeaks` and `ActiveIsFaithful` assume
only that `"multi"` is not in `Env`: the client does not open a data connection
while another one is open (if it does, `data_connection_accept_cb` overwrites
`data_bev` and the first is lost to the session). With `SafetyInv` their
conjunction `Owned` is inductive. `TransfersComplete` assumes `WaitingClient`:
`Env` has neither `pipeline` nor `multi`. Both are needed: TLC violates `NoLoss`
when one of them is added. Everything else in `Env`, TLS, failing networks, disks
and files, ABOR at any moment, is covered. `NoLoss` leaves out what the code does
not keep: listings and TLS downloads (`two_replies` and `tls_download`).
`ClientInv` says why the other confirmations are true: the write callback of a
plain download confirms only when the output is empty, an upload keeps its file
and its callbacks until its final reply and is drained before it (`Callbacks`,
`BevInv`); and between the final reply and the close no command comes, since the
control connection's write callback is due and is the one that closes the
connection (`Confirmed`, `CloseDue`). The handlers run in any order with the first
writable event of the connection, so `ClientInv` says nothing of when that comes.
`AuthTimer` keeps the authentication timer from overwriting that callback.

`CommandReaderProofs` proves `ParsesBack`, that `parse_text_command` makes of the
line of a command what was meant, for any commands, limits and arguments
(`ReaderAssumption`: the name of a command is a word, that is, not empty and
without blanks). The parser and `FlattenSeq` are recursive functions, so this is
an induction over data. The library's induction theorems take a predicate, which
the provers cannot instantiate; `SetInduction` is the same principle for a set of
numbers, from the well-foundedness of `<` (`WFMin`). `Parses(p, x, q)` says that
some run of `ParseChar` leads from state `p` over the characters `x` to `q`; runs
can be put together (`ParseConcat`, `ParseFlatten`), and the run from `Start`
determines the result (`RunIsResult`). What remains is a run for each part of a
line: the name, a plain or a quoted argument with its space, an argument beyond
`MAX_ARGS`, the end of the line. `ReaderTyped` rests on `ParserTyped`: whatever
the input, the parser has at most `MAX_ARGS` arguments. `LinesExecuted` is
`ExecutedAsSent` for every instance, with the invariant `Framed`: there is
nothing under way and every line was executed, or exactly the last line is on the
wire or in the buffer.

Every safety invariant and every action property of the passing runs is proved.
Checked by TLC only: the liveness properties (fairness and `ENABLED` are out of
the prover's reach), namely `TransferEnds`, `ConfirmedIsClosed`,
`UnauthSessionEnds`, `ListenerCloses` of `Session`, the ends of sessions and
questions in `Server`, `SearchEnds`, `CommandEnds` and `Answered`.

## Not modelled

* Failing allocations, and failing `socketpair`, `pipe` or `bufferevent_new`:
  the code hardly handles them.
* The text of replies, listings and addresses (so not the comparison of the
  addresses of control and data connection in `data_connection_accept_cb`); the
  lengths of paths and arguments; contents, owners and times of files.
* Logging and error texts: nothing in the program depends on them.
* `on_eof_event_cb` without an open file or without a data connection: the paths
  are in the code, `CallbacksEquipped` and `NothingStale` show that they are not
  taken.
* `getpwnam` after a `chroot` that a failed login left behind would read an
  `etc/passwd` in the home; that no home has one is an assumption, on which what is
  shown of the next attempt to log in rests.
* `opendir` in the recursive DELE fails only when the directory is gone, not for
  want of permissions or descriptors, and `readdir` does not return a name again
  that was removed and made again while the directory is open.
* Replies that the commands on files send for a wrong number of arguments are not
  in `Files` but in `Session` (`FileReply`).
* A command of `CommandReader` is executed, whatever it then replies; what is
  replied is in `Session`.

## Plan

1. An abstract specification of a session (a command is accepted, maybe
   preliminary, final) that `Session` implements for a client that waits, and the
   composition of `Session` and `Server` (a LIST that asks the parent).
2. That the youngest live session is always able to end once the parent is gone.
