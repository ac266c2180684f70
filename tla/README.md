# nix-capsule in TLA+

nix-capsule runs a nix development shell in a container and hands commands to
it. `ncap-ctl` builds the environment and starts the container; inside it
`ncap-server` listens on a Unix socket; `ncap`, on the host, connects to the
socket, has the server run one command and relays stdin, stdout, stderr,
signals and the exit status.

This directory holds TLA+ modules translated from the Rust source, TLC
configurations that check them on small instances, and proofs that TLAPS
checks for every value of the constants. `PROJECT.json` lists the components,
the runs, a mutation of the code for every property, the source lines behind
every definition, the divergences found, the hazards and the theorems.

## 1. Inventory

### Components

| Component | Source | State it keeps | Operations |
| --- | --- | --- | --- |
| Server, main task | `server.rs` `run` | the watch value `stopping`, the Vec of task handles, the drain deadline | bind, wait for a signal, broadcast, abort and await the acceptor, drain, remove the socket, exit |
| Acceptor | `server.rs` `accept_loop` | the listener | accept, spawn a handler, push its handle; end on an accept error |
| Handler | `server.rs` `handle_conn` | the framed socket, the child, the group number | first frame, version probe, spawn, bridge, wait, terminal frame, or TERM and reap |
| Bridge | `server.rs` `bridge` | the child's stdin, the channel, two armed flags | relay output, feed stdin, EOF, signal, announce a shutdown, fault |
| Pumps | `server.rs` `pump_output` | one pipe each | read a chunk, put it in the channel |
| Startup and socket file | `server.rs` `probe_socket`, `run` | the socket path | probe, remove a stale file, bind, remove at exit |
| Server log | `server.rs` `Log` | one file per run | filtered, mirrored lines |
| Wire protocol | `protocol.rs` | none | frames to messages and back, size cap, header parsing |
| Client session | `client/mod.rs` | select loop over socket, stdin thread and two signals | connect, request, relay, exit code |
| Client environment | `client/mod.rs` `build_env` | none | merge the forward list and `--env` flags |
| Ctl flows | `ctl/mod.rs` | none of its own: container, socket, cache | init, start, stop, restart, status, enter, clean |
| Cache and digest | `ctl/digest.rs`, `ctl/nix.rs` | the files `env`, `hash` and the profile | check freshness, evaluate, store |
| Stamp | `ctl/stamp.rs` | one file per project name | claim a name for a root |
| Runtime wrapper | `ctl/runtime.rs` | none; the container runtime is external | run, stop, inspect, rm, exec |
| Log and follow | `ctl/mod.rs`, `ctl/paths.rs` | file and position | drain, scan the directory, switch |
| Configuration and paths | `ctl/config.rs`, `ctl/paths.rs`, `ctl/shell.rs` | the `NCAP_*` variables of a shell | setup-env derives five of them and prints exports; every other command demands the full set |
| Runtime arguments, expansion | `ctl/mod.rs`, `ctl/runtime.rs` | none | mounts, restrictions, launch command; `$NAME` in options |
| Version probe | `ctl/version.rs` | one connection | one request, one reply, two time limits |
| Command lines, error wrapping | `cli.rs`, `fs_error.rs`, `bin/` | none | |
| Nix library | `src/nix/`, `src/dev/` | none | build descriptions, and the hook of the shell that sources setup-env |

### How they interact

- Client and server: frames over one Unix socket per command, each direction
  a bounded byte stream. Request first, then Stdin and Signal one way, Stdout
  and Stderr the other, then one terminal frame.
- Main task, acceptor and handlers: a watch channel that turns true once, a
  Vec of handles under a mutex, and task cancellation.
- Handler and pumps: a bounded mpsc channel whose senders are the two pumps.
- Handler and child: three pipes, kill(2) on the group, wait(2).
- Ctl and server: the container's init signal, the socket file, the version
  probe, the log files.
- Several ctl processes: container name, cache files, stamp and socket, with
  no lock.

### Hard behaviours

Arms of a select that are ready together are polled in random order. An arm
that awaits inside its body keeps the others from being polled. Clients
vanish, stop reading, half-close, or leave frames unread (the kernel then
resets the socket). Children die with output in the pipe and with descendants
holding it. A shutdown lands anywhere. A connection is accepted while the
acceptor is being cancelled. Every buffer is bounded. The hazards with their
lines are in `PROJECT.json`.

### What makes each component correct

- Handler, bridge and pumps: nothing follows a terminal frame; each stream is
  complete and in order; an Exit that reports a status follows all output; a
  child is never left running unTERMed or unreaped; no signal goes to a group
  whose number may have been reused; no announcement is repeated without end;
  a vanished client and a dead child are dealt with.
- Main task and acceptor: the drain awaits every accepted connection; a
  shutdown reaches every group; the process exits.
- Startup: one listener per path, and nobody removes another's socket.
- Client session: exit status as the child's, whatever races with it; output
  flushed before exit; no deadlock with the server.
- Codec: frames survive any cut of the byte stream; the same cap at both ends.
- Ctl: at most one container per name and live when success is reported;
  a fresh verdict only for an environment evaluated from the files as they
  are; one root per project name; clean removes only its own files.
- Follow: every line of every file, in order, once.
- Configuration: what setup-env prints is enough for every command and settles
  at once; a shell owes nothing to the one it was entered from; what guards the
  cache guards the container.
- Launch: the container can write its project, socket and logs, and not what
  the host will source or, hardened, what is watched.
- Version probe: it ends, and blames no server for a reply that was cut.

## 2. Modules

| Module | What it is |
| --- | --- |
| `Server` | main task, acceptor, handlers, bridges, pumps; client and child group as their environment |
| `ServerProps` | safety, action and liveness properties, the inductive invariant, fairness |
| `Dialogue` | the abstract contract of a connection: what a client may be told, and when |
| `ServerDialogue` | the server as an implementation of `Dialogue`: the refinement mapping, and the invariant that follows a chunk from pipe to socket |
| `MCServer` | the instance TLC checks |
| `ServerProofs` | types, child, drain, terminal frames: theorems and proofs |
| `ServerFlowProofs` | the flow of output, and the refinement |
| `ServerNoticeProofs` | TERM signals and announcements |
| `Session` | ncap: its select loop and its stdin thread, and the host around it, composed with `Server` |
| `SessionProps` | what ncap promises its host; the inductive invariant of the composition, fairness |
| `MCSession` | the instance TLC checks, and the check of `Merge` |
| `SessionProofs` | ncap is a client of `Server`, what carries over, and what ncap promises its host |
| `Container` | what several ncap-ctl share: cache files, container, and the server's life from launch to exit |
| `Ctl` | init, start, stop, restart and clean, call by call, as processes over `Container` |
| `CtlProps` | what ncap-ctl promises; the inductive invariant |
| `MCCtl` | the instance TLC checks, its symmetry, and the checks of `Expand`, `Digest` and `Launch` |
| `CtlProofs` | types, stops and fresh verdicts that are true, what an init delivers and a clean leaves |
| `Follow` | `ncap-ctl log` beside runs of the server and a clean |
| `FollowProps`, `MCFollow` | what its reader may rely on; the instance TLC checks, and the checks of `Setup`, `Wording` and `Calendar` |
| `FollowProofs` | types, the order of what is printed, complete switches |
| `Codec` | frames as bytes: one end encodes, a socket delivers in pieces, the other decodes |
| `Probe` | the version probe of `status` and `start`, a second reader of `Codec`'s frames |
| `MCCodec` | the messages, the noise and the payloads TLC checks them with |
| `CodecProofs` | types, the bound on the receiver's buffer, that frames arrive as sent, and the probe's verdicts |
| `Setup` | environments: what setup-env derives, what every command demands, the shell that is entered |
| `SetupProofs` | what setup-env guarantees |
| `Wording` | project names, quoting, names of files, and references |
| `Calendar` | the date in a line of the log, and the calendar |
| `Digest` | the bytes that the digest is computed of |
| `Launch` | the container's mounts and launch command, and what they let it write |
| `Merge` | `build_env`, the environment of a request, and its reference |
| `Expand` | `expand_with`, `$NAME` and `${NAME}` in run options, and its reference |

### `Server`

A step of a task runs from one await to the next, as tokio schedules it. A
place where the code may block is a value of `conn[c]` of its own:

| `conn[c]` | where `handle_conn` is |
| --- | --- |
| `backlog` | the kernel completed the connection, the acceptor has not taken it |
| `first` | the select for the first frame |
| `bridge` | the select in `bridge` |
| `relay` | inside the first arm, sending output |
| `feed` | inside the frame arm, writing to the child's stdin |
| `fault` | inside the frame arm, sending the Error of a decode failure |
| `announce` | inside the stopping arm, sending ServerStopping |
| `wait` | the select after the bridge |
| `lateAnnounce`, `lateWait` | inside its stopping arm |
| `reap` | after a failed bridge, the group TERMed, waiting |
| `final` | sending the last frame |
| `done`, `dropped`, `refused` | returned; cut off by the exit of the process; never accepted |

`arms[c]` holds the flags `client_writes_open` and `stopping_open`; `chan[c]`
the mpsc channel; `ours[c]` the pipe ends the server holds, where a pump runs
exactly as long as it holds its own; `killed[c]`, `sent[c]`, `written[c]` and
`taken[c]` record calls and traffic, as histories for the properties and as
buffer levels for the guards. `registered` is the Vec of handles, `accepted`
the connection that was spawned and not yet pushed, `awaited` what the drain
took.

A send into a full socket blocks, one to a client that is gone fails. A write
to a full pipe blocks, one to a pipe nobody reads fails. `Junk` stands for
whatever fails to decode at the codec or the message layer, a frame cut short
included. Output chunks are numbered per stream, their bytes left out. The
bytes of environment, arguments and exit codes are left out as well: a
request spawns a child, or is answered without one by any of the three kinds
of answer the code has.

The environment is free. A client sends any frames at any time, half-closes,
leaves, reads or does not. A child's group writes, reads, closes its pipes
one by one, dies at any time with or without a descendant that keeps any of
them, and ignores every signal if it likes.

### `Dialogue` and `ServerDialogue`

`Dialogue` knows neither tasks nor buffers. A connection is asking, then
talking if a command runs, then over; the command makes chunks; the server
says them stream by stream and in order, may warn that it is stopping, and
says at most one last thing, which is an Exit only when all the command made
has been said. Mapped from the code: `phase` is where the handler is, to its
client (a last frame that is decided but blocked in a send is not said yet),
`said` is `sent`, and `made` is what the group wrote to its output pipes. The
accept and the broadcast, the pumps, the channel, stdin, signals and the wait
are stutters; the exit of the process silences many connections in one step.

### `Session`

`Session` EXTENDS `Server` and puts ncap in the place of its free client: a
step of a session is a step `Server` allows a client (`AsClient`), or one the
server cannot see (`Unseen`). One process per connection has two threads of
control, the loop of `session` and the thread of `pump_stdin`.

| `at[c]` | where `session` is |
| --- | --- |
| `off` | before connect |
| `Request`, `Stdin`, `StdinEof`, `Signal` | in the send of that frame |
| `select` | in the select |
| `write` | in the frame arm, writing to the host's stdout or stderr |
| `cut` | killed with half a frame sent, the socket not closed yet |
| `leaving` | returned, the socket not closed yet |
| `over` | the process has ended |

`result[c]` is how it ended, which decides the exit code: `status` is the
child's, `stopped` 143, `told` 1; the rest are failures (1) and `killed`.
`feed[c]` is the channel of the stdin thread, `typed[c]` what it read,
`stdinOpen[c]` the flag that arms the stdin arm, `got[c]` the number of the
server's frames processed. Signals of one kind that arrive before one is taken
coalesce, as tokio's do.

How a stream ends decides what ncap reports, so `EndOfStream` follows the
kernel: a connection nobody accepted and a socket closed on unread frames are
reset, a frame the exit of the server cut short (`torn`) does not decode, and
only the rest is a clean end. What is buffered on either side of the closed
socket can be read to its end before a reset is seen; the server's codec may
have taken frames out of the kernel's buffer, so that a close on unread frames
may be clean as well.

### `Container` and `Ctl`

`Container` holds the state outside every process. A dump is a pair of the
root it was evaluated for and the contents of that root's watched files then;
`Torn` is what fs::write leaves of a file between its truncation and its
write. `hash` stands for the contents it is the digest of. `box` is the
container of the one name, `launches` counts those started, `server` is where
its init process is:

| `server` | where the container's init process is |
| --- | --- |
| `none` | there is no running container |
| `sourcing` | bash, before `source <cache>/env` |
| `starting`, `clearing`, `binding` | `run` before `probe_socket`, before its removal of a stale file, before the bind |
| `serving` | listening; what it does then is module `Server` |
| `draining` | the listener closed, the socket file not removed yet |

A step of a process of `Ctl` is one runtime call, one probe or one file
operation, since between two of them every other process may act; `at[p]` is
the call that comes next. A write of a large file is two steps, and that of a
small one may break off half-way (`BreaksOff`). `run` is two steps, as podman
and docker create a container and then start it. A `stop` returns when the
container it was sent to is gone (`aim`), or fails. A runtime that cannot be
asked counts as a container that does not run (`Sees`), as in `is_running`.
`status` changes nothing and is left out; the version probe is module `Probe`.

`mishaps` is a history of what the properties make exceptions for:

| mishap | it has happened that |
| --- | --- |
| `overlap` | a command was given while another one ran |
| `roots` | and it was given in another root |
| `cut` | a failure or a kill hit a refresh after its evaluation and before its digest was stored |
| `slip` | an edit fell into such a refresh, or came after one that was cut |
| `blind` | a container that ran was reported as not running |
| `orphan` | a clean removed the stamp while the container ran, its stop having failed |
| `other` | a process or a server was killed, a runtime call failed, or a readiness deadline passed |

`disturbed` holds the processes during whose command something else happened:
a file of their root was edited, a fault struck, or the container was on its
way up or down, or ran out of reach, when the command began (`Unsettled`).

Assumed of the container runtime: a name belongs to one container, `rm`
without force refuses one that runs, and a container runs as long as its init
process.

### `Follow`

The k-th run of the server logs to file k. A step of the command is one open,
one read with the write to stdout it leads to, one announcement, one scan of
the directory, or one select; between two of them servers start, log and stop
and a clean removes files, as the follow holds nothing but a path and a
position. `at` is where `follow_log` is:

| `at` | where the command is |
| --- | --- |
| `start`, `whole` | before the scan; before the read of the whole file (`--no-pager`) |
| `announce` | before the line that names the attached file |
| `open`, `read` | in `drain_log`, before the open; in its loop |
| `select` | in the select of the timer and `ctrl_c()` |
| `scan`, `next` | before the scan; between two of the attachments it found |
| `ended`, `failed`, `killed`, `nolog` | over |

`then` is where the drain returns to. `guarded` says that the handler of
SIGINT is installed, which the first poll of `ctrl_c()` does for good, and
`caught` that the listener of the current select was told of one. Assumed:
the millisecond in a file name grows from one start to the next, a scan of
the directory is atomic, one server runs at a time, and the runtime of
`ncap-ctl` delivers a signal whatever the session's thread is doing (it is
tokio's multi-threaded one). The pager is left out.

### `Codec`

The sender's frames become bytes; the socket takes and gives any number of
them; the receiver decodes while it can, reads, and decodes once more at the
end of the stream, which is what tokio-util's Framed does. `Texts` are the
payloads that parse as the JSON of a kind of message, and `Overfull` those of
an Exit that sets both of its fields. The sender may be killed with half a
frame in the socket, and may write bytes that are no frames (`Noise`).
`Server` and `Session` exchange whole frames and one kind of `Junk`: this
module shows that they may.

### `Probe`

`Probe` EXTENDS `Codec`: its state is that of the codec and where the probe is.
The connection succeeds or does not; the send of the request may fail or time
out and nothing comes of it, so it is one step; then one frame is awaited.

| `probe` | how it ended |
| --- | --- |
| `matched`, `skewed`, `unreported` | a whole frame came: our version, another, or no version; the last two are warnings |
| `unreached`, `late`, `lost` | no connection; no frame in time; the stream ended or did not decode before a frame; silent |

The peer is the sender of `Codec`: it may answer with anything, before it is
asked, in pieces, half, or not at all. Time is the step `TimesOut`, which may
come at any moment of the wait, as two seconds may be short or long.

### `Setup`

An environment gives every variable a text or nothing, a text is a sequence of
characters, of which some stand for words, and an empty text counts as
nothing. `Source` is a shell after it sourced what setup-env printed, or as it
was if setup-env failed; `Enter` is a shell that `mkShell` makes, in which each
of the flake's variables is set, if only to the empty text. `Demands` is the
order in which `resolve` asks, so that `Blames` names the trouble a command
ends with. `Join` is the one of the standard library, where an absolute part
replaces what is before it: a project name that begins with a slash escapes
the directories.

### Pure functions: `Merge`, `Expand`, `Wording`, `Calendar`, `Digest`, `Launch`

Each stands beside what is asked of it. `IsLaterWins` says
what `spec/env.md` says of the merge: of every key the last value, in the
place of the first. `Specified` replaces every reference of a string at once,
while `Expansion` goes through it from left to right as the code does. `IsProjectNameOf` says of a project name which letters touch and where
dashes are, `BashReads` is the reader of what is quoted, `Tomorrow` counts days
where `Civil` computes them, `IsInjectiveOn` asks that the digest's bytes tell
all states of the watched files apart, and `IsConfined` what a container may
write, given that the innermost of nested mounts counts. The comparisons on
all small inputs are ASSUMEs of `MCSession`, `MCCtl` and `MCFollow`.

Assumed of what is external: a task is cancelled only where it awaits
(tokio); the kernel closes queued connections with the listener; a child's
group number stays taken until wait(2) returns; writing to a socket whose
peer is gone fails; reading from it after it left data unread fails with a
reset.

## 3. Runs

Every buffer has capacity one (`SockCap` except in `ends`, `ChanCap`,
`PipeCap`), which makes each blocking place reachable within two chunks;
larger buffers only postpone the same blocking. The code's select arms see at
most one frame, one message and the broadcast at a time, so three frames from
a client (`MaxAsk`) and two chunks of a stream (`MaxOut`) reach every pair of
arms in every order, with one in the channel behind the one being sent.
Handlers share nothing but the watch value and the Vec of handles, and a
connection in the backlog can be accepted, pushed, aborted or refused by
itself, so the runs have one connection; the theorems of section 5 hold of
any number.

`CHECK_DEADLOCK FALSE` everywhere: a server that has exited really stops.

| Run | Instance | What it shows |
| --- | --- | --- |
| `bridge` | one connection, all frame kinds, 3 frames, 2 chunks, 3.0 M states | `TypeOK`, `ServerInv`, `TerminalIsLast`, `StreamsInOrder`, `WithheldOnlyIfTermed`, `NoZombieLeft`, `AnnouncedAtMostTwice`, `DrainForgetsNobody`, `KillsOwnGroup`, `FlowInv` |
| `dialogue` | both output streams, one frame and one chunk of each, fair server, hostile client and child | `KeepsDialogue`, the refinement of `Dialogue`; `ExitAfterOutput`; `ShutdownEnds` |
| `cooperative` | a drain that never expires, clients that read, children that read stdin, 0.15 M states | `ShutdownReachesGroups`, `VanishedClientNoticed`, `DeadChildReaped` |
| `session` | ncap and the server, a chunk each way, one signal, kills, a shutdown, 2.9 M states | `SessionInv`, `StatusAfterOutput`, `StoppedOnlyByShutdown`, `InputIsWhole`, `FaultOnlyIfCut`, `EofIsBestEffort`; `IsAClient`, the composition implements `Server` |
| `ends` | the same under fairness, no signal, sockets of two frames, 0.6 M states | `ChildsEndReachesHost`, `ShutdownReachesHosts` |
| `ctl` | two ncap-ctl, one root, two contents, all five commands, from an unused project and from one in use, 1.7 M states | `CtlTypeOK`, `OrderInv`, `FreshIsTrue`, `StopIsTrue`, `InitDelivers`, `CleanIsComplete` |
| `follow` | three runs of the server, one line each, any files there before, a clean, one interrupt, 0.18 M states | `FollowTypeOK`, `FollowsInOrder`, `SwitchLosesNothing`, `EveryRunAnnounced`, `LinesArrive` |
| `codec` | two frames out of nine messages, a cap of two bytes, eleven kinds of noise, every cut, read by a session or by the probe, 1.5 M states | `ArrivesAsSent`, `BufferIsBounded`, `VerdictIsDue`, `ProbeEnds` |
| `stuck`, `torn`, `shared`, `edits` | small, but for `stuck` | the divergences of section 4 |

Bounds of `ctl`: three commands when each begins after the last one ended
(`MaxCmds`), two once two overlap (`MaxMixed`); one edit and one fault, which
may fall anywhere. The initial state in use stands for the commands that came
before. Two contents let an edit be seen; three processes would add only a
third party to races whose hazards are between two calls, and what is proved
holds of any number. `InitDelivers` and `CleanIsComplete` speak of commands
that run one at a time, the last of them undisturbed, after any fault of those
before: a command that was killed or failed at any call, a file that was cut
short, a server that crashed and left its socket file, an edit, a stale cache.
What they promise after a fault is less than without one: a container that was
launched before keeps the environment that it sourced, and a truncated dump may
count as fresh (section 4). Three commands reach a fault, what the next command
makes of it and what the one after that finds. Commands in two roots that share
a name were explored with one process, two faults, an edit and three commands
(1.2 M states, no error), and two processes in two roots are the run `shared`;
the theorems hold of any number of both.

Bounds of `follow`: the follow attaches one file and finds two more, together
or one after the other, which is the least that shows an order among what one
scan finds; one piece per file makes a file read or not, and the theorems
hold of any number. Bounds of `codec`: a frame, the cut and the start of the
next is all the decoder ever sees at a time; the messages are the kinds that
are coded differently, with payloads below, at and above the cap.

The ASSUMEs, which TLC evaluates before a run:

| ASSUME | Module | What it compares |
| --- | --- | --- |
| `MergeIsLaterWins` | `MCSession` | `build_env`, for all lists of up to two forwarded names and three flags |
| `ExpansionIsSpecified` | `MCCtl` | `expand_with`, for all strings of up to five characters of six kinds |
| `DigestTellsApart`, `NulsHideRecords` | `MCCtl` | the digest's bytes tell contents without NUL apart, for three paths of which one begins like another; with NULs they do not |
| `ContainerIsConfined`, `WatchedTwiceIsMountedTwice` | `MCCtl` | the mounts, for project directories beside, in and around one another |
| `NamesAreSanitized`, `QuotedIsOneWord` | `MCFollow` | all basenames and all values of up to six characters of four kinds |
| `EpochsAreReadBack`, `GenerationsAreTold` | `MCFollow` | names of log files and of profile generations, right and wrong ones |
| `DatesFollow` | `MCFollow` | every day of an era of 400 years, after which the calendar repeats |
| `SetupIsSound`, `RuntimeIsResolved`, `UnsetIsNamed` | `MCFollow` | the configuration, for what a user may set, leave unset or empty |
| `NamedContainersAreUnguarded` | `MCFollow` | two checkouts of a flake that names its container |

`StreamsInOrder` and `ExitAfterOutput` look at `sent`, what the server put on
the wire, and `written`, what the group wrote: between them are the pipe, the
pump, the channel and the select.

### Fairness

`FairSpec` assumes weak fairness of each server task: tokio polls every task
that was woken, and an arm of a select that stays ready is polled in the end
because arms are polled in random order. Since the inputs of a handler are
bounded, weak fairness of the handler as a whole exhausts all arms. The drain
deadline is a timer. The signal itself (`Stop`), an accept error, clients and
children are under no fairness.

`CooperativeSpec` adds that a client which has not left reads what it is
sent, and that a group which holds its stdin reads it. It is used only for
the three properties that fail without it: the bridge awaits sends and writes
inside its arms (`server.rs:505`, `522`, `563`) and polls no other arm
meanwhile, so a client that does not read keeps even the TERM of a shutdown
from its own child until the drain deadline. In `cooperative` the drain does
not expire: a process that exits ends everything, and the properties would say
nothing of handlers.

`FairExecSpec` adds to `ServerFairness` that of ncap: tokio polls a session
whose socket, channel or signal is ready, and all that one session is given is
bounded, so weak fairness of `Loop` exhausts its arms. The host reads what ncap
writes to its stdout (`Written`), and a group that holds its stdin reads it.
The stdin thread, kills and signals are under no fairness. In `ends` the drain
does not expire, so that a session ends because of its last frame and not
because the server is gone. `ServingSpec`, of the run `stuck`, is the same with
a server nobody asks to stop.

`CtlSpec` has no fairness: all that is checked of these flows is safety. A
command ends if every runtime call and every evaluation does, since it has no
loop but the readiness poll, which has a deadline.

`FairFollowSpec` assumes that the follow goes on as long as it can: the timer
of its select fires, and reads and writes return. Servers, cleans, interrupts
and I/O errors are under no fairness. `CodecSpec` has none. `ProbeSpec` assumes
that the probe is polled and that its two timers fire (`Connects`, `Asks`,
`TimesOut`), and nothing of its peer, its reads or the codec: `ProbeEnds` rests
on the limit alone.

## 4. Where the code and its documents differ

- `stuck` (`client/mod.rs:216`), a bug. ncap awaits the send of a stdin chunk
  in a select arm and reads nothing meanwhile; the bridge awaits the send of
  output in one of its own and reads nothing meanwhile. A filter whose input
  and output exceed the socket buffers makes each wait for the other for ever,
  and a signal, which ncap has taken over, is not relayed.
- `torn` (`ctl/mod.rs:521`), a bug. `env` is replaced in place, and a container
  that another init launched may source it while it is truncated: an empty
  file sources without error, and the server serves without an environment
  until somebody restarts it. It takes two shells that enter a stale project
  at once. A temporary file and a rename would do.
- `shared` (`ctl/stamp.rs:37`). Two roots that claim an unused name at once both
  read no stamp and both pass; `spec/paths.md` says that two checkouts must
  never share a container.
- `edits` (`ctl/mod.rs:530`). The digest is taken after the evaluation, so an
  edit in between is recorded as evaluated, and the next shell entry finds the
  old environment fresh; `spec/flake-api.md` says that edits take effect then.

Found while modelling and not the subject of a run: a failed send of a chunk of
stdin ends ncap with 1 although the child's Exit may be in the socket already,
while the failed send of the end of stdin is not fatal (`client/mod.rs:216`,
`SendFails`), so that a host that still types when the child exits gets the
child's code or 1 by chance. Each select of the follow makes its own
`ctrl_c()` (`ctl/mod.rs:399`): a SIGINT that falls into a drain, or into a
select whose timer wins, is told to nobody and lost, as the handler is
installed for good; one before the first select kills, where `spec/ctl.md:90`
has it end with success (`Interrupt`, `Wakes`). The select after the
bridge is unbiased, so a child's status may win over a shutdown that came
first, and the ServerStopping that `spec/server.md:87` promises is not sent
(`server.rs:428`; `WaitReaps` and `WaitStopping` are both enabled). A start
that loses the race for the name reports success while the winner's server may
not listen yet (`Reinspects`), which `spec/ctl.md:116` asks for.

Of recovery, found where `InitDelivers` and `FreshIsTrue` had to make their
exceptions:

- A refresh that is killed, or fails, after it truncated `env`
  (`ctl/mod.rs:521`) leaves an empty dump under the old digest. If that
  digest holds (a watched file could not be read for a moment, or a clean that
  broke off had removed the dump, or the edit is taken back afterwards), the
  empty dump is judged fresh from then on, and a container sources it (the
  mishap `cut`).
- init stores the new digest before it stops the old container. If it is killed
  in between, or its stop fails, which it ignores (`ctl/mod.rs:155`), the cache
  is fresh and the live server has the old environment; no later init changes
  that.
- init on a container that runs but cannot be reached goes on to `run`, is
  told that the name is in use, sees it running and succeeds
  (`ctl/mod.rs:600`), though nothing is ever reachable. `InitDelivers` leaves
  out commands that begin with such a container (`Unsettled`).
- A clean whose stop failed goes on and removes cache, stamp and socket file of
  a server that runs (`ctl/mod.rs:454`). Any root may claim the name then, and
  if that server has its socket back (the clean met it before it had bound), a
  `start` in another checkout finds the container live and succeeds over the
  server of the first one, which `spec/paths.md:52` rules out. `InitDelivers`
  excepts it (the mishap `orphan`): found as the counterexample that made its
  proof fail for two roots, where a stop that fails and a start that missed its
  deadline are enough, with no two commands at the same time.

Of configuration and launch:

- An explicit `containerName` in a flake (`ctl/config.rs:161`) is shared by
  its checkouts, while cache, socket and stamp are derived of the root's name:
  the guard passes in each. The second init finds the name in use and succeeds
  over a container in which its root is not mounted and its socket not served
  (`NamedContainersAreUnguarded`); `spec/paths.md:51` says that two checkouts
  must never share one. With derived names it cannot happen
  (`StampGuardsContainer`).
- `ctl/paths.rs:19` takes the socket's place from `TMPDIR` without
  `XDG_RUNTIME_DIR`, so two shells of a user that differ in it look for one
  container's socket in two places.
- The error for a missing home says that neither the XDG variable nor `HOME`
  is set (`ctl/paths.rs:9`, `spec/paths.md:37`), but without `HOME` the user
  database is asked (`Xdg`), so that it is not an error then.
- A watched file that is named twice is mounted twice when hardened
  (`WatchedTwiceIsMountedTwice`), which the runtime may refuse.
- The records of the digest are separated by NULs, which contents may hold
  too: two states of the watched files can have one stream of bytes
  (`NulsHideRecords`).

Of the version probe: the comment at `ctl/version.rs:20` says that a reply that
is neither a skewed version nor an Error stays silent, but the last arm warns of
every other message, as of a ServerStopping, and of a frame that decodes as no
message; only what the codec rejects is silent (`Verdict`, `LosesReply`).

## 5. Proofs

For every set of connections, every set of streams and all capacities and
bounds that satisfy the assumptions of `Server`:

| Theorem | Module | Establishes |
| --- | --- | --- |
| `TypeCorrect` | `ServerProofs` | `TypeOK` |
| `ServerInvariant` | `ServerProofs` | `ServerInv`, an inductive invariant |
| `TerminalDiscipline` | `ServerProofs` | `TerminalIsLast` |
| `NoZombies` | `ServerProofs` | `NoZombieLeft` |
| `KillsAreSafe` | `ServerProofs` | `KillsOwnGroup`, an action property |
| `DrainIsComplete` | `ServerProofs` | `DrainForgetsNobody` |
| `OutputFlow` | `ServerFlowProofs` | `FlowInv`, inductive relative to `ServerInv` |
| `StreamOrder` | `ServerFlowProofs` | `StreamsInOrder` |
| `OutputBeforeExit` | `ServerFlowProofs` | `ExitAfterOutput` |
| `KeepsContract` | `ServerFlowProofs` | `KeepsDialogue`: the server implements `Dialogue` |
| `WithholdingTerms` | `ServerNoticeProofs` | `WithheldOnlyIfTermed` |
| `AnnouncementsAreBounded` | `ServerNoticeProofs` | `AnnouncedAtMostTwice` |
| `SessionIsAClient` | `SessionProofs` | `IsAClient`: ncap against the server is a behaviour of `Server` |
| `SessionInvariant` | `SessionProofs` | `SessionInv`, inductive relative to `ServerInv` and `FlowInv` |
| `OutputBeforeStatus` | `SessionProofs` | `StatusAfterOutput` |
| `InputArrivesWhole` | `SessionProofs` | `InputIsWhole` |
| `FaultsAreCuts` | `SessionProofs` | `FaultOnlyIfCut` |
| `LateEofIsHarmless` | `SessionProofs` | `EofIsBestEffort` |
| `StoppedMeansShutdown` | `SessionProofs` | `StoppedOnlyByShutdown` |
| `CtlTypeCorrect` | `CtlProofs` | `CtlTypeOK` |
| `CtlInvariant` | `CtlProofs` | `CtlInv`, an inductive invariant of any number of commands at a time |
| `OrderInvariant` | `CtlProofs` | `OrderInv`: `CtlInv`, and what a command knows that runs alone |
| `InitsDeliver` | `CtlProofs` | `InitDelivers`, an action property |
| `CleansAreComplete` | `CtlProofs` | `CleanIsComplete`, an action property |
| `FreshVerdicts` | `CtlProofs` | `FreshIsTrue` |
| `StopsAreTrue` | `CtlProofs` | `StopIsTrue`, an action property |
| `FollowInvariant` | `FollowProofs` | `FollowInv`, an inductive invariant |
| `FollowTypeCorrect` | `FollowProofs` | `FollowTypeOK` |
| `FollowOrder` | `FollowProofs` | `FollowsInOrder` |
| `SwitchIsComplete` | `FollowProofs` | `SwitchLosesNothing` |
| `BufferBound` | `CodecProofs` | `BufferIsBounded` |
| `ArrivalInvariant` | `CodecProofs` | `ArrivalInv`: `CodecInv`, and what is under way is a piece of the stream of what was sent |
| `FramesArrive` | `CodecProofs` | `ArrivesAsSent` |
| `ProbeIsAReader` | `CodecProofs` | the probe implements the codec |
| `ProbeFramesArrive` | `CodecProofs` | `ArrivesAsSent` beside the probe |
| `VerdictsAreDue` | `CodecProofs` | `VerdictIsDue` |
| `ProbeBufferBound` | `CodecProofs` | `BufferIsBounded` of the probe |
| `SetupSuffices` | `SetupProofs` | a shell that sourced setup-env misses no derived variable |
| `SetupSettles` | `SetupProofs` | sourcing it again changes nothing |
| `ShellsDoNotLeak` | `SetupProofs` | the derived variables owe nothing to the outer shell |
| `StampGuardsContainer` | `SetupProofs` | container and cache, both derived, are shared together or not at all |

So every invariant and every action property that a passing run checks is also
proved, and by `SessionIsAClient` those of the server hold of the server with
ncap as its client.

The argument. None of the safety properties is inductive alone. That nothing
follows a terminal frame needs to know that a handler which has sent one is at
a place from which it never sends (`reap`, `done`), and that what waits in the
channel and in `reply` during a relay is output: `TerminalEnds`. That a child
is reaped before its handler returns, and not before a kill, needs the child's
life tied to the handler's place: `ChildMatchesHandler`. That the drain misses
nobody needs every live handler to be registered or about to be, and the
acceptor to be over when the handles are taken: `HandlesAreKept`. `ServerInv`
is the conjunction of the three and `TypeOK`; TLC checks it in `bridge`, and
the proof has one lemma per task and conjunct: what a step of the main task,
the acceptor, a handler, a pump, a client or a group does to the one
connection it touches.

Stream order and output before exit are properties of what was sent, but what
makes them true is what was not sent yet. `FlowInv` therefore follows a chunk:
while the bridge runs, a chunk that left the pipe was sent, is held by the
first arm, or waits in the channel (`NothingLost`), in one of them and once
(`InOnePlace`), with all its predecessors ahead of it (`NothingOvertaken`),
and nothing is there that did not come from the pipe (`NothingForged`). A pump
is over only when its pipe is at its end (`PumpsEndLast`); so a bridge that
finds the channel empty and without senders has sent everything, which stays
true to the last frame (`SettledIsComplete`, `LastWords`, `ExitIsComplete`).

The refinement follows from these: a relayed chunk is the next of its stream
because its predecessors are ahead of it and it is in no second place, and it
was made because what is taken was written; an Exit is allowed because a
handler past its bridge has said all. Each action of the server is shown to be
one action of `Dialogue` or a stutter.

That output is withheld only after a TERM adds to `FlowInv` that a handler in
`reap` has sent one. The announcements are bounded by the stage of a handler,
which never goes back: none before the bridge's, one until the late one, two
after it; the TERM of an abandoned bridge takes the place of the late one.

For ncap and the server together, `SessionIsAClient` gives `ServerInv` and
`FlowInv` for nothing; `SessionInv` adds what ties the two sides of the socket.
While the socket is open, what the session has processed is what the server
counts as read (`ReadsInStep`), and while it goes on that was only output
(`HeardSoFar`), so a status it reports is of the one Exit, which by `FlowInv`
has all output before it. A handler that is through has said its last word, and
says `ServerStopping` only after the broadcast (`LastWordSaid`), so a clean end
that no last word precedes is a shutdown. Half a frame is on the socket only of
a session that was killed (`JunkIsCut`). For the input, each chunk the host gave
is counted where it is (`InputCounted`); that the bridge still has a stdin to
put it in needs that it gives one up only after the end of stdin or when the
child closed its end (`StdinKept`), and that needs that nothing follows the end
of stdin, in the channel of the thread or on the socket (`EndIsLast`).

For ncap-ctl, `CtlInv` says where a flow may be (`PlacesFit`), that the
container a stop waits for was started no earlier than the last one it saw
begin (`AimsHold`), and how the cache hangs together while several processes
refresh it (`CacheHolds`). A fresh verdict compares the digest with the files,
not the dump, so it is true only if dump and digest match; they do not while a
refresh is between its write and its digest (`StoredHolds`), but then the dump
is of the files as they are (`WrittenHolds`), because all who work at the same
time work in one root (`OneHome`) and none of them holds an outdated draft
(`DraftsHold`). The steps of a process are first shown to leave the others
alone (`Moves`), and most of them the cache as well (`Aside`), so that each
part needs an argument only for the steps that write.

`OrderInv` is for commands one at a time, after any faults (`OneByOne`). There
is at most one active process (`NobodyElse`), so a step of the runtime's
container, a crash and an edit meet one command, and a command meets nobody;
what it knows at each place is a conjunct of its own: that the stamp is its
root's (`StampKnown`), how far it got with the files (`FilesKnown`), whether the
container runs, can be reached or is gone (`BoxKnown`, unless disturbed), what
was launched since it began (`LaunchesKnown`), and that the cache it launches
from is the one it ensured (`EnsuredKnown`). Between commands the rest holds:
the stamp names the root of the dump and of the container (`StampHolds`, which
`orphan` breaks), a truncated dump is of a refresh that was cut (`TornHolds`),
and while nothing has gone wrong a server serves the dump there is
(`SourcedHolds`). `InitDelivers` reads off what an init or a start knows where
it succeeds, `CleanIsComplete` what a clean knows at its last removal. A
step of a process is treated as a step on what that process owns (`OwnView`,
`OwnStep`), with one lemma per group of places. Where
a part looks odd it is there for a step much later: `StampKnown` speaks of an
init that waits for its stop, because it launches after it.

For the follow, `FollowInv` ties its place to stdout (`OutFits`: from the
announcement on, the last piece printed is the one before `pos` of the
attached file; before it, a piece of an older file) and a switch to the drain
before it (`DrainFits`: while a file waits to be attached that was there when
the drain ended, nothing of the attached file is left). Lines can be added to
the attached file at `next`, but only by the server that is running, which
logs to the newest file. For the codec, a receiver waits only after it found
no frame and no violation in its buffer (`WaitsRightly`); with a header there,
the declared length is then at most the cap, and not all of it has come.

That frames arrive as sent would be an induction over the frames, with the
stream defined by recursion, which is out of the provers' reach. `ArrivalInv`
says instead that there is a stream `S`, and places `ends` in it where the
frames end (`Laid`), such that what is with the receiver, in the socket and with
the sender is the stream from the end of the last decoded frame on, whole but
for what a killed sender kept back (`UnderWay`). The initial state has the empty
stream; a sender that encodes appends to the witness, a receiver that decodes
only moves on in it, and cuts of the bytes change nothing. What the receiver
finds at the front of its buffer is then the next frame: a header reads as it
was written, for four bytes of length as long as the cap fits in them
(`CapAssumption`), and `FromFrame` takes back what `IntoFrame` let through. The
probe adds that it has decoded nothing before its verdict (`VerdictInv`).

The probe reads with the steps of the codec's receiver, or leaves the codec
alone, so what is proved of the one holds of the other. The theorems of
`SetupProofs` are about texts of any length: a derived text is not empty, as
each ends in a constant part (`JoinIsText`), and two derived names are equal
only if the projects are, because equal ends can be cancelled and no project
name begins with a slash. `StampGuardsContainer` needs both shells to leave
container and cache to be derived, and is false otherwise (section 4).

A refresh that is cut breaks the tie of dump and digest, so `StoredHolds` has a
case for it: once one was cut, either the dump is what the digest says or the
digest does not hold of the files, which only an edit could change, and that
edit is a `slip`.

Only model-checked: the liveness properties `ShutdownEnds`,
`ShutdownReachesGroups`, `VanishedClientNoticed`, `DeadChildReaped`,
`ChildsEndReachesHost`, `ShutdownReachesHosts`, `EveryRunAnnounced`,
`LinesArrive` and `ProbeEnds`, since TLAPS proves neither liveness under fairness
nor ENABLED; and the ASSUMEs of section 3, which compare recursive definitions
over bounded inputs. The runs `stuck`, `torn`, `shared` and `edits` are
counterexamples, and there is nothing to prove.

Assumptions of the proofs: `ConnsAssumption` (the value for no connection is
not a connection), `StreamsAssumption` (stream names are not names of other
frames), `CapsAssumption` (capacities are at least one), `BoundsAssumption`,
`SessionAssumption` of `Session` (the server allows ncap's frames, and as
many as ncap may send), `FilesAssumption` of `Container` (the values for no
file and for a truncated one are no contents and no dumps), `CtlAssumption`
of `Ctl`, `FollowAssumption` of `Follow`, `CodecAssumption` of `Codec`
(payloads, messages and noise are made of bytes, the cap is a natural number),
`MessagesAssumption` (a message without content has an empty payload, one in
JSON a payload that parses: what serde writes, serde reads), `CapAssumption`
(the cap is at most 16 MiB, which is the code's),
`ProbeAssumption` of `Probe` and `SetupAssumption` of `Setup` (the words of the
code are texts, a root is a text that is not empty, and the name of a root, if
it has one, does not begin with a slash, which `NamesAreSanitized` shows).

## 6. Not modelled

Left out of `Container` and `Ctl`: two containers over one explicit
`NCAP_SOCKET`, whose servers could remove each other's files; a watched file
inside a mount that the container edits; the profile and its links; collisions
of the digest; the commands `status`, which prints what the probes of the other
commands find, and `enter`, which hands the terminal to `exec -it`. Left out of
`Follow`: the pager, an external program; two starts in one millisecond; a clock
that is set back. Left out of `Setup`: how a number or a JSON array is written;
a root that ends in a slash or in `..`; file names that are not UTF-8. Left out
of `Launch`: the option syntax of the runtime, paths with a colon among it.
`build_runtime_args` fails for a socket without parent, which no path that
setup-env derives is.

Nothing of these was found to hold state or an order of steps that the modules
do not have: message wording, the format of the log beyond its dates, argument
parsing, shell completions, the nix library beyond its hook, and the container
runtime's own behaviour beyond what ctl relies on.

## 7. Plan

1. Done: `Server`, its properties, runs and theorems.
2. Done: `Dialogue`, the abstract contract of one connection, implemented by
   `Server` under a refinement mapping, checked and proved.
3. Done: `Session`, with the stdin thread, and its composition with the
   server: backpressure in both directions, how a session ends, kills.
4. Done: `Container` and `Ctl`, several ctl processes over container, cache,
   stamp and socket file, with edits, kills and failures; types, `FreshIsTrue`
   and `StopIsTrue` proved.
5. Done: `Follow`, the followed file, the scan and the switch, against a server
   that restarts and a clean that removes files; types, order and switch
   proved.
6. Done: `Codec` over arbitrary cuts, the bound on its buffer proved; `Merge`
   and `Expand` against their references.
7. Done: recovery in `Ctl`. The abstract specification of a project's life that
   was planned here (no environment, stopped, served) is what `InitDelivers`
   and `CleanIsComplete` say of the end of each command, after faults too.
8. Done: `Probe`, with its liveness; `Setup`, `Wording`, `Calendar`, `Digest`
   and `Launch` against their references; `SetupProofs`.
9. Done: `SessionInv` and the safety properties of `SessionProps`,
   `ArrivesAsSent` and `VerdictIsDue`, `OrderInv` with `InitDelivers` and
   `CleanIsComplete`, which found the orphan of section 4.
10. Left: what `Expand` and `Merge` compute, restated with functions instead of
    recursive operators as far as single steps can be proved; that `Launch`
    confines the container for any directories; which parts of
    `OrderInv` still hold of several commands at a time in one root.
