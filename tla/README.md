# A TLA+ development of seahaven

seahaven is a fork of the brush shell that runs programs written in Roc, and
shell scripts, in a confined view of the file system: a *session* is a table of
mounts (virtual mount point, host directory handle, access mode) with a working
directory. Bundled utilities are run by spawning the program itself again; the
child gets its session from its parent over a socket, the *session broker*.

This directory holds the model of the parts whose correctness depends on
interleavings, failures and long sequences of legal calls, the TLC instances
that check it, and the theorems that hold for every instance.

## Inventory

| component | source | state it keeps | operations | hard behaviour |
|---|---|---|---|---|
| session broker | `brush-core/src/broker`, `brush-broker-exec`, `brush-shell/src/bundled.rs` | scratch directory, socket files, listener, accepted connection, captured payload, the child's ambient session | `Rendezvous::create`, `serve`, `Drop`, `receive`, `install_dispatch_session` | concurrent dispatches share a directory; strangers connect first; either process dies; every call may fail |
| external commands | `brush-core/src/commands.rs` | the spawned child | `execute_external_command` | serve before wait; spawn failures |
| job control | `brush-core/src/jobs.rs`, `processes.rs`, `results.rs`, the builtins `wait`, `fg`, `bg`, `kill`, `jobs` | the job table, futures of tasks | add, poll, sweep, wait, move to foreground or background, kill | children end and stop at any moment; lost or misattributed signals; futures that give their result once |
| interpreter | `brush-core/src/{interp,results}.rs`, the builtins `break`, `continue`, `return`, `exit`, `eval`, `.` | the chain of calls in progress, the shell and its clones | lists, pipelines, conditions, loops, functions, scripts, subshells | any command may end in a result, an error or a request to leave, at any depth; a pipeline stopped or failing half way |
| mounts, paths, sessions | `brush-vfs/src/{mount,path,session}.rs` | mount table, cwd | resolve, set_cwd | nested and colliding mount points |
| virtual file operations | `brush-vfs/src/{fs,dir}.rs` | none of its own; the host tree | open, stat, list, copy, rename, link, remove | two resolutions (the host's and the walk through mounts) that must agree; links into other mounts |
| directory walker | `brush-vfs/src/walk.rs` | stack of open directories, directories yet to be yielded | next, skip | others rename, remove and link between two of its system calls; link loops; deferred directories |
| ambient session | `brush-vfs/src/ambient.rs` | one process-wide slot | install, current | what runs before installation |
| exec and builtin policy | `execpolicy.rs`, `builtinpolicy.rs`, `grant.rs` | the policy | permit | a check per spawn |
| call stack, traps | `callstack.rs`, `traps.rs`, `shell/traps.rs` | frames, handlers, active signals, blocks | push, pop, invoke | a handler that raises its own signal; an error in a handler; traps from completion functions; `$?` |
| variables | `env.rs`, `variables.rs`, the builtins `declare`, `export`, `unset` | scopes | declare, set, unset, look up, export | locals, assignments before a command and globals under the same name; read-only variables |
| open files | `openfiles.rs` | descriptor map | redirect, clone | |
| expansion, patterns, arithmetic, completion, parser | `expansion.rs`, `patterns.rs`, `arithmetic.rs`, `brush-parser` | none | text to text | |
| interactive front end | `brush-interactive` | line editor | read, run, report | |
| Roc platform and host ABI | `brush-platform`, `brush-roc-host` | stdin's cursor, the output log, finished jobs by handle, the queue of signals | write, read, spawn, exec, wait_any, install, take | the program and its commands share stdin and the log; handles outlive their jobs; a command that cannot be run; a crash |
| entry, configuration, trust | `brush-shell` | trust store | start-up | |

How they interact: the interpreter starts commands and hands stopped or
background ones to the job table; the builtins work on that table; a command
that is a bundled utility goes through `execute_external_command`, which makes a
rendezvous, names it in the child's environment, spawns, serves and then waits;
the platform's `BrokerExecutor` does the same without a shell. The child, before
any of its own code, takes its session from the rendezvous and installs it in
the ambient slot, and from then on every file access goes through the virtual
file operations.

What makes each correct: the broker delivers the right namespace to the right
child or none, and always returns; the job table names jobs uniquely and loses
no process; the virtual file operations resolve a path in one way only and never
leave a mount; the interpreter leaves what it entered, once and in order, and
lets a request to leave travel to its target and no further; a trap does not run
inside itself; the walker gives each entry once, in order, and ends; a variable is
found, changed and exported in the scope it belongs to; the platform gives out each
line, result and signal once, and shows what was written as it was written.

## Modules

| module | what it is |
|---|---|
| `SessionHandover` | what the broker promises: each child is decided once, for its dispatcher's namespace or for none |
| `Broker` | the broker's state machine, one action per system call |
| `BrokerProofs` | theorems about `Broker`, its refinement of `SessionHandover` included |
| `BrokerWire` | the message, its encoding, how it may be cut, and the namespace the child builds from it |
| `BrokerWireProofs` | theorems about `BrokerWire` |
| `Jobs` | the job table and all that works on it |
| `JobsProofs` | theorems about `Jobs` |
| `Namespace` | the mount table, the host's walk beneath a mount, the host's operations on one mount, and the walk through the mounts |
| `Vfs` | the file operations that change something, by several processes |
| `VfsProofs` | theorems about `Vfs` |
| `Walk` | the recursive walk, one action per system call, while another process changes the tree |
| `WalkProofs` | theorems about `Walk` |
| `Interp` | the interpreter: activations, results, errors, traps and the session around them |
| `InterpProofs` | theorems about `Interp` |
| `Env` | the stack of scopes and all that assigns, declares, exports and unsets |
| `EnvProofs` | theorems about `Env` |
| `Platform` | the host of a Roc program: stdin, the output log, jobs and signals |
| `PlatformProofs` | theorems about `Platform` |
| `MCBroker`, `MCBrokerWire`, `MCJobs`, `MCVfs`, `MCWalk`, `MCInterp`, `MCEnv`, `MCPlatform` | the instances for TLC |

`BrokerProofs` extends `Broker`, which is an instance of `SessionHandover` under
a refinement mapping; `BrokerWire` opens up what `Broker` takes as one step of
`Send` and of the child's receive; `Vfs` and `Walk` extend `Namespace`. `Interp`
and `Env` look at the same commands from two sides: `Interp` counts the scopes a
command pushes and pops on every way out, `Env` says what is in them. The command
that `Platform` runs in one step is, with the broker's executor, a dispatch of
`Broker`.

### Broker

A dispatch `d` is a sequence of steps of the parent: `MakeDir`, `TakeName`,
`Bind` (`Rendezvous::create`), `Spawn`, `Capture`, `Accept`, `PeerIsChild`,
`Send` (`broker::serve`), `Unlink`, `RemoveDir`, `CloseListener` (`Drop`),
`WaitForChild`. Each system call is an action of its own since another dispatch
of the same process may run between any two. Each has its failures as separate
actions (`BindFails`, `NonblockFails`, `AcceptTimesOut`, `PeerUnknown`,
`SendFails`, ...) that go where the code's `?` goes: an error before there is a
`Rendezvous` drops nothing (`nocreate`), any later one drops it. `AfterServe`
is where the two callers differ: the shell waits for its child even when serving
failed, the executor returns the error (`failed`).

Two kinds of failure end differently. The errors of the two removals in `Drop` are
discarded (`let _ =`, unix.rs:149-150; "best effort", 141-143): `UnlinkFails` and
`RemoveDirFails` go on like a success and leave the file, or the empty directory,
where it is. The history variable `left` remembers who could not remove what;
`MaxLeft` bounds how often that happens. `WaitFails` is an error of the wait for the
child, or of reading its output (brush-broker-exec/src/lib.rs:158); the dispatch then
is `lost`, and its child may have run, be running or never run.

So `NoLitter` says who is to blame for what is left, not that nothing is: a file that
stays when all dispatches have returned was left by its own dispatch, whose `create`
failed half way or whose removal failed, and a directory stays only with one or the
other. And `ServeErrorMeansNothingRan` is about the errors of the rendezvous, of the
spawn and of `serve`; an error of the wait means nothing of the kind.

The child's steps are those of `install_dispatch_session`: a rendezvous in the
environment means that a handshake is owed (`TakeRendezvous`), without one the
identity namespace is built (`UseIdentity`). A process run by hand takes the same
steps, and may carry a rendezvous that is not its own.

The kernel is modelled from its use: a listener's backlog is a FIFO queue that
takes connections from the moment of `bind`, a connection reads as end of file
once the parent has dropped it, `remove_dir` fails on a directory that is not
empty. A deadline has no clock: it may pass whenever the code looks at it, which
for `accept` is only when nobody is waiting.

`ParentCrash` kills the parent between any two steps; `Die` kills a child before
it has a session.

### BrokerWire

The message is the sequence of its fields; the stream may be cut anywhere and the
kernel may deliver fewer descriptors than were sent (`Receive`). `Install` is
`decode`, `assemble` and `Session::set_cwd`. Bytes within a field are abstract: a
field that is cut is a field that is missing, since every length is checked
before its bytes are taken.

### Jobs

`table` is `JobManager::jobs` with its order; `run` and `outcome` are the
operating system's (or the runtime's) view of each task; `taken` are the tasks
whose future has given its result, which must not be polled again; `unseen` are
the stops that `waitid` has not reported yet, and `chld` is the SIGCHLD pending
for the wait in progress. The shell is in one `mode` at a time. `CheckJobs` is
`JobManager::poll` before a prompt; the `Pipe...` actions are
`wait_for_pipeline_processes`; the `Job...` actions are `Job::wait`;
`Foreground`, `ToBackground` and `Kill` are the builtins, each through
`representative_pid` because no job records a process group. Removing jobs by index
while counting (`CheckJobs`, `sweep_completed_jobs`) keeps those that have tasks
left in the order they had: `Kept` selects them by their positions, `InOrder`.

### Namespace and Vfs

A mount's host directory is a function from the paths beneath it to a directory,
a file or a link. `HostWalk` is what cap-std does beneath one such directory: it
follows relative links and denies what leaves the directory or is absolute.
`Locate` is `Vfs::locate`: it asks the mount table about every prefix, reads
links itself, and goes on from the virtual root for an absolute one (`LinkBase`).

An operation of `Vfs` resolves first and acts later. `AtDirect` is the fast path
of `Vfs::at`, the whole path to the host in one system call, final unless the
answer is a refusal. `AtLocate` and `AtPerform` are its other half, with the
process's plan in `job` in between, where any other process may act; `rename`,
`hard_link`, `copy` and `symlink` come in the same two halves. The host resolves
the located path once more when it acts (`HostDo`, `HostRename`, `HostLink`), so
a plan made stale by somebody else's link does what the host makes of it.

`create_dir` makes one directory where there is none; `create_dir_all`, which also
makes the parents and succeeds where there is one, is not modelled beside it.

A walk is one step, though in the code another process may act between two of its
probes: what it found is stale in either case by the time it is used, and the
host's second resolution decides. Missing components are passed over by `Locate`
as in the code. File contents are `old` or `new`, and a changed mode or time
counts as `new`; contents are not shared between hard links.

### Walk

One call of `next` is several steps, as many as it makes system calls: `RootEntry`
stats the root, `Take` stats the next name of the innermost directory, `Follow`
stats through a link, `Open` opens a directory and `List` reads its names; `Pay`
yields a directory kept back by `contents_first`, `Leave` closes one whose names
are used up. An open directory is an identity, and where it lies is looked up
when it is used, since a handle stays with its directory whatever happens to the
name. `Other` is another process that renames, removes or links between any two
steps.

With a link as the root and `follow_root_links`, the `metadata` that says whether it
leads to a directory (walk.rs:625) and the `open_dir` after it are one step, `Open`,
so that no change falls between the two.

Sorting is left out: names are taken in any order, which includes the sorted one.
`seen`, `skipped`, `stable` and `beneath` are history variables: what was given,
whether the caller skipped anything, which paths nobody has touched and which
directories have been beneath the root at some time, or beneath one that had been.
The second half matters: walk.rs:26 and 568-570 keep a rename from redirecting the
walk, and a directory it holds is still walked after it was moved out of the root,
so what is moved into it there is entered too. Two mounts whose host directories
overlap are left out (`OnePlaceEach`).

### Interp

The program is left open: a list may hold any commands, and a command may be
anything and end in any way. `k` is the chain of Rust calls in progress, `ret`
what travels back along it, and `sh` the state of the shell that is running. A
subshell or an element of a pipeline runs in a clone (`Cloned`), and the shell it
was cloned from waits in the activation's `home`. `mode` and `stage` are the
session around it: a program after the other in an interactive shell, one in the
others, and the EXIT trap at the end.

`StartSimple`, `AssignFails`, `PreExecute` and `Invokes` are the stages of
`execute_simple_command` (assignments, the DEBUG trap, the call); `Finishes`,
`SetsTrap`, `SetsOption`, `Evaluates` and `Sources` are what the command may be.
`EndPipeline` is where the status is set, the ERR trap fires and errexit decides.
`CatchError` and `PassError` say at which activations an error becomes a result
and at which it goes on, and what is left on its way.

What is put together: `while` with `until`, the arithmetic `for` with `for`; brace
groups and `case` run in place and add nothing; command and process substitutions
are part of a command that is done at once (`AtOnce`); the elements of a pipeline
run one after the other, since each has a shell of its own, and `lastpipe` is off.
Exit codes are 0 or 1.

### Env

`scopes` is `ShellEnvironment`'s stack. `phase` is where the innermost command is:
assigning what is written before it (`prefix`), being run (`command`), running as a
builtin after it has changed something (`builtin`), or running statements (`run`).
`Assign`, `Update`, `PrefixAssign`, `Declare`, `Export` and `Unset`, with their
forms for an element of an array, are the callers of `env.rs`, each with its own
rule for the scope it looks in and the one it adds to. The variable `prefix` keeps
what the command being started was given, for the property about it.

`Coproc` is the end of a `coproc` command: `set_global` replaces the global variable,
whatever it is and whatever hides it. It is the one operation that `ReadonlyStays` and
`HiddenUntouched` except (`Replaced`), for the global scope only. `Name` is the names
that scripts set; `_`, and the `READLINE_` and `COMP_` names of a completion, are set
by the shell itself and are not among them.

Values are abstract: that an element is replaced or a value appended to is the
choice of the new value. So a string and an array are told apart only where the
code decides by it whether to refuse.

### Platform

`VfsPlatform` is called by one thread, one effect at a time, and a command runs to
its end inside `spawn`; so an effect is one action, and what is hard is the order
of effects, which is any. `stdin` is a sequence of lines with a `cursor`, moved by
the program's reads and by commands that inherit it, also by one that then cannot
be run (`SpawnFails`). `log` is `OutputLog` with its joined segments, `jobs` the
finished ones by handle, `installed` and `pending` the `SignalQueue`. `Exec` is the
four effects that spawn and wait in one. The other variables are history: what was
read, written, reported, run, waited for and caught.

`shown` is what the real streams have got. `Report` is `roc_dbg` and
`roc_expect_failed` (brush-roc-host/src/lib.rs:122-132), which write to the real
stderr at once, past the log; `Crash` is `roc_crashed`, or an allocation without
memory, which reports in the same way and exits, so that nothing buffered is shown;
`Abort` is a report that cannot be written, a panic that the C ABI turns into an
abort. `Finish` is the return of `roc_main` and `flush_guest_output`, which discards
the errors of writing and flushing (218-221): each stream gets a beginning of its log
(`Beginnings`), all of it or less, independently of the other. `OutputKept` is
accordingly in two halves: the log keeps each stream and their order exactly, and a
real stream has its reports, then such a beginning, and nothing else.

An effect that changes nothing (a read at the end, a wait for handles that name
nothing, a signal without a handler) is a stutter. A child writes at most one text
to each stream. How an exit is told (an error, a negative number, 128 more) is left
out, and so are the effects on files, the environment and the clock.

## Runs

| run | question | bounds |
|---|---|---|
| `broker` | is the handover safe, under every interleaving and failure, does every dispatch return, is every child decided? | two dispatches, one by the shell and one by the executor, and one process run by hand that carries the first socket name, which either dispatch may take, or none; one removal that fails; with the fairness below |
| `wire` | does the child build its parent's namespace? | up to four mounts over five paths (nested, disjoint, one pair that differs in case only), two handles |
| `jobs` | does the table keep its promises, is an end always seen? | two processes, one task of the shell, pipelines of two; with the fairness below |
| `jobs_panic` | does the shell survive every look at a job? (no) | one process, one task |
| `vfs` | do the two resolutions agree, do links keep their meaning, is a read-only mount left alone? | two processes, two calls, three mounts, one of them nested and read-only; 35 host trees, each with one link of seven kinds at one of five places; six paths |
| `vfs_links` | does every link stay in its mount? (no) | one process, three calls |
| `walk` | does a walk end, in order, beneath its root, without forgetting anything? | five sets of options, three trees (plain, with links up and into another mount, with a link as the root), two changes by another process at five places |
| `interp` | are the stacks balanced, is a condition quiet, do `return` and `exit` reach their target? | a script with errexit and an ERR trap; a list starts among at most four activations, `break` names up to three loops |
| `interp_traps` | does a handler run inside itself, or from a completion function? | an interactive session with ERR, DEBUG and EXIT traps and errtrace, three activations |
| `interp_pipe` | is an element of a pipeline a subshell? (no) | three activations, no traps |
| `env` | does a command find what was assigned before it, are read-only and hidden variables left alone by all but `coproc`? | one name, two values, five scopes |
| `platform` | is everything read once, does a handle name its job, does output come out as written? | two lines of stdin, one write by the program, one report of the runtime (and that of a crash), two commands of any output and plan, two signals |

Two dispatches are enough for every race between a step of one and a step of
another; the process run by hand adds a third party at the socket of either. Socket
names need no bound: each dispatch takes one. In `wire` the kernel passes three
descriptors and the child's buffer takes two, so a session of four mounts fails
to be sent, and one of three is cut. In `Jobs` two processes make the smallest
pipeline of which one part can differ from the other, and the task beside them
makes ids be reused below and above a job that stays. `MaxPipe` bounds pipelines,
a task is started once.

In `vfs` the host tree is not bounded by calls alone: every kind of link (within
its directory, up and down, into the nested mount's shadowed directory, absolute
into the same and into another mount, dangling, in a loop with itself) is there
from the beginning, at the end and in the middle of the paths called with, and two
calls are enough for one process to act between another's two halves. `MaxHops`
stands for the code's 40 and the host's own limit. `FastPathAgrees` and
`LinkMeansTarget` are stated where no mount point lies beneath a link
(`PointsClear`); elsewhere they do not hold, see below.

In `walk` the changes hit the root, a directory on the way, one beside it, a free
name and a name beneath that, so that a directory being read can be moved away,
replaced by another or by a link, brought back, and have another moved into it
where it then is. `NothingLost` says nothing of the options in which a link as the
root, a minimal depth and `contents_first` come together (`Uneven`), and no instance
has them: the walk forgets directories then, see below. In `interp` four activations take a function or a
script called from a loop in a pipeline, and the handler of a trap inside it; the
bounds are on where lists and settings start, never on how anything ends. In `env`
five scopes take a function with an assignment before it, a local of the same name
and a command in it; that a builtin runs in a function called from a function is
left to the theorems. Names do not interact in `Env`, so one is enough. In
`platform` two commands and a write between or around them give every order of
streams in the log, and a handle that is reused is seen with the second command;
`MaxWrites`, `MaxReports`, `MaxSpawns` and `MaxSignals` bound only how often, and the
theorems have no such bound. In `broker` one removal that fails is enough to tell a
file that its own dispatch left from one that another took for its own, and the
theorems again have no such bound.

`Quiet`, `Decided` and `Panicked` are the places where the system may stop; they
stutter, so that TLC reports every other place where nothing can happen.

### Fairness

`Broker!FairSpec` assumes that each dispatch is scheduled, each child too, and that a
utility ends. A child has one condition for its handshake and its end, which are never
both enabled. No failure needs to happen but those a deadline brings about:
`WaitFails`, `HandshakeError` and `Die` are outside the fair actions, and a removal or
a system call that fails is an alternative to one that succeeds. The two liveness
properties say that time and again no dispatch is under way and no child undecided. As
neither goes back once it has come to its end, that is the same as each of them coming
to its end; it is one formula for TLC instead of one for each process.
`Jobs!FairSpec` assumes only that the runtime polls what the shell awaits: no
command is assumed to be typed, no process to end or to be continued.
`Walk!Fairness` assumes that the caller goes on asking for the next entry. It is
weak fairness of `Walker`, which is enabled until the walk is over, written
without ENABLED.

### What the violations show

* `jobs_panic` - an error leaves the exhausted future in the job (jobs.rs:65-79,
  401-420), and the next poll or wait of the job polls it again.
* `vfs_links` - `rename` of a link and `symlink` check that the stored target
  stays in the mount; `hard_link`, and `rename` of a directory with links in it,
  do not, against the property the tests state at fs.rs:2143-2145. The walk in
  the namespace and cap-std still refuse to follow such a link; what follows it
  is the host's own tools, afterwards.

* `interp_pipe` - the result of the last command of a pipeline is kept whole
  (interp.rs:557), with its request to leave: after `true | exit 0` the shell
  itself exits, though interp.rs:479 promises a separate subshell for each command
  and 703-704 say what a subshell's requests are worth.

Other differences met while modelling, which no run is about:

* Broker: `RECEIVE_TIMEOUT` is documented as how long a child waits to be served
  (unix.rs:20-21) but bounds the connect alone; a unix socket connects once the
  listener is bound, and `recvmsg` has no timeout. `Drop` of one rendezvous removes
  the shared directory, when it is empty, between `create_dir_all` and `bind` of
  another, whose command then fails. A session whose working directory is an
  unmounted `/` is always refused by the child's `set_cwd`. An error of the executor's
  wait is worded by `spawn_failed`, whose comment says "The launcher could not be
  spawned" (brush-broker-exec/src/lib.rs:193), although the utility may have run.
* Jobs: a stopped pipeline is continued through one of its processes
  (jobs.rs:438-453), and the wait for it hangs on the others. Two jobs may be
  marked previous. A stop of any child marks the job that is waited for as stopped.
  An error while a pipeline is waited for drops its remaining children, which then
  are in no job.
* Files: where a link has been put on the way to a nested mount point, `at` goes
  straight to the mount and `locate` follows the link, so `canonicalize` and `open`
  disagree, against fs.rs:664-667. `copy` and `set_times` do not follow a final
  link themselves and then have the host follow it, past a nested mount's point. A
  missing component followed by `..` in a link's target is not there for the host,
  and is passed over by `locate`.
* Walker: with a nested mount the walk lists the host directory its point shadows,
  against walk.rs:19-21; with a link as the root, a minimal depth and
  `contents_first` it forgets directories; following a link resolves its whole path
  again, so a rename of an ancestor redirects it.
* Interpreter: a subshell starts with no active signal, so `set -E; trap '(false)'
  ERR` enters its handler again without end; an error of a builtin in a pipeline
  crosses the task and ends the list around it; `break` outside a loop ends the
  program; RETURN and system signals can be trapped and are never delivered;
  Ctrl-C drops the future of a completion function (completion.rs:20-27 of
  `brush-interactive`) and the block on traps stays.
* Variables: an assignment before a command inside a command is not always undone
  (interp.rs:1357-1359, 1579); an element of a read-only array can be assigned
  (variables.rs:377, 501); a local that is not exported does not hide an exported
  variable of the same name from a child; `set -a` is not looked at by `read`, `for`
  and `export`; `coproc NAME` puts a
  fresh variable in the place of the global `NAME` and `NAME_PID`
  (interp.rs:789-798, env.rs:546-582), also of a read-only one, and also in a function
  whose own `NAME` hides it; `$_` is a global in the same way, set unless the `_` that
  a lookup finds is read-only (shell.rs:459-479), so a read-only global `_` that a
  function's own one hides is replaced.
* Platform: the executor holds a clone of the session, made at the start
  (brush-roc-host/src/lib.rs:319-331), and a clone has a working directory of its
  own; after `env_set_cwd` commands still run in the first one, though
  brush-broker-exec/src/lib.rs:48-50 says that a child sees exactly what the guest
  sees. `install_session` never calls `with_stdin`, so a program started by that
  host finds its stdin empty whatever is piped to it. A command that inherits stdin
  and cannot be run has taken it all the same. What a program wrote before a crash
  is not shown, and that a real stream took less than all of it is not told; a debug
  report comes before all that was written earlier.

## Proofs

All theorems are over arbitrary constants under the named assumptions
`BrokerAssumption` (a dispatch is not a process run by hand, a session is neither
the identity namespace nor absent, bounds are naturals), `WireAssumption`, `NamespaceAssumption` (two
mounts have different mount points, and no mount point holds "..", as the grammar of
`VirtualPath` refuses it, path.rs:72-73), `VfsAssumption` (each mount is a tree of
directories, `HostDirectory`, and a target is a path), `WalkAssumption` (the same of
the trees a walk begins with, which hold directories, files and links; a path as the
root, and no minimum above the maximum), `HostAssumption` (the trees of the host are
trees, no directory lies in two places or under two mounts, and what another process
makes is a link), `InterpAssumption`, `EnvAssumption` and `PlatformAssumption` (which
sets the constants are drawn from, and that bounds are naturals). `UpAssumption`, that ".." is a string,
is true of TLA+'s strings; the provers only have no rule for it.

`BrokerProofs` proves `Spec => []IInv`. The invariants of the run are not
inductive: that `inbox[c]` is the right session needs that the payload in flight
is (`Carried`), that the peer was checked (`Dispatched`), and that what a child
reads from its environment is its own dispatch's socket name. `IInv` is the
conjunction of

* `TypeOK`;
* `Names`: names are below the counter and no two dispatches share one;
* `OwnedFiles`, `OwnedDir`, `RendezvousStands`: who has a socket file, and that
  the directory stands under it; a file has an owner that will remove it, has given
  up on it, or could not remove it (`left`);
* `Dispatched`: where a dispatch is says whether its child has been born and what
  it was told;
* `Connections`: a child is at one place in one queue, that of a dispatch whose
  name it was told;
* `Carried`, `OnlyItsChild`, `Ran`, `NeverUnconfined`: the payload from capture to
  the child's ambient session.

Each action preserves it by a lemma of its own; `Invariance` combines them, and
`Delivery`, `Confinement`, `Standfast`, `Strangers`, `Handoff`, `Failure` and
`Tidiness` follow, the last two as far as their properties go: `Failure` covers the
errors from before the wait, `Tidiness` says which dispatch left what. `Implementation` shows that every step of the broker is a step
of `SessionHandover` or a stutter under the refinement mapping (`verdict` from the
child's state, `holds` from its ambient session).

`BrokerWireProofs` proves `SameNamespace` from `OnTheWire`: what is on the wire is
a prefix of what was encoded, and a message that decodes and whose count of
descriptors is right is whole (`WholeOrNothing`). For `RefusedForCause` the
invariant `Accountable` adds that the session's working directory, while it is there,
is one the child can reach; a whole message then passes every check of `assemble`.

`JobsProofs` proves `IdsDistinct`, `CurrentIsNewest`, `NoProcessLost`,
`LeavesWhenEnded` and `WaitAllWaits` for any number of jobs and pipelines of any
length. `Inv` adds to the first three the types, that only a pipeline in the
foreground has children to wait for (`OnlyThePipeline`), and that `wait` without
arguments leaves behind it jobs that have ended or that it was told are stopped
(`Passed`). What polling removes is the heart of it: `Kept` keeps the order and the
distinctness of what stays (lemmas on `InOrder`, by counting), and a job that goes
has no task left.

`VfsProofs` proves `ReadOnly`: no operation changes a read-only mount, for any
mounts, trees, paths, targets and number of processes (`NamespaceAssumption`,
`VfsAssumption`). The operations of `at` look at the access mode when they act,
the others only when they locate, so the inductive invariant is `Cleared`: a plan
that will not be looked at again is aimed at a writable mount (theorem
`Clearance`). `OneMount` says that what the host does in one mount changes no
other; each action then preserves both by a step of its own. `Resolve`, `Locate`
and `HostWalk` are left unexpanded in this proof: the result does not depend on how a
path is resolved, which is what makes it a defence against whatever a walk returns.

The other two compare walks, for paths and chains of links of any length.

* A walk is a recursive function on steps, chosen among those that keep its rule;
  that there is one is `TailRecursion`: a step leads to one that is nearer the end
  (more hops taken, or as many and fewer components left), so every step ends
  (`Nearest`, `HostWalks`, `Locates`), in a failure or in a path with nothing
  left to do (`HostFinds`, `LocateFinds`).
* Every operation leaves each mount a tree of directories, and what is planned well
  typed (`Types`, with `PutStays`, `TakenStays` and `MoveStays` for what the host may
  do). This is the inductive invariant, `Typed`.
* `FastPathAgrees` (theorem `FastPath`). The namespace's walk goes to the mount point
  without meeting a link, as none lies above a mount point (`PointStraight`). From
  there a step of the host at `s` beneath its root has a `Twin`, the namespace's at the
  mount point followed by `s`; where the host goes on, both take a step and are twins
  again (`TwinStep`), and so to the end (`Simulated`). That no mount point lies
  beneath this one is what makes every place there governed by the same mount
  (`ResolveBeneath`).
* `LinkMeansTarget` (theorem `LinkMeaning`), for the tree with the new link in it.
  What `locate` gives for the link's path has no ".." in it (`LocatePlain`), so the
  host goes along directories to the link (`PavedOn`, `LinkPaved`), takes it
  (`LinkTaken`), climbs by the ".."s stored in it to what the link and its landing
  share (`Climbed`), and stands where the namespace's walk along the landing also
  comes by (`BeneathStraight`); from there they are twins (`LinkLeads`). That the new
  link lies above no mount point is `StillClear`. `StoredMeans` puts these together.

`InterpProofs` proves all safety properties of `Interp`, for scripts nested to any
depth: `TypeOK`, `Balanced`, `NoSelfNesting`, `NoTrapInCompletion`,
`QuietStaysQuiet`, `ReturnHasTarget` and the action property `ExitSticks`.
`Balanced` relates the shell's stacks to the activations; to be inductive it needs
what each activation must be by its place (`Placed`: a session's program or
completion only at the bottom, a trap on a signal that was not active, a clone's
parent waiting unchanged), which is also what `NoSelfNesting` and
`NoTrapInCompletion` rest on. The others need that an activation hands its quietness
to the one it starts (`Passes`), fires the ERR trap only where it is not quiet and
forgets a result before it goes on (`Ready`), and that a request to return has a
function or a script below it (`Target`). The invariant `Inv`
states all of it for the chain of activations, the shell and the session's base at
once (`Sound`). Every action is one of three things, the last activation changed,
one added or the last removed, and the lemmas `Same`, `Pushed` and `Popped` say once
for all that each keeps them in agreement.

`WalkProofs` proves `InOrder`, `NoLoop`, `StaysBeneath` and `NothingLost` for any
trees, any options and any changes by others. The first two do not depend on what a directory holds.
`Ordered` says
what the two stacks and the entry in hand say of what was given: each directory
being read lies in the one before it, under a name taken from it (`Nested`); no name
still to come leads to what was given or deferred (`Behind`, `Waiting`); a deferred
directory comes after all that was deferred or given beneath it; nothing at the path
in hand or beneath it has been given (`Fresh`); and the deferred directories are at
most as many as the open ones, one more after a step down. `Checked` carries the
comparison with the ancestors from `Open` to `List`. `StaysBeneath` rests on the host:
the trees are a `Forest` (what is there lies in a directory that is there, and a
directory is in one place), and every rename, removal and link leaves them one
(`Moves`, `Removed`, `Made`: each directory of the new tree is one of the old, found by
an injective `from`). So what lies beneath a directory beneath another lies beneath
that too (`BeneathDeeper`), the set `beneath` stays closed under going down
(`ChangedClosed`), and a directory opened by name from one that is open is in it
(`OpenedBeneath`), whatever the host's walk returns; `Reached` carries this from `Open`
to `List`. The directory opened by its path instead of its name, the mutant
`OpenChildByPath`, is what breaks it.

`NothingLost` rests on both halves. Its invariant is `Kept` (theorem `KeptHolds`): what
has been left alone is there, and all that leads to it are directories that have been
left alone (`Still`); a directory being read at such a path is the directory there
(`Genuine`), and so is the entry in hand unless a link was followed (`GenuineInHand`);
with `contents_first` and a minimal depth the deferred directories are at least as many
as the open ones, and none lies deeper than its place (`Even`); and each path left
alone is excused, or has been given, is deferred, lies beneath the entry in hand, or
beneath a name still to come (`Remembered`). That a name on the way to such a path
cannot be missing when it is stat'ed (`Innermost`), nor be anything but that directory
when it is opened (`OpenedIs`), follows from where the root's directory lies in the
forest (`Within`, `Onward`). What others do takes paths away from `stable` and changes
nothing about the rest (`Leaves`, `LeftKept`). `Even` is why `get_deferred_dir`, which
matches the two stacks by counting, drops only directories that are above the minimal
depth (`PaidLess`), and it is what a link as the root breaks (`Uneven`).

`EnvProofs` proves `PrefixReachesChild`, `ReadonlyStays` and `HiddenUntouched` for
any names, values and number of scopes; the last two with the exception of `coproc`
that they state, which is one case of their proofs (`CoprocWrite`). Every operation on
variables is one write of one variable in one scope (`Writes`, lemma `Writing`); every
other step pushes
or pops a scope (lemma `Controlling`). The inductive invariant adds to `TypeOK`
that only a variable that is there is read-only (`Present`), and that what was
assigned before a command is the binding a lookup finds, and exported
(`PrefixSeen`).

`PlatformProofs` proves `InputsOnce`, `HandleNamesItsJob` and `OutputKept` for any
input and any number of calls. The first is inductive with its types (`Inputs`). For
the second `HandlesKept` says that the handles given are the numbers below
`next_handle`, in order (`GivenInOrder`), that what is held and what was waited for
is what was run under that handle (`HeldIsRun`, `WaitedIsRun`), once (`WaitedOnce`),
and that every handle is in one of the two places (`HeldOrWaited`); only `Spawn`,
`WaitAny` and `Exec` touch the table. For the third, `Collect` is a recursive
function of a log: that it has a value for every log (`AddsExist`), only one
(`SumsAgree`), and what another segment or a longer last one adds to it
(`AppendCollects`, `JoinCollects`) is shown by counting. What a real stream gets at
the end is a beginning of that, behind the reports that are already there.

Induction is done over sets: the library's theorems take the formula as a parameter,
which the provers cannot instantiate, but a set of numbers that is not empty has a
smallest element (`Smallest`, from the well-foundedness of the naturals), so a set
that holds 0 and the successor of each of its numbers holds them all (`Counting`).

Model-checked only: liveness (`DispatchReturns`, `ChildDecided`, `EndIsSeen`,
`Terminates`), which is out of this prover's reach.

## Plan

In order of importance; A to C, E and F are done, D, G and I in part.

* A. `SessionHandover`, `Broker`, `BrokerWire` and their proofs.
* B. `Jobs` and `JobsProofs`.
* C. `Namespace`: paths, the mount table, locating a path through links; that the
  host's walk and the walk through the mounts agree wherever the fast path is
  taken.
* D. File operations over C: `Vfs` and `VfsProofs`, with the proof that the two ways
  of resolving a path agree and that a link means what it was made for. Left:
  `create_dir_all` and its parents, opens that must not follow a link, reads
  (`read_dir`, `metadata`, `canonicalize`), the descriptor-relative operations of
  `dir.rs`; a proof that `symlink` and `rename` of a link preserve that a link's
  target stays lexically in its mount.
* E. `Walk`: every entry once, loops cut, contents before directories, nothing lost;
  `WalkProofs`.
* F. `Interp` and `Env`: call stack, traps and scopes of variables.
* G. Control flow of the interpreter, in `Interp`. Left: redirections, `lastpipe`,
  `coproc`.
* H. Exec policy and ambient session.
* I. `Platform`: stdin, output, job handles, `wait_any` and signals. Left: the
  working directory it shares with its executor, and its composition with `Broker`.

## Not modelled

The Windows transport, text processing (parser, expansion, patterns, completion,
arithmetic), the interactive front end, start-up code, the conversions of the Roc
host, the bundled utilities themselves and the development tooling; each is listed
with its reason in `PROJECT.json`.

Most of the repository's lines are of that kind: the forks of coreutils, findutils,
grep and sed under `forks/`, the generated ABI of the Roc host, the parser and the
expansion of words. Their subject is text and tables, in which a state machine has
nothing to say that the comparison tests do not, so the share of all lines that
the modules stand for stays small; what they cover is the code that keeps state
across calls, processes and failures.
