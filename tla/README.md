# The function runtimes in TLA+

This directory specifies and verifies the language runtimes of the repository:
the programs that run inside a container of the platform, fetch one invocation
request after another, call the user's function and send back what it returned.
The specifications are model-checked with TLC; every safety property that a
passing run checks is also proved with TLAPS for all values of the constants.

Section 1 is the inventory of the system. Sections 2 to 4 say what is modelled,
what each run and each theorem shows; section 5 lists what the models make
visible about the code, section 6 what is not modelled, section 7 what a next
step would be.

## 1. The system

### 1.1 The common shape

Every runtime is a loop around one library, the *native client* (`get_next` /
`WaitForInvocation`, `post_invocation_response`, `post_error`, ...): poll the
platform for a request, prepare the environment, load the user's code, call the
handler, post the result or an error, poll again. What the platform relies on is
the same for all of them and is stated in one abstract specification,
`InvocationContract`: each request is handed out once and is answered **at most
once, after it was handed out**. It is not promised that each is answered, since
user code may never reply.

The languages differ in the part that is hard:

| runtime | who interleaves | what is shared |
|---|---|---|
| Node.js 8 and later | callbacks, timers and promises of one event loop; several requests in concurrent mode | the current callback (`global[CALLBACK]`), `process._fc`, `FCWaitForEmptyEventLoop` |
| Node.js 4 and 6 | the same, ticks, and HTTP posts whose end is awaited | the same |
| Python 3 | threads, one per request; signals | handler cache, `sys.modules`, the loading lock, environment, working directory |
| Python 2 | none (one thread) | handler cache, `sys.modules`, files |
| PHP 7.2 | none in the loop; a php-cgi child process | `include`d code, the strict error handler, `is_start_php_cgi`, the FastCGI socket |
| Java, .NET | not visible: only compiled files are in the repository | |

### 1.2 Components

**Node.js invocation loop** (`nodejs12/{bootstrap,callback,client,invoke}.js`,
byte-identical in nodejs8, nodejs10, nodejs14_alinode, nodejs16_alinode).
State: `setImmediate` callbacks that will start a poll, calls of
`waitForInvocation` under way, the current callback, `isConsumed`/`isDigested`
per callback, body streams being read, three process-wide flags. Hard: five ways
to answer a request (callback, synchronous throw, rejected promise, uncaught
exception, failed poll) that race in any order; code of an answered request that
still runs; three ways to start the next poll that must not add up. Correct when:
at most one answer; in single mode one request in flight and errors attributed
to their own request, also where a post raises or a stream stalls; one poller in
concurrent mode; the runtime always comes back to poll.

**Node.js loop, versions 4 and 6** (`nodejs6/*`, the files of nodejs4 are the
same): as above without a native client. Polls and posts are HTTP requests, the
next iteration waits for the *end of the response* to the post, and a callback is
digested in `process.nextTick`, so the function goes on running before its value
is formatted.

**Node.js HTTP parameters** (`httpparam.js`): headers and queries of a request
are parsed, merged across spellings and frozen; the handler fills in a response
whose headers live in two collections, and sends it once.
**Environment and code loading** (`bootstrap.js`, `config.js`, `environment.js`,
`sanitizer.js`, `prepare_code.js`): variables are read, then removed; after a
restore from a snapshot placeholders are replaced; handlers are loaded and kept;
stacks are washed of the runtime's frames.
**Logging, errors, unused files** (`console.js`, `logger.js`, `error.js`,
`event_loop.js`, `validator.js`).

**Python 3 invocation loop** (`python3/bootstrap.py`,
`python3/fc_rapis_client.py`, byte-identical in python3.9). Hard: double-checked
loading by several threads; exceptions and `SystemExit` between `acquire` and
`release`; a post that raises after the End line was printed; a SIGTERM between
any two steps; the restore after a snapshot. Correct when: a module body never
runs twice at once and nobody sees half a module; the End line agrees with the
answer; no user code runs before the restore; every taken request is answered
while user code does not exit.

**Python 3 log sinks** (`AsFlushWriter`, `FcSysLogSink`, `FcUserLogSink`): frames
with a type and a length, cut to a maximum, through a buffered writer per logger;
a failed flush is repeated once, a failed write is not. **WSGI**
(`fc_rapis_wsgi.py`): the environment made of the HTTP parameters; `start_response`,
`write` and the returned pieces, collected for one post. **Context and serialisation**
(`fc_rapis_{context,util,exception,constant}.py`).

**Python 2 runtime** (`python2/*`): the same loop without threads, lock and
snapshot, and with a loader that looks for the file before it asks
`sys.modules`.

**PHP loop** (`php7.2/src/{bootstrap,invoke,rapis,util,fc_init}.php`): three
catches around one another; `include_once`; functions that belong to the process
and not to the file that declares them; an error handler that turns notices into
exceptions as soon as the first file was loaded; outcomes of posts that nobody
looks at; two clients. **CGI proxy and FastCGI client** (`http_cgi.php`,
`client.php`): starts php-cgi in the background, sends requests under ids drawn at
random, collects packets until END_REQUEST, an error or a timeout. Hard: a php-cgi
that does not come up, stalls, dies inside a packet or never stops writing; text of
STDERR between the lines of a reply. **HTTP wrapper** (`http_wrapper.php`).

**Start scripts** (`*/bootstrap.sh`), **native client** (a binary), **Java and
.NET** (compiled), **vendored packages**.

### 1.3 Interactions

The platform hands requests to the client; the loop passes the parsed request to
user code by a direct call (Node: and a callback object; PHP HTTP functions: and
the CGI proxy, which talks to a child process over a socket). User code reaches
back through the callback, through exceptions, through what it leaves in the
event loop, in the module table or among the files, and by ending the process.
`PROJECT.json` lists the places where this can go wrong ("hazards") with the
property that covers each.

## 2. Modules

| module | contents |
|---|---|
| `InvocationContract` | the abstract specification: `Take`, `Answer` |
| `NodeRuntime` | the Node.js loop, both clients, both modes |
| `NodeLegacy` | the loop of Node.js 4 and 6, both modes |
| `NodeHttpParam` | request and response of a Node.js HTTP function |
| `NodeEnvironment` | environment, snapshot, code loading, washed stacks |
| `PythonRuntime` | the Python 3 loop, single and concurrent |
| `PythonLogs` | the log sinks of Python 3 |
| `PythonWsgi` | request and response of a WSGI application |
| `Python2Runtime` | the Python 2 loop |
| `PhpRapisClient` | operators: what a poll and a post come to, with either client |
| `PhpRuntime` | the PHP loop (EXTENDS `PhpRapisClient`) |
| `FastCgiRecords` | the wire format: cut streams, lengths of packets and pairs |
| `FastCgiClient` | a connection to php-cgi, which may stall, reject and die |
| `PhpCgiProxy` | the life of php-cgi, and the reply taken apart |
| `PhpHttpWrapper` | request and response of a PHP HTTP function |
| `NodeRuntimeProofs`, `NodeLegacyProofs`, `PythonRuntimeProofs`, `PhpRuntimeProofs`, `FastCgiClientProofs` | theorems about the module of that name |
| `NodePartsProofs` | theorems about `NodeHttpParam` and `NodeEnvironment` |
| `PythonPartsProofs` | theorems about `Python2Runtime`, `PythonLogs` and `PythonWsgi` |
| `PhpPartsProofs` | theorems about `FastCgiRecords`, `PhpCgiProxy` and `PhpHttpWrapper` |
| `MC*` | constants for TLC, and compositions |

`NodeRuntime`, `NodeLegacy`, `PythonRuntime`, `Python2Runtime` and `PhpRuntime`
each contain `Contract == INSTANCE InvocationContract WITH ...` and implement it.

**Side by side.** Components that share no state are checked in one run:
`MCNodeParts`, `MCPythonParts` and `MCPhpCgi` EXTEND the modules of several
components (whose names are therefore distinct: `HttpInit`, `ProcessNext`,
`logVars`, ...), the initial state picks one *part*, and only the variables of that
part ever change. The state graph is the disjoint union of the parts', so nothing is
lost and the sizes add up instead of multiplying; and what the run checks are the
very definitions that the theorems are about. A part that is not picked rests in an
initial state of its own, of which one is fixed where there are many.
`MCNodeLive`, `MCPythonLive` and `MCPythonRuntime` do something similar with one
component and several *modes*, instances of the same module with other constants:
in the first two, because a property holds only under what a mode says of user code,
in the third for both ways to serve requests.

Operators called "Mutant of ..." stand directly before the definition that they
vary: each changes it as a plausible bug would, and no specification uses one.
`PROJECT.json` names the property each of them breaks.

### 2.1 NodeRuntime

A step is a macrotask that the event loop picks while no JavaScript runs, or
something the running user code does. `running` is the request whose user code
has the thread, `frame` how that code was entered (called by the runtime, from a
timer or I/O callback, from a promise), since the three differ in who catches an
exception. What user code leaves in the event loop is one of "none", "ref" (it
keeps the process from `beforeExit`) and "unref". `useUnblockClient` is chosen
among `Clients` when the process starts and decides how a poll ends.

| code | model |
|---|---|
| `setImmediate(...)` before a poll | `iterations`, `StartPoll` |
| `waitForInvocation` under way / ended / failed | `polls`, `Take*`, `PollFails` |
| `setImmediate` around `invokeFunction` (native client) | `scheduled`, `RunScheduled` |
| `global[CALLBACK]`, `this.callback`, `process._fc` | `current` |
| `isConsumed`, `isDigested` | `consumed`, `streams` |
| `createInvokeCallback`, `_invokeDone` and the continuation | `Consume`, `Digest`, `Post` |
| user calls its callback / returns / throws | `CallCallback`, `Return`, `Throw*` |
| the native `postInvocationResponse` / `postInvocationError` throws | `Post` without an answer, `Raised` |
| an error nobody catches, and its handler | `stray`, `HandleUncaught` |
| beforeExit | `BeforeExit` |
| `getRawBody` ends, fails or never calls back | `EndStream` |
| `waitsForEmptyEventLoopBeforeCallback` | `SetWaitForEmpty` |

`iterations` and `polls` are counters because nothing in the code keeps them at
one: that they stay there is what `OneInFlight` and `OnePoller` say. A post that
raises (`PostsMayRaise`) comes after `isConsumed` and `isDigested` were set: nothing
is posted and nothing continues, and the exception goes where the caller leads. If
user code called its callback it may catch it or let it go (`CallCallback`, then any
way to leave); out of the end of a stream or a promise it is an uncaught exception
(`stray`), which `HandleUncaught` reports to the current callback. The order of
the `setImmediate` queue is left open. Values are abstracted to what the code
distinguishes: a result, an error, a body stream, and a value that
`_formatData` or `_formatErr` throws on ("broken").

### 2.2 NodeLegacy

The variables of `NodeRuntime` where the code is the same, and three for what
lies between a call of the callback and the end of its post. A behaviour has one of
the sets of handles in `HandleUses` for `handleKinds`: what its user code leaves in
the event loop is, as above, "ref" or "unref".

| code | model |
|---|---|
| `callback` sets `isConsumed`, `process.nextTick(digest)` | `Consume`, `ticks` |
| the tick: format, then post, read the stream, or throw | `Digest` |
| `getRawBody` ends, fails or never calls back | `streams`, `EndStream` |
| `_postInvocation...` on its way; its response ends / errors | `sending`, `PostEnds`, `PostFails` |
| poll answered / rejected | `EndPoll`, `PollFails` |
| throw of user code, with and without `code`, by frame | `Throw`, `ThrowOdd` |
| the `uncaughtException` handler | `FailCurrent` |

A tick runs before any other macrotask (`LoopIsFree` needs `ticks` to be empty),
but after the rest of the function that called back.

### 2.3 NodeHttpParam and NodeEnvironment

`NodeHttpParam`: the initial state is one of `HttpParams`; `PutNext` is a turn of the
loops of `parseRequestHeader` (`PutHeader` for one value) and `FinishMessage` what
follows them. The handler then makes any calls (`SetStatusCode`, `SetHeader`,
`DeleteHeader`, `SendResponse`) up to `MaxCalls`. A header name is a lower-case name
and a spelling, a joined value is the sequence of its parts, so that the merging rules
(unique names, arrays, empty first values) are all in the model. `seen` and `said` are
histories: which values were met for a name, and what the handler asked for.

`NodeEnvironment`: `stage` walks through load, wash and start; a request restores
the snapshot, loads its handler (`LoadFunction`), runs it, and user code may
remove its file or replace an export between two requests. `settings` is what
was read before `sanitizer.js` removed the variables, and the washing of a stack
is `WashStack` over sequences of user, node and runtime frames. `UserFrames` are the
stacks that user code can throw with, also those of an error that a method of the
response throws, where a frame of the runtime lies in front of all of the user's:
only what lies in front of the first runtime frame is kept.

### 2.4 PythonRuntime

`phase[r]` says where the `handle_request` of request `r` stands. An action is
the code between two points at which another thread may run in a way that
matters: before and after the lock, before and after the module body, between
the End line and the post.

| code | model |
|---|---|
| `main()`'s poll, without and with a restore | `Take`, `TakeAfterRestore` |
| the unblocking client takes an error reply for an invocation | `TakeErrorReply` |
| `FCHandler(...)`, `handle_request()` or `Thread.start()` | `StartHandler` |
| `print_start_log`, `get_handler` | `Begin` |
| first check of the cache | `Lookup` |
| `acquire`, second check, `find_module`, check of `sys.modules` | `Acquire`, `Recheck` |
| `imp.load_module`: entry in `sys.modules`, then the body | `StartBody`, `EndBody` |
| `getattr`, cache, `release` | `Bind` |
| the handler, `execute_request_handler`, `wsgi_wrapper` | `EndRun` |
| `print_end_log` and the post it announces | `Send*`, then `PostSucceeds` or `PostRaises` |
| `dump_stacks` (SIGTERM) | `Terminate` |

A restore sets the credentials in their order; `CredentialHeaders` says which of the
`Credentials` headers a request brings ("set", "empty" or "absent"), and `brought` is
a history of those that the restore met. An absent one raises and leaves itself and
the ones behind it as placeholders. `requests.get` of the unblocking client does not
look at the status: the reply to a failed poll becomes an invocation without headers,
whose handling fails before anything is posted, and a restore that is due is used up
by it.

In single mode the requests are served by the main thread, which is why
`SystemExit` of user code, or SIGTERM while a request is served, stops
everything (`Exit`, `Terminate`); SIGTERM does not reach Python code while the
main thread sits inside the native poll. In concurrent mode the threads are no
daemons and finish what they do. A poll that raises is logged and repeated at
once; it changes nothing and has no action.

### 2.5 PythonLogs, PythonWsgi, Python2Runtime

`PythonLogs`: a byte is its line and its place in it. The sinks are those of the
concurrent requests (`Loggers`, one context logger each), the root logger's, the one
for prints (`Stdout`) and the runtime's (`Sys`), which alone goes to the log
descriptor. `Log` cuts a message by characters (`Cut`), announces its encoded length
(`Announced`) and hands what is left after the cut by bytes (`Size`) to the writer of
its sink, which holds `Capacity` bytes (`io.BufferedWriter`: 8192):

| code | model |
|---|---|
| `writer.write` of what fits | `Hold` |
| of more: first what is held goes out, then the line itself, but for an end that fits | `WriteHeld`, `WriteThrough` |
| a raw write inside `write` fails: the writer keeps what it has room for, the rest is lost, and the caller gets the exception (`write` is outside of the `try`) | `WriteRaises` |
| `writer.flush`, one raw write at a time | `Flush` |
| an IOError of a flush: repeated once, except by the runtime's sink, then raised | `FlushRaises`, phase "retry" |

A raw write of at most `PipeBuf` bytes is all or nothing; a longer one may be split
anywhere, with lines of other writers in between (`Accepted`). The lock of a logging
handler keeps others out of one sink, not out of the pipe, so the steps of different
sinks interleave. `raised` remembers which lines raised. One thread prints at a time.

`PythonWsgi`: a turn of a loop over headers is a step. `FindContentType` and
`PopContentType` look for the content type, `AddHeader` puts the other headers, and
`CallApplication` overwrites `HTTP_X_FC_FUNCTION_HANDLER` with the handler of the
invocation, whatever header of that name was sent (`fc_rapis_wsgi.py:72`);
then `start_response` (`StartResponse`, a `GroupHeader` per header, `EndStart`, or
`StartRaises` in between, which keeps what was started before) and `write` in any
order and number, the returned pieces and the one post (`Respond`), or
`ApplicationRaises`. `calls` is the history of the calls that returned.

`Python2Runtime`: stages of one thread. `Take` is a poll and `handle_request` up
to user code, with the order of the loader: cache, dot, *file*, `sys.modules`,
body. `RemoveFile` is user code that deletes a module's file. A post inside the
`try` that raises is followed by another in the `except` clause.

### 2.6 PhpRuntime and PhpRapisClient

`at` is the place in the code: "poll", "begin", "load", "call", the posts
"result", "error", "refused", "outer" (the post of `bootstrap.php`), "ended". A
post is an exchange with the platform (`Replies`: made or not, status, with a
body or not), and `PhpRapisClient` says what it comes to: `ArrivesAs`,
`Delivered` and whether the caller sees an exception. The variable `client` is
chosen when the process starts (`function_exists('get_next')`, `invoke.php:10`): with "native",
posts never raise; with "fallback" (`rapis.php`) a reply with a body raises in
`writeData`, after it was delivered, once the strict error handler is set.

`function_exists` (`invoke.php:77`, `:132`) asks the process: `Functions` are those of
PHP and the runtime (`PhpFunctions`) and those of every file that was run, also half
(`declares`, chosen among `Declarations`). So the handler of a file that does not
define it may be found in another one, and a file that declares a function again
ends the process when it is included (`EndsProcess`).

### 2.7 FastCGI, the proxy and the HTTP wrapper

`FastCgiRecords`: a string is its length; `BuildPart` is one turn of the loop of
`buildPacket` (`packets` holds announced and real lengths), and lengths are written
and read back byte by byte.
`FastCgiClient`: php-cgi writes output, errors and ends of several requests in
any order onto `wire`, stalls inside a packet (`Stall`), or dies between packets or
inside one; the client reads one packet a step, keeps it for its request, and ends its
wait as the code does: own END_REQUEST, timeout (`TimedOut`, with the units of the
code), a header that does not come (`ReadFails`). While the content of a packet does
not come, `readPacket` reads on and looks at no clock (`ReadContent`). Output beyond
the `MaxOutputs` packets that are told apart is endless if `Endless` says so, and only
lets time pass (`ReadMore`). An id may be drawn once while it is in use
(`AsyncRequestAgain`), which overwrites the slot of the open request.

`PhpCgiProxy`: `owner` is who really listens on the port while `is_start_php_cgi` is
what the proxy remembers; the start is split where another process can act (list,
kill, launch). The status of a launch is that of a shell which put php-cgi in the
background: `Launch("fails")` counts as started with nobody there. `goneBy` is a
history of why nobody listens. A reply is any sequence of lines, also without a blank
line, since the client joins STDERR to it. `PhpHttpWrapper`: from the parameters to the
request object, and from the handler's response to length and body; a body need not
know its size (`sized`; `getSize()` is null, and the length announced is empty) nor
stand at its start.

### 2.8 Assumptions about the environment

Constants say what user code and the platform may do in a run; the actions are
guarded by them, never removed. The platform may hand out any request it still
holds, at any time or never; the native client either delivers a post, or raises and
has not delivered it.
User code may do anything that its language lets it do through the runtime's
interface, and exit. It does not start threads that import modules on their
own, nor overwrite the runtime's globals or call `os._exit`.

## 3. Runs

Every run is exhaustive.

| run | instance | question |
|---|---|---|
| `node_single` | 3 requests, either client, all faults, posts that raise, stalled streams, from a snapshot | at most one answer, one request in flight, own attribution, who pays for an error, the contract |
| `node_concurrent` | the same with several requests at a time, and unref'd handles | one poller, the contract |
| `node_live` | 2 requests, modes single and concurrent | the loop polls again; taken requests are answered |
| `node_after_callback` | 2 requests | the comment at `callback.js:15` does not hold (section 5) |
| `node_parts` | `NodeLegacy` in both modes (2 requests, with and without unref'd handles, stalled streams), `NodeHttpParam`, `NodeEnvironment` | contract, one request at a time, polls again; headers as sent and set; snapshot, washed stacks, stable handlers |
| `python_loop` | 4 requests, a snapshot, 3 credentials, SIGTERM, exits, 2 failing posts; a thread per request (`MCPythonRuntime`'s constants) or one request at a time (its instance `Single`) | nothing of the user runs before the restore; one body at a time, no half module, log agrees with answer, contract |
| `python_live` | 4 requests, modes exits, replies | cached handlers are served with a leaked lock; else every request is answered |
| `python_parts` | `PythonLogs`, `Python2Runtime` (5 requests), `PythonWsgi` | bytes and frames; contract and stable handlers; the exchange |
| `php_loop` | 4 requests, either client, a snapshot, two files that may define the same function | end lines, answers per catch, restore, contract, the loop comes back |
| `php_cgi` | records, client (2 ids, stalls, both deaths, endless output), proxy, wrapper | formats, own output, the wait ends, who took php-cgi away, which lines of a reply may be lost, length is body |
| `php_cgi_timeout` | one id, reads of 3 ms | the comments at `client.php:507` and `:530` do not hold (section 5) |
| `php_cgi_restart` | `PhpCgiProxy` | the comment at `http_cgi.php:346` does not hold (section 5) |

**Bounds.** Two or three requests for Node: the races are between a request and
one predecessor (a leftover of A, the answer of B), and the third shows that a
surplus poll or a stale callback would be carried on. `MaxTurns` (re-entries of
one request's code) is 1, or 2 where late code must be able to arm a further
timer. `MaxPollFailures` 1: a failure's effect is on the current callback, which
a second one meets consumed; `NodeLegacy` has two failures, of polls and posts
together, for a failed post followed by a failed poll. For Python four or five
requests: two threads contend for the loading of one module, a third has the
cached handler or another module, the fourth carries a header fault;
`MaxPostFailures` 2 reaches the failing post in the `except` clause. For PHP one
request per way a handler can be unusable, two on one file, and `MaxLosses` 2.
Three credentials: one is in front of, at and behind an absent one. Log lines: two,
since a line can only be torn by, or go out with, another one. The numbers of
`PythonLogs` keep the order of the real ones (128 KiB, 8 KiB, 4 KiB): a maximum of 7, a
writer of 6 bytes, raw writes of 5 and a frame header of 2; the three messages
are one whose length in bytes and characters differs and that a raw write takes whole,
one that is longer than a raw write, and one that is cut twice and is longer than a
writer. FastCGI: lengths on both sides of 127/128, of a packet and of 16 bits; two
requests with two packets of output that are told apart and, with `Endless`, any
number more; two packets on the wire; one id that is drawn twice. `ReadDelays` are 0
and 2500000 ms with a `Timeout` of 5 ms, which `client.php` reads as 5000 s: the
timeout is reached after two slow reads and missed after one. Headers: two spellings
of one name with empty and non-empty values, in both formats. The theorems remove these bounds for the safety
properties of every component.

**Deadlock** is checked in every run. A `Rest` action is enabled only where the
platform has nothing to hand out, nothing is to be done, or the process is gone.

**Fairness.** `LoopFairness` (Node, both loops): the queues of the event loop are
FIFO, so a `setImmediate` callback or an enabled `beforeExit` is not postponed
for ever (WF), and a timer, a stream or the end of a post that becomes ready again
and again between other tasks is served (SF, since any running code disables it
for a moment; in `MCNodeParts` of one request or another). A stream that stalls ends
too in this sense: the stall is one of its ends, after which nothing is called back
and nothing keeps the loop from `beforeExit`. An error that nobody catches is handled
(WF). User code gives the thread back, and calls its callback where
`UserAlwaysReplies` says that it must. Nothing is assumed of the platform: no
fairness of `Take*` or of failures. `ThreadFairness` (Python): every thread makes
progress and user code ends (WF per request). The lock is not assumed to be fair:
each request acquires it at most once and there are finitely many. PHP: the one
thread goes on while it can (WF of its steps other than the poll). FastCGI: the
client goes on while it can; php-cgi need not send, end or die. `WaitEnds` therefore
exempts what the code really waits out, a php-cgi that stalls for good or died
*inside* a packet, and nothing else; a stall between packets, a death there and
endless output are in the run.

## 4. Proofs

The proofs hold for any set of requests and any value of the other constants that
satisfies the named assumptions: types, that the null value is no request, and a few
facts about inputs that are stated where the constant is declared (below).
Each is an ASSUME that TLC evaluates in a run. No theorem has a further hypothesis,
except that three of `NodeRuntime` are about single mode (`SingleMode`).
`FastCgiClient` needs no assumption.

| module | assumption about inputs |
|---|---|
| `NodeHttpParam` | headers of a request have strings for values; no name is both a unique and an array header (the two tables of `httpparam.js` are disjoint) |
| `NodeEnvironment` | a request has no other headers than those a restore knows |
| `PythonLogs` | a message has at least one character (its newline), a character at least one byte; the four kinds of sinks are different; the maximum is at least 2; a raw write that is all or nothing is no longer than a writer |
| `PythonWsgi` | `CONTENT_TYPE` is no name that a header gets, since those begin with `HTTP_`; the names that are modelled include it and the one of the handler |
| `PhpCgiProxy` | a reply is a sequence of lines |
| `FastCgiRecords`, `PhpHttpWrapper` | lengths and sizes are natural numbers |

What a run checks and a theorem states is the same definition of the same module: the
run shows it on a small instance, with the mutant that breaks it, the theorem for all.

**Node.js** (`NodeRuntimeProofs`). `TypeCorrect`: types, without any bound on the
counters. `NeverAnsweredTwice` and `LoopImplementsContract` need `FreshInv` (a
request that is still with the platform, or only scheduled, has left no trace in
the process) and `ReplyInv` (an answer implies consumption; an open stream has no
answer yet). `AtMostOneReply` alone is not inductive: `EndStream` posts without
looking at `replies`, so one must know that an open stream excludes an answer.
`OneRequestInFlight`, `ErrorsAreOwn` and `ErrorsFailTheirOwn`, under `ASSUME
SingleMode` (no concurrency, no unref'd handles), rest on `SingleInv`: what is left of
an unanswered request (`Leftover`: running code, a handle, a stream, an error that
nobody caught) belongs to the current one, and while an iteration is on its way
(`Restarting`) and the current request has no answer, nothing is left of any request.
This is why callback, `beforeExit` and failed polls together schedule exactly one
iteration, and why an uncaught error fails its own request, or comes from one that was
answered before: also where a post raised or a stream stalled and the answer never
comes, the loop does not go on before the code is done. `OnePollerOnly`: in concurrent mode an iteration
becomes a poll, a poll becomes the next iteration, and only a `beforeExit` in an
empty loop starts one from nothing.

**Node.js 4 and 6** (`NodeLegacyProofs`). The three invariants `TypeOK`,
`FreshInv` and `ReplyInv` depend on one another: a value that cannot be formatted
throws out of the tick and is charged to the *current* request, so even the types
need that some request was started. `ReplyInv` says that a consumed callback owes
one post at most, by the tick, by the stream or by none;
`LegacyImplementsContract` follows. `LegacyServesOne` is about behaviours of single
mode whose user code unrefs nothing (`ServesOne`, part of the property, since mode and
handles are chosen by the initial state); with unref'd handles `beforeExit` starts the
next iteration before a late callback of the same request starts another. It rests on
this module's `SingleInv`: everything that can still lead to an answer belongs to the
current request and is gone while an iteration is on its way. A stream that stalls
leaves nothing behind and starts nothing.

**Node.js HTTP parameters** (`NodePartsProofs`). The message and the response are
built value by value, and what they must hold is said of the histories `seen` and
`said`. For the request: `MetInv` (the values met for a name are those in front of the
loop, in order) and `KeptInv` (each header is `KeptOf` these values: all of an array
header, the first that is not empty of a unique one, otherwise all from the first that
is not empty on). The lemmas say what one more value does to `KeptOf` in each of the three
cases. `RequestIsKept` follows. For the response, `ResponseInv` says of `headers`
and `headersMap` separately which of the handler's calls they reflect: the last one
about a name, and the last one about it that did not set an array
(`ResponseIsCalled`).

**Node.js environment** (`NodePartsProofs`). `EnvInv` is the life of a process as four
cases: before the first request, frozen in a snapshot, restored by a request, and
without a snapshot; in each the environment is a known function of the one that was
given. That `washEnv` keeps the flag of the snapshot and `RestoreEnv` removes it
are lemmas, and `SnapshotRestored` follows. `RuntimeIsHidden` is about `WashStack`, for
stacks with frames of the runtime anywhere: what is left of a stack is what lies in
front of its first runtime frame, so no such frame is reported, and no frame that was
reached before it is lost.
`FoundIsFound` needs that what was called of a handler is what is kept
(`CalledIsKept`) and that the code of a module runs only for handlers of which nothing
is kept (`BodyIsFirst`): a file that is gone is then never asked for.

**Python 3** (`PythonRuntimeProofs`). One lemma about the shape of a step
(`HandlingShape`), then four invariants: `SingleInv` (in single mode one request
at most is active), `LockInv` (whoever is between `acquire` and `release` holds
the lock if there is one, and what it saw of `sys.modules` is still so; with
`SingleInv` it gives `OneLoader`, and from it `NoSecondBody` and
`NotFoundOnlyIfMissing`, in every mode, also after the lock has leaked),
`AnswerInv` (only ended requests have an answer, and the End line of the phase
before agrees; gives `LogAgreesWithAnswer` and `LoopImplementsContract`), and
`RestoreInv` (nothing is taken before the restore, and of what the restoring reply
brought every credential in front of the first absent one is set; gives
`WorkspaceRestoredFirst`, for any number of credentials and any headers).

**Python 2** (`PythonPartsProofs`). `Handles(r)` is the common shape of all
ways through `handle_request`: a next stage with its end line, and possibly a
telling of "called" or "not found". `LogInv` (no answer while a request is with
the platform or at hand; the end line announces the next post) gives
`Python2ImplementsContract`. `CacheInv` (whatever was called is in the cache, and
a module body runs only for a handler that is not) gives `ServedHolds`: the check
for the file cannot come between, because the cache is asked first.

**Python log sinks** (`PythonPartsProofs`). All steps of a sink but a new line move
bytes of its line from "not taken" to its writer or the pipe, and from its writer to the
pipe, or drop some; `StepMoves`, `LinesMoved` and `BytesMoved` say so once for all of
them. `BytesOnceInOrder` is then restated for one sink and its pipe (`OnceIn`), with one
lemma each for a new line (`OnceLog`), for bytes taken (`OnceKeep`) and for bytes that
arrive (`OnceFlush`), and for what other sinks do in between. Which lines may lose bytes
is an invariant of its own (`LossInv`): a line that is not taken whole is being
written, or raised and is too long for a writer, or stands behind one that raised, of
which the writer may still hold a part. `FramesInStep` is not inductive. For stdout
`PieceInv` says that bytes of a sound line lie next to one another: it is taken
whole, its writer holds nothing else, and it goes out in one raw write. For the log
descriptor `SysInv` says what a reader cannot see, that pipe, writer and the
rest of the line *together* are lines in order (`Follows`), broken only where a write
dropped an end. `ReadersKeepStep` follows from both.

**Python WSGI** (`PythonPartsProofs`). `EnvInv` is what the two loops over the headers
have established after `turn` turns, and that the name of the handler is overwritten
after them, `AppInv` what the calls so far have started and
written, while a call of `start_response` has grouped the headers of its own turns.
`Count`, which says where a value belongs among those of its name, is a cardinality,
and the lemmas about it say that it grows by one exactly with a header of the name.
`ExchangesAreWhole` follows.

**PHP** (`PhpRuntimeProofs`). `InHand` (a request is at hand exactly outside the
poll) makes the types inductive. `RestoresFirst`, `RunsFileOnce`, `ResultsAreEarned`
and `LoopImplementsContract` hold with either client; in the contract the answer of a
request is the first that the platform accepted. That is why `rapis.php`,
where a post that was delivered may raise and be followed by another, implements it
too; how many follow is `AnswersAreCaught`: `CatchInv` counts the posts that lie
before a place of the code, so there are three at most, and after the first only
errors. `EndLinesMatch` is claimed and proved for processes with the extension,
where posts do not raise (`QuietInv`). A result follows a handler that ended, also if
its function came from another file than its own (`ResultsAreEarned`).

**PHP parts** (`PhpPartsProofs`). `StreamIsReadBack`: the parts that `buildPacket` cuts
fit in two bytes and add up (`PacketInv`), and a length below 2^24 survives being cut
into bytes and put together again (`LengthReadsBack`, an identity of division and
remainder). `ProxyKillsNoneStarted`: `CgiInv`, of which the point is that a start in
progress is not counted as one; what a launch or a death did it does not promise.
`RepliesAreKept`, for any sequence of lines: `HeadersEnd` finds the first line that is no
header, `BodyIsRest` shows that offset and skipped lines fit together. What may be
lost is one line after the headers, or two where there is no header, which is what the
code skips without a look. `LengthsAreBodies`: that the rule for the length and the
rule for the body agree, for any status, method and body that knows its size.

**FastCGI client** (`FastCgiClientProofs`). `ResponsesAreOwn`: what
`wait_for_response` returns is the output of its own request, in order and
without a gap, and all of it unless it shows an error, as long as no id was drawn
while it was in use; stalls and deaths anywhere are included. The invariant is about the
wire: the packets of a request that are on it carry exactly the pieces that were
written and not yet read, in order, and the end comes after all of them
(`WireInv`). Hence the packet at the head is the next piece of its request, and an
END_REQUEST at the head means that everything was read (`HeadFacts`).

**Only model-checked.** Liveness: `PollsAgain`, `TakenIsAnswered` (Node.js and
Python), `LegacyPollsAgain`, `CachedIsServed`, `ComesBack` and `WaitEnds` rest on
fairness, which is out of the prover's reach. Every other property of a passing run is
stated by a theorem. The theorems reach the functions over sequences because the
modules make them step by step, so that a loop of the code is a sequence of steps with
an invariant; where a whole sequence is taken apart at once (`WashStack`, the header lines
of a reply) its definition is not recursive but says which index it cuts at. What a
recursive definition computes for every input would need an induction over data,
which the provers cannot instantiate.

## 5. What the models show of the code

Three statements of the repository do not hold, and a run shows each:

* `node_after_callback`: `nodejs12/callback.js:15` says "Function will be
  terminated once the callback is invoked". The callback posts the answer and
  schedules the next iteration; timers stay registered, and the event loop enters
  the code of the answered request again, also while the next one is served.
* `php_cgi_restart`: `php7.2/src/http_cgi.php:346` says "try to restart whatever
  went wrong". The `catch (Exception $e)` names a class of the namespace
  `ServerlessFC` that does not exist; `is_start_php_cgi` stays true, and a php-cgi
  that died is never started again.
* `php_cgi_timeout`: `php7.2/src/client.php:507` says of the timeout "the number of
  milliseconds to wait", and `:530` that the elapsed time is checked by hand, "since we
  might do several reads none of which timeout themselves". `microtime(true)` counts
  seconds and is compared with the milliseconds times 1000 (`:549`): reads that each
  return something go on for 10^6 times the limit. `WaitEnds` shows that they end then.

The rest are facts that bound what the properties claim; no statement of the
repository contradicts them, or none that a run could quote.

*Node.js.* In concurrent mode a failed poll is only printed: nothing polls again
while user handles keep the loop alive. A handler that throws or rejects with
`null` makes `_handlerError` throw itself; in concurrent mode, or from a promise
before Node 15, the request stays unanswered. So it does after a value that JSON
cannot represent, a native post that raised and a body stream that stalls: the callback
is consumed, and nothing is posted. User code that unrefs a timer lets `beforeExit`
start the next iteration before its late callback starts another, in all versions:
two requests are then served at once in single mode. The stack of an error that a method
of the response throws is reported without any frame of the user. The handler for
uncaught exceptions of nodejs6 tests the callback for null the wrong way round.
`console.js` replaces `stream.write` by a function that never calls its callback.
The header of `logger.js` promises a level from the environment that the code
ignores. `validator.js`, `event_loop.js` and `setLogLevel` are called by nothing.

*Python 3.* `SystemExit` in a module body, or the AttributeError for a request
without a handler header, passes by `release()`: the lock stays taken, and only
requests with a cached handler are still served. The post in the `except` clause
of `handle_request` is outside of the `try`: two failing posts in a row lose the
answer. If the first request after a restore lacks a credential header,
`os.environ` refuses the `None`: the request is dropped, and later ones run with
placeholders for that credential and the ones behind it, because the flag is cleared
already. The unblocking client does not look at the status of a reply, so an error
reply can use up the restore. A frame that `AsFlushWriter` cuts is shorter than it
announces, one of more than PIPE_BUF bytes may be split by other loggers, and one
behind a line that raised may follow a part of that: `FramesInStep` claims nothing of
these on stdout, nor `BytesOnceInOrder` that a line longer than its writer survives a
write that raises. A WSGI application never sees a header `X-Fc-Function-Handler` of
its caller. Lines of the root logger carry the id of the last
*polled* request. An init error is never posted: where `main` fails early, there
is no client or no logger yet.

*Python 2.* A failed flush is followed by writing the data once more, so a line
may appear twice; its log sinks and its WSGI module otherwise differ from those
of Python 3 only in details that the models of the latter abstract.

*PHP.* The outer catch of `bootstrap.php` can be reached through the int argument
of `printStartLog`. `include_once` does not load a file again, whatever a comment
says, and a file that threw half way stays as it is. A handler is found if any file
defines a function of its name, and two files that define the same function end the
process. In `rapis.php` the HTTP
parameters are never sent (`strlen($x > 0)`), the content type is octet-stream,
the deadline is written to the reply, the instance id is not copied, a post has no
timeout, and one whose reply has a body raises although it was delivered. In
`client.php` a body "0" is not sent; a request that was rejected while another
was waited for is returned as an empty response; output after an error is not
waited for; two requests with the same random id share their packets; `readPacket`
loops for ever if php-cgi dies or stalls inside a packet, since `fread` returns an
empty string and not false. In `http_cgi.php` a php-cgi that did not come up counts as
started, because the shell that put it in the background succeeded; text of STDERR that
comes first in a reply turns its headers into a body, less two lines. In
`http_wrapper.php` a body that the handler did not rewind is cut, while
`Content-Length` is its whole size, and a body of unknown size has an empty
`Content-Length`.

## 6. Not modelled

* Compiled runtimes (Java, .NET), the native client, vendored packages: no
  source. The client appears through its callers.
* Start scripts: each sets paths and options and replaces itself with the
  runtime; nothing restarts it.
* Logging and error classes of Node.js: formatting of lines and objects.
* Partly: the context objects of Node.js and Python (only the fields and
  exceptions the loops depend on); of the CGI proxy, the parameters of a request,
  the table of MIME types, persistent sockets shared between clients and
  `getValues`, which nothing calls.
* Log sinks and HTTP wrapper of Python 2: see section 5; writing twice as its sink
  does is a mutant that violates `BytesOnceInOrder`. Log truncation of PHP.

## 7. What is left

`CachedIsServed` and `ComesBack` have safety halves that could be proved (a request
with a cached handler never waits for the lock; the loop is never without an enabled
step). Log frames of PHP and Python 2 as variants of `PythonLogs`, with the repeated write of
the latter as a property of its own. A composition of `PhpRuntime` with `PhpCgiProxy`
and `FastCgiClient` in one state space, where a timeout of the last is an outcome of
the handler of the first. More of the code: the parameters of a CGI request, and the
context objects.
