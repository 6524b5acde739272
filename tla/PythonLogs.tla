----------------------------- MODULE PythonLogs -----------------------------
(***************************************************************************)
(* The log sinks of python3/bootstrap.py.  User lines go framed to stdout, *)
(* through a writer of its own for every logger, prints go there unframed, *)
(* and runtime lines go framed to the log descriptor.  A byte is its line  *)
(* and its place in it; a reader relies on the length that a frame's       *)
(* header announces.                                                       *)
(***************************************************************************)
EXTENDS Integers, Sequences

CONSTANTS
  Loggers,        \* the context loggers of requests
  Root, Sys,      \* the sinks of the root logger and of the runtime
  Stdout,         \* sys.stdout, for what is printed
  Messages,       \* lines: [chars, width], bytes per character but the last
  MAX_LOG_BYTES,
  Header,         \* the bytes of a frame's type and length
  Capacity,       \* the bytes that a writer holds (8192)
  PipeBuf,        \* PIPE_BUF: a raw write of no more bytes is all or nothing
  MaxLines

Framed == Loggers \cup {Root}     \* framed lines on stdout
Sinks == Framed \cup {Sys, Stdout}
PipeOf(s) == IF s = Sys THEN "syslog" ELSE "stdout"

\* Every message ends with a newline.
ASSUME LogsAssumption ==
  /\ Sys # Stdout /\ Sys \notin Framed /\ Stdout \notin Framed
  /\ Messages \subseteq [chars : Nat \ {0}, width : Nat \ {0}]
  /\ MAX_LOG_BYTES \in Nat \ {0, 1}
  /\ Header \in Nat
  /\ PipeBuf \in Nat \ {0} /\ Capacity \in Nat /\ PipeBuf <= Capacity

VARIABLES
  lines,    \* what was logged: [sink, announced, size, kept]; kept is how many
            \* of its bytes the writer of the sink took
  buffer,   \* the bytes that each sink's writer holds
  current,  \* the last line of each sink, 0 without one
  phase,    \* of each sink: "idle", "write", "flush", or "retry" after an IOError
  pipe,     \* what arrived on stdout and on the log descriptor
  raised    \* history: the lines whose write or flush raised to the caller

logVars == <<lines, buffer, current, phase, pipe, raised>>

-----------------------------------------------------------------------------

\* log: a longer message is cut and ends with a newline, as every message does.
Cut(m) == IF m.chars > MAX_LOG_BYTES - 1 THEN MAX_LOG_BYTES - 1 ELSE m.chars
Encoded(chars, width) == (chars - 1) * width + 1

\* Mutant of Announced: the length in characters.
AnnouncedChars(s, m) == IF s = Stdout THEN 0 ELSE Cut(m)

\* The length in the header of the frame, 0 without one.
Announced(s, m) == IF s = Stdout THEN 0 ELSE Encoded(Cut(m), m.width)

AtMost(n, max) == IF n > max THEN max ELSE n

\* What is written: AsFlushWriter cuts the whole frame, or a print's
\* characters; the runtime's sink does not have one.
Size(s, m) ==
  IF s = Sys THEN Header + Encoded(Cut(m), m.width)
  ELSE IF s = Stdout THEN AtMost(Encoded(m.chars, m.width), MAX_LOG_BYTES * m.width)
  ELSE AtMost(Header + Encoded(Cut(m), m.width), MAX_LOG_BYTES)

\* The bytes of the i-th line behind the first taken ones.
Bytes(i, taken, size) ==
  [k \in 1 .. size - taken |-> [line |-> i, place |-> taken + k]]

LogsInit ==
  /\ lines = <<>>
  /\ buffer = [s \in Sinks |-> <<>>]
  /\ current = [s \in Sinks |-> 0]
  /\ phase = [s \in Sinks |-> "idle"]
  /\ pipe = [p \in {"stdout", "syslog"} |-> <<>>]
  /\ raised = {}

\* A line.  The lock of the handler keeps others out of the sink until the line
\* is flushed or raised.
Log(s, m) ==
  /\ Len(lines) < MaxLines
  /\ phase[s] = "idle"
  /\ lines' = Append(lines, [sink |-> s, announced |-> Announced(s, m),
                             size |-> Size(s, m), kept |-> 0])
  /\ current' = [current EXCEPT ![s] = Len(lines) + 1]
  /\ phase' = [phase EXCEPT ![s] = "write"]
  /\ UNCHANGED <<buffer, pipe, raised>>

\* What the writer did not take yet of the line that s writes.
Untaken(s) == Bytes(current[s], lines[current[s]].kept, lines[current[s]].size)

Keep(s, n) == lines' = [lines EXCEPT ![current[s]].kept = @ + n]

Fits(s) == Len(buffer[s]) + Len(Untaken(s)) <= Capacity

\* BufferedWriter.write holds what fits until it is flushed.
Hold(s) ==
  /\ phase[s] = "write" /\ Fits(s)
  /\ buffer' = [buffer EXCEPT ![s] = @ \o Untaken(s)]
  /\ Keep(s, Len(Untaken(s)))
  /\ phase' = [phase EXCEPT ![s] = "flush"]
  /\ UNCHANGED <<current, pipe, raised>>

\* How many of some bytes a raw write accepts.
Accepted(bytes) == IF Len(bytes) <= PipeBuf THEN {Len(bytes)} ELSE 1 .. Len(bytes)

Arrive(s, bytes) == pipe' = [pipe EXCEPT ![PipeOf(s)] = @ \o bytes]

\* Other lines first write out what the writer holds (also one that would fit,
\* where the place of what went out before is not free yet) ...
WriteHeld(s) ==
  /\ phase[s] = "write" /\ buffer[s] # <<>>
  /\ \E n \in Accepted(buffer[s]) :
       /\ Arrive(s, SubSeq(buffer[s], 1, n))
       /\ buffer' = [buffer EXCEPT ![s] = SubSeq(@, n + 1, Len(@))]
  /\ UNCHANGED <<lines, current, phase, raised>>

\* ... and then themselves, but for the last bytes, which fit.
WriteThrough(s) ==
  /\ phase[s] = "write" /\ buffer[s] = <<>> /\ ~Fits(s)
  /\ \E n \in Accepted(Untaken(s)) : Arrive(s, SubSeq(Untaken(s), 1, n)) /\ Keep(s, n)
  /\ UNCHANGED <<buffer, current, phase, raised>>

\* A raw write in a write() fails.  If it would block the writer keeps what it
\* has room for; the others are lost.  AsFlushWriter writes outside of its
\* try, but sys.stdout hands the writer a print of no more than Capacity
\* bytes only when it is flushed.
WriteRaises(s) ==
  /\ phase[s] = "write" /\ (buffer[s] # <<>> \/ ~Fits(s))
  /\ \E n \in {0} \cup (IF Fits(s) THEN {} ELSE {Capacity - Len(buffer[s])}) :
       /\ buffer' = [buffer EXCEPT ![s] = @ \o SubSeq(Untaken(s), 1, n)]
       /\ Keep(s, n)
  /\ IF s = Stdout /\ lines[current[s]].size <= Capacity
     THEN phase' = [phase EXCEPT ![s] = "retry"] /\ UNCHANGED raised
     ELSE /\ phase' = [phase EXCEPT ![s] = "idle"]
          /\ raised' = raised \cup {current[s]}
  /\ UNCHANGED <<current, pipe>>

Flushing(s) == phase[s] \in {"flush", "retry"}

\* A raw write of a flush, which ends when the writer is empty.
Flush(s) ==
  /\ Flushing(s)
  /\ \E n \in Accepted(buffer[s]) :
       /\ Arrive(s, SubSeq(buffer[s], 1, n))
       /\ buffer' = [buffer EXCEPT ![s] = SubSeq(@, n + 1, Len(@))]
       /\ phase' = [phase EXCEPT ![s] = IF n = Len(buffer[s]) THEN "idle" ELSE @]
  /\ UNCHANGED <<lines, current, raised>>

\* Mutant of AfterFailure: as in python2, the data are written once more.
WriteAgain(s, left) ==
  IF phase[s] = "flush" /\ s # Sys
    THEN left \o Bytes(current[s], 0, lines[current[s]].size)
    ELSE left

\* What a writer holds after a flush that left some bytes behind.
AfterFailure(s, left) == left

\* AsFlushWriter repeats a flush once; the second IOError, and the first of the
\* runtime's sink, goes to the caller.
FlushRaises(s) ==
  /\ Flushing(s) /\ buffer[s] # <<>>
  /\ buffer' = [buffer EXCEPT ![s] = AfterFailure(s, @)]
  /\ IF phase[s] = "flush" /\ s # Sys
     THEN phase' = [phase EXCEPT ![s] = "retry"] /\ UNCHANGED raised
     ELSE /\ phase' = [phase EXCEPT ![s] = "idle"]
          /\ raised' = raised \cup {current[s]}
  /\ UNCHANGED <<lines, current, pipe>>

\* Nobody logs.
LogsRest == (\A s \in Sinks : phase[s] = "idle") /\ UNCHANGED logVars

LogsNext ==
  \/ \E s \in Sinks, m \in Messages : Log(s, m)
  \/ \E s \in Sinks :
       Hold(s) \/ WriteHeld(s) \/ WriteThrough(s) \/ WriteRaises(s) \/ Flush(s) \/ FlushRaises(s)
  \/ LogsRest

LogsSpec == LogsInit /\ [][LogsNext]_logVars

-----------------------------------------------------------------------------
(* Properties.                                                             *)

\* A byte of the sink s that its writer took.
IsOf(b, s) ==
  /\ b.line \in DOMAIN lines /\ lines[b.line].sink = s
  /\ b.place \in 1 .. lines[b.line].kept

\* b was written before c.
Before(b, c) == b.line < c.line \/ (b.line = c.line /\ b.place < c.place)

\* A line of the i-th one's sink, that one or one before it, raised.
RaisedUpTo(i) == \E j \in raised : j <= i /\ lines[j].sink = lines[i].sink

\* Whatever writes and flushes fail: every byte that a writer took is in the
\* pipe or still in the writer, once, and in order, and nothing else is; what a
\* raising flush left behind goes out with the next line.  A writer drops
\* bytes only of a line that is too long for it and then raises itself, or of one
\* behind a line of the same sink that raised (AsFlushWriter, FcUserLogSink,
\* FcSysLogSink).
BytesOnceInOrder ==
  \A s \in Sinks :
    LET arrived == pipe[PipeOf(s)]
        held == buffer[s]
    IN  /\ \A i \in DOMAIN lines : lines[i].sink = s =>
             /\ \A k \in 1 .. lines[i].kept :
                  \/ \E n \in DOMAIN arrived : arrived[n] = [line |-> i, place |-> k]
                  \/ \E n \in DOMAIN held : held[n] = [line |-> i, place |-> k]
             /\ \/ lines[i].kept = lines[i].size
                \/ i = current[s] /\ phase[s] = "write"
                \/ i \in raised /\ lines[i].size > Capacity
                \/ \E j \in raised : j < i /\ lines[j].sink = s
        /\ \A n \in DOMAIN held : IsOf(held[n], s)
        /\ \A n \in DOMAIN arrived : \E t \in Sinks : PipeOf(t) = PipeOf(s) /\ IsOf(arrived[n], t)
        /\ \A n, m \in DOMAIN held : n < m => Before(held[n], held[m])
        /\ \A n, m \in DOMAIN arrived :
             n < m /\ IsOf(arrived[n], s) /\ IsOf(arrived[m], s) => Before(arrived[n], arrived[m])
        /\ \A n \in DOMAIN arrived, m \in DOMAIN held :
             IsOf(arrived[n], s) => Before(arrived[n], held[m])

\* b is the last byte of its line, as it was announced.
EndsFrame(b) ==
  LET line == lines[b.line]
  IN  b.place = IF line.sink = Stdout THEN line.size ELSE Header + line.announced

\* The n-th byte is where a reader that follows the announced lengths expects it.
InStep(stream, n) ==
  LET ended == n = 1 \/ EndsFrame(stream[n - 1])
  IN  IF stream[n].place = 1 THEN ended
      ELSE /\ ~ended
           /\ stream[n].line = stream[n - 1].line
           /\ stream[n].place = stream[n - 1].place + 1

\* A line as long as announced, short enough for one raw write, of a sink that
\* did not raise up to it.
Sound(i) ==
  /\ lines[i].sink \in Framed => lines[i].size = Header + lines[i].announced
  /\ lines[i].size <= PipeBuf
  /\ ~RaisedUpTo(i)

\* A reader of the log descriptor loses step only behind a line of which a write()
\* that raised dropped the end, never by a cut message, a failed flush or a
\* split write.  One of stdout, where loggers and prints share the pipe, only at
\* a line that is not sound: the frames of sound lines are in one piece
\* whatever the other writers do (log of FcUserLogSink and FcSysLogSink).
FramesInStep ==
  /\ LET stream == pipe["syslog"]
     IN  \A n \in DOMAIN stream :
           \/ InStep(stream, n)
           \/ /\ n > 1 /\ stream[n].place = 1
              /\ lines[stream[n - 1].line].kept < lines[stream[n - 1].line].size
  /\ LET stream == pipe["stdout"]
     IN  \A n \in DOMAIN stream :
           Sound(stream[n].line) /\ (n > 1 => Sound(stream[n - 1].line)) => InStep(stream, n)
=============================================================================
