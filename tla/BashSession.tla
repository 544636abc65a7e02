----------------------------- MODULE BashSession -----------------------------
(***************************************************************************)
(* One session of the bash_session tool: threads that run, ask for status  *)
(* and kill; the shell process and its three pipes; a reader thread per    *)
(* output stream; and the thread that waits for the shell to die.  Every   *)
(* section under the session's lock ends at a return or at a wait on its   *)
(* condition, and is one action.                                           *)
(***************************************************************************)
EXTENDS Integers, Sequences, FiniteSets, SequencesExt

CONSTANTS
  Callers,   \* threads that hold the session
  Calls,     \* what each of them calls: <<thread, "run", "status" or "kill">>
  Prints,    \* what each command and its job may print: <<run, stream, kind>>
  MayHang,   \* the commands that may never end by themselves
  MayRaise,  \* the commands that may not be fit to be written to the shell
  MayLeave,  \* the commands that may leave a job in the background
  Size,      \* max_output_bytes, in chunks
  MaxRuns    \* bound: commands

VARIABLES
  known, closed,         \* whether the registry has it; BashSession.closed
  current,               \* the command in progress, 0 for None
  done, exit, start,     \* of a BashCommand: streams ended, exit_code, offsets
  buffer,                \* of a stream: its RingBuffer
  reader, late,          \* of a stream: its thread, and the text it still holds
  shell, reaped,         \* the process; whether _wait_shell has run
  stdin, pipe,           \* the command written and not read; the output pipes
  doing, phase,          \* the command the shell executes, and how far it is
  jobs,                  \* the commands whose background job still runs
  hung, unfit,           \* the commands that never end, or cannot be written
  pc, run, timed,        \* of a caller: where it is, its command, its timeout
  made, printed, answer  \* history: commands made, their output and answers

callerVars  == <<pc, run, timed>>
commandVars == <<current, done, exit>>
shellVars   == <<shell, stdin, doing, phase, printed>>
readerVars  == <<reader, late, buffer>>
given       == <<hung, unfit>>
vars == <<known, closed, commandVars, start, readerVars, shellVars, reaped, pipe,
          jobs, given, callerVars, made, answer>>

Streams == {"out", "err"}
Runs    == 1..MaxRuns
OfShell == -1        \* as an exit code: the shell's own
\* A line; a last line without its end; a line with the prefix of a sentinel in
\* it; a line that is not UTF-8; a line of a background job.
Kinds   == {"line", "tail", "marked", "bad", "job"}
Text(r, kind) == [run |-> r, kind |-> kind]
Texts   == [run : Runs, kind : Kinds \cup {"done"}]
Nothing == [status |-> "none", exit |-> 0, text |-> [s \in Streams |-> <<>>], cut |-> FALSE]

ASSUME SessionAssumption ==
  /\ IsFiniteSet(Callers)
  /\ Calls \subseteq Callers \X {"run", "status", "kill"}
  /\ Prints \subseteq Runs \X Streams \X Kinds
  /\ MayHang \subseteq Runs /\ MayRaise \subseteq Runs /\ MayLeave \subseteq Runs
  /\ Size \in Nat \ {0} /\ MaxRuns \in Nat

\* BashSession.__init__: the process and the three threads are started.
Init ==
  /\ known = TRUE /\ closed = FALSE /\ current = 0
  /\ done = [r \in Runs |-> {}] /\ exit = [r \in Runs |-> 0]
  /\ start = [r \in Runs |-> [s \in Streams |-> 0]]
  /\ buffer = [s \in Streams |-> [data |-> <<>>, total |-> 0, truncated |-> FALSE]]
  /\ reader = [s \in Streams |-> "read"] /\ late = [s \in Streams |-> 0]
  /\ shell = "up" /\ reaped = FALSE
  /\ stdin = 0 /\ pipe = [s \in Streams |-> <<>>]
  /\ doing = 0 /\ phase = "idle" /\ jobs = {}
  /\ hung \in SUBSET MayHang /\ unfit \in SUBSET MayRaise
  /\ pc = [c \in Callers |-> "idle"] /\ run = [c \in Callers |-> 0]
  /\ timed = [c \in Callers |-> FALSE]
  /\ made = 0 /\ printed = [r \in Runs |-> {}] /\ answer = [r \in Runs |-> Nothing]

-----------------------------------------------------------------------------
(* The ring buffer.                                                          *)

\* Mutant: the buffer is not cut.
WrittenUncut(b, text) ==
  [data |-> Append(b.data, text), total |-> b.total + 1, truncated |-> Len(b.data) >= Size]
Written(b, text) ==
  LET all == Append(b.data, text)
      cut == Len(all) > Size
  IN [data |-> IF cut THEN Tail(all) ELSE all, total |-> b.total + 1,
      truncated |-> b.truncated \/ cut]

StringFrom(b, offset) ==
  LET gone == b.total - Len(b.data) IN
  SubSeq(b.data, IF offset > gone THEN offset - gone + 1 ELSE 1, Len(b.data))

Snapshot(status, code, r) ==
  [status |-> status, exit |-> code,
   text |-> [s \in Streams |-> StringFrom(buffer[s], start[r][s])],
   cut |-> \E s \in Streams : buffer[s].truncated]

-----------------------------------------------------------------------------
(* The callers.                                                              *)

Goto(c, p) == pc' = [pc EXCEPT ![c] = p]
Quiet == UNCHANGED <<given, jobs, readerVars, pipe, reaped, doing, phase, printed>>

\* The registry looks the session up; it may be closed before it is used.
Lookup(c) ==
  /\ pc[c] = "idle" /\ known
  /\ \E op \in {"run", "status", "kill"}, limit \in BOOLEAN :
       /\ <<c, op>> \in Calls
       /\ limit => op = "run"
       /\ op = "run" => made + Cardinality({d \in Callers : pc[d] = "run"}) < MaxRuns
       /\ Goto(c, op) /\ timed' = [timed EXCEPT ![c] = limit]
  /\ UNCHANGED <<known, closed, commandVars, start, shell, stdin, run, made, answer>>
  /\ Quiet

Answer(c, r, a) ==
  /\ Goto(c, "idle") /\ run' = [run EXCEPT ![c] = 0]
  /\ timed' = [timed EXCEPT ![c] = FALSE]
  /\ answer' = IF r = 0 THEN answer ELSE [answer EXCEPT ![r] = a]

\* run, once no command is in progress.  A closed session, or a pipe nobody
\* reads, is answered with "killed"; a command that cannot be framed or encoded
\* raises, and stays in progress.
Run(c) ==
  /\ pc[c] = "run" /\ current = 0
  /\ IF closed
     THEN Answer(c, 0, Nothing) /\ UNCHANGED <<current, stdin, start, made>>
     ELSE /\ made' = made + 1
          /\ start' = [start EXCEPT ![made'] = [s \in Streams |-> buffer[s].total]]
          /\ IF made' \in unfit
             THEN Answer(c, 0, Nothing) /\ current' = made' /\ UNCHANGED stdin
             ELSE IF shell = "dead"
             THEN Answer(c, made', [Nothing EXCEPT !.status = "killed"])
                  /\ UNCHANGED <<current, stdin>>
             ELSE /\ current' = made' /\ stdin' = made' /\ run' = [run EXCEPT ![c] = made']
                  /\ Goto(c, "wait") /\ UNCHANGED <<answer, timed>>
  /\ UNCHANGED <<known, closed, done, exit, shell>> /\ Quiet

Done(r) == done[r] = Streams
Completed(c) ==
  /\ pc[c] = "wait" /\ Done(run[c])
  /\ Answer(c, run[c], Snapshot("completed", exit[run[c]], run[c]))
  /\ UNCHANGED <<known, closed, commandVars, start, shell, stdin, made>> /\ Quiet

\* The command stays in progress.
Timeout(c) ==
  /\ pc[c] = "wait" /\ timed[c] /\ ~Done(run[c])
  /\ Answer(c, run[c], Snapshot("running", 0, run[c]))
  /\ UNCHANGED <<known, closed, commandVars, start, shell, stdin, made>> /\ Quiet

Status(c) ==
  /\ pc[c] = "status" /\ Answer(c, 0, Nothing)
  /\ UNCHANGED <<known, closed, commandVars, start, shell, stdin, made>> /\ Quiet

\* SIGTERM, which the shell may survive, and the wait for the command.
Kill(c) ==
  /\ pc[c] = "kill"
  /\ IF current = 0 THEN Answer(c, 0, Nothing)
     ELSE /\ run' = [run EXCEPT ![c] = current] /\ Goto(c, "term")
          /\ UNCHANGED <<timed, answer>>
  /\ UNCHANGED <<known, closed, commandVars, start, shell, stdin, made>> /\ Quiet

\* Three seconds later: SIGKILL.
TermExpires(c) ==
  /\ pc[c] = "term" /\ ~Done(run[c])
  /\ shell' = "dead" /\ Goto(c, "killing")
  /\ doing' = 0 /\ phase' = "idle" /\ stdin' = 0
  /\ UNCHANGED <<known, closed, commandVars, start, made, run, timed, answer>>
  /\ UNCHANGED <<given, jobs, readerVars, pipe, reaped, printed>>

Killed(c) ==
  /\ pc[c] \in {"term", "killing"} /\ Done(run[c])
  /\ closed' = TRUE /\ Answer(c, 0, Nothing)
  /\ UNCHANGED <<known, commandVars, start, shell, stdin, made>> /\ Quiet

\* BashSessionRegistry.close forgets the session and closes it; threads that
\* have looked it up go on with it.
Close ==
  /\ known /\ known' = FALSE
  /\ closed' = TRUE /\ shell' = "dead"
  /\ doing' = 0 /\ phase' = "idle" /\ stdin' = 0
  /\ UNCHANGED <<commandVars, start, callerVars, made, answer>>
  /\ UNCHANGED <<given, jobs, readerVars, pipe, reaped, printed>>

-----------------------------------------------------------------------------
(* The shell.                                                                *)

Apart == UNCHANGED <<known, closed, commandVars, start, readerVars, reaped, given,
                     callerVars, made, answer>>

ShellReads ==
  /\ shell = "up" /\ phase = "idle" /\ stdin # 0
  /\ doing' = stdin /\ stdin' = 0 /\ phase' = "executes"
  /\ jobs' = jobs \cup ({stdin} \cap MayLeave)
  /\ UNCHANGED <<shell, pipe, printed>> /\ Apart

\* Text without a newline is the last of its command.
ShellPrints(r, s, kind) ==
  /\ phase = "executes" /\ doing = r /\ kind # "job"
  /\ ~\E p \in printed[doing] : p[1] = s /\ p[2] \in {kind, "tail"}
  /\ printed' = [printed EXCEPT ![doing] = @ \cup {<<s, kind>>}]
  /\ pipe' = [pipe EXCEPT ![s] = Append(@, Text(doing, kind))]
  /\ UNCHANGED <<shell, stdin, doing, phase, jobs>> /\ Apart

\* The two sentinels of the framed command.
ShellEnds ==
  /\ phase = "executes" /\ doing \notin hung
  /\ pipe' = [pipe EXCEPT !["err"] = Append(@, Text(doing, "done"))]
  /\ phase' = "status"
  /\ UNCHANGED <<shell, stdin, doing, printed, jobs>> /\ Apart
ShellReports ==
  /\ phase = "status"
  /\ pipe' = [pipe EXCEPT !["out"] = Append(@, Text(doing, "done"))]
  /\ phase' = "idle" /\ doing' = 0
  /\ UNCHANGED <<shell, stdin, printed, jobs>> /\ Apart

\* By an exit in a command, a signal, or a crash.
ShellDies ==
  /\ shell = "up"
  /\ shell' = "dead" /\ doing' = 0 /\ phase' = "idle" /\ stdin' = 0
  /\ UNCHANGED <<pipe, printed, jobs>> /\ Apart

\* A background job ends, at any time, with or without a line of output: it has
\* the streams of the shell, and may outlive it.
JobEnds(r) ==
  /\ r \in jobs /\ jobs' = jobs \ {r}
  /\ \/ pipe' = pipe
     \/ \E s \in Streams :
          /\ <<r, s, "job">> \in Prints
          /\ pipe' = [pipe EXCEPT ![s] = Append(@, Text(r, "job"))]
  /\ UNCHANGED shellVars /\ Apart

-----------------------------------------------------------------------------
(* The threads of the session.                                               *)

Aside == UNCHANGED <<known, start, shellVars, jobs, given, callerVars, made, answer>>

\* What a reader's next line is made of: a line, or at the end of the stream
\* what is left; a line of a job that went on from an unfinished one; a sentinel
\* with the text in front of it.
LineReady(s) == pipe[s] # <<>> /\ Head(pipe[s]).kind \in {"line", "marked", "job"}
LastReady(s) == /\ Len(pipe[s]) = 1 /\ pipe[s][1].kind = "tail"
                /\ shell = "dead" /\ jobs = {}
JoinReady(s) == Len(pipe[s]) > 1 /\ Head(pipe[s]).kind = "tail" /\ pipe[s][2].kind = "job"
SentinelAt(s) == IF pipe[s] # <<>> /\ Head(pipe[s]).kind = "tail" THEN 2 ELSE 1

\* What looks like a sentinel, and is none of the command's, is not shown.
ReadText(s) ==
  /\ reader[s] = "read" /\ (LineReady(s) \/ LastReady(s))
  /\ buffer' = IF Head(pipe[s]).kind = "marked" THEN buffer
               ELSE [buffer EXCEPT ![s] = Written(@, Head(pipe[s]))]
  /\ pipe' = [pipe EXCEPT ![s] = Tail(@)]
  /\ UNCHANGED <<closed, commandVars, reader, late, reaped>> /\ Aside
ReadJoined(s) ==
  /\ reader[s] = "read" /\ JoinReady(s)
  /\ buffer' = [buffer EXCEPT ![s] = Written(Written(@, pipe[s][1]), pipe[s][2])]
  /\ pipe' = [pipe EXCEPT ![s] = SubSeq(@, 3, Len(@))]
  /\ UNCHANGED <<closed, commandVars, reader, late, reaped>> /\ Aside

\* The stream is decoded block by block: a byte that is not UTF-8 ends the
\* thread, with the lines of its block not yet read.
ReaderDies(s) ==
  /\ reader[s] = "read" /\ \E i \in 1..Len(pipe[s]) : pipe[s][i].kind = "bad"
  /\ reader' = [reader EXCEPT ![s] = "dead"]
  /\ UNCHANGED <<closed, commandVars, buffer, late, pipe, reaped>> /\ Aside

\* Mutant: one sentinel is enough.
MarkBoth(s, r) ==
  IF current # r THEN UNCHANGED commandVars
  ELSE /\ done' = [done EXCEPT ![r] = Streams]
       /\ exit' = IF s = "out" THEN [exit EXCEPT ![r] = r] ELSE exit
       /\ current' = 0
Mark(s, r) ==
  IF current # r THEN UNCHANGED commandVars
  ELSE /\ done' = [done EXCEPT ![r] = @ \cup {s}]
       /\ exit' = IF s = "out" THEN [exit EXCEPT ![r] = r] ELSE exit
       /\ current' = IF done'[r] = Streams THEN 0 ELSE r

\* The command is marked, and its waiters woken, before the text in front of
\* the sentinel is written to the buffer.
ReadSentinel(s) ==
  /\ reader[s] = "read"
  /\ Len(pipe[s]) >= SentinelAt(s) /\ pipe[s][SentinelAt(s)].kind = "done"
  /\ Mark(s, pipe[s][SentinelAt(s)].run)
  /\ IF SentinelAt(s) = 1 THEN UNCHANGED <<reader, late>>
     ELSE late' = [late EXCEPT ![s] = Head(pipe[s]).run] /\ reader' = [reader EXCEPT ![s] = "write"]
  /\ pipe' = [pipe EXCEPT ![s] = SubSeq(@, SentinelAt(s) + 1, Len(@))]
  /\ UNCHANGED <<closed, buffer, reaped>> /\ Aside

WriteLate(s) ==
  /\ reader[s] = "write"
  /\ buffer' = [buffer EXCEPT ![s] = Written(@, Text(late[s], "tail"))]
  /\ late' = [late EXCEPT ![s] = 0] /\ reader' = [reader EXCEPT ![s] = "read"]
  /\ UNCHANGED <<closed, commandVars, pipe, reaped>> /\ Aside

\* Mutant: the command in progress is not marked.
ReapUnmarked ==
  /\ shell = "dead" /\ ~reaped
  /\ reaped' = TRUE /\ closed' = TRUE
  /\ UNCHANGED <<commandVars, readerVars, pipe>> /\ Aside
\* _wait_shell.
Reap ==
  /\ shell = "dead" /\ ~reaped
  /\ reaped' = TRUE /\ closed' = TRUE /\ current' = 0
  /\ done' = IF current = 0 THEN done ELSE [done EXCEPT ![current] = Streams]
  /\ exit' = IF current = 0 THEN exit ELSE [exit EXCEPT ![current] = OfShell]
  /\ UNCHANGED <<readerVars, pipe>> /\ Aside

-----------------------------------------------------------------------------
ShellStep == ShellReads \/ ShellEnds \/ ShellReports
ReaderStep(s) == ReadText(s) \/ ReadJoined(s) \/ ReadSentinel(s) \/ WriteLate(s)
                 \/ ReaderDies(s)
CallerStep(c) == Run(c) \/ Completed(c) \/ Timeout(c) \/ Status(c) \/ Kill(c)
                 \/ TermExpires(c) \/ Killed(c)

Next ==
  \/ \E c \in Callers : Lookup(c) \/ CallerStep(c)
  \/ Close
  \/ ShellStep \/ ShellDies \/ \E p \in Prints : ShellPrints(p[1], p[2], p[3])
  \/ \E r \in jobs : JobEnds(r)
  \/ \E s \in Streams : ReaderStep(s)
  \/ Reap

\* Threads run, timeouts pass, and the shell runs what it is given; a command
\* of hung need not end, nor a job, and nobody need kill.
Fairness ==
  /\ \A c \in Callers : WF_vars(CallerStep(c))
  /\ \A s \in Streams : WF_vars(ReaderStep(s))
  /\ WF_vars(ShellStep) /\ WF_vars(Reap)

Spec == Init /\ [][Next]_vars /\ Fairness

-----------------------------------------------------------------------------
Answers == [status : {"none", "killed", "running", "completed"}, exit : Runs \cup {0, OfShell},
            text : [Streams -> Seq(Texts)], cut : BOOLEAN]
TypeOK ==
  /\ known \in BOOLEAN /\ closed \in BOOLEAN
  /\ current \in 0..made /\ made \in 0..MaxRuns
  /\ done \in [Runs -> SUBSET Streams] /\ exit \in [Runs -> Runs \cup {0, OfShell}]
  /\ \A s \in Streams :
       /\ buffer[s].data \in Seq(Texts) /\ Len(buffer[s].data) <= Size
       /\ buffer[s].truncated = (buffer[s].total > Size)
       /\ pipe[s] \in Seq(Texts)
       /\ \A r \in Runs : start[r][s] \in 0..buffer[s].total
       /\ reader[s] = "write" <=> late[s] # 0
  /\ shell = "dead" => doing = 0 /\ stdin = 0
  /\ doing = 0 <=> phase = "idle"
  /\ jobs \subseteq MayLeave
  /\ current # 0 => ~(done[current] = Streams)
  /\ answer \in [Runs -> Answers]

\* A command that ended is answered with its own status and all its lines but
\* those that look like a sentinel, and of what earlier commands printed
\* themselves with at most the late tail of the one just before it, however the
\* two readers, the shell's death, background jobs, other callers and a run that
\* timed out interleave.
OwnLines ==
  \A r \in Runs, s \in Streams :
    /\ answer[r].status = "completed" => answer[r].exit \in {r, OfShell}
    /\ answer[r].status = "completed" /\ answer[r].exit = r /\ <<s, "line">> \in printed[r]
         => Text(r, "line") \in Range(answer[r].text[s]) \/ Len(answer[r].text[s]) = Size
    /\ \A text \in Range(answer[r].text[s]) :
         text.run < r => text = Text(r - 1, "tail") \/ text.kind = "job"

\* A reader has died, or the command in progress was never written.
Wedged == (\E s \in Streams : reader[s] = "dead") \/ current \in unfit

Callable(op) == {c \in Callers : <<c, op>> \in Calls}

\* A kill returns, also when the command ignores SIGTERM and never ends, and so
\* does a run with a timeout that waits for its command; and when commands do end
\* every run returns, unless the session is wedged: no wake-up of the condition
\* is lost, and a command that timed out does not lock the session.
CallsReturn ==
  /\ \A c \in Callable("kill") : pc[c] \in {"kill", "term", "killing"} ~> pc[c] = "idle"
  /\ \A c \in Callable("run") :
       /\ pc[c] = "wait" /\ timed[c] ~> pc[c] = "idle"
       /\ hung = {} /\ pc[c] \in {"run", "wait"} ~> pc[c] = "idle" \/ Wedged

\* What a test expects: the output of a command that completed is in its
\* answer, also without a newline at its end.
TailShown ==
  \A r \in Runs, s \in Streams :
    answer[r].status = "completed" /\ answer[r].exit = r /\ <<s, "tail">> \in printed[r]
      => Text(r, "tail") \in Range(answer[r].text[s]) \/ Len(answer[r].text[s]) = Size
=============================================================================
