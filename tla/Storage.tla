------------------------------- MODULE Storage -------------------------------
(***************************************************************************)
(* The storage adapters, and a session's save and load: writers that read  *)
(* the whole store, add to it and write it back, a follower that polls     *)
(* events_since, and writes cut short by a crash or by an exception.  The  *)
(* writers take turns, which is what the host has to see to: nothing in    *)
(* the code keeps one from writing between the other's read and write.     *)
(***************************************************************************)
EXTENDS Integers, Sequences, FiniteSets, SequencesExt

CONSTANTS
  Writers,      \* adapters, or sessions, on the same path
  Modes,        \* which of the stores: see mode
  MaxRows,      \* bound: events drafted
  MaxCuts       \* bound: crashes and failed writes

VARIABLES
  mode,            \* FileStorageAdapter, MemoryStorageAdapter, or Session
  initial,         \* of an adapter: its initial_header
  lines, malformed,\* the file, and whether a line of it is no JSON
  pc, content, new,\* of a writer: where it is, what it writes, its new row
  session,         \* of a session: its Log, or that it is not loaded
  made,            \* history: events drafted
  acked,           \* history: rows whose append or save has returned
  base, bare,      \* history: what was stored before a write; written without header
  cuts,            \* history: crashes and failed writes
  seen             \* the rows the follower was given

writerVars == <<pc, content, new, session>>
fixed      == <<mode, initial>>
vars == <<fixed, lines, malformed, writerVars, made, acked, base, bare, cuts, seen>>

\* split: a line separator of Unicode stands raw in the row's line, where
\* _read_all's splitlines breaks it into two that are no JSON.
Row(s, i, split) == [seq |-> s, id |-> i, split |-> split]
Header  == Row(-1, 0, FALSE)
NoRow   == [row |-> Header, expected |-> -1]
Closed  == <<Header>>      \* of a session: not loaded

ASSUME StorageAssumption ==
  /\ Modes \subseteq {"file", "memory", "session"}
  /\ MaxRows \in Nat /\ MaxCuts \in Nat

Init ==
  /\ mode \in Modes
  /\ initial \in [Writers -> {<<>>, <<Header>>}]
  /\ mode # "file" => initial = [w \in Writers |-> <<>>]
  /\ lines = <<>> /\ malformed = FALSE
  /\ pc = [w \in Writers |-> "idle"] /\ content = [w \in Writers |-> <<>>]
  /\ new = [w \in Writers |-> NoRow] /\ session = [w \in Writers |-> Closed]
  /\ made = 0 /\ acked = {} /\ base = [ok |-> TRUE, rows |-> <<>>] /\ bare = FALSE /\ cuts = 0
  /\ seen = <<>>

-----------------------------------------------------------------------------
(* Reading.                                                                  *)

\* The rows behind the header, if there is one.
Events(f) == IF f # <<>> /\ Head(f) = Header THEN Tail(f) ELSE f
Readable  == lines # <<>> \/ malformed
\* _read_all, and Session.load, accept a header and rows numbered from 0, each
\* in a line of its own.
ReadAll(f, bad) ==
  /\ ~bad /\ f # <<>> /\ Head(f) = Header
  /\ \A i \in 2..Len(f) : f[i].seq = i - 2 /\ ~f[i].split
\* What load_session, events_since and Session.load find there, unless they raise.
OnFile == [ok   |-> mode = "memory" \/ ~Readable \/ ReadAll(lines, malformed),
           rows |-> Events(lines)]

\* The host lets one writer in at a time, and a session for as long as it is open.
Free(w) ==
  /\ pc[w] = "idle"
  /\ \A v \in Writers \ {w} : pc[v] = "idle" /\ session[v] = Closed

-----------------------------------------------------------------------------
(* The adapters.                                                             *)

Prepare(w, c, row) ==
  /\ pc' = [pc EXCEPT ![w] = "ready"]
  /\ content' = [content EXCEPT ![w] = c] /\ new' = [new EXCEPT ![w] = row]
  /\ UNCHANGED <<fixed, lines, malformed, session, acked, base, bare, cuts, seen>>

\* append_event up to its write.  A file that cannot be read raises, as does a
\* row that is no JSON; a fence that is not the next seq raises
\* StorageConflictError.
Found(w) == IF Readable THEN lines ELSE initial[w]
\* Mutant: the row is numbered by its place in the file.
NextSeqOfLine(w) == IF mode = "file" THEN Len(Found(w)) ELSE Len(lines)
NextSeq(w) == IF mode = "file" THEN Len(Events(Found(w))) ELSE Len(lines)
\* Mutant: the fence accepts what is not there yet.
PassesAhead(w, expected) == expected = -1 \/ expected >= NextSeq(w)
Passes(w, expected) == expected = -1 \/ expected = NextSeq(w)

AppendEvent(w, expected, split) ==
  /\ mode \in {"file", "memory"} /\ Free(w) /\ made < MaxRows
  /\ mode = "file" => (Readable => ReadAll(lines, malformed))
  /\ Passes(w, expected) /\ (split => mode = "file")
  /\ made' = made + 1
  /\ LET row == Row(NextSeq(w), made', split) IN
     Prepare(w, IF mode = "file" THEN Append(Found(w), row) ELSE <<row>>,
             [row |-> row, expected |-> expected])

SaveHeader(w) ==
  /\ mode = "file" /\ Free(w)
  /\ Readable => ReadAll(lines, malformed)
  /\ Prepare(w, <<Header>> \o (IF Readable THEN Tail(lines) ELSE <<>>), NoRow)
  /\ made' = made

Idle(w) ==
  /\ pc' = [pc EXCEPT ![w] = "idle"]
  /\ content' = [content EXCEPT ![w] = <<>>] /\ new' = [new EXCEPT ![w] = NoRow]

\* MemoryStorageAdapter appends the row it has numbered.
PutRow(w) ==
  /\ mode = "memory" /\ pc[w] = "ready"
  /\ lines' = lines \o content[w] /\ acked' = acked \cup {new[w]}
  /\ Idle(w)
  /\ UNCHANGED <<fixed, malformed, session, made, base, bare, cuts, seen>>

-----------------------------------------------------------------------------
(* Sessions.                                                                 *)

Opened(w) == session[w] # Closed
SetSession(w, rows) == session' = [session EXCEPT ![w] = rows]
Elsewhere == UNCHANGED <<fixed, lines, malformed, pc, content, new, acked, base, bare, cuts, seen>>

\* A new session, or Session.load, which raises on an empty file too.
Create(w) ==
  /\ mode = "session" /\ Free(w) /\ ~Opened(w) /\ ~Readable /\ cuts = 0
  /\ SetSession(w, <<>>) /\ made' = made /\ Elsewhere
\* Mutant: the header is taken for an event.
LoadLines(w) ==
  /\ mode = "session" /\ Free(w) /\ ReadAll(lines, malformed)
  /\ SetSession(w, lines) /\ made' = made /\ Elsewhere
Load(w) ==
  /\ mode = "session" /\ Free(w) /\ ReadAll(lines, malformed)
  /\ SetSession(w, Tail(lines)) /\ made' = made /\ Elsewhere

\* Log.append.  Session.load splits lines at line feeds only.
Record(w) ==
  /\ mode = "session" /\ Free(w) /\ Opened(w) /\ made < MaxRows
  /\ made' = made + 1 /\ SetSession(w, Append(session[w], Row(Len(session[w]), made', FALSE)))
  /\ Elsewhere

Drop(w) ==
  /\ Free(w) /\ Opened(w)
  /\ SetSession(w, Closed) /\ made' = made /\ Elsewhere

Save(w) ==
  /\ mode = "session" /\ Free(w) /\ Opened(w)
  /\ Prepare(w, <<Header>> \o session[w], NoRow) /\ made' = made

-----------------------------------------------------------------------------
(* Writing the file: it is emptied, then filled.                             *)

Truncate(w) ==
  /\ mode # "memory" /\ pc[w] = "ready"
  /\ base' = OnFile /\ lines' = <<>> /\ malformed' = FALSE
  /\ pc' = [pc EXCEPT ![w] = "empty"]
  /\ UNCHANGED <<fixed, content, new, session, made, acked, bare, cuts, seen>>

Saved(w) == {[row |-> r, expected |-> -1] : r \in Range(session[w])}
Write(w) ==
  /\ pc[w] = "empty"
  /\ lines' = content[w]
  /\ acked' = acked \cup (IF mode = "session" THEN Saved(w) ELSE {new[w]} \ {NoRow})
  /\ bare' = (bare \/ Head(content[w]) # Header)
  /\ Idle(w)
  /\ UNCHANGED <<fixed, malformed, session, made, base, cuts, seen>>

\* Of the file whole lines are left, and part of another.
LeavePart(w) ==
  /\ pc[w] = "empty"
  /\ \E n \in 0..Len(content[w]), bad \in BOOLEAN :
       /\ lines' = SubSeq(content[w], 1, n)
       /\ malformed' = bad
       /\ bad => n < Len(content[w])

\* The write raises, and the process goes on: text that has no encoding, an
\* event of a session that is no JSON, a full disk.
WriteFails(w) ==
  /\ cuts < MaxCuts
  /\ LeavePart(w)
  /\ cuts' = cuts + 1
  /\ Idle(w)
  /\ UNCHANGED <<fixed, session, made, acked, base, bare, seen>>

\* The process dies.
CrashIdle(w) ==
  /\ pc[w] \in {"idle", "ready"} /\ (pc[w] = "ready" \/ Opened(w))
  /\ UNCHANGED <<lines, malformed>>
Crash(w) ==
  /\ mode # "memory" /\ cuts < MaxCuts
  /\ CrashIdle(w) \/ LeavePart(w)
  /\ cuts' = cuts + 1
  /\ Idle(w) /\ SetSession(w, Closed)
  /\ UNCHANGED <<fixed, made, acked, base, bare, seen>>

-----------------------------------------------------------------------------
(* The follower: events_since its last row.  It may see part of a write, and *)
(* nothing of a file that is empty.                                          *)

\* Mutant: the cursor's row is given again.
SinceSame(cursor) == IF cursor = -1 THEN 0 ELSE cursor
Since(cursor) == cursor + 1
Cursor == IF seen = <<>> THEN -1 ELSE Last(seen).seq
Given(f) ==
  LET rows == IF mode = "memory" THEN f ELSE Tail(f)
  IN SubSeq(rows, Since(Cursor) + 1, Len(rows))
Views == {lines} \cup UNION {{SubSeq(content[w], 1, n) : n \in 1..Len(content[w])}
                              : w \in {v \in Writers : pc[v] = "empty"}}
Poll ==
  /\ mode \in {"file", "memory"}
  /\ \E f \in Views :
       /\ mode = "memory" \/ ReadAll(f, malformed)
       /\ Given(f) # <<>> /\ Len(seen) < MaxRows
       /\ seen' = seen \o Given(f)
  /\ UNCHANGED <<fixed, lines, malformed, writerVars, made, acked, base, bare, cuts>>

-----------------------------------------------------------------------------
Next ==
  \/ \E w \in Writers :
       \/ \E expected \in -1..MaxRows, split \in BOOLEAN : AppendEvent(w, expected, split)
       \/ SaveHeader(w) \/ PutRow(w)
       \/ Create(w) \/ Load(w) \/ Record(w) \/ Drop(w) \/ Save(w)
       \/ Truncate(w) \/ Write(w) \/ WriteFails(w) \/ Crash(w)
  \/ Poll

Spec == Init /\ [][Next]_vars

-----------------------------------------------------------------------------
(* Properties                                                                *)

Rows == [seq : 0..MaxRows, id : 1..MaxRows, split : BOOLEAN]
\* Every variable has its type: in the file are rows, and a header at most in
\* front of them (storage.py, session.py).
TypeOK ==
  /\ malformed \in BOOLEAN /\ Events(lines) \in Seq(Rows)
  /\ \A n \in DOMAIN lines : lines[n] = Header => n = 1
  /\ \A w \in Writers :
       /\ pc[w] \in {"idle", "ready", "empty"}
       /\ content[w] \in Seq(Rows \cup {Header}) /\ (content[w] = <<>> <=> pc[w] = "idle")
       /\ session[w] = Closed \/ (session[w] \in Seq(Rows) /\ mode = "session")
  /\ \A a \in acked : a.row \in Rows
  /\ seen \in Seq(Rows) /\ made \in 0..MaxRows /\ cuts \in 0..MaxCuts

\* During a write, what was there before it.
Writing == \E w \in Writers : pc[w] = "empty"
Stored  == IF Writing THEN base ELSE OnFile

DL == INSTANCE DurableLog WITH log <- Stored

\* With one writer at a time, and a header to begin with, the adapters and the
\* sessions are a DurableLog: rows are only added, each at its position; a
\* crash or a failed write leaves the start of the log, or a store that
\* refuses every use; and so does a row with a line separator, in the file of
\* an adapter.
ImplementsDurableLog == [][~bare' => DL!Next]_vars

\* As long as no write was cut short the rows acknowledged are the rows stored,
\* each at the place it was acknowledged for and at the one its fence demanded,
\* and they can be read back unless one of them has a line separator.
AckedAreStored ==
  ~bare /\ cuts = 0 =>
    /\ {a.row : a \in acked} = Range(Stored.rows)
    /\ \A a \in acked : a.expected \in {-1, a.row.seq}
    /\ Stored.ok <=> \A a \in acked : ~a.row.split

\* The follower gets each row once and in order, although it reads while a
\* writer writes.
FollowerInOrder ==
  ~bare /\ cuts = 0 =>
    /\ DL!Dense(seen)
    /\ \/ IsPrefix(seen, Stored.rows)
       \/ \E w \in Writers : IsPrefix(seen, Events(content[w]))
=============================================================================
