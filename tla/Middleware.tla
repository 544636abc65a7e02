----------------------------- MODULE Middleware -----------------------------
(***************************************************************************)
(* The wrappers of tools/middleware.py around the handlers of one file:    *)
(*   retried(limiter.wrap(guard.wrap_write(handler)))  for "write",        *)
(*   limiter.wrap(guard.wrap_read(handler))            for "read".         *)
(* Time passes and another process may change or delete the file between   *)
(* any two of their steps.  The hash of a content stands for the content.  *)
(***************************************************************************)
EXTENDS Integers, Sequences, FiniteSets

CONSTANTS
  PerMinute,     \* RateLimiter per_minute
  Minute,        \* its window, 60 s
  Attempts,      \* retried's attempts
  Contents,      \* bound: what the file may hold
  MaxTime        \* bound: the clock

VARIABLES
  now,           \* time.monotonic()
  timestamps,    \* RateLimiter._timestamps
  disk,          \* content of the file, Absent when there is none
  hash,          \* StaleReadGuard.last_hash_for(path), from the session's log
  call,          \* the wrapped call under way: "read", "write" or "none"
  text,          \* the content a write was called with
  step,          \* where it is
  failed,        \* retried's attempt_index
  result,        \* how the last call ended: "ok" or "error"
  admitted,      \* history: times at which calls were admitted
  seen,          \* history: since the last hash, what was read or written,
                 \* or came inside a window of the guard
  blind,         \* history: a content that was not seen was written over
  applied        \* history: times this call wrote its text, since another
                 \* process last changed the file

callVars == <<call, text, step, failed, result>>
mwVars == <<now, timestamps, disk, hash, callVars, admitted, seen, blind, applied>>

Absent == "absent"
None == "none"      \* no hash recorded for the path

ASSUME MiddlewareAssumption ==
  /\ PerMinute \in Nat \ {0} /\ Minute \in Nat \ {0} /\ Attempts \in Nat \ {0}
  /\ MaxTime \in Nat /\ Absent \notin Contents /\ None \notin Contents

Steps == {"idle", "admit", "check", "handle", "record", "hash"}

MiddlewareInit ==
  /\ now = 0 /\ timestamps = <<>>
  /\ disk \in Contents \cup {Absent} /\ hash = None
  /\ call = "none" /\ text = None /\ step = "idle" /\ failed = 0 /\ result = "ok"
  /\ admitted = <<>> /\ seen = {} /\ blind = FALSE /\ applied = 0

-----------------------------------------------------------------------------
(* The world                                                                 *)

Tick ==
  /\ now < MaxTime /\ now' = now + 1
  /\ UNCHANGED <<timestamps, disk, hash, callVars, admitted, seen, blind, applied>>

\* The guard compares and then writes, and reads or writes and then hashes:
\* what comes in between it cannot tell from what it compared or wrote.
Window == step \in {"record", "hash"} \/ (step = "handle" /\ call = "write")

\* Another process puts any other content there, an earlier one of the file
\* included, or deletes it.
Intrude ==
  /\ disk' \in (Contents \cup {Absent}) \ {disk}
  /\ seen' = IF Window /\ disk' # Absent THEN seen \cup {disk'} ELSE seen
  /\ applied' = 0
  /\ UNCHANGED <<now, timestamps, hash, callVars, admitted, blind>>

-----------------------------------------------------------------------------
(* A wrapped call                                                            *)

\* A write is retried with the arguments it was called with.
Begin(c) ==
  /\ step = "idle"
  /\ call' = c /\ step' = "admit" /\ failed' = 0 /\ applied' = 0
  /\ IF c = "write" THEN text' \in Contents ELSE text' = None
  /\ UNCHANGED <<now, timestamps, disk, hash, result, admitted, seen, blind>>

End(how) == call' = "none" /\ step' = "idle" /\ result' = how /\ UNCHANGED <<text, failed>>

\* Mutants: only the handler is called again, without its wrappers; one
\* attempt too many.
RaiseInside ==
  IF call = "write" /\ failed + 1 < Attempts
  THEN failed' = failed + 1 /\ step' = "handle" /\ UNCHANGED <<call, text, result>>
  ELSE End("error")
RaiseOnceMore ==
  IF call = "write" /\ failed < Attempts
  THEN failed' = failed + 1 /\ step' = "admit" /\ UNCHANGED <<call, text, result>>
  ELSE End("error")
\* An exception leaves the inner wrappers; retried, around a write, calls them
\* all again after a pause, until its attempts are used up.
Raise ==
  IF call = "write" /\ failed + 1 < Attempts
  THEN failed' = failed + 1 /\ step' = "admit" /\ UNCHANGED <<call, text, result>>
  ELSE End("error")

\* The timestamps from t on.  They come from one clock that never goes back, so
\* that these are the end of the list.
TimestampsFrom(t) ==
  LET kept == {k \in DOMAIN timestamps : timestamps[k] >= t}
  IN  IF kept = {} THEN <<>>
      ELSE SubSeq(timestamps, CHOOSE k \in kept : \A j \in kept : k <= j, Len(timestamps))

\* Mutant: a call exactly one window old is forgotten.
RecentOpen == TimestampsFrom(now - Minute + 1)
Recent == TimestampsFrom(now - Minute)

\* The wrapper goes on to its next step.
Go(next) == step' = next /\ UNCHANGED <<call, text, failed, result>>

\* RateLimiter._admit: old timestamps are dropped even when it refuses.
Admit ==
  /\ step = "admit"
  /\ IF Len(Recent) >= PerMinute
     THEN timestamps' = Recent /\ Raise /\ UNCHANGED admitted
     ELSE /\ timestamps' = Append(Recent, now)
          /\ admitted' = Append(admitted, now)
          /\ Go(IF call = "write" THEN "check" ELSE "handle")
  /\ UNCHANGED <<now, disk, hash, seen, blind, applied>>

\* Mutant: the guard asks for a read, but never compares.
FreshIfRead == disk = Absent \/ hash # None
\* _check_fresh, strict and with require_read: a file never read must not
\* exist, a file read must be as it was.  A file that is gone between exists()
\* and read_bytes() makes it raise, as one that is gone before does.
Fresh == IF hash = None THEN disk = Absent ELSE disk = hash

CheckFresh ==
  /\ step = "check"
  /\ IF Fresh THEN Go("handle") ELSE Raise
  /\ UNCHANGED <<now, timestamps, disk, hash, admitted, seen, blind, applied>>

\* read_file hands the content to the model; a missing file raises.
Read ==
  /\ step = "handle" /\ call = "read"
  /\ IF disk = Absent
     THEN Raise /\ UNCHANGED seen
     ELSE Go("record") /\ seen' = seen \cup {disk}
  /\ UNCHANGED <<now, timestamps, disk, hash, admitted, blind, applied>>

\* What is left in place of whatever is there.
WriteFile(content) ==
  /\ disk' = content /\ seen' = seen \cup {content}
  /\ blind' = (blind \/ disk \notin seen \cup {Absent})
  /\ applied' = IF content = text THEN applied + 1 ELSE applied

\* write_file puts its text there, or fails on the way or behind it and leaves
\* any content.
Write ==
  /\ step = "handle" /\ call = "write"
  /\ \/ WriteFile(text) /\ Go("record")
     \/ \E content \in Contents : WriteFile(content) /\ Raise
  /\ UNCHANGED <<now, timestamps, hash, admitted>>

\* It fails before it has touched the file.
FailToWrite ==
  /\ step = "handle" /\ call = "write"
  /\ Raise
  /\ UNCHANGED <<now, timestamps, disk, hash, admitted, seen, blind, applied>>

\* Without a file there is no hash to record, and the old one stays.
Record ==
  /\ step = "record"
  /\ IF disk = Absent THEN End("ok") ELSE Go("hash")
  /\ UNCHANGED <<now, timestamps, disk, hash, admitted, seen, blind, applied>>

\* The hash is taken from what is on disk by then; a file that is gone by then
\* raises, and a write is called again although it was done.
Hash ==
  /\ step = "hash"
  /\ IF disk = Absent THEN Raise /\ UNCHANGED <<hash, seen>>
     ELSE End("ok") /\ hash' = disk /\ seen' = {disk}
  /\ UNCHANGED <<now, timestamps, disk, admitted, blind, applied>>

Work == Admit \/ CheckFresh \/ Read \/ Write \/ FailToWrite \/ Record \/ Hash
World == Tick \/ Intrude

-----------------------------------------------------------------------------
(* Properties                                                                *)

MiddlewareTypeOK ==
  /\ now \in 0..MaxTime /\ timestamps \in Seq(0..now) /\ admitted \in Seq(0..now)
  /\ disk \in Contents \cup {Absent} /\ hash \in Contents \cup {None}
  /\ call \in {"none", "read", "write"} /\ step \in Steps
  /\ text \in Contents \cup {None} /\ (call = "write" => text # None)
  /\ failed \in 0..(Attempts - 1) /\ result \in {"ok", "error"}
  /\ seen \subseteq Contents /\ blind \in BOOLEAN /\ applied \in Nat

\* However the calls fall, no minute, its two ends included, sees more than
\* per_minute of them admitted: refused calls cost nothing, and forgetting old
\* timestamps never forgets one that still counts (RateLimiter).
MinuteKept ==
  \A n \in DOMAIN admitted :
    Cardinality({m \in 1..n : admitted[m] >= admitted[n] - Minute}) <= PerMinute

\* A write never goes over a content the session has not seen since it last
\* took a hash, by reading it or leaving it there itself, unless that content
\* came where the guard cannot see: between its comparison and the write, or a
\* read or write and its hash.  And of a file nobody else touches, a retried
\* write that was done is done again only over the content it was read with.
\* (StaleReadGuard inside retried; a file deleted during the pause is written
\* a second time)
NothingWrittenOver == ~blind /\ (applied > 1 => text = hash)
=============================================================================
