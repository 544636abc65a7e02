------------------------------ MODULE BashProofs ------------------------------
(***************************************************************************)
(* Proofs about BashSession, for any callers, calls, prints, sizes and     *)
(* numbers of commands: a command's answer shows its own lines, and of the *)
(* commands before it at most the late tail of the one just before and the *)
(* lines of their background jobs.                                         *)
(***************************************************************************)
EXTENDS BashSession, SequenceTheorems, FiniteSetTheorems, TLAPS

Buffers == [data : Seq(Texts), total : Nat, truncated : BOOLEAN]
\* How much of a buffer has been dropped, and the text at a position of the
\* whole output.
Gone(b)  == b.total - Len(b.data)
At(b, p) == b.data[p - Gone(b) + 1]
Ring(b) ==
  /\ b \in Buffers
  /\ Len(b.data) = IF b.total <= Size THEN b.total ELSE Size
  /\ b.truncated = (b.total > Size)

-----------------------------------------------------------------------------
(* The ring buffer.                                                          *)

LEMMA SizeIs == Size \in Nat /\ Size >= 1 /\ MaxRuns \in Nat /\ IsFiniteSet(Callers)
BY SessionAssumption

LEMMA GoneIs ==
  ASSUME NEW b, Ring(b)
  PROVE  /\ Len(b.data) \in Nat /\ b.data \in Seq(Texts) /\ b.total \in Nat
         /\ Gone(b) = (IF b.total <= Size THEN 0 ELSE b.total - Size)
         /\ Gone(b) \in 0..b.total
         /\ Len(b.data) = b.total - Gone(b)
<1>1. b.data \in Seq(Texts) /\ b.total \in Nat
  BY DEF Ring, Buffers
<1>2. Len(b.data) \in Nat
  BY <1>1, LenProperties
<1> QED BY <1>1, <1>2, SizeIs DEF Ring, Gone

LEMMA Shifted ==
  ASSUME NEW g \in Nat, NEW n \in Nat, NEW p \in Nat, g + 1 <= p, p <= n
  PROVE  /\ p - (g + 1) + 1 \in 1..(n - g) /\ (p - (g + 1) + 1) + 1 = p - g + 1
         /\ p < n => p - g + 1 \in 1..(n - g)
OBVIOUS

\* A write adds one text and drops at most the oldest.
LEMMA WrittenIs ==
  ASSUME NEW b, Ring(b), NEW t \in Texts, NEW w, w = Written(b, t)
  PROVE  /\ Ring(w) /\ w.total = b.total + 1
         /\ Gone(w) >= Gone(b) /\ Gone(w) <= b.total
         /\ At(w, b.total) = t
         /\ \A p \in Nat : Gone(w) <= p /\ p < b.total => At(w, p) = At(b, p)
<1> DEFINE all == Append(b.data, t)
<1>1. /\ Len(b.data) \in Nat /\ b.data \in Seq(Texts) /\ b.total \in Nat
      /\ Gone(b) = (IF b.total <= Size THEN 0 ELSE b.total - Size)
      /\ Len(b.data) = b.total - Gone(b) /\ Gone(b) \in Nat
  BY GoneIs
<1>2. /\ all \in Seq(Texts) /\ all # <<>> /\ Len(all) = Len(b.data) + 1
      /\ \A i \in 1..Len(b.data) : all[i] = b.data[i]
      /\ all[Len(b.data) + 1] = t
  BY <1>1, AppendProperties
<1>3. /\ w.data = (IF Len(all) > Size THEN Tail(all) ELSE all)
      /\ w.total = b.total + 1 /\ w.truncated = (b.truncated \/ Len(all) > Size)
      /\ w = [data |-> w.data, total |-> w.total, truncated |-> w.truncated]
  BY DEF Written
<1>4. /\ Tail(all) \in Seq(Texts) /\ Len(Tail(all)) = Len(all) - 1
      /\ \A i \in 1..(Len(all) - 1) : Tail(all)[i] = all[i + 1]
  BY <1>2, HeadTailProperties
<1> HIDE DEF all
<1>5. b.truncated = (b.total > Size) /\ Len(b.data) = IF b.total <= Size THEN b.total ELSE Size
  BY DEF Ring
<1>6. w.data \in Seq(Texts) /\ Len(w.data) = IF w.total <= Size THEN w.total ELSE Size
  BY <1>1, <1>2, <1>3, <1>4, <1>5, SizeIs
<1>7. w.truncated = (w.total > Size)
  <2>1. Len(all) > Size <=> b.total + 1 > Size
    BY <1>1, <1>2, <1>5, SizeIs
  <2>2. b.total > Size => b.total + 1 > Size
    BY <1>1, SizeIs
  <2>3. CASE w.total > Size
    <3>1. Len(all) > Size
      BY <1>3, <2>1, <2>3
    <3> QED BY <1>3, <2>3, <3>1
  <2>4. CASE ~(w.total > Size)
    <3>1. ~(Len(all) > Size) /\ ~b.truncated
      BY <1>3, <1>5, <2>1, <2>2, <2>4
    <3> QED BY <1>3, <2>4, <3>1
  <2> QED BY <2>3, <2>4
<1>8. Ring(w)
  <2>1. w.truncated \in BOOLEAN /\ w.total \in Nat
    BY <1>1, <1>3, <1>7
  <2>2. w \in Buffers
    BY <1>3, <1>6, <2>1 DEF Buffers
  <2> QED BY <1>6, <1>7, <2>2 DEF Ring
<1>9. Gone(w) = (IF w.total <= Size THEN 0 ELSE w.total - Size)
  BY <1>8, GoneIs
<1>10. Gone(w) >= Gone(b) /\ Gone(w) <= b.total /\ Gone(w) \in Nat
  BY <1>1, <1>3, <1>9, SizeIs
<1>11. CASE Len(all) > Size
  <2>1. Gone(w) = Gone(b) + 1 /\ w.data = Tail(all) /\ Len(b.data) = Size
    BY <1>1, <1>2, <1>3, <1>5, <1>9, <1>11, SizeIs
  <2>2. ASSUME NEW p \in Nat, Gone(w) <= p, p <= b.total
        PROVE  At(w, p) = all[p - Gone(b) + 1]
    <3>0. Gone(b) + 1 <= p /\ b.total - Gone(b) = Len(all) - 1 /\ Gone(w) = Gone(b) + 1
      BY <1>1, <1>2, <2>1, <2>2
    <3>1. p - Gone(w) + 1 \in 1..(Len(all) - 1) /\ (p - Gone(w) + 1) + 1 = p - Gone(b) + 1
      BY <1>1, <2>2, <3>0, Shifted
    <3> QED BY <1>4, <2>1, <3>1 DEF At
  <2>3. At(w, b.total) = t
    <3>1. b.total - Gone(b) + 1 = Len(b.data) + 1 /\ b.total \in Nat /\ b.total <= b.total
      BY <1>1
    <3>2. At(w, b.total) = all[b.total - Gone(b) + 1]
      BY <1>10, <2>2, <3>1
    <3> QED BY <1>2, <3>1, <3>2
  <2>4. ASSUME NEW p \in Nat, Gone(w) <= p, p < b.total
        PROVE  At(w, p) = At(b, p)
    <3>0. Gone(b) + 1 <= p /\ b.total - Gone(b) = Len(b.data)
      BY <1>1, <2>1, <2>4
    <3>1. p - Gone(b) + 1 \in 1..Len(b.data)
      BY <1>1, <2>4, <3>0, Shifted
    <3>2. At(w, p) = all[p - Gone(b) + 1]
      BY <1>1, <2>2, <2>4
    <3> QED BY <1>2, <3>1, <3>2 DEF At
  <2> QED BY <1>3, <1>8, <1>10, <2>3, <2>4
<1>12. CASE ~(Len(all) > Size)
  <2>1. Gone(w) = Gone(b) /\ w.data = all /\ Gone(b) = 0 /\ Len(b.data) = b.total
    BY <1>1, <1>2, <1>3, <1>5, <1>9, <1>12, SizeIs
  <2>2. At(w, b.total) = t
    BY <1>1, <1>2, <2>1 DEF At
  <2>3. ASSUME NEW p \in Nat, Gone(w) <= p, p < b.total
        PROVE  At(w, p) = At(b, p)
    <3>1. p - Gone(b) + 1 \in 1..Len(b.data)
      BY <1>1, <2>1, <2>3
    <3> QED BY <1>2, <2>1, <3>1 DEF At
  <2> QED BY <1>3, <1>8, <1>10, <2>2, <2>3
<1> QED BY <1>11, <1>12

LEMMA RangeIs ==
  ASSUME NEW t \in Seq(Texts)
  PROVE  Range(t) = {t[i] : i \in 1..Len(t)} /\ Len(t) \in Nat
BY RangeEquality, LenProperties

\* A text is what is left, from an offset on, of a sequence whose first texts are gone.
Shows(q, gone, total, o, text) ==
  /\ text \in Seq(Texts)
  /\ \A x \in Range(text) : \E p \in o..(total - 1) : p >= gone /\ x = q[p - gone + 1]
  /\ \A p \in o..(total - 1) : p >= gone => q[p - gone + 1] \in Range(text)
  /\ o <= gone => Len(text) = Len(q)

LEMMA PartIs ==
  ASSUME NEW q \in Seq(Texts), NEW gone \in Nat, NEW total \in Nat, total = gone + Len(q),
         NEW o \in Nat, o <= total,
         NEW text, text = SubSeq(q, IF o > gone THEN o - gone + 1 ELSE 1, Len(q))
  PROVE  Shows(q, gone, total, o, text)
<1>0. PICK len \in Nat, first \in Nat :
        /\ len = Len(q) /\ total = gone + len /\ text = SubSeq(q, first, len)
        /\ first = (IF o > gone THEN o - gone + 1 ELSE 1)
  <2>1. Len(q) \in Nat
    BY LenProperties
  <2>2. (IF o > gone THEN o - gone + 1 ELSE 1) \in Nat
    OBVIOUS
  <2> QED BY <2>1, <2>2
<1>1. first >= 1 /\ (o <= gone => first = 1) /\ (o > gone => first = o - gone + 1)
  BY <1>0
<1>2. \A i \in first..len : q[i] \in Texts
  BY <1>0, <1>1, ElementOfSeq
<1>3. /\ text \in Seq(Texts) /\ Len(text) = (IF first <= len THEN len - first + 1 ELSE 0)
      /\ \A i \in 1..(len - first + 1) : text[i] = q[first + i - 1]
  BY <1>0, <1>2, SubSeqProperties
<1>4. Range(text) = {text[i] : i \in 1..Len(text)}
  <2>1. text \in Seq(Texts)
    BY <1>3
  <2> QED BY <2>1, RangeIs
<1>5. ASSUME NEW x \in Range(text)
      PROVE  \E p \in o..(total - 1) : p >= gone /\ x = q[p - gone + 1]
  <2>1. PICK i \in 1..Len(text) : x = text[i]
    BY <1>4
  <2>2. first <= len /\ i \in 1..(len - first + 1)
    BY <1>3
  <2>3. x = q[first + i - 1]
    BY <1>3, <2>1, <2>2
  <2>4. /\ gone + first + i - 2 \in o..(total - 1) /\ gone + first + i - 2 >= gone
        /\ (gone + first + i - 2) - gone + 1 = first + i - 1
    BY <1>0, <1>1, <2>2
  <2> QED BY <2>3, <2>4
<1>6. ASSUME NEW p \in o..(total - 1), p >= gone
      PROVE  q[p - gone + 1] \in Range(text)
  <2>1. PICK i \in Int : i = p - gone + 1 - first + 1
    OBVIOUS
  <2>2. i \in 1..(len - first + 1) /\ first + i - 1 = p - gone + 1 /\ first <= len
    BY <1>0, <1>1, <1>6, <2>1
  <2>3. i \in 1..Len(text) /\ text[i] = q[p - gone + 1]
    BY <1>3, <2>2
  <2> QED BY <1>4, <2>3
<1>7. o <= gone => Len(text) = Len(q)
  BY <1>0, <1>1, <1>3
<1> QED BY <1>3, <1>5, <1>6, <1>7 DEF Shows

\* What is shown from an offset on is what the buffer still has of it.
LEMMA StringFromIs ==
  ASSUME NEW b, Ring(b), NEW o \in Nat, o <= b.total, NEW text, text = StringFrom(b, o)
  PROVE  /\ text \in Seq(Texts)
         /\ \A x \in Range(text) : \E p \in o..(b.total - 1) : p >= Gone(b) /\ x = At(b, p)
         /\ \A p \in o..(b.total - 1) :
              p >= Gone(b) => At(b, p) \in Range(text)
         /\ o < Gone(b) => Len(text) = Size
<1>0. Gone(b) = (IF b.total <= Size THEN 0 ELSE b.total - Size)
  BY GoneIs
<1>1. /\ Len(b.data) \in Nat /\ b.data \in Seq(Texts) /\ b.total \in Nat /\ Gone(b) \in Nat
      /\ Gone(b) + Len(b.data) = b.total
  BY GoneIs
<1>2. text = SubSeq(b.data, IF o > Gone(b) THEN o - Gone(b) + 1 ELSE 1, Len(b.data))
  BY DEF StringFrom, Gone
<1>5. Shows(b.data, Gone(b), b.total, o, text)
  BY <1>1, <1>2, PartIs
<1>6. o < Gone(b) => Len(b.data) = Size
  BY <1>0, <1>1, SizeIs
<1> QED BY <1>1, <1>5, <1>6 DEF Shows, At

-----------------------------------------------------------------------------
(* The invariant.                                                            *)

Types ==
  /\ known \in BOOLEAN /\ closed \in BOOLEAN
  /\ made \in 0..MaxRuns /\ current \in 0..made
  /\ done \in [Runs -> SUBSET Streams] /\ exit \in [Runs -> Runs \cup {0, OfShell}]
  /\ start \in [Runs -> [Streams -> Nat]] /\ buffer \in [Streams -> Buffers]
  /\ reader \in [Streams -> {"read", "write", "dead"}] /\ late \in [Streams -> 0..made]
  /\ shell \in {"up", "dead"} /\ phase \in {"idle", "executes", "status"}
  /\ stdin \in 0..made /\ doing \in 0..made
  /\ pipe \in [Streams -> Seq(Texts)]
  /\ pc \in [Callers -> {"idle", "run", "status", "kill", "wait", "term", "killing"}]
  /\ run \in [Callers -> 0..made]
  /\ printed \in [Runs -> SUBSET (Streams \X Kinds)]
  /\ answer \in [Runs -> Answers]
  /\ jobs \subseteq MayLeave /\ \A r \in jobs : r <= made

\* A command the shell was given: the others found it dead, or raised.
Live(r)     == r \in 1..made /\ r \notin unfit /\ answer[r].status # "killed"
LastLive(q) == \A r \in Runs : Live(r) => r <= q

BufferInv ==
  \A s \in Streams :
    /\ Ring(buffer[s])
    /\ \A r \in Runs : start[r][s] <= buffer[s].total
    /\ reader[s] = "write" <=> late[s] # 0

\* What is in the shell's hands is the command in progress.
ShellInv ==
  /\ shell = "dead" => doing = 0 /\ stdin = 0
  /\ doing = 0 <=> phase = "idle"
  /\ stdin # 0 => stdin = current /\ doing = 0
  /\ doing # 0 => doing = current
  /\ current # 0 => /\ done[current] # Streams /\ current = made
                    /\ current \in unfit \/ Live(current)
  /\ \A r \in Runs : r > made => done[r] = {} /\ printed[r] = {} /\ answer[r] = Nothing

Runners == {c \in Callers : pc[c] = "run"}
CallerInv ==
  /\ \A c \in Callers : pc[c] = "wait" => Live(run[c])
  /\ made + Cardinality(Runners) <= MaxRuns

\* Nothing more of the command in progress comes down this stream.
Passed(s) == stdin = 0 /\ (doing = 0 \/ (s = "err" /\ phase = "status"))
\* Nothing but lines of background jobs is in this pipe.
Clear(s) == \A i \in 1..Len(pipe[s]) : pipe[s][i].kind = "job"
\* In a pipe is, but for those lines, what one command printed, its sentinel
\* last, and while one is in progress it is that one.
PipeOf(s) ==
  /\ \A i \in 1..Len(pipe[s]) :
       /\ pipe[s][i].run <= made
       /\ pipe[s][i].kind # "job" =>
            LastLive(pipe[s][i].run) /\ (current # 0 => pipe[s][i].run = current)
       /\ pipe[s][i].kind = "done" =>
            Passed(s) /\ \A j \in (i + 1)..Len(pipe[s]) : pipe[s][j].kind = "job"
  /\ current = 0 /\ ~closed => Clear(s) /\ (shell = "up" => late[s] \in {0, made})
  /\ current # 0 /\ s \in done[current] =>
       Clear(s) /\ Passed(s) /\ late[s] \in {0, current}
  /\ late[s] # 0 => LastLive(late[s] + 1)
PipeInv == \A s \in Streams : PipeOf(s)

\* A line is in the pipe until it is in the buffer, behind the offset its
\* command starts at.
Piped(r, s) == \E i \in 1..Len(pipe[s]) : pipe[s][i] = Text(r, "line")
Kept(r, s) ==
  \E p \in start[r][s]..(buffer[s].total - 1) :
    p >= Gone(buffer[s]) => At(buffer[s], p) = Text(r, "line")
LineOf(r, s) ==
  /\ <<s, "line">> \in printed[r] => Piped(r, s) \/ Kept(r, s)
  /\ s \in done[r] /\ exit[r] # OfShell => 
       \A i \in 1..Len(pipe[s]) : pipe[s][i].kind # "job" => pipe[s][i].run # r
  /\ "out" \in done[r] => exit[r] \in {r, OfShell}
LineInv == \A r \in Runs, s \in Streams : LineOf(r, s)

\* What a command may find of the commands before it.
Leftover(r, t) == t = Text(r - 1, "tail") \/ t.kind = "job"

\* Behind that offset is nothing else of the commands before.
TextOf(r, s) ==
  \A p \in start[r][s]..(buffer[s].total - 1) :
    p >= Gone(buffer[s]) /\ At(buffer[s], p).run < r => Leftover(r, At(buffer[s], p))
TextInv == \A r \in Runs, s \in Streams : Live(r) => TextOf(r, s)

OwnLine(r, s) ==
  /\ answer[r].status = "completed" => answer[r].exit \in {r, OfShell}
  /\ answer[r].status = "completed" /\ answer[r].exit = r /\ <<s, "line">> \in printed[r]
       => Text(r, "line") \in Range(answer[r].text[s]) \/ Len(answer[r].text[s]) = Size
  /\ \A text \in Range(answer[r].text[s]) : text.run < r => Leftover(r, text)
AnswerOf(r) ==
  /\ \A s \in Streams : OwnLine(r, s)
  /\ answer[r].status = "completed" /\ answer[r].exit = r =>
       done[r] = Streams /\ exit[r] # OfShell
AnswerInv == \A r \in Runs : AnswerOf(r)

BashInv ==
  /\ Types /\ BufferInv /\ ShellInv /\ CallerInv
  /\ PipeInv /\ LineInv /\ TextInv /\ AnswerInv

LEMMA EmptyRange == Range(<<>>) = {}
<1> DEFINE none == <<>>
<1>1. none \in Seq(Texts) /\ Len(none) = 0
  OBVIOUS
<1> HIDE DEF none
<1>2. Range(none) = {none[i] : i \in 1..Len(none)}
  BY <1>1, RangeIs
<1>3. Range(none) = {}
  BY <1>1, <1>2
<1> QED BY <1>3 DEF none

LEMMA NothingIs ==
  ASSUME NEW code \in {"none", "killed"}, NEW a,
         a = [status |-> code, exit |-> 0, text |-> [s \in Streams |-> <<>>], cut |-> FALSE]
  PROVE  /\ a \in Answers /\ a.status = code
         /\ \A s \in Streams : a.text[s] = <<>> /\ Range(a.text[s]) = {}
<1>1. <<>> \in Seq(Texts)
  OBVIOUS
<1>3. [s \in Streams |-> <<>>] \in [Streams -> Seq(Texts)]
  BY <1>1
<1> DEFINE texts == [s \in Streams |-> <<>>]
<1>4. \A s \in Streams : texts[s] = <<>>
  OBVIOUS
<1>5. texts \in [Streams -> Seq(Texts)]
  BY <1>3
<1> HIDE DEF texts
<1>6. /\ a = [status |-> a.status, exit |-> a.exit, text |-> a.text, cut |-> a.cut]
      /\ a.status = code /\ a.text = texts /\ a.exit = 0
  BY DEF texts
<1>7. a.cut \in BOOLEAN
  OBVIOUS
<1>8. a \in Answers
  BY <1>5, <1>6, <1>7 DEF Answers
<1> QED BY <1>4, <1>6, <1>8, EmptyRange

LEMMA NothingItself ==
  /\ Nothing \in Answers /\ Nothing.status = "none"
  /\ \A s \in Streams : Nothing.text[s] = <<>> /\ Range(Nothing.text[s]) = {}
<1> QED BY NothingIs DEF Nothing

LEMMA InitInv == Init => BashInv
<1> SUFFICES ASSUME Init PROVE BashInv
  OBVIOUS
<1>0. <<>> \in Seq(Texts) /\ Len(<<>>) = 0
  OBVIOUS
<1>1. made = 0 /\ current = 0 /\ stdin = 0 /\ doing = 0 /\ phase = "idle" /\ shell = "up"
  BY DEF Init
<1>2. \A s \in Streams :
        /\ buffer[s] = [data |-> <<>>, total |-> 0, truncated |-> FALSE]
        /\ pipe[s] = <<>> /\ late[s] = 0 /\ reader[s] = "read"
  BY DEF Init
<1>3. \A r \in Runs :
        done[r] = {} /\ printed[r] = {} /\ answer[r] = Nothing /\ exit[r] = 0
        /\ \A s \in Streams : start[r][s] = 0
  BY DEF Init
<1>4. Types
  <2>1. made \in 0..MaxRuns /\ current \in 0..made /\ stdin \in 0..made /\ doing \in 0..made
    BY <1>1, SizeIs
  <2>2. buffer \in [Streams -> Buffers]
    BY <1>0 DEF Init, Buffers
  <2>3. answer \in [Runs -> Answers]
    BY NothingItself DEF Init
  <2>4. start \in [Runs -> [Streams -> Nat]]
    BY DEF Init
  <2>5. pipe \in [Streams -> Seq(Texts)]
    BY <1>0 DEF Init
  <2>6. done \in [Runs -> SUBSET Streams] /\ exit \in [Runs -> Runs \cup {0, OfShell}]
    BY DEF Init
  <2>7. /\ reader \in [Streams -> {"read", "write", "dead"}]
        /\ late \in [Streams -> 0..made]
    BY <1>1 DEF Init
  <2>8. /\ pc \in [Callers -> {"idle", "run", "status", "kill", "wait", "term", "killing"}]
        /\ run \in [Callers -> 0..made]
        /\ printed \in [Runs -> SUBSET (Streams \X Kinds)]
    BY <1>1 DEF Init
  <2>9. known \in BOOLEAN /\ closed \in BOOLEAN /\ jobs = {}
    BY DEF Init
  <2> QED BY <1>1, <2>1, <2>2, <2>3, <2>4, <2>5, <2>6, <2>7, <2>8, <2>9 DEF Types
<1>5. BufferInv
  <2>1. ASSUME NEW s \in Streams
        PROVE  /\ Ring(buffer[s])
               /\ \A r \in Runs : start[r][s] <= buffer[s].total
               /\ reader[s] = "write" <=> late[s] # 0
    <3>1. buffer[s].data = <<>> /\ buffer[s].total = 0 /\ buffer[s].truncated = FALSE
      BY <1>2
    <3>2. buffer[s] \in Buffers
      BY <1>4 DEF Types
    <3>5. ~(buffer[s].total > Size) /\ buffer[s].total <= Size
      BY <3>1, SizeIs
    <3>6. Len(buffer[s].data) = buffer[s].total
      BY <1>0, <3>1
    <3>8. FALSE = (0 > Size)
      BY SizeIs
    <3>9. buffer[s].truncated = (0 > Size)
      BY <3>1, <3>8, Zenon
    <3>7. buffer[s].truncated = (buffer[s].total > Size)
      BY <3>1, <3>9, Zenon
    <3>3. Ring(buffer[s])
      BY <3>2, <3>5, <3>6, <3>7 DEF Ring
    <3>4. \A r \in Runs : start[r][s] <= buffer[s].total
      BY <1>3, <3>1
    <3> QED BY <1>2, <3>3, <3>4
  <2> QED BY <2>1 DEF BufferInv
<1>6. ShellInv
  BY <1>1, <1>3 DEF ShellInv
<1>7. CallerInv
  <2>1. Runners = {}
    BY DEF Init, Runners
  <2>2. Cardinality(Runners) = 0
    BY <2>1, FS_EmptySet
  <2>3. \A c \in Callers : pc[c] = "idle"
    BY DEF Init
  <2> QED BY <1>1, <2>2, <2>3, SizeIs DEF CallerInv
<1>8. PipeInv
  BY <1>0, <1>1, <1>2 DEF PipeInv, PipeOf, Clear
<1>9. LineInv
  BY <1>0, <1>2, <1>3 DEF LineInv, LineOf
<1>10. TextInv
  BY <1>1 DEF TextInv, Live
<1>11. AnswerInv
  BY <1>3, NothingItself DEF AnswerInv, AnswerOf, OwnLine
<1> QED BY <1>4, <1>5, <1>6, <1>7, <1>8, <1>9, <1>10, <1>11 DEF BashInv

-----------------------------------------------------------------------------
(* What a step leaves alone keeps its part of the invariant.                 *)

\* The commands the shell was given are the same ones.
SameLive ==
  made' = made /\ unfit' = unfit /\ \A r \in Runs : answer'[r].status = "killed" <=> answer[r].status = "killed"

LEMMA RunsAre ==
  ASSUME Types
  PROVE  /\ made \in Nat /\ made <= MaxRuns
         /\ \A r \in 1..made : r \in Runs
         /\ \A r \in Runs : r \in Nat /\ r >= 1 /\ r <= MaxRuns
BY SizeIs DEF Types, Runs

LEMMA LiveStays ==
  ASSUME Types, SameLive
  PROVE  /\ \A r : Live(r)' <=> Live(r)
         /\ \A q : LastLive(q)' <=> LastLive(q)
<1>1. ASSUME NEW r
      PROVE  Live(r)' <=> Live(r)
  BY RunsAre DEF SameLive, Live
<1>2. ASSUME NEW q
      PROVE  LastLive(q)' <=> LastLive(q)
  BY <1>1 DEF LastLive
<1> QED BY <1>1, <1>2

LEMMA BufferStays == BufferInv /\ UNCHANGED <<readerVars, start>> => BufferInv'
BY DEF BufferInv, Ring, readerVars

LEMMA ShellStays ==
  ASSUME Types, ShellInv, SameLive,
         UNCHANGED <<shell, stdin, doing, phase, printed, current, done>>,
         \A r \in Runs : r > made => answer'[r] = answer[r]
  PROVE  ShellInv'
BY LiveStays DEF ShellInv, SameLive

LEMMA PipeStays ==
  ASSUME Types, PipeInv, SameLive,
         UNCHANGED <<shell, stdin, doing, phase, pipe, late, current, done>>, closed => closed'
  PROVE  PipeInv'
<1>1. ASSUME NEW s \in Streams
      PROVE  PipeOf(s)'
  <2>1. PipeOf(s) /\ (Passed(s)' <=> Passed(s)) /\ (Clear(s)' <=> Clear(s))
    BY DEF PipeInv, Passed, Clear
  <2> QED BY <2>1, LiveStays DEF PipeOf, SameLive, LastLive
<1> QED BY <1>1 DEF PipeInv

LEMMA LineStays == LineInv /\ UNCHANGED <<printed, pipe, start, buffer, done, exit>> => LineInv'
<1> SUFFICES ASSUME LineInv, UNCHANGED <<printed, pipe, start, buffer, done, exit>> PROVE LineInv'
  OBVIOUS
<1>1. ASSUME NEW r \in Runs, NEW s \in Streams
      PROVE  LineOf(r, s)'
  <2>1. (Piped(r, s)' <=> Piped(r, s)) /\ (Kept(r, s)' <=> Kept(r, s))
    BY DEF Piped, Kept, Gone, At
  <2> QED BY <2>1 DEF LineInv, LineOf
<1> QED BY <1>1 DEF LineInv

LEMMA TextStays == ASSUME Types, TextInv, SameLive, UNCHANGED <<start, buffer>> PROVE TextInv'
BY LiveStays DEF TextInv, TextOf, Gone, At

LEMMA AnswerStays == AnswerInv /\ UNCHANGED <<answer, printed, done, exit>> => AnswerInv'
BY DEF AnswerInv, AnswerOf, OwnLine

LEMMA CallerStays == CallerInv /\ UNCHANGED <<pc, run, made, answer, unfit>> => CallerInv'
BY DEF CallerInv, Runners, Live

\* A step of a caller that gives no answer.
LEMMA CallerOnly ==
  ASSUME BashInv, Types', CallerInv', closed => closed',
         UNCHANGED <<commandVars, start, readerVars, shellVars, pipe, made, answer, jobs, unfit>>
  PROVE  BashInv'
<1>1. SameLive
  BY DEF SameLive
<1>2. /\ UNCHANGED <<current, done, exit, start, reader, late, buffer>>
      /\ UNCHANGED <<shell, stdin, doing, phase, printed, pipe, made, answer, jobs, unfit>>
  BY DEF commandVars, readerVars, shellVars
<1> QED BY <1>1, <1>2, BufferStays, ShellStays, PipeStays, LineStays, TextStays, AnswerStays
        DEF BashInv, readerVars

-----------------------------------------------------------------------------
(* The callers.                                                              *)

LEMMA RunnersAre == IsFiniteSet(Runners) /\ Cardinality(Runners) \in Nat
<1>1. Runners \subseteq Callers
  BY DEF Runners
<1> QED BY <1>1, SizeIs, FS_Subset, FS_CardinalityType

\* Whoever goes anywhere but to run leaves no more of them.
LEMMA Leaves ==
  ASSUME Types, NEW c \in Callers, NEW p, p # "run", Goto(c, p)
  PROVE  /\ Runners' = Runners \ {c}
         /\ Cardinality(Runners') <= Cardinality(Runners) /\ Cardinality(Runners') \in Nat
<1>1. Runners' = Runners \ {c}
  BY DEF Types, Goto, Runners
<1>2. Runners' \subseteq Runners
  BY <1>1
<1> QED BY <1>1, <1>2, RunnersAre, FS_Subset, FS_CardinalityType

LEMMA LeavesRun ==
  ASSUME Types, NEW c \in Callers, NEW p, p # "run", Goto(c, p), pc[c] = "run"
  PROVE  Cardinality(Runners') = Cardinality(Runners) - 1
<1>1. c \in Runners
  BY DEF Runners
<1> QED BY <1>1, Leaves, RunnersAre, FS_RemoveElement

LEMMA Arrives ==
  ASSUME Types, NEW c \in Callers, NEW p, Goto(c, p)
  PROVE  Cardinality(Runners') <= Cardinality(Runners) + 1 /\ Cardinality(Runners') \in Nat
<1>1. Runners' \subseteq Runners \cup {c}
  BY DEF Types, Goto, Runners
<1>2. /\ IsFiniteSet(Runners \cup {c})
      /\ Cardinality(Runners \cup {c}) = Cardinality(Runners) \/ Cardinality(Runners \cup {c}) = Cardinality(Runners) + 1
  BY RunnersAre, FS_AddElement
<1>3. Cardinality(Runners') <= Cardinality(Runners \cup {c}) /\ IsFiniteSet(Runners')
  BY <1>1, <1>2, FS_Subset
<1> QED BY <1>2, <1>3, RunnersAre, FS_CardinalityType

LEMMA LookupInv == ASSUME BashInv, NEW c \in Callers, Lookup(c) PROVE BashInv'
<1>1. UNCHANGED <<known, closed, commandVars, start, shellVars, run, made, answer, jobs, unfit>>
  BY DEF Lookup, Quiet, given, shellVars
<1>2. UNCHANGED <<readerVars, pipe>>
  BY DEF Lookup, Quiet, given
<1>3. PICK op \in {"run", "status", "kill"} :
        /\ op = "run" => made + Cardinality(Runners) < MaxRuns
        /\ Goto(c, op)
  BY DEF Lookup, Runners
<1>4. Types'
  BY <1>1, <1>2, <1>3 DEF BashInv, Types, Goto, commandVars, shellVars, readerVars
<1>5. made + Cardinality(Runners') <= MaxRuns
  <2>1. made \in Nat /\ MaxRuns \in Nat /\ Cardinality(Runners) \in Nat
    BY RunsAre, RunnersAre, SizeIs DEF BashInv
  <2>2. CASE op = "run"
    BY <1>3, <2>1, <2>2, Arrives DEF BashInv
  <2>3. CASE op # "run"
    BY <1>3, <2>1, <2>3, Leaves DEF BashInv, CallerInv
  <2> QED BY <2>2, <2>3
<1>6. CallerInv'
  <2>1. \A d \in Callers : pc'[d] = "wait" => pc[d] = pc'[d]
    BY <1>3 DEF BashInv, Types, Goto
  <2>2. \A r : Live(r)' <=> Live(r)
    BY <1>1 DEF Live
  <2> QED BY <1>1, <1>5, <2>1, <2>2 DEF BashInv, CallerInv
<1> QED BY <1>1, <1>2, <1>4, <1>6, CallerOnly

\* What a return does to the callers.
LEMMA Returns ==
  ASSUME BashInv, NEW c \in Callers, NEW r, NEW a, Answer(c, r, a), SameLive
  PROVE  /\ CallerInv'
         /\ pc' \in [Callers -> {"idle", "run", "status", "kill", "wait", "term", "killing"}]
         /\ run' \in [Callers -> 0..made']
<1>1. Goto(c, "idle") /\ run' = [run EXCEPT ![c] = 0] /\ made' = made
  BY DEF Answer, SameLive
<1>2. made + Cardinality(Runners') <= MaxRuns
  BY <1>1, Leaves, RunsAre, RunnersAre, SizeIs DEF BashInv, CallerInv
<1>3. \A d \in Callers : pc'[d] = "wait" => pc[d] = pc'[d] /\ run'[d] = run[d]
  BY <1>1 DEF BashInv, Types, Goto
<1>4. CallerInv'
  BY <1>1, <1>2, <1>3, LiveStays DEF BashInv, CallerInv
<1> QED BY <1>1, <1>4 DEF BashInv, Types, Goto

\* A return that answers no command.
LEMMA ReturnInv ==
  ASSUME BashInv, NEW c \in Callers, Answer(c, 0, Nothing), closed' \in BOOLEAN,
         closed => closed',
         UNCHANGED <<known, commandVars, start, readerVars, shellVars, pipe, made, jobs, unfit>>
  PROVE  BashInv'
<1>1. answer' = answer
  BY DEF Answer
<1>2. SameLive
  BY <1>1 DEF SameLive
<1>3. Types'
  BY <1>1, <1>2, Returns DEF BashInv, Types, commandVars, shellVars, readerVars
<1> QED BY <1>1, <1>2, <1>3, Returns, CallerOnly

LEMMA StatusInv == ASSUME BashInv, NEW c \in Callers, Status(c) PROVE BashInv'
BY ReturnInv DEF Status, Quiet, given, BashInv, Types, shellVars

LEMMA KilledInv == ASSUME BashInv, NEW c \in Callers, Killed(c) PROVE BashInv'
BY ReturnInv DEF Killed, Quiet, given, shellVars

LEMMA KillInv == ASSUME BashInv, NEW c \in Callers, Kill(c) PROVE BashInv'
<1>1. CASE current = 0
  BY <1>1, ReturnInv DEF Kill, Quiet, given, BashInv, Types, shellVars
<1>2. CASE current # 0
  <2>1. /\ UNCHANGED <<known, closed, commandVars, start, readerVars, shellVars, pipe, made, answer, jobs, unfit>>
        /\ run' = [run EXCEPT ![c] = current] /\ Goto(c, "term")
    BY <1>2 DEF Kill, Quiet, given, shellVars
  <2>2. Types'
    BY <2>1 DEF BashInv, Types, Goto, commandVars, shellVars, readerVars
  <2>3. made + Cardinality(Runners') <= MaxRuns
    BY <2>1, Leaves, RunsAre, RunnersAre, SizeIs DEF BashInv, CallerInv
  <2>5. \A d \in Callers : pc'[d] = "wait" => pc[d] = pc'[d] /\ run'[d] = run[d]
    BY <2>1 DEF BashInv, Types, Goto
  <2>6. \A r : Live(r)' <=> Live(r)
    BY <2>1 DEF Live
  <2>7. CallerInv'
    BY <2>1, <2>3, <2>5, <2>6 DEF BashInv, CallerInv
  <2> QED BY <2>1, <2>2, <2>7, CallerOnly
<1> QED BY <1>1, <1>2

\* What the buffers show of a command the shell was given.
LEMMA SnapshotIs ==
  ASSUME BashInv, NEW r \in Runs, Live(r), NEW status \in {"running", "completed"},
         NEW code \in Runs \cup {0, OfShell}, NEW a, a = Snapshot(status, code, r)
  PROVE  /\ a \in Answers /\ a.status = status /\ a.exit = code
         /\ \A s \in Streams :
              /\ \A x \in Range(a.text[s]) : x.run < r => Leftover(r, x)
              /\ Kept(r, s) => Text(r, "line") \in Range(a.text[s]) \/ Len(a.text[s]) = Size
<1> DEFINE texts == [s \in Streams |-> StringFrom(buffer[s], start[r][s])]
<1>1. /\ a = [status |-> a.status, exit |-> a.exit, text |-> a.text, cut |-> a.cut]
      /\ a.status = status /\ a.exit = code /\ a.text = texts
  BY DEF Snapshot
<1>2. a.cut \in BOOLEAN
  BY DEF Snapshot
<1>3. ASSUME NEW s \in Streams
      PROVE  /\ texts[s] \in Seq(Texts)
             /\ \A x \in Range(texts[s]) : x.run < r => Leftover(r, x)
             /\ Kept(r, s) => Text(r, "line") \in Range(texts[s]) \/ Len(texts[s]) = Size
  <2> DEFINE b == buffer[s]
             o == start[r][s]
  <2>1. Ring(b) /\ o \in Nat /\ o <= b.total /\ texts[s] = StringFrom(b, o)
    BY DEF BashInv, Types, BufferInv
  <2>2. TextOf(r, s)
    BY DEF BashInv, TextInv
  <2> DEFINE text == texts[s]
  <2>3. \A x \in Range(text) : \E p \in o..(b.total - 1) : p >= Gone(b) /\ x = At(b, p)
    BY <2>1, StringFromIs
  <2>4. \A p \in o..(b.total - 1) : p >= Gone(b) => At(b, p) \in Range(text)
    BY <2>1, StringFromIs
  <2>5. text \in Seq(Texts) /\ (o < Gone(b) => Len(text) = Size)
    BY <2>1, StringFromIs
  <2>6. b.total \in Nat /\ Gone(b) \in Nat
    BY <2>1, GoneIs
  <2>7. ASSUME NEW x \in Range(text), x.run < r
        PROVE  Leftover(r, x)
    BY <2>2, <2>3, <2>7 DEF TextOf
  <2>8. ASSUME Kept(r, s)
        PROVE  Text(r, "line") \in Range(text) \/ Len(text) = Size
    <3>1. PICK p \in o..(b.total - 1) : p >= Gone(b) => At(b, p) = Text(r, "line")
      BY <2>8 DEF Kept
    <3>2. p \in Int /\ o <= p
      BY <2>1, <2>6
    <3>3. CASE p >= Gone(b)
      BY <2>4, <3>1, <3>3
    <3>4. CASE ~(p >= Gone(b))
      BY <2>1, <2>5, <2>6, <3>2, <3>4
    <3> QED BY <3>3, <3>4
  <2> QED BY <2>5, <2>7, <2>8
<1>4. texts \in [Streams -> Seq(Texts)]
  BY <1>3
<1> HIDE DEF texts
<1>5. a \in Answers
  BY <1>1, <1>2, <1>4 DEF Answers
<1> QED BY <1>1, <1>3, <1>5

\* A return that answers a command the shell was given.
LEMMA AnsweredInv ==
  ASSUME BashInv, NEW c \in Callers, pc[c] = "wait", NEW r, r = run[c], NEW a, Answer(c, r, a),
         UNCHANGED <<known, closed, commandVars, start, readerVars, shellVars, pipe, made, jobs, unfit>>,
         a \in Answers, a.status # "killed", AnswerOf(r)'
  PROVE  BashInv'
<1>0. Live(r) /\ r \in Runs /\ r \in 1..made
  BY RunsAre DEF BashInv, CallerInv, Live
<1>1. answer' = [answer EXCEPT ![r] = a]
  BY <1>0 DEF Answer
<1>2. \A q \in Runs : answer'[q] = IF q = r THEN a ELSE answer[q]
  BY <1>1 DEF BashInv, Types
<1>3. SameLive
  BY <1>0, <1>2 DEF SameLive, Live
<1>4. /\ UNCHANGED <<current, done, exit, start, reader, late, buffer>>
      /\ UNCHANGED <<shell, stdin, doing, phase, printed, pipe, made>>
  BY DEF commandVars, readerVars, shellVars
<1>5. answer' \in [Runs -> Answers]
  BY <1>0, <1>1 DEF BashInv, Types
<1>6. Types'
  BY <1>3, <1>4, <1>5, Returns DEF BashInv, Types
<1>7. AnswerInv'
  <2>1. ASSUME NEW q \in Runs, q # r
        PROVE  AnswerOf(q)'
    <3>1. answer'[q] = answer[q]
      BY <1>2, <2>1
    <3> QED BY <1>4, <3>1 DEF BashInv, AnswerInv, AnswerOf, OwnLine
  <2> QED BY <2>1 DEF AnswerInv
<1>8. \A q \in Runs : q > made => answer'[q] = answer[q]
  BY <1>0, <1>2, RunsAre DEF BashInv
<1> QED BY <1>3, <1>4, <1>6, <1>7, <1>8, Returns, BufferStays, ShellStays, PipeStays, LineStays,
           TextStays DEF BashInv, readerVars

LEMMA CompletedInv == ASSUME BashInv, NEW c \in Callers, Completed(c) PROVE BashInv'
<1>0. PICK r : r = run[c]
  OBVIOUS
<1>1. PICK a : a = Snapshot("completed", exit[r], r)
  OBVIOUS
<1>2. /\ pc[c] = "wait" /\ done[r] = Streams /\ Answer(c, r, a)
      /\ UNCHANGED <<known, closed, commandVars, start, readerVars, shellVars, pipe, made, jobs, unfit>>
  BY <1>0, <1>1 DEF Completed, Done, Quiet, given, shellVars
<1>3. Live(r) /\ r \in Runs /\ r # 0 /\ r # OfShell /\ exit[r] \in Runs \cup {0, OfShell}
  BY <1>0, <1>2, RunsAre DEF BashInv, CallerInv, Live, OfShell, Types
<1>4. /\ a \in Answers /\ a.status = "completed" /\ a.exit = exit[r]
      /\ \A s \in Streams :
           /\ \A x \in Range(a.text[s]) : x.run < r => Leftover(r, x)
           /\ Kept(r, s) => Text(r, "line") \in Range(a.text[s]) \/ Len(a.text[s]) = Size
  BY <1>1, <1>3, SnapshotIs
<1>5. answer'[r] = a
  BY <1>2, <1>3 DEF Answer, BashInv, Types
<1>6. exit[r] \in {r, OfShell}
  BY <1>2, <1>3 DEF Streams, BashInv, LineInv, LineOf
<1>7. ASSUME NEW s \in Streams
      PROVE  OwnLine(r, s)'
  <2>1. LineOf(r, s) /\ s \in done[r]
    BY <1>2, <1>3 DEF BashInv, LineInv
  <2>2. ASSUME exit[r] = r, <<s, "line">> \in printed[r]
        PROVE  Kept(r, s)
    <3>1. \A i \in 1..Len(pipe[s]) : pipe[s][i].kind # "job" => pipe[s][i].run # r
      BY <1>3, <2>1, <2>2 DEF LineOf
    <3>2. ~Piped(r, s)
      BY <3>1 DEF Piped, Text
    <3> QED BY <2>1, <2>2, <3>2 DEF LineOf
  <2>3. printed' = printed
    BY <1>2 DEF shellVars
  <2> QED BY <1>4, <1>5, <1>6, <2>2, <2>3 DEF OwnLine
<1>8. done' = done /\ exit' = exit
  BY <1>2 DEF commandVars
<1>9. AnswerOf(r)'
  BY <1>2, <1>3, <1>4, <1>5, <1>7, <1>8 DEF AnswerOf
<1> QED BY <1>0, <1>2, <1>4, <1>9, AnsweredInv

LEMMA TimeoutInv == ASSUME BashInv, NEW c \in Callers, Timeout(c) PROVE BashInv'
<1>0. PICK r : r = run[c]
  OBVIOUS
<1>1. PICK a : a = Snapshot("running", 0, r)
  OBVIOUS
<1>2. /\ pc[c] = "wait" /\ Answer(c, r, a)
      /\ UNCHANGED <<known, closed, commandVars, start, readerVars, shellVars, pipe, made, jobs, unfit>>
  BY <1>0, <1>1 DEF Timeout, Quiet, given, shellVars
<1>3. Live(r) /\ r \in Runs /\ r # 0
  BY <1>0, <1>2, RunsAre DEF BashInv, CallerInv, Live
<1>4. /\ a \in Answers /\ a.status = "running"
      /\ \A s \in Streams : \A x \in Range(a.text[s]) : x.run < r => Leftover(r, x)
  BY <1>1, <1>3, SnapshotIs
<1>5. answer'[r] = a
  BY <1>2, <1>3 DEF Answer, BashInv, Types
<1>6. AnswerOf(r)'
  BY <1>4, <1>5 DEF AnswerOf, OwnLine
<1> QED BY <1>0, <1>2, <1>4, <1>6, AnsweredInv

-----------------------------------------------------------------------------
(* A command is made.                                                        *)

\* What is made next.
LEMMA NextCommand ==
  ASSUME BashInv, NEW c \in Callers, pc[c] = "run"
  PROVE  made + 1 \in Runs /\ made + 1 <= MaxRuns /\ made \in Nat
<1>1. c \in Runners
  BY DEF Runners
<1>2. Cardinality(Runners) # 0
  BY <1>1, RunnersAre, FS_EmptySet
<1> QED BY <1>2, RunnersAre, RunsAre, SizeIs DEF BashInv, CallerInv, Runs

LEMMA StartsInv ==
  ASSUME BashInv, NEW c \in Callers, pc[c] = "run", NEW p, p # "run", Goto(c, p),
         made' = made + 1,
         start' = [start EXCEPT ![made'] = [s \in Streams |-> buffer[s].total]],
         UNCHANGED readerVars
  PROVE  /\ made' + Cardinality(Runners') <= MaxRuns
         /\ start' \in [Runs -> [Streams -> Nat]] /\ BufferInv'
         /\ \A r \in Runs, s \in Streams :
              start'[r][s] = IF r = made' THEN buffer[s].total ELSE start[r][s]
<1>1. made' \in Runs /\ made' <= MaxRuns /\ made \in Nat
  BY NextCommand
<1>2. made' + Cardinality(Runners') <= MaxRuns
  BY <1>1, LeavesRun, RunnersAre, SizeIs DEF BashInv, CallerInv
<1>3. \A s \in Streams : buffer[s].total \in Nat
  BY DEF BashInv, Types, Buffers
<1>4. start' \in [Runs -> [Streams -> Nat]]
  BY <1>1, <1>3 DEF BashInv, Types
<1>5. \A r \in Runs, s \in Streams :
        start'[r][s] = IF r = made' THEN buffer[s].total ELSE start[r][s]
  BY <1>1 DEF BashInv, Types
<1>6. BufferInv'
  <2>1. ASSUME NEW s \in Streams
        PROVE  /\ Ring(buffer[s])' /\ (reader[s] = "write" <=> late[s] # 0)'
               /\ \A r \in Runs : start'[r][s] <= buffer'[s].total
    <3>1. buffer' = buffer /\ reader' = reader /\ late' = late
      BY DEF readerVars
    <3> QED BY <1>3, <1>5, <3>1 DEF BashInv, BufferInv, Ring
  <2> QED BY <2>1 DEF BufferInv
<1> QED BY <1>2, <1>4, <1>5, <1>6

\* Nothing is in the buffers of the new command, and nothing printed or done.
LEMMA NewLines ==
  ASSUME BashInv, made' = made + 1, made' \in Runs,
         \A r \in Runs, s \in Streams :
            start'[r][s] = IF r = made' THEN buffer[s].total ELSE start[r][s],
         UNCHANGED <<printed, pipe, buffer, done, exit>>
  PROVE  LineInv'
<1>1. ASSUME NEW r \in Runs, NEW s \in Streams
      PROVE  LineOf(r, s)'
  <2>1. CASE r = made'
    <3>1. made' > made
      BY RunsAre DEF BashInv
    <3>2. printed'[r] = {} /\ done'[r] = {}
      BY <2>1, <3>1 DEF BashInv, ShellInv
    <3> QED BY <3>2 DEF LineOf
  <2>2. CASE r # made'
    <3>1. (Piped(r, s)' <=> Piped(r, s)) /\ (Kept(r, s)' <=> Kept(r, s))
      BY <2>2 DEF Piped, Kept, Gone, At
    <3> QED BY <3>1 DEF BashInv, LineInv, LineOf
  <2> QED BY <2>1, <2>2
<1> QED BY <1>1 DEF LineInv

LEMMA NewTexts ==
  ASSUME BashInv, made' = made + 1, made' \in Runs,
         \A r \in Runs, s \in Streams :
            start'[r][s] = IF r = made' THEN buffer[s].total ELSE start[r][s],
         buffer' = buffer, \A r \in Runs : Live(r)' => r = made' \/ Live(r)
  PROVE  TextInv'
<1>1. ASSUME NEW r \in Runs, NEW s \in Streams, Live(r)'
      PROVE  TextOf(r, s)'
  <2>1. CASE r = made'
    <3>1. buffer[s].total \in Nat /\ start'[r][s] = buffer'[s].total /\ buffer'[s].total = buffer[s].total
      BY <2>1 DEF BashInv, Types, Buffers
    <3>2. start'[r][s]..(buffer'[s].total - 1) = {}
      BY <3>1
    <3> QED BY <3>2 DEF TextOf
  <2>2. CASE r # made'
    <3>1. Live(r) /\ start'[r][s] = start[r][s]
      BY <1>1, <2>2
    <3> QED BY <3>1 DEF BashInv, TextInv, TextOf, Gone, At
  <2> QED BY <2>1, <2>2
<1> QED BY <1>1 DEF TextInv

LEMMA RunInv == ASSUME BashInv, NEW c \in Callers, Run(c) PROVE BashInv'
<1>0. pc[c] = "run" /\ current = 0
  BY DEF Run
<1>1. CASE closed
  BY <1>1, ReturnInv DEF Run, Quiet, given, shellVars, commandVars, BashInv, Types
<1>2. CASE ~closed
  <2>1. /\ made' = made + 1
        /\ start' = [start EXCEPT ![made'] = [s \in Streams |-> buffer[s].total]]
        /\ UNCHANGED <<known, closed, done, exit, reader, late, buffer>>
        /\ UNCHANGED <<pipe, shell, doing, phase, printed, jobs, unfit>>
    BY <1>2 DEF Run, Quiet, given, readerVars
  <2>2. made' \in Runs /\ made' <= MaxRuns /\ made \in Nat /\ made' \in 1..made' /\ made' > made
    BY <1>0, <2>1, NextCommand
  <2>10. jobs' \subseteq MayLeave /\ \A r \in jobs' : r <= made'
    BY <2>1, <2>2, SessionAssumption DEF BashInv, Types, Runs
  <2>3. answer[made'] = Nothing
    BY <2>2 DEF BashInv, ShellInv
  <2>4. doing = 0 /\ stdin = 0
    BY <1>0 DEF BashInv, ShellInv
  <2>7. \A s \in Streams : Clear(s) /\ (shell = "up" => late[s] \in {0, made})
    BY <1>0, <1>2 DEF BashInv, PipeInv, PipeOf
  <2>8. ASSUME NEW s \in Streams, NEW i \in 1..Len(pipe[s])
        PROVE  pipe[s][i].kind = "job" /\ pipe[s][i].run <= made'
    <3>1. pipe[s][i].kind = "job" /\ pipe[s][i].run <= made /\ pipe[s][i] \in Texts
      BY <2>7, ElementOfSeq DEF Clear, BashInv, PipeInv, PipeOf, Types
    <3>2. pipe[s][i].run \in Nat
      BY <3>1, RunsAre DEF Texts, BashInv
    <3> QED BY <2>1, <2>2, <3>1, <3>2
  <2>5. CASE made' \notin unfit /\ shell = "dead"
    <3> DEFINE a == [Nothing EXCEPT !.status = "killed"]
    <3>1. Answer(c, made', a) /\ UNCHANGED <<current, stdin>>
      BY <1>2, <2>5 DEF Run
    <3>2. a \in Answers /\ a.status = "killed" /\ \A s \in Streams : Range(a.text[s]) = {}
      BY NothingIs DEF Nothing
    <3> HIDE DEF a
    <3>3. answer' = [answer EXCEPT ![made'] = a] /\ Goto(c, "idle") /\ run' = [run EXCEPT ![c] = 0]
      BY <2>2, <3>1 DEF Answer
    <3>4. \A q \in Runs : answer'[q] = IF q = made' THEN a ELSE answer[q]
      BY <3>3 DEF BashInv, Types
    <3>5. answer' \in [Runs -> Answers]
      BY <2>2, <3>2, <3>3 DEF BashInv, Types
    <3>6. ASSUME NEW r
          PROVE  Live(r)' <=> Live(r)
      <4>1. r \in 1..made => r \in 1..made' /\ r # made' /\ r \in Runs
        BY <2>1, <2>2, RunsAre DEF BashInv
      <4>2. r \in 1..made' => r \in 1..made \/ r = made'
        BY <2>1, <2>2
      <4> QED BY <2>1, <2>2, <3>2, <3>4, <4>1, <4>2 DEF Live
    <3>7. \A q : LastLive(q)' <=> LastLive(q)
      BY <3>6 DEF LastLive
    <3>8. /\ made' + Cardinality(Runners') <= MaxRuns
          /\ start' \in [Runs -> [Streams -> Nat]] /\ BufferInv'
          /\ \A r \in Runs, s \in Streams :
               start'[r][s] = IF r = made' THEN buffer[s].total ELSE start[r][s]
      BY <1>0, <2>1, <3>3, StartsInv DEF readerVars
    <3>9. /\ pc' \in [Callers -> {"idle", "run", "status", "kill", "wait", "term", "killing"}]
          /\ run' \in [Callers -> 0..made']
      BY <2>1, <2>2, <3>3 DEF BashInv, Types, Goto
    <3>10. Types'
      BY <2>1, <2>2, <2>10, <3>1, <3>5, <3>8, <3>9 DEF BashInv, Types
    <3>11. ShellInv'
      <4>1. current' = 0 /\ doing' = 0 /\ stdin' = 0
        BY <1>0, <2>1, <2>4, <3>1
      <4>2. \A r \in Runs : r > made' => done'[r] = {} /\ printed'[r] = {} /\ answer'[r] = Nothing
        <5>1. ASSUME NEW r \in Runs, r > made'
              PROVE  done'[r] = {} /\ printed'[r] = {} /\ answer'[r] = Nothing
          <6>1. r > made /\ r # made'
            BY <2>1, <2>2, <5>1, RunsAre DEF BashInv
          <6> QED BY <2>1, <3>4, <6>1 DEF BashInv, ShellInv
        <5> QED BY <5>1
      <4> QED BY <2>1, <4>1, <4>2 DEF BashInv, ShellInv
    <3>12. CallerInv'
      <4>1. \A d \in Callers : pc'[d] = "wait" => pc[d] = pc'[d] /\ run'[d] = run[d]
        BY <3>3 DEF BashInv, Types, Goto
      <4> QED BY <3>6, <3>8, <4>1 DEF BashInv, CallerInv
    <3>13. PipeInv'
      <4>1. ASSUME NEW s \in Streams
            PROVE  PipeOf(s)'
        <5>1. /\ pipe'[s] = pipe[s] /\ current' = 0 /\ shell' = "dead" /\ late'[s] = late[s]
              /\ Clear(s)'
          BY <1>0, <2>1, <2>5, <2>7, <3>1 DEF Clear
        <5>4. late[s] # 0 => LastLive(late[s] + 1)
          BY DEF BashInv, PipeInv, PipeOf
        <5>5. PICK next : next = late[s] + 1
          OBVIOUS
        <5>6. late'[s] # 0 => LastLive(next)'
          BY <3>7, <5>1, <5>4, <5>5
        <5>7. LastLive(late[s] + 1)' <=> LastLive(next)'
          BY <5>1, <5>5 DEF LastLive
        <5> QED BY <2>8, <5>1, <5>6, <5>7 DEF PipeOf
      <4> QED BY <4>1 DEF PipeInv
    <3>14. LineInv'
      BY <2>1, <2>2, <3>8, NewLines
    <3>15. TextInv'
      BY <2>1, <2>2, <3>6, <3>8, NewTexts
    <3>16. AnswerInv'
      <4>1. ASSUME NEW q \in Runs
            PROVE  AnswerOf(q)'
        <5>1. CASE q = made'
          BY <3>2, <3>4, <5>1 DEF AnswerOf, OwnLine
        <5>2. CASE q # made'
          BY <2>1, <3>4, <5>2 DEF BashInv, AnswerInv, AnswerOf, OwnLine
        <5> QED BY <5>1, <5>2
      <4> QED BY <4>1 DEF AnswerInv
    <3> QED BY <3>8, <3>10, <3>11, <3>12, <3>13, <3>14, <3>15, <3>16 DEF BashInv
  <2>6. CASE made' \notin unfit /\ shell # "dead"
    <3>1. /\ current' = made' /\ stdin' = made' /\ run' = [run EXCEPT ![c] = made']
          /\ Goto(c, "wait") /\ answer' = answer
      BY <1>2, <2>6 DEF Run
    <3>2. shell = "up"
      BY <2>6 DEF BashInv, Types
    <3>3. \A r : Live(r)' <=> (Live(r) \/ r = made')
      BY <2>1, <2>2, <2>3, <2>6, <3>1, NothingItself DEF Live
    <3>4. \A r \in Runs : Live(r)' => r <= made'
      BY <2>2 DEF Live
    <3>5. PICK m : m = made'
      OBVIOUS
    <3>17. Live(m)'
      BY <3>3, <3>5
    <3>18. Live(current)'
      BY <3>1, <3>5, <3>17 DEF Live
    <3>6. \A s \in Streams : Clear(s) /\ late[s] \in {0, made}
      BY <2>7, <3>2
    <3>7. done[made'] = {}
      BY <2>2 DEF BashInv, ShellInv
    <3>8. /\ made' + Cardinality(Runners') <= MaxRuns
          /\ start' \in [Runs -> [Streams -> Nat]] /\ BufferInv'
          /\ \A r \in Runs, s \in Streams :
               start'[r][s] = IF r = made' THEN buffer[s].total ELSE start[r][s]
      BY <1>0, <2>1, <3>1, StartsInv DEF readerVars
    <3>9. /\ pc' \in [Callers -> {"idle", "run", "status", "kill", "wait", "term", "killing"}]
          /\ run' \in [Callers -> 0..made']
      BY <2>1, <2>2, <3>1 DEF BashInv, Types, Goto
    <3>10. Types'
      BY <2>1, <2>2, <2>10, <3>1, <3>8, <3>9 DEF BashInv, Types
    <3>11. ShellInv'
      <4>2. done'[current'] # Streams
        BY <2>1, <3>1, <3>7 DEF Streams
      <4>3. \A r \in Runs : r > made' => done'[r] = {} /\ printed'[r] = {} /\ answer'[r] = Nothing
        <5>1. ASSUME NEW r \in Runs, r > made'
              PROVE  done'[r] = {} /\ printed'[r] = {} /\ answer'[r] = Nothing
          <6>1. r > made
            BY <2>1, <2>2, <5>1, RunsAre DEF BashInv
          <6> QED BY <2>1, <3>1, <6>1 DEF BashInv, ShellInv
        <5> QED BY <5>1
      <4> QED BY <2>1, <2>2, <2>4, <3>1, <3>2, <3>18, <4>2, <4>3 DEF BashInv, ShellInv
    <3>12. CallerInv'
      <4>1. \A d \in Callers : pc'[d] = "wait" =>
              run'[d] = made' \/ (pc[d] = pc'[d] /\ run'[d] = run[d])
        BY <3>1 DEF BashInv, Types, Goto
      <4> QED BY <3>3, <3>8, <4>1 DEF BashInv, CallerInv
    <3>13. PipeInv'
      <4>1. ASSUME NEW s \in Streams
            PROVE  PipeOf(s)'
        <5>1. pipe'[s] = pipe[s] /\ late'[s] \in {0, made}
          BY <2>1, <3>6
        <5>2. late'[s] # 0 => late'[s] + 1 = made'
          BY <2>1, <5>1
        <5>3. late'[s] # 0 => LastLive(late[s] + 1)'
          BY <3>4, <5>2 DEF LastLive
        <5>4. current' # 0 /\ s \notin done'[current']
          BY <2>1, <2>2, <3>1, <3>7
        <5> QED BY <2>8, <5>1, <5>3, <5>4 DEF PipeOf
      <4> QED BY <4>1 DEF PipeInv
    <3>14. LineInv'
      BY <2>1, <2>2, <3>8, NewLines
    <3>15. TextInv'
      BY <2>1, <2>2, <3>3, <3>8, NewTexts
    <3>16. AnswerInv'
      BY <2>1, <3>1, AnswerStays DEF BashInv
    <3> QED BY <3>8, <3>10, <3>11, <3>12, <3>13, <3>14, <3>15, <3>16 DEF BashInv
  <2>9. CASE made' \in unfit
    <3>1. /\ Answer(c, 0, Nothing) /\ current' = made' /\ stdin' = stdin
          /\ Goto(c, "idle") /\ run' = [run EXCEPT ![c] = 0] /\ answer' = answer
      BY <1>2, <2>9 DEF Run, Answer
    <3>3. ASSUME NEW r
          PROVE  Live(r)' <=> Live(r)
      <4>1. r \in 1..made' /\ r \notin unfit => r \in 1..made
        BY <2>1, <2>2, <2>9
      <4>2. r \in 1..made => r \in 1..made'
        BY <2>1, <2>2
      <4> QED BY <2>1, <3>1, <4>1, <4>2 DEF Live
    <3>4. \A q : LastLive(q)' <=> LastLive(q)
      BY <3>3 DEF LastLive
    <3>7. done[made'] = {}
      BY <2>2 DEF BashInv, ShellInv
    <3>8. /\ made' + Cardinality(Runners') <= MaxRuns
          /\ start' \in [Runs -> [Streams -> Nat]] /\ BufferInv'
          /\ \A r \in Runs, s \in Streams :
               start'[r][s] = IF r = made' THEN buffer[s].total ELSE start[r][s]
      BY <1>0, <2>1, <3>1, StartsInv DEF readerVars
    <3>9. /\ pc' \in [Callers -> {"idle", "run", "status", "kill", "wait", "term", "killing"}]
          /\ run' \in [Callers -> 0..made']
      BY <2>1, <2>2, <3>1 DEF BashInv, Types, Goto
    <3>10. Types'
      BY <2>1, <2>2, <2>10, <3>1, <3>8, <3>9 DEF BashInv, Types
    <3>11. ShellInv'
      <4>1. done'[current'] # Streams
        BY <2>1, <3>1, <3>7 DEF Streams
      <4>2. \A r \in Runs : r > made' => done'[r] = {} /\ printed'[r] = {} /\ answer'[r] = Nothing
        <5>1. ASSUME NEW r \in Runs, r > made'
              PROVE  done'[r] = {} /\ printed'[r] = {} /\ answer'[r] = Nothing
          <6>1. r > made
            BY <2>1, <2>2, <5>1, RunsAre DEF BashInv
          <6> QED BY <2>1, <3>1, <6>1 DEF BashInv, ShellInv
        <5> QED BY <5>1
      <4> QED BY <2>1, <2>2, <2>4, <2>9, <3>1, <4>1, <4>2 DEF BashInv, ShellInv
    <3>12. CallerInv'
      <4>1. \A d \in Callers : pc'[d] = "wait" => pc[d] = pc'[d] /\ run'[d] = run[d]
        BY <3>1 DEF BashInv, Types, Goto
      <4> QED BY <3>3, <3>8, <4>1 DEF BashInv, CallerInv
    <3>13. PipeInv'
      <4>1. ASSUME NEW s \in Streams
            PROVE  PipeOf(s)'
        <5>1. pipe'[s] = pipe[s] /\ late'[s] = late[s]
          BY <2>1
        <5>4. late[s] # 0 => LastLive(late[s] + 1)
          BY DEF BashInv, PipeInv, PipeOf
        <5>5. PICK next : next = late[s] + 1
          OBVIOUS
        <5>6. late'[s] # 0 => LastLive(next)'
          BY <3>4, <5>1, <5>4, <5>5
        <5>7. LastLive(late[s] + 1)' <=> LastLive(next)'
          BY <5>1, <5>5 DEF LastLive
        <5>8. current' # 0 /\ s \notin done'[current']
          BY <2>1, <2>2, <3>1, <3>7
        <5> QED BY <2>8, <5>1, <5>6, <5>7, <5>8 DEF PipeOf
      <4> QED BY <4>1 DEF PipeInv
    <3>14. LineInv'
      BY <2>1, <2>2, <3>8, NewLines
    <3>15. TextInv'
      BY <2>1, <2>2, <3>3, <3>8, NewTexts
    <3>16. AnswerInv'
      BY <2>1, <3>1, AnswerStays DEF BashInv
    <3> QED BY <3>8, <3>10, <3>11, <3>12, <3>13, <3>14, <3>15, <3>16 DEF BashInv
  <2> QED BY <2>5, <2>6, <2>9
<1> QED BY <1>1, <1>2

-----------------------------------------------------------------------------
(* The shell.                                                                *)

\* The shell is gone, and what it had in its hands with it.
LEMMA DeadInv ==
  ASSUME BashInv, Types', CallerInv', closed => closed', shell' = "dead", doing' = 0, phase' = "idle", stdin' = 0,
         UNCHANGED <<commandVars, start, readerVars, pipe, printed, made, answer, jobs, unfit>>
  PROVE  BashInv'
<1>1. SameLive
  BY DEF SameLive
<1>2. /\ UNCHANGED <<current, done, exit, start, reader, late, buffer>>
      /\ UNCHANGED <<printed, pipe, made, answer, jobs, unfit>>
  BY DEF commandVars, readerVars
<1>3. ShellInv'
  BY <1>1, <1>2, LiveStays DEF BashInv, ShellInv
<1>4. PipeInv'
  <2>1. ASSUME NEW s \in Streams
        PROVE  PipeOf(s)'
    <3>1. PipeOf(s) /\ (Passed(s) => Passed(s)') /\ (Clear(s)' <=> Clear(s))
      BY <1>2 DEF BashInv, PipeInv, Passed, Clear
    <3> QED BY <1>1, <1>2, <3>1, LiveStays DEF BashInv, PipeOf, LastLive
  <2> QED BY <2>1 DEF PipeInv
<1> QED BY <1>1, <1>2, <1>3, <1>4, BufferStays, LineStays, TextStays, AnswerStays
        DEF BashInv, readerVars

LEMMA TermExpiresInv == ASSUME BashInv, NEW c \in Callers, TermExpires(c) PROVE BashInv'
<1>1. /\ Goto(c, "killing") /\ pc[c] = "term" /\ run' = run
      /\ shell' = "dead" /\ doing' = 0 /\ phase' = "idle" /\ stdin' = 0
      /\ UNCHANGED <<known, closed, commandVars, start, readerVars, pipe, printed, made, answer, jobs, unfit>>
  BY DEF TermExpires, given
<1>2. Types'
  BY <1>1 DEF BashInv, Types, Goto, commandVars, readerVars
<1>3. made + Cardinality(Runners') <= MaxRuns
  BY <1>1, Leaves, RunsAre, RunnersAre, SizeIs DEF BashInv, CallerInv
<1>4. \A d \in Callers : pc'[d] = "wait" => pc[d] = "wait"
  BY <1>1 DEF BashInv, Types, Goto
<1>5. \A r : Live(r)' <=> Live(r)
  BY <1>1 DEF Live
<1>6. CallerInv'
  BY <1>1, <1>3, <1>4, <1>5 DEF BashInv, CallerInv
<1> QED BY <1>1, <1>2, <1>6, DeadInv

LEMMA CloseInv == ASSUME BashInv, Close PROVE BashInv'
<1>1. /\ shell' = "dead" /\ doing' = 0 /\ phase' = "idle" /\ stdin' = 0
      /\ UNCHANGED <<commandVars, start, callerVars, readerVars, pipe, printed, made, answer, jobs, unfit>>
  BY DEF Close, given
<1>3. known' = FALSE /\ closed' = TRUE
  BY DEF Close
<1>4. known' \in BOOLEAN /\ closed' \in BOOLEAN
  BY <1>3
<1>2. Types'
  BY <1>1, <1>4 DEF BashInv, Types, commandVars, readerVars, callerVars
<1> QED BY <1>1, <1>2, <1>3, CallerStays, DeadInv DEF BashInv, callerVars

LEMMA ShellDiesInv == ASSUME BashInv, ShellDies PROVE BashInv'
<1>1. /\ shell' = "dead" /\ doing' = 0 /\ phase' = "idle" /\ stdin' = 0
      /\ UNCHANGED <<known, closed, commandVars, start, callerVars, readerVars>>
      /\ UNCHANGED <<pipe, printed, made, answer, jobs, unfit>>
  BY DEF ShellDies, Apart, given
<1>2. Types'
  BY <1>1 DEF BashInv, Types, commandVars, readerVars, callerVars
<1> QED BY <1>1, <1>2, CallerStays, DeadInv DEF BashInv, callerVars

LEMMA ShellReadsInv == ASSUME BashInv, ShellReads PROVE BashInv'
<1>1. /\ stdin # 0 /\ doing' = stdin /\ stdin' = 0 /\ phase' = "executes"
      /\ jobs' = jobs \cup ({stdin} \cap MayLeave) /\ unfit' = unfit
      /\ UNCHANGED <<known, closed, current, done, exit, start, reader, late, buffer>>
      /\ UNCHANGED <<pc, run, shell, pipe, printed, made, answer>>
  BY DEF ShellReads, Apart, given, commandVars, readerVars, callerVars
<1>2. Types'
  BY <1>1, RunsAre, SessionAssumption DEF BashInv, Types
<1>3. SameLive
  BY <1>1 DEF SameLive
<1>4. stdin = current /\ current # 0 /\ shell = "up"
  BY <1>1 DEF BashInv, ShellInv, Types
<1>5. ShellInv'
  BY <1>1, <1>3, <1>4, LiveStays DEF BashInv, ShellInv
<1>6. \A s \in Streams : ~Passed(s)
  BY <1>1 DEF Passed
<1>7. PipeInv'
  <2>1. ASSUME NEW s \in Streams
        PROVE  PipeOf(s)'
    <3>1. PipeOf(s) /\ ~Passed(s) /\ (Clear(s)' <=> Clear(s))
      BY <1>1, <1>6 DEF BashInv, PipeInv, Clear
    <3> QED BY <1>1, <1>3, <1>4, <3>1, LiveStays DEF BashInv, PipeOf, LastLive
  <2> QED BY <2>1 DEF PipeInv
<1> QED BY <1>1, <1>2, <1>3, <1>5, <1>7, CallerStays, BufferStays, LineStays, TextStays,
           AnswerStays DEF BashInv, readerVars

\* The shell puts a text of the command in progress into a pipe.
LEMMA AppendsInv ==
  ASSUME BashInv, NEW s \in Streams, NEW kind \in (Kinds \cup {"done"}) \ {"job"},
         doing # 0, ~Passed(s), kind = "done" => Passed(s)',
         \A t \in Streams : Passed(t) => Passed(t)',
         pipe' = [pipe EXCEPT ![s] = Append(@, Text(doing, kind))],
         doing' \in {doing, 0}, phase' \in {"idle", "executes", "status"},
         doing' = 0 <=> phase' = "idle",
         printed' \in [Runs -> SUBSET (Streams \X Kinds)],
         \A r \in Runs : r # doing => printed'[r] = printed[r],
         \A x \in printed'[doing] : x \in printed[doing] \/ x = <<s, kind>>,
         UNCHANGED <<known, closed, commandVars, start, readerVars>>,
         UNCHANGED <<shell, stdin, callerVars, made, answer, jobs, unfit>>
  PROVE  BashInv'
<1>1. /\ UNCHANGED <<known, closed, current, done, exit, start, reader, late, buffer>>
      /\ UNCHANGED <<shell, stdin, pc, run, made, answer, jobs, unfit>>
  BY DEF commandVars, readerVars, callerVars
<1>2. /\ doing = current /\ stdin = 0 /\ shell = "up" /\ doing \in Runs /\ doing <= made
      /\ LastLive(current) /\ done[current] # Streams
  <2>1. doing = current /\ stdin = 0 /\ shell = "up" /\ current = made /\ done[current] # Streams
    BY DEF BashInv, ShellInv, Types
  <2>2. LastLive(current)
    BY <2>1 DEF LastLive, Live
  <2> QED BY <2>1, <2>2, RunsAre DEF BashInv, Types
<1>3. PICK x : x = Text(doing, kind)
  OBVIOUS
<1>4. x \in Texts /\ x.run = doing /\ x.kind = kind
  BY <1>2, <1>3 DEF Text, Texts, Kinds
<1>5. /\ \A t \in Streams : t # s => pipe'[t] = pipe[t]
      /\ pipe'[s] = Append(pipe[s], x) /\ pipe[s] \in Seq(Texts)
      /\ pipe' \in [Streams -> Seq(Texts)]
  BY <1>3, <1>4, AppendProperties DEF BashInv, Types
<1>6. /\ Len(pipe[s]) \in Nat /\ Len(pipe'[s]) = Len(pipe[s]) + 1
      /\ \A i \in 1..Len(pipe[s]) : pipe'[s][i] = pipe[s][i]
      /\ pipe'[s][Len(pipe[s]) + 1] = x
  BY <1>4, <1>5, AppendProperties, LenProperties
<1>7. Types'
  BY <1>1, <1>5 DEF BashInv, Types
<1>8. SameLive
  BY <1>1 DEF SameLive
<1>9. ShellInv'
  <2>1. \A r \in Runs : r > made => printed'[r] = {}
    BY <1>2, RunsAre DEF BashInv, ShellInv
  <2> QED BY <1>1, <1>2, <1>8, <2>1, LiveStays DEF BashInv, ShellInv
<1>10. PipeOf(s)'
  <2>1. PipeOf(s) /\ current # 0 /\ s \notin done[current]
    BY <1>2 DEF BashInv, PipeInv, PipeOf
  <2>2. ASSUME NEW i \in 1..Len(pipe'[s]), NEW y, y = pipe'[s][i]
        PROVE  /\ y.run <= made /\ (y.kind # "job" => LastLive(y.run) /\ y.run = current)
               /\ y.kind = "done" => i = Len(pipe'[s]) /\ Passed(s)'
    <3>1. CASE i \in 1..Len(pipe[s])
      BY <1>6, <2>1, <2>2, <3>1 DEF PipeOf
    <3>2. CASE i = Len(pipe[s]) + 1
      BY <1>2, <1>4, <1>6, <2>2, <3>2
    <3> QED BY <1>6, <3>1, <3>2
  <2>3. late[s] # 0 => LastLive(late[s] + 1)'
    BY <1>1, <1>8, <2>1, LiveStays DEF BashInv, PipeOf, LastLive
  <2>4. ASSUME NEW i \in 1..Len(pipe'[s]), pipe'[s][i].kind # "job"
        PROVE  LastLive(pipe[s][i].run)'
    <3>1. PICK y : y = pipe'[s][i]
      OBVIOUS
    <3>2. LastLive(y.run)
      BY <2>2, <2>4, <3>1
    <3> QED BY <1>8, <3>1, <3>2, LiveStays DEF BashInv, LastLive
  <2>5. \A i \in 1..Len(pipe'[s]) : (i + 1)..Len(pipe'[s]) = {} \/ i # Len(pipe'[s])
    BY <1>6
  <2> QED BY <1>1, <1>2, <2>1, <2>2, <2>3, <2>4, <2>5 DEF PipeOf
<1>11. PipeInv'
  <2>1. ASSUME NEW t \in Streams, t # s
        PROVE  PipeOf(t)'
    <3>1. /\ PipeOf(t) /\ pipe'[t] = pipe[t] /\ (Passed(t) => Passed(t)')
          /\ Clear(t)' <=> Clear(t)
      BY <1>5, <2>1 DEF BashInv, PipeInv, Clear
    <3>2. late[t] # 0 => LastLive(late[t] + 1)'
      BY <1>1, <1>8, <3>1, LiveStays DEF BashInv, PipeOf, LastLive
    <3>3. current # 0 /\ current' = current /\ closed' = closed /\ late' = late /\ done' = done
      BY <1>1, <1>2, RunsAre DEF BashInv
    <3>4. \A i \in 1..Len(pipe[t]) :
            pipe[t][i].kind # "job" => LastLive(pipe[t][i].run)'
      BY <1>1, <1>8, <3>1, LiveStays DEF BashInv, PipeOf, LastLive
    <3> QED BY <1>1, <3>1, <3>2, <3>3, <3>4 DEF PipeOf
  <2> QED BY <1>10, <2>1 DEF PipeInv
<1>12. LineInv'
  <2>1. ASSUME NEW r \in Runs, NEW t \in Streams
        PROVE  LineOf(r, t)'
    <3>1. LineOf(r, t) /\ (Kept(r, t)' <=> Kept(r, t))
      BY <1>1 DEF BashInv, LineInv, Kept, Gone, At
    <3>2. Piped(r, t) => Piped(r, t)'
      <4>1. CASE t = s
        BY <1>6, <4>1 DEF Piped
      <4>2. CASE t # s
        BY <1>5, <4>2 DEF Piped
      <4> QED BY <4>1, <4>2
    <3>3. ASSUME <<t, "line">> \in printed'[r], <<t, "line">> \notin printed[r]
          PROVE  Piped(r, t)'
      <4>1. r = doing /\ t = s /\ kind = "line"
        BY <3>3
      <4>2. Len(pipe[s]) + 1 \in 1..Len(pipe'[s]) /\ x = Text(r, "line")
        BY <1>3, <1>6, <4>1
      <4> QED BY <1>6, <4>1, <4>2 DEF Piped
    <3>4. ASSUME t \in done[r], exit[r] # OfShell, NEW i \in 1..Len(pipe'[t]),
                 pipe'[t][i].kind # "job"
          PROVE  pipe'[t][i].run # r
      <4>1. \A j \in 1..Len(pipe[t]) : pipe[t][j].kind # "job" => pipe[t][j].run # r
        BY <3>1, <3>4 DEF LineOf
      <4>2. CASE t # s
        BY <1>5, <3>4, <4>1, <4>2
      <4>3. CASE t = s
        <5>1. r # doing
          BY <1>2, <3>4, <4>3 DEF BashInv, PipeInv, PipeOf
        <5>2. CASE i \in 1..Len(pipe[s])
          BY <1>6, <3>4, <4>1, <4>3, <5>2
        <5>3. CASE i = Len(pipe[s]) + 1
          BY <1>4, <1>6, <4>3, <5>1, <5>3
        <5> QED BY <1>6, <4>3, <5>2, <5>3
      <4> QED BY <4>2, <4>3
    <3> QED BY <1>1, <3>1, <3>2, <3>3, <3>4 DEF LineOf
  <2> QED BY <2>1 DEF LineInv
<1>13. AnswerInv'
  <2>1. ASSUME NEW r \in Runs
        PROVE  AnswerOf(r)'
    <3>1. AnswerOf(r)
      BY DEF BashInv, AnswerInv
    <3>2. CASE r = doing
      BY <1>1, <1>2, <3>1, <3>2 DEF AnswerOf, OwnLine
    <3>3. CASE r # doing
      BY <1>1, <3>1, <3>3 DEF AnswerOf, OwnLine
    <3> QED BY <3>2, <3>3
  <2> QED BY <2>1 DEF AnswerInv
<1> QED BY <1>1, <1>7, <1>8, <1>9, <1>11, <1>12, <1>13, CallerStays, BufferStays, TextStays
        DEF BashInv, readerVars

LEMMA ShellPrintsInv ==
  ASSUME BashInv, NEW p \in Prints, ShellPrints(p[1], p[2], p[3])
  PROVE  BashInv'
<1>1. PICK s \in Streams, kind \in Kinds : p[2] = s /\ p[3] = kind
  BY SessionAssumption
<1>2. /\ phase = "executes" /\ kind # "job" /\ printed' = [printed EXCEPT ![doing] = @ \cup {<<s, kind>>}]
      /\ pipe' = [pipe EXCEPT ![s] = Append(@, Text(doing, kind))]
      /\ UNCHANGED <<known, closed, commandVars, start, readerVars>>
      /\ UNCHANGED <<shell, stdin, doing, phase, callerVars, made, answer, jobs, unfit>>
  BY <1>1 DEF ShellPrints, Apart, given
<1>3. doing # 0 /\ doing \in Runs
  BY <1>2, RunsAre DEF BashInv, ShellInv, Types
<1>4. /\ printed' \in [Runs -> SUBSET (Streams \X Kinds)]
      /\ \A r \in Runs : r # doing => printed'[r] = printed[r]
      /\ \A x \in printed'[doing] : x \in printed[doing] \/ x = <<s, kind>>
  BY <1>2, <1>3 DEF BashInv, Types
<1>5. /\ ~Passed(s) /\ \A t \in Streams : Passed(t) => Passed(t)'
      /\ doing' = 0 <=> phase' = "idle"
  BY <1>2, <1>3 DEF Passed
<1> QED BY <1>2, <1>3, <1>4, <1>5, AppendsInv DEF BashInv, Types, Kinds

LEMMA ShellEndsInv == ASSUME BashInv, ShellEnds PROVE BashInv'
<1>1. /\ phase = "executes" /\ phase' = "status" /\ printed' = printed
      /\ pipe' = [pipe EXCEPT !["err"] = Append(@, Text(doing, "done"))]
      /\ UNCHANGED <<known, closed, commandVars, start, readerVars>>
      /\ UNCHANGED <<shell, stdin, doing, callerVars, made, answer, jobs, unfit>>
  BY DEF ShellEnds, Apart, given
<1>2. doing # 0 /\ stdin = 0
  BY <1>1, RunsAre DEF BashInv, ShellInv, Types
<1>3. /\ ~Passed("err") /\ Passed("err")' /\ \A t \in Streams : Passed(t) => Passed(t)'
      /\ doing' = 0 <=> phase' = "idle"
  BY <1>1, <1>2 DEF Passed
<1> QED BY <1>1, <1>2, <1>3, AppendsInv DEF BashInv, Types, Streams, Kinds

LEMMA ShellReportsInv == ASSUME BashInv, ShellReports PROVE BashInv'
<1>1. /\ phase = "status" /\ phase' = "idle" /\ doing' = 0 /\ printed' = printed
      /\ pipe' = [pipe EXCEPT !["out"] = Append(@, Text(doing, "done"))]
      /\ UNCHANGED <<known, closed, commandVars, start, readerVars>>
      /\ UNCHANGED <<shell, stdin, callerVars, made, answer, jobs, unfit>>
  BY DEF ShellReports, Apart, given
<1>2. doing # 0 /\ stdin = 0
  BY <1>1, RunsAre DEF BashInv, ShellInv, Types
<1>3. ~Passed("out") /\ \A t \in Streams : Passed(t)'
  BY <1>1, <1>2 DEF Passed
<1> QED BY <1>1, <1>2, <1>3, AppendsInv DEF BashInv, Types, Streams, Kinds

\* A background job ends: what it prints is nobody's answer to wait for.
LEMMA JobEndsInv == ASSUME BashInv, NEW r \in jobs, JobEnds(r) PROVE BashInv'
<1>1. /\ UNCHANGED <<known, closed, current, done, exit, start, reader, late, buffer>>
      /\ UNCHANGED <<shell, stdin, doing, phase, printed, pc, run, made, answer, unfit>>
      /\ jobs' = jobs \ {r}
  BY DEF JobEnds, Apart, given, shellVars, commandVars, readerVars, callerVars
<1>2. r \in Runs /\ r <= made
  BY SessionAssumption DEF BashInv, Types
<1>3. PICK t : t = Text(r, "job")
  OBVIOUS
<1>4. t \in Texts /\ t.run = r /\ t.kind = "job"
  BY <1>2, <1>3 DEF Text, Texts, Kinds
<1>5. ASSUME NEW s \in Streams
      PROVE  /\ pipe'[s] = pipe[s] \/ pipe'[s] = Append(pipe[s], t)
             /\ pipe[s] \in Seq(Texts) /\ Len(pipe[s]) \in Nat
  <2>1. pipe[s] \in Seq(Texts) /\ Len(pipe[s]) \in Nat
    BY LenProperties DEF BashInv, Types
  <2> QED BY <1>3, <2>1 DEF JobEnds, BashInv, Types
<1>6. ASSUME NEW s \in Streams
      PROVE  /\ pipe'[s] \in Seq(Texts) /\ Len(pipe'[s]) \in Nat /\ Len(pipe'[s]) >= Len(pipe[s])
             /\ \A i \in 1..Len(pipe[s]) : pipe'[s][i] = pipe[s][i]
             /\ \A i \in 1..Len(pipe'[s]) : i \in 1..Len(pipe[s]) \/ pipe'[s][i] = t
  <2>1. CASE pipe'[s] = pipe[s]
    BY <1>5, <2>1
  <2>2. CASE pipe'[s] = Append(pipe[s], t)
    <3>1. /\ pipe'[s] \in Seq(Texts) /\ Len(pipe'[s]) = Len(pipe[s]) + 1
          /\ \A i \in 1..Len(pipe[s]) : pipe'[s][i] = pipe[s][i]
          /\ pipe'[s][Len(pipe[s]) + 1] = t
      BY <1>4, <1>5, <2>2, AppendProperties
    <3> QED BY <1>5, <3>1
  <2> QED BY <1>5, <2>1, <2>2
<1>7. pipe' \in [Streams -> Seq(Texts)]
  <2>1. pipe' \in [Streams -> Seq(Texts)] \/ pipe' = [s \in Streams |-> pipe'[s]]
    BY DEF JobEnds, BashInv, Types
  <2> QED BY <1>6, <2>1
<1>8. Types'
  BY <1>1, <1>7 DEF BashInv, Types
<1>9. SameLive
  BY <1>1 DEF SameLive
<1>10. ShellInv'
  BY <1>1, <1>9, ShellStays DEF BashInv
<1>11. PipeInv'
  <2>1. ASSUME NEW s \in Streams
        PROVE  PipeOf(s)'
    <3>1. /\ PipeOf(s) /\ (Passed(s)' <=> Passed(s)) /\ (Clear(s) => Clear(s)')
      BY <1>1, <1>4, <1>6 DEF BashInv, PipeInv, Passed, Clear
    <3>2. ASSUME NEW i \in 1..Len(pipe'[s])
          PROVE  /\ pipe'[s][i].run <= made
                 /\ pipe'[s][i].kind # "job" =>
                      /\ i \in 1..Len(pipe[s]) /\ pipe'[s][i] = pipe[s][i]
                      /\ LastLive(pipe[s][i].run) /\ (current # 0 => pipe'[s][i].run = current)
      BY <1>2, <1>4, <1>6, <3>1 DEF PipeOf
    <3>3. ASSUME NEW i \in 1..Len(pipe'[s]), pipe'[s][i].kind # "job"
          PROVE  LastLive(pipe[s][i].run)'
      <4>1. PICK y : y = pipe'[s][i].run
        OBVIOUS
      <4>2. LastLive(y)
        BY <3>2, <3>3, <4>1
      <4>3. LastLive(y)'
        BY <1>9, <4>2, LiveStays DEF BashInv
      <4> QED BY <4>1, <4>3 DEF LastLive
    <3>4. ASSUME NEW i \in 1..Len(pipe'[s]), pipe'[s][i].kind = "done",
                 NEW j \in (i + 1)..Len(pipe'[s])
          PROVE  Passed(s) /\ pipe'[s][j].kind = "job"
      <4>1. i \in 1..Len(pipe[s]) /\ pipe[s][i].kind = "done" /\ j \in 1..Len(pipe'[s])
        BY <1>4, <1>6, <3>4
      <4>2. \A k \in (i + 1)..Len(pipe[s]) : pipe[s][k].kind = "job"
        BY <3>1, <4>1 DEF PipeOf
      <4> QED BY <1>4, <1>5, <1>6, <3>1, <4>1, <4>2 DEF PipeOf
    <3>5. \A i \in 1..Len(pipe'[s]) : pipe'[s][i].kind = "done" => Passed(s)
      BY <1>4, <1>6, <3>1 DEF PipeOf
    <3>6. late[s] # 0 => LastLive(late[s] + 1)'
      BY <1>1, <1>9, <3>1, LiveStays DEF BashInv, PipeOf, LastLive
    <3> QED BY <1>1, <3>1, <3>2, <3>3, <3>4, <3>5, <3>6 DEF PipeOf
  <2> QED BY <2>1 DEF PipeInv
<1>12. LineInv'
  <2>1. ASSUME NEW q \in Runs, NEW s \in Streams
        PROVE  LineOf(q, s)'
    <3>1. LineOf(q, s) /\ (Kept(q, s)' <=> Kept(q, s))
      BY <1>1 DEF BashInv, LineInv, Kept, Gone, At
    <3>2. Piped(q, s) => Piped(q, s)'
      BY <1>5, <1>6 DEF Piped
    <3>3. ASSUME \A i \in 1..Len(pipe[s]) : pipe[s][i].kind # "job" => pipe[s][i].run # q,
                 NEW i \in 1..Len(pipe'[s]), pipe'[s][i].kind # "job"
          PROVE  pipe'[s][i].run # q
      BY <1>4, <1>6, <3>3
    <3> QED BY <1>1, <3>1, <3>2, <3>3 DEF LineOf
  <2> QED BY <2>1 DEF LineInv
<1> QED BY <1>1, <1>8, <1>9, <1>10, <1>11, <1>12, CallerStays, BufferStays, TextStays, AnswerStays
        DEF BashInv, readerVars

-----------------------------------------------------------------------------
(* The readers.                                                              *)

\* One buffer is another one with some of these texts behind.
Grown(b, w, texts) ==
  /\ Ring(w) /\ w.total >= b.total /\ Gone(w) >= Gone(b)
  /\ \A p \in Nat : Gone(w) <= p /\ p < b.total => At(w, p) = At(b, p)
  /\ \A p \in b.total..(w.total - 1) : Gone(w) <= p => At(w, p) \in texts
\* It has this text among them, unless it is dropped already.
Holds(b, w, t) == \E p \in b.total..(w.total - 1) : p >= Gone(w) => At(w, p) = t

LEMMA GrownSame == ASSUME NEW b, Ring(b) PROVE Grown(b, b, {})
<1>1. b.total \in Nat /\ Gone(b) \in Nat
  BY GoneIs
<1> QED BY <1>1 DEF Grown

LEMMA GrownOne ==
  ASSUME NEW b, Ring(b), NEW t \in Texts, NEW w, w = Written(b, t)
  PROVE  Grown(b, w, {t}) /\ Holds(b, w, t)
<1>1. b.total \in Nat /\ Gone(b) \in Nat
  BY GoneIs
<1>2. /\ Ring(w) /\ w.total = b.total + 1 /\ Gone(w) >= Gone(b)
      /\ At(w, b.total) = t
      /\ \A p \in Nat : Gone(w) <= p /\ p < b.total => At(w, p) = At(b, p)
  BY WrittenIs
<1>3. b.total \in b.total..(w.total - 1) /\ \A p \in b.total..(w.total - 1) : p = b.total
  BY <1>1, <1>2
<1> QED BY <1>1, <1>2, <1>3 DEF Grown, Holds

LEMMA GrownTwo ==
  ASSUME NEW b, Ring(b), NEW t \in Texts, NEW u \in Texts, NEW w, w = Written(Written(b, t), u)
  PROVE  Grown(b, w, {t, u})
<1>1. PICK m : m = Written(b, t)
  OBVIOUS
<1>2. Grown(b, m, {t}) /\ Ring(m)
  BY <1>1, GrownOne DEF Grown
<1>3. Grown(m, w, {u}) /\ Ring(w)
  BY <1>1, <1>2, GrownOne DEF Grown
<1>4. /\ b.total \in Nat /\ Gone(b) \in Nat /\ m.total \in Nat /\ Gone(m) \in Nat
      /\ w.total \in Nat /\ Gone(w) \in Nat
  BY <1>2, <1>3, GoneIs
<1>5. ASSUME NEW p \in Nat, Gone(w) <= p, p < b.total
      PROVE  At(w, p) = At(b, p)
  <2>1. p < m.total /\ Gone(m) <= p
    BY <1>2, <1>3, <1>4, <1>5 DEF Grown
  <2> QED BY <1>2, <1>3, <1>5, <2>1 DEF Grown
<1>6. ASSUME NEW p \in b.total..(w.total - 1), Gone(w) <= p
      PROVE  At(w, p) \in {t, u}
  <2>0. p \in Nat /\ Gone(m) <= p
    BY <1>3, <1>4, <1>6 DEF Grown
  <2>1. CASE p < m.total
    BY <1>2, <1>3, <1>4, <1>6, <2>0, <2>1 DEF Grown
  <2>2. CASE ~(p < m.total)
    <3>1. p \in m.total..(w.total - 1)
      BY <1>4, <2>0, <2>2
    <3> QED BY <1>3, <1>6, <3>1 DEF Grown
  <2> QED BY <2>1, <2>2
<1>7. w.total >= b.total /\ Gone(w) >= Gone(b)
  BY <1>2, <1>3, <1>4 DEF Grown
<1> QED BY <1>3, <1>5, <1>6, <1>7 DEF Grown

\* What such a buffer leaves of the others.
LEMMA GrownIn ==
  ASSUME BashInv, NEW s \in Streams, NEW w, Ring(w), buffer' = [buffer EXCEPT ![s] = w]
  PROVE  /\ buffer'[s] = w /\ buffer' \in [Streams -> Buffers]
         /\ \A u \in Streams : u # s => buffer'[u] = buffer[u]
BY DEF BashInv, Types, Ring

\* Texts go into the buffer of a stream, of which no command later than the one
\* after theirs has been promised but those of background jobs.
LEMMA WritesInv ==
  ASSUME BashInv, NEW s \in Streams, NEW w, NEW texts, Grown(buffer[s], w, texts),
         buffer'[s] = w, \A u \in Streams : u # s => buffer'[u] = buffer[u],
         buffer' \in [Streams -> Buffers],
         \A t \in texts : \A r \in Runs : Live(r) /\ t.run < r => Leftover(r, t),
         UNCHANGED <<start, answer, made, unfit>>
  PROVE  /\ \A u \in Streams : Ring(buffer'[u]) /\ \A r \in Runs : start'[r][u] <= buffer'[u].total
         /\ \A r \in Runs, u \in Streams : Kept(r, u) => Kept(r, u)'
         /\ \A r \in Runs : Holds(buffer[s], w, Text(r, "line")) => Kept(r, s)'
         /\ TextInv'
<1>1. PICK b : b = buffer[s]
  OBVIOUS
<1>2. buffer'[s] = w /\ \A u \in Streams : u # s => buffer'[u] = buffer[u]
  OBVIOUS
<1>3. Ring(b) /\ b.total \in Nat /\ Gone(b) \in Nat
  <2>1. Ring(b)
    BY <1>1 DEF BashInv, BufferInv
  <2> QED BY <2>1, GoneIs
<1>4. /\ Ring(w) /\ w.total >= b.total
      /\ Gone(w) >= Gone(b)
      /\ \A p \in Nat : Gone(w) <= p /\ p < b.total => At(w, p) = At(b, p)
      /\ \A p \in b.total..(w.total - 1) : Gone(w) <= p => At(w, p) \in texts
  BY <1>1 DEF Grown
<1>5. Gone(w) \in Nat /\ w.total \in Nat
  BY <1>4, GoneIs
<1>6. \A r \in Runs : start[r][s] \in Nat /\ start[r][s] <= b.total /\ start'[r][s] = start[r][s]
  BY <1>1 DEF BashInv, Types, BufferInv
<1>7. ASSUME NEW u \in Streams
      PROVE  Ring(buffer'[u]) /\ \A r \in Runs : start'[r][u] <= buffer'[u].total
  <2>1. CASE u = s
    BY <1>2, <1>3, <1>4, <1>5, <1>6, <2>1
  <2>2. CASE u # s
    BY <1>2, <2>2 DEF BashInv, BufferInv
  <2> QED BY <2>1, <2>2
<1>8. ASSUME NEW r \in Runs, NEW u \in Streams, Kept(r, u)
      PROVE  Kept(r, u)'
  <2>1. CASE u = s
    <3>1. PICK p \in start[r][s]..(b.total - 1) : p >= Gone(b) => At(b, p) = Text(r, "line")
      BY <1>1, <1>8, <2>1 DEF Kept
    <3>2. p \in Nat /\ p < b.total /\ p \in start[r][s]..(w.total - 1)
      BY <1>3, <1>4, <1>5, <1>6
    <3>3. p >= Gone(w) => At(w, p) = Text(r, "line")
      BY <1>3, <1>4, <1>5, <3>1, <3>2
    <3>4. \E q \in start'[r][s]..(buffer'[s].total - 1) :
            q >= Gone(w) => At(w, q) = Text(r, "line")
      BY <1>2, <1>6, <3>2, <3>3
    <3> QED BY <1>2, <2>1, <3>4 DEF Kept, Gone, At
  <2>2. CASE u # s
    BY <1>2, <1>8, <2>2 DEF Kept, Gone, At
  <2> QED BY <2>1, <2>2
<1>9. ASSUME NEW r \in Runs, Holds(b, w, Text(r, "line"))
      PROVE  Kept(r, s)'
  <2>1. PICK p \in b.total..(w.total - 1) : p >= Gone(w) => At(w, p) = Text(r, "line")
    BY <1>9 DEF Holds
  <2>2. p \in start'[r][s]..(buffer'[s].total - 1)
    BY <1>2, <1>3, <1>5, <1>6, <2>1
  <2>3. \E q \in start'[r][s]..(buffer'[s].total - 1) :
          q >= Gone(w) => At(w, q) = Text(r, "line")
    BY <2>1, <2>2
  <2> QED BY <1>2, <2>3 DEF Kept, Gone, At
<1>10. ASSUME NEW r \in Runs, NEW u \in Streams, Live(r)'
       PROVE  TextOf(r, u)'
  <2>1. Live(r) /\ TextOf(r, u)
    BY <1>10 DEF Live, BashInv, TextInv
  <2>2. CASE u = s
    <3>1. ASSUME NEW p \in start[r][s]..(w.total - 1), p >= Gone(w), At(w, p).run < r
          PROVE  Leftover(r, At(w, p))
      <4>0. p \in Nat
        BY <1>5, <1>6
      <4>1. CASE p >= b.total
        <5>1. p \in b.total..(w.total - 1)
          BY <1>3, <1>5, <4>0, <4>1
        <5> QED BY <1>4, <1>5, <2>1, <3>1, <4>0, <5>1
      <4>2. CASE ~(p >= b.total)
        <5>1. p < b.total /\ p \in start[r][s]..(b.total - 1)
          BY <1>3, <1>6, <4>0, <4>2
        <5>2. p >= Gone(b) /\ At(w, p) = At(b, p)
          BY <1>3, <1>4, <1>5, <3>1, <4>0, <5>1
        <5> QED BY <1>1, <2>1, <2>2, <3>1, <5>1, <5>2 DEF TextOf
      <4> QED BY <4>1, <4>2
    <3>2. \A p \in start'[r][s]..(buffer'[s].total - 1) :
            p >= Gone(w) /\ At(w, p).run < r => Leftover(r, At(w, p))
      BY <1>2, <1>6, <3>1
    <3> QED BY <1>2, <2>2, <3>2 DEF TextOf, Gone, At
  <2>3. CASE u # s
    BY <1>2, <2>1, <2>3 DEF TextOf, Gone, At
  <2> QED BY <2>2, <2>3
<1>11. TextInv'
  BY <1>10 DEF TextInv
<1> QED BY <1>1, <1>7, <1>8, <1>9, <1>11

\* What is left of a pipe behind its first texts.
LEMMA RestIs ==
  ASSUME NEW q \in Seq(Texts), NEW k \in {1, 2}, Len(q) >= k, NEW rest,
         rest = SubSeq(q, k + 1, Len(q))
  PROVE  /\ rest \in Seq(Texts) /\ Len(rest) = Len(q) - k
         /\ \A i \in 1..Len(rest) : rest[i] = q[i + k]
<1>0. Len(q) \in Nat /\ k + 1 \in Nat
  BY LenProperties
<1>1. PICK m \in Nat, n \in Nat : m = k + 1 /\ n = Len(q)
  BY <1>0
<1>2. \A i \in m..n : q[i] \in Texts
  BY <1>1, ElementOfSeq
<1>3. /\ rest \in Seq(Texts) /\ Len(rest) = (IF m <= n THEN n - m + 1 ELSE 0)
      /\ \A i \in 1..(n - m + 1) : rest[i] = q[m + i - 1]
  BY <1>1, <1>2, SubSeqProperties
<1>4. Len(rest) = Len(q) - k /\ Len(rest) = n - m + 1
  BY <1>1, <1>3
<1>5. ASSUME NEW i \in 1..Len(rest)
      PROVE  rest[i] = q[i + k]
  <2>1. m + i - 1 = i + k /\ i \in 1..(n - m + 1)
    BY <1>1, <1>4
  <2> QED BY <1>3, <2>1
<1> QED BY <1>3, <1>4, <1>5

\* A reader takes the first texts of its pipe, and its buffer grows by some of
\* them, the lines among them.
Reads(s, k, w, texts) ==
  /\ reader[s] = "read" /\ k \in {1, 2} /\ Len(pipe[s]) >= k
  /\ pipe'[s] = SubSeq(pipe[s], k + 1, Len(pipe[s])) /\ pipe' \in [Streams -> Seq(Texts)]
  /\ \A u \in Streams : u # s => pipe'[u] = pipe[u]
  /\ Grown(buffer[s], w, texts) /\ buffer'[s] = w /\ buffer' \in [Streams -> Buffers]
  /\ \A u \in Streams : u # s => buffer'[u] = buffer[u]
  /\ \A t \in texts : \E i \in 1..k : t = pipe[s][i]
  /\ \A r \in Runs : \A i \in 1..k :
       pipe[s][i] = Text(r, "line") => Holds(buffer[s], w, Text(r, "line"))

LEMMA ReadsInv ==
  ASSUME BashInv, NEW s \in Streams, NEW k, NEW w, NEW texts, Reads(s, k, w, texts),
         UNCHANGED <<known, closed, current, done, exit, reader, late, start>>,
         UNCHANGED <<shell, stdin, doing, phase, printed, pc, run, made, answer, jobs, unfit>>
  PROVE  BashInv'
<1>0. /\ reader[s] = "read" /\ k \in {1, 2} /\ Len(pipe[s]) >= k
      /\ pipe'[s] = SubSeq(pipe[s], k + 1, Len(pipe[s])) /\ pipe' \in [Streams -> Seq(Texts)]
      /\ \A u \in Streams : u # s => pipe'[u] = pipe[u]
      /\ Grown(buffer[s], w, texts) /\ buffer'[s] = w /\ buffer' \in [Streams -> Buffers]
      /\ \A u \in Streams : u # s => buffer'[u] = buffer[u]
      /\ \A t \in texts : \E i \in 1..k : t = pipe[s][i]
      /\ \A r \in Runs : \A i \in 1..k :
           pipe[s][i] = Text(r, "line") => Holds(buffer[s], w, Text(r, "line"))
  BY DEF Reads
<1>1. /\ pipe[s] \in Seq(Texts) /\ Len(pipe[s]) \in Nat
      /\ \A i \in 1..Len(pipe[s]) : pipe[s][i] \in Texts
  BY LenProperties, ElementOfSeq DEF BashInv, Types
<1>2. PICK rest : rest = SubSeq(pipe[s], k + 1, Len(pipe[s]))
  OBVIOUS
<1>3. /\ rest \in Seq(Texts) /\ Len(rest) = Len(pipe[s]) - k
      /\ \A i \in 1..Len(rest) : rest[i] = pipe[s][i + k]
  BY <1>0, <1>1, <1>2, RestIs
<1>4. /\ pipe'[s] = rest /\ pipe' \in [Streams -> Seq(Texts)]
      /\ \A u \in Streams : u # s => pipe'[u] = pipe[u]
  BY <1>0, <1>2
<1>5. PipeOf(s)
  BY DEF BashInv, PipeInv
<1>6. \A t \in texts : \A r \in Runs : Live(r) /\ t.run < r => Leftover(r, t)
  <2>1. ASSUME NEW t \in texts, NEW r \in Runs, Live(r), t.run < r
        PROVE  Leftover(r, t)
    <3>1. PICK i \in 1..Len(pipe[s]) : t = pipe[s][i]
      BY <1>0, <1>1
    <3>2. t.kind # "job" => LastLive(t.run)
      BY <1>0, <1>5, <3>1 DEF PipeOf
    <3>3. t.run \in Nat
      BY <1>0, <1>1, <3>1, RunsAre DEF Texts, BashInv
    <3>4. t.kind # "job" => r <= t.run
      BY <1>0, <2>1, <3>2 DEF LastLive
    <3> QED BY <1>0, <2>1, <3>3, <3>4, RunsAre DEF Leftover, BashInv
  <2> QED BY <1>0, <2>1
<1>7. /\ \A u \in Streams : Ring(buffer'[u]) /\ \A r \in Runs : start'[r][u] <= buffer'[u].total
      /\ \A r \in Runs, u \in Streams : Kept(r, u) => Kept(r, u)'
      /\ \A r \in Runs : Holds(buffer[s], w, Text(r, "line")) => Kept(r, s)'
      /\ TextInv'
  BY <1>0, <1>6, WritesInv
<1>8. Types'
  BY <1>0, <1>4, <1>7 DEF BashInv, Types
<1>9. BufferInv'
  BY <1>0, <1>7 DEF BashInv, BufferInv, Ring
<1>10. SameLive
  BY DEF SameLive
<1>11. ShellInv'
  BY <1>0, <1>10, ShellStays DEF BashInv
<1>12. PipeInv'
  <2>1. ASSUME NEW u \in Streams, u # s
        PROVE  PipeOf(u)'
    <3>1. /\ PipeOf(u) /\ pipe'[u] = pipe[u] /\ (Passed(u)' <=> Passed(u))
          /\ Clear(u)' <=> Clear(u)
      BY <1>0, <1>4, <2>1 DEF BashInv, PipeInv, Passed, Clear
    <3> QED BY <1>0, <1>10, <3>1, LiveStays DEF BashInv, PipeOf, LastLive
  <2>2. PipeOf(s)'
    <3>0. ASSUME NEW i \in 1..Len(rest)
          PROVE  i + k \in 1..Len(pipe[s]) /\ rest[i] = pipe[s][i + k]
      BY <1>0, <1>1, <1>3
    <3>1. (Passed(s)' <=> Passed(s)) /\ (Clear(s) => Clear(s)')
      BY <1>0, <1>4, <3>0 DEF Passed, Clear
    <3>2. ASSUME NEW i \in 1..Len(rest), NEW y, y = rest[i]
          PROVE  /\ y.run <= made
                 /\ y.kind # "job" => LastLive(y.run) /\ (current # 0 => y.run = current)
                 /\ y.kind = "done" => Passed(s)
      BY <1>0, <1>5, <3>0, <3>2 DEF PipeOf
    <3>3. ASSUME NEW i \in 1..Len(rest), rest[i].kind # "job"
          PROVE  LastLive(pipe[s][i].run)'
      <4>1. PICK y : y = rest[i].run
        OBVIOUS
      <4>2. LastLive(y)
        BY <1>0, <3>2, <3>3, <4>1
      <4> QED BY <1>0, <1>4, <1>10, <4>1, <4>2, LiveStays DEF BashInv, LastLive
    <3>4. ASSUME NEW i \in 1..Len(rest), rest[i].kind = "done", NEW j \in (i + 1)..Len(rest)
          PROVE  rest[j].kind = "job"
      <4>1. i + k \in 1..Len(pipe[s]) /\ j \in 1..Len(rest) /\ j + k \in (i + k + 1)..Len(pipe[s])
        BY <1>0, <1>1, <1>3, <3>0
      <4> QED BY <1>0, <1>5, <3>0, <3>4, <4>1 DEF PipeOf
    <3>5. late[s] # 0 => LastLive(late[s] + 1)'
      BY <1>0, <1>5, <1>10, LiveStays DEF BashInv, PipeOf, LastLive
    <3> QED BY <1>0, <1>4, <1>5, <3>1, <3>2, <3>3, <3>4, <3>5 DEF PipeOf
  <2> QED BY <1>0, <2>1, <2>2 DEF PipeInv
<1>13. LineInv'
  <2>1. ASSUME NEW r \in Runs, NEW u \in Streams
        PROVE  LineOf(r, u)'
    <3>1. LineOf(r, u)
      BY DEF BashInv, LineInv
    <3>2. Piped(r, u) => Piped(r, u)' \/ Kept(r, u)'
      <4>1. CASE u # s
        BY <1>0, <1>4, <4>1 DEF Piped
      <4>2. ASSUME u = s, Piped(r, s)
            PROVE  Piped(r, s)' \/ Kept(r, s)'
        <5>1. PICK i \in 1..Len(pipe[s]) : pipe[s][i] = Text(r, "line")
          BY <1>0, <4>2 DEF Piped
        <5>2. CASE i \in 1..k
          BY <1>0, <1>7, <5>1, <5>2
        <5>3. CASE i \notin 1..k
          <6>1. i - k \in 1..Len(rest) /\ (i - k) + k = i
            BY <1>0, <1>1, <1>3, <5>3
          <6>2. rest[i - k] = Text(r, "line")
            BY <1>0, <1>3, <5>1, <6>1
          <6> QED BY <1>0, <1>4, <6>1, <6>2 DEF Piped
        <5> QED BY <1>0, <5>2, <5>3
      <4> QED BY <1>0, <4>1, <4>2
    <3>3. ASSUME \A i \in 1..Len(pipe[u]) : pipe[u][i].kind # "job" => pipe[u][i].run # r,
                 NEW j \in 1..Len(pipe'[u]), pipe'[u][j].kind # "job"
          PROVE  pipe'[u][j].run # r
      <4>1. CASE u # s
        BY <1>0, <1>4, <3>3, <4>1
      <4>2. CASE u = s
        <5>1. j + k \in 1..Len(pipe[s]) /\ pipe'[s][j] = pipe[s][j + k]
          BY <1>0, <1>1, <1>3, <1>4, <4>2
        <5> QED BY <1>0, <3>3, <4>2, <5>1
      <4> QED BY <1>0, <4>1, <4>2
    <3> QED BY <1>0, <1>7, <3>1, <3>2, <3>3 DEF LineOf
  <2> QED BY <1>0, <2>1 DEF LineInv
<1> QED BY <1>0, <1>7, <1>8, <1>9, <1>11, <1>12, <1>13, CallerStays, AnswerStays DEF BashInv

LEMMA ReadTextInv == ASSUME BashInv, NEW s \in Streams, ReadText(s) PROVE BashInv'
<1>1. PICK b, t : b = buffer[s] /\ t = Head(pipe[s])
  OBVIOUS
<1>2. /\ reader[s] = "read" /\ Len(pipe[s]) >= 1
      /\ buffer' = (IF t.kind = "marked" THEN buffer ELSE [buffer EXCEPT ![s] = Written(@, t)])
      /\ pipe' = [pipe EXCEPT ![s] = Tail(@)]
  <2>1. pipe[s] \in Seq(Texts)
    BY DEF BashInv, Types
  <2>2. LineReady(s) => Len(pipe[s]) >= 1
    BY <2>1, EmptySeq, LenProperties DEF LineReady
  <2>3. LastReady(s) => Len(pipe[s]) >= 1
    BY DEF LastReady
  <2> QED BY <1>1, <2>2, <2>3 DEF ReadText
<1>3. /\ UNCHANGED <<known, closed, current, done, exit, reader, late, start>>
      /\ UNCHANGED <<shell, stdin, doing, phase, printed, pc, run, made, answer, jobs, unfit>>
  BY DEF ReadText, Aside, given, commandVars, shellVars, callerVars
<1>4. /\ t = pipe[s][1] /\ t \in Texts
      /\ pipe'[s] = SubSeq(pipe[s], 1 + 1, Len(pipe[s])) /\ pipe' \in [Streams -> Seq(Texts)]
      /\ \A u \in Streams : u # s => pipe'[u] = pipe[u]
  <2>1. pipe[s] \in Seq(Texts) /\ pipe[s] # <<>>
    BY <1>2, EmptySeq DEF BashInv, Types
  <2>2. t = pipe[s][1] /\ t \in Texts
    BY <1>1, <2>1, HeadTailProperties
  <2>3. Tail(pipe[s]) = SubSeq(pipe[s], 1 + 1, Len(pipe[s])) /\ Tail(pipe[s]) \in Seq(Texts)
    BY <2>1, HeadTailProperties
  <2> QED BY <1>2, <2>2, <2>3 DEF BashInv, Types
<1>5. Ring(b)
  BY <1>1 DEF BashInv, BufferInv
<1>6. CASE t.kind = "marked"
  <2>1. buffer' = buffer /\ Grown(b, b, {}) /\ buffer' \in [Streams -> Buffers]
    BY <1>2, <1>5, <1>6, GrownSame DEF BashInv, Types
  <2>2. \A r \in Runs : t # Text(r, "line")
    BY <1>6 DEF Text
  <2>3. \A r \in Runs : \A i \in 1..1 : pipe[s][i] # Text(r, "line")
    BY <1>4, <2>2
  <2>5. Reads(s, 1, b, {})
    BY <1>1, <1>2, <1>4, <2>1, <2>3 DEF Reads
  <2> QED BY <1>3, <2>5, ReadsInv
<1>7. CASE t.kind # "marked"
  <2>1. PICK w : w = Written(b, t)
    OBVIOUS
  <2>5. Grown(b, w, {t}) /\ Holds(b, w, t) /\ buffer' = [buffer EXCEPT ![s] = w]
    BY <1>1, <1>2, <1>4, <1>5, <1>7, <2>1, GrownOne
  <2>2. /\ Grown(b, w, {t}) /\ Holds(b, w, t) /\ buffer'[s] = w
        /\ buffer' \in [Streams -> Buffers]
        /\ \A u \in Streams : u # s => buffer'[u] = buffer[u]
    BY <2>5, GrownIn DEF Grown
  <2>3. \A u \in {t} : \E i \in 1..1 : u = pipe[s][i]
    BY <1>4
  <2>4. \A r \in Runs : \A i \in 1..1 :
          pipe[s][i] = Text(r, "line") => Holds(b, w, Text(r, "line"))
    BY <1>4, <2>2
  <2>6. Reads(s, 1, w, {t})
    BY <1>1, <1>2, <1>4, <2>2, <2>3, <2>4 DEF Reads
  <2> QED BY <1>3, <2>6, ReadsInv
<1> QED BY <1>6, <1>7

LEMMA ReadJoinedInv == ASSUME BashInv, NEW s \in Streams, ReadJoined(s) PROVE BashInv'
<1>1. PICK b, w, t, u : /\ b = buffer[s] /\ t = pipe[s][1] /\ u = pipe[s][2]
                        /\ w = Written(Written(b, t), u)
  OBVIOUS
<1>2. /\ reader[s] = "read" /\ pipe[s] \in Seq(Texts) /\ Len(pipe[s]) \in Nat /\ Len(pipe[s]) >= 2
      /\ pipe'[s] = SubSeq(pipe[s], 2 + 1, Len(pipe[s])) /\ pipe' \in [Streams -> Seq(Texts)]
      /\ \A v \in Streams : v # s => pipe'[v] = pipe[v]
      /\ buffer' = [buffer EXCEPT ![s] = w]
      /\ t \in Texts /\ u \in Texts /\ u.kind = "job" /\ t.kind = "tail"
  <2>1. pipe[s] \in Seq(Texts) /\ Len(pipe[s]) \in Nat /\ Len(pipe[s]) >= 2
    BY LenProperties DEF ReadJoined, JoinReady, BashInv, Types
  <2>2. t \in Texts /\ u \in Texts /\ pipe[s] # <<>>
    BY <1>1, <2>1, ElementOfSeq, EmptySeq
  <2>3. Head(pipe[s]) = t
    BY <1>1, <2>1, <2>2, HeadTailProperties
  <2>4. PICK rest : rest = SubSeq(pipe[s], 2 + 1, Len(pipe[s]))
    OBVIOUS
  <2>5. rest \in Seq(Texts)
    BY <2>1, <2>4, RestIs
  <2>6. pipe' = [pipe EXCEPT ![s] = rest]
    BY <2>4 DEF ReadJoined
  <2>7. /\ pipe'[s] = rest /\ pipe' \in [Streams -> Seq(Texts)]
        /\ \A v \in Streams : v # s => pipe'[v] = pipe[v]
    BY <2>5, <2>6 DEF BashInv, Types
  <2> QED BY <1>1, <2>1, <2>2, <2>3, <2>4, <2>7 DEF ReadJoined, JoinReady
<1>3. /\ UNCHANGED <<known, closed, current, done, exit, reader, late, start>>
      /\ UNCHANGED <<shell, stdin, doing, phase, printed, pc, run, made, answer, jobs, unfit>>
  BY DEF ReadJoined, Aside, given, commandVars, shellVars, callerVars
<1>4. Grown(b, w, {t, u})
  <2>1. Ring(b)
    BY <1>1 DEF BashInv, BufferInv
  <2> QED BY <1>1, <1>2, <2>1, GrownTwo
<1>7. /\ buffer'[s] = w /\ buffer' \in [Streams -> Buffers]
      /\ \A v \in Streams : v # s => buffer'[v] = buffer[v]
  BY <1>2, <1>4, GrownIn DEF Grown
<1>5. \A x \in {t, u} : \E i \in 1..2 : x = pipe[s][i]
  BY <1>1
<1>6. \A r \in Runs : \A i \in 1..2 : pipe[s][i] # Text(r, "line")
  <2>1. \A r \in Runs : t # Text(r, "line") /\ u # Text(r, "line")
    BY <1>2 DEF Text
  <2>2. \A i \in 1..2 : i = 1 \/ i = 2
    OBVIOUS
  <2> QED BY <1>1, <2>1, <2>2
<1>8. Reads(s, 2, w, {t, u})
  BY <1>1, <1>2, <1>4, <1>5, <1>6, <1>7 DEF Reads
<1> QED BY <1>3, <1>8, ReadsInv

LEMMA ReaderDiesInv == ASSUME BashInv, NEW s \in Streams, ReaderDies(s) PROVE BashInv'
<1>1. /\ reader[s] = "read" /\ reader' = [reader EXCEPT ![s] = "dead"]
      /\ UNCHANGED <<known, closed, current, done, exit, buffer, late, start, pipe>>
      /\ UNCHANGED <<shell, stdin, doing, phase, printed, pc, run, made, answer, jobs, unfit>>
  BY DEF ReaderDies, Aside, given, commandVars, shellVars, callerVars
<1>2. Types'
  BY <1>1 DEF BashInv, Types
<1>3. BufferInv'
  <2>1. ASSUME NEW u \in Streams
        PROVE  reader'[u] = "write" <=> late[u] # 0
    BY <1>1 DEF BashInv, Types, BufferInv
  <2> QED BY <1>1, <2>1 DEF BashInv, BufferInv, Ring
<1>4. SameLive
  BY <1>1 DEF SameLive
<1> QED BY <1>1, <1>2, <1>3, <1>4, ShellStays, PipeStays, LineStays, TextStays, AnswerStays,
           CallerStays DEF BashInv

LEMMA WriteLateInv == ASSUME BashInv, NEW s \in Streams, WriteLate(s) PROVE BashInv'
<1>1. PICK t : t = Text(late[s], "tail")
  OBVIOUS
<1>2. /\ buffer' = [buffer EXCEPT ![s] = Written(@, t)]
      /\ late' = [late EXCEPT ![s] = 0] /\ reader' = [reader EXCEPT ![s] = "read"]
      /\ late[s] # 0
      /\ UNCHANGED <<known, closed, current, done, exit, pipe, start>>
      /\ UNCHANGED <<shell, stdin, doing, phase, printed, pc, run, made, answer, jobs, unfit>>
  BY <1>1 DEF WriteLate, Aside, given, commandVars, shellVars, callerVars, BashInv, BufferInv
<1>3. late[s] \in Runs /\ late[s] \in Nat
  BY <1>2, RunsAre DEF BashInv, Types
<1>4. t \in Texts /\ t.run = late[s]
  BY <1>1, <1>3 DEF Text, Texts, Kinds
<1>5. \A x \in {t} : \A r \in Runs : Live(r) /\ x.run < r => Leftover(r, x)
  <2>1. ASSUME NEW r \in Runs, Live(r), t.run < r
        PROVE  Leftover(r, t)
    <3>1. r <= late[s] + 1
      BY <1>2, <2>1 DEF BashInv, PipeInv, PipeOf, LastLive
    <3>2. late[s] = r - 1
      BY <1>3, <1>4, <2>1, <3>1, RunsAre DEF BashInv
    <3> QED BY <1>1, <3>2 DEF Leftover
  <2> QED BY <2>1
<1>6. PICK w : Grown(buffer[s], w, {t}) /\ buffer' = [buffer EXCEPT ![s] = w]
  <2>1. Ring(buffer[s])
    BY DEF BashInv, BufferInv
  <2> QED BY <1>2, <1>4, <2>1, GrownOne
<1>7. /\ late'[s] = 0 /\ reader'[s] = "read"
      /\ \A u \in Streams : u # s => late'[u] = late[u] /\ reader'[u] = reader[u]
  BY <1>2 DEF BashInv, Types
<1>9. /\ \A u \in Streams : Ring(buffer'[u]) /\ \A r \in Runs : start'[r][u] <= buffer'[u].total
      /\ \A r \in Runs, u \in Streams : Kept(r, u) => Kept(r, u)'
      /\ TextInv' /\ buffer' \in [Streams -> Buffers]
  <2>1. /\ buffer'[s] = w /\ buffer' \in [Streams -> Buffers]
        /\ \A u \in Streams : u # s => buffer'[u] = buffer[u]
    BY <1>6, GrownIn DEF Grown
  <2> QED BY <1>2, <1>5, <1>6, <2>1, WritesInv
<1>8. Types'
  <2>1. late' \in [Streams -> 0..made] /\ reader' \in [Streams -> {"read", "write", "dead"}]
    BY <1>2, RunsAre DEF BashInv, Types
  <2> QED BY <1>2, <1>9, <2>1 DEF BashInv, Types
<1>10. BufferInv'
  <2>1. ASSUME NEW u \in Streams
        PROVE  reader'[u] = "write" <=> late'[u] # 0
    <3>1. CASE u = s
      BY <1>7, <3>1
    <3>2. CASE u # s
      BY <1>7, <3>2 DEF BashInv, BufferInv
    <3> QED BY <3>1, <3>2
  <2> QED BY <1>9, <2>1 DEF BufferInv, Ring
<1>11. SameLive
  BY <1>2 DEF SameLive
<1>12. ShellInv'
  BY <1>2, <1>11, ShellStays DEF BashInv
<1>13. PipeInv'
  <2>1. ASSUME NEW u \in Streams
        PROVE  PipeOf(u)'
    <3>1. /\ PipeOf(u) /\ (Passed(u)' <=> Passed(u)) /\ late'[u] \in {0, late[u]}
          /\ Clear(u)' <=> Clear(u)
      BY <1>2, <1>7 DEF BashInv, PipeInv, Passed, Clear
    <3> QED BY <1>2, <1>11, <3>1, LiveStays DEF BashInv, PipeOf, LastLive
  <2> QED BY <2>1 DEF PipeInv
<1>14. LineInv'
  <2>1. ASSUME NEW r \in Runs, NEW u \in Streams
        PROVE  LineOf(r, u)'
    <3>1. LineOf(r, u) /\ (Piped(r, u)' <=> Piped(r, u))
      BY <1>2 DEF BashInv, LineInv, Piped
    <3> QED BY <1>2, <1>9, <3>1 DEF LineOf
  <2> QED BY <2>1 DEF LineInv
<1> QED BY <1>2, <1>8, <1>9, <1>10, <1>12, <1>13, <1>14, CallerStays, AnswerStays DEF BashInv

\* The reader comes to a sentinel: nothing is behind it, and its command, if it
\* is still in progress, is marked.
LEMMA ReadSentinelInv == ASSUME BashInv, NEW s \in Streams, ReadSentinel(s) PROVE BashInv'
<1>1. PICK k, x, head : k = SentinelAt(s) /\ x = pipe[s][k] /\ head = Head(pipe[s])
  OBVIOUS
<1>2. /\ reader[s] = "read" /\ Len(pipe[s]) >= k /\ x.kind = "done" /\ k \in {1, 2}
      /\ Mark(s, x.run) /\ pipe' = [pipe EXCEPT ![s] = SubSeq(@, k + 1, Len(@))]
      /\ IF k = 1 THEN UNCHANGED <<reader, late>>
         ELSE late' = [late EXCEPT ![s] = head.run] /\ reader' = [reader EXCEPT ![s] = "write"]
      /\ k = 2 => head.kind = "tail"
  BY <1>1 DEF ReadSentinel, SentinelAt
<1>3. /\ UNCHANGED <<known, closed, buffer, start, shell, stdin, doing, phase>>
      /\ UNCHANGED <<printed, pc, run, made, answer, jobs, unfit>>
  BY DEF ReadSentinel, Aside, given, shellVars, callerVars
<1>4. PipeOf(s) /\ pipe[s] \in Seq(Texts) /\ Len(pipe[s]) \in Nat
  BY LenProperties DEF BashInv, PipeInv, Types
<1>5. /\ k \in 1..Len(pipe[s]) /\ Passed(s) /\ x \in Texts
      /\ x.run \in Runs /\ x.run <= made /\ LastLive(x.run) /\ (current # 0 => x.run = current)
      /\ head = pipe[s][1] /\ head.run \in Runs /\ head.run <= made /\ LastLive(head.run)
      /\ current # 0 => head.run = current
      /\ \A i \in (k + 1)..Len(pipe[s]) : pipe[s][i].kind = "job"
  <2>1. k \in 1..Len(pipe[s]) /\ 1 \in 1..Len(pipe[s])
    BY <1>2, <1>4
  <2>2. x \in Texts /\ pipe[s][1] \in Texts /\ pipe[s] # <<>>
    BY <1>1, <1>4, <2>1, ElementOfSeq, EmptySeq
  <2>3. head = pipe[s][1]
    BY <1>1, <1>4, <2>2, HeadTailProperties
  <2>4. head.kind # "job" /\ x.kind # "job"
    BY <1>1, <1>2, <2>3
  <2> QED BY <1>1, <1>2, <1>4, <2>1, <2>2, <2>3, <2>4 DEF PipeOf, Texts
<1>6. /\ pipe'[s] \in Seq(Texts) /\ \A u \in Streams : u # s => pipe'[u] = pipe[u]
      /\ \A i \in 1..Len(pipe'[s]) : pipe'[s][i].kind = "job" /\ pipe'[s][i].run <= made
  <2>1. pipe'[s] = SubSeq(pipe[s], k + 1, Len(pipe[s])) /\ \A u \in Streams : u # s => pipe'[u] = pipe[u]
    BY <1>2 DEF BashInv, Types
  <2>2. /\ pipe'[s] \in Seq(Texts) /\ Len(pipe'[s]) = Len(pipe[s]) - k
        /\ \A i \in 1..Len(pipe'[s]) : pipe'[s][i] = pipe[s][i + k]
    BY <1>2, <1>4, <2>1, RestIs
  <2>3. ASSUME NEW i \in 1..Len(pipe'[s])
        PROVE  pipe'[s][i].kind = "job" /\ pipe'[s][i].run <= made
    <3>1. i + k \in (k + 1)..Len(pipe[s]) /\ i + k \in 1..Len(pipe[s])
      BY <1>4, <1>5, <2>2
    <3> QED BY <1>4, <1>5, <2>2, <3>1 DEF PipeOf
  <2> QED BY <2>1, <2>2, <2>3
<1>7. pipe' \in [Streams -> Seq(Texts)]
  <2>1. SubSeq(pipe[s], k + 1, Len(pipe[s])) \in Seq(Texts)
    BY <1>2, <1>6 DEF BashInv, Types
  <2> QED BY <1>2, <2>1 DEF BashInv, Types
<1>8. /\ late' \in [Streams -> 0..made] /\ reader' \in [Streams -> {"read", "write", "dead"}]
      /\ \A u \in Streams : u # s => late'[u] = late[u] /\ reader'[u] = reader[u]
      /\ reader'[s] = "write" <=> late'[s] # 0
      /\ late'[s] # 0 => late'[s] = head.run
  <2>1. late[s] = 0
    BY <1>2 DEF BashInv, BufferInv
  <2>2. head.run \in 0..made /\ head.run # 0
    BY <1>5, RunsAre DEF BashInv
  <2>3. CASE k = 1
    BY <1>2, <2>1, <2>3 DEF BashInv, Types
  <2>4. CASE k # 1
    BY <1>2, <2>2, <2>4 DEF BashInv, Types
  <2> QED BY <2>3, <2>4
<1>9. SameLive
  BY <1>3 DEF SameLive
<1>10. PICK r : r = x.run
  OBVIOUS
\* What the mark does to the command.
<1>11. /\ done' \in [Runs -> SUBSET Streams] /\ exit' \in [Runs -> Runs \cup {0, OfShell}]
       /\ current' \in {0, current}
       /\ \A q \in Runs : q # r \/ current = 0 => done'[q] = done[q] /\ exit'[q] = exit[q]
       /\ current # 0 =>
            /\ current = r /\ done'[r] = done[r] \cup {s} /\ exit'[r] \in {r, exit[r]}
            /\ s = "out" => exit'[r] = r
            /\ current' = IF done'[r] = Streams THEN 0 ELSE r
  <2>1. CASE current = 0
    <3>1. UNCHANGED <<current, done, exit>>
      BY <1>2, <1>5, <2>1, RunsAre DEF Mark, commandVars, BashInv
    <3> QED BY <2>1, <3>1 DEF BashInv, Types
  <2>2. CASE current # 0
    <3>1. /\ current = r /\ r \in Runs
          /\ done' = [done EXCEPT ![r] = @ \cup {s}]
          /\ exit' = IF s = "out" THEN [exit EXCEPT ![r] = r] ELSE exit
          /\ current' = IF done'[r] = Streams THEN 0 ELSE r
      BY <1>2, <1>5, <1>10, <2>2 DEF Mark
    <3>2. done' \in [Runs -> SUBSET Streams] /\ done'[r] = done[r] \cup {s}
      BY <3>1 DEF BashInv, Types
    <3>3. exit' \in [Runs -> Runs \cup {0, OfShell}] /\ exit'[r] \in {r, exit[r]}
          /\ (s = "out" => exit'[r] = r)
      BY <3>1 DEF BashInv, Types
    <3>4. \A q \in Runs : q # r => done'[q] = done[q] /\ exit'[q] = exit[q]
      BY <3>1 DEF BashInv, Types
    <3> QED BY <2>2, <3>1, <3>2, <3>3, <3>4
  <2> QED BY <2>1, <2>2
<1>12. Types'
  BY <1>3, <1>7, <1>8, <1>11, RunsAre DEF BashInv, Types
<1>13. BufferInv'
  BY <1>3, <1>8 DEF BashInv, BufferInv, Ring
<1>14. doing # 0 => current' = current
  <2>1. ASSUME doing # 0, current # 0, done'[r] = Streams
        PROVE  FALSE
    <3>1. s = "err" /\ "out" \in done[current]
      BY <1>5, <1>11, <2>1 DEF Passed, Streams
    <3>2. Passed("out")
      BY <2>1, <3>1 DEF Streams, BashInv, PipeInv, PipeOf
    <3> QED BY <2>1, <3>2 DEF Passed
  <2> QED BY <1>11, <2>1
<1>15. ShellInv'
  <2>1. current' # 0 => /\ done'[current'] # Streams /\ current' = current /\ current = made
                        /\ current \in unfit \/ Live(current)
    BY <1>11 DEF BashInv, ShellInv
  <2>2. \A q \in Runs : q > made => done'[q] = {}
    <3>1. ASSUME NEW q \in Runs, q > made
          PROVE  done'[q] = {}
      <4>1. q # r
        BY <1>5, <1>10, <3>1, RunsAre DEF BashInv
      <4> QED BY <1>11, <3>1, <4>1 DEF BashInv, ShellInv
    <3> QED BY <3>1
  <2>3. stdin = 0
    BY <1>5 DEF Passed
  <2>4. current' # 0 => current' \in unfit \/ Live(current)'
    BY <1>9, <2>1, LiveStays DEF BashInv, Live
  <2>5. \A q : Live(q)' <=> Live(q)
    BY <1>9, LiveStays DEF BashInv
  <2> QED BY <1>3, <1>14, <2>1, <2>2, <2>3, <2>4, <2>5 DEF BashInv, ShellInv
<1>16. \A u \in Streams : Passed(u)' <=> Passed(u)
  BY <1>3 DEF Passed
<1>17. ASSUME current' = 0, ~closed
       PROVE  \A u \in Streams : Clear(u)' /\ (shell = "up" => late'[u] \in {0, made})
  <2>1. current # 0
    BY <1>1, <1>2, <1>4, <1>5, <1>17 DEF PipeOf, Clear
  <2>2. done[r] \cup {s} = Streams /\ current = r
    BY <1>5, <1>10, <1>11, <1>17, <2>1, RunsAre DEF BashInv
  <2>3. made = current
    BY <2>1 DEF BashInv, ShellInv
  <2>4. ASSUME NEW u \in Streams, u # s
        PROVE  Clear(u)' /\ late'[u] \in {0, made}
    <3>1. u \in done[current]
      BY <2>2, <2>4
    <3>2. Clear(u) /\ late[u] \in {0, current}
      BY <2>1, <3>1 DEF BashInv, PipeInv, PipeOf
    <3> QED BY <1>6, <1>8, <2>3, <2>4, <3>2 DEF Clear
  <2>5. late'[s] \in {0, made}
    BY <1>5, <1>8, <2>1, <2>3
  <2>6. Clear(s)'
    BY <1>6 DEF Clear
  <2> QED BY <2>4, <2>5, <2>6
<1>18. PipeInv'
  <2>1. ASSUME NEW u \in Streams, u # s
        PROVE  PipeOf(u)'
    <3>1. /\ PipeOf(u) /\ pipe'[u] = pipe[u] /\ (Passed(u)' <=> Passed(u)) /\ late'[u] = late[u]
          /\ Clear(u)' <=> Clear(u)
      BY <1>6, <1>8, <1>16, <2>1 DEF BashInv, PipeInv, Clear
    <3>2. current' # 0 => current' = current /\ (u \in done'[current'] => u \in done[current])
      BY <1>11, <2>1
    <3> QED BY <1>3, <1>9, <1>17, <3>1, <3>2, LiveStays DEF BashInv, PipeOf, LastLive
  <2>2. PipeOf(s)'
    <3>1. Clear(s)'
      BY <1>6 DEF Clear
    <3>2. current' # 0 => late'[s] \in {0, current'}
      BY <1>5, <1>8, <1>11
    <3>3. late'[s] # 0 => LastLive(late[s] + 1)'
      <4>1. \A q \in Runs : Live(q) => q <= head.run + 1
        BY <1>5, RunsAre DEF BashInv, LastLive
      <4> QED BY <1>8, <1>9, <4>1, LiveStays DEF BashInv, LastLive
    <3> QED BY <1>3, <1>5, <1>6, <1>16, <1>17, <3>1, <3>2, <3>3 DEF PipeOf
  <2> QED BY <2>1, <2>2 DEF PipeInv
<1>19. LineInv'
  <2>1. ASSUME NEW q \in Runs, NEW u \in Streams
        PROVE  LineOf(q, u)'
    <3>1. LineOf(q, u) /\ (Kept(q, u)' <=> Kept(q, u))
      BY <1>3 DEF BashInv, LineInv, Kept, Gone, At
    <3>2. Piped(q, u) => Piped(q, u)'
      <4>1. CASE u # s
        BY <1>6, <4>1 DEF Piped
      <4>2. ASSUME u = s, Piped(q, s)
            PROVE  FALSE
        <5>1. PICK i \in 1..Len(pipe[s]) : pipe[s][i].kind = "line"
          BY <4>2 DEF Piped, Text
        <5>2. i # k /\ i \notin (k + 1)..Len(pipe[s])
          BY <1>1, <1>2, <1>5, <5>1
        <5>3. i = 1 /\ k = 2
          BY <1>2, <1>5, <5>2
        <5> QED BY <1>2, <1>5, <5>1, <5>3
      <4> QED BY <4>1, <4>2
    <3>3. ASSUME u \in done'[q], exit'[q] # OfShell, NEW i \in 1..Len(pipe'[u]),
                 pipe'[u][i].kind # "job"
          PROVE  pipe'[u][i].run # q
      <4>1. CASE u = s
        BY <1>6, <3>3, <4>1
      <4>2. CASE u # s
        <5>1. u \in done[q] /\ pipe'[u] = pipe[u]
          BY <1>6, <1>11, <3>3, <4>2
        <5>2. CASE q = r /\ current # 0
          BY <1>11, <3>3, <5>1, <5>2 DEF BashInv, PipeInv, PipeOf, Clear
        <5>3. CASE q # r \/ current = 0
          BY <1>11, <3>1, <3>3, <5>1, <5>3 DEF LineOf
        <5> QED BY <5>2, <5>3
      <4> QED BY <4>1, <4>2
    <3>4. "out" \in done'[q] => exit'[q] \in {q, OfShell}
      <4>1. CASE q = r /\ current # 0
        BY <1>11, <3>1, <4>1 DEF LineOf
      <4>2. CASE q # r \/ current = 0
        BY <1>11, <3>1, <4>2 DEF LineOf
      <4> QED BY <4>1, <4>2
    <3> QED BY <1>3, <3>1, <3>2, <3>3, <3>4 DEF LineOf
  <2> QED BY <2>1 DEF LineInv
<1>20. TextInv'
  BY <1>3, <1>9, TextStays DEF BashInv
<1>21. AnswerInv'
  <2>1. ASSUME NEW q \in Runs
        PROVE  AnswerOf(q)'
    <3>1. AnswerOf(q)
      BY DEF BashInv, AnswerInv
    <3>2. answer[q].status = "completed" /\ answer[q].exit = q => q # r \/ current = 0
      BY <1>11, <3>1 DEF AnswerOf, BashInv, ShellInv
    <3>3. \A u \in Streams : OwnLine(q, u)'
      BY <1>3, <3>1 DEF AnswerOf, OwnLine
    <3> QED BY <1>3, <1>11, <3>1, <3>2, <3>3 DEF AnswerOf
  <2> QED BY <2>1 DEF AnswerInv
<1> QED BY <1>3, <1>12, <1>13, <1>15, <1>18, <1>19, <1>20, <1>21, CallerStays DEF BashInv

\* The shell is gone: the command in progress ends with the shell's status.
LEMMA ReapInv == ASSUME BashInv, Reap PROVE BashInv'
<1>1. /\ shell = "dead" /\ current' = 0
      /\ done' = IF current = 0 THEN done ELSE [done EXCEPT ![current] = Streams]
      /\ exit' = IF current = 0 THEN exit ELSE [exit EXCEPT ![current] = OfShell]
      /\ UNCHANGED <<known, start, reader, late, buffer, pipe, shell, stdin, doing, phase>>
      /\ UNCHANGED <<printed, pc, run, made, answer, jobs, unfit>>
  BY DEF Reap, Aside, given, readerVars, shellVars, callerVars
<1>2. closed' = TRUE
  BY DEF Reap
<1>3. current # 0 => current \in Runs /\ current <= made /\ done[current] # Streams
  BY RunsAre DEF BashInv, ShellInv, Types
<1>4. /\ done' \in [Runs -> SUBSET Streams] /\ exit' \in [Runs -> Runs \cup {0, OfShell}]
      /\ \A r \in Runs : r # current => done'[r] = done[r] /\ exit'[r] = exit[r]
      /\ \A r \in Runs : r = current => exit'[r] = OfShell
  <2>1. CASE current = 0
    BY <1>1, <2>1, RunsAre DEF BashInv, Types
  <2>2. CASE current # 0
    BY <1>1, <1>3, <2>2 DEF BashInv, Types
  <2> QED BY <2>1, <2>2
<1>5. Types'
  BY <1>1, <1>2, <1>4, RunsAre DEF BashInv, Types
<1>6. SameLive
  BY <1>1 DEF SameLive
<1>7. ShellInv'
  <2>1. \A r \in Runs : r > made => done'[r] = {}
    BY <1>3, <1>4, RunsAre DEF BashInv, ShellInv
  <2>2. shell' # "up" /\ doing = 0 /\ stdin = 0
    BY <1>1 DEF BashInv, ShellInv
  <2> QED BY <1>1, <2>1, <2>2 DEF BashInv, ShellInv
<1>8. PipeInv'
  <2>1. ASSUME NEW s \in Streams
        PROVE  PipeOf(s)'
    <3>1. PipeOf(s) /\ (Passed(s)' <=> Passed(s)) /\ closed'
      BY <1>1, <1>2 DEF BashInv, PipeInv, Passed
    <3> QED BY <1>1, <1>6, <3>1, LiveStays DEF BashInv, PipeOf, LastLive
  <2> QED BY <2>1 DEF PipeInv
<1>9. LineInv'
  <2>1. ASSUME NEW r \in Runs, NEW s \in Streams
        PROVE  LineOf(r, s)'
    <3>1. LineOf(r, s) /\ (Piped(r, s)' <=> Piped(r, s)) /\ (Kept(r, s)' <=> Kept(r, s))
      BY <1>1 DEF BashInv, LineInv, Piped, Kept, Gone, At
    <3>2. CASE r = current
      BY <1>1, <1>4, <3>1, <3>2 DEF LineOf
    <3>3. CASE r # current
      BY <1>1, <1>4, <3>1, <3>3 DEF LineOf
    <3> QED BY <3>2, <3>3
  <2> QED BY <2>1 DEF LineInv
<1>10. AnswerInv'
  <2>1. ASSUME NEW r \in Runs
        PROVE  AnswerOf(r)'
    <3>1. AnswerOf(r)
      BY DEF BashInv, AnswerInv
    <3>2. answer[r].status = "completed" /\ answer[r].exit = r => r # current
      BY <1>3, <3>1, RunsAre DEF AnswerOf, BashInv
    <3>3. \A s \in Streams : OwnLine(r, s)'
      BY <1>1, <3>1 DEF AnswerOf, OwnLine
    <3> QED BY <1>1, <1>4, <3>1, <3>2, <3>3 DEF AnswerOf
  <2> QED BY <2>1 DEF AnswerInv
<1> QED BY <1>1, <1>5, <1>6, <1>7, <1>8, <1>9, <1>10, CallerStays, BufferStays, TextStays
        DEF BashInv, readerVars

-----------------------------------------------------------------------------
(* What holds of every session.                                              *)

LEMMA StepInv == BashInv /\ [Next]_vars => BashInv'
<1> SUFFICES ASSUME BashInv, [Next]_vars PROVE BashInv'
  OBVIOUS
<1>1. CASE \E c \in Callers : Lookup(c) \/ CallerStep(c)
  <2>1. PICK c \in Callers : Lookup(c) \/ CallerStep(c)
    BY <1>1
  <2> QED BY <2>1, LookupInv, RunInv, CompletedInv, TimeoutInv, StatusInv, KillInv,
             TermExpiresInv, KilledInv DEF CallerStep
<1>2. CASE Close \/ ShellDies \/ Reap
  BY <1>2, CloseInv, ShellDiesInv, ReapInv
<1>7. CASE \E r \in jobs : JobEnds(r)
  BY <1>7, JobEndsInv
<1>3. CASE ShellStep
  BY <1>3, ShellReadsInv, ShellEndsInv, ShellReportsInv DEF ShellStep
<1>4. CASE \E p \in Prints : ShellPrints(p[1], p[2], p[3])
  BY <1>4, ShellPrintsInv
<1>5. CASE \E s \in Streams : ReaderStep(s)
  BY <1>5, ReadTextInv, ReadJoinedInv, ReadSentinelInv, WriteLateInv, ReaderDiesInv
     DEF ReaderStep
<1>6. CASE UNCHANGED vars
  <2>1. /\ UNCHANGED <<known, closed, current, done, exit, start, reader, late, buffer>>
        /\ UNCHANGED <<shell, stdin, doing, phase, printed, pipe, pc, run, made, answer, jobs, unfit>>
    BY <1>6 DEF vars, given, commandVars, readerVars, shellVars, callerVars
  <2>2. Types'
    BY <2>1 DEF BashInv, Types
  <2> QED BY <2>1, <2>2, CallerStays, CallerOnly DEF BashInv, commandVars, readerVars, shellVars
<1> QED BY <1>1, <1>2, <1>3, <1>4, <1>5, <1>6, <1>7 DEF Next

LEMMA BashIsInv == Spec => []BashInv
BY InitInv, StepInv, PTL DEF Spec

LEMMA InvTypes == BashInv => TypeOK
<1> SUFFICES ASSUME BashInv PROVE TypeOK
  OBVIOUS
<1>1. ASSUME NEW s \in Streams
      PROVE  /\ buffer[s].data \in Seq(Texts) /\ Len(buffer[s].data) <= Size
             /\ buffer[s].truncated = (buffer[s].total > Size)
             /\ pipe[s] \in Seq(Texts)
             /\ \A r \in Runs : start[r][s] \in 0..buffer[s].total
             /\ reader[s] = "write" <=> late[s] # 0
  <2>1. Ring(buffer[s]) /\ buffer[s].total \in Nat
    BY GoneIs DEF BashInv, BufferInv
  <2>2. buffer[s].data \in Seq(Texts) /\ buffer[s].truncated = (buffer[s].total > Size)
    BY <2>1 DEF Ring, Buffers
  <2>3. Len(buffer[s].data) <= Size
    BY <2>1, SizeIs DEF Ring
  <2>4. \A r \in Runs : start[r][s] \in 0..buffer[s].total
    BY <2>1 DEF BashInv, Types, BufferInv
  <2> QED BY <2>2, <2>3, <2>4 DEF BashInv, Types, BufferInv
<1>2. /\ shell = "dead" => doing = 0 /\ stdin = 0
      /\ doing = 0 <=> phase = "idle"
      /\ current # 0 => ~(done[current] = Streams)
  BY DEF BashInv, ShellInv
<1> QED BY <1>1, <1>2 DEF BashInv, Types, TypeOK

\* Every variable keeps its type: no stream is ever shown more than its buffer
\* holds, and no command stays in progress once both its streams have ended.
THEOREM SessionTyped == Spec => []TypeOK
BY BashIsInv, InvTypes, PTL

\* A command that ended is answered with its own status and its lines, and of
\* what the commands before it printed at most the late tail of the one just
\* before and lines of their background jobs, for any number of threads, commands
\* and chunks of buffer, whether or not readers die and runs raise.
THEOREM ShowsOwnLines == Spec => []OwnLines
<1>1. BashInv => OwnLines
  BY DEF BashInv, AnswerInv, AnswerOf, OwnLine, OwnLines, Leftover
<1> QED BY <1>1, BashIsInv, PTL
=============================================================================
