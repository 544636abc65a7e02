---------------------------- MODULE StorageProofs ----------------------------
(***************************************************************************)
(* Proofs about Storage, for any writers, rows and cuts.  Of all modes it  *)
(* is shown that a file is a header, or none, and rows numbered from 0,    *)
(* also in the middle of a write and after one that was cut short.         *)
(***************************************************************************)
EXTENDS Storage, SequenceTheorems, TLAPS

Lines == Rows \cup {Header}
Numbered(rows, m) ==
  rows \in Seq(Rows) /\ Len(rows) <= m /\ \A i \in 1..Len(rows) : rows[i].seq = i - 1
Headed(rows) == <<Header>> \o rows
Shaped(f, m) == Numbered(Events(f), m) /\ f \in {Events(f), Headed(Events(f))}
\* No row breaks in two when it is read.
Plain(rows) == \A i \in 1..Len(rows) : ~rows[i].split
Starts(s, t) == Len(s) <= Len(t) /\ \A i \in 1..Len(s) : s[i] = t[i]

-----------------------------------------------------------------------------
(* Sequences.                                                                *)

LEMMA PrefixIs ==
  ASSUME NEW S, NEW s \in Seq(S), NEW t \in Seq(S)
  PROVE  IsPrefix(s, t) <=> Starts(s, t)
<1>1. Len(s) \in Nat /\ Len(t) \in Nat /\ SubSeq(s, 1, Len(s)) = s
  BY SubSeqFull, LenProperties
<1>2. CASE Len(s) <= Len(t)
  <2>1. \A i \in 1..Len(s) : i \in 1..Len(t) /\ t[i] \in S
    BY <1>1, <1>2, ElementOfSeq
  <2>2. /\ SubSeq(t, 1, Len(s)) \in Seq(S)
        /\ Len(SubSeq(t, 1, Len(s))) = Len(s)
        /\ \A i \in 1..Len(s) : SubSeq(t, 1, Len(s))[i] = t[i]
    BY <1>1, <2>1, SubSeqProperties
  <2>3. s = SubSeq(t, 1, Len(s)) <=> \A i \in 1..Len(s) : s[i] = t[i]
    BY <2>2, SeqEqual
  <2> QED BY <1>1, <1>2, <2>3 DEF IsPrefix, Starts
<1> QED BY <1>1, <1>2 DEF IsPrefix, Starts

LEMMA StartsAll ==
  /\ \A s \in Seq(Rows) : Starts(s, s) /\ Starts(<<>>, s)
  /\ \A s, t, u \in Seq(Rows) : Starts(s, t) /\ Starts(t, u) => Starts(s, u)
  /\ \A s, t, u \in Seq(Rows) : Starts(s, u) /\ Starts(t, u) => Starts(s, t) \/ Starts(t, s)
  /\ \A s, t \in Seq(Rows) : Starts(s, t) /\ Len(t) <= Len(s) => s = t
  /\ \A s \in Seq(Rows), r \in Rows : Starts(s, Append(s, r))
<1>1. \A s \in Seq(Rows) : Len(s) \in Nat
  BY LenProperties
<1>2. \A s, t \in Seq(Rows) : Starts(s, t) /\ Len(t) <= Len(s) => s = t
  BY <1>1, SeqEqual DEF Starts
<1>3. \A s, t, u \in Seq(Rows) : Starts(s, u) /\ Starts(t, u) => Starts(s, t) \/ Starts(t, s)
  BY <1>1 DEF Starts
<1>4. \A s, t, u \in Seq(Rows) : Starts(s, t) /\ Starts(t, u) => Starts(s, u)
  BY <1>1 DEF Starts
<1>5. \A s \in Seq(Rows), r \in Rows : Starts(s, Append(s, r))
  BY <1>1, AppendProperties DEF Starts
<1>6. \A s \in Seq(Rows) : Starts(s, s) /\ Starts(<<>>, s)
  BY <1>1 DEF Starts
<1> QED BY <1>2, <1>3, <1>4, <1>5, <1>6

-----------------------------------------------------------------------------
(* Files.                                                                    *)

LEMMA NoHeader == Header \notin Rows /\ Header.seq = -1
BY StorageAssumption DEF Rows, Header, Row

LEMMA HeadedIs ==
  ASSUME NEW rows \in Seq(Rows)
  PROVE  /\ Headed(rows) \in Seq(Lines) /\ Headed(rows) # <<>>
         /\ Len(Headed(rows)) = Len(rows) + 1 /\ Len(rows) \in Nat
         /\ Headed(rows)[1] = Header /\ Head(Headed(rows)) = Header
         /\ \A i \in 1..Len(rows) : Headed(rows)[i + 1] = rows[i] /\ rows[i] \in Rows
         /\ Tail(Headed(rows)) = rows
<1>1. Header \in Lines /\ <<Header>> \in Seq(Lines) /\ Len(<<Header>>) = 1 /\ rows \in Seq(Lines)
      /\ <<Header>>[1] = Header
  BY SeqMonotonic DEF Lines
<1>2. Len(rows) \in Nat /\ \A i \in 1..Len(rows) : rows[i] \in Rows
  BY LenProperties, ElementOfSeq
<1>3. /\ Headed(rows) \in Seq(Lines) /\ Len(Headed(rows)) = 1 + Len(rows)
      /\ \A i \in 1..(1 + Len(rows)) : Headed(rows)[i] = IF i <= 1 THEN Header ELSE rows[i - 1]
  BY <1>1, ConcatProperties DEF Headed
<1>4. Headed(rows) # <<>>
  BY <1>2, <1>3
<1>5. Headed(rows)[1] = Header /\ \A i \in 1..Len(rows) : Headed(rows)[i + 1] = rows[i]
  BY <1>2, <1>3
<1>6. Head(Headed(rows)) = Header
  BY <1>3, <1>4, <1>5
<1>7. Tail(Headed(rows)) = rows
  <2>1. /\ Tail(Headed(rows)) \in Seq(Lines) /\ Len(Tail(Headed(rows))) = Len(rows)
        /\ \A i \in 1..Len(rows) : Tail(Headed(rows))[i] = Headed(rows)[i + 1]
    BY <1>2, <1>3, <1>4, HeadTailProperties
  <2> QED BY <1>1, <1>5, <2>1, SeqEqual
<1> QED BY <1>2, <1>3, <1>4, <1>5, <1>6, <1>7

LEMMA NumberedMore ==
  ASSUME NEW m \in Nat, NEW n \in Nat, m <= n
  PROVE  /\ \A rows : Numbered(rows, m) => Numbered(rows, n)
         /\ \A f : Shaped(f, m) => Shaped(f, n)
<1>1. \A rows \in Seq(Rows) : Len(rows) \in Nat
  BY LenProperties
<1>2. \A rows : Numbered(rows, m) => Numbered(rows, n)
  BY <1>1 DEF Numbered
<1> QED BY <1>2 DEF Shaped

LEMMA EventsOf ==
  ASSUME NEW rows \in Seq(Rows)
  PROVE  Events(rows) = rows /\ Events(Headed(rows)) = rows
<1>1. rows # <<>> => Head(rows) \in Rows
  BY HeadTailProperties
<1> QED BY <1>1, HeadedIs, NoHeader DEF Events

LEMMA ShapedOf ==
  ASSUME NEW m \in Nat, NEW rows, Numbered(rows, m)
  PROVE  Shaped(rows, m) /\ Shaped(Headed(rows), m)
BY EventsOf DEF Shaped, Numbered

LEMMA ShapedIs ==
  ASSUME NEW m \in Nat, NEW f, Shaped(f, m)
  PROVE  /\ f \in Seq(Lines) /\ Len(f) \in Nat /\ Events(f) \in Seq(Rows)
         /\ \A n \in DOMAIN f : f[n] = Header => n = 1
         /\ f = <<>> => Events(f) = <<>>
         /\ f # <<>> /\ Head(f) = Header => f = Headed(Events(f))
         /\ f # <<>> /\ Head(f) # Header => f = Events(f)
<1> DEFINE rows == Events(f)
<1>1. rows \in Seq(Rows) /\ rows \in Seq(Lines) /\ f \in {rows, Headed(rows)}
  <2>1. Rows \subseteq Lines
    BY DEF Lines
  <2> QED BY <2>1, SeqMonotonic DEF Shaped, Numbered
<1>2. f = <<>> => rows = <<>>
  BY DEF Events
<1> HIDE DEF rows
<1>3. /\ rows # <<>> => Head(rows) # Header
      /\ \A n \in 1..Len(rows) : rows[n] # Header
  BY <1>1, HeadTailProperties, NoHeader, ElementOfSeq
<1>4. f \in Seq(Lines) /\ Len(f) \in Nat /\ DOMAIN f = 1..Len(f)
  BY <1>1, HeadedIs, LenProperties
<1>5. \A n \in DOMAIN f : f[n] = Header => n = 1
  <2>1. CASE f = rows
    BY <1>3, <1>4, <2>1
  <2>2. CASE f = Headed(rows)
    <3> SUFFICES ASSUME NEW n \in 1..Len(f), n # 1 PROVE f[n] # Header
      BY <1>4
    <3>1. n - 1 \in 1..Len(rows) /\ (n - 1) + 1 = n
      BY <1>1, <2>2, HeadedIs
    <3>2. f[(n - 1) + 1] = rows[n - 1]
      BY <1>1, <2>2, <3>1, HeadedIs
    <3> QED BY <1>3, <3>1, <3>2
  <2> QED BY <1>1, <2>1, <2>2
<1>6. f # <<>> /\ Head(f) = Header => f = Headed(rows)
  BY <1>1, <1>3
<1>7. f # <<>> /\ Head(f) # Header => f = rows
  BY <1>1, HeadedIs
<1> QED BY <1>1, <1>2, <1>4, <1>5, <1>6, <1>7 DEF rows

\* A file cut short, as a crash leaves it or a reader sees it, is a file.
LEMMA ShapedPart ==
  ASSUME NEW m \in Nat, NEW f, Shaped(f, m), NEW n \in 0..Len(f)
  PROVE  /\ Shaped(SubSeq(f, 1, n), m)
         /\ Starts(Events(SubSeq(f, 1, n)), Events(f))
<1> DEFINE rows == Events(f)
           part == SubSeq(f, 1, n)
           head == SubSeq(rows, 1, n - 1)
<1>0. /\ f \in Seq(Lines) /\ Len(f) \in Nat /\ rows \in Seq(Rows) /\ Numbered(rows, m)
      /\ f \in {rows, Headed(rows)} /\ Len(rows) \in Nat /\ n \in Nat
  BY ShapedIs, LenProperties DEF Shaped
<1>1. /\ \A i \in 1..Len(f) : f[i] \in Lines
      /\ \A i \in 1..Len(rows) : rows[i] \in Rows
  BY <1>0, ElementOfSeq
<1> HIDE DEF rows, part
\* The first k rows of a numbered list.
<1>2. ASSUME NEW k \in 0..Len(rows), NEW s, s = SubSeq(rows, 1, k)
      PROVE  Numbered(s, m) /\ Starts(s, rows) /\ Len(s) = k /\ \A i \in 1..k : s[i] = rows[i]
  <2>1. s \in Seq(Rows) /\ Len(s) = k /\ \A i \in 1..k : s[i] = rows[i]
    BY <1>0, <1>1, <1>2, SubSeqProperties
  <2> QED BY <1>0, <2>1 DEF Numbered, Starts
<1>3. CASE f = rows
  <2>1. Numbered(part, m) /\ Starts(part, rows) /\ part \in Seq(Rows)
    BY <1>0, <1>2, <1>3 DEF part, Numbered
  <2> QED BY <2>1, ShapedOf, EventsOf DEF rows, part
<1>4. CASE f = Headed(rows) /\ n = 0
  <2>1. part = <<>> /\ <<>> \in Seq(Rows) /\ Len(<<>>) = 0
    BY <1>4, SubSeqEmpty DEF part
  <2>2. Numbered(<<>>, m)
    BY <2>1 DEF Numbered
  <2>3. Events(<<>>) = <<>> /\ Starts(<<>>, rows)
    BY <1>0, <2>1, StartsAll, EventsOf
  <2> QED BY <2>1, <2>2, <2>3, ShapedOf DEF rows, part
<1>5. CASE f = Headed(rows) /\ n # 0
  <2>1. n - 1 \in 0..Len(rows) /\ Len(f) = Len(rows) + 1 /\ n \in 1..Len(f)
    BY <1>0, <1>5, HeadedIs
  <2>2. /\ Numbered(head, m) /\ Starts(head, rows) /\ Len(head) = n - 1
        /\ \A i \in 1..(n - 1) : head[i] = rows[i]
    BY <1>2, <2>1
  <2> HIDE DEF head
  <2>3. /\ part \in Seq(Lines) /\ Len(part) = n
        /\ \A i \in 1..n : part[i] = f[i]
    BY <1>0, <1>1, <2>1, SubSeqProperties DEF part
  <2>4. head \in Seq(Rows)
    BY <2>2 DEF Numbered
  <2>5. /\ Headed(head) \in Seq(Lines) /\ Len(Headed(head)) = n /\ Headed(head)[1] = Header
        /\ \A i \in 1..(n - 1) : Headed(head)[i + 1] = head[i]
    BY <2>1, <2>2, <2>4, HeadedIs
  <2>6. f[1] = Header /\ \A i \in 1..Len(rows) : f[i + 1] = rows[i]
    BY <1>0, <1>5, HeadedIs
  <2>7. \A i \in 1..n : part[i] = Headed(head)[i]
    <3> SUFFICES ASSUME NEW i \in 1..n PROVE part[i] = Headed(head)[i]
      OBVIOUS
    <3>1. CASE i = 1
      BY <2>3, <2>5, <2>6, <3>1
    <3>2. CASE i # 1
      <4>1. i - 1 \in 1..(n - 1) /\ i - 1 \in 1..Len(rows) /\ (i - 1) + 1 = i
        BY <1>0, <2>1, <3>2
      <4>2. f[i] = rows[i - 1] /\ Headed(head)[i] = head[i - 1] /\ head[i - 1] = rows[i - 1]
        BY <2>2, <2>5, <2>6, <4>1
      <4> QED BY <2>3, <4>2
    <3> QED BY <3>1, <3>2
  <2>8. part = Headed(head)
    BY <2>3, <2>5, <2>7, SeqEqual
  <2> QED BY <2>2, <2>4, <2>8, ShapedOf, EventsOf DEF rows, part
<1> QED BY <1>0, <1>3, <1>4, <1>5

LEMMA ReadableIs ==
  ASSUME NEW m \in Nat, NEW f, Shaped(f, m), NEW bad \in BOOLEAN
  PROVE  /\ ReadAll(f, bad) <=> ~bad /\ f # <<>> /\ Head(f) = Header /\ Plain(Events(f))
         /\ ReadAll(f, bad) => Tail(f) = Events(f) /\ f = Headed(Events(f))
<1>1. ReadAll(f, bad) => ~bad /\ f # <<>> /\ Head(f) = Header
  BY DEF ReadAll
<1>2. ASSUME ~bad, f # <<>>, Head(f) = Header
      PROVE  (ReadAll(f, bad) <=> Plain(Events(f))) /\ Tail(f) = Events(f) /\ f = Headed(Events(f))
  <2> DEFINE rows == Events(f)
  <2>1. Numbered(rows, m) /\ rows \in Seq(Rows) /\ f = Headed(rows)
    BY <1>2, ShapedIs DEF Shaped
  <2> HIDE DEF rows
  <2>2. /\ Len(f) = Len(rows) + 1 /\ Len(rows) \in Nat /\ Tail(f) = rows
        /\ \A i \in 1..Len(rows) : f[i + 1] = rows[i]
    BY <2>1, HeadedIs
  <2>3. ASSUME NEW i \in 2..Len(f)
        PROVE  f[i] = rows[i - 1] /\ i - 1 \in 1..Len(rows) /\ f[i].seq = i - 2
    <3>1. i - 1 \in 1..Len(rows) /\ (i - 1) + 1 = i /\ (i - 1) - 1 = i - 2
      BY <2>2
    <3>2. f[(i - 1) + 1] = rows[i - 1] /\ rows[i - 1].seq = (i - 1) - 1
      BY <2>1, <2>2, <3>1 DEF Numbered
    <3> QED BY <3>1, <3>2
  <2>4. ReadAll(f, bad) => Plain(rows)
    <3> SUFFICES ASSUME ReadAll(f, bad), NEW i \in 1..Len(rows) PROVE ~rows[i].split
      BY DEF Plain
    <3>1. i + 1 \in 2..Len(f) /\ f[i + 1] = rows[i]
      BY <2>2
    <3> QED BY <3>1 DEF ReadAll
  <2>5. Plain(rows) => ReadAll(f, bad)
    BY <1>2, <2>3 DEF ReadAll, Plain
  <2> QED BY <2>1, <2>2, <2>4, <2>5 DEF rows
<1> QED BY <1>1, <1>2

\* A row appended with the next number.
LEMMA NumberedAppend ==
  ASSUME NEW m \in Nat, m < MaxRows, NEW rows, Numbered(rows, m),
         NEW split \in BOOLEAN, NEW r, r = Row(Len(rows), m + 1, split)
  PROVE  /\ r \in Rows /\ Numbered(Append(rows, r), m + 1)
         /\ Append(Headed(rows), r) = Headed(Append(rows, r))
         /\ Append(rows, r) \in Seq(Rows)
<1>1. rows \in Seq(Rows) /\ Len(rows) \in Nat /\ Len(rows) <= m
  BY LenProperties DEF Numbered
<1>2. r \in Rows /\ r.seq = Len(rows) /\ r \in Lines
  BY <1>1, StorageAssumption DEF Rows, Row, Lines
<1>3. /\ Append(rows, r) \in Seq(Rows) /\ Len(Append(rows, r)) = Len(rows) + 1
      /\ \A i \in 1..Len(rows) : Append(rows, r)[i] = rows[i]
      /\ Append(rows, r)[Len(rows) + 1] = r
  BY <1>1, <1>2, AppendProperties
<1>4. Numbered(Append(rows, r), m + 1)
  BY <1>1, <1>2, <1>3 DEF Numbered
<1>5. Append(Headed(rows), r) = Headed(Append(rows, r))
  <2>1. rows \in Seq(Lines) /\ Append(rows, r) \in Seq(Lines) /\ <<r>> \in Seq(Lines)
        /\ <<Header>> \in Seq(Lines) /\ Headed(rows) \in Seq(Lines)
    <3>1. Rows \subseteq Lines /\ Header \in Lines
      BY DEF Lines
    <3> QED BY <1>1, <1>2, <1>3, <3>1, SeqMonotonic, HeadedIs
  <2>2. Append(Headed(rows), r) = Headed(rows) \o <<r>> /\ Append(rows, r) = rows \o <<r>>
    BY <1>2, <2>1, AppendIsConcat
  <2> QED BY <2>1, <2>2, ConcatAssociative DEF Headed
<1> QED BY <1>2, <1>3, <1>4, <1>5

-----------------------------------------------------------------------------
(* The invariant.                                                            *)

Types ==
  /\ mode \in {"file", "memory", "session"} /\ initial \in [Writers -> {<<>>, <<Header>>}]
  /\ malformed \in BOOLEAN /\ bare \in BOOLEAN
  /\ made \in 0..MaxRows /\ cuts \in 0..MaxCuts
  /\ pc \in [Writers -> {"idle", "ready", "empty"}]
  /\ content \in [Writers -> Seq(Lines)]
  /\ \A w \in Writers : content[w] = <<>> <=> pc[w] = "idle"
  /\ new \in [Writers -> [row : Lines, expected : Int]]
  /\ session \in [Writers -> Seq(Rows) \cup {Closed}]
  /\ \A a \in acked : a.row \in Rows
  /\ seen \in Seq(Rows) /\ base \in [ok : BOOLEAN, rows : Seq(Rows)]

\* What is stored has a file's shape at every moment.
FileInv ==
  /\ mode = "memory" => Numbered(lines, made) /\ ~malformed
  /\ mode # "memory" => Shaped(lines, made)

\* At most one writer writes or has a session open.
Rests(w) == pc[w] = "idle" /\ session[w] = Closed
SoloInv == \A v, w \in Writers : v # w => Rests(v) \/ Rests(w)

Kept == Stored.rows
Usable == ~Readable \/ ReadAll(lines, malformed)
\* The rows a writer began with, and what its content adds to them.
Old(w) == IF pc[w] = "empty" THEN base.rows ELSE Events(lines)
AddsNone(w) == new[w] = NoRow /\ Events(content[w]) = Old(w)
Numbers(w, rows) ==
  /\ new[w].row \in Rows /\ new[w].row.seq = Len(rows)
  /\ new[w].expected \in {-1, Len(rows)}
AddsRow(w) == Events(content[w]) = Append(Old(w), new[w].row) /\ Numbers(w, Old(w))
SavesSession(w) ==
  new[w] = NoRow /\ session[w] # Closed /\ content[w] = Headed(session[w])

WriterInv(w) ==
  /\ session[w] # Closed =>
       mode = "session" /\ Numbered(session[w], made) /\ Starts(Old(w), session[w])
  /\ pc[w] # "idle" /\ mode = "memory" =>
       /\ pc[w] = "ready" /\ content[w] = <<new[w].row>>
       /\ Numbered(Append(lines, new[w].row), made) /\ Numbers(w, lines)
  /\ pc[w] # "idle" /\ mode = "file" => Shaped(content[w], made) /\ (AddsNone(w) \/ AddsRow(w))
  /\ pc[w] # "idle" /\ mode = "session" => SavesSession(w)
  /\ pc[w] = "ready" /\ mode = "file" => Usable
  /\ pc[w] = "empty" =>
       /\ mode # "memory" /\ lines = <<>> /\ ~malformed /\ Numbered(base.rows, made)
       /\ mode = "file" => base.ok /\ Plain(base.rows)

StoreInv == Types /\ FileInv /\ SoloInv /\ \A w \in Writers : WriterInv(w)

Writes(w) ==
  \/ \E expected \in -1..MaxRows, split \in BOOLEAN : AppendEvent(w, expected, split)
  \/ SaveHeader(w) \/ PutRow(w)
  \/ Create(w) \/ Load(w) \/ Record(w) \/ Drop(w) \/ Save(w)
  \/ Truncate(w) \/ Write(w) \/ WriteFails(w) \/ Crash(w)

\* While a writer acts the others rest, and go on resting.
LEMMA OthersRest ==
  ASSUME Types, SoloInv, NEW w \in Writers, Writes(w)
  PROVE  \A v \in Writers \ {w} :
           Rests(v) /\ pc'[v] = pc[v] /\ session'[v] = session[v] /\ content'[v] = content[v]
<1>1. Free(w) \/ ~Rests(w)
  BY DEF Writes, AppendEvent, SaveHeader, PutRow, Create, Load, Record, Drop, Save, Truncate,
         Write, WriteFails, Crash, CrashIdle, LeavePart, Rests, Opened
<1>2. \A v \in Writers \ {w} : Rests(v)
  BY <1>1 DEF Free, SoloInv, Rests
<1>3. \A v \in Writers \ {w} :
        pc'[v] = pc[v] /\ session'[v] = session[v] /\ content'[v] = content[v]
  BY DEF Types, Writes, AppendEvent, SaveHeader, PutRow, Create, Load, Record, Drop, Save, Truncate,
         Write, WriteFails, Crash, Prepare, Idle, SetSession, Elsewhere
<1> QED BY <1>2, <1>3

LEMMA WriterFrame ==
  ASSUME StoreInv, NEW w \in Writers, Writes(w), Types', FileInv', WriterInv(w)'
  PROVE  StoreInv'
<1>1. \A v \in Writers \ {w} : Rests(v) /\ Rests(v)'
  BY OthersRest DEF StoreInv, Rests
<1>2. SoloInv'
  BY <1>1 DEF SoloInv
<1>3. \A v \in Writers \ {w} : WriterInv(v)'
  BY <1>1 DEF WriterInv, Rests
<1> QED BY <1>2, <1>3 DEF StoreInv

LEMMA InitInv == Init => StoreInv
<1> SUFFICES ASSUME Init PROVE StoreInv
  OBVIOUS
<1>1. <<>> \in Seq(Rows) /\ <<>> \in Seq(Lines) /\ Len(<<>>) = 0 /\ <<Header>> # <<>>
  OBVIOUS
<1>2. NoRow \in [row : Lines, expected : Int]
  BY DEF NoRow, Lines
<1>3. Types
  <2>0. mode \in {"file", "memory", "session"} /\ malformed \in BOOLEAN /\ bare \in BOOLEAN
    BY StorageAssumption DEF Init
  <2>1. /\ initial \in [Writers -> {<<>>, <<Header>>}]
        /\ made \in 0..MaxRows /\ cuts \in 0..MaxCuts
    BY StorageAssumption DEF Init
  <2>2. /\ pc \in [Writers -> {"idle", "ready", "empty"}] /\ content \in [Writers -> Seq(Lines)]
        /\ \A w \in Writers : content[w] = <<>> <=> pc[w] = "idle"
    BY <1>1 DEF Init
  <2>3. /\ new \in [Writers -> [row : Lines, expected : Int]]
        /\ session \in [Writers -> Seq(Rows) \cup {Closed}]
    BY <1>2 DEF Init
  <2>4. /\ (\A a \in acked : a.row \in Rows) /\ seen \in Seq(Rows)
        /\ base \in [ok : BOOLEAN, rows : Seq(Rows)]
    BY <1>1 DEF Init
  <2> QED BY <2>0, <2>1, <2>2, <2>3, <2>4 DEF Types
<1>4. Numbered(lines, made)
  BY <1>1 DEF Init, Numbered
<1>5. FileInv
  BY <1>4, ShapedOf DEF FileInv, Init
<1>6. SoloInv /\ \A w \in Writers : WriterInv(w)
  BY DEF Init, SoloInv, WriterInv, Rests
<1> QED BY <1>3, <1>5, <1>6 DEF StoreInv

\* What is known of the store when a writer may begin.
LEMMA StoreIs ==
  ASSUME Types, FileInv
  PROVE  /\ made \in Nat /\ Numbered(Events(lines), made) /\ Events(lines) \in Seq(Rows)
         /\ Len(Events(lines)) \in Nat
         /\ mode = "memory" => Events(lines) = lines
         /\ mode # "memory" /\ ReadAll(lines, malformed) =>
              /\ Tail(lines) = Events(lines) /\ lines = Headed(Events(lines))
              /\ ~malformed /\ Readable
         /\ mode # "memory" /\ ~Readable => Events(lines) = <<>> /\ lines = <<>> /\ ~malformed
<1>1. made \in Nat /\ malformed \in BOOLEAN
  BY StorageAssumption DEF Types
<1>2. CASE mode = "memory"
  <2>1. lines \in Seq(Rows) /\ Events(lines) = lines
    BY <1>2, EventsOf DEF FileInv, Numbered
  <2> QED BY <1>1, <1>2, <2>1, LenProperties DEF FileInv
<1>3. CASE mode # "memory"
  <2>1. Shaped(lines, made)
    BY <1>3 DEF FileInv
  <2>2. Numbered(Events(lines), made) /\ Events(lines) \in Seq(Rows)
    BY <2>1 DEF Shaped, Numbered
  <2>3. ReadAll(lines, malformed) =>
          /\ Tail(lines) = Events(lines) /\ lines = Headed(Events(lines))
          /\ ~malformed /\ lines # <<>>
    BY <1>1, <2>1, ReadableIs
  <2>4. lines = <<>> => Events(lines) = <<>>
    BY <1>1, <2>1, ShapedIs
  <2> QED BY <1>1, <1>3, <2>2, <2>3, <2>4, LenProperties DEF Readable
<1> QED BY <1>2, <1>3

\* Preparing a write leaves everything but the writer's own alone.
LEMMA PrepareTypes ==
  ASSUME StoreInv, NEW w \in Writers, NEW c \in Seq(Lines), c # <<>>,
         NEW r \in [row : Lines, expected : Int], Prepare(w, c, r),
         made' \in 0..MaxRows, made <= made'
  PROVE  Types' /\ FileInv' /\ pc'[w] = "ready" /\ content'[w] = c /\ new'[w] = r
         /\ session'[w] = session[w] /\ (Usable <=> Usable') /\ lines' = lines
         /\ base' = base /\ mode' = mode
<1>1. /\ pc' = [pc EXCEPT ![w] = "ready"] /\ content' = [content EXCEPT ![w] = c]
      /\ new' = [new EXCEPT ![w] = r] /\ session' = session /\ lines' = lines /\ mode' = mode
      /\ initial' = initial /\ malformed' = malformed /\ bare' = bare /\ cuts' = cuts
      /\ acked' = acked /\ base' = base /\ seen' = seen
  BY DEF Prepare, fixed
<1>2. Types'
  <2>1. /\ pc' \in [Writers -> {"idle", "ready", "empty"}] /\ content' \in [Writers -> Seq(Lines)]
        /\ \A v \in Writers : content'[v] = <<>> <=> pc'[v] = "idle"
    BY <1>1 DEF StoreInv, Types
  <2>2. new' \in [Writers -> [row : Lines, expected : Int]]
    BY <1>1 DEF StoreInv, Types
  <2> QED BY <1>1, <2>1, <2>2 DEF StoreInv, Types
<1>3. FileInv'
  <2>1. made \in Nat /\ made' \in Nat
    BY StorageAssumption DEF StoreInv, Types
  <2> QED BY <1>1, <2>1, NumberedMore DEF StoreInv, FileInv
<1>4. pc'[w] = "ready" /\ content'[w] = c /\ new'[w] = r
  BY <1>1 DEF StoreInv, Types
<1>5. Usable <=> Usable'
  BY <1>1 DEF Usable, Readable, ReadAll
<1> QED BY <1>1, <1>2, <1>3, <1>4, <1>5

LEMMA NoRowIs == NoRow \in [row : Lines, expected : Int] /\ NoRow.row \notin Rows
BY NoHeader DEF NoRow, Lines

LEMMA AppendEventStep ==
  ASSUME StoreInv, NEW w \in Writers, NEW expected \in -1..MaxRows, NEW split \in BOOLEAN,
         AppendEvent(w, expected, split)
  PROVE  Types' /\ FileInv' /\ WriterInv(w)'
<1> DEFINE rows == Events(lines)
           row  == Row(NextSeq(w), made', split)
           c    == IF mode = "file" THEN Append(Found(w), row) ELSE <<row>>
           r    == [row |-> row, expected |-> expected]
<1>0. /\ made \in Nat /\ Numbered(rows, made) /\ rows \in Seq(Rows) /\ Len(rows) \in Nat
      /\ mode = "memory" => rows = lines
      /\ ReadAll(lines, malformed) /\ mode # "memory" => lines = Headed(rows)
      /\ ~Readable /\ mode # "memory" => rows = <<>> /\ lines = <<>>
  BY StoreIs DEF StoreInv
<1>1. /\ mode \in {"file", "memory"} /\ made < MaxRows /\ made' = made + 1 /\ Prepare(w, c, r)
      /\ mode = "file" => (Readable => ReadAll(lines, malformed))
      /\ expected \in {-1, NextSeq(w)} /\ pc[w] = "idle" /\ expected \in Int
  BY DEF AppendEvent, Passes, Free
<1>2. session[w] = Closed
  BY <1>1 DEF StoreInv, WriterInv
<1>3. mode = "file" => Found(w) \in {rows, Headed(rows)} /\ Events(Found(w)) = rows
  <2>1. CASE mode = "file" /\ Readable
    BY <1>0, <1>1, <2>1 DEF Found
  <2>2. CASE mode = "file" /\ ~Readable
    <3>1. rows = <<>> /\ Found(w) \in {<<>>, <<Header>>}
      BY <1>0, <2>2 DEF Found, StoreInv, Types
    <3>2. Headed(<<>>) = <<Header>>
      BY DEF Headed
    <3>3. <<>> \in Seq(Rows)
      OBVIOUS
    <3> QED BY <3>1, <3>2, <3>3, EventsOf
  <2> QED BY <2>1, <2>2
<1>4. NextSeq(w) = Len(rows)
  BY <1>0, <1>1, <1>3 DEF NextSeq
<1>5. row = Row(Len(rows), made + 1, split)
  BY <1>1, <1>4
<1> HIDE DEF row, rows
<1>6. /\ row \in Rows /\ Numbered(Append(rows, row), made') /\ row.seq = Len(rows)
      /\ Append(Headed(rows), row) = Headed(Append(rows, row)) /\ Append(rows, row) \in Seq(Rows)
  <2>1. row.seq = Len(rows)
    BY <1>5 DEF Row
  <2> QED BY <1>0, <1>1, <1>5, <2>1, NumberedAppend
<1>7. mode = "file" => /\ c \in {Append(rows, row), Headed(Append(rows, row))}
                       /\ Events(c) = Append(rows, row) /\ Shaped(c, made')
  <2>1. made' \in Nat
    BY <1>0, <1>1
  <2>2. mode = "file" => c \in {Append(rows, row), Headed(Append(rows, row))}
    BY <1>3, <1>6
  <2>3. Shaped(Append(rows, row), made') /\ Shaped(Headed(Append(rows, row)), made')
    BY <1>6, <2>1, ShapedOf
  <2> QED BY <1>6, <2>2, <2>3, EventsOf
<1>8. c \in Seq(Lines) /\ c # <<>> /\ r \in [row : Lines, expected : Int] /\ made' \in 0..MaxRows
      /\ made <= made'
  <2>1. row \in Lines /\ rows \in Seq(Lines) /\ Append(rows, row) \in Seq(Lines)
        /\ Append(rows, row) # <<>>
    <3>1. Rows \subseteq Lines
      BY DEF Lines
    <3> QED BY <1>0, <1>6, <3>1, SeqMonotonic, AppendProperties
  <2>2. Headed(Append(rows, row)) \in Seq(Lines) /\ Headed(Append(rows, row)) # <<>>
    BY <1>6, HeadedIs
  <2>3. c \in Seq(Lines) /\ c # <<>>
    <3>1. CASE mode = "file"
      BY <1>7, <2>1, <2>2, <3>1
    <3>2. CASE mode = "memory"
      BY <2>1, <3>2
    <3> QED BY <1>1, <3>1, <3>2
  <2> QED BY <1>0, <1>1, <2>1, <2>3, StorageAssumption
<1> HIDE DEF c, r
<1>9. Types' /\ FileInv' /\ pc'[w] = "ready" /\ content'[w] = c /\ new'[w] = r
      /\ session'[w] = session[w] /\ (Usable <=> Usable') /\ lines' = lines
      /\ base' = base /\ mode' = mode
  BY <1>1, <1>8, PrepareTypes
<1>10. r.row = row /\ r.expected = expected
  BY DEF r
<1>11. mode = "file" => AddsRow(w)'
  <2>1. Old(w)' = rows
    BY <1>9 DEF Old, rows
  <2> QED BY <1>1, <1>4, <1>6, <1>7, <1>9, <1>10, <2>1 DEF AddsRow, Numbers
<1>12. mode = "memory" => /\ content'[w] = <<new'[w].row>> /\ Numbers(w, lines)'
                          /\ Numbered(Append(lines, new[w].row), made)'
  BY <1>0, <1>1, <1>4, <1>6, <1>9, <1>10 DEF Numbers, c
<1>13. mode = "file" => Usable'
  BY <1>1, <1>9 DEF Usable
<1> QED BY <1>1, <1>2, <1>7, <1>9, <1>11, <1>12, <1>13 DEF WriterInv

LEMMA SaveHeaderStep ==
  ASSUME StoreInv, NEW w \in Writers, SaveHeader(w)
  PROVE  Types' /\ FileInv' /\ WriterInv(w)'
<1> DEFINE rows == Events(lines)
           c    == <<Header>> \o (IF Readable THEN Tail(lines) ELSE <<>>)
<1>0. /\ made \in Nat /\ Numbered(rows, made) /\ rows \in Seq(Rows) /\ Len(rows) \in Nat
      /\ ReadAll(lines, malformed) /\ mode # "memory" => Tail(lines) = rows
      /\ ~Readable /\ mode # "memory" => rows = <<>>
  BY StoreIs DEF StoreInv
<1>1. /\ mode = "file" /\ made' = made /\ Prepare(w, c, NoRow) /\ Usable /\ pc[w] = "idle"
  BY DEF SaveHeader, Usable, Free
<1>2. session[w] = Closed
  BY <1>1 DEF StoreInv, WriterInv
<1>3. c = Headed(rows)
  BY <1>0, <1>1 DEF Headed, Usable
<1> HIDE DEF rows, c
<1>4. c \in Seq(Lines) /\ c # <<>> /\ Shaped(c, made) /\ Events(c) = rows
      /\ made' \in 0..MaxRows /\ made <= made'
  <2>1. made \in 0..MaxRows
    BY DEF StoreInv, Types
  <2> QED BY <1>0, <1>1, <1>3, <2>1, HeadedIs, ShapedOf, EventsOf
<1>5. Types' /\ FileInv' /\ pc'[w] = "ready" /\ content'[w] = c /\ new'[w] = NoRow
      /\ session'[w] = session[w] /\ (Usable <=> Usable') /\ lines' = lines
      /\ base' = base /\ mode' = mode
  BY <1>1, <1>4, PrepareTypes, NoRowIs
<1>6. AddsNone(w)'
  BY <1>4, <1>5 DEF AddsNone, Old, rows
<1> QED BY <1>1, <1>2, <1>4, <1>5, <1>6 DEF WriterInv

LEMMA SaveStep ==
  ASSUME StoreInv, NEW w \in Writers, Save(w)
  PROVE  Types' /\ FileInv' /\ WriterInv(w)'
<1> DEFINE c == Headed(session[w])
<1>1. /\ mode = "session" /\ made' = made /\ Prepare(w, c, NoRow) /\ pc[w] = "idle"
      /\ session[w] # Closed
  BY DEF Save, Free, Opened, Headed
<1>2. Numbered(session[w], made) /\ Starts(Events(lines), session[w])
  BY <1>1 DEF StoreInv, WriterInv, Old
<1>3. c \in Seq(Lines) /\ c # <<>> /\ made' \in 0..MaxRows /\ made <= made'
  BY <1>1, <1>2, HeadedIs, StorageAssumption DEF Numbered, StoreInv, Types
<1> HIDE DEF c
<1>4. Types' /\ FileInv' /\ pc'[w] = "ready" /\ content'[w] = c /\ new'[w] = NoRow
      /\ session'[w] = session[w] /\ (Usable <=> Usable') /\ lines' = lines
      /\ base' = base /\ mode' = mode
  BY <1>1, <1>3, PrepareTypes, NoRowIs
<1>5. SavesSession(w)' /\ Numbered(session'[w], made') /\ Starts(Old(w)', session'[w])
  BY <1>1, <1>2, <1>4 DEF SavesSession, Old, c
<1> QED BY <1>1, <1>2, <1>4, <1>5 DEF WriterInv

\* A step that only changes a session.
LEMMA SessionStep ==
  ASSUME StoreInv, NEW w \in Writers, NEW rows \in Seq(Rows) \cup {Closed},
         SetSession(w, rows), Elsewhere, pc[w] = "idle", made' \in 0..MaxRows, made <= made',
         rows # Closed =>
           mode = "session" /\ Numbered(rows, made') /\ Starts(Events(lines), rows)
  PROVE  Types' /\ FileInv' /\ WriterInv(w)'
<1>1. /\ pc' = pc /\ content' = content /\ new' = new /\ lines' = lines /\ mode' = mode
      /\ initial' = initial /\ malformed' = malformed /\ bare' = bare /\ cuts' = cuts
      /\ acked' = acked /\ base' = base /\ seen' = seen /\ session' = [session EXCEPT ![w] = rows]
  BY DEF Elsewhere, SetSession, fixed
<1>2. session' \in [Writers -> Seq(Rows) \cup {Closed}] /\ session'[w] = rows
  BY <1>1 DEF StoreInv, Types
<1>3. Types'
  BY <1>1, <1>2 DEF StoreInv, Types
<1>4. FileInv'
  <2>1. made \in Nat /\ made' \in Nat
    BY StorageAssumption DEF StoreInv, Types
  <2> QED BY <1>1, <2>1, NumberedMore DEF StoreInv, FileInv
<1>5. WriterInv(w)'
  BY <1>1, <1>2 DEF WriterInv, Old
<1> QED BY <1>3, <1>4, <1>5

LEMMA ClosedIs == Closed \notin Seq(Rows)
<1>1. Closed[1] = Header /\ 1 \in 1..Len(Closed)
  BY DEF Closed
<1> QED BY <1>1, NoHeader, ElementOfSeq

LEMMA SessionSteps ==
  ASSUME StoreInv, NEW w \in Writers, Create(w) \/ Load(w) \/ Record(w) \/ Drop(w)
  PROVE  Types' /\ FileInv' /\ WriterInv(w)'
<1> DEFINE rows == Events(lines)
<1>0. /\ made \in 0..MaxRows /\ made \in Nat /\ Numbered(rows, made) /\ rows \in Seq(Rows)
      /\ Len(rows) \in Nat
      /\ ReadAll(lines, malformed) /\ mode # "memory" => Tail(lines) = rows
      /\ ~Readable /\ mode # "memory" => rows = <<>>
  <2>1. made \in 0..MaxRows
    BY DEF StoreInv, Types
  <2> QED BY <2>1, StoreIs DEF StoreInv
<1>1. pc[w] = "idle"
  BY DEF Create, Load, Record, Drop, Free
<1> HIDE DEF rows
<1>2. CASE Create(w) \/ Load(w)
  <2>1. mode = "session" /\ SetSession(w, rows) /\ Elsewhere /\ made' = made
    BY <1>0, <1>2 DEF Create, Load
  <2>2. Starts(rows, rows) /\ rows = Events(lines)
    BY <1>0, StartsAll DEF rows
  <2> QED BY <1>0, <1>1, <2>1, <2>2, SessionStep
<1>3. CASE Drop(w)
  <2>1. SetSession(w, Closed) /\ Elsewhere /\ made' = made
    BY <1>3 DEF Drop
  <2> QED BY <1>0, <1>1, <2>1, SessionStep
<1>4. CASE Record(w)
  <2> DEFINE row == Row(Len(session[w]), made', FALSE)
             all == Append(session[w], row)
  <2>1. /\ mode = "session" /\ session[w] # Closed /\ made < MaxRows /\ made' = made + 1
        /\ SetSession(w, all) /\ Elsewhere
    BY <1>4 DEF Record, Opened
  <2>2. Numbered(session[w], made) /\ Starts(rows, session[w])
    BY <1>1, <2>1 DEF StoreInv, WriterInv, Old, rows
  <2>3. Numbered(all, made + 1) /\ all \in Seq(Rows) /\ row \in Rows
    BY <1>0, <2>1, <2>2, NumberedAppend
  <2>4. Starts(rows, all)
    <3>1. session[w] \in Seq(Rows) /\ Starts(session[w], all)
      BY <2>2, <2>3, StartsAll DEF Numbered
    <3> HIDE DEF all
    <3> QED BY <1>0, <2>2, <2>3, <3>1, StartsAll
  <2> HIDE DEF all, row
  <2>5. made' \in 0..MaxRows /\ made <= made'
    BY <1>0, <2>1, StorageAssumption
  <2> QED BY <1>0, <1>1, <2>1, <2>2, <2>3, <2>4, <2>5, SessionStep DEF rows
<1> QED BY <1>2, <1>3, <1>4

LEMMA PutRowStep ==
  ASSUME StoreInv, NEW w \in Writers, PutRow(w)
  PROVE  Types' /\ FileInv' /\ WriterInv(w)'
<1> DEFINE row == new[w].row
<1>1. /\ mode = "memory" /\ pc[w] = "ready" /\ lines' = lines \o content[w]
      /\ acked' = acked \cup {new[w]} /\ Idle(w)
      /\ mode' = mode /\ initial' = initial /\ malformed' = malformed /\ bare' = bare
      /\ cuts' = cuts /\ base' = base /\ seen' = seen /\ session' = session /\ made' = made
  BY DEF PutRow, fixed
<1>2. /\ content[w] = <<row>> /\ Numbered(Append(lines, row), made) /\ row \in Rows
      /\ Numbered(lines, made) /\ ~malformed
  BY <1>1 DEF StoreInv, WriterInv, FileInv, Numbers
<1>3. lines' = Append(lines, row)
  BY <1>1, <1>2, AppendIsConcat DEF Numbered
<1>4. FileInv'
  BY <1>1, <1>2, <1>3 DEF FileInv
<1>5. Types'
  <2>1. /\ pc' \in [Writers -> {"idle", "ready", "empty"}] /\ content' \in [Writers -> Seq(Lines)]
        /\ \A v \in Writers : content'[v] = <<>> <=> pc'[v] = "idle"
    BY <1>1 DEF Idle, StoreInv, Types
  <2>2. new' \in [Writers -> [row : Lines, expected : Int]]
    BY <1>1, NoRowIs DEF Idle, StoreInv, Types
  <2>3. \A a \in acked' : a.row \in Rows
    BY <1>1, <1>2 DEF StoreInv, Types
  <2> QED BY <1>1, <2>1, <2>2, <2>3 DEF StoreInv, Types
<1>6. WriterInv(w)'
  <2>1. pc'[w] = "idle" /\ session'[w] = Closed
    BY <1>1 DEF Idle, StoreInv, Types, WriterInv
  <2> QED BY <2>1 DEF WriterInv
<1> QED BY <1>4, <1>5, <1>6

\* What a writer has prepared lengthens what it began with.
LEMMA ContentIs ==
  ASSUME StoreInv, NEW w \in Writers, pc[w] # "idle", mode # "memory"
  PROVE  /\ Shaped(content[w], made) /\ Events(content[w]) \in Seq(Rows)
         /\ Old(w) \in Seq(Rows) /\ Starts(Old(w), Events(content[w]))
         /\ mode = "session" =>
              content[w] = Headed(session[w]) /\ Events(content[w]) = session[w]
<1>0. /\ made \in Nat /\ Numbered(Events(lines), made) /\ WriterInv(w)
      /\ mode \in {"file", "memory", "session"}
  BY StoreIs DEF StoreInv, Types
<1>1. Old(w) \in Seq(Rows)
  BY <1>0 DEF Old, WriterInv, StoreInv, Types, Numbered
<1>2. CASE mode = "file"
  <2>1. Shaped(content[w], made) /\ (AddsNone(w) \/ AddsRow(w))
    BY <1>0, <1>2 DEF WriterInv
  <2>2. Events(content[w]) \in Seq(Rows)
    BY <2>1 DEF Shaped, Numbered
  <2>3. CASE AddsNone(w)
    BY <1>1, <1>2, <2>1, <2>2, <2>3, StartsAll DEF AddsNone
  <2>4. CASE AddsRow(w)
    BY <1>1, <1>2, <2>1, <2>2, <2>4, StartsAll DEF AddsRow, Numbers
  <2> QED BY <2>1, <2>3, <2>4
<1>3. CASE mode = "session"
  <2>1. SavesSession(w) /\ Numbered(session[w], made) /\ Starts(Old(w), session[w])
    BY <1>0, <1>3 DEF WriterInv, SavesSession
  <2>2. Shaped(content[w], made) /\ Events(content[w]) = session[w] /\ session[w] \in Seq(Rows)
    BY <1>0, <2>1, ShapedOf, EventsOf DEF SavesSession, Numbered
  <2> QED BY <1>1, <2>1, <2>2 DEF SavesSession
<1> QED BY <1>0, <1>2, <1>3

\* The rows of a file that can be used do not split.
LEMMA UsablePlain ==
  ASSUME StoreInv, mode # "memory", Usable
  PROVE  Plain(Events(lines))
<1>1. made \in Nat /\ Shaped(lines, made) /\ malformed \in BOOLEAN
  BY StoreIs DEF StoreInv, FileInv, Types
<1>2. CASE ReadAll(lines, malformed)
  BY <1>1, <1>2, ReadableIs
<1>3. CASE ~Readable
  <2>1. Events(lines) = <<>> /\ Len(<<>>) = 0
    BY <1>3, StoreIs DEF StoreInv
  <2> QED BY <2>1 DEF Plain
<1> QED BY <1>2, <1>3 DEF Usable

LEMMA TruncateStep ==
  ASSUME StoreInv, NEW w \in Writers, Truncate(w)
  PROVE  Types' /\ FileInv' /\ WriterInv(w)'
<1>1. /\ mode # "memory" /\ pc[w] = "ready" /\ base' = OnFile /\ lines' = <<>>
      /\ malformed' = FALSE /\ pc' = [pc EXCEPT ![w] = "empty"] /\ made' = made
      /\ mode' = mode /\ initial' = initial /\ bare' = bare /\ content' = content /\ new' = new
      /\ cuts' = cuts /\ acked' = acked /\ seen' = seen /\ session' = session
  BY DEF Truncate, fixed
<1>0. /\ base'.rows = Events(lines) /\ (base'.ok <=> Usable) /\ base'.ok \in BOOLEAN
      /\ base' \in [ok : BOOLEAN, rows : Seq(Rows)] /\ made \in Nat
      /\ Numbered(Events(lines), made)
  <2>1. Events(lines) \in Seq(Rows) /\ made \in Nat /\ Numbered(Events(lines), made)
    BY StoreIs DEF StoreInv
  <2>2. base' = [ok |-> (mode = "memory" \/ Usable), rows |-> Events(lines)]
    BY <1>1 DEF OnFile, Usable
  <2>3. (mode = "memory" \/ Usable) \in BOOLEAN
    BY DEF Usable
  <2> HIDE DEF Usable
  <2>4. base'.rows = Events(lines) /\ base'.ok = (mode = "memory" \/ Usable)
    BY <2>2
  <2>5. base'.ok <=> Usable
    BY <1>1, <2>3, <2>4
  <2>6. base' \in [ok : BOOLEAN, rows : Seq(Rows)]
    BY <2>1, <2>2, <2>3
  <2> QED BY <2>1, <2>3, <2>4, <2>5, <2>6
<1>2. pc'[w] = "empty" /\ Old(w)' = Old(w) /\ base'.rows = Old(w)
  BY <1>0, <1>1 DEF Old, StoreInv, Types
<1>3. Types'
  BY <1>0, <1>1 DEF StoreInv, Types
<1>4. made \in Nat /\ Numbered(base'.rows, made) /\ Numbered(<<>>, made)
  <2>1. <<>> \in Seq(Rows) /\ Len(<<>>) = 0
    OBVIOUS
  <2> QED BY <1>0, <1>1, <2>1 DEF Numbered
<1>7. mode = "file" => base'.ok /\ Plain(base'.rows)
  <2>1. mode = "file" => Usable
    BY <1>1 DEF StoreInv, WriterInv
  <2>2. mode # "memory" /\ Usable => Plain(Events(lines))
    BY UsablePlain
  <2> QED BY <1>0, <2>1, <2>2
<1>5. FileInv'
  BY <1>1, <1>4, ShapedOf DEF FileInv
<1>6. WriterInv(w)'
  <2>1. WriterInv(w)
    BY DEF StoreInv
  <2>2. mode = "file" => Shaped(content[w], made) /\ (AddsNone(w) \/ AddsRow(w))
    BY <1>1, <2>1 DEF WriterInv
  <2>3. mode' = "file" => Shaped(content[w], made)' /\ (AddsNone(w)' \/ AddsRow(w)')
    BY <1>1, <1>2, <2>2 DEF AddsNone, AddsRow, Numbers
  <2>4. mode' = "session" => SavesSession(w)'
    BY <1>1, <2>1 DEF WriterInv, SavesSession
  <2>5. session'[w] # Closed =>
          mode' = "session" /\ Numbered(session'[w], made') /\ Starts(Old(w)', session'[w])
    BY <1>1, <1>2, <2>1 DEF WriterInv
  <2> QED BY <1>1, <1>2, <1>4, <1>7, <2>3, <2>4, <2>5 DEF WriterInv
<1> QED BY <1>3, <1>5, <1>6

\* The writer ends, with or without what it wanted to write.
LEMMA EndTypes ==
  ASSUME StoreInv, NEW w \in Writers, mode # "memory", Idle(w),
         mode' = mode, initial' = initial, malformed' \in BOOLEAN, bare' \in BOOLEAN, made' = made,
         cuts' \in 0..MaxCuts, seen' = seen, \A a \in acked' : a.row \in Rows,
         session' = session \/ session' = [session EXCEPT ![w] = Closed], Shaped(lines', made),
         base' = base
  PROVE  Types' /\ FileInv' /\ pc'[w] = "idle" /\ session'[w] \in {session[w], Closed}
<1>1. /\ pc' = [pc EXCEPT ![w] = "idle"] /\ content' = [content EXCEPT ![w] = <<>>]
      /\ new' = [new EXCEPT ![w] = NoRow]
  BY DEF Idle
<1>2. /\ pc' \in [Writers -> {"idle", "ready", "empty"}] /\ content' \in [Writers -> Seq(Lines)]
      /\ \A v \in Writers : content'[v] = <<>> <=> pc'[v] = "idle"
  BY <1>1 DEF StoreInv, Types
<1>3. new' \in [Writers -> [row : Lines, expected : Int]]
  BY <1>1, NoRowIs DEF StoreInv, Types
<1>4. session' \in [Writers -> Seq(Rows) \cup {Closed}] /\ session'[w] \in {session[w], Closed}
  BY DEF StoreInv, Types
<1>5. Types'
  BY <1>2, <1>3, <1>4 DEF StoreInv, Types
<1>6. FileInv'
  BY DEF FileInv
<1>7. pc'[w] = "idle"
  BY <1>1 DEF StoreInv, Types
<1> QED BY <1>4, <1>5, <1>6, <1>7

LEMMA WriteStep ==
  ASSUME StoreInv, NEW w \in Writers, Write(w)
  PROVE  Types' /\ FileInv' /\ WriterInv(w)'
<1>1. /\ pc[w] = "empty" /\ lines' = content[w] /\ Idle(w) /\ mode' = mode /\ initial' = initial
      /\ malformed' = malformed /\ session' = session /\ made' = made /\ cuts' = cuts
      /\ seen' = seen /\ bare' = (bare \/ Head(content[w]) # Header) /\ base' = base
  BY DEF Write, fixed
<1>2. mode # "memory" /\ ~malformed /\ WriterInv(w) /\ made \in Nat
  BY <1>1, StoreIs DEF StoreInv, WriterInv
<1>3. /\ Shaped(content[w], made) /\ Events(content[w]) \in Seq(Rows)
      /\ mode = "session" => content[w] = Headed(session[w]) /\ Events(content[w]) = session[w]
  BY <1>1, <1>2, ContentIs
<1>4. \A a \in acked' : a.row \in Rows
  <2>1. CASE mode = "session"
    <3>1. acked' = acked \cup Saved(w)
      BY <1>1, <2>1 DEF Write
    <3>2. \A r \in Range(session[w]) : r \in Rows
      BY <1>3, <2>1, RangeOfSeq
    <3> QED BY <3>1, <3>2 DEF StoreInv, Types, Saved
  <2>2. CASE mode = "file"
    <3>1. acked' = acked \cup ({new[w]} \ {NoRow})
      BY <1>1, <2>2 DEF Write
    <3>2. new[w] # NoRow => new[w].row \in Rows
      BY <1>1, <1>2, <2>2 DEF WriterInv, AddsNone, AddsRow, Numbers
    <3> QED BY <3>1, <3>2 DEF StoreInv, Types
  <2> QED BY <1>2, <2>1, <2>2 DEF StoreInv, Types
<1>5. Types' /\ FileInv' /\ pc'[w] = "idle" /\ session'[w] = session[w]
  BY <1>1, <1>2, <1>3, <1>4, EndTypes DEF StoreInv, Types
<1>6. ASSUME session'[w] # Closed
      PROVE  /\ mode' = "session" /\ Numbered(session'[w], made') /\ Starts(Old(w)', session'[w])
  <2>1. mode = "session" /\ Numbered(session[w], made) /\ session[w] # Closed
    BY <1>2, <1>5, <1>6 DEF WriterInv
  <2>2. lines' = Headed(session[w]) /\ Events(lines') = session[w] /\ session[w] \in Seq(Rows)
    BY <1>1, <1>3, <2>1
  <2>3. Starts(session[w], session[w])
    BY <2>2, StartsAll
  <2> QED BY <1>1, <1>5, <2>1, <2>2, <2>3 DEF Old
<1>7. WriterInv(w)'
  BY <1>5, <1>6 DEF WriterInv
<1> QED BY <1>5, <1>7

\* Part of what a writer wanted to write is a file, and in it are the first of
\* the rows it wanted there.
LEMMA PartIs ==
  ASSUME StoreInv, NEW w \in Writers, LeavePart(w)
  PROVE  /\ mode # "memory" /\ pc[w] = "empty" /\ malformed' \in BOOLEAN
         /\ Shaped(lines', made) /\ Events(lines') \in Seq(Rows)
         /\ Starts(Events(lines'), Events(content[w]))
<1>1. PICK n \in 0..Len(content[w]), bad \in BOOLEAN :
        lines' = SubSeq(content[w], 1, n) /\ malformed' = bad
  BY DEF LeavePart
<1>2. pc[w] = "empty" /\ mode # "memory" /\ made \in Nat
  BY StoreIs DEF LeavePart, StoreInv, WriterInv
<1>3. Shaped(content[w], made)
  BY <1>2, ContentIs
<1>4. Shaped(lines', made) /\ Starts(Events(lines'), Events(content[w]))
  BY <1>1, <1>2, <1>3, ShapedPart
<1> QED BY <1>1, <1>2, <1>4 DEF Shaped, Numbered

LEMMA WriteFailsStep ==
  ASSUME StoreInv, NEW w \in Writers, WriteFails(w)
  PROVE  Types' /\ FileInv' /\ WriterInv(w)'
<1>1. /\ cuts < MaxCuts /\ cuts' = cuts + 1 /\ Idle(w) /\ LeavePart(w)
      /\ session' = session /\ mode' = mode /\ initial' = initial
      /\ made' = made /\ acked' = acked /\ base' = base /\ bare' = bare /\ seen' = seen
  BY DEF WriteFails, fixed
<1>2. /\ mode # "memory" /\ pc[w] = "empty" /\ malformed' \in BOOLEAN
      /\ Shaped(lines', made) /\ Events(lines') \in Seq(Rows)
      /\ Starts(Events(lines'), Events(content[w]))
  BY <1>1, PartIs
<1>3. cuts' \in 0..MaxCuts
  BY <1>1, StorageAssumption DEF StoreInv, Types
<1>4. bare' \in BOOLEAN /\ \A a \in acked' : a.row \in Rows
  BY <1>1 DEF StoreInv, Types
<1>5. Types' /\ FileInv' /\ pc'[w] = "idle"
  BY <1>1, <1>2, <1>3, <1>4, EndTypes
<1>6. ASSUME session[w] # Closed
      PROVE  mode = "session" /\ Numbered(session[w], made) /\ Starts(Old(w)', session[w])
  <2>1. mode = "session" /\ Numbered(session[w], made)
    BY <1>6 DEF StoreInv, WriterInv
  <2>2. Events(content[w]) = session[w]
    BY <1>2, <2>1, ContentIs
  <2> QED BY <1>2, <1>5, <2>1, <2>2 DEF Old
<1>7. WriterInv(w)'
  BY <1>1, <1>5, <1>6 DEF WriterInv
<1> QED BY <1>5, <1>7

LEMMA CrashStep ==
  ASSUME StoreInv, NEW w \in Writers, Crash(w)
  PROVE  Types' /\ FileInv' /\ WriterInv(w)'
<1>1. /\ mode # "memory" /\ cuts < MaxCuts /\ cuts' = cuts + 1 /\ Idle(w)
      /\ session' = [session EXCEPT ![w] = Closed] /\ mode' = mode /\ initial' = initial
      /\ made' = made /\ acked' = acked /\ base' = base /\ bare' = bare /\ seen' = seen
      /\ CrashIdle(w) \/ LeavePart(w)
  BY DEF Crash, SetSession, fixed
<1>2. Shaped(lines', made) /\ malformed' \in BOOLEAN
  <2>1. CASE CrashIdle(w)
    BY <1>1, <2>1 DEF CrashIdle, StoreInv, Types, FileInv
  <2>2. CASE LeavePart(w)
    BY <2>2, PartIs
  <2> QED BY <1>1, <2>1, <2>2
<1>3. cuts' \in 0..MaxCuts
  BY <1>1, StorageAssumption DEF StoreInv, Types
<1>4. bare' \in BOOLEAN /\ \A a \in acked' : a.row \in Rows
  BY <1>1 DEF StoreInv, Types
<1>5. Types' /\ FileInv' /\ pc'[w] = "idle"
  BY <1>1, <1>2, <1>3, <1>4, EndTypes
<1>6. session'[w] = Closed
  BY <1>1 DEF StoreInv, Types
<1>7. WriterInv(w)'
  BY <1>5, <1>6 DEF WriterInv
<1> QED BY <1>5, <1>7

-----------------------------------------------------------------------------
(* The follower.                                                             *)

\* A file the follower accepts holds the rows of the store, or the first of
\* those a writer is writing.
LEMMA ViewIs ==
  ASSUME StoreInv, mode \in {"file", "memory"}, NEW f \in Views,
         mode = "memory" \/ ReadAll(f, malformed)
  PROVE  /\ Numbered(Events(f), made)
         /\ Events(f) = (IF mode = "memory" THEN f ELSE Tail(f))
         /\ \/ f = lines
            \/ \E w \in Writers : pc[w] = "empty" /\ Starts(Events(f), Events(content[w]))
<1>0. made \in Nat /\ malformed \in BOOLEAN
  BY StorageAssumption DEF StoreInv, Types
<1>1. CASE f = lines
  <2>1. /\ Numbered(Events(lines), made)
        /\ mode = "memory" => Events(lines) = lines
        /\ mode # "memory" /\ ReadAll(lines, malformed) => Tail(lines) = Events(lines)
    BY StoreIs DEF StoreInv
  <2> QED BY <1>1, <2>1
<1>2. CASE f # lines
  <2>1. PICK w \in Writers : pc[w] = "empty" /\ \E n \in 1..Len(content[w]) : f = SubSeq(content[w], 1, n)
    BY <1>2 DEF Views
  <2>2. PICK n \in 1..Len(content[w]) : f = SubSeq(content[w], 1, n)
    BY <2>1
  <2>3. mode = "file"
    BY <2>1 DEF StoreInv, WriterInv
  <2>4. Shaped(content[w], made)
    BY <2>1, <2>3, ContentIs
  <2>5. n \in 0..Len(content[w])
    BY <1>0, <2>4, ShapedIs
  <2>6. Shaped(f, made) /\ Starts(Events(f), Events(content[w]))
    BY <1>0, <2>2, <2>4, <2>5, ShapedPart
  <2>7. Tail(f) = Events(f)
    BY <1>0, <2>3, <2>6, ReadableIs
  <2> QED BY <2>1, <2>3, <2>6, <2>7 DEF Shaped
<1> QED BY <1>1, <1>2

\* What it is given are the rows from the one its cursor asks for.
LEMMA GivenIs ==
  ASSUME StoreInv, mode \in {"file", "memory"}, NEW f \in Views,
         mode = "memory" \/ ReadAll(f, malformed)
  PROVE  /\ Cursor \in -1..MaxRows /\ Given(f) \in Seq(Rows) /\ Len(Given(f)) \in Nat
         /\ Given(f) # <<>> => Len(Given(f)) = Len(Events(f)) - Since(Cursor)
         /\ \A i \in 1..Len(Given(f)) :
              /\ Since(Cursor) + i \in 1..Len(Events(f))
              /\ Given(f)[i] = Events(f)[Since(Cursor) + i]
<1> DEFINE rows == Events(f)
           from == Since(Cursor) + 1
<1>1. rows \in Seq(Rows) /\ Len(rows) \in Nat /\ Given(f) = SubSeq(rows, from, Len(rows))
  <2>1. rows \in Seq(Rows) /\ rows = IF mode = "memory" THEN f ELSE Tail(f)
    BY ViewIs DEF Numbered
  <2> QED BY <2>1, LenProperties DEF Given
<1>2. Cursor \in -1..MaxRows
  <2>1. CASE seen = <<>>
    BY <2>1, StorageAssumption DEF Cursor
  <2>2. CASE seen # <<>>
    <3>1. seen \in Seq(Rows)
      BY DEF StoreInv, Types
    <3>2. Len(seen) \in Nat /\ Len(seen) # 0
      BY <2>2, <3>1, EmptySeq, LenProperties
    <3>3. seen[Len(seen)] \in Rows
      BY <3>1, <3>2, ElementOfSeq
    <3> QED BY <2>2, <3>3 DEF Cursor, Last, Rows
  <2> QED BY <2>1, <2>2
<1> HIDE DEF rows
<1>3. from \in Int /\ from >= 1 /\ from = Since(Cursor) + 1 /\ Since(Cursor) \in Nat
  BY <1>2, StorageAssumption DEF Since
<1> HIDE DEF from
<1>4. \A i \in from..Len(rows) : rows[i] \in Rows
  BY <1>1, <1>3, ElementOfSeq
<1>5. /\ SubSeq(rows, from, Len(rows)) \in Seq(Rows)
      /\ Len(SubSeq(rows, from, Len(rows))) = IF from <= Len(rows) THEN Len(rows) - from + 1 ELSE 0
      /\ \A i \in 1..(Len(rows) - from + 1) : SubSeq(rows, from, Len(rows))[i] = rows[from + i - 1]
  BY <1>1, <1>3, <1>4, SubSeqProperties
<1>6. Given(f) # <<>> => from <= Len(rows)
  BY <1>1, <1>3, SubSeqEmpty
<1>7. /\ Given(f) \in Seq(Rows) /\ Len(Given(f)) \in Nat
      /\ Given(f) # <<>> => Len(Given(f)) = Len(rows) - Since(Cursor)
  BY <1>1, <1>3, <1>5, <1>6
<1>8. ASSUME NEW i \in 1..Len(Given(f))
      PROVE  Since(Cursor) + i \in 1..Len(rows) /\ Given(f)[i] = rows[Since(Cursor) + i]
  <2>1. i \in 1..(Len(rows) - from + 1) /\ from + i - 1 = Since(Cursor) + i
    BY <1>1, <1>3, <1>5
  <2>2. Given(f)[i] = rows[from + i - 1]
    BY <1>1, <1>5, <2>1
  <2> QED BY <1>1, <1>3, <2>1, <2>2
<1> QED BY <1>2, <1>7, <1>8 DEF rows

LEMMA PollStep ==
  ASSUME StoreInv, Poll
  PROVE  StoreInv'
<1>1. PICK f \in Views : (mode = "memory" \/ ReadAll(f, malformed)) /\ seen' = seen \o Given(f)
  BY DEF Poll
<1>2. seen' \in Seq(Rows)
  <2>1. Given(f) \in Seq(Rows) /\ seen \in Seq(Rows)
    BY <1>1, GivenIs DEF Poll, StoreInv, Types
  <2> QED BY <1>1, <2>1, ConcatProperties
<1>3. /\ mode' = mode /\ initial' = initial /\ lines' = lines /\ malformed' = malformed
      /\ pc' = pc /\ content' = content /\ new' = new /\ session' = session /\ made' = made
      /\ acked' = acked /\ base' = base /\ bare' = bare /\ cuts' = cuts
  BY DEF Poll, fixed, writerVars
<1>4. Types'
  BY <1>2, <1>3 DEF StoreInv, Types
<1>5. FileInv' /\ SoloInv'
  BY <1>3 DEF StoreInv, FileInv, SoloInv, Rests
<1>6. \A w \in Writers : WriterInv(w)'
  BY <1>3 DEF StoreInv, WriterInv, Usable, Readable, ReadAll, Old, AddsNone, Numbers, AddsRow,
              SavesSession
<1> QED BY <1>4, <1>5, <1>6 DEF StoreInv

LEMMA WritesStep ==
  ASSUME StoreInv, NEW w \in Writers, Writes(w)
  PROVE  StoreInv'
<1>1. CASE \E expected \in -1..MaxRows, split \in BOOLEAN : AppendEvent(w, expected, split)
  BY <1>1, AppendEventStep, WriterFrame
<1>2. CASE SaveHeader(w)
  BY <1>2, SaveHeaderStep, WriterFrame
<1>3. CASE PutRow(w)
  BY <1>3, PutRowStep, WriterFrame
<1>4. CASE Create(w) \/ Load(w) \/ Record(w) \/ Drop(w)
  BY <1>4, SessionSteps, WriterFrame
<1>5. CASE Save(w)
  BY <1>5, SaveStep, WriterFrame
<1>6. CASE Truncate(w)
  BY <1>6, TruncateStep, WriterFrame
<1>7. CASE Write(w)
  BY <1>7, WriteStep, WriterFrame
<1>8. CASE Crash(w)
  BY <1>8, CrashStep, WriterFrame
<1>9. CASE WriteFails(w)
  BY <1>9, WriteFailsStep, WriterFrame
<1> QED BY <1>1, <1>2, <1>3, <1>4, <1>5, <1>6, <1>7, <1>8, <1>9 DEF Writes

LEMMA NextIs == Next => Poll \/ \E w \in Writers : Writes(w)
BY DEF Next, Writes

LEMMA StutterStep ==
  ASSUME StoreInv, UNCHANGED vars
  PROVE  StoreInv'
<1>3. /\ mode' = mode /\ initial' = initial /\ lines' = lines /\ malformed' = malformed
      /\ pc' = pc /\ content' = content /\ new' = new /\ session' = session /\ made' = made
      /\ acked' = acked /\ base' = base /\ bare' = bare /\ cuts' = cuts /\ seen' = seen
  BY DEF vars, fixed, writerVars
<1>4. Types'
  BY <1>3 DEF StoreInv, Types
<1>5. FileInv' /\ SoloInv'
  BY <1>3 DEF StoreInv, FileInv, SoloInv, Rests
<1>6. \A w \in Writers : WriterInv(w)'
  BY <1>3 DEF StoreInv, WriterInv, Usable, Readable, ReadAll, Old, AddsNone, Numbers, AddsRow,
              SavesSession
<1> QED BY <1>4, <1>5, <1>6 DEF StoreInv

\* A store is a header, or none, and rows numbered from 0, whoever has written
\* to it and wherever a write was cut short (storage.py, session.py).
THEOREM StoreInvariance == Spec => []StoreInv
<1>1. StoreInv /\ [Next]_vars => StoreInv'
  <2> SUFFICES ASSUME StoreInv, [Next]_vars PROVE StoreInv'
    OBVIOUS
  <2>1. CASE Next
    BY <2>1, NextIs, PollStep, WritesStep
  <2>2. CASE UNCHANGED vars
    BY <2>2, StutterStep
  <2> QED BY <2>1, <2>2
<1> QED BY <1>1, InitInv, PTL DEF Spec

LEMMA TypedIs == StoreInv => TypeOK
<1> SUFFICES ASSUME StoreInv PROVE TypeOK
  OBVIOUS
<1>1. made \in Nat /\ Events(lines) \in Seq(Rows)
  BY StoreIs DEF StoreInv
<1>2. \A n \in DOMAIN lines : lines[n] = Header => n = 1
  <2>1. Shaped(lines, made)
    BY <1>1, ShapedOf DEF StoreInv, FileInv
  <2> QED BY <1>1, <2>1, ShapedIs
<1>3. \A w \in Writers :
        /\ pc[w] \in {"idle", "ready", "empty"}
        /\ content[w] \in Seq(Lines) /\ (content[w] = <<>> <=> pc[w] = "idle")
  BY DEF StoreInv, Types
<1>4. \A w \in Writers : session[w] = Closed \/ (session[w] \in Seq(Rows) /\ mode = "session")
  BY DEF StoreInv, WriterInv, Numbered
<1>5. /\ malformed \in BOOLEAN /\ \A a \in acked : a.row \in Rows
      /\ seen \in Seq(Rows) /\ made \in 0..MaxRows /\ cuts \in 0..MaxCuts
  BY DEF StoreInv, Types
<1> QED BY <1>1, <1>2, <1>3, <1>4, <1>5 DEF TypeOK, Lines

\* Every variable of the stores has its type (storage.py, session.py).
THEOREM StoreTyped == Spec => []TypeOK
BY StoreInvariance, TypedIs, PTL

-----------------------------------------------------------------------------
(* The refinement.                                                           *)

\* The rows the store keeps are those the acting writer began with.
LEMMA KeptIs ==
  ASSUME StoreInv, NEW w \in Writers, Writes(w)
  PROVE  /\ Writing <=> pc[w] = "empty"
         /\ Writing' <=> pc'[w] = "empty"
         /\ Kept = Old(w)
         /\ Kept' = (IF pc'[w] = "empty" THEN base'.rows ELSE Events(lines'))
<1>1. \A v \in Writers \ {w} : pc[v] = "idle" /\ pc'[v] = "idle"
  BY OthersRest DEF StoreInv, Rests
<1>2. (Writing <=> pc[w] = "empty") /\ (Writing' <=> pc'[w] = "empty")
  BY <1>1 DEF Writing
<1> QED BY <1>2 DEF Kept, Stored, OnFile, Old

KeptInv == Numbered(Kept, made) /\ Kept \in Seq(Rows)
LEMMA KeptRows == StoreInv => KeptInv
<1> SUFFICES ASSUME StoreInv PROVE KeptInv
  OBVIOUS
<1>1. Numbered(Events(lines), made)
  BY StoreIs DEF StoreInv
<1>2. Writing => Numbered(base.rows, made)
  BY DEF StoreInv, WriterInv, Writing
<1>3. Numbered(Kept, made) /\ Kept \in Seq(Rows)
  BY <1>1, <1>2 DEF Kept, Stored, OnFile, Numbered
<1> QED BY <1>3 DEF KeptInv

LEMMA KeptRowsAfter == StoreInv' => KeptInv'
BY KeptRows, PTL

LEMMA Denser ==
  /\ \A rows, m : Numbered(rows, m) => DL!Dense(rows)
  /\ \A s, t : DL!IsPrefix(s, t) <=> IsPrefix(s, t)
  /\ \A s, t : DL!IsStrictPrefix(s, t) <=> IsPrefix(s, t) /\ s # t
  /\ \A rows \in Seq(Rows) : DL!Splits(rows) <=> ~Plain(rows)
<1>1. ASSUME NEW rows, NEW m, Numbered(rows, m)
      PROVE  DL!Dense(rows)
  <2>1. DOMAIN rows = 1..Len(rows)
    BY <1>1, LenProperties DEF Numbered
  <2> QED BY <1>1, <2>1 DEF Numbered, DL!Dense
<1>2. \A s, t : DL!IsPrefix(s, t) <=> IsPrefix(s, t)
  BY DEF DL!IsPrefix, IsPrefix
<1>3. ASSUME NEW rows \in Seq(Rows)
      PROVE  DL!Splits(rows) <=> ~Plain(rows)
  <2>1. DOMAIN rows = 1..Len(rows)
    BY LenProperties
  <2> QED BY <2>1 DEF Plain, DL!Splits
<1> QED BY <1>1, <1>2, <1>3 DEF DL!IsStrictPrefix

\* A step that leaves the file alone.
LEMMA SameFile ==
  ASSUME lines' = lines, malformed' = malformed, mode' = mode, base' = base,
         Writing' <=> Writing
  PROVE  Stored' = Stored
<1>1. (Readable' <=> Readable) /\ (ReadAll(lines, malformed)' <=> ReadAll(lines, malformed))
  BY DEF Readable, ReadAll
<1>2. OnFile' = OnFile
  BY <1>1 DEF OnFile
<1> QED BY <1>2 DEF Stored

\* What is stored: its rows, and whether they can be read.
LEMMA StoredIs ==
  ASSUME StoreInv
  PROVE  /\ Stored.ok \in BOOLEAN /\ Stored = [ok |-> Stored.ok, rows |-> Kept]
         /\ ~Writing => (Stored.ok <=> mode = "memory" \/ Usable)
         /\ mode # "memory" /\ ~Writing /\ Stored.ok => Plain(Kept)
<1>1. OnFile = [ok |-> (mode = "memory" \/ Usable), rows |-> Events(lines)]
  BY DEF OnFile, Usable
<1>2. (mode = "memory" \/ Usable) \in BOOLEAN
  BY DEF Usable
<1>3. CASE Writing
  BY <1>3 DEF Stored, Kept, StoreInv, Types
<1>4. CASE ~Writing
  <2>1. Stored = [ok |-> (mode = "memory" \/ Usable), rows |-> Events(lines)]
    BY <1>1, <1>4 DEF Stored
  <2>2. /\ Stored.ok \in BOOLEAN /\ Kept = Events(lines)
        /\ Stored.ok <=> mode = "memory" \/ Usable
    BY <1>2, <2>1 DEF Kept
  <2> QED BY <1>4, <2>1, <2>2, UsablePlain
<1> QED BY <1>3, <1>4

StoredInv == Stored.ok \in BOOLEAN /\ Stored = [ok |-> Stored.ok, rows |-> Kept]
LEMMA StoredOf == StoreInv => StoredInv
BY StoredIs DEF StoredInv

LEMMA StoredAfter == StoreInv' => StoredInv'
BY StoredOf, PTL

PlainLines == {r \in Lines : ~r.split}
PlainInv ==
  mode # "file" =>
    /\ ~bare /\ lines \in Seq(PlainLines) /\ base.rows \in Seq(PlainLines)
    /\ \A w \in Writers : content[w] \in Seq(PlainLines) /\ session[w] \in Seq(PlainLines)
OkInv == ~bare /\ cuts = 0 => (Stored.ok <=> Plain(Kept))

LEMMA PlainSeqs ==
  /\ Header \in PlainLines /\ <<Header>> \in Seq(PlainLines) /\ <<>> \in Seq(PlainLines)
  /\ \A s \in Seq(PlainLines) : Events(s) \in Seq(PlainLines) /\ Plain(s)
  /\ \A s, t \in Seq(PlainLines) : s \o t \in Seq(PlainLines)
  /\ \A s \in Seq(PlainLines), r \in PlainLines : Append(s, r) \in Seq(PlainLines)
  /\ \A s \in Seq(PlainLines) : \A n \in 0..Len(s) : SubSeq(s, 1, n) \in Seq(PlainLines)
<1>1. Header \in PlainLines /\ ~Header.split
  BY DEF PlainLines, Lines, Header, Row
<1>2. \A s \in Seq(PlainLines) : Plain(s) /\ Len(s) \in Nat
  BY ElementOfSeq, LenProperties DEF Plain, PlainLines
<1>3. \A s \in Seq(PlainLines) : Events(s) \in Seq(PlainLines)
  BY HeadTailProperties DEF Events
<1>4. \A s, t \in Seq(PlainLines) : s \o t \in Seq(PlainLines)
  BY ConcatProperties
<1>5. \A s \in Seq(PlainLines), r \in PlainLines : Append(s, r) \in Seq(PlainLines)
  BY AppendProperties
<1>6. ASSUME NEW s \in Seq(PlainLines), NEW n \in 0..Len(s)
      PROVE  SubSeq(s, 1, n) \in Seq(PlainLines)
  <2>1. n \in Int /\ \A i \in 1..n : s[i] \in PlainLines
    BY <1>2, ElementOfSeq
  <2> QED BY <2>1, SubSeqProperties
<1> QED BY <1>1, <1>2, <1>3, <1>4, <1>5, <1>6

LEMMA PlainStart == Init => PlainInv
BY PlainSeqs DEF Init, PlainInv, Closed

LEMMA PlainKept == StoreInv /\ PlainInv => (mode # "file" => Plain(Kept))
<1> SUFFICES ASSUME StoreInv, PlainInv, mode # "file" PROVE Plain(Kept)
  OBVIOUS
<1>1. Events(lines) \in Seq(PlainLines) /\ base.rows \in Seq(PlainLines)
  BY PlainSeqs DEF PlainInv
<1>2. Kept = base.rows \/ Kept = Events(lines)
  BY DEF Kept, Stored, OnFile
<1> QED BY <1>1, <1>2, PlainSeqs

LEMMA PlainKeptAfter == StoreInv' /\ PlainInv' => (mode' # "file" => Plain(Kept'))
<1>1. (mode # "file" => Plain(Kept))' <=> (mode' # "file" => Plain(Kept'))
  BY DEF Plain
<1> QED BY <1>1, PlainKept, PTL

LEMMA PlainStep ==
  ASSUME StoreInv, StoreInv', PlainInv, [Next]_vars
  PROVE  PlainInv'
<1>1. SUFFICES ASSUME mode # "file", mode' # "file" PROVE PlainInv'
  <2>1. mode' = mode
    BY DEF Next, vars, fixed, AppendEvent, SaveHeader, Create, Load, Record, Drop, Save, Truncate,
           Write, WriteFails, Crash, Poll, PutRow, Prepare, Elsewhere
  <2> QED BY <1>1, <2>1 DEF PlainInv
<1>2. /\ ~bare /\ lines \in Seq(PlainLines) /\ base.rows \in Seq(PlainLines)
      /\ \A w \in Writers : content[w] \in Seq(PlainLines) /\ session[w] \in Seq(PlainLines)
  BY <1>1 DEF PlainInv
<1>3. CASE UNCHANGED vars \/ Poll
  BY <1>2, <1>3 DEF PlainInv, vars, fixed, writerVars, Poll
<1>4. ASSUME NEW w \in Writers, Writes(w)
      PROVE  PlainInv'
  <2>0. \A v \in Writers \ {w} : session'[v] = session[v] /\ content'[v] = content[v]
    BY <1>4, OthersRest DEF StoreInv
  <2>1. SUFFICES /\ ~bare' /\ lines' \in Seq(PlainLines) /\ base'.rows \in Seq(PlainLines)
                 /\ content'[w] \in Seq(PlainLines) /\ session'[w] \in Seq(PlainLines)
    BY <1>2, <2>0 DEF PlainInv
  <2>2. CASE \E expected \in -1..MaxRows, split \in BOOLEAN : AppendEvent(w, expected, split)
    <3>1. PICK expected \in -1..MaxRows, split \in BOOLEAN : AppendEvent(w, expected, split)
      BY <2>2
    <3> DEFINE row == Row(NextSeq(w), made', split)
    <3>2. ~split /\ Prepare(w, <<row>>, [row |-> row, expected |-> expected])
      BY <1>1, <3>1 DEF AppendEvent
    <3>3. content' = [content EXCEPT ![w] = <<row>>] /\ new' = [new EXCEPT ![w] = [row |-> row, expected |-> expected]]
      BY <3>2 DEF Prepare
    <3>4. new'[w].row = row /\ content'[w] = <<row>>
      BY <3>3 DEF StoreInv, Types
    <3>5. row \in Lines /\ ~row.split
      BY <3>2, <3>4 DEF StoreInv, Types, Row
    <3>6. row \in PlainLines
      BY <3>5 DEF PlainLines
    <3> HIDE DEF row
    <3>7. content'[w] \in Seq(PlainLines)
      BY <3>4, <3>6
    <3> QED BY <1>2, <3>2, <3>7 DEF Prepare
  <2>3. CASE SaveHeader(w)
    BY <1>1, <2>3 DEF SaveHeader
  <2>4. CASE PutRow(w)
    BY <1>2, <2>4, PlainSeqs DEF PutRow, Idle, StoreInv, Types
  <2>5. CASE Create(w) \/ Load(w) \/ Drop(w)
    <3>1. /\ content' = content /\ bare' = bare /\ lines' = lines /\ base' = base
          /\ \/ session' = [session EXCEPT ![w] = <<>>]
             \/ session' = [session EXCEPT ![w] = Closed]
             \/ lines # <<>> /\ session' = [session EXCEPT ![w] = Tail(lines)]
      BY <2>5 DEF Create, Load, Drop, SetSession, Elsewhere, ReadAll
    <3>2. \/ session'[w] \in {<<>>, Closed}
          \/ lines # <<>> /\ session'[w] = Tail(lines)
      BY <3>1 DEF StoreInv, Types
    <3>3. lines # <<>> => Tail(lines) \in Seq(PlainLines)
      BY <1>2, HeadTailProperties
    <3> QED BY <1>2, <3>1, <3>2, <3>3, PlainSeqs DEF Closed
  <2>6. CASE Record(w)
    <3> DEFINE row == Row(Len(session[w]), made', FALSE)
    <3>1. session'[w] = Append(session[w], row) /\ session[w] # Closed /\ made' = made + 1
          /\ made < MaxRows
      BY <2>6 DEF Record, SetSession, Opened, StoreInv, Types
    <3>2. Numbered(session[w], made) /\ made \in Nat
      BY <3>1, StoreIs DEF StoreInv, WriterInv
    <3>3. row \in Rows
      BY <3>1, <3>2, NumberedAppend
    <3>4. row \in PlainLines
      BY <3>3 DEF PlainLines, Lines, Row
    <3> HIDE DEF row
    <3> QED BY <1>2, <2>6, <3>1, <3>4, PlainSeqs DEF Record, Elsewhere
  <2>7. CASE Save(w)
    <3>1. content'[w] = <<Header>> \o session[w]
      BY <2>7 DEF Save, Prepare, StoreInv, Types
    <3> QED BY <1>2, <2>7, <3>1, PlainSeqs DEF Save, Prepare
  <2>8. CASE Truncate(w)
    BY <1>2, <2>8, PlainSeqs DEF Truncate, OnFile
  <2>9. CASE Write(w)
    <3>1. bare' = (bare \/ Head(content[w]) # Header) /\ pc[w] = "empty" /\ content'[w] = <<>>
      BY <2>9 DEF Write, Idle, StoreInv, Types
    <3>2. mode = "session"
      BY <1>1, <3>1 DEF StoreInv, Types, WriterInv
    <3>3. content[w] = Headed(session[w]) /\ session[w] \in Seq(Rows)
      BY <3>1, <3>2, ContentIs
    <3>4. Head(content[w]) = Header
      BY <3>3, HeadedIs
    <3> QED BY <1>2, <2>9, <3>1, <3>4, PlainSeqs DEF Write
  <2>10. CASE WriteFails(w) \/ Crash(w)
    <3>1. lines' = lines \/ \E n \in 0..Len(content[w]) : lines' = SubSeq(content[w], 1, n)
      BY <2>10 DEF WriteFails, Crash, CrashIdle, LeavePart
    <3>2. lines' \in Seq(PlainLines)
      BY <1>2, <3>1, PlainSeqs
    <3>3. content'[w] = <<>> /\ session'[w] \in {session[w], Closed} /\ bare' = bare /\ base' = base
      BY <2>10 DEF WriteFails, Crash, Idle, SetSession, StoreInv, Types
    <3> QED BY <1>2, <3>2, <3>3, PlainSeqs DEF Closed
  <2> QED BY <1>4, <2>2, <2>3, <2>4, <2>5, <2>6, <2>7, <2>8, <2>9, <2>10 DEF Writes
<1> QED BY <1>3, <1>4, NextIs

\* A step that lengthens what is kept.
LEMMA LengthenRefines ==
  ASSUME StoreInv, StoreInv', Stored.ok, Plain(Kept), Stored.ok' <=> Plain(Kept'),
         Starts(Kept, Kept'), cuts' = cuts
  PROVE  DL!Next
<1>1. /\ Kept \in Seq(Rows) /\ Kept' \in Seq(Rows) /\ Numbered(Kept', made')
      /\ Stored.rows = Kept /\ Stored.rows' = Kept'
  BY KeptRows, KeptRowsAfter DEF Kept, KeptInv
<1>2. IsPrefix(Kept, Kept')
  BY <1>1, PrefixIs
<1>3. CASE Kept' = Kept
  <2>1. Stored.ok' = Stored.ok
    BY <1>3, StoredOf, StoredAfter DEF StoredInv
  <2>2. Stored' = Stored
    BY <1>3, <2>1, StoredOf, StoredAfter DEF StoredInv
  <2> QED BY <2>2 DEF DL!Next
<1>4. CASE Kept' # Kept
  <2>1. DL!IsStrictPrefix(Stored.rows, Stored.rows') /\ DL!Dense(Stored.rows')
    BY <1>1, <1>2, <1>4, Denser
  <2>2. Stored.ok' <=> ~DL!Splits(Stored.rows')
    BY <1>1, Denser
  <2> QED BY <2>1, <2>2 DEF DL!Next, DL!Extend
<1> QED BY <1>3, <1>4

\* A write of a session that mends what a write cut short has left.
LEMMA MendRefines ==
  ASSUME StoreInv, StoreInv', ~Stored.ok, Stored.ok', Plain(Kept), cuts > 0,
         Starts(Kept, Kept'), cuts' = cuts
  PROVE  DL!Next
<1>1. /\ Kept \in Seq(Rows) /\ Kept' \in Seq(Rows) /\ Numbered(Kept', made')
      /\ Stored.rows = Kept /\ Stored.rows' = Kept'
  BY KeptRows, KeptRowsAfter DEF Kept, KeptInv
<1>2. DL!IsPrefix(Stored.rows, Stored.rows') /\ DL!Dense(Stored.rows')
  BY <1>1, PrefixIs, Denser
<1>3. ~DL!Splits(Stored.rows)
  BY <1>1, Denser
<1> QED BY <1>2, <1>3 DEF DL!Next, DL!Mend

\* Steps that prepare a write, and those of a session, do not show.
LEMMA QuietRefines ==
  ASSUME StoreInv, NEW w \in Writers,
         \/ \E expected \in -1..MaxRows, split \in BOOLEAN : AppendEvent(w, expected, split)
         \/ SaveHeader(w)
         \/ Create(w)
         \/ Load(w)
         \/ Record(w)
         \/ Drop(w)
         \/ Save(w)
  PROVE  Stored' = Stored /\ cuts' = cuts
<1>1. Writes(w)
  BY DEF Writes
<1>2. /\ lines' = lines /\ malformed' = malformed /\ mode' = mode /\ base' = base
      /\ cuts' = cuts
  BY DEF AppendEvent, SaveHeader, Create, Load, Record, Drop, Save, Prepare, Elsewhere, fixed
<1>3. pc[w] = "idle" /\ pc'[w] # "empty"
  BY DEF AppendEvent, SaveHeader, Create, Load, Record, Drop, Save, Prepare, Elsewhere, Free,
         StoreInv, Types
<1>4. Writing' <=> Writing
  BY <1>1, <1>3, KeptIs
<1> QED BY <1>2, <1>4, SameFile

LEMMA TruncateRefines ==
  ASSUME StoreInv, NEW w \in Writers, Truncate(w)
  PROVE  Stored' = Stored /\ cuts' = cuts
<1>1. Writes(w)
  BY DEF Writes
<1>2. pc[w] = "ready" /\ base' = OnFile /\ cuts' = cuts /\ pc'[w] = "empty"
  BY DEF Truncate, StoreInv, Types
<1>3. ~Writing /\ Writing'
  BY <1>1, <1>2, KeptIs
<1> QED BY <1>2, <1>3 DEF Stored

\* What a write leaves.
LEMMA WriteKeeps ==
  ASSUME StoreInv, NEW w \in Writers, Write(w)
  PROVE  /\ Kept = base.rows /\ Kept' = Events(content[w]) /\ Starts(Kept, Kept')
         /\ ~Writing' /\ mode # "memory" /\ mode' = mode
         /\ mode = "file" => Stored.ok /\ Plain(Kept)
         /\ ~bare' => (Stored.ok' <=> Plain(Kept'))
<1>1. Writes(w)
  BY DEF Writes
<1>2. /\ pc[w] = "empty" /\ pc'[w] = "idle" /\ lines' = content[w] /\ malformed' = malformed
      /\ bare' = (bare \/ Head(content[w]) # Header) /\ mode' = mode
  BY DEF Write, Idle, fixed, StoreInv, Types
<1>3. /\ Kept = base.rows /\ Kept' = Events(content[w]) /\ Writing /\ ~Writing'
      /\ Old(w) = base.rows
  BY <1>1, <1>2, KeptIs DEF Old
<1>4. /\ mode # "memory" /\ ~malformed /\ content[w] # <<>> /\ made \in Nat
      /\ mode = "file" => base.ok /\ Plain(base.rows)
  BY <1>2, StoreIs DEF StoreInv, Types, WriterInv
<1>5. Shaped(content[w], made) /\ Starts(Kept, Kept')
  BY <1>2, <1>3, <1>4, ContentIs
<1>6. ASSUME ~bare'
      PROVE  Stored.ok' <=> Plain(Kept')
  <2>1. Head(content[w]) = Header
    BY <1>2, <1>6
  <2>2. ReadAll(content[w], FALSE) <=> Plain(Kept')
    BY <1>3, <1>4, <1>5, <2>1, ReadableIs
  <2>3. ReadAll(lines', malformed') <=> ReadAll(content[w], FALSE)
    BY <1>2, <1>4 DEF ReadAll
  <2>4. Readable' /\ mode' # "memory"
    BY <1>2, <1>4 DEF Readable
  <2>5. Stored' = OnFile'
    BY <1>3 DEF Stored
  <2>6. OnFile'.ok <=> ReadAll(lines', malformed')
    BY <2>4 DEF OnFile
  <2> QED BY <2>2, <2>3, <2>5, <2>6
<1>7. mode = "file" => Stored.ok /\ Plain(Kept)
  BY <1>3, <1>4 DEF Stored
<1> QED BY <1>2, <1>3, <1>4, <1>5, <1>6, <1>7

LEMMA PutRowKeeps ==
  ASSUME StoreInv, NEW w \in Writers, PutRow(w)
  PROVE  /\ mode = "memory" /\ mode' = "memory" /\ new[w].row \in Rows
         /\ Kept = lines /\ lines' = Append(lines, new[w].row) /\ Kept' = lines' /\ ~Writing'
         /\ Starts(Kept, Kept') /\ Numbers(w, lines)
<1>1. Writes(w)
  BY DEF Writes
<1>2. /\ mode = "memory" /\ mode' = mode /\ pc[w] = "ready" /\ pc'[w] = "idle"
      /\ lines' = lines \o content[w]
  BY DEF PutRow, Idle, fixed, StoreInv, Types
<1>3. /\ content[w] = <<new[w].row>> /\ Numbered(Append(lines, new[w].row), made)
      /\ new[w].row \in Rows /\ lines \in Seq(Rows) /\ Numbers(w, lines)
  BY <1>2 DEF StoreInv, WriterInv, FileInv, Numbers, Numbered
<1>4. lines' = Append(lines, new[w].row) /\ lines' \in Seq(Rows)
  BY <1>2, <1>3, AppendIsConcat DEF Numbered
<1>5. Events(lines) = lines /\ Events(lines') = lines'
  BY <1>3, <1>4, EventsOf
<1>6. Kept = lines /\ Kept' = lines' /\ ~Writing'
  BY <1>1, <1>2, <1>5, KeptIs DEF Old
<1>7. Starts(Kept, Kept')
  BY <1>3, <1>4, <1>6, StartsAll
<1> QED BY <1>2, <1>3, <1>4, <1>6, <1>7

LEMMA CutRefines ==
  ASSUME StoreInv, PlainInv, NEW w \in Writers, Crash(w) \/ WriteFails(w)
  PROVE  DL!Next
<1>1. /\ Writes(w) /\ cuts' = cuts + 1 /\ mode' = mode /\ base' = base /\ pc'[w] = "idle"
      /\ (CrashIdle(w) /\ mode # "memory") \/ LeavePart(w)
  BY DEF Writes, Crash, WriteFails, Idle, fixed, StoreInv, Types
<1>2. SUFFICES Stored.ok' => ~DL!Splits(Kept) /\ (\/ DL!IsPrefix(Kept', Kept)
                                                  \/ DL!IsPrefix(Kept, Kept'))
  BY <1>1 DEF DL!Next, DL!Cut, Kept
<1>0. /\ Writing <=> pc[w] = "empty"
      /\ Writing' <=> pc'[w] = "empty"
      /\ Kept = Old(w)
      /\ pc'[w] # "empty" => Kept' = Events(lines')
  <2>1. Writes(w)
    BY <1>1
  <2> QED BY <2>1, KeptIs
<1>5. Kept \in Seq(Rows)
  BY KeptRows DEF KeptInv
<1>3. CASE CrashIdle(w) /\ mode # "memory"
  <2>1. Stored' = Stored /\ ~Writing
    <3>1. Writing' <=> Writing
      BY <1>0, <1>1, <1>3 DEF CrashIdle
    <3> QED BY <1>0, <1>1, <1>3, <3>1, SameFile DEF CrashIdle
  <2>2. Stored.ok => Plain(Kept)
    BY <1>3, <2>1, StoredIs
  <2>3. Kept' = Kept /\ DL!IsPrefix(Kept, Kept)
    BY <1>5, <2>1, StartsAll, PrefixIs, Denser DEF Kept
  <2> QED BY <1>5, <2>1, <2>2, <2>3, Denser
<1>4. CASE LeavePart(w)
  <2>1. /\ mode # "memory" /\ pc[w] = "empty" /\ Events(lines') \in Seq(Rows)
        /\ Starts(Events(lines'), Events(content[w]))
    BY <1>4, PartIs
  <2>2. /\ Events(content[w]) \in Seq(Rows) /\ base.rows \in Seq(Rows)
        /\ Starts(base.rows, Events(content[w]))
    BY <2>1, ContentIs DEF Old
  <2>3. Kept = base.rows /\ Kept' = Events(lines')
    BY <1>0, <1>1, <2>1 DEF Old
  <2>4. Starts(Kept, Kept') \/ Starts(Kept', Kept)
    BY <2>1, <2>2, <2>3, StartsAll
  <2>5. DL!IsPrefix(Kept, Kept') \/ DL!IsPrefix(Kept', Kept)
    BY <2>1, <2>2, <2>3, <2>4, PrefixIs, Denser
  <2>6. Plain(Kept)
    <3>1. CASE mode = "file"
      BY <2>1, <2>3, <3>1 DEF StoreInv, WriterInv
    <3>2. CASE mode # "file"
      BY <3>2, PlainKept
    <3> QED BY <3>1, <3>2
  <2> QED BY <1>5, <2>5, <2>6, Denser
<1> QED BY <1>1, <1>3, <1>4

LEMMA WriteRefines ==
  ASSUME StoreInv, StoreInv', PlainInv, PlainInv', OkInv, NEW w \in Writers, Write(w), ~bare'
  PROVE  DL!Next
<1>1. cuts' = cuts /\ ~bare /\ cuts \in Nat
  BY StorageAssumption DEF Write, StoreInv, Types
<1>2. /\ Starts(Kept, Kept') /\ mode' = mode /\ mode # "memory"
      /\ mode = "file" => Stored.ok /\ Plain(Kept)
      /\ Stored.ok' <=> Plain(Kept')
  BY WriteKeeps
<1>3. CASE mode = "file"
  BY <1>1, <1>2, <1>3, LengthenRefines
<1>4. CASE mode # "file"
  <2>1. Plain(Kept) /\ Plain(Kept')
    BY <1>2, <1>4, PlainKept, PlainKeptAfter
  <2>2. CASE Stored.ok
    BY <1>1, <1>2, <2>1, <2>2, LengthenRefines
  <2>3. CASE ~Stored.ok
    <3>1. cuts > 0
      BY <1>1, <2>1, <2>3 DEF OkInv
    <3> QED BY <1>1, <1>2, <2>1, <2>3, <3>1, MendRefines
  <2> QED BY <2>2, <2>3
<1> QED BY <1>3, <1>4

MemoryOkInv == mode = "memory" => Stored.ok
LEMMA MemoryOk == StoreInv => MemoryOkInv
BY StoredIs DEF MemoryOkInv, StoreInv, WriterInv, Writing

LEMMA MemoryOkAfter == StoreInv' => MemoryOkInv'
BY MemoryOk, PTL

LEMMA PutRowRefines ==
  ASSUME StoreInv, StoreInv', PlainInv, PlainInv', NEW w \in Writers, PutRow(w)
  PROVE  DL!Next
<1>1. cuts' = cuts
  BY DEF PutRow
<1>2. mode = "memory" /\ mode' = "memory" /\ Starts(Kept, Kept') /\ Stored.ok /\ Stored.ok'
  BY PutRowKeeps, MemoryOk, MemoryOkAfter DEF MemoryOkInv
<1>3. Plain(Kept) /\ Plain(Kept')
  BY <1>2, PlainKept, PlainKeptAfter
<1> QED BY <1>1, <1>2, <1>3, LengthenRefines

LEMMA OkStep ==
  ASSUME StoreInv, StoreInv', PlainInv, PlainInv', OkInv, [Next]_vars
  PROVE  OkInv'
<1>1. ASSUME Stored' = Stored, bare' = bare, cuts' = cuts
      PROVE  OkInv'
  BY <1>1 DEF OkInv, Kept
<1>2. CASE Poll \/ UNCHANGED vars
  BY <1>1, <1>2, SameFile DEF Poll, vars, fixed, writerVars, Writing
<1>3. ASSUME NEW w \in Writers, Writes(w)
      PROVE  OkInv'
  <2>1. CASE PutRow(w)
    <3>1. mode' = "memory" /\ Stored.ok'
      BY <2>1, PutRowKeeps, MemoryOkAfter DEF MemoryOkInv
    <3> QED BY <3>1, PlainKeptAfter DEF OkInv
  <2>2. CASE Write(w)
    BY <2>2, WriteKeeps DEF OkInv
  <2>3. CASE Crash(w) \/ WriteFails(w)
    <3>1. cuts' # 0
      BY <2>3, StorageAssumption DEF Crash, WriteFails, StoreInv, Types
    <3> QED BY <3>1 DEF OkInv
  <2>4. CASE Truncate(w)
    <3>1. bare' = bare
      BY <2>4 DEF Truncate
    <3> QED BY <1>1, <2>4, <3>1, TruncateRefines
  <2>5. CASE \/ \E expected \in -1..MaxRows, split \in BOOLEAN : AppendEvent(w, expected, split)
             \/ SaveHeader(w)
             \/ Create(w)
             \/ Load(w)
             \/ Record(w)
             \/ Drop(w)
             \/ Save(w)
    <3>1. bare' = bare
      BY <2>5 DEF AppendEvent, SaveHeader, Create, Load, Record, Drop, Save, Prepare, Elsewhere
    <3> QED BY <1>1, <2>5, <3>1, QuietRefines
  <2> QED BY <1>3, <2>1, <2>2, <2>3, <2>4, <2>5 DEF Writes
<1> QED BY <1>2, <1>3, NextIs

LEMMA OkStart == Init => OkInv
<1> SUFFICES ASSUME Init PROVE OkInv
  OBVIOUS
<1>1. Kept = <<>> /\ Stored.ok /\ Len(<<>>) = 0
  BY DEF Init, Kept, Stored, OnFile, Writing, Events, Readable
<1> QED BY <1>1 DEF OkInv, Plain

\* Outside the files of the adapters no row splits, and a session's file can be
\* read unless a write was cut short (storage.py, session.py).
LEMMA OkInvariance == Spec => [](PlainInv /\ OkInv)
<1>1. StoreInv /\ StoreInv' /\ PlainInv /\ [Next]_vars => PlainInv'
  BY PlainStep
<1>2. StoreInv /\ StoreInv' /\ PlainInv /\ PlainInv' /\ OkInv /\ [Next]_vars => OkInv'
  BY OkStep
<1> QED BY <1>1, <1>2, PlainStart, OkStart, StoreInvariance, PTL DEF Spec

\* With a header to begin with, the stores are a DurableLog: rows are only
\* added, each at its own position; only a crash or a failed write takes rows
\* off the end; and what cannot be read is what such a write has left, or holds
\* a row that splits (FileStorageAdapter, MemoryStorageAdapter, Session.save
\* and load).
THEOREM StoreIsDurable == Spec => ImplementsDurableLog
<1>1. ASSUME StoreInv, StoreInv', PlainInv, PlainInv', OkInv, Next, ~bare'
      PROVE  DL!Next
  <2>1. CASE Poll
    <3>1. Stored' = Stored /\ cuts' = cuts
      BY <2>1, SameFile DEF Poll, fixed, writerVars, Writing
    <3> QED BY <3>1 DEF DL!Next
  <2>2. ASSUME NEW w \in Writers, Writes(w)
        PROVE  DL!Next
    <3>1. CASE PutRow(w)
      BY <1>1, <3>1, PutRowRefines
    <3>2. CASE Write(w)
      BY <1>1, <3>2, WriteRefines
    <3>3. CASE Crash(w) \/ WriteFails(w)
      BY <1>1, <3>3, CutRefines
    <3>4. CASE Truncate(w)
      BY <1>1, <3>4, TruncateRefines DEF DL!Next
    <3>5. CASE \/ \E expected \in -1..MaxRows, split \in BOOLEAN : AppendEvent(w, expected, split)
               \/ SaveHeader(w)
               \/ Create(w)
               \/ Load(w)
               \/ Record(w)
               \/ Drop(w)
               \/ Save(w)
      BY <1>1, <3>5, QuietRefines DEF DL!Next
    <3> QED BY <2>2, <3>1, <3>2, <3>3, <3>4, <3>5 DEF Writes
  <2> QED BY <1>1, <2>1, <2>2, NextIs
<1>2. /\ StoreInv /\ StoreInv' /\ PlainInv /\ PlainInv' /\ OkInv /\ [Next]_vars
      => [~bare' => DL!Next]_vars
  BY <1>1
<1> QED BY <1>2, StoreInvariance, OkInvariance, PTL DEF Spec, ImplementsDurableLog

-----------------------------------------------------------------------------
(* What was acknowledged.                                                    *)

LEMMA RangeIs ==
  /\ \A s, t \in Seq(Rows) : Starts(s, t) => Range(s) \subseteq Range(t)
  /\ \A s \in Seq(Rows), r \in Rows : Range(Append(s, r)) = Range(s) \cup {r}
<1>1. \A s \in Seq(Rows) : Range(s) = {s[i] : i \in 1..Len(s)} /\ Len(s) \in Nat
  BY RangeEquality, LenProperties
<1>2. ASSUME NEW s \in Seq(Rows), NEW t \in Seq(Rows), Starts(s, t)
      PROVE  Range(s) \subseteq Range(t)
  <2>1. \A i \in 1..Len(s) : i \in 1..Len(t) /\ s[i] = t[i]
    BY <1>1, <1>2 DEF Starts
  <2> QED BY <1>1, <2>1
<1>3. ASSUME NEW s \in Seq(Rows), NEW r \in Rows
      PROVE  Range(Append(s, r)) = Range(s) \cup {r}
  <2> DEFINE one == <<r>>
             all == Append(s, r)
  <2>1. one \in Seq(Rows) /\ Len(one) = 1 /\ one[1] = r
    OBVIOUS
  <2>2. all = s \o one
    BY <1>3, AppendIsConcat
  <2> HIDE DEF one, all
  <2>3. Range(one) = {r}
    BY <1>1, <2>1
  <2>4. Range(all) = Range(s) \cup Range(one)
    BY <1>3, <2>1, <2>2, RangeConcatenation
  <2> QED BY <2>3, <2>4 DEF all
<1> QED BY <1>2, <1>3

Acks == {a.row : a \in acked}
AckInv ==
  ~bare /\ cuts = 0 =>
    /\ Acks = Range(Kept)
    /\ \A a \in acked : a.expected \in {-1, a.row.seq}

\* A write acknowledges what it adds to the rows.
LEMMA AckAdded ==
  ASSUME StoreInv, AckInv, NEW r, r.row \in Rows, acked' = acked \cup {r},
         Kept' = Append(Kept, r.row), r.expected \in {-1, r.row.seq},
         bare' = bare, cuts' = cuts
  PROVE  AckInv'
<1>1. Range(Kept') = Range(Kept) \cup {r.row}
  BY KeptRows, RangeIs DEF KeptInv
<1>2. Acks' = Acks \cup {r.row}
  BY DEF Acks
<1> QED BY <1>1, <1>2 DEF AckInv

LEMMA AckWrite ==
  ASSUME StoreInv, StoreInv', AckInv, NEW w \in Writers, Write(w)
  PROVE  AckInv'
<1>1. /\ cuts' = cuts /\ bare' = (bare \/ Head(content[w]) # Header) /\ pc[w] = "empty"
      /\ acked' = acked \cup (IF mode = "session" THEN Saved(w) ELSE {new[w]} \ {NoRow})
  BY DEF Write
<1>2. SUFFICES ASSUME ~bare', cuts' = 0 PROVE AckInv'
  BY DEF AckInv
<1>3. ~bare /\ ~bare' /\ bare' = bare /\ Acks = Range(Kept)
      /\ \A a \in acked : a.expected \in {-1, a.row.seq}
  <2>1. bare' = bare
    BY <1>1, <1>2 DEF StoreInv, Types
  <2> QED BY <1>1, <1>2, <2>1 DEF AckInv
<1>4. /\ Kept = base.rows /\ Kept' = Events(content[w]) /\ Starts(Kept, Kept') /\ mode # "memory"
      /\ Kept \in Seq(Rows) /\ Kept' \in Seq(Rows) /\ WriterInv(w) /\ Old(w) = Kept
  BY <1>1, WriteKeeps, KeptRows, KeptRowsAfter DEF KeptInv, StoreInv, Old
<1>5. CASE mode = "session"
  <2>1. acked' = acked \cup Saved(w) /\ Kept' = session[w]
    BY <1>1, <1>4, <1>5, ContentIs
  <2>2. {a.row : a \in Saved(w)} = Range(session[w]) /\ \A a \in Saved(w) : a.expected = -1
    <3>1. \A r : [row |-> r, expected |-> -1].row = r /\ [row |-> r, expected |-> -1].expected = -1
      OBVIOUS
    <3>2. \A a \in Saved(w) : a.row \in Range(session[w]) /\ a.expected = -1
      BY <3>1 DEF Saved
    <3>3. \A r \in Range(session[w]) : \E a \in Saved(w) : a.row = r
      BY <3>1 DEF Saved
    <3> QED BY <3>2, <3>3
  <2>3. Acks' = Acks \cup Range(session[w])
    BY <2>1, <2>2 DEF Acks
  <2>4. Range(Kept) \subseteq Range(Kept')
    BY <1>4, RangeIs
  <2>5. Acks' = Range(Kept')
    BY <1>3, <2>1, <2>3, <2>4
  <2> QED BY <1>3, <2>1, <2>2, <2>5 DEF AckInv
<1>6. CASE mode = "file"
  <2>1. AddsNone(w) \/ AddsRow(w)
    BY <1>1, <1>4, <1>6 DEF WriterInv
  <2>2. acked' = acked \cup ({new[w]} \ {NoRow})
    BY <1>1, <1>6
  <2>3. CASE AddsNone(w)
    <3>1. acked' = acked /\ Kept' = Kept
      BY <1>4, <2>2, <2>3 DEF AddsNone
    <3> QED BY <1>3, <3>1 DEF AckInv, Acks
  <2>4. CASE AddsRow(w)
    <3>1. /\ new[w].row \in Rows /\ new[w].row.seq = Len(Kept)
          /\ new[w].expected \in {-1, Len(Kept)} /\ Kept' = Append(Kept, new[w].row)
      BY <1>4, <2>4 DEF AddsRow, Numbers
    <3>2. new[w] # NoRow
      BY <3>1, NoRowIs
    <3>3. acked' = acked \cup {new[w]}
      BY <2>2, <3>2
    <3> QED BY <1>1, <1>3, <3>1, <3>3, AckAdded
  <2> QED BY <2>1, <2>3, <2>4
<1> QED BY <1>4, <1>5, <1>6 DEF StoreInv, Types

LEMMA AckStep ==
  ASSUME StoreInv, StoreInv', AckInv, [Next]_vars
  PROVE  AckInv'
<1>1. ASSUME Stored' = Stored, acked' = acked, bare' = bare, cuts' = cuts
      PROVE  AckInv'
  <2>1. Kept' = Kept
    BY <1>1 DEF Kept
  <2> QED BY <1>1, <2>1 DEF AckInv, Acks
<1>2. CASE Poll \/ UNCHANGED vars
  BY <1>1, <1>2, SameFile DEF Poll, vars, fixed, writerVars, Writing
<1>3. ASSUME NEW w \in Writers, Writes(w)
      PROVE  AckInv'
  <2>1. CASE PutRow(w)
    <3>1. /\ acked' = acked \cup {new[w]} /\ bare' = bare /\ cuts' = cuts
      BY <2>1 DEF PutRow
    <3>2. /\ new[w].row \in Rows /\ Kept' = Append(Kept, new[w].row)
          /\ new[w].expected \in {-1, new[w].row.seq}
      BY <2>1, PutRowKeeps DEF Numbers
    <3> QED BY <3>1, <3>2, AckAdded
  <2>2. CASE Write(w)
    BY <2>2, AckWrite
  <2>3. CASE Crash(w) \/ WriteFails(w)
    <3>1. cuts' # 0
      BY <2>3, StorageAssumption DEF Crash, WriteFails, StoreInv, Types
    <3> QED BY <3>1 DEF AckInv
  <2>4. CASE Truncate(w)
    <3>1. acked' = acked /\ bare' = bare
      BY <2>4 DEF Truncate
    <3> QED BY <1>1, <2>4, <3>1, TruncateRefines
  <2>5. CASE \/ \E expected \in -1..MaxRows, split \in BOOLEAN : AppendEvent(w, expected, split)
             \/ SaveHeader(w)
             \/ Create(w)
             \/ Load(w)
             \/ Record(w)
             \/ Drop(w)
             \/ Save(w)
    <3>1. acked' = acked /\ bare' = bare
      BY <2>5 DEF AppendEvent, SaveHeader, Create, Load, Record, Drop, Save, Prepare, Elsewhere
    <3> QED BY <1>1, <2>5, <3>1, QuietRefines
  <2> QED BY <1>3, <2>1, <2>2, <2>3, <2>4, <2>5 DEF Writes
<1> QED BY <1>2, <1>3, NextIs

LEMMA AckStart == Init => AckInv
<1> SUFFICES ASSUME Init PROVE AckInv
  OBVIOUS
<1>1. Kept = <<>> /\ acked = {}
  BY DEF Init, Kept, Stored, OnFile, Writing, Events
<1>2. Range(<<>>) = {}
  <2> DEFINE none == <<>>
  <2>1. none \in Seq(Rows) /\ Len(none) = 0
    OBVIOUS
  <2> HIDE DEF none
  <2>2. Range(none) = {none[i] : i \in 1..Len(none)}
    BY <2>1, RangeEquality
  <2>3. Range(none) = {}
    BY <2>1, <2>2
  <2> QED BY <2>3 DEF none
<1> QED BY <1>1, <1>2 DEF AckInv, Acks

LEMMA AckIs == StoreInv /\ OkInv /\ AckInv => AckedAreStored
<1> SUFFICES ASSUME StoreInv, OkInv, AckInv, ~bare, cuts = 0
    PROVE  /\ {a.row : a \in acked} = Range(Stored.rows)
           /\ \A a \in acked : a.expected \in {-1, a.row.seq}
           /\ Stored.ok <=> \A a \in acked : ~a.row.split
  BY DEF AckedAreStored
<1>1. /\ {a.row : a \in acked} = Range(Kept) /\ Kept = Stored.rows
      /\ \A a \in acked : a.expected \in {-1, a.row.seq}
      /\ Stored.ok <=> Plain(Kept)
  BY DEF AckInv, OkInv, Acks, Kept
<1>2. Kept \in Seq(Rows)
  BY KeptRows DEF KeptInv
<1>3. Range(Kept) = {Kept[i] : i \in 1..Len(Kept)}
  BY <1>2, RangeEquality
<1>4. Plain(Kept) <=> \A r \in Range(Kept) : ~r.split
  BY <1>3 DEF Plain
<1>5. (\A r \in {a.row : a \in acked} : ~r.split) <=> \A a \in acked : ~a.row.split
  OBVIOUS
<1> QED BY <1>1, <1>4, <1>5

\* As long as no write was cut short the rows acknowledged are the rows stored,
\* each at the place it was acknowledged for and at the one its fence demanded,
\* and they can be read back unless one of them has a line separator
\* (append_event, _read_all, Session.save).
THEOREM AcknowledgedIsStored == Spec => []AckedAreStored
<1>1. StoreInv /\ StoreInv' /\ AckInv /\ [Next]_vars => AckInv'
  BY AckStep
<1>2. StoreInv /\ OkInv /\ AckInv => AckedAreStored
  BY AckIs
<1>3. Spec => []AckInv
  BY <1>1, AckStart, StoreInvariance, PTL DEF Spec
<1> QED BY <1>2, <1>3, StoreInvariance, OkInvariance, PTL

-----------------------------------------------------------------------------
(* What the follower sees.                                                   *)

Source(rows) ==
  \/ rows = Kept
  \/ \E w \in Writers : pc[w] = "empty" /\ rows = Events(content[w])
SeenInv ==
  ~bare /\ cuts = 0 =>
    /\ \A i \in 1..Len(seen) : seen[i].seq = i - 1
    /\ \E rows \in Seq(Rows) : Source(rows) /\ Starts(seen, rows)

\* What the follower has seen it also finds in the next write.
LEMMA SeenStarts ==
  ASSUME StoreInv, SeenInv, ~bare, cuts = 0
  PROVE  /\ ~Writing => Starts(seen, Kept)
         /\ \A w \in Writers : pc[w] = "empty" => Starts(seen, Events(content[w]))
<1>1. PICK rows \in Seq(Rows) : Source(rows) /\ Starts(seen, rows)
  BY DEF SeenInv
<1>2. ~Writing => Starts(seen, Kept)
  BY <1>1 DEF Source, Writing
<1>3. ASSUME NEW w \in Writers, pc[w] = "empty"
      PROVE  Starts(seen, Events(content[w]))
  <2>1. \A v \in Writers : pc[v] = "empty" => v = w
    BY <1>3 DEF StoreInv, SoloInv, Rests
  <2>2. rows = Kept \/ rows = Events(content[w])
    BY <1>1, <2>1 DEF Source
  <2>3. Kept = Old(w)
    <3>1. Writing
      BY <1>3 DEF Writing
    <3> QED BY <1>3, <3>1 DEF Kept, Stored, OnFile, Old
  <2>4. /\ Kept \in Seq(Rows) /\ Events(content[w]) \in Seq(Rows)
        /\ Starts(Kept, Events(content[w]))
    <3>1. mode # "memory"
      BY <1>3 DEF StoreInv, WriterInv
    <3> QED BY <1>3, <2>3, <3>1, ContentIs
  <2>5. seen \in Seq(Rows)
    BY DEF StoreInv, Types
  <2> QED BY <1>1, <2>2, <2>4, <2>5, StartsAll
<1> QED BY <1>2, <1>3

\* A poll that is given something leaves the follower with all of the view.
LEMMA PollSees ==
  ASSUME StoreInv, mode \in {"file", "memory"}, NEW f \in Views,
         mode = "memory" \/ ReadAll(f, malformed), Given(f) # <<>>,
         \A i \in 1..Len(seen) : seen[i].seq = i - 1,
         NEW rows \in Seq(Rows), Starts(seen, rows), Starts(Events(f), rows)
  PROVE  seen \o Given(f) = Events(f)
<1> DEFINE all == Events(f)
           more == Given(f)
           n == Len(seen)
<1>1. /\ seen \in Seq(Rows) /\ n \in Nat /\ all \in Seq(Rows) /\ Len(all) \in Nat
      /\ more \in Seq(Rows) /\ Len(more) \in Nat
  BY ViewIs, GivenIs, LenProperties DEF Numbered, StoreInv, Types
<1>2. Since(Cursor) = n
  <2>1. CASE seen = <<>>
    BY <2>1 DEF Cursor, Since
  <2>2. CASE seen # <<>>
    <3>1. n # 0
      BY <1>1, <2>2, EmptySeq
    <3>2. seen[n].seq = n - 1
      BY <1>1, <3>1
    <3> QED BY <1>1, <2>2, <3>2 DEF Cursor, Since, Last
  <2> QED BY <2>1, <2>2
<1>3. /\ Len(more) = Len(all) - n
      /\ \A i \in 1..Len(more) : n + i \in 1..Len(all) /\ more[i] = all[n + i]
  BY <1>2, GivenIs
<1> HIDE DEF all, more
<1>4. \A i \in 1..n : seen[i] = all[i]
  BY <1>1, <1>3 DEF Starts, all
<1> HIDE DEF n
<1> DEFINE both == seen \o more
<1>5. /\ both \in Seq(Rows) /\ Len(both) = n + Len(more)
      /\ \A i \in 1..(n + Len(more)) : both[i] = IF i <= n THEN seen[i] ELSE more[i - n]
  BY <1>1, ConcatProperties DEF n
<1> HIDE DEF both
<1>6. Len(both) = Len(all) /\ n + Len(more) = Len(all) /\ n \in Nat /\ Len(all) \in Nat
  BY <1>1, <1>3, <1>5
<1>7. ASSUME NEW i \in 1..Len(all)
      PROVE  both[i] = all[i]
  <2>1. i \in 1..(n + Len(more)) /\ i \in Nat /\ i >= 1
    BY <1>6
  <2>2. CASE i <= n
    <3>1. i \in 1..n
      BY <1>6, <2>1, <2>2
    <3> QED BY <1>4, <1>5, <2>1, <2>2, <3>1
  <2>3. CASE ~(i <= n)
    <3>1. i - n \in 1..Len(more) /\ n + (i - n) = i
      BY <1>1, <1>6, <2>1, <2>3
    <3>2. both[i] = more[i - n]
      BY <1>5, <2>1, <2>3
    <3>3. more[i - n] = all[n + (i - n)]
      BY <1>3, <3>1
    <3> QED BY <3>1, <3>2, <3>3
  <2> QED BY <2>2, <2>3
<1>8. both = all
  BY <1>1, <1>5, <1>6, <1>7, SeqEqual
<1> QED BY <1>8 DEF all, more, both

LEMMA SeenPoll ==
  ASSUME StoreInv, SeenInv, Poll
  PROVE  SeenInv'
<1>1. /\ mode' = mode /\ initial' = initial /\ lines' = lines /\ malformed' = malformed
      /\ pc' = pc /\ content' = content /\ new' = new /\ session' = session /\ made' = made
      /\ acked' = acked /\ base' = base /\ bare' = bare /\ cuts' = cuts
  BY DEF Poll, fixed, writerVars
<1>2. PICK f \in Views : /\ mode = "memory" \/ ReadAll(f, malformed)
                         /\ Given(f) # <<>> /\ seen' = seen \o Given(f)
  BY DEF Poll
<1>3. SUFFICES ASSUME ~bare, cuts = 0 PROVE SeenInv'
  BY <1>1 DEF SeenInv
<1>4. mode \in {"file", "memory"} /\ \A i \in 1..Len(seen) : seen[i].seq = i - 1
  BY <1>3 DEF Poll, SeenInv
<1>5. \E rows \in Seq(Rows) : Source(rows) /\ Starts(seen, rows) /\ Starts(Events(f), rows)
  <2>1. Numbered(Events(f), made) /\ Events(f) \in Seq(Rows)
    BY <1>2, <1>4, ViewIs DEF Numbered
  <2>2. CASE f = lines
    <3>1. ~Writing
      <4>1. CASE mode = "memory"
        BY <4>1 DEF Writing, StoreInv, WriterInv
      <4>2. CASE mode # "memory"
        <5>1. lines # <<>>
          BY <1>2, <2>2, <4>2 DEF ReadAll
        <5> QED BY <5>1 DEF Writing, StoreInv, WriterInv
      <4> QED BY <4>1, <4>2
    <3>2. Kept = Events(f) /\ Starts(seen, Kept)
      BY <1>3, <2>2, <3>1, SeenStarts DEF Kept, Stored, OnFile
    <3> QED BY <2>1, <3>2, StartsAll DEF Source
  <2>3. CASE f # lines
    <3>1. PICK w \in Writers : pc[w] = "empty" /\ Starts(Events(f), Events(content[w]))
      BY <1>2, <1>4, <2>3, ViewIs
    <3>2. Events(content[w]) \in Seq(Rows)
      <4>1. mode # "memory"
        BY <3>1 DEF StoreInv, WriterInv
      <4> QED BY <3>1, <4>1, ContentIs
    <3>3. Starts(seen, Events(content[w]))
      BY <1>3, <3>1, SeenStarts
    <3> QED BY <3>1, <3>2, <3>3 DEF Source
  <2> QED BY <2>2, <2>3
<1>6. PICK rows \in Seq(Rows) : Source(rows) /\ Starts(seen, rows) /\ Starts(Events(f), rows)
  BY <1>5
<1>7. seen' = Events(f)
  BY <1>2, <1>4, <1>6, PollSees
<1>8. Source(rows)'
  BY <1>1, <1>6 DEF Source, Kept, Stored, OnFile, Writing
<1>9. \A i \in 1..Len(seen') : seen'[i].seq = i - 1
  BY <1>2, <1>4, <1>7, ViewIs DEF Numbered
<1> QED BY <1>6, <1>7, <1>8, <1>9 DEF SeenInv

\* A step that leaves the follower alone, and keeps the rows it has seen.
LEMMA SeenKept ==
  ASSUME StoreInv, StoreInv', SeenInv, seen' = seen, ~bare' => ~bare, cuts' = cuts,
         ~bare /\ cuts = 0 => Starts(seen, Kept')
  PROVE  SeenInv'
<1>1. Kept' \in Seq(Rows)
  BY KeptRowsAfter DEF KeptInv
<1>2. Source(Kept)'
  BY DEF Source
<1> QED BY <1>1, <1>2 DEF SeenInv

LEMMA SeenWrites ==
  ASSUME StoreInv, StoreInv', SeenInv, NEW w \in Writers, Writes(w)
  PROVE  SeenInv'
<1>0. Writing <=> pc[w] = "empty"
  BY KeptIs
<1>1. Kept \in Seq(Rows) /\ Kept' \in Seq(Rows) /\ seen \in Seq(Rows)
  BY KeptRows, KeptRowsAfter DEF KeptInv, StoreInv, Types
<1>2. CASE PutRow(w)
  <2>1. seen' = seen /\ bare' = bare /\ cuts' = cuts /\ ~Writing
    BY <1>0, <1>2 DEF PutRow
  <2>2. Starts(Kept, Kept')
    BY <1>2, PutRowKeeps
  <2> QED BY <1>1, <2>1, <2>2, SeenStarts, StartsAll, SeenKept
<1>3. CASE Write(w)
  <2>1. /\ seen' = seen /\ cuts' = cuts /\ pc[w] = "empty"
        /\ ~bare' => ~bare
    BY <1>3 DEF Write
  <2>2. Kept' = Events(content[w])
    BY <1>3, WriteKeeps
  <2> QED BY <2>1, <2>2, SeenStarts, SeenKept
<1>4. CASE Crash(w) \/ WriteFails(w)
  <2>1. cuts' # 0
    BY <1>4, StorageAssumption DEF Crash, WriteFails, StoreInv, Types
  <2> QED BY <2>1 DEF SeenInv
<1>5. CASE Truncate(w)
  <2>1. seen' = seen /\ bare' = bare /\ ~Writing
    BY <1>0, <1>5 DEF Truncate
  <2>2. Kept' = Kept /\ cuts' = cuts
    BY <1>5, TruncateRefines DEF Kept
  <2> QED BY <2>1, <2>2, SeenStarts, SeenKept
<1>6. CASE \/ \E expected \in -1..MaxRows, split \in BOOLEAN : AppendEvent(w, expected, split)
           \/ SaveHeader(w)
           \/ Create(w)
           \/ Load(w)
           \/ Record(w)
           \/ Drop(w)
           \/ Save(w)
  <2>1. seen' = seen /\ bare' = bare /\ ~Writing
    BY <1>0, <1>6 DEF AppendEvent, SaveHeader, Create, Load, Record, Drop, Save, Prepare,
                      Elsewhere, Free
  <2>2. Kept' = Kept /\ cuts' = cuts
    BY <1>6, QuietRefines DEF Kept
  <2> QED BY <2>1, <2>2, SeenStarts, SeenKept
<1> QED BY <1>2, <1>3, <1>4, <1>5, <1>6 DEF Writes

LEMMA SeenStep ==
  ASSUME StoreInv, StoreInv', SeenInv, [Next]_vars
  PROVE  SeenInv'
<1>1. CASE UNCHANGED vars
  BY <1>1 DEF vars, fixed, writerVars, SeenInv, Source, Kept, Stored, OnFile, Writing
<1> QED BY <1>1, NextIs, SeenPoll, SeenWrites

LEMMA SeenIs == StoreInv /\ SeenInv => FollowerInOrder
<1> SUFFICES ASSUME StoreInv, SeenInv, ~bare, cuts = 0
    PROVE  /\ DL!Dense(seen)
           /\ \/ IsPrefix(seen, Stored.rows)
              \/ \E w \in Writers : IsPrefix(seen, Events(content[w]))
  BY DEF FollowerInOrder
<1>1. seen \in Seq(Rows) /\ DOMAIN seen = 1..Len(seen)
  BY LenProperties DEF StoreInv, Types
<1>2. DL!Dense(seen)
  BY <1>1 DEF SeenInv, DL!Dense
<1>3. PICK rows \in Seq(Rows) : Source(rows) /\ Starts(seen, rows)
  BY DEF SeenInv
<1>4. IsPrefix(seen, rows)
  BY <1>1, <1>3, PrefixIs
<1> QED BY <1>2, <1>3, <1>4 DEF Source, Kept

LEMMA SeenStart == Init => SeenInv
<1> SUFFICES ASSUME Init PROVE SeenInv
  OBVIOUS
<1>1. Kept = <<>> /\ seen = <<>> /\ Len(<<>>) = 0 /\ <<>> \in Seq(Rows)
  BY DEF Init, Kept, Stored, OnFile, Writing, Events
<1>2. Source(Kept) /\ Starts(seen, Kept) /\ Kept \in Seq(Rows)
  BY <1>1 DEF Source, Starts
<1>3. \A i \in 1..Len(seen) : seen[i].seq = i - 1
  BY <1>1
<1>4. \E rows \in Seq(Rows) : Source(rows) /\ Starts(seen, rows)
  BY <1>2
<1> QED BY <1>3, <1>4 DEF SeenInv

\* The follower gets each row once and in order, although it reads while a
\* writer writes (events_since).
THEOREM FollowerSeesInOrder == Spec => []FollowerInOrder
<1>1. StoreInv /\ StoreInv' /\ SeenInv /\ [Next]_vars => SeenInv'
  BY SeenStep
<1> QED BY <1>1, SeenIs, SeenStart, StoreInvariance, PTL DEF Spec
=============================================================================
