--------------------------- MODULE PositionsProofs ---------------------------
(***************************************************************************)
(* Theorems about Positions, for any number of callers, any track, any     *)
(* width of the machine's words and any arguments of the calls.            *)
(***************************************************************************)
EXTENDS Positions, TLAPS

-----------------------------------------------------------------------------
(***************************************************************************)
(* Arithmetic.                                                             *)
(***************************************************************************)

\* A number that fits keeps its value, a negative one wraps.
LEMMA ModSmall ==
    ASSUME NEW w \in Nat \ {0}, NEW a \in 0 .. w - 1
    PROVE  a % w = a
    OBVIOUS

LEMMA ModNegative ==
    ASSUME NEW w \in Nat \ {0}, NEW a \in -w .. -1
    PROVE  a % w = a + w
    OBVIOUS

LEMMA ModRange ==
    ASSUME NEW w \in Nat \ {0}, NEW a \in Int
    PROVE  a % w \in 0 .. w - 1
    OBVIOUS

LEMMA ModAdd ==
    ASSUME NEW w \in Nat \ {0}, NEW a \in w .. 2 * w - 1
    PROVE  a % w = a - w
    OBVIOUS

LEMMA DivBounds ==
    ASSUME NEW w \in Nat \ {0}, NEW a \in Nat
    PROVE  /\ a \div w \in Nat
           /\ w * (a \div w) <= a
           /\ a < w * (a \div w) + w
    OBVIOUS

\* Hours, minutes and seconds make up a number of seconds.
LEMMA Sexagesimal ==
    ASSUME NEW n \in Nat
    PROVE  /\ n \div 3600 \in Nat /\ (n \div 60) % 60 \in 0..59
           /\ n % 60 \in 0..59
           /\ 3600 * (n \div 3600) + 60 * ((n \div 60) % 60) + (n % 60) = n
    OBVIOUS

LEMMA Widths ==
    /\ Second \in Nat \ {0} /\ Word \in Nat \ {0} /\ LongWord \in Nat \ {0}
    /\ Length \in Nat /\ Length < Word /\ 2 * Length < LongWord
    BY PositionsAssumption

\* A part of a duration within the track fits a word.
LEMMA FitsWord ==
    ASSUME NEW n \in 0 .. Length
    PROVE  n % Word = n
    BY Widths, ModSmall

LEMMA WrittenType ==
    ASSUME NEW n \in Nat
    PROVE  Written(n) \in Duration
    BY Sexagesimal DEF Written, Duration

\* What the renderer writes is read as the second it was at.
LEMMA WrittenIsRead ==
    ASSUME NEW n \in 0 .. Length
    PROVE  DurationToInt64(Written(n)) = Second * n
<1> DEFINE h == n \div 3600
           m == (n \div 60) % 60
           s == n % 60
<1>1. n \in Nat /\ h \in Nat /\ m \in Nat /\ s \in Nat
      /\ 3600 * h + 60 * m + s = n
    BY Sexagesimal, Widths
<1>2. Written(n) # NotImplemented
    BY <1>1, WrittenType, MarksAssumption DEF Duration
<1>3. /\ Written(n).neg = FALSE /\ Written(n).h = h
      /\ Written(n).m = m /\ Written(n).s = s
    BY DEF Written
<1> HIDE DEF h, m, s
<1>4. h * 3600 \in 0 .. Length /\ m * 60 \in 0 .. Length /\ s \in 0 .. Length
    BY <1>1, Widths
<1>5. DurationToInt64(Written(n)) =
          Second * (((h * 3600) % Word) + ((m * 60) % Word) + (s % Word))
    BY <1>2, <1>3 DEF DurationToInt64
<1>6. /\ (h * 3600) % Word = h * 3600
      /\ (m * 60) % Word = m * 60
      /\ s % Word = s
    BY <1>4, FitsWord
<1>7. h * 3600 + m * 60 + s = n
    BY <1>1
<1> QED
    BY <1>5, <1>6, <1>7

\* A number of seconds sent as a duration means the whole seconds of it.
LEMMA DurationType ==
    ASSUME NEW us \in Int
    PROVE  Int64ToDuration(us) \in Duration
<1> DEFINE a == IF us < 0 THEN -us ELSE us
           q == (a \div Second) % Word
<1>1. a \in Nat
    OBVIOUS
<1>2. q \in Nat
    BY <1>1, Widths, DivBounds, ModRange
<1>3. Int64ToDuration(us) = [neg |-> us < 0, h |-> q \div 3600,
                             m |-> (q \div 60) % 60, s |-> q % 60]
    BY DEF Int64ToDuration
<1> HIDE DEF q
<1> QED
    BY <1>2, <1>3, Sexagesimal DEF Duration

LEMMA DurationMeans ==
    ASSUME NEW us \in Int, us < Second * Word, -us < Second * Word
    PROVE  LET n == Meaning(Int64ToDuration(us))
           IN  /\ n \in Int
               /\ n * Second - us < Second /\ us - n * Second < Second
<1> DEFINE a == IF us < 0 THEN -us ELSE us
           q == a \div Second
<1>1. a \in Nat /\ a < Second * Word
    OBVIOUS
<1> HIDE DEF a
<1>2. q \in Nat /\ Second * q <= a /\ a < Second * q + Second
    BY <1>1, Widths, DivBounds
<1> HIDE DEF q
<1>3. q < Word
  <2> SUFFICES ASSUME q >= Word PROVE FALSE
      BY <1>2, Widths
  <2>1. Second * q >= Second * Word
      BY <1>2, Widths
  <2> QED
      BY <1>1, <1>2, <2>1, Widths
<1>4. q % Word = q
    BY <1>2, <1>3, Widths, ModSmall
<1>5. Int64ToDuration(us) = [neg |-> us < 0, h |-> q \div 3600,
                             m |-> (q \div 60) % 60, s |-> q % 60]
    BY <1>4 DEF Int64ToDuration, a, q
<1>6. Meaning(Int64ToDuration(us)) = IF us < 0 THEN -q ELSE q
  <2>1. 3600 * (q \div 3600) + 60 * ((q \div 60) % 60) + (q % 60) = q
      BY <1>2, Sexagesimal
  <2>2. Meaning(Int64ToDuration(us)) =
            (IF us < 0 THEN -1 ELSE 1)
            * (3600 * (q \div 3600) + 60 * ((q \div 60) % 60) + (q % 60))
    <3> PICK t : t = Int64ToDuration(us)
        OBVIOUS
    <3>1. t.neg <=> us < 0
        BY DEF Int64ToDuration
    <3>2. t.h = q \div 3600 /\ t.m = (q \div 60) % 60 /\ t.s = q % 60
        BY <1>5
    <3>3. Meaning(t) = (IF t.neg THEN -1 ELSE 1)
                       * (3600 * t.h + 60 * t.m + t.s)
        BY DEF Meaning
    <3> QED
        BY <3>1, <3>2, <3>3
  <2> QED
      BY <1>2, <2>1, <2>2
<1>7. CASE us < 0
  <2>1. a = -us /\ Meaning(Int64ToDuration(us)) = -q
      BY <1>6, <1>7 DEF a
  <2>2. (-q) * Second = -(Second * q)
      BY <1>2, Widths
  <2>3. Second * q \in Int
      BY <1>2, Widths
  <2> QED
      BY <1>2, <2>1, <2>2, <2>3, Widths
<1>8. CASE ~(us < 0)
  <2>1. a = us /\ Meaning(Int64ToDuration(us)) = q
      BY <1>6, <1>8 DEF a
  <2>2. q * Second = Second * q /\ Second * q \in Int
      BY <1>2, Widths
  <2> QED
      BY <1>2, <2>1, <2>2, Widths
<1> QED
    BY <1>7, <1>8

-----------------------------------------------------------------------------
(***************************************************************************)
(* The invariant: what each action in flight was asked for, and that its   *)
(* answer, and the target computed from it, belong to one place.           *)
(***************************************************************************)

\* An answer that tells where the renderer was, or one that does not.
Told(r, told) ==
    \/ r.read \in 0 .. Length /\ r.reply = told
    \/ r.read = None /\ r.reply \in {None, NotImplemented, Error}

TimeOK(r) ==
    /\ r.op \in {"get_position", "get_all", "seek"}
    /\ r.op = "seek" => r.arg \in Offsets
    /\ r.target \in 0 .. Length \cup {None}
    /\ Told(r, Written(r.read))

BytesOK(r) ==
    /\ r.op \in {"get_byte_position", "get_all", "byte_seek"}
    /\ r.op = "byte_seek" => r.arg \in Counts
    /\ Told(r, r.read)

\* The target of a Seek was computed from its argument and the place read.
SeekOK(r) ==
    \/ /\ r.op = "byte_seek" /\ r.arg \in Counts
       /\ r.read \in 0 .. Length \cup {None}
       /\ r.target = Unsigned(Unsigned(r.arg) + IF r.read = None THEN 0
                                                ELSE r.read)
    \/ /\ r.op = "set_byte_position" /\ r.arg \in Counts
       /\ r.target = Unsigned(r.arg)
    \/ /\ r.op = "seek" /\ r.arg \in Offsets
       /\ r.read \in 0 .. Length \cup {None}
       /\ r.target = Int64ToDuration(r.arg + IF r.read = None THEN 0
                                             ELSE Second * r.read)
    \/ /\ r.op = "set_position" /\ r.arg \in Offsets
       /\ r.target = Int64ToDuration(r.arg)

CallOK(r) ==
    /\ r = [op |-> r.op, arg |-> r.arg, asks |-> r.asks,
            target |-> r.target, reply |-> r.reply, read |-> r.read]
    /\ r.asks \in {"time", "bytes", "seek"}
    /\ CASE r.asks = "time" -> TimeOK(r)
         [] r.asks = "bytes" -> BytesOK(r)
         [] r.asks = "seek" -> SeekOK(r)

\* A GetAll that asks for the time, without a count to set, did away with the
\* one there was, if the renderer was asked for one at all.
Lacks(r) ==
    /\ can_get_byte_position
    /\ r.op = "get_all" /\ r.asks = "time" /\ r.target = None

IInv ==
    /\ place \in 0 .. Length
    /\ position \in Int \cup {None}
    /\ byte_position \in Nat \cup {None}
    /\ kept \subseteq Caller
    /\ call = [c \in Caller |-> call[c]]
    /\ \A c \in Caller : call[c] # None =>
          CallOK(call[c]) /\ (Lacks(call[c]) => c \notin kept)

\* A step that changes one call, and adds no other one to kept.
LEMMA CallChanges ==
    ASSUME IInv, UNCHANGED can_get_byte_position,
           NEW c \in Caller, NEW r, call' = [call EXCEPT ![c] = r],
           r # None => CallOK(r) /\ (Lacks(r) => c \notin kept'),
           kept' \subseteq kept \cup {c},
           place' \in 0 .. Length, position' \in Int \cup {None},
           byte_position' \in Nat \cup {None}
    PROVE  IInv'
<1>1. call' = [d \in Caller |-> call'[d]]
    BY DEF IInv
<1>2. ASSUME NEW d \in Caller, call'[d] # None
      PROVE  CallOK(call'[d]) /\ (Lacks(call[d])' => d \notin kept')
  <2>1. CASE d = c
      BY <1>2, <2>1 DEF IInv, Lacks
  <2>2. CASE d # c
      BY <1>2, <2>2 DEF IInv, Lacks
  <2> QED
      BY <2>1, <2>2
<1>3. kept' \subseteq Caller
    BY DEF IInv
<1> QED
    BY <1>1, <1>2, <1>3 DEF IInv, CallOK, TimeOK, BytesOK, SeekOK, Told

\* The marks are not numbers.
LEMMA Marks ==
    \A n \in Int : n # None /\ n # Error /\ n # NotImplemented
    BY MarksAssumption

LEMMA WrittenIsNoMark ==
    ASSUME NEW n \in Nat
    PROVE  /\ Written(n) # None /\ Written(n) # Error
           /\ Written(n) # NotImplemented
    BY WrittenType, MarksAssumption DEF Duration

\* A call that begins.
LEMMA WaitingOK ==
    ASSUME NEW op, NEW arg, NEW asks,
           \/ asks = "time" /\ op \in {"get_position", "get_all"}
           \/ asks = "time" /\ op = "seek" /\ arg \in Offsets
           \/ asks = "bytes" /\ op \in {"get_byte_position", "get_all"}
           \/ asks = "bytes" /\ op = "byte_seek" /\ arg \in Counts
    PROVE  CallOK(Waiting(op, arg, asks))
<1> PICK r : r = Waiting(op, arg, asks)
    OBVIOUS
<1>1. /\ r.op = op /\ r.arg = arg /\ r.asks = asks
      /\ r.target = None /\ r.reply = None /\ r.read = None
      /\ r = [op |-> r.op, arg |-> r.arg, asks |-> r.asks,
              target |-> r.target, reply |-> r.reply, read |-> r.read]
    BY DEF Waiting
<1> QED
    BY <1>1, MarksAssumption DEF CallOK, TimeOK, BytesOK, Told

LEMMA SeekingOK ==
    ASSUME NEW op, NEW arg, NEW target, NEW read,
           \/ /\ op = "byte_seek" /\ arg \in Counts
              /\ read \in 0 .. Length \cup {None}
              /\ target = Unsigned(Unsigned(arg) + IF read = None THEN 0
                                                   ELSE read)
           \/ /\ op = "set_byte_position" /\ arg \in Counts
              /\ target = Unsigned(arg)
           \/ /\ op = "seek" /\ arg \in Offsets
              /\ read \in 0 .. Length \cup {None}
              /\ target = Int64ToDuration(arg + IF read = None THEN 0
                                                ELSE Second * read)
           \/ /\ op = "set_position" /\ arg \in Offsets
              /\ target = Int64ToDuration(arg)
    PROVE  CallOK(Seeking(op, arg, target, read))
<1> PICK r : r = Seeking(op, arg, target, read)
    OBVIOUS
<1>1. /\ r.op = op /\ r.arg = arg /\ r.asks = "seek"
      /\ r.target = target /\ r.read = read
      /\ r = [op |-> r.op, arg |-> r.arg, asks |-> r.asks,
              target |-> r.target, reply |-> r.reply, read |-> r.read]
    BY DEF Seeking, Waiting
<1> QED
    BY <1>1 DEF CallOK, SeekOK

LEMMA InitInv == Init => IInv
    BY Widths DEF Init, IInv

\* The record of a call, by the action in flight.
LEMMA CallCases ==
    ASSUME IInv, NEW c \in Caller, call[c] # None
    PROVE  /\ CallOK(call[c])
           /\ Lacks(call[c]) => c \notin kept
           /\ call[c].asks = "time" => TimeOK(call[c])
           /\ call[c].asks = "bytes" => BytesOK(call[c])
           /\ call[c].asks = "seek" => SeekOK(call[c])
    BY DEF IInv, CallOK

\* Calls begin.
LEMMA BeginInv ==
    ASSUME IInv, NEW c \in Caller,
           \/ \E op \in Reading : BeginGet(c, op)
           \/ \E us \in Offsets : \/ BeginSeek(c, "seek", us)
                                  \/ BeginSetPosition(c, "set_position", us)
           \/ \E n \in Counts : \/ BeginSeek(c, "byte_seek", n)
                                \/ BeginSetPosition(c, "set_byte_position", n)
    PROVE  IInv'
<1>1. ASSUME NEW op \in Reading, BeginGet(c, op) PROVE IInv'
  <2> DEFINE bytes == \/ op = "get_byte_position"
                      \/ op = "get_all" /\ can_get_byte_position
             asks == IF bytes THEN "bytes" ELSE "time"
  <2>1. PICK r : r = Waiting(op, 0, asks)
      OBVIOUS
  <2>2. CallOK(r)
      BY <2>1, WaitingOK DEF Reading
  <2>3. ~Lacks(r)
      BY <2>1 DEF Waiting, Lacks
  <2>4. call' = [call EXCEPT ![c] = r] /\ kept' \subseteq kept \cup {c}
      BY <1>1, <2>1 DEF BeginGet
  <2> QED
      BY <1>1, <2>2, <2>3, <2>4, CallChanges DEF BeginGet, IInv
<1>2. ASSUME NEW op, NEW arg, BeginSeek(c, op, arg),
             \/ op = "seek" /\ arg \in Offsets
             \/ op = "byte_seek" /\ arg \in Counts
      PROVE  IInv'
  <2> DEFINE asks == IF InBytes(op) THEN "bytes" ELSE "time"
  <2>1. PICK r : r = Waiting(op, arg, asks)
      OBVIOUS
  <2>2. CallOK(r)
      BY <1>2, <2>1, WaitingOK DEF InBytes
  <2>3. ~Lacks(r)
      BY <1>2, <2>1 DEF Waiting, Lacks
  <2> QED
      BY <1>2, <2>1, <2>2, <2>3, CallChanges DEF BeginSeek, IInv
<1>3. ASSUME NEW op, NEW arg, BeginSetPosition(c, op, arg),
             \/ op = "set_position" /\ arg \in Offsets
             \/ op = "set_byte_position" /\ arg \in Counts
      PROVE  IInv'
  <2> DEFINE target == IF InBytes(op) THEN Unsigned(arg)
                       ELSE Int64ToDuration(arg)
  <2>1. PICK r : r = Seeking(op, arg, target, None)
      OBVIOUS
  <2>2. CallOK(r)
      BY <1>3, <2>1, SeekingOK DEF InBytes
  <2>3. ~Lacks(r)
      BY <1>3, <2>1 DEF Seeking, Waiting, Lacks
  <2> QED
      BY <1>3, <2>1, <2>2, <2>3, CallChanges DEF BeginSetPosition, IInv
<1> QED
    BY <1>1, <1>2, <1>3

\* The renderer's answer u to call r: of an action that was not answered yet.
Answers(r, u) ==
    /\ u.op = r.op /\ u.arg = r.arg /\ u.asks = r.asks
    /\ u.target = r.target
    /\ u = [op |-> u.op, arg |-> u.arg, asks |-> u.asks,
            target |-> u.target, reply |-> u.reply, read |-> u.read]
    /\ \/ r.asks = "seek" /\ u.read = r.read
       \/ u.reply = Error /\ u.read = r.read
       \/ r.asks # "seek" /\ u.reply = NotImplemented /\ u.read = r.read
       \/ /\ r.asks = "time" /\ u.read \in 0 .. Length
          /\ u.reply = Written(u.read)
       \/ r.asks = "bytes" /\ u.read \in 0 .. Length /\ u.reply = u.read

LEMMA AnswerOK ==
    ASSUME NEW r, CallOK(r), r.reply = None, NEW u, Answers(r, u)
    PROVE  CallOK(u) /\ (Lacks(u) => Lacks(r))
<1>1. /\ u.op = r.op /\ u.arg = r.arg /\ u.asks = r.asks
      /\ u.target = r.target
      /\ u = [op |-> u.op, arg |-> u.arg, asks |-> u.asks,
              target |-> u.target, reply |-> u.reply, read |-> u.read]
      /\ \/ r.asks = "seek" /\ u.read = r.read
         \/ u.reply = Error /\ u.read = r.read
         \/ r.asks # "seek" /\ u.reply = NotImplemented /\ u.read = r.read
         \/ /\ r.asks = "time" /\ u.read \in 0 .. Length
            /\ u.reply = Written(u.read)
         \/ r.asks = "bytes" /\ u.read \in 0 .. Length /\ u.reply = u.read
    BY DEF Answers
<1>2. Lacks(u) => Lacks(r)
    BY <1>1 DEF Lacks
<1>3. CASE r.asks = "time"
  <2>1. r.read = None
      BY <1>3, Widths, WrittenIsNoMark DEF CallOK, TimeOK, Told
  <2> QED
      BY <1>1, <1>2, <1>3, <2>1 DEF CallOK, TimeOK, Told
<1>4. CASE r.asks = "bytes"
  <2>1. r.read = None
      BY <1>4, Marks DEF CallOK, BytesOK, Told
  <2>2. BytesOK(r)
      BY <1>4 DEF CallOK
  <2>3. \/ u.read = None /\ u.reply \in {NotImplemented, Error}
        \/ u.read \in 0 .. Length /\ u.reply = u.read
      BY <1>1, <1>4, <2>1
  <2>4. BytesOK(u)
      BY <1>1, <2>2, <2>3, Marks, MarksAssumption DEF BytesOK, Told
  <2> QED
      BY <1>1, <1>2, <1>4, <2>4 DEF CallOK
<1>5. CASE r.asks = "seek"
  <2>1. u.read = r.read
      BY <1>1, <1>5
  <2> QED
      BY <1>1, <1>2, <1>5, <2>1 DEF CallOK, SeekOK
<1> QED
    BY <1>3, <1>4, <1>5 DEF CallOK

LEMMA RendererInv ==
    ASSUME IInv, NEW c \in Caller, Report(c) \/ Go(c) \/ Fail(c)
    PROVE  IInv'
<1> PICK r : r = call[c]
    OBVIOUS
<1>1. /\ r # None /\ r.reply = None /\ CallOK(r)
      /\ Lacks(r) => c \notin kept
    BY CallCases DEF Report, Go, Fail, Asked
<1>2. /\ UNCHANGED <<can_get_byte_position, position, byte_position, kept>>
      /\ place' \in 0 .. Length
    BY DEF Report, Go, Fail, IInv
<1>3. r = [op |-> r.op, arg |-> r.arg, asks |-> r.asks,
           target |-> r.target, reply |-> r.reply, read |-> r.read]
    BY <1>1 DEF CallOK
<1>4. PICK u : /\ call' = [call EXCEPT ![c] = u]
               /\ CallOK(u) /\ (Lacks(u) => Lacks(r))
  <2> PICK p \in 0 .. Length : p = place
      BY DEF IInv
  <2> DEFINE Here(reply) == [r EXCEPT !.reply = reply, !.read = p]
             Says(reply) == [r EXCEPT !.reply = reply, !.read = r.read]
  <2>1. \A reply : [r EXCEPT !.reply = reply] = Says(reply)
      BY <1>3
  <2>2. CASE r.asks = "bytes" /\ call' = [call EXCEPT ![c] = Here(p)]
    <3> PICK u : u = Here(p)
        OBVIOUS
    <3>1. Answers(r, u)
        BY <1>3, <2>2 DEF Answers
    <3> QED
        BY <1>1, <2>2, <3>1, AnswerOK
  <2>3. CASE r.asks = "time" /\ call' = [call EXCEPT ![c] = Here(Written(p))]
    <3> PICK w : w = Written(p)
        OBVIOUS
    <3> PICK u : u = Here(w)
        OBVIOUS
    <3>1. Answers(r, u)
        BY <1>3, <2>3 DEF Answers
    <3> QED
        BY <1>1, <2>3, <3>1, AnswerOK
  <2>4. ASSUME NEW reply, call' = [call EXCEPT ![c] = Says(reply)],
               \/ r.asks # "seek" /\ reply = NotImplemented
               \/ r.asks = "seek"
               \/ reply = Error
        PROVE  \E u : /\ call' = [call EXCEPT ![c] = u]
                      /\ CallOK(u) /\ (Lacks(u) => Lacks(r))
    <3> PICK u : u = Says(reply)
        OBVIOUS
    <3>1. Answers(r, u)
        BY <1>3, <2>4 DEF Answers
    <3> QED
        BY <1>1, <2>4, <3>1, AnswerOK
  <2> HIDE DEF Here
  <2>5. CASE Report(c)
    <3>1. CASE /\ Asked(c, "bytes")
               /\ call' = [call EXCEPT ![c] = [call[c] EXCEPT !.reply = place,
                                                              !.read = place]]
        BY <2>2, <3>1 DEF Asked, Here
    <3>2. CASE /\ Asked(c, "time")
               /\ call' = [call EXCEPT ![c] =
                      [call[c] EXCEPT !.reply = Written(place),
                                      !.read = place]]
        BY <2>3, <3>2 DEF Asked, Here
    <3>3. CASE /\ Asked(c, "time") \/ Asked(c, "bytes")
               /\ call' = [call EXCEPT ![c] =
                      [call[c] EXCEPT !.reply = NotImplemented]]
        BY <2>1, <2>4, <3>3 DEF Asked
    <3> QED
        BY <2>5, <3>1, <3>2, <3>3 DEF Report, IInv
  <2>6. CASE Go(c)
    <3>1. /\ r.asks = "seek"
          /\ call' = [call EXCEPT ![c] = [r EXCEPT !.reply = "ok"]]
        BY <2>6 DEF Go, Asked
    <3>2. call' = [call EXCEPT ![c] = Says("ok")]
        BY <2>1, <3>1
    <3> QED
        BY <2>4, <3>1, <3>2
  <2>7. CASE Fail(c)
    <3>1. call' = [call EXCEPT ![c] = [r EXCEPT !.reply = Error]]
        BY <2>7 DEF Fail
    <3>2. call' = [call EXCEPT ![c] = Says(Error)]
        BY <2>1, <3>1
    <3> QED
        BY <2>4, <3>2
  <2> QED
      BY <2>5, <2>6, <2>7
<1> QED
    BY <1>1, <1>2, <1>4, CallChanges DEF IInv

\* A reply that is a duration is read as the microseconds of the second it
\* was written for.
LEMMA ReplyIsRead ==
    ASSUME NEW r, TimeOK(r), r.reply # None, r.reply # Error
    PROVE  /\ DurationToInt64(r.reply) \in Int
           /\ r.read \in 0 .. Length \cup {None}
           /\ DurationToInt64(r.reply) = IF r.read = None THEN 0
                                         ELSE Second * r.read
<1>1. CASE r.read \in 0 .. Length /\ r.reply = Written(r.read)
  <2>1. r.read # None
      BY <1>1, Widths, Marks
  <2> QED
      BY <1>1, <2>1, Widths, WrittenIsRead
<1>2. CASE r.read = None /\ r.reply = NotImplemented
    BY <1>2 DEF DurationToInt64
<1> QED
    BY <1>1, <1>2 DEF TimeOK, Told

\* A reply that is a count is read as the place it was given for.
LEMMA CountIsRead ==
    ASSUME NEW r, BytesOK(r), r.reply # None, r.reply # Error
    PROVE  /\ RelCount(r.reply) \in 0 .. Length
           /\ r.read \in 0 .. Length \cup {None}
           /\ RelCount(r.reply) = IF r.read = None THEN 0 ELSE r.read
<1>1. CASE r.read \in 0 .. Length /\ r.reply = r.read
  <2>1. r.read # None /\ r.read # NotImplemented
      BY <1>1, Widths, Marks
  <2> QED
      BY <1>1, <2>1 DEF RelCount
<1>2. CASE r.read = None /\ r.reply = NotImplemented
    BY <1>2, Widths DEF RelCount
<1> QED
    BY <1>1, <1>2 DEF BytesOK, Told

LEMMA NoneIsOK ==
    ASSUME IInv, NEW c \in Caller, call' = [call EXCEPT ![c] = None],
           UNCHANGED <<place, can_get_byte_position>>,
           position' \in Int \cup {None}, byte_position' \in Nat \cup {None},
           kept' \subseteq kept
    PROVE  IInv'
<1>1. place' \in 0 .. Length
    BY DEF IInv
<1> QED
    BY <1>1, CallChanges

LEMMA CallbackInv ==
    ASSUME IInv, NEW c \in Caller, Callback(c)
    PROVE  IInv'
<1> PICK r : r = call[c]
    OBVIOUS
<1>1. /\ r # None /\ r.reply # None
      /\ CallOK(r)
      /\ r.asks = "time" => TimeOK(r)
      /\ r.asks = "bytes" => BytesOK(r)
    BY CallCases
       DEF Callback, GetPositionCb, GetBytePositionCb, GetAllBytePositionCb,
           GetAllPositionCb, CompleteSeekGetPosition, SeekCb, Replied
<1>2. r.asks = "bytes" /\ r.reply # Error => RelCount(r.reply) \in 0 .. Length
    BY <1>1, CountIsRead
<1>3. CASE GetPositionCb(c)
  <2>1. position' \in Int \cup {None}
    <3>1. TimeOK(r)
        BY <1>1, <1>3 DEF GetPositionCb, Replied
    <3> QED
        BY <1>1, <1>3, <3>1, ReplyIsRead DEF GetPositionCb, IInv
  <2> QED
      BY <1>3, <2>1, NoneIsOK DEF GetPositionCb, IInv
<1>4. CASE GetBytePositionCb(c)
  <2>1. byte_position' \in Nat \cup {None}
      BY <1>2, <1>4, Widths DEF GetBytePositionCb, Replied, IInv
  <2> QED
      BY <1>4, <2>1, NoneIsOK DEF GetBytePositionCb, IInv
<1>5. CASE GetAllBytePositionCb(c)
  <2> DEFINE target == IF r.reply = Error THEN None ELSE RelCount(r.reply)
  <2>1. PICK u : u = [Waiting("get_all", 0, "time") EXCEPT !.target = target]
      OBVIOUS
  <2>2. /\ u.op = "get_all" /\ u.arg = 0 /\ u.asks = "time"
        /\ u.target = target /\ u.reply = None /\ u.read = None
        /\ u = [op |-> u.op, arg |-> u.arg, asks |-> u.asks,
                target |-> u.target, reply |-> u.reply, read |-> u.read]
      BY <2>1 DEF Waiting
  <2>3. target \in 0 .. Length \cup {None}
      BY <1>2, <1>5 DEF GetAllBytePositionCb, Replied
  <2>4. CallOK(u)
      BY <2>2, <2>3 DEF CallOK, TimeOK, Told
  <2>5. Lacks(u) => c \notin kept'
    <3>1. CASE r.reply = Error
        BY <1>5, <3>1 DEF GetAllBytePositionCb
    <3>2. CASE r.reply # Error
      <4>1. u.target # None
          BY <1>2, <1>5, <2>2, <3>2, Widths, Marks
             DEF GetAllBytePositionCb, Replied
      <4> QED
          BY <4>1 DEF Lacks
    <3> QED
        BY <3>1, <3>2
  <2>6. /\ call' = [call EXCEPT ![c] = u]
        /\ kept' \subseteq kept
        /\ place' \in 0 .. Length /\ position' \in Int \cup {None}
        /\ byte_position' \in Nat \cup {None}
        /\ UNCHANGED can_get_byte_position
      BY <1>5, <2>1 DEF GetAllBytePositionCb, IInv
  <2> QED
      BY <2>4, <2>5, <2>6, CallChanges
<1>6. CASE GetAllPositionCb(c)
  <2>1. TimeOK(r)
      BY <1>1, <1>6 DEF GetAllPositionCb, Replied
  <2>2. position' \in Int \cup {None}
      BY <1>1, <1>6, <2>1, ReplyIsRead DEF GetAllPositionCb
  <2>3. byte_position' \in Nat \cup {None}
      BY <1>6, <2>1, Widths DEF GetAllPositionCb, TimeOK, IInv
  <2> QED
      BY <1>6, <2>2, <2>3, NoneIsOK DEF GetAllPositionCb
<1>7. CASE CompleteSeekGetPosition(c)
  <2>1. CASE r.reply = Error
      BY <1>7, <2>1, NoneIsOK DEF CompleteSeekGetPosition, IInv
  <2>2. CASE r.reply # Error
    <3> PICK target : target = Target(r.op, r.arg, r.reply)
        OBVIOUS
    <3> PICK u : u = Seeking(r.op, r.arg, target, r.read)
        OBVIOUS
    <3>1. call' = [call EXCEPT ![c] = u]
        BY <1>7, <2>2 DEF CompleteSeekGetPosition, IInv
    <3>2. CallOK(u)
      <4>1. CASE Replied(c, {"seek"}, "time")
        <5>1. /\ TimeOK(r) /\ r.op = "seek" /\ r.arg \in Offsets
              /\ r.read \in 0 .. Length \cup {None}
            BY <1>1, <2>2, <4>1, ReplyIsRead DEF Replied, TimeOK
        <5>2. target = Int64ToDuration(r.arg + DurationToInt64(r.reply))
            BY <5>1 DEF Target, InBytes
        <5>3. DurationToInt64(r.reply) = IF r.read = None THEN 0
                                         ELSE Second * r.read
            BY <1>1, <2>2, <5>1, ReplyIsRead
        <5> QED
            BY <5>1, <5>2, <5>3, SeekingOK
      <4>2. CASE Replied(c, {"byte_seek"}, "bytes")
        <5>1. /\ BytesOK(r) /\ r.op = "byte_seek" /\ r.arg \in Counts
              /\ r.read \in 0 .. Length \cup {None}
            BY <1>1, <2>2, <4>2, CountIsRead DEF Replied, BytesOK
        <5>2. target = Unsigned(Unsigned(r.arg) + RelCount(r.reply))
            BY <5>1 DEF Target, InBytes
        <5>3. RelCount(r.reply) = IF r.read = None THEN 0 ELSE r.read
            BY <1>1, <2>2, <5>1, CountIsRead
        <5> QED
            BY <5>1, <5>2, <5>3, SeekingOK
      <4> QED
          BY <1>7, <4>1, <4>2 DEF CompleteSeekGetPosition
    <3>3. ~Lacks(u)
      <4>1. u.asks = "seek"
          BY DEF Seeking, Waiting
      <4> QED
          BY <4>1 DEF Lacks
    <3> QED
        BY <1>7, <3>1, <3>2, <3>3, CallChanges
           DEF CompleteSeekGetPosition, IInv
  <2> QED
      BY <2>1, <2>2
<1>8. CASE SeekCb(c)
    BY <1>8, NoneIsOK DEF SeekCb, IInv
<1> QED
    BY <1>3, <1>4, <1>5, <1>6, <1>7, <1>8 DEF Callback

LEMMA NextInv == IInv /\ [Next]_vars => IInv'
<1> SUFFICES ASSUME IInv, [Next]_vars PROVE IInv'
    OBVIOUS
<1>1. ASSUME NEW n \in Stops, PlayOn(n) PROVE IInv'
  <2>1. place' \in 0 .. Length
      BY <1>1, PositionsAssumption DEF PlayOn
  <2> QED
      BY <1>1, <2>1 DEF PlayOn, IInv, Lacks
<1>2. CASE UNCHANGED vars
    BY <1>2 DEF vars, IInv, Lacks
<1> QED
    BY <1>1, <1>2, BeginInv, RendererInv, CallbackInv DEF Next

LEMMA Invariance == Spec => []IInv
<1> QED
    BY InitInv, NextInv, PTL DEF Spec

-----------------------------------------------------------------------------
(***************************************************************************)
(* Theorems.                                                               *)
(***************************************************************************)

\* Every variable keeps its type: positions are numbers, what is sent in bytes
\* fits the unsigned word it is kept in.
THEOREM TypeCorrect == Spec => []TypeOK
<1>1. IInv => TypeOK
  <2> SUFFICES ASSUME IInv, NEW c \in Caller, call[c] # None,
                      call[c].asks = "seek"
               PROVE  /\ call[c].target # None
                      /\ InBytes(call[c].op) =>
                            call[c].target \in 0..LongWord - 1
      BY DEF TypeOK, IInv
  <2> PICK r : r = call[c]
      OBVIOUS
  <2>1. SeekOK(r)
      BY CallCases
  <2>2. ASSUME NEW n \in Int, r.target = Unsigned(n)
        PROVE  r.target # None /\ r.target \in 0..LongWord - 1
      BY <2>2, Widths, ModRange, Marks DEF Unsigned
  <2>3. ASSUME NEW us \in Int, r.target = Int64ToDuration(us)
        PROVE  r.target # None
      BY <2>3, DurationType, MarksAssumption DEF Duration
  <2>4. \A n \in Counts : n \in Int /\ Unsigned(n) \in Int
      BY PositionsAssumption, Widths, ModRange DEF Unsigned
  <2>5. \A us \in Offsets : us \in Int
      BY PositionsAssumption
  <2>6. CASE r.op = "byte_seek"
    <3>1. PICK n \in Int : r.target = Unsigned(n)
        BY <2>1, <2>4, <2>6, Widths DEF SeekOK
    <3> QED
        BY <2>2, <3>1
  <2>7. CASE r.op = "set_byte_position"
      BY <2>1, <2>2, <2>4, <2>7 DEF SeekOK
  <2>8. CASE r.op \in {"seek", "set_position"}
    <3>1. PICK us \in Int : r.target = Int64ToDuration(us)
      <4>1. \A n \in 0 .. Length : Second * n \in Int
          BY Widths
      <4> QED
          BY <2>1, <2>5, <2>8, <4>1 DEF SeekOK
    <3> QED
        BY <2>3, <2>8, <3>1 DEF InBytes
  <2> QED
      BY <2>1, <2>6, <2>7, <2>8 DEF SeekOK
<1> QED
    BY <1>1, Invariance, PTL

\* GetAll answers with the position its own call was told, or with none; and
\* with no byte position from before it.
THEOREM GetAllIsFresh == Spec => AnswersAreFresh
<1> DEFINE Fresh ==
        \A c \in Caller :
            GetAllPositionCb(c) =>
                /\ position' # None => /\ call[c].reply # Error
                                       /\ call[c].read # None =>
                                             position' = Second * call[c].read
                /\ can_get_byte_position => c \notin kept'
<1>1. IInv => Fresh
  <2> SUFFICES ASSUME IInv, NEW c \in Caller, GetAllPositionCb(c)
               PROVE  /\ position' # None =>
                            /\ call[c].reply # Error
                            /\ call[c].read # None =>
                                  position' = Second * call[c].read
                      /\ can_get_byte_position => c \notin kept'
      OBVIOUS
  <2> PICK r : r = call[c]
      OBVIOUS
  <2>1. /\ r # None /\ r.reply # None /\ TimeOK(r)
        /\ Lacks(r) => c \notin kept
        /\ r.op = "get_all" /\ r.asks = "time"
      BY CallCases DEF GetAllPositionCb, Replied
  <2>2. position' # None => r.reply # Error
      BY DEF GetAllPositionCb
  <2>3. r.reply # Error /\ r.read # None => position' = Second * r.read
      BY <2>1, ReplyIsRead DEF GetAllPositionCb
  <2>4. can_get_byte_position => c \notin kept'
      BY <2>1 DEF GetAllPositionCb, Lacks
  <2> QED
      BY <2>2, <2>3, <2>4
<1> QED
    BY <1>1, Invariance, PTL DEF AnswersAreFresh

\* A count that is sent is the one meant, if the renderer accepts it.
LEMMA BytesLand ==
    ASSUME NEW arg \in Counts, NEW read \in 0 .. Length
    PROVE  /\ Unsigned(arg) \in 0 .. Length => Unsigned(arg) = arg
           /\ Unsigned(Unsigned(arg) + read) \in 0 .. Length =>
                  Unsigned(Unsigned(arg) + read) = arg + read
<1> DEFINE half == LongWord \div 2
<1>1. half \in Nat /\ 2 * half <= LongWord /\ LongWord < 2 * half + 2
    BY Widths, DivBounds
<1>2. arg \in -half .. half - 1
    BY PositionsAssumption
<1> HIDE DEF half
<1>3. Length \in Nat /\ Length <= half /\ 2 * Length < LongWord
    BY <1>1, Widths
<1>4. CASE arg >= 0
  <2>1. Unsigned(arg) = arg
      BY <1>1, <1>2, <1>4, Widths, ModSmall DEF Unsigned
  <2>2. arg + read \in 0 .. LongWord - 1
      BY <1>1, <1>2, <1>3, <1>4, Widths
  <2>3. Unsigned(arg + read) = arg + read
      BY <2>2, Widths, ModSmall DEF Unsigned
  <2> QED
      BY <2>1, <2>3
<1>5. CASE arg < 0
  <2>1. Unsigned(arg) = arg + LongWord
    <3>1. arg \in -LongWord .. -1
        BY <1>1, <1>2, <1>5, Widths
    <3> QED
        BY <3>1, Widths, ModNegative DEF Unsigned
  <2>2. Unsigned(arg) > Length
      BY <1>1, <1>2, <1>3, <2>1, Widths
  <2>3. CASE arg + read >= 0
    <3>1. PICK x \in LongWord .. 2 * LongWord - 1 : x = arg + LongWord + read
        BY <1>1, <1>2, <1>3, <1>5, <2>3, Widths
    <3>2. Unsigned(x) = x - LongWord
        BY <3>1, Widths, ModAdd DEF Unsigned
    <3>3. arg \in Int
        BY <1>1, <1>2
    <3> QED
        BY <2>1, <2>2, <3>1, <3>2, <3>3, Widths
  <2>4. CASE arg + read < 0
    <3>1. arg + LongWord + read \in 0 .. LongWord - 1
        BY <1>1, <1>2, <1>3, <1>5, <2>4, Widths
    <3>2. Unsigned(arg + LongWord + read) = arg + LongWord + read
        BY <3>1, Widths, ModSmall DEF Unsigned
    <3>3. arg + LongWord + read > Length
        BY <1>1, <1>2, <1>3, Widths
    <3> QED
        BY <2>1, <2>2, <3>2, <3>3, Widths
  <2> QED
      BY <1>1, <1>2, <2>3, <2>4
<1> QED
    BY <1>1, <1>2, <1>4, <1>5

\* A seek leads to the second, or the byte, that was asked for, from where the
\* renderer said it was, or is refused: for any track shorter than the words
\* of the machine, whatever others do in between.
THEOREM SeeksLandThere == Spec => SeeksLand
<1> DEFINE Land ==
        \A c \in Caller :
          /\ Go(c)
          /\ call[c].op \in Relative => call[c].read # None
          => IF InBytes(call[c].op) THEN place' = Aim(c)
             ELSE /\ Aim(c) < Second * Word /\ -Aim(c) < Second * Word
                  => /\ place' * Second - Aim(c) < Second
                     /\ Aim(c) - place' * Second < Second
<1>1. IInv => Land
  <2> SUFFICES ASSUME IInv, NEW c \in Caller, Go(c),
                      call[c].op \in Relative => call[c].read # None
               PROVE  IF InBytes(call[c].op) THEN place' = Aim(c)
                      ELSE /\ Aim(c) < Second * Word /\ -Aim(c) < Second * Word
                           => /\ place' * Second - Aim(c) < Second
                              /\ Aim(c) - place' * Second < Second
      OBVIOUS
  <2> PICK r : r = call[c]
      OBVIOUS
  <2>1. /\ SeekOK(r)
        /\ place' = IF InBytes(r.op) THEN r.target ELSE Meaning(r.target)
        /\ place' \in 0 .. Length
      BY CallCases DEF Go, Asked, Destination
  <2>2. CASE r.op = "byte_seek"
    <3>1. /\ r.arg \in Counts /\ r.read \in 0 .. Length
          /\ place' = Unsigned(Unsigned(r.arg) + r.read)
        BY <2>1, <2>2 DEF SeekOK, InBytes, Relative
    <3>2. Aim(c) = r.arg + r.read
        BY <2>2 DEF Aim, Absolute, InBytes
    <3> QED
        BY <2>1, <2>2, <3>1, <3>2, BytesLand DEF InBytes
  <2>3. CASE r.op = "set_byte_position"
    <3>1. r.arg \in Counts /\ place' = Unsigned(r.arg)
        BY <2>1, <2>3 DEF SeekOK, InBytes
    <3>2. Aim(c) = r.arg
      <4>1. r.op \in Absolute
          BY <2>3 DEF Absolute
      <4>2. Aim(c) = r.arg + 0
          BY <4>1 DEF Aim
      <4>3. PICK n \in Int : n = r.arg
        <5>1. LongWord \div 2 \in Int
            BY Widths
        <5>2. Counts \subseteq Int
            BY <5>1, PositionsAssumption
        <5> QED
            BY <3>1, <5>2
      <4>4. n + 0 = n
          BY <4>3
      <4> HIDE DEF Aim
      <4> QED
          BY <4>2, <4>3, <4>4
    <3>3. place' = r.arg
        BY <2>1, <3>1, Widths, BytesLand
    <3> QED
        BY <2>3, <3>2, <3>3 DEF InBytes
  <2>4. ASSUME ~InBytes(r.op), NEW us \in Int, Aim(c) = us,
               r.target = Int64ToDuration(us)
        PROVE  /\ Aim(c) < Second * Word /\ -Aim(c) < Second * Word
               => /\ place' * Second - Aim(c) < Second
                  /\ Aim(c) - place' * Second < Second
      BY <2>1, <2>4, DurationMeans
  <2>5. CASE r.op = "seek"
    <3>1. /\ r.arg \in Int /\ r.read \in 0 .. Length
          /\ r.target = Int64ToDuration(r.arg + Second * r.read)
        BY <2>1, <2>5, PositionsAssumption DEF SeekOK, Relative
    <3>2. PICK us \in Int : us = r.arg + Second * r.read
        BY <3>1, Widths
    <3>3. Aim(c) = us
        BY <2>5, <3>2 DEF Aim, Absolute, InBytes
    <3> QED
        BY <2>4, <2>5, <3>1, <3>2, <3>3 DEF InBytes
  <2>6. CASE r.op = "set_position"
    <3>1. r.arg \in Int /\ r.target = Int64ToDuration(r.arg)
        BY <2>1, <2>6, PositionsAssumption DEF SeekOK
    <3>2. Aim(c) = r.arg
      <4>1. r.op \in Absolute
          BY <2>6 DEF Absolute
      <4>2. Aim(c) = r.arg + 0
          BY <4>1 DEF Aim
      <4>3. PICK n \in Int : n = r.arg
          BY <3>1
      <4>4. n + 0 = n
          BY <4>3
      <4> HIDE DEF Aim
      <4> QED
          BY <4>2, <4>3, <4>4
    <3> QED
        BY <2>4, <2>6, <3>1, <3>2 DEF InBytes
  <2> QED
      BY <2>1, <2>2, <2>3, <2>5, <2>6 DEF SeekOK, InBytes
<1> QED
    BY <1>1, Invariance, PTL DEF SeeksLand
=============================================================================
