--------------------------- MODULE ConsoleProofs ---------------------------
(***************************************************************************)
(* Proofs about Console for every size of ring, screen and line: no        *)
(* modifier stays set, the line fits its buffer, the screen shows it, and  *)
(* the ring with the handler between the reader's steps implements         *)
(* TypeAhead.                                                              *)
(***************************************************************************)
EXTENDS Console, SequenceTheorems, TLAPS

Slots == 0..(Size - 1)
Rings == [buf : [Slots -> Events \cup {NoEvent}], head : Slots, tail : Slots]
Typed == [ev : Events \cup {NoEvent}, odd : BOOLEAN]
Shown == Chars \cup {Blank, Prompt}
Screens == {t \in [left : Seq(Shown), y : 0..(Lines - 1)] : Len(t.left) < Cols}

\* The ring k as a queue.
Count(k) == (k.head - k.tail + Size) % Size
Queue(k) == [i \in 1..Count(k) |-> k.buf[(k.tail + i - 1) % Size]]

\* One of a and b ends with the other.
Agree(a, b) ==
  \A n \in Nat : n < Len(a) /\ n < Len(b) => a[Len(a) - n] = b[Len(b) - n]

\* What is true of the key the reader is at.
Reading ==
  /\ reader.pc \in {"copy", "advance"} => kbd.head # kbd.tail
  /\ reader.pc = "advance" => reader.ev = kbd.buf[kbd.tail]
  /\ reader.pc = "use" => reader.ev \in Events

IInv ==
  /\ TypeOK
  /\ ModifiersAreHeld
  /\ wire # <<>> => flags.extended
  /\ FitsTheBuffer
  /\ reader.pc # "idle" => Agree(screen.left, reader.line)
  /\ Waiting \in Seq(Events)
  /\ Reading

-----------------------------------------------------------------------------
\* Arithmetic of the ring: the slot after a, how many slots h is ahead of t,
\* and the slot of the i-th event behind t.
After(a)   == IF a = Size - 1 THEN 0 ELSE a + 1
Ahead(h, t) == IF h < t THEN h - t + Size ELSE h - t
Place(t, i) == IF t + i - 1 < Size THEN t + i - 1 ELSE t + i - 1 - Size

LEMMA SizeIsNat == Size \in Nat /\ Size > 1 /\ \A a \in Slots : a \in Nat /\ a < Size
BY ConsoleAssumption DEF Slots

LEMMA ModSize ==
  \A x \in Nat : x < Size + Size => x % Size = IF x < Size THEN x ELSE x - Size
BY ConsoleAssumption

LEMMA RingArithmetic ==
  ASSUME NEW h \in Slots, NEW t \in Slots
  PROVE  /\ After(h) \in Slots /\ (h + 1) % Size = After(h)
         /\ Ahead(h, t) \in Nat /\ Ahead(h, t) < Size
         /\ (h - t + Size) % Size = Ahead(h, t)
         /\ \A i \in 1..Size : (t + i - 1) % Size = Place(t, i) /\ Place(t, i) \in Slots
<1>1. h \in Nat /\ t \in Nat /\ h < Size /\ t < Size /\ Size \in Nat /\ Size > 1
  BY SizeIsNat
<1>2. After(h) \in Slots /\ (h + 1) % Size = After(h)
  <2> DEFINE x == h + 1
  <2>1. x \in Nat /\ x < Size + Size
    BY <1>1
  <2> HIDE DEF x
  <2>2. x % Size = IF x < Size THEN x ELSE x - Size
    BY <2>1, ModSize
  <2> QED
    BY <1>1, <2>2 DEF After, Slots, x
<1>3. Ahead(h, t) \in Nat /\ Ahead(h, t) < Size /\ (h - t + Size) % Size = Ahead(h, t)
  <2> DEFINE x == h - t + Size
  <2>1. x \in Nat /\ x < Size + Size
    BY <1>1
  <2>2. x % Size = IF x < Size THEN x ELSE x - Size
    BY <2>1, ModSize
  <2> QED
    BY <1>1, <2>2 DEF Ahead
<1>4. ASSUME NEW i \in 1..Size PROVE (t + i - 1) % Size = Place(t, i) /\ Place(t, i) \in Slots
  <2> DEFINE x == t + i - 1
  <2>1. x \in Nat /\ x < Size + Size
    BY <1>1
  <2>2. x % Size = IF x < Size THEN x ELSE x - Size
    BY <2>1, ModSize
  <2> QED
    BY <1>1, <2>1, <2>2 DEF Place, Slots
<1> QED
  BY <1>2, <1>3, <1>4

LEMMA PushArithmetic ==
  ASSUME NEW h \in Slots, NEW t \in Slots, After(h) # t
  PROVE  /\ Ahead(h, t) < Size - 1 /\ Ahead(After(h), t) = Ahead(h, t) + 1
         /\ \A i \in 1..(Ahead(h, t) + 1) : Place(t, i) = h <=> i = Ahead(h, t) + 1
<1>1. h \in Nat /\ t \in Nat /\ h < Size /\ t < Size /\ Size \in Nat /\ Size > 1
  BY SizeIsNat
<1> QED
  BY <1>1 DEF After, Ahead, Place

\* A ring that takes no event holds Size - 1.
LEMMA FullArithmetic ==
  ASSUME NEW h \in Slots, NEW t \in Slots, After(h) = t
  PROVE  Ahead(h, t) = Size - 1
<1>1. h \in Nat /\ t \in Nat /\ h < Size /\ t < Size /\ Size \in Nat /\ Size > 1
  BY SizeIsNat
<1> QED
  BY <1>1 DEF After, Ahead

LEMMA AdvanceArithmetic ==
  ASSUME NEW h \in Slots, NEW t \in Slots, h # t
  PROVE  /\ Ahead(h, t) > 0 /\ Ahead(h, After(t)) = Ahead(h, t) - 1 /\ Place(t, 1) = t
         /\ \A i \in 1..(Ahead(h, t) - 1) : Place(After(t), i) = Place(t, i + 1)
<1>1. h \in Nat /\ t \in Nat /\ h < Size /\ t < Size /\ Size \in Nat /\ Size > 1
  BY SizeIsNat
<1> QED
  BY <1>1 DEF After, Ahead, Place

\* The queue with the arithmetic done.
LEMMA QueueIs ==
  ASSUME NEW k \in Rings
  PROVE  /\ k.head \in Slots /\ k.tail \in Slots
         /\ Ahead(k.head, k.tail) \in Nat /\ Ahead(k.head, k.tail) < Size
         /\ Queue(k) = [i \in 1..Ahead(k.head, k.tail) |-> k.buf[Place(k.tail, i)]]
<1>1. k.head \in Slots /\ k.tail \in Slots
  BY DEF Rings
<1>2. /\ Ahead(k.head, k.tail) \in Nat /\ Ahead(k.head, k.tail) < Size
      /\ Count(k) = Ahead(k.head, k.tail)
      /\ \A i \in 1..Size : (k.tail + i - 1) % Size = Place(k.tail, i)
  BY <1>1, RingArithmetic DEF Count
<1> DEFINE n == Ahead(k.head, k.tail)
<1>3. \A i \in 1..n : i \in 1..Size
  <2> HIDE DEF n
  <2> QED
    BY <1>2, SizeIsNat DEF n
<1>4. Queue(k) = [i \in 1..n |-> k.buf[(k.tail + i - 1) % Size]]
  BY <1>2 DEF Queue
<1> QED
  BY <1>1, <1>2, <1>3, <1>4

(***************************************************************************)
(* kbd_push_key appends to the queue, unless the ring is full, which it is *)
(* with Size - 1 events, and leaves the oldest event where it is.          *)
(***************************************************************************)
LEMMA PushAppends ==
  ASSUME NEW k \in Rings, NEW ev \in Events, Queue(k) \in Seq(Events)
  PROVE  LET p == Push(k, ev)
         IN  /\ p \in Rings /\ p.tail = k.tail
             /\ k.head # k.tail => p.head # p.tail /\ p.buf[p.tail] = k.buf[k.tail]
             /\ \/ Len(Queue(k)) = Size - 1 /\ p = k
                \/ Len(Queue(k)) < Size - 1 /\ Queue(p) = Append(Queue(k), ev)
<1> DEFINE next == (k.head + 1) % Size
           buf  == [k.buf EXCEPT ![k.head] = ev]
           p    == [buf |-> buf, head |-> next, tail |-> k.tail]
           n    == Ahead(k.head, k.tail)
<1>1. /\ k.head \in Slots /\ k.tail \in Slots /\ k.buf \in [Slots -> Events \cup {NoEvent}]
      /\ n \in Nat /\ n < Size
      /\ Queue(k) = [i \in 1..n |-> k.buf[Place(k.tail, i)]]
  BY QueueIs DEF Rings
<1>2. next \in Slots /\ next = After(k.head)
  BY <1>1, RingArithmetic
<1>3. CASE next = k.tail
  <2>1. Push(k, ev) = k
    BY <1>3 DEF Push
  <2>2. n = Size - 1
    BY <1>1, <1>2, <1>3, FullArithmetic
  <2> HIDE DEF n
  <2>3. Len(Queue(k)) = n
    BY <1>1
  <2> QED
    BY <2>1, <2>2, <2>3
<1>4. CASE next # k.tail
  <2>1. Push(k, ev) = p
    <3>1. k = [buf |-> k.buf, head |-> k.head, tail |-> k.tail]
      BY DEF Rings
    <3>2. Push(k, ev) = [k EXCEPT !.buf = buf, !.head = next]
      BY <1>4 DEF Push
    <3> HIDE DEF buf, next
    <3> QED
      BY <3>1, <3>2
  <2>2. buf \in [Slots -> Events \cup {NoEvent}] /\ buf[k.head] = ev
        /\ \A a \in Slots : a # k.head => buf[a] = k.buf[a]
    BY <1>1
  <2> HIDE DEF buf
  <2>3. p \in Rings /\ p.tail = k.tail /\ p.head = next /\ p.buf = buf
    BY <1>1, <1>2, <2>2 DEF Rings
  <2> HIDE DEF p, next
  <2>4. /\ n < Size - 1 /\ Ahead(next, k.tail) = n + 1
        /\ \A i \in 1..(n + 1) : Place(k.tail, i) = k.head <=> i = n + 1
    BY <1>1, <1>2, <1>4, PushArithmetic
  <2>5. Queue(p) = [i \in 1..(n + 1) |-> buf[Place(k.tail, i)]]
    BY <2>3, <2>4, QueueIs
  <2>6. \A i \in 1..(n + 1) : Place(k.tail, i) \in Slots
    <3> HIDE DEF n
    <3>1. \A i \in 1..(n + 1) : i \in 1..Size
      BY <1>1, <2>4, SizeIsNat
    <3> QED
      BY <1>1, <3>1, RingArithmetic
  <2> HIDE DEF n
  <2>7. /\ Len(Queue(k)) = n
        /\ \A i \in 1..n : i \in 1..(n + 1) /\ i # n + 1 /\ Queue(k)[i] = k.buf[Place(k.tail, i)]
    BY <1>1
  <2>8. /\ Append(Queue(k), ev) \in Seq(Events) /\ Len(Append(Queue(k), ev)) = n + 1
        /\ \A i \in 1..n : Append(Queue(k), ev)[i] = Queue(k)[i]
        /\ Append(Queue(k), ev)[n + 1] = ev
    BY <2>7, AppendProperties
  <2>9. \A i \in 1..(n + 1) : buf[Place(k.tail, i)] = Append(Queue(k), ev)[i]
    <3>1. ASSUME NEW i \in 1..n PROVE buf[Place(k.tail, i)] = Append(Queue(k), ev)[i]
      BY <2>2, <2>4, <2>6, <2>7, <2>8, <3>1
    <3>2. n + 1 \in 1..(n + 1) /\ buf[Place(k.tail, n + 1)] = ev
      <4>1. n + 1 \in 1..(n + 1)
        BY <1>1
      <4> QED
        BY <2>2, <2>4, <4>1
    <3>3. \A i \in 1..(n + 1) : i \in 1..n \/ i = n + 1
      BY <1>1
    <3> QED
      BY <2>8, <3>1, <3>2, <3>3
  <2>10. Queue(p) = Append(Queue(k), ev)
    <3>1. \A i \in 1..(n + 1) : Append(Queue(k), ev)[i] \in Events
      BY <2>8
    <3>2. Queue(p) = [i \in 1..(n + 1) |-> Append(Queue(k), ev)[i]]
      BY <2>5, <2>9
    <3>3. Append(Queue(k), ev) = [i \in 1..Len(Append(Queue(k), ev)) |-> Append(Queue(k), ev)[i]]
      BY <2>8, LenProperties
    <3> QED
      BY <2>8, <3>2, <3>3
  <2>11. k.head # k.tail => p.head # p.tail /\ p.buf[p.tail] = k.buf[k.tail]
    BY <1>1, <1>4, <2>2, <2>3
  <2> QED
    BY <2>1, <2>3, <2>4, <2>7, <2>10, <2>11
<1> QED
  BY <1>3, <1>4

(***************************************************************************)
(* The step of kbd_tail takes the oldest event.                            *)
(***************************************************************************)
LEMMA AdvanceTakes ==
  ASSUME NEW k \in Rings, k.head # k.tail, Queue(k) \in Seq(Events)
  PROVE  LET p == [k EXCEPT !.tail = (k.tail + 1) % Size]
         IN  /\ p \in Rings /\ Queue(k) # <<>>
             /\ Head(Queue(k)) = k.buf[k.tail] /\ k.buf[k.tail] \in Events
             /\ Queue(p) = Tail(Queue(k))
<1> DEFINE next == (k.tail + 1) % Size
           p    == [k EXCEPT !.tail = next]
           n    == Ahead(k.head, k.tail)
<1>1. /\ k.head \in Slots /\ k.tail \in Slots /\ k.buf \in [Slots -> Events \cup {NoEvent}]
      /\ n \in Nat /\ n < Size
      /\ Queue(k) = [i \in 1..n |-> k.buf[Place(k.tail, i)]]
  BY QueueIs DEF Rings
<1>2. next \in Slots /\ next = After(k.tail)
  BY <1>1, RingArithmetic
<1> HIDE DEF next
<1>3. p \in Rings /\ p.head = k.head /\ p.tail = next /\ p.buf = k.buf
  BY <1>1, <1>2 DEF Rings
<1> HIDE DEF p
<1>4. /\ n > 0 /\ Ahead(k.head, next) = n - 1 /\ Place(k.tail, 1) = k.tail
      /\ \A i \in 1..(n - 1) : Place(next, i) = Place(k.tail, i + 1)
  BY <1>1, <1>2, AdvanceArithmetic
<1>5. Queue(p) = [i \in 1..(n - 1) |-> k.buf[Place(k.tail, i + 1)]]
  BY <1>3, <1>4, QueueIs
<1> HIDE DEF n
<1>6. Len(Queue(k)) = n /\ Queue(k) # <<>> /\ \A i \in 1..n : Queue(k)[i] = k.buf[Place(k.tail, i)]
  BY <1>1, <1>4
<1>7. /\ Tail(Queue(k)) \in Seq(Events) /\ Len(Tail(Queue(k))) = n - 1
      /\ \A i \in 1..(n - 1) : Tail(Queue(k))[i] = Queue(k)[i + 1]
  BY <1>6, HeadTailProperties
<1>8. \A i \in 1..(n - 1) : k.buf[Place(k.tail, i + 1)] = Tail(Queue(k))[i]
  <2>1. \A i \in 1..(n - 1) : i + 1 \in 1..n
    BY <1>1
  <2> QED
    BY <1>6, <1>7, <2>1
<1>9. Queue(p) = Tail(Queue(k))
  <2>1. Queue(p) = [i \in 1..(n - 1) |-> Tail(Queue(k))[i]]
    BY <1>5, <1>8
  <2>2. Tail(Queue(k)) = [i \in 1..Len(Tail(Queue(k))) |-> Tail(Queue(k))[i]]
    BY <1>7, LenProperties
  <2> QED
    BY <1>7, <2>1, <2>2
<1>10. Head(Queue(k)) = k.buf[k.tail] /\ k.buf[k.tail] \in Events
  <2>1. 1 \in 1..n
    BY <1>1, <1>4
  <2>2. Queue(k)[1] = k.buf[k.tail] /\ Queue(k)[1] \in Events
    BY <1>4, <1>6, <2>1, ElementOfSeq
  <2> QED
    BY <1>6, <2>2
<1> QED
  BY <1>3, <1>6, <1>9, <1>10 DEF p, next

-----------------------------------------------------------------------------
\* Waiting is the queue of kbd.
LEMMA WaitingIsQueue == Waiting = Queue(kbd)
BY DEF Waiting, Queue, Count

LEMMA NoEventIsNoEvent == NoEvent \notin Events
<1>1. \A e \in Events : e.type \in {"char"} \cup Special
  BY DEF Events
<1>2. NoEvent.type \notin {"char"} \cup Special
  BY DEF NoEvent, Special
<1> QED
  BY <1>1, <1>2

\* The types of the shared variables, as sets.
LEMMA TypesAreSets ==
  TypeOK <=>
    /\ keys \in Keyboards /\ down \subseteq keys \cap Held
    /\ wire \in Seq([code : {"ctrl", "arrow"}, up : BOOLEAN]) /\ Len(wire) <= 1
    /\ flags \in [shift : BOOLEAN, ctrl : BOOLEAN, extended : BOOLEAN]
    /\ kbd \in Rings
    /\ typed \in Typed
    /\ reader \in [pc : {"idle", "check", "empty", "halted", "copy", "advance", "use"},
                   ev : Events \cup {NoEvent}, line : Seq(Chars), max : Lengths]
    /\ screen \in Screens
BY DEF TypeOK, Rings, Slots, Screens, Shown, Typed

LEMMA EventIsEvent ==
  ASSUME TypeOK, NEW key \in keys, key \notin Held
  PROVE  Event(key) \in Events
<1>1. \A c \in Special : Key(c) \in Events
  BY DEF Key, Events
<1>2. key \notin Special => key \in Letters
  BY DEF TypeOK, Letters
<1>3. \A c \in Chars : Char(c) \in Events
  BY DEF Char, Events
<1>4. key \notin Special => <<key, "small">> \in Chars /\ <<key, "capital">> \in Chars
  BY <1>2 DEF Chars, Newline, Backspace, Tab
<1>5. key \notin Special /\ key \notin {"h", "i", "j"} => <<key, "ctrl">> \in Chars
  BY <1>2 DEF Chars, Newline, Backspace, Tab
<1>6. CASE key \in Special
  BY <1>1, <1>6 DEF Event
<1>7. CASE key \notin Special /\ ~ flags.ctrl
  BY <1>3, <1>4, <1>7 DEF Event
<1>8. CASE key \notin Special /\ flags.ctrl
  <2>1. "backspace" \in Special /\ "tab" \in Special /\ "enter" \in Special
    BY DEF Special
  <2> QED
    BY <1>1, <1>3, <1>5, <1>8, <2>1 DEF Event
<1> QED
  BY <1>6, <1>7, <1>8

(***************************************************************************)
(* What the handler makes of a byte: of the flags, and of the ring.        *)
(***************************************************************************)
LEMMA HandlerSteps ==
  ASSUME IInv, NEW sc, sc.up \in BOOLEAN, Handler(sc),
         sc.code \in keys \/ sc.code \in Held \cup {"E0"}
  PROVE  /\ flags' \in [shift : BOOLEAN, ctrl : BOOLEAN, extended : BOOLEAN]
         /\ sc.code = "E0" => flags' = [flags EXCEPT !.extended = TRUE]
         /\ flags'.shift => \/ flags.shift /\ (sc.code \in Shifts /\ sc.code # "E0" => ~ sc.up)
                            \/ sc.code \in Shifts /\ ~ sc.up
         /\ flags'.ctrl => \/ flags.ctrl /\ (sc.code = "ctrl" => ~ sc.up)
                           \/ sc.code = "ctrl" /\ ~ sc.up /\ ~ flags.extended
         /\ typed' \in Typed
         /\ UNCHANGED <<kbd, typed>> \/ \E ev \in Events : PushKey(ev)
<1>1. flags \in [shift : BOOLEAN, ctrl : BOOLEAN, extended : BOOLEAN]
  BY DEF IInv, TypeOK
<1> DEFINE Quiet == UNCHANGED <<kbd, typed>>
<1>7. Quiet => typed' \in Typed
  BY TypesAreSets DEF IInv
<1> HIDE DEF Quiet
<1>2. CASE sc.code = "E0" /\ flags' = [flags EXCEPT !.extended = TRUE] /\ Quiet
  <2>1. "E0" # "ctrl" /\ "E0" \notin Shifts
    BY DEF Shifts
  <2> QED
    BY <1>1, <1>2, <1>7, <2>1 DEF Quiet
<1>3. CASE sc.code # "E0" /\ sc.up /\ flags' = Released(sc.code) /\ Quiet
  <2>1. /\ flags' \in [shift : BOOLEAN, ctrl : BOOLEAN, extended : BOOLEAN]
        /\ flags'.shift => flags.shift /\ sc.code \notin Shifts
        /\ flags'.ctrl => flags.ctrl /\ sc.code # "ctrl"
    BY <1>1, <1>3 DEF Released
  <2> QED
    BY <1>3, <1>7, <2>1 DEF Quiet
<1>4. CASE /\ sc.code # "E0" /\ ~ sc.up /\ flags.extended
           /\ flags' = [flags EXCEPT !.extended = FALSE] /\ Quiet
  BY <1>1, <1>4, <1>7 DEF Quiet
<1>5. CASE /\ sc.code \in Shifts \cup {"ctrl"} /\ ~ sc.up /\ ~ flags.extended /\ Quiet
           /\ flags' = [flags EXCEPT !.shift = @ \/ sc.code \in Shifts, !.ctrl = @ \/ sc.code = "ctrl"]
  <2>1. sc.code # "E0"
    BY <1>5 DEF Shifts
  <2>2. /\ flags' \in [shift : BOOLEAN, ctrl : BOOLEAN, extended : BOOLEAN]
        /\ flags'.shift => flags.shift \/ sc.code \in Shifts
        /\ flags'.ctrl => flags.ctrl \/ sc.code = "ctrl"
    BY <1>1, <1>5
  <2> QED
    BY <1>5, <1>7, <2>1, <2>2 DEF Quiet
<1>6. CASE /\ sc.code \notin Held \cup {"E0"} /\ ~ sc.up /\ ~ flags.extended
           /\ PushKey(Event(sc.code)) /\ UNCHANGED flags
  <2>1. Event(sc.code) \in Events
    BY <1>6, EventIsEvent DEF IInv
  <2>2. typed' \in Typed
    BY <1>6, <2>1, TypesAreSets DEF IInv, PushKey, Typed
  <2> QED
    BY <1>1, <1>6, <2>1, <2>2
<1> QED
  BY <1>2, <1>3, <1>4, <1>5, <1>6 DEF Handler, Quiet

-----------------------------------------------------------------------------
\* The screen.
LEMMA FrontIs ==
  ASSUME NEW S, NEW s \in Seq(S), s # <<>>
  PROVE  /\ Front(s) \in Seq(S) /\ Len(s) \in Nat /\ Len(s) > 0 /\ Len(Front(s)) = Len(s) - 1
         /\ \A i \in 1..(Len(s) - 1) : Front(s)[i] = s[i]
<1>1. Len(s) \in Nat /\ Len(s) > 0
  OBVIOUS
<1> DEFINE m == Len(s) - 1
<1>2. m \in Nat /\ \A i \in 1..m : i \in 1..Len(s)
  BY <1>1
<1>3. \A i \in 1..m : s[i] \in S
  BY <1>2, ElementOfSeq
<1>4. Front(s) = SubSeq(s, 1, m)
  BY DEF Front
<1> HIDE DEF m
<1>5. Front(s) = [i \in 1..m |-> s[i]]
  BY <1>1, <1>2, <1>4
<1>6. Front(s) \in Seq(S) /\ Len(Front(s)) = m
  BY <1>2, <1>3, <1>5
<1> QED
  BY <1>1, <1>5, <1>6 DEF m

LEMMA AgreeNow ==
  /\ \A a : Agree(a, <<>>) /\ Agree(<<>>, a)
  /\ \A S : \A a, b \in Seq(S), c \in S : Agree(a, b) => Agree(Append(a, c), Append(b, c))
  /\ \A S : \A a, b \in Seq(S) : a # <<>> /\ b # <<>> /\ Agree(a, b) => Agree(Front(a), Front(b))
<1>1. \A a : Agree(a, <<>>) /\ Agree(<<>>, a)
  <2>1. Len(<<>>) = 0 /\ \A n \in Nat : ~ (n < 0)
    OBVIOUS
  <2> QED
    BY <2>1 DEF Agree
<1>2. ASSUME NEW S, NEW a \in Seq(S), NEW b \in Seq(S), NEW c \in S, Agree(a, b)
      PROVE  Agree(Append(a, c), Append(b, c))
  <2> DEFINE p == Append(a, c)
             q == Append(b, c)
  <2>1. /\ Len(a) \in Nat /\ Len(b) \in Nat /\ Len(p) = Len(a) + 1 /\ Len(q) = Len(b) + 1
        /\ \A i \in 1..Len(a) : p[i] = a[i]
        /\ \A i \in 1..Len(b) : q[i] = b[i]
        /\ p[Len(a) + 1] = c /\ q[Len(b) + 1] = c
    BY AppendProperties
  <2> HIDE DEF p, q
  <2>2. ASSUME NEW n \in Nat, n < Len(p), n < Len(q) PROVE p[Len(p) - n] = q[Len(q) - n]
    <3>1. CASE n = 0
      BY <2>1, <3>1
    <3>2. CASE n # 0
      <4> DEFINE m == n - 1
      <4>1. /\ m \in Nat /\ m < Len(a) /\ m < Len(b)
            /\ Len(p) - n = Len(a) - m /\ Len(q) - n = Len(b) - m
            /\ Len(a) - m \in 1..Len(a) /\ Len(b) - m \in 1..Len(b)
        BY <2>1, <2>2, <3>2
      <4> HIDE DEF m
      <4>2. a[Len(a) - m] = b[Len(b) - m]
        BY <1>2, <4>1 DEF Agree
      <4> QED
        BY <2>1, <4>1, <4>2
    <3> QED
      BY <3>1, <3>2
  <2> QED
    BY <2>2 DEF Agree, p, q
<1>3. ASSUME NEW S, NEW a \in Seq(S), NEW b \in Seq(S), a # <<>>, b # <<>>, Agree(a, b)
      PROVE  Agree(Front(a), Front(b))
  <2> DEFINE p == Front(a)
             q == Front(b)
  <2>1. /\ Len(a) \in Nat /\ Len(b) \in Nat /\ Len(p) = Len(a) - 1 /\ Len(q) = Len(b) - 1
        /\ Len(a) > 0 /\ Len(b) > 0
        /\ \A i \in 1..(Len(a) - 1) : p[i] = a[i]
        /\ \A i \in 1..(Len(b) - 1) : q[i] = b[i]
    BY <1>3, FrontIs
  <2> HIDE DEF p, q
  <2>2. ASSUME NEW n \in Nat, n < Len(p), n < Len(q) PROVE p[Len(p) - n] = q[Len(q) - n]
    <3> DEFINE m == n + 1
    <3>1. /\ m \in Nat /\ m < Len(a) /\ m < Len(b)
          /\ Len(p) - n = Len(a) - m /\ Len(q) - n = Len(b) - m
          /\ Len(a) - m \in 1..(Len(a) - 1) /\ Len(b) - m \in 1..(Len(b) - 1)
      BY <2>1, <2>2
    <3> HIDE DEF m
    <3>2. a[Len(a) - m] = b[Len(b) - m]
      BY <1>3, <3>1 DEF Agree
    <3> QED
      BY <2>1, <3>1, <3>2
  <2> QED
    BY <2>2 DEF Agree, p, q
<1> QED
  BY <1>1, <1>2, <1>3

LEMMA NextLineIsScreen ==
  ASSUME NEW t \in Screens
  PROVE  NextLine(t) \in Screens /\ NextLine(t).left = <<>>
<1>1. <<>> \in Seq(Shown) /\ Len(<<>>) = 0 /\ Cols > 0
  BY ConsoleAssumption, EmptySeq
<1>2. t.y \in 0..(Lines - 1) /\ Lines \in Nat
  BY ConsoleAssumption DEF Screens
<1>3. (IF t.y + 1 >= Lines THEN t.y ELSE t.y + 1) \in 0..(Lines - 1)
  BY <1>2
<1> QED
  BY <1>1, <1>3 DEF NextLine, Screens

LEMMA DrawIsScreen ==
  ASSUME NEW t \in Screens, NEW c \in Shown
  PROVE  /\ Draw(t, c) \in Screens
         /\ Draw(t, c).left = <<>> \/ Draw(t, c).left = Append(t.left, c)
<1>1. CASE Len(t.left) + 1 >= Cols
  BY <1>1, NextLineIsScreen DEF Draw
<1>2. CASE ~ (Len(t.left) + 1 >= Cols)
  <2> DEFINE left == Append(t.left, c)
  <2>1. t.left \in Seq(Shown) /\ Len(t.left) \in Nat /\ Cols \in Nat
    BY ConsoleAssumption DEF Screens
  <2>2. left \in Seq(Shown) /\ Len(left) < Cols
    BY <1>2, <2>1, AppendProperties
  <2>3. Draw(t, c) = [t EXCEPT !.left = left]
    BY <1>2 DEF Draw
  <2> HIDE DEF left
  <2>4. Draw(t, c) \in Screens /\ Draw(t, c).left = left
    BY <2>2, <2>3 DEF Screens
  <2> QED
    BY <2>4 DEF left
<1> QED
  BY <1>1, <1>2

(***************************************************************************)
(* tty_putchar keeps the cursor on the screen, whatever it draws.          *)
(***************************************************************************)
LEMMA PutcharIsScreen ==
  ASSUME NEW t \in Screens, NEW c \in Shown \cup {Newline, Backspace, Tab}
  PROVE  Putchar(t, c) \in Screens
<1>1. t.left \in Seq(Shown) /\ Len(t.left) \in Nat /\ Len(t.left) < Cols /\ Cols \in Nat /\ Cols > 0
  BY ConsoleAssumption DEF Screens
<1>2. \A l \in Seq(Shown) : Len(l) < Cols => [t EXCEPT !.left = l] \in Screens
  BY DEF Screens
<1>3. [t EXCEPT !.left = <<>>] \in Screens
  BY <1>1, <1>2, EmptySeq
<1>4. Len(t.left) > 0 => [t EXCEPT !.left = Front(t.left)] \in Screens
  <2>1. Len(t.left) > 0 => Front(t.left) \in Seq(Shown) /\ Len(Front(t.left)) < Cols
    BY <1>1, FrontIs
  <2> QED
    BY <1>2, <2>1
<1> DEFINE x    == Len(t.left)
           tab  == (x \div 4 + 1) * 4
           fill == [i \in 1..(tab - x) |-> Blank]
<1>5. tab < Cols => [t EXCEPT !.left = t.left \o fill] \in Screens
  <2>1. \A y \in Nat : (y \div 4 + 1) * 4 \in Nat /\ (y \div 4 + 1) * 4 > y
    OBVIOUS
  <2>2. tab \in Nat /\ tab > x /\ tab - x \in Nat
    <3>1. x \in Nat
      BY <1>1
    <3> HIDE DEF x
    <3>2. tab \in Nat /\ tab > x
      BY <2>1, <3>1
    <3> HIDE DEF tab
    <3> QED
      BY <3>1, <3>2
  <2> HIDE DEF tab
  <2>3. fill \in Seq(Shown) /\ Len(fill) = tab - x
    BY <2>2 DEF Shown
  <2> HIDE DEF fill
  <2>4. t.left \o fill \in Seq(Shown) /\ Len(t.left \o fill) = tab
    BY <1>1, <2>2, <2>3, ConcatProperties
  <2> QED
    BY <1>2, <2>4
<1>6. CASE c = Newline
  <2>1. Putchar(t, c) = NextLine(t)
    BY <1>6 DEF Putchar, Newline, Return, Backspace, Tab
  <2> QED
    BY <2>1, NextLineIsScreen
<1>7. CASE c = Return
  <2>1. c # Newline
    BY <1>7 DEF Newline, Return
  <2>2. Putchar(t, c) = [t EXCEPT !.left = <<>>]
    BY <1>7, <2>1 DEF Putchar, Return, Backspace, Tab
  <2> QED
    BY <1>3, <2>2
<1>8. CASE c = Backspace
  <2>1. Putchar(t, c) = IF x > 0 THEN [t EXCEPT !.left = Front(t.left)] ELSE t
    BY <1>8 DEF Putchar, Newline, Return, Backspace, Tab
  <2> QED
    BY <1>4, <2>1
<1>9. CASE c = Tab
  <2>1. Putchar(t, c) = IF tab >= Cols THEN NextLine(t) ELSE [t EXCEPT !.left = t.left \o fill]
    BY <1>9 DEF Putchar, Newline, Return, Backspace, Tab
  <2>2. \A y \in Nat : (y \div 4 + 1) * 4 \in Nat
    OBVIOUS
  <2>3. tab \in Nat
    BY <1>1, <2>2
  <2> HIDE DEF tab, fill
  <2> QED
    BY <1>1, <1>5, <2>1, <2>3, NextLineIsScreen
<1>10. CASE c \notin {Newline, Return, Backspace, Tab}
  <2>1. Putchar(t, c) = Draw(t, c)
    BY <1>10 DEF Putchar
  <2> QED
    BY <1>10, <2>1, DrawIsScreen
<1> QED
  BY <1>6, <1>7, <1>8, <1>9, <1>10

-----------------------------------------------------------------------------
Readers ==
  [pc : {"idle", "check", "empty", "halted", "copy", "advance", "use"},
   ev : Events \cup {NoEvent}, line : Seq(Chars), max : Lengths]

\* The last event taken and not used, as TypeAhead sees it.
Hand == IF reader.pc = "use" THEN reader.ev ELSE NoEvent

\* IInv with the parts that belong together.
Keys == /\ keys \in Keyboards /\ down \subseteq keys \cap Held
        /\ wire \in Seq([code : {"ctrl", "arrow"}, up : BOOLEAN]) /\ Len(wire) <= 1
        /\ flags \in [shift : BOOLEAN, ctrl : BOOLEAN, extended : BOOLEAN]
        /\ typed \in Typed
        /\ ModifiersAreHeld
        /\ wire # <<>> => flags.extended

Line == /\ reader \in Readers /\ screen \in Screens
        /\ FitsTheBuffer
        /\ reader.pc # "idle" => Agree(screen.left, reader.line)

Ring == kbd \in Rings /\ Queue(kbd) \in Seq(Events) /\ Reading

LEMMA Parts == IInv <=> Keys /\ Line /\ Ring
BY TypesAreSets, WaitingIsQueue DEF IInv, Keys, Line, Ring, Readers

LEMMA PartsAfter == IInv' <=> (Keys /\ Line /\ Ring)'
BY Parts, PTL

LEMMA InitIsGood == Init => IInv
<1> SUFFICES ASSUME Init PROVE Keys /\ Line /\ Ring
  BY Parts
<1>1. Keys
  BY EmptySeq DEF Init, Keys, ModifiersAreHeld, Typed
<1>2. Line
  <2>1. (CHOOSE n \in Lengths : TRUE) \in Lengths
    BY ConsoleAssumption
  <2> DEFINE max == CHOOSE n \in Lengths : TRUE
  <2>2. max \in Nat /\ max > 1 /\ max \in Lengths
    <3>1. \A n \in Lengths : n \in Nat /\ n > 1
      BY ConsoleAssumption
    <3> HIDE DEF max
    <3>2. max \in Lengths
      BY <2>1 DEF max
    <3> QED
      BY <3>1, <3>2
  <2> HIDE DEF max
  <2>3. reader = [pc |-> "idle", ev |-> NoEvent, line |-> <<>>, max |-> max]
    BY DEF Init, max
  <2>4. reader \in Readers /\ reader.pc = "idle" /\ Len(reader.line) = 0 /\ reader.max = max
    BY <2>2, <2>3, EmptySeq DEF Readers
  <2>5. screen \in Screens
    BY ConsoleAssumption, EmptySeq DEF Init, Screens
  <2> QED
    BY <2>2, <2>4, <2>5 DEF Line, FitsTheBuffer
<1>3. Ring
  <2>1. 0 \in Slots
    BY SizeIsNat DEF Slots
  <2>2. kbd = [buf |-> [a \in Slots |-> NoEvent], head |-> 0, tail |-> 0] /\ reader.pc = "idle"
    BY DEF Init, Slots
  <2>3. kbd \in Rings /\ kbd.head = 0 /\ kbd.tail = 0
    BY <2>1, <2>2 DEF Rings
  <2>4. Ahead(0, 0) = 0
    BY DEF Ahead
  <2>5. Queue(kbd) = [a \in 1..0 |-> kbd.buf[Place(0, a)]]
    BY <2>3, <2>4, QueueIs
  <2>6. Queue(kbd) \in Seq(Events)
    BY <2>5
  <2> QED
    BY <2>2, <2>3, <2>6 DEF Ring, Reading
<1> QED
  BY <1>1, <1>2, <1>3

\* The event ev goes to the end of the queue, or the ring is full.
WaitsOrIsLost(ev) ==
  \/ Len(Queue(kbd)) < Size - 1 /\ Queue(kbd)' = Append(Queue(kbd), ev)
  \/ Len(Queue(kbd)) = Size - 1 /\ Queue(kbd)' = Queue(kbd)

(***************************************************************************)
(* An interrupt between two steps of the reader: whatever the handler does *)
(* to the ring, the reader's key stays what it was.                        *)
(***************************************************************************)
LEMMA IrqKeepsRing ==
  ASSUME IInv, reader' = Woken, UNCHANGED screen,
         UNCHANGED <<kbd, typed>> \/ \E ev \in Events : PushKey(ev)
  PROVE  /\ Line' /\ Ring' /\ Hand' = Hand
         /\ \/ Queue(kbd)' = Queue(kbd) /\ typed' = typed
            \/ \E ev \in Events : Q!Press(ev) /\ WaitsOrIsLost(ev)
<1>1. Line /\ Ring
  BY Parts
<1>2. /\ reader' \in Readers /\ reader'.line = reader.line /\ reader'.max = reader.max
      /\ reader'.ev = reader.ev
      /\ reader'.pc = IF reader.pc = "halted" THEN "check" ELSE reader.pc
  BY <1>1 DEF Line, Woken, Readers
<1>3. Line'
  BY <1>1, <1>2 DEF Line, FitsTheBuffer
<1>4. Hand' = Hand
  BY <1>2 DEF Hand
<1>5. CASE UNCHANGED <<kbd, typed>>
  <2>1. Reading'
    BY <1>1, <1>2, <1>5 DEF Ring, Reading
  <2>2. Queue(kbd)' = Queue(kbd)
    BY <1>5 DEF Queue, Count
  <2> QED
    BY <1>1, <1>3, <1>4, <1>5, <2>1, <2>2 DEF Ring
<1>6. ASSUME NEW ev \in Events, PushKey(ev)
      PROVE  Ring' /\ Q!Press(ev) /\ WaitsOrIsLost(ev)
  <2>1. /\ kbd' \in Rings /\ kbd'.tail = kbd.tail
        /\ kbd.head # kbd.tail => kbd'.head # kbd'.tail /\ kbd'.buf[kbd'.tail] = kbd.buf[kbd.tail]
        /\ \/ Len(Queue(kbd)) = Size - 1 /\ kbd' = kbd
           \/ Len(Queue(kbd)) < Size - 1 /\ Queue(kbd') = Append(Queue(kbd), ev)
    BY <1>1, <1>6, PushAppends DEF Ring, PushKey
  <2>2. Queue(kbd)' = Queue(kbd')
    BY DEF Queue, Count
  <2>3. Queue(kbd)' \in Seq(Events)
    BY <1>1, <2>1, <2>2, AppendProperties DEF Ring
  <2>4. Reading'
    BY <1>1, <1>2, <2>1 DEF Ring, Reading
  <2>5. Ring' /\ WaitsOrIsLost(ev)
    BY <2>1, <2>2, <2>3, <2>4 DEF Ring, WaitsOrIsLost
  <2>6. Q!Press(ev)
    BY <1>6 DEF PushKey, Q!Press
  <2> QED
    BY <2>5, <2>6
<1> QED
  BY <1>3, <1>4, <1>5, <1>6

LEMMA KeyIrqSteps ==
  ASSUME IInv, NEW key \in keys, NEW up \in BOOLEAN, KeyIrq(key, up)
  PROVE  /\ Keys' /\ reader' = Woken /\ UNCHANGED screen
         /\ UNCHANGED <<kbd, typed>> \/ \E ev \in Events : PushKey(ev)
<1>1. Keys
  BY Parts
<1>2. /\ keys' = keys /\ reader' = Woken /\ UNCHANGED screen
      /\ down' = IF up THEN down \ {key} ELSE down \cup ({key} \cap Held)
  BY DEF KeyIrq
<1>3. down' \subseteq keys' \cap Held
  BY <1>1, <1>2 DEF Keys
<1>4. CASE key \in Extended
  <2> DEFINE sc == [code |-> "E0", up |-> FALSE]
  <2>1. wire' = <<[code |-> Code(key), up |-> up]>> /\ Handler(sc)
    BY <1>4 DEF KeyIrq
  <2>2. Code(key) \in {"ctrl", "arrow"}
    BY <1>4 DEF Code, Extended
  <2>3. wire' \in Seq([code : {"ctrl", "arrow"}, up : BOOLEAN]) /\ Len(wire') = 1 /\ wire' # <<>>
    BY <2>1, <2>2
  <2>4. sc.code = "E0" /\ sc.up \in BOOLEAN
    OBVIOUS
  <2>5. /\ flags' \in [shift : BOOLEAN, ctrl : BOOLEAN, extended : BOOLEAN]
        /\ flags' = [flags EXCEPT !.extended = TRUE]
        /\ typed' \in Typed
        /\ UNCHANGED <<kbd, typed>> \/ \E ev \in Events : PushKey(ev)
    <3> HIDE DEF sc
    <3> QED
      BY <2>1, <2>4, HandlerSteps
  <2>6. flags'.shift = flags.shift /\ flags'.ctrl = flags.ctrl /\ flags'.extended
    BY <1>1, <2>5 DEF Keys
  <2>7. key \notin Shifts /\ key # "ctrl"
    BY <1>4 DEF Extended, Shifts
  <2>8. ModifiersAreHeld'
    BY <1>1, <1>2, <2>6, <2>7 DEF Keys, ModifiersAreHeld
  <2> QED
    BY <1>1, <1>2, <1>3, <2>3, <2>5, <2>6, <2>8 DEF Keys
<1>5. CASE key \notin Extended
  <2> DEFINE sc == [code |-> key, up |-> up]
  <2>1. wire' = <<>> /\ Handler(sc)
    BY <1>5 DEF KeyIrq
  <2>2. sc.code = key /\ sc.up = up
    OBVIOUS
  <2>3. /\ flags' \in [shift : BOOLEAN, ctrl : BOOLEAN, extended : BOOLEAN]
        /\ flags'.shift => \/ flags.shift /\ (key \in Shifts /\ key # "E0" => ~ up)
                           \/ key \in Shifts /\ ~ up
        /\ flags'.ctrl => \/ flags.ctrl /\ (key = "ctrl" => ~ up)
                          \/ key = "ctrl" /\ ~ up /\ ~ flags.extended
        /\ typed' \in Typed
        /\ UNCHANGED <<kbd, typed>> \/ \E ev \in Events : PushKey(ev)
    <3> HIDE DEF sc
    <3> QED
      BY <2>1, <2>2, HandlerSteps
  <2>4. Shifts \subseteq Held /\ "ctrl" \in Held /\ "E0" \notin Shifts
    BY DEF Shifts, Held
  <2>5. flags'.shift => down' \cap Shifts # {}
    BY <1>1, <1>2, <2>3, <2>4 DEF Keys, ModifiersAreHeld
  <2>6. flags'.ctrl => "ctrl" \in down'
    BY <1>1, <1>2, <2>3, <2>4 DEF Keys, ModifiersAreHeld
  <2>7. <<>> \in Seq([code : {"ctrl", "arrow"}, up : BOOLEAN]) /\ Len(<<>>) = 0
    BY EmptySeq
  <2> QED
    BY <1>1, <1>2, <1>3, <2>1, <2>3, <2>5, <2>6, <2>7 DEF Keys, ModifiersAreHeld
<1> QED
  BY <1>4, <1>5

LEMMA ByteIrqSteps ==
  ASSUME IInv, ByteIrq
  PROVE  /\ Keys' /\ reader' = Woken /\ UNCHANGED screen
         /\ UNCHANGED <<kbd, typed>> \/ \E ev \in Events : PushKey(ev)
<1>1. Keys
  BY Parts
<1>2. /\ keys' = keys /\ down' = down /\ reader' = Woken /\ UNCHANGED screen
      /\ wire # <<>> /\ wire' = Tail(wire) /\ Handler(Head(wire))
  BY DEF ByteIrq
<1> DEFINE sc == Head(wire)
<1>3. sc \in [code : {"ctrl", "arrow"}, up : BOOLEAN]
      /\ wire' \in Seq([code : {"ctrl", "arrow"}, up : BOOLEAN]) /\ Len(wire') = Len(wire) - 1
  BY <1>1, <1>2, HeadTailProperties DEF Keys
<1>4. Len(wire') <= 1 /\ wire' = <<>>
  <2>1. Len(wire) = 1
    <3>1. wire \in Seq([code : {"ctrl", "arrow"}, up : BOOLEAN]) /\ Len(wire) <= 1 /\ wire # <<>>
      BY <1>1, <1>2 DEF Keys
    <3>2. Len(wire) \in Nat /\ Len(wire) # 0 /\ Len(wire) <= 1
      BY <3>1, EmptySeq
    <3>3. \A n \in Nat : n # 0 /\ n <= 1 => n = 1
      OBVIOUS
    <3> QED
      BY ONLY <3>2, <3>3, Zenon
  <2> QED
    BY <1>3, <2>1, EmptySeq
<1> HIDE DEF sc
<1>5. sc.code \in {"ctrl", "arrow"} /\ sc.up \in BOOLEAN /\ Handler(sc)
  BY <1>2, <1>3 DEF sc
<1>6. sc.code \in Held \cup {"E0"} /\ sc.code \notin Shifts /\ sc.code # "E0"
  BY <1>5 DEF Held, Extended, Shifts
<1>7. /\ flags' \in [shift : BOOLEAN, ctrl : BOOLEAN, extended : BOOLEAN]
      /\ flags'.shift => flags.shift
      /\ flags'.ctrl => flags.ctrl \/ ~ flags.extended
      /\ typed' \in Typed
      /\ UNCHANGED <<kbd, typed>> \/ \E ev \in Events : PushKey(ev)
  BY <1>5, <1>6, HandlerSteps
<1>8. ModifiersAreHeld'
  BY <1>1, <1>2, <1>7 DEF Keys, ModifiersAreHeld
<1> QED
  BY <1>1, <1>2, <1>3, <1>4, <1>7, <1>8 DEF Keys

\* A step of the reader leaves the keyboard alone.
LEMMA DeviceKeepsKeys == ASSUME IInv, UNCHANGED device PROVE Keys'
BY Parts DEF device, Keys, ModifiersAreHeld

LEMMA SameQueue == ASSUME UNCHANGED kbd PROVE Queue(kbd)' = Queue(kbd)
BY DEF Queue, Count

(***************************************************************************)
(* What a program writes, and the start of a line.                         *)
(***************************************************************************)
LEMMA OutputKeepsLine ==
  ASSUME IInv, UNCHANGED <<device, kbd>>,
         \/ \E c \in {Newline, Tab, Prompt} : Write(c)
         \/ Clear
         \/ \E max \in Lengths : StartRead(max)
  PROVE  Line' /\ Ring' /\ Hand' = Hand /\ Queue(kbd)' = Queue(kbd)
<1>1. Line /\ Ring /\ reader.pc = "idle"
  BY Parts DEF Write, Clear, StartRead
<1>2. ASSUME reader' = reader, screen' \in Screens
      PROVE  Line' /\ Ring' /\ Hand' = Hand /\ Queue(kbd)' = Queue(kbd)
  <2>1. Line' /\ Hand' = Hand
    BY <1>1, <1>2 DEF Line, FitsTheBuffer, Hand
  <2>2. Reading'
    BY <1>1, <1>2 DEF Reading
  <2> QED
    BY <1>1, <2>1, <2>2, SameQueue DEF Ring
<1>3. ASSUME NEW c \in {Newline, Tab, Prompt}, Write(c) PROVE reader' = reader /\ screen' \in Screens
  BY <1>1, <1>3, PutcharIsScreen DEF Write, Line, Shown
<1>4. CASE Clear
  <2>1. [left |-> <<>>, y |-> 0] \in Screens
    BY ConsoleAssumption, EmptySeq DEF Screens
  <2> QED
    BY <1>2, <1>4, <2>1 DEF Clear
<1>5. ASSUME NEW max \in Lengths, StartRead(max)
      PROVE  Line' /\ Ring' /\ Hand' = Hand /\ Queue(kbd)' = Queue(kbd)
  <2>1. /\ reader' \in Readers /\ reader'.pc = "check" /\ reader'.line = <<>> /\ reader'.max = max
        /\ screen' = screen
    <3>1. reader' = [pc |-> "check", ev |-> NoEvent, line |-> <<>>, max |-> max] /\ screen' = screen
      BY <1>5 DEF StartRead
    <3> QED
      BY <3>1, EmptySeq DEF Readers
  <2>2. Agree(screen'.left, reader'.line)
    BY <2>1, AgreeNow
  <2>3. FitsTheBuffer'
    <3>1. max \in Nat /\ max > 1 /\ Len(<<>>) = 0
      BY ConsoleAssumption
    <3> QED
      BY <2>1, <3>1 DEF FitsTheBuffer
  <2>4. Line' /\ Hand' = Hand
    BY <1>1, <2>1, <2>2, <2>3 DEF Line, Hand
  <2>5. Reading'
    BY <2>1 DEF Reading
  <2> QED
    BY <1>1, <2>4, <2>5, SameQueue DEF Ring
<1> QED
  BY <1>2, <1>3, <1>4, <1>5

(***************************************************************************)
(* kbd_get_key up to the copy of the event: nothing is taken yet.          *)
(***************************************************************************)
LEMMA LookingTakesNothing ==
  ASSUME IInv, Check \/ Halt \/ Copy
  PROVE  Line' /\ Ring' /\ UNCHANGED <<device, kbd>> /\ Hand' = Hand /\ Queue(kbd)' = Queue(kbd)
<1>1. Line /\ Ring
  BY Parts
<1>2. UNCHANGED <<device, kbd, screen>> /\ reader.pc \in {"check", "empty", "copy"}
  BY DEF Check, Halt, Copy
<1>3. Queue(kbd)' = Queue(kbd)
  BY <1>2, SameQueue
<1>4. kbd.head # kbd.tail => kbd.buf[kbd.tail] \in Events
  BY <1>1, AdvanceTakes DEF Ring
<1>5. CASE Check
  <2>1. /\ reader' \in Readers /\ reader'.line = reader.line /\ reader'.max = reader.max
        /\ reader'.pc = IF kbd.head = kbd.tail THEN "empty" ELSE "copy"
    BY <1>1, <1>5 DEF Check, Line, Readers
  <2>2. Line' /\ Hand' = Hand
    BY <1>1, <1>2, <1>5, <2>1 DEF Check, Line, FitsTheBuffer, Hand
  <2>3. Reading'
    BY <1>2, <2>1 DEF Reading
  <2> QED
    BY <1>1, <1>2, <1>3, <2>2, <2>3 DEF Ring
<1>6. CASE Halt
  <2>1. /\ reader' \in Readers /\ reader'.line = reader.line /\ reader'.max = reader.max
        /\ reader'.pc = "halted"
    BY <1>1, <1>6 DEF Halt, Line, Readers
  <2>2. Line' /\ Hand' = Hand
    BY <1>1, <1>2, <1>6, <2>1 DEF Halt, Line, FitsTheBuffer, Hand
  <2>3. Reading'
    BY <1>2, <2>1 DEF Reading
  <2> QED
    BY <1>1, <1>2, <1>3, <2>2, <2>3 DEF Ring
<1>7. CASE Copy
  <2>1. reader.pc = "copy" /\ kbd.head # kbd.tail /\ kbd.buf[kbd.tail] \in Events
    BY <1>1, <1>4, <1>7 DEF Copy, Ring, Reading
  <2>2. /\ reader' \in Readers /\ reader'.line = reader.line /\ reader'.max = reader.max
        /\ reader'.pc = "advance" /\ reader'.ev = kbd.buf[kbd.tail]
    BY <1>1, <1>7, <2>1 DEF Copy, Line, Readers
  <2>3. Line' /\ Hand' = Hand
    BY <1>1, <1>2, <2>1, <2>2 DEF Line, FitsTheBuffer, Hand
  <2>4. Reading'
    BY <1>2, <2>1, <2>2 DEF Reading
  <2> QED
    BY <1>1, <1>2, <1>3, <2>3, <2>4 DEF Ring
<1> QED
  BY <1>5, <1>6, <1>7

(***************************************************************************)
(* The step of kbd_tail takes the oldest event, which is the one copied.   *)
(***************************************************************************)
LEMMA AdvanceSteps ==
  ASSUME IInv, Advance
  PROVE  /\ Line' /\ Ring' /\ UNCHANGED device
         /\ Hand = NoEvent /\ Queue(kbd) # <<>>
         /\ Hand' = Head(Queue(kbd)) /\ Queue(kbd)' = Tail(Queue(kbd))
<1>1. Line /\ Ring
  BY Parts
<1>2. /\ reader.pc = "advance" /\ UNCHANGED <<device, screen>>
      /\ reader' = [reader EXCEPT !.pc = "use"]
      /\ kbd' = [kbd EXCEPT !.tail = (kbd.tail + 1) % Size]
  BY DEF Advance
<1>3. kbd.head # kbd.tail /\ reader.ev = kbd.buf[kbd.tail]
  BY <1>1, <1>2 DEF Ring, Reading
<1>4. /\ kbd' \in Rings /\ Queue(kbd) # <<>>
      /\ Head(Queue(kbd)) = kbd.buf[kbd.tail] /\ kbd.buf[kbd.tail] \in Events
      /\ Queue(kbd') = Tail(Queue(kbd))
  BY <1>1, <1>2, <1>3, AdvanceTakes DEF Ring
<1>5. Queue(kbd)' = Queue(kbd')
  BY DEF Queue, Count
<1>6. Queue(kbd)' \in Seq(Events)
  BY <1>1, <1>4, <1>5, HeadTailProperties DEF Ring
<1>7. /\ reader' \in Readers /\ reader'.pc = "use" /\ reader'.ev = reader.ev
      /\ reader'.line = reader.line /\ reader'.max = reader.max
  BY <1>1, <1>2 DEF Line, Readers
<1>8. Line'
  BY <1>1, <1>2, <1>7 DEF Line, FitsTheBuffer
<1>9. Reading' /\ Hand = NoEvent /\ Hand' = Head(Queue(kbd))
  BY <1>2, <1>3, <1>4, <1>7 DEF Reading, Hand
<1> QED
  BY <1>2, <1>4, <1>5, <1>6, <1>8, <1>9 DEF Ring

(***************************************************************************)
(* What tty_readline makes of an event: the line and the screen go on      *)
(* together.                                                               *)
(***************************************************************************)
LEMMA BackIsReader ==
  ASSUME Line, NEW line \in Seq(Chars), NEW pc \in {"idle", "check"}, Back(line, pc),
         Len(line) + 1 <= reader.max
  PROVE  /\ reader' \in Readers /\ reader'.line = line /\ reader'.pc = pc
         /\ FitsTheBuffer'
<1>1. /\ reader' = [reader EXCEPT !.pc = pc, !.ev = NoEvent, !.line = line]
      /\ reader = [pc |-> reader.pc, ev |-> reader.ev, line |-> reader.line, max |-> reader.max]
      /\ reader.max \in Lengths
  BY DEF Back, Line, Readers
<1>2. reader' = [pc |-> pc, ev |-> NoEvent, line |-> line, max |-> reader.max]
  BY <1>1
<1> QED
  BY <1>1, <1>2 DEF Readers, FitsTheBuffer

LEMMA UsingLine ==
  ASSUME IInv, reader.pc = "use"
  PROVE  /\ Line /\ screen \in Screens /\ reader.line \in Seq(Chars)
         /\ Agree(screen.left, reader.line)
         /\ Len(reader.line) \in Nat /\ Len(reader.line) + 1 <= reader.max
         /\ reader.max \in Nat /\ reader.max > 1
<1>1. \A n \in Lengths : n \in Nat /\ n > 1
  BY ConsoleAssumption
<1>2. Line /\ screen \in Screens /\ reader.line \in Seq(Chars) /\ reader.max \in Lengths
  BY Parts DEF Line, Readers
<1> QED
  BY <1>1, <1>2 DEF Line, FitsTheBuffer

LEMMA StoreKeepsLine ==
  ASSUME IInv, reader.pc = "use", NEW c \in Chars, c # FormFeed, Store(c)
  PROVE  Line' /\ reader'.pc = "check"
<1>1. /\ Line /\ screen \in Screens /\ reader.line \in Seq(Chars)
      /\ Agree(screen.left, reader.line)
      /\ Len(reader.line) \in Nat /\ Len(reader.line) + 1 <= reader.max /\ reader.max \in Nat
  BY UsingLine
<1>2. CASE Len(reader.line) < reader.max - 1
  <2> DEFINE line == Append(reader.line, c)
  <2>1. Back(line, "check") /\ screen' = Putchar(screen, c)
    BY <1>2 DEF Store
  <2>2. line \in Seq(Chars) /\ Len(line) + 1 <= reader.max
    BY <1>1, <1>2, AppendProperties
  <2> HIDE DEF line
  <2>3. reader' \in Readers /\ reader'.line = line /\ reader'.pc = "check" /\ FitsTheBuffer'
    BY <1>1, <2>1, <2>2, BackIsReader
  <2>4. c \in Shown /\ c \notin {Newline, Backspace, Tab}
    BY DEF Shown, Chars
  <2>5. screen' \in Screens
    BY <1>1, <2>1, <2>4, PutcharIsScreen
  <2>6. Agree(screen'.left, line)
    <3>1. CASE c = Return
      <4>1. screen' = [screen EXCEPT !.left = <<>>]
        BY <2>1, <2>4, <3>1 DEF Putchar
      <4>2. screen'.left = <<>>
        BY <1>1, <4>1 DEF Screens
      <4> QED
        BY <4>2, AgreeNow
    <3>2. CASE c # Return
      <4>1. screen' = Draw(screen, c)
        BY <2>1, <2>4, <3>2 DEF Putchar
      <4>2. screen'.left = <<>> \/ screen'.left = Append(screen.left, c)
        BY <1>1, <2>4, <4>1, DrawIsScreen
      <4>3. screen.left \in Seq(Shown) /\ reader.line \in Seq(Shown)
        BY <1>1 DEF Screens, Shown
      <4>4. Agree(Append(screen.left, c), line)
        BY <1>1, <2>4, <4>3, AgreeNow DEF line
      <4> QED
        BY <4>2, <4>4, AgreeNow
    <3> QED
      BY <3>1, <3>2
  <2> QED
    BY <2>3, <2>5, <2>6 DEF Line
<1>3. CASE ~ (Len(reader.line) < reader.max - 1)
  <2>1. Back(reader.line, "check") /\ UNCHANGED screen
    BY <1>3 DEF Store
  <2>2. /\ reader' \in Readers /\ reader'.line = reader.line /\ reader'.pc = "check"
        /\ FitsTheBuffer'
    BY <1>1, <2>1, BackIsReader
  <2> QED
    BY <1>1, <2>1, <2>2 DEF Line
<1> QED
  BY <1>2, <1>3

LEMMA EraseKeepsLine ==
  ASSUME IInv, reader.pc = "use", Erase
  PROVE  Line' /\ reader'.pc = "check"
<1>1. /\ Line /\ screen \in Screens /\ reader.line \in Seq(Chars)
      /\ Agree(screen.left, reader.line)
      /\ Len(reader.line) \in Nat /\ Len(reader.line) + 1 <= reader.max /\ reader.max \in Nat
  BY UsingLine
<1>2. CASE reader.line # <<>>
  <2> DEFINE line == Front(reader.line)
  <2>1. Back(line, "check") /\ screen' = Putchar(screen, Backspace)
    BY <1>2 DEF Erase
  <2>2. line \in Seq(Chars) /\ Len(line) + 1 <= reader.max
    BY <1>1, <1>2, FrontIs
  <2> HIDE DEF line
  <2>3. reader' \in Readers /\ reader'.line = line /\ reader'.pc = "check" /\ FitsTheBuffer'
    BY <1>1, <2>1, <2>2, BackIsReader
  <2>4. screen' \in Screens
    BY <1>1, <2>1, PutcharIsScreen
  <2>5. screen' = IF Len(screen.left) > 0 THEN [screen EXCEPT !.left = Front(screen.left)] ELSE screen
    BY <2>1 DEF Putchar, Newline, Return, Backspace, Tab
  <2>6. screen.left \in Seq(Shown) /\ reader.line \in Seq(Shown)
    BY <1>1 DEF Screens, Shown
  <2>7. Agree(screen'.left, line)
    <3>1. CASE Len(screen.left) > 0
      <4>1. screen'.left = Front(screen.left) /\ screen.left # <<>>
        BY <1>1, <2>5, <3>1 DEF Screens
      <4> QED
        BY <1>1, <1>2, <2>6, <4>1, AgreeNow DEF line
    <3>2. CASE ~ (Len(screen.left) > 0)
      <4>1. screen'.left = <<>>
        BY <2>5, <2>6, <3>2, EmptySeq
      <4> QED
        BY <4>1, AgreeNow
    <3> QED
      BY <3>1, <3>2
  <2> QED
    BY <2>3, <2>4, <2>7 DEF Line
<1>3. CASE reader.line = <<>>
  <2>1. Back(reader.line, "check") /\ UNCHANGED screen
    BY <1>3 DEF Erase
  <2>2. /\ reader' \in Readers /\ reader'.line = reader.line /\ reader'.pc = "check"
        /\ FitsTheBuffer'
    BY <1>1, <2>1, BackIsReader
  <2> QED
    BY <1>1, <2>1, <2>2 DEF Line
<1> QED
  BY <1>2, <1>3

LEMMA UseSteps ==
  ASSUME IInv, Use
  PROVE  /\ Line' /\ Ring' /\ UNCHANGED <<device, kbd>>
         /\ Hand \in Events /\ Hand' = NoEvent /\ Queue(kbd)' = Queue(kbd)
<1>1. /\ Line /\ Ring /\ reader.pc = "use" /\ UNCHANGED <<device, kbd>>
      /\ reader.ev \in Events /\ reader.line \in Seq(Chars) /\ reader.max \in Nat /\ reader.max > 1
      /\ screen \in Screens /\ Len(reader.line) + 1 <= reader.max
      /\ Agree(screen.left, reader.line)
  <2>1. reader.pc = "use" /\ UNCHANGED <<device, kbd>>
    BY DEF Use
  <2> QED
    BY <2>1, UsingLine, Parts DEF Ring, Reading
<1>2. Line' /\ reader'.pc \in {"idle", "check"}
  <2>1. CASE /\ reader.ev.type = "enter" /\ Back(reader.line, "idle")
             /\ screen' = Putchar(screen, Newline)
    <3>1. reader' \in Readers /\ reader'.pc = "idle" /\ FitsTheBuffer'
      BY <1>1, <2>1, BackIsReader
    <3>2. screen' \in Screens
      BY <1>1, <2>1, PutcharIsScreen
    <3> QED
      BY <3>1, <3>2 DEF Line
  <2>2. CASE /\ reader.ev.type = "char" /\ reader.ev.c = FormFeed
             /\ Back(<<FormFeed>>, "idle") /\ UNCHANGED screen
    <3>1. FormFeed \in Chars
      BY <1>1, <2>2 DEF Events, Special
    <3> DEFINE line == <<FormFeed>>
    <3>2. line \in Seq(Chars) /\ Len(line) = 1
      BY <3>1
    <3> HIDE DEF line
    <3>3. Len(line) + 1 <= reader.max /\ Back(line, "idle")
      BY <1>1, <2>2, <3>2 DEF line
    <3>4. reader' \in Readers /\ reader'.pc = "idle" /\ FitsTheBuffer'
      BY <1>1, <3>2, <3>3, BackIsReader
    <3> QED
      BY <1>1, <2>2, <3>4 DEF Line
  <2>3. CASE reader.ev.type = "char" /\ reader.ev.c # FormFeed /\ Store(reader.ev.c)
    <3>1. reader.ev.c \in Chars
      BY <1>1, <2>3 DEF Events, Special
    <3> QED
      BY <1>1, <2>3, <3>1, StoreKeepsLine
  <2>4. CASE reader.ev.type = "backspace" /\ Erase
    BY <1>1, <2>4, EraseKeepsLine
  <2>5. CASE Back(reader.line, "check") /\ UNCHANGED screen
    <3>1. /\ reader' \in Readers /\ reader'.line = reader.line /\ reader'.pc = "check"
          /\ FitsTheBuffer'
      BY <1>1, <2>5, BackIsReader
    <3> QED
      BY <1>1, <2>5, <3>1 DEF Line
  <2> QED
    BY <2>1, <2>2, <2>3, <2>4, <2>5 DEF Use
<1>3. Reading' /\ Hand \in Events /\ Hand' = NoEvent
  BY <1>1, <1>2 DEF Reading, Hand
<1> QED
  BY <1>1, <1>2, <1>3, SameQueue DEF Ring

-----------------------------------------------------------------------------
(***************************************************************************)
(* Every step, as IInv and TypeAhead see it.                               *)
(***************************************************************************)
LEMMA Steps ==
  ASSUME IInv, Next
  PROVE  /\ Keys' /\ Line' /\ Ring'
         /\ \/ Hand' = Hand /\ Queue(kbd)' = Queue(kbd) /\ typed' = typed
            \/ Hand' = Hand /\ \E ev \in Events : Q!Press(ev) /\ WaitsOrIsLost(ev)
            \/ /\ Hand = NoEvent /\ Queue(kbd) # <<>> /\ typed' = typed
               /\ Hand' = Head(Queue(kbd)) /\ Queue(kbd)' = Tail(Queue(kbd))
            \/ /\ Hand # NoEvent /\ Hand' = NoEvent
               /\ Queue(kbd)' = Queue(kbd) /\ typed' = typed
<1>1. ASSUME NEW key \in keys, NEW up \in BOOLEAN, KeyIrq(key, up)
      PROVE  /\ Keys' /\ reader' = Woken /\ UNCHANGED screen
             /\ UNCHANGED <<kbd, typed>> \/ \E ev \in Events : PushKey(ev)
  BY <1>1, KeyIrqSteps
<1>2. CASE (\E key \in keys, up \in BOOLEAN : KeyIrq(key, up)) \/ ByteIrq
  BY <1>1, <1>2, ByteIrqSteps, IrqKeepsRing
<1>3. CASE TimerIrq
  <2>1. reader' = Woken /\ UNCHANGED <<device, screen>> /\ UNCHANGED <<kbd, typed>>
    BY <1>3 DEF TimerIrq, device
  <2> QED
    BY <2>1, DeviceKeepsKeys, IrqKeepsRing
<1>4. CASE \/ \E c \in {Newline, Tab, Prompt} : Write(c)
           \/ Clear
           \/ \E max \in Lengths : StartRead(max)
  <2>1. UNCHANGED <<device, kbd>>
    BY <1>4 DEF Write, Clear, StartRead
  <2> QED
    BY <1>4, <2>1, DeviceKeepsKeys, OutputKeepsLine DEF device
<1>5. CASE Check \/ Halt \/ Copy
  BY <1>5, LookingTakesNothing, DeviceKeepsKeys DEF device
<1>6. CASE Advance
  BY <1>6, AdvanceSteps, DeviceKeepsKeys DEF device
<1>7. CASE Use
  BY <1>7, UseSteps, DeviceKeepsKeys, NoEventIsNoEvent DEF device
<1> QED
  BY <1>2, <1>3, <1>4, <1>5, <1>6, <1>7 DEF Next, Reader

LEMMA StepIsGood == IInv /\ [Next]_vars => IInv'
<1>1. CASE IInv /\ Next
  BY <1>1, Steps, PartsAfter
<1>2. CASE IInv /\ UNCHANGED vars
  <2>1. UNCHANGED <<device, kbd, reader, screen>>
    BY <1>2 DEF vars, device
  <2>2. Keys'
    BY <1>2, <2>1, DeviceKeepsKeys
  <2>3. Line' /\ Ring'
    BY <1>2, <2>1, Parts, SameQueue DEF Line, Ring, Reading, FitsTheBuffer
  <2> QED
    BY <2>2, <2>3, PartsAfter
<1> QED
  BY <1>1, <1>2

(***************************************************************************)
(* The inductive invariant: besides the invariants below it says that the  *)
(* second byte of a key finds extended set, that the reader between the    *)
(* copy and the step of kbd_tail holds the oldest event, and that what the *)
(* ring holds are events.                                                  *)
(***************************************************************************)
THEOREM Invariance == Spec => []IInv
<1> QED
  BY InitIsGood, StepIsGood, PTL DEF Spec

(***************************************************************************)
(* The ring's indices stay in kbd_buf and the cursor on the screen.        *)
(***************************************************************************)
THEOREM TypeCorrectness == Spec => []TypeOK
<1>1. IInv => TypeOK
  BY DEF IInv
<1> QED
  BY <1>1, Invariance, PTL

(***************************************************************************)
(* No modifier stays set when its keys are up (kbd.c:53).                  *)
(***************************************************************************)
THEOREM NoKeySticks == Spec => []ModifiersAreHeld
<1>1. IInv => ModifiersAreHeld
  BY DEF IInv
<1> QED
  BY <1>1, Invariance, PTL

(***************************************************************************)
(* tty_readline writes the line and its end mark inside the caller's       *)
(* buffer, for every size from 2 on (tty.c:84).                            *)
(***************************************************************************)
THEOREM LineFits == Spec => []FitsTheBuffer
<1>1. IInv => FitsTheBuffer
  BY DEF IInv
<1> QED
  BY <1>1, Invariance, PTL

(***************************************************************************)
(* The screen shows the end of the line that is read, for every width.     *)
(***************************************************************************)
THEOREM ScreenShowsTheLine == Spec => []EchoIsTheLine
<1>1. IInv => EchoIsTheLine
  <2> SUFFICES ASSUME IInv, reader.pc # "idle" PROVE EchoIsTheLine
    BY DEF EchoIsTheLine
  <2> DEFINE a == screen.left
             b == reader.line
             m == Min({Len(a), Len(b)})
  <2>1. Agree(a, b) /\ a \in Seq(Shown) /\ b \in Seq(Shown)
    BY Parts DEF Line, Screens, Readers, Shown
  <2> HIDE DEF a, b
  <2>2. Len(a) \in Nat /\ Len(b) \in Nat
    BY <2>1
  <2>3. m \in Nat /\ m <= Len(a) /\ m <= Len(b)
    <3>1. \E x \in {Len(a), Len(b)} : \A y \in {Len(a), Len(b)} : x <= y
      BY <2>2
    <3> QED
      BY <2>2, <3>1 DEF Min
  <2> HIDE DEF m
  <2>4. \A s \in {a, b} : SubSeq(s, Len(s) - m + 1, Len(s)) = [i \in 1..m |-> s[Len(s) - (m - i)]]
    <3> SUFFICES ASSUME NEW s \in {a, b}
                 PROVE  SubSeq(s, Len(s) - m + 1, Len(s)) = [i \in 1..m |-> s[Len(s) - (m - i)]]
      OBVIOUS
    <3> DEFINE n == Len(s)
               p == n - m + 1
    <3>1. n \in Nat /\ m <= n /\ p \in Nat /\ p > 0 /\ n - p + 1 = m
      BY <2>2, <2>3
    <3>2. \A i \in 1..m : p + i - 1 = n - (m - i)
      BY <2>3, <3>1
    <3> HIDE DEF p, n
    <3>3. SubSeq(s, p, n) = [i \in 1..(n - p + 1) |-> s[p + i - 1]]
      BY <3>1
    <3> QED
      BY <3>1, <3>2, <3>3 DEF p, n
  <2>5. \A i \in 1..m : a[Len(a) - (m - i)] = b[Len(b) - (m - i)]
    <3> SUFFICES ASSUME NEW i \in 1..m
                 PROVE  a[Len(a) - (m - i)] = b[Len(b) - (m - i)]
      OBVIOUS
    <3>1. m - i \in Nat /\ m - i < Len(a) /\ m - i < Len(b)
      BY <2>2, <2>3
    <3> QED
      BY <2>1, <3>1 DEF Agree
  <2>6. SubSeq(a, Len(a) - m + 1, Len(a)) = SubSeq(b, Len(b) - m + 1, Len(b))
    BY <2>4, <2>5
  <2> QED
    BY <2>6 DEF EchoIsTheLine, a, b, m
<1> QED
  BY <1>1, Invariance, PTL

(***************************************************************************)
(* For every size of the ring, with kbd_push_key in the middle of          *)
(* kbd_get_key: every event that is pushed waits behind the others unless  *)
(* Size - 1 wait already (kbd.c:17), and each is taken once.               *)
(***************************************************************************)
THEOREM RingIsAQueue == Spec => ImplementsTypeAhead
<1>1. Init => Q!Init
  <2> SUFFICES ASSUME Init PROVE Q!Init
    OBVIOUS
  <2>1. /\ kbd.head = 0 /\ kbd.tail = 0 /\ reader.pc = "idle"
        /\ typed = [ev |-> NoEvent, odd |-> FALSE]
    BY DEF Init
  <2>2. (0 - 0 + Size) % Size = 0
    <3>1. Size \in Nat /\ Size < Size + Size /\ Size > 1
      BY SizeIsNat
    <3>2. Size % Size = 0
      BY <3>1, ModSize
    <3> QED
      BY <3>1, <3>2
  <2>3. Waiting = <<>>
    BY <2>1, <2>2 DEF Waiting
  <2> QED
    BY <2>1, <2>3 DEF Q!Init
<1>2. IInv /\ Next => Q!Next \/ UNCHANGED <<typed, Waiting, Hand>>
  <2> SUFFICES ASSUME IInv, Next PROVE Q!Next \/ UNCHANGED <<typed, Waiting, Hand>>
    OBVIOUS
  <2>1. Waiting = Queue(kbd) /\ Waiting' = Queue(kbd)'
    BY DEF Waiting, Queue, Count
  <2>2. CASE Hand' = Hand /\ Queue(kbd)' = Queue(kbd) /\ typed' = typed
    BY <2>1, <2>2
  <2>3. CASE Hand' = Hand /\ \E ev \in Events : Q!Press(ev) /\ WaitsOrIsLost(ev)
    BY <2>1, <2>3 DEF Q!Next, Q!Type, Q!Lose, WaitsOrIsLost, Hand
  <2>4. CASE /\ Hand = NoEvent /\ Queue(kbd) # <<>> /\ typed' = typed
             /\ Hand' = Head(Queue(kbd)) /\ Queue(kbd)' = Tail(Queue(kbd))
    BY <2>1, <2>4 DEF Q!Next, Q!Take, Hand
  <2>5. CASE /\ Hand # NoEvent /\ Hand' = NoEvent
             /\ Queue(kbd)' = Queue(kbd) /\ typed' = typed
    BY <2>1, <2>5 DEF Q!Next, Q!Use, Hand
  <2> QED
    BY <2>2, <2>3, <2>4, <2>5, Steps
<1>3. IInv /\ [Next]_vars => [Q!Next]_(Q!vars)
  <2>1. CASE IInv /\ Next
    BY <1>2, <2>1 DEF Q!vars, Hand
  <2>2. CASE UNCHANGED vars
    <3>1. UNCHANGED <<typed, Waiting, Hand>>
      BY <2>2 DEF vars, Waiting, Hand
    <3> QED
      BY <3>1 DEF Q!vars, Hand
  <2> QED
    BY <2>1, <2>2
<1> QED
  BY <1>1, <1>3, Invariance, PTL DEF Spec, ImplementsTypeAhead, Q!Spec
=============================================================================
