------------------------------ MODULE Console ------------------------------
(***************************************************************************)
(* The keyboard, kernel/drivers/kbd/kbd.c, and the terminal that reads a   *)
(* line from it, kernel/drivers/term/tty.c.  SYS_READ runs with interrupts *)
(* on: the handler of the keyboard comes between any two steps of the      *)
(* reader, which shares the ring kbd_buf with it without any lock.         *)
(***************************************************************************)
EXTENDS Integers, Sequences, SequencesExt, FiniteSetsExt

CONSTANTS
  Size,        \* KBD_BUF_SIZE
  Cols, Lines, \* the size of the screen
  Lengths,     \* the sizes of the buffers that lines are read into
  Keyboards    \* sets of keys that a user may use

ASSUME ConsoleAssumption ==
  /\ Size \in Nat \ {0, 1} /\ Cols \in Nat \ {0} /\ Lines \in Nat \ {0}
  /\ Lengths \subseteq Nat \ {0, 1} /\ Lengths # {}

Shifts   == {"left shift", "right shift"}
Extended == {"right ctrl", "arrow"}   \* 0xE0 comes before their codes
Held     == Shifts \cup Extended \cup {"ctrl"}   \* keys whose release matters
Special  == {"enter", "backspace", "tab", "esc"}
Letters  == (UNION Keyboards) \ (Held \cup Special)

\* Control characters are what Ctrl makes of letters.
Newline   == <<"j", "ctrl">>
Backspace == <<"h", "ctrl">>
Tab       == <<"i", "ctrl">>
Return    == <<"m", "ctrl">>
FormFeed  == <<"l", "ctrl">>
Blank     == <<" ", "small">>
Prompt    == <<">", "small">>

Chars == (Letters \X {"small", "capital", "ctrl"}) \ {Newline, Backspace, Tab}
Char(c) == [type |-> "char", c |-> c]
Key(t)  == [type |-> t]
NoEvent == [type |-> "none"]

VARIABLES
  keys,    \* the keys this user uses
  down,    \* those that are held down
  wire,    \* the bytes the keyboard has yet to send
  flags,   \* shift, ctrl, extended
  kbd,     \* kbd_buf, kbd_head, kbd_tail
  typed,   \* history: what kbd_push_key was called with last
  reader,  \* where tty_readline is, its event, its line and its max
  screen   \* what stands to the left of the cursor, and cursor_y

vars == <<keys, down, wire, flags, kbd, typed, reader, screen>>
device == <<keys, down, wire, flags, typed>>

Init ==
  /\ keys \in Keyboards /\ down = {} /\ wire = <<>>
  /\ flags = [shift |-> FALSE, ctrl |-> FALSE, extended |-> FALSE]
  /\ kbd = [buf |-> [i \in 0..(Size - 1) |-> NoEvent], head |-> 0, tail |-> 0]
  /\ typed = [ev |-> NoEvent, odd |-> FALSE]
  /\ reader = [pc |-> "idle", ev |-> NoEvent, line |-> <<>>, max |-> CHOOSE n \in Lengths : TRUE]
  /\ screen = [left |-> <<>>, y |-> 0]

-----------------------------------------------------------------------------
\* Mutant of Push: the ring counts as full when one more key has room.
PushGivesUpEarly(k, ev) ==
  IF (k.head + 2) % Size = k.tail THEN k
  ELSE [k EXCEPT !.buf[k.head] = ev, !.head = (k.head + 1) % Size]

\* kbd_push_key
Push(k, ev) ==
  IF (k.head + 1) % Size = k.tail THEN k
  ELSE [k EXCEPT !.buf = [k.buf EXCEPT ![k.head] = ev], !.head = (k.head + 1) % Size]

\* The event of a key: the letters are told apart from the controls they
\* make, of which three are keys of their own.
Event(key) ==
  IF key \in Special THEN Key(key)
  ELSE IF ~ flags.ctrl THEN Char(<<key, IF flags.shift THEN "capital" ELSE "small">>)
  ELSE IF key = "h" THEN Key("backspace")
  ELSE IF key = "i" THEN Key("tab")
  ELSE IF key = "j" THEN Key("enter")
  ELSE Char(<<key, "ctrl">>)

\* Mutant of Released: only the left shift is looked at.
ReleasedLeft(code) ==
  [flags EXCEPT !.shift = flags.shift /\ code # "left shift",
                !.ctrl  = flags.ctrl /\ code # "ctrl"]

\* flags after the byte of a release; extended stays as it is.
Released(code) ==
  [flags EXCEPT !.shift = flags.shift /\ code \notin Shifts,
                !.ctrl  = flags.ctrl /\ code # "ctrl"]

\* A call of kbd_push_key.  Every call leaves its trace in typed, whether the
\* ring takes the event or not; odd tells two calls with one event apart.
PushKey(ev) ==
  /\ kbd' = Push(kbd, ev)
  /\ typed' = [ev |-> ev, odd |-> ~ typed.odd]

\* keyboard_handler with the byte sc.
Handler(sc) ==
  \/ /\ sc.code = "E0"
     /\ flags' = [flags EXCEPT !.extended = TRUE]
     /\ UNCHANGED <<kbd, typed>>
  \/ /\ sc.code # "E0" /\ sc.up
     /\ flags' = Released(sc.code)
     /\ UNCHANGED <<kbd, typed>>
  \/ /\ sc.code # "E0" /\ ~ sc.up /\ flags.extended
     /\ flags' = [flags EXCEPT !.extended = FALSE]
     /\ UNCHANGED <<kbd, typed>>
  \/ /\ sc.code \in Shifts \cup {"ctrl"} /\ ~ sc.up /\ ~ flags.extended
     /\ flags' = [flags EXCEPT !.shift = @ \/ sc.code \in Shifts, !.ctrl = @ \/ sc.code = "ctrl"]
     /\ UNCHANGED <<kbd, typed>>
  \/ /\ sc.code \notin Held \cup {"E0"} /\ ~ sc.up /\ ~ flags.extended
     /\ PushKey(Event(sc.code))
     /\ UNCHANGED flags

\* Any interrupt ends a hlt.
Woken == [reader EXCEPT !.pc = IF @ = "halted" THEN "check" ELSE @]

\* The right ctrl has the code of the left one.
Code(key) == IF key = "right ctrl" THEN "ctrl" ELSE key

\* A key goes down or up and the handler gets its first byte.  A key that is
\* held repeats; the release of a letter does nothing.
KeyIrq(key, up) ==
  /\ wire = <<>>
  /\ up => key \in down
  /\ down' = IF up THEN down \ {key} ELSE down \cup ({key} \cap Held)
  /\ IF key \in Extended
       THEN /\ wire' = <<[code |-> Code(key), up |-> up]>>
            /\ Handler([code |-> "E0", up |-> FALSE])
       ELSE /\ wire' = <<>>
            /\ Handler([code |-> key, up |-> up])
  /\ reader' = Woken
  /\ UNCHANGED <<keys, screen>>

\* The second byte of an extended key.
ByteIrq ==
  /\ wire # <<>>
  /\ wire' = Tail(wire)
  /\ Handler(Head(wire))
  /\ reader' = Woken
  /\ UNCHANGED <<keys, down, screen>>

\* Mutant of TimerIrq: the timer does not end a hlt.
TimerIrqAsleep == reader.pc = "halted" /\ UNCHANGED vars

\* The timer, 100 times a second, whoever runs.
TimerIrq ==
  /\ reader.pc = "halted"
  /\ reader' = Woken
  /\ UNCHANGED <<device, kbd, screen>>

-----------------------------------------------------------------------------
NextLine(t) == [left |-> <<>>, y |-> IF t.y + 1 >= Lines THEN t.y ELSE t.y + 1]

\* Mutant of Draw: the cursor goes one past the last column.
DrawPastTheEdge(t, c) ==
  IF Len(t.left) >= Cols THEN NextLine(t) ELSE [t EXCEPT !.left = Append(@, c)]

Draw(t, c) ==
  IF Len(t.left) + 1 >= Cols THEN NextLine(t) ELSE [t EXCEPT !.left = Append(@, c)]

\* tty_putchar
Putchar(t, c) ==
  LET x   == Len(t.left)
      tab == (x \div 4 + 1) * 4
  IN  CASE c = Newline   -> NextLine(t)
        [] c = Return    -> [t EXCEPT !.left = <<>>]
        [] c = Backspace -> IF x > 0 THEN [t EXCEPT !.left = Front(@)] ELSE t
        [] c = Tab       -> IF tab >= Cols THEN NextLine(t)
                            ELSE [t EXCEPT !.left = @ \o [i \in 1..(tab - x) |-> Blank]]
        [] OTHER         -> Draw(t, c)

\* A program writes to the terminal: its prompt, for one.
Write(c) ==
  /\ reader.pc = "idle"
  /\ screen' = Putchar(screen, c)
  /\ UNCHANGED <<device, kbd, reader>>

\* SYS_CLEAR, tty_clear
Clear ==
  /\ reader.pc = "idle"
  /\ screen' = [left |-> <<>>, y |-> 0]
  /\ UNCHANGED <<device, kbd, reader>>

\* SYS_READ
StartRead(max) ==
  /\ reader.pc = "idle"
  /\ reader' = [pc |-> "check", ev |-> NoEvent, line |-> <<>>, max |-> max]
  /\ UNCHANGED <<device, kbd, screen>>

\* kbd_get_key, and the hlt after it when there was no key.
Check ==
  /\ reader.pc = "check"
  /\ reader' = [reader EXCEPT !.pc = IF kbd.head = kbd.tail THEN "empty" ELSE "copy"]
  /\ UNCHANGED <<device, kbd, screen>>

Halt ==
  /\ reader.pc = "empty"
  /\ reader' = [reader EXCEPT !.pc = "halted"]
  /\ UNCHANGED <<device, kbd, screen>>

Copy ==
  /\ reader.pc = "copy"
  /\ reader' = [reader EXCEPT !.pc = "advance", !.ev = kbd.buf[kbd.tail]]
  /\ UNCHANGED <<device, kbd, screen>>

Advance ==
  /\ reader.pc = "advance"
  /\ reader' = [reader EXCEPT !.pc = "use"]
  /\ kbd' = [kbd EXCEPT !.tail = (@ + 1) % Size]
  /\ UNCHANGED <<device, screen>>

Back(line, pc) == reader' = [reader EXCEPT !.pc = pc, !.ev = NoEvent, !.line = line]

\* Mutant of Store: a character that does not fit is shown all the same.
StoreShowsAll(c) ==
  /\ IF Len(reader.line) < reader.max - 1
       THEN Back(Append(reader.line, c), "check")
       ELSE Back(reader.line, "check")
  /\ screen' = Putchar(screen, c)

\* Mutant of Store: the place of the end mark is taken.
StoreToTheEnd(c) ==
  IF Len(reader.line) < reader.max
    THEN /\ Back(Append(reader.line, c), "check")
         /\ screen' = Putchar(screen, c)
    ELSE Back(reader.line, "check") /\ UNCHANGED screen

\* A character, which is dropped when there is no room for it.
Store(c) ==
  IF Len(reader.line) < reader.max - 1
    THEN /\ Back(Append(reader.line, c), "check")
         /\ screen' = Putchar(screen, c)
    ELSE Back(reader.line, "check") /\ UNCHANGED screen

Erase ==
  IF reader.line # <<>>
    THEN Back(Front(reader.line), "check") /\ screen' = Putchar(screen, Backspace)
    ELSE Back(reader.line, "check") /\ UNCHANGED screen

\* tty_readline with one event; the line is kept when it returns.
Use ==
  /\ reader.pc = "use"
  /\ \/ /\ reader.ev.type = "enter"
        /\ Back(reader.line, "idle")
        /\ screen' = Putchar(screen, Newline)
     \/ /\ reader.ev.type = "char" /\ reader.ev.c = FormFeed
        /\ Back(<<FormFeed>>, "idle")
        /\ UNCHANGED screen
     \/ /\ reader.ev.type = "char" /\ reader.ev.c # FormFeed
        /\ Store(reader.ev.c)
     \/ /\ reader.ev.type = "backspace"
        /\ Erase
     \/ /\ reader.ev.type \notin {"enter", "char", "backspace"}
        /\ Back(reader.line, "check")
        /\ UNCHANGED screen
  /\ UNCHANGED <<device, kbd>>

Reader == Check \/ Halt \/ Copy \/ Advance \/ Use

Next ==
  \/ \E key \in keys, up \in BOOLEAN : KeyIrq(key, up)
  \/ ByteIrq
  \/ TimerIrq
  \/ \E c \in {Newline, Tab, Prompt} : Write(c)
  \/ Clear
  \/ \E max \in Lengths : StartRead(max)
  \/ Reader

\* The timer goes on, and the scheduler comes back to the reader.
Spec == Init /\ [][Next]_vars /\ WF_vars(TimerIrq) /\ WF_vars(Reader)

-----------------------------------------------------------------------------
Events == [type : {"char"}, c : Chars] \cup [type : Special]

TypeOK ==
  /\ keys \in Keyboards /\ down \subseteq keys \cap Held
  /\ wire \in Seq([code : {"ctrl", "arrow"}, up : BOOLEAN]) /\ Len(wire) <= 1
  /\ flags \in [shift : BOOLEAN, ctrl : BOOLEAN, extended : BOOLEAN]
  /\ kbd \in [buf : [0..(Size - 1) -> Events \cup {NoEvent}],
              head : 0..(Size - 1), tail : 0..(Size - 1)]
  /\ typed \in [ev : Events \cup {NoEvent}, odd : BOOLEAN]
  /\ reader \in [pc : {"idle", "check", "empty", "halted", "copy", "advance", "use"},
                 ev : Events \cup {NoEvent}, line : Seq(Chars), max : Lengths]
  /\ screen \in [left : Seq(Chars \cup {Blank, Prompt}), y : 0..(Lines - 1)]
  /\ Len(screen.left) < Cols

(***************************************************************************)
(* shift and ctrl are set only while such a key is down, whatever keys     *)
(* with two bytes come in between: no key stays pressed.                   *)
(***************************************************************************)
ModifiersAreHeld ==
  /\ flags.shift => down \cap Shifts # {}
  /\ flags.ctrl => "ctrl" \in down

(***************************************************************************)
(* tty_readline stays in the buffer of its caller: the line and its end    *)
(* mark fit.                                                               *)
(***************************************************************************)
FitsTheBuffer == Len(reader.line) + 1 <= reader.max

(***************************************************************************)
(* What stands to the left of the cursor is the end of the line that is    *)
(* being read, after wraps, returns and erasures too.                      *)
(***************************************************************************)
EchoIsTheLine ==
  reader.pc # "idle" =>
    LET shown == Min({Len(screen.left), Len(reader.line)})
        Ends(s) == SubSeq(s, Len(s) - shown + 1, Len(s))
    IN  Ends(screen.left) = Ends(reader.line)

\* The events in the ring, the oldest first.
Waiting == [i \in 1..((kbd.head - kbd.tail + Size) % Size) |->
              kbd.buf[(kbd.tail + i - 1) % Size]]

Q == INSTANCE TypeAhead WITH
       Room <- Size - 1, waiting <- Waiting,
       hand <- IF reader.pc = "use" THEN reader.ev ELSE NoEvent

(***************************************************************************)
(* The ring and the steps of kbd_get_key are a queue, although the handler *)
(* comes between any two of them: every event that kbd_push_key is called  *)
(* with waits behind the others, and it is lost only when Size - 1 wait    *)
(* (kbd.c:17); each that waits is taken once, in order.                    *)
(***************************************************************************)
ImplementsTypeAhead == Q!Spec

(***************************************************************************)
(* A key that waits while a line is read is taken, even if it came between *)
(* the test of the ring and the hlt and no other key comes after it.       *)
(***************************************************************************)
KeysAreTaken == (reader.pc # "idle" /\ Waiting # <<>>) ~> (reader.pc = "use")
=============================================================================
