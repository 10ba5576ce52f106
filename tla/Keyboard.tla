------------------------------ MODULE Keyboard ------------------------------
(***************************************************************************)
(* The PS/2 keyboard driver, kernel/keyboard.c: the interrupt handler      *)
(* decodes scan codes and puts characters into a ring buffer; the kernel   *)
(* thread takes them out with keyboard_getchar (under keyboard_readline),  *)
(* keyboard_try_getchar and keyboard_flush.  The thread runs with          *)
(* interrupts enabled, so every access it makes to the ring is a step of   *)
(* its own; the handler runs to its end.                                   *)
(***************************************************************************)
EXTENDS Integers, Sequences

CONSTANTS KBD_BUF_SIZE,   \* slots of the ring (256 in the code)
          MAX_LEN         \* max_len of keyboard_readline's buffer

ASSUME KeyboardAssumption ==
  /\ KBD_BUF_SIZE \in Nat /\ KBD_BUF_SIZE > 1
  /\ MAX_LEN \in Nat \ {0}

Slots == 0 .. KBD_BUF_SIZE - 1

\* One scan code of each kind the handler tells apart: the extended prefix,
\* shift pressed and released, another release, a letter, newline, backspace,
\* and the code an arrow key sends after the prefix.
Scancodes == {"E0", "shift", "unshift", "release", "letter", "enter", "back", "arrow"}
NUL == "0"
Chars == {"a", "A", "NL", "BS", "KEY_UP"}
Printable == {"a", "A"}

VARIABLES kbd_buf, kbd_head, kbd_tail, shift_down, extended_key,
          pc,        \* where the kernel thread is
          line,      \* what keyboard_readline has collected
          out        \* the character dequeue_char last returned

ring == <<kbd_buf, kbd_head, kbd_tail>>
handler == <<shift_down, extended_key>>
vars == <<ring, handler, pc, line, out>>

\* Outside the driver; in dequeue_char called by readline's getchar or by
\* try_getchar, before the test, the read and the advance; about to halt and
\* halted; in flush before the store to tail and before the last store.
Pcs == {"idle", "test", "take", "advance", "try", "tryTake", "tryAdvance",
        "toHalt", "halted", "flushTail", "flushExt"}

TypeOK ==
  /\ kbd_buf \in [Slots -> Chars \cup {NUL}]
  /\ kbd_head \in Slots
  /\ kbd_tail \in Slots
  /\ shift_down \in BOOLEAN
  /\ extended_key \in BOOLEAN
  /\ pc \in Pcs
  /\ line \in Seq(Printable)
  /\ out \in Chars

\* keyboard_init (out is the local c of the readers, not yet assigned).
Init ==
  /\ kbd_buf = [i \in Slots |-> NUL]
  /\ kbd_head = 0
  /\ kbd_tail = 0
  /\ shift_down = FALSE
  /\ extended_key = FALSE
  /\ pc = "idle"
  /\ line = <<>>
  /\ out \in Chars

Inc(i) == (i + 1) % KBD_BUF_SIZE

-----------------------------------------------------------------------------
(* Interrupts *)

\* The character a press produces: extended_key selects the arrow table,
\* shift_down the map; NUL stands for "none".
Decode(sc) ==
  IF extended_key THEN (IF sc = "arrow" THEN "KEY_UP" ELSE NUL)
  ELSE CASE sc = "letter" -> (IF shift_down THEN "A" ELSE "a")
         [] sc = "enter" -> "NL"
         [] sc = "back" -> "BS"
         [] OTHER -> NUL

\* Mutant: the test for a full ring is missing.
enqueue_char_NoTest(c) ==
  /\ kbd_buf' = [kbd_buf EXCEPT ![kbd_head] = c]
  /\ kbd_head' = Inc(kbd_head)
  /\ UNCHANGED kbd_tail

\* Mutant: one slot too many is kept free.
enqueue_char_OffByOne(c) ==
  IF Inc(kbd_head) = kbd_tail \/ Inc(Inc(kbd_head)) = kbd_tail
  THEN UNCHANGED ring
  ELSE enqueue_char_NoTest(c)

\* enqueue_char: a character that finds the ring full is dropped.
enqueue_char(c) ==
  IF Inc(kbd_head) = kbd_tail
  THEN UNCHANGED ring
  ELSE /\ kbd_buf' = [kbd_buf EXCEPT ![kbd_head] = c]
       /\ kbd_head' = Inc(kbd_head)
       /\ UNCHANGED kbd_tail

\* Any interrupt ends hlt; the thread then tests the ring again.
Wake == pc' = IF pc = "halted" THEN "test" ELSE pc

\* keyboard_irq_handler for one scan code.
KeyIRQ(sc) ==
  /\ extended_key' = (sc = "E0")
  /\ shift_down' = CASE sc = "shift" -> TRUE
                     [] sc = "unshift" -> FALSE
                     [] OTHER -> shift_down
  /\ IF sc \in {"E0", "shift", "unshift", "release"} \/ Decode(sc) = NUL
     THEN UNCHANGED ring ELSE enqueue_char(Decode(sc))
  /\ Wake
  /\ UNCHANGED <<line, out>>

\* Mutant: IRQ0 is masked.
TimerIRQ_Masked == FALSE /\ UNCHANGED vars

\* IRQ0, which touches nothing of the keyboard but ends hlt.
TimerIRQ == pc = "halted" /\ Wake /\ UNCHANGED <<ring, handler, line, out>>

-----------------------------------------------------------------------------
(* The kernel thread *)

\* keyboard_readline: i = 0, then the first keyboard_getchar.
ReadlineCall ==
  /\ pc = "idle"
  /\ pc' = "test"
  /\ line' = <<>>
  /\ UNCHANGED <<ring, handler, out>>

TryCall == pc = "idle" /\ pc' = "try" /\ UNCHANGED <<ring, handler, line, out>>

\* dequeue_char: the test for an empty ring.  getchar goes on to halt, and
\* try_getchar returns 0.
DequeueTest ==
  /\ \/ pc = "test" /\ pc' = IF kbd_head = kbd_tail THEN "toHalt" ELSE "take"
     \/ pc = "try" /\ pc' = IF kbd_head = kbd_tail THEN "idle" ELSE "tryTake"
  /\ UNCHANGED <<ring, handler, line, out>>

\* *out = kbd_buf[kbd_tail]
DequeueTake ==
  /\ \/ pc = "take" /\ pc' = "advance"
     \/ pc = "tryTake" /\ pc' = "tryAdvance"
  /\ out' = kbd_buf[kbd_tail]
  /\ UNCHANGED <<ring, handler, line>>

\* Mutant: readline forgets the byte for the terminator.
DequeueAdvance_NoTerminator ==
  /\ kbd_tail' = Inc(kbd_tail)
  /\ \/ /\ pc = "tryAdvance"
        /\ pc' = "idle"
        /\ UNCHANGED line
     \/ /\ pc = "advance"
        /\ pc' = IF out = "NL" THEN "idle" ELSE "test"
        /\ line' = IF Len(line) < MAX_LEN /\ out \in Printable
                   THEN Append(line, out) ELSE line
  /\ UNCHANGED <<kbd_buf, kbd_head, handler, out>>

\* kbd_tail = (kbd_tail + 1) % KBD_BUF_SIZE, after which readline handles the
\* character: newline ends the line, backspace erases, a printable one is
\* stored while there is room for it and the terminator.
DequeueAdvance ==
  /\ kbd_tail' = Inc(kbd_tail)
  /\ \/ /\ pc = "tryAdvance"
        /\ pc' = "idle"
        /\ UNCHANGED line
     \/ /\ pc = "advance"
        /\ pc' = IF out = "NL" THEN "idle" ELSE "test"
        /\ line' = IF out = "BS" /\ line # <<>>
                   THEN SubSeq(line, 1, Len(line) - 1)
                   ELSE IF Len(line) + 1 < MAX_LEN /\ out \in Printable
                   THEN Append(line, out) ELSE line
  /\ UNCHANGED <<kbd_buf, kbd_head, handler, out>>

\* sti; hlt: interrupts are off between the two, but were on before them.
Halt == pc = "toHalt" /\ pc' = "halted" /\ UNCHANGED <<ring, handler, line, out>>

\* keyboard_flush: three stores.
FlushHead ==
  /\ pc = "idle"
  /\ pc' = "flushTail"
  /\ kbd_head' = 0
  /\ UNCHANGED <<kbd_buf, kbd_tail, handler, line, out>>

FlushTail ==
  /\ pc = "flushTail"
  /\ pc' = "flushExt"
  /\ kbd_tail' = 0
  /\ UNCHANGED <<kbd_buf, kbd_head, handler, line, out>>

FlushExt ==
  /\ pc = "flushExt"
  /\ pc' = "idle"
  /\ extended_key' = FALSE
  /\ UNCHANGED <<ring, shift_down, line, out>>

-----------------------------------------------------------------------------
Thread == \/ DequeueTest \/ DequeueTake \/ DequeueAdvance \/ Halt
          \/ FlushTail \/ FlushExt

Next ==
  \/ \E sc \in Scancodes : KeyIRQ(sc)
  \/ TimerIRQ
  \/ ReadlineCall \/ TryCall \/ FlushHead
  \/ Thread

Spec == Init /\ [][Next]_vars

\* The CPU goes on executing the driver's code, and the timer, which runs at
\* 100 Hz from boot, goes on ending hlt.
FairSpec == Spec /\ WF_vars(Thread) /\ WF_vars(TimerIRQ)

-----------------------------------------------------------------------------
(* The abstract queue *)

\* Where the oldest character is: tail, one past it once the character has
\* been read, 0 once flush has reset head.
First == CASE pc \in {"advance", "tryAdvance"} -> Inc(kbd_tail)
           [] pc = "flushTail" -> 0
           [] OTHER -> kbd_tail

Count == IF kbd_head >= First THEN kbd_head - First
         ELSE kbd_head + KBD_BUF_SIZE - First

SlotAt(i) == IF First + i >= KBD_BUF_SIZE THEN First + i - KBD_BUF_SIZE
             ELSE First + i

Contents == [i \in 1 .. Count |-> kbd_buf[SlotAt(i - 1)]]

Mode == IF pc \in {"flushTail", "flushExt"} THEN "clearing" ELSE "open"

Queue == INSTANCE CharQueue
           WITH Capacity <- KBD_BUF_SIZE - 1, q <- Contents, mode <- Mode

-----------------------------------------------------------------------------
(* Properties *)

\* Whatever the interrupts interleave with, the ring is a bounded FIFO queue:
\* every reader gets the characters in the order they were typed, none twice,
\* none invented (enqueue_char, dequeue_char, keyboard_flush).
ImplementsQueue == Queue!QSpec

\* A character is dropped only when KBD_BUF_SIZE - 1 others are waiting, the
\* one a reader has read but not yet removed included, or while
\* keyboard_flush is between its stores (enqueue_char).
DroppedOnlyWhenFull ==
  [][\A sc \in {"letter", "enter", "back"} :
       KeyIRQ(sc) /\ ~extended_key /\ pc # "flushTail" =>
         \/ Len(Contents') = Len(Contents) + 1
         \/ Len(Contents) = KBD_BUF_SIZE - 1
         \/ Len(Contents) = KBD_BUF_SIZE - 2 /\ pc \in {"advance", "tryAdvance"}
    ]_vars

\* keyboard_readline leaves room for the terminating NUL.
LineFits == Len(line) < MAX_LEN

\* A thread that waits in keyboard_getchar gets a character that is there: it
\* never sleeps for ever beside a full ring (the test, sti and hlt).
PendingKeyIsRead ==
  pc \in {"toHalt", "halted"} /\ kbd_head # kbd_tail ~> pc = "take"

\* "Enable interrupts and halt atomically to avoid race condition": no
\* interrupt arrives between the test and hlt, so the CPU never halts with a
\* character in the ring.
NoHaltWithPendingKey == [][Halt => kbd_head = kbd_tail]_vars
=============================================================================
