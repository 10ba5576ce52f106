--------------------------- MODULE KeyboardProofs ---------------------------
(***************************************************************************)
(* Proofs about Keyboard, for every ring size: type correctness, room for  *)
(* the terminator of a line, and the refinement of the abstract queue; and *)
(* about Console, which keyboard_readline echoes to, for every size of the *)
(* screen: what stands on the screen is what was printed and typed.        *)
(***************************************************************************)
EXTENDS Keyboard, Console, SequenceTheorems, TLAPS

\* A reader that has passed the test has a character to take.
HasCharacter ==
  pc \in {"take", "advance", "tryTake", "tryAdvance"} => kbd_head # kbd_tail

\* Between flush's stores the handler fills the ring from slot 0 and stops
\* below the old tail.
FlushBelow == pc = "flushTail" => kbd_tail = 0 \/ kbd_head < kbd_tail

\* The slots that hold the queue hold characters.
InQueue(j) == IF First <= kbd_head THEN First <= j /\ j < kbd_head
              ELSE First <= j \/ j < kbd_head
Filled == \A j \in Slots : InQueue(j) => kbd_buf[j] \in Chars

Inv == TypeOK /\ HasCharacter /\ FlushBelow /\ Filled

-----------------------------------------------------------------------------
\* The next index, by cases instead of by the remainder.
LEMMA IncCases ==
  ASSUME NEW i \in Slots
  PROVE  Inc(i) = (IF i = KBD_BUF_SIZE - 1 THEN 0 ELSE i + 1) /\ Inc(i) \in Slots
<1>1. KBD_BUF_SIZE \in Nat /\ KBD_BUF_SIZE > 1
  BY KeyboardAssumption
<1>2. Inc(i) = IF i = KBD_BUF_SIZE - 1 THEN 0 ELSE i + 1
  BY <1>1, Z3 DEF Inc, Slots
<1> QED
  BY <1>1, <1>2 DEF Slots

\* What the handler decodes is a character or nothing.
LEMMA DecodeType ==
  ASSUME NEW sc \in Scancodes, Decode(sc) # NUL
  PROVE  Decode(sc) \in Chars
  BY DEF Decode, Chars, NUL

\* The oldest character's slot is a slot of the ring.
LEMMA FirstType ==
  ASSUME TypeOK
  PROVE  First \in Slots
<1>1. 0 \in Slots
  BY KeyboardAssumption DEF Slots
<1> QED
  BY <1>1, IncCases DEF First, TypeOK

\* The two outcomes of a key interrupt for the ring: nothing, or one character
\* stored at head with a free slot after it.
LEMMA KeyCases ==
  ASSUME TypeOK, NEW sc \in Scancodes, KeyIRQ(sc)
  PROVE  \/ UNCHANGED ring
         \/ \E c \in Chars :
              /\ Inc(kbd_head) # kbd_tail
              /\ kbd_buf' = [kbd_buf EXCEPT ![kbd_head] = c]
              /\ kbd_head' = Inc(kbd_head)
              /\ kbd_tail' = kbd_tail
  BY DecodeType DEF KeyIRQ, enqueue_char

\* Storing a character and waking the thread keep the oldest slot.
LEMMA WakeFirst ==
  ASSUME Wake, UNCHANGED kbd_tail
  PROVE  First' = First /\ Mode' = Mode
  BY DEF Wake, First, Mode, Inc

-----------------------------------------------------------------------------
\* Every step of the driver and of the reader keeps the types, given that the
\* slots of the queue hold characters.
LEMMA TypeStep == Inv /\ [Next]_vars => TypeOK'
<1> SUFFICES ASSUME Inv, [Next]_vars
             PROVE  TypeOK'
  OBVIOUS
<1> USE DEF Inv
<1>0. 0 \in Slots
  BY KeyboardAssumption DEF Slots
<1>1. ASSUME NEW sc \in Scancodes, KeyIRQ(sc)
      PROVE  TypeOK'
  <2>1. shift_down' \in BOOLEAN /\ extended_key' \in BOOLEAN
    BY <1>1 DEF KeyIRQ, TypeOK
  <2>2. pc' \in Pcs
    BY <1>1 DEF KeyIRQ, Wake, Pcs, TypeOK
  <2>3. kbd_buf' \in [Slots -> Chars \cup {NUL}] /\ kbd_head' \in Slots /\ kbd_tail' \in Slots
    BY <1>1, KeyCases, IncCases DEF TypeOK, ring
  <2> QED
    BY <1>1, <2>1, <2>2, <2>3 DEF KeyIRQ, TypeOK
<1>2. CASE TimerIRQ
  BY <1>2 DEF TimerIRQ, Wake, TypeOK, Pcs, ring, handler
<1>3. CASE ReadlineCall
  BY <1>3 DEF ReadlineCall, TypeOK, Pcs, ring, handler
<1>4. CASE TryCall
  BY <1>4 DEF TryCall, TypeOK, Pcs, ring, handler
<1>5. CASE FlushHead
  BY <1>0, <1>5 DEF FlushHead, TypeOK, Pcs, handler
<1>6. CASE DequeueTest
  BY <1>6 DEF DequeueTest, TypeOK, Pcs, ring, handler
<1>7. CASE DequeueTake
  <2>1. kbd_buf[kbd_tail] \in Chars
    BY <1>7, FirstType DEF DequeueTake, Filled, InQueue, First, HasCharacter, TypeOK, Slots
  <2> QED
    BY <1>7, <2>1 DEF DequeueTake, TypeOK, Pcs, ring, handler
<1>8. CASE DequeueAdvance
  <2>1. line' \in Seq(Printable)
    <3>1. line # <<>> => SubSeq(line, 1, Len(line) - 1) \in Seq(Printable)
      <4>1. Len(line) \in Nat /\ \A i \in 1 .. Len(line) - 1 : line[i] \in Printable
        BY LenProperties DEF TypeOK
      <4> QED
        BY <4>1, SubSeqProperties
    <3>2. out \in Printable => Append(line, out) \in Seq(Printable)
      BY DEF TypeOK
    <3> QED
      BY <1>8, <3>1, <3>2 DEF DequeueAdvance, TypeOK
  <2>2. pc' \in Pcs
    BY <1>8 DEF DequeueAdvance, Pcs
  <2> QED
    BY <1>8, <2>1, <2>2, IncCases DEF DequeueAdvance, TypeOK, handler
<1>9. CASE Halt
  BY <1>9 DEF Halt, TypeOK, Pcs, ring, handler
<1>10. CASE FlushTail
  BY <1>0, <1>10 DEF FlushTail, TypeOK, Pcs, handler
<1>11. CASE FlushExt
  BY <1>11 DEF FlushExt, TypeOK, Pcs, ring
<1>12. CASE UNCHANGED vars
  BY <1>12 DEF vars, ring, handler, TypeOK
<1> QED
  BY <1>1, <1>2, <1>3, <1>4, <1>5, <1>6, <1>7, <1>8, <1>9, <1>10, <1>11, <1>12
     DEF Next, Thread

\* The ring keeps its shape: no reader is left without its character and no
\* slot of the queue holds anything else.
LEMMA ShapeStep == Inv /\ [Next]_vars => (HasCharacter /\ FlushBelow /\ Filled)'
<1> SUFFICES ASSUME Inv, [Next]_vars
             PROVE  (HasCharacter /\ FlushBelow /\ Filled)'
  OBVIOUS
<1> USE DEF Inv
<1>a. KBD_BUF_SIZE \in Nat /\ KBD_BUF_SIZE > 1
  BY KeyboardAssumption
<1>b. kbd_head \in Slots /\ kbd_tail \in Slots /\ First \in Slots
  BY FirstType DEF TypeOK
<1>c. \A i \in Slots : Inc(i) = IF i = KBD_BUF_SIZE - 1 THEN 0 ELSE i + 1
  BY IncCases
<1>1. ASSUME NEW sc \in Scancodes, KeyIRQ(sc)
      PROVE  (HasCharacter /\ FlushBelow /\ Filled)'
  <2>1. kbd_tail' = kbd_tail /\ Wake
    BY <1>1 DEF KeyIRQ, enqueue_char, ring
  <2>2. First' = First
    BY <2>1, WakeFirst
  <2>3. CASE UNCHANGED ring
    BY <2>1, <2>2, <2>3 DEF HasCharacter, FlushBelow, Filled, InQueue, Wake, ring
  <2>4. ASSUME NEW c \in Chars, Inc(kbd_head) # kbd_tail,
               kbd_buf' = [kbd_buf EXCEPT ![kbd_head] = c],
               kbd_head' = Inc(kbd_head)
        PROVE  (HasCharacter /\ FlushBelow /\ Filled)'
    <3>1. HasCharacter' /\ FlushBelow'
      BY <1>a, <1>b, <1>c, <2>1, <2>4 DEF HasCharacter, FlushBelow, Wake, Slots
    <3>2. Inc(kbd_head) # First
      BY <1>a, <1>b, <1>c, <2>4 DEF First, HasCharacter, FlushBelow, Slots
    <3>3. ASSUME NEW j \in Slots, InQueue(j)'
          PROVE  j = kbd_head \/ InQueue(j)
      BY <1>a, <1>b, <1>c, <2>2, <2>4, <3>2, <3>3 DEF InQueue, Slots
    <3>4. Filled'
      BY <1>b, <2>4, <3>3 DEF Filled, TypeOK
    <3> QED
      BY <3>1, <3>4
  <2> QED
    BY <1>1, <2>3, <2>4, KeyCases
<1>2. CASE TimerIRQ
  BY <1>2, WakeFirst DEF TimerIRQ, Wake, ring, HasCharacter, FlushBelow, Filled, InQueue
<1>3. CASE ReadlineCall \/ TryCall \/ DequeueTest \/ Halt \/ FlushExt
  <2>1. First' = First
    BY <1>3 DEF ReadlineCall, TryCall, DequeueTest, Halt, FlushExt, ring, First, Inc
  <2> QED
    BY <1>3, <2>1 DEF ReadlineCall, TryCall, DequeueTest, Halt, FlushExt, ring,
                      HasCharacter, FlushBelow, Filled, InQueue
<1>4. CASE FlushHead
  BY <1>4, <1>a, <1>b DEF FlushHead, HasCharacter, FlushBelow, Filled, InQueue, First, Slots
<1>5. CASE DequeueTake
  <2>1. First = kbd_tail /\ First' = Inc(kbd_tail)
    BY <1>5 DEF DequeueTake, First, ring, Inc
  <2>2. \A j \in Slots : InQueue(j)' => InQueue(j)
    BY <1>5, <1>a, <1>b, <1>c, <2>1 DEF DequeueTake, ring, InQueue, HasCharacter, Slots
  <2> QED
    BY <1>5, <2>2 DEF DequeueTake, ring, HasCharacter, FlushBelow, Filled
<1>6. CASE DequeueAdvance
  <2>1. First' = First
    BY <1>6 DEF DequeueAdvance, First, Inc
  <2> QED
    BY <1>6, <2>1 DEF DequeueAdvance, HasCharacter, FlushBelow, Filled, InQueue
<1>7. CASE FlushTail
  <2>1. First' = First
    BY <1>7 DEF FlushTail, First
  <2> QED
    BY <1>7, <2>1 DEF FlushTail, HasCharacter, FlushBelow, Filled, InQueue
<1>8. CASE UNCHANGED vars
  BY <1>8 DEF vars, ring, HasCharacter, FlushBelow, Filled, InQueue, First, Inc
<1> QED
  BY <1>1, <1>2, <1>3, <1>4, <1>5, <1>6, <1>7, <1>8 DEF Next, Thread

\* After keyboard_init the ring is empty and the inductive invariant holds.
LEMMA InvInit == Init => Inv
<1> SUFFICES ASSUME Init
             PROVE  Inv
  OBVIOUS
<1>1. 0 \in Slots
  BY KeyboardAssumption DEF Slots
<1>2. TypeOK
  BY <1>1 DEF Init, TypeOK, Pcs
<1>3. HasCharacter /\ FlushBelow /\ Filled
  BY DEF Init, HasCharacter, FlushBelow, Filled, InQueue, First, Slots
<1> QED
  BY <1>2, <1>3 DEF Inv

\* The state variables keep their types; in particular a reader never gets
\* the content of a slot that no key was stored in.
THEOREM TypeCorrect == Spec => []TypeOK
<1>1. Inv => TypeOK
  BY DEF Inv
<1>2. Inv /\ [Next]_vars => Inv'
  BY TypeStep, ShapeStep DEF Inv
<1> QED
  BY <1>1, <1>2, InvInit, PTL DEF Spec

\* keyboard_readline never writes past the buffer its caller gave it: the
\* line and its terminator fit in MAX_LEN bytes, whatever is typed.
THEOREM LineAlwaysFits == Spec => []LineFits
<1>1. Init => LineFits
  BY KeyboardAssumption DEF Init, LineFits
<1>2. Inv /\ LineFits /\ [Next]_vars => LineFits'
  <2> SUFFICES ASSUME Inv, LineFits, [Next]_vars
               PROVE  LineFits'
    OBVIOUS
  <2>1. CASE DequeueAdvance
    <3>1. Len(line) \in Nat /\ line \in Seq(Printable)
      BY DEF Inv, TypeOK
    <3>2. line # <<>> => Len(SubSeq(line, 1, Len(line) - 1)) = Len(line) - 1
      <4>1. \A i \in 1 .. Len(line) - 1 : line[i] \in Printable
        BY <3>1, LenProperties
      <4> DEFINE front == SubSeq(line, 1, Len(line) - 1)
      <4>2. Len(front) = IF 1 <= Len(line) - 1 THEN (Len(line) - 1) - 1 + 1 ELSE 0
        BY <3>1, <4>1, SubSeqProperties
      <4> HIDE DEF front
      <4>3. line # <<>> => Len(line) \in Nat \ {0}
        BY <3>1, EmptySeq
      <4>4. ASSUME NEW k, NEW n \in Nat \ {0},
                   k = IF 1 <= n - 1 THEN (n - 1) - 1 + 1 ELSE 0
            PROVE  k = n - 1
        BY <4>4
      <4>5. line # <<>> => Len(front) = Len(line) - 1
        BY <4>2, <4>3, <4>4, Zenon
      <4> QED
        BY <4>5 DEF front
    <3>3. out \in Printable => Len(Append(line, out)) = Len(line) + 1
      BY <3>1
    <3> QED
      BY <2>1, <3>1, <3>2, <3>3, KeyboardAssumption DEF DequeueAdvance, LineFits
  <2>2. CASE ReadlineCall
    BY <2>2, KeyboardAssumption DEF ReadlineCall, LineFits
  <2>3. CASE line' = line
    BY <2>3 DEF LineFits
  <2> QED
    BY <2>1, <2>2, <2>3 DEF Next, Thread, KeyIRQ, TimerIRQ, TryCall, FlushHead,
       DequeueTest, DequeueTake, Halt, FlushTail, FlushExt, vars
<1>3. Inv /\ [Next]_vars => Inv'
  BY TypeStep, ShapeStep DEF Inv
<1> QED
  BY <1>1, <1>2, <1>3, InvInit, PTL DEF Spec

-----------------------------------------------------------------------------
(* Refinement of the abstract queue *)

\* The queue is a sequence of characters, shorter than the ring.
ContentsSound ==
  /\ Count \in 0 .. KBD_BUF_SIZE - 1
  /\ Contents \in Seq(Chars)
  /\ Len(Contents) = Count
  /\ \A i \in 1 .. Count : Contents[i] = kbd_buf[SlotAt(i - 1)]

\* The abstract queue read off the ring is a sequence of characters, no longer
\* than the ring can hold.
LEMMA ContentsType == Inv => ContentsSound
<1> SUFFICES ASSUME Inv
             PROVE  ContentsSound
  OBVIOUS
<1>1. KBD_BUF_SIZE \in Nat /\ KBD_BUF_SIZE > 1
  BY KeyboardAssumption
<1>2. First \in 0 .. KBD_BUF_SIZE - 1 /\ kbd_head \in 0 .. KBD_BUF_SIZE - 1
  BY FirstType DEF Inv, TypeOK, Slots
<1>3. Count \in 0 .. KBD_BUF_SIZE - 1
  BY <1>1, <1>2 DEF Count
<1>4. ASSUME NEW i \in 1 .. Count
      PROVE  kbd_buf[SlotAt(i - 1)] \in Chars
  <2>1. SlotAt(i - 1) \in Slots /\ InQueue(SlotAt(i - 1))
    BY <1>1, <1>2, <1>3 DEF SlotAt, Count, InQueue, Slots
  <2> QED
    BY <2>1 DEF Inv, Filled
<1>5. Contents \in [1 .. Count -> Chars]
  BY <1>4 DEF Contents
<1>6. Contents \in Seq(Chars) /\ Len(Contents) = Count
  BY <1>3, <1>5
<1> QED
  BY <1>3, <1>6 DEF Contents, ContentsSound

\* The same of the next state.
LEMMA ContentsTypeNext == Inv' => ContentsSound'
  BY ContentsType, PTL

\* A sequence one longer than s that agrees with s and ends in e is Append.
LEMMA IsAppend ==
  ASSUME NEW S, NEW s \in Seq(S), NEW e \in S, NEW t \in Seq(S),
         Len(t) = Len(s) + 1,
         \A i \in 1 .. Len(s) : t[i] = s[i],
         t[Len(s) + 1] = e
  PROVE  t = Append(s, e)
<1>1. Append(s, e) \in Seq(S) /\ Len(Append(s, e)) = Len(s) + 1
  OBVIOUS
<1>2. \A i \in 1 .. Len(t) : t[i] = Append(s, e)[i]
  OBVIOUS
<1> QED
  BY <1>1, <1>2, SeqEqual

\* A sequence one shorter than s that is s shifted by one is Tail.
LEMMA IsTail ==
  ASSUME NEW S, NEW s \in Seq(S), s # <<>>, NEW t \in Seq(S),
         Len(t) = Len(s) - 1,
         \A i \in 1 .. Len(t) : t[i] = s[i + 1]
  PROVE  t = Tail(s)
<1>1. Tail(s) \in Seq(S) /\ Len(Tail(s)) = Len(t)
        /\ \A i \in 1 .. Len(t) : Tail(s)[i] = s[i + 1]
  BY HeadTailProperties
<1> QED
  BY <1>1, SeqEqual

\* A stored key is a Put of the abstract queue.
LEMMA KeyIsPut ==
  ASSUME Inv, Inv', NEW c \in Chars, Wake, UNCHANGED <<kbd_tail, out>>,
         Inc(kbd_head) # kbd_tail,
         kbd_buf' = [kbd_buf EXCEPT ![kbd_head] = c],
         kbd_head' = Inc(kbd_head)
  PROVE  Queue!Put(c)
<1>1. KBD_BUF_SIZE \in Nat /\ KBD_BUF_SIZE > 1
  BY KeyboardAssumption
<1>2. First' = First /\ Mode' = Mode
  BY WakeFirst
<1>3. First \in Slots /\ kbd_head \in Slots /\ kbd_tail \in Slots
  BY FirstType DEF Inv, TypeOK
<1>4. Inc(kbd_head) = (IF kbd_head = KBD_BUF_SIZE - 1 THEN 0 ELSE kbd_head + 1)
      /\ Inc(kbd_tail) = (IF kbd_tail = KBD_BUF_SIZE - 1 THEN 0 ELSE kbd_tail + 1)
  BY <1>3, IncCases
<1>5. Inc(kbd_head) # First
  BY <1>1, <1>3, <1>4 DEF First, Inv, HasCharacter, FlushBelow, Slots
<1>6. Count' = Count + 1 /\ Count < KBD_BUF_SIZE - 1 /\ SlotAt(Count) = kbd_head
  BY <1>1, <1>2, <1>3, <1>4, <1>5 DEF Count, SlotAt, Slots
<1>7. \A i \in 0 .. Count : SlotAt(i)' = SlotAt(i)
  BY <1>2 DEF SlotAt
<1>8. \A i \in 0 .. Count - 1 : SlotAt(i) \in Slots /\ SlotAt(i) # kbd_head
  BY <1>1, <1>3 DEF SlotAt, Count, Slots
<1>9. Count \in Nat /\ kbd_buf \in [Slots -> Chars \cup {NUL}]
  BY ContentsType DEF Inv, TypeOK, ContentsSound
<1>10. Contents \in Seq(Chars) /\ Len(Contents) = Count
       /\ \A i \in 1 .. Count : Contents[i] = kbd_buf[SlotAt(i - 1)]
  BY ContentsType DEF ContentsSound
<1>11. Contents' \in Seq(Chars) /\ Len(Contents') = Count'
       /\ \A i \in 1 .. Count' : Contents'[i] = kbd_buf'[SlotAt(i - 1)']
  BY ContentsTypeNext DEF ContentsSound
<1>12. \A i \in 1 .. Count : Contents'[i] = Contents[i]
  BY <1>6, <1>7, <1>8, <1>9, <1>10, <1>11
<1>13. Contents'[Count + 1] = c
  BY <1>3, <1>6, <1>7, <1>9, <1>11
<1>14. Contents' = Append(Contents, c)
  BY <1>6, <1>10, <1>11, <1>12, <1>13, IsAppend
<1> QED
  BY <1>2, <1>6, <1>10, <1>14 DEF Queue!Put

\* Reading the oldest character is a Get of the abstract queue.
LEMMA TakeIsGet ==
  ASSUME Inv, Inv', DequeueTake
  PROVE  Queue!Get
<1>1. KBD_BUF_SIZE \in Nat /\ KBD_BUF_SIZE > 1
  BY KeyboardAssumption
<1>2. First = kbd_tail /\ First' = Inc(kbd_tail) /\ Mode = "open" /\ Mode' = "open"
  BY DEF DequeueTake, First, ring, Inc, Mode
<1>3. kbd_head \in Slots /\ kbd_tail \in Slots /\ kbd_head # kbd_tail
        /\ kbd_head' = kbd_head /\ kbd_buf' = kbd_buf
  BY DEF Inv, TypeOK, HasCharacter, DequeueTake, ring
<1>4. Inc(kbd_tail) = IF kbd_tail = KBD_BUF_SIZE - 1 THEN 0 ELSE kbd_tail + 1
  BY <1>3, IncCases
<1>5. Count > 0 /\ Count' = Count - 1 /\ SlotAt(0) = kbd_tail
  BY <1>1, <1>2, <1>3, <1>4 DEF Count, SlotAt, Slots
<1>6. \A i \in 0 .. Count - 2 : SlotAt(i)' = SlotAt(i + 1)
  BY <1>1, <1>2, <1>3, <1>4 DEF Count, SlotAt, Slots
<1>7. Contents \in Seq(Chars) /\ Len(Contents) = Count /\ Count \in Nat
       /\ \A i \in 1 .. Count : Contents[i] = kbd_buf[SlotAt(i - 1)]
  BY ContentsType DEF ContentsSound
<1>8. Contents' \in Seq(Chars) /\ Len(Contents') = Count'
       /\ \A i \in 1 .. Count' : Contents'[i] = kbd_buf'[SlotAt(i - 1)']
  BY ContentsTypeNext DEF ContentsSound
<1>9. Contents # <<>>
  BY <1>5, <1>7
<1>10. \A i \in 1 .. Len(Contents') : Contents'[i] = Contents[i + 1]
  <2> SUFFICES ASSUME NEW i \in 1 .. Len(Contents') PROVE Contents'[i] = Contents[i + 1]
    OBVIOUS
  <2>1. i \in 1 .. Count' /\ i - 1 \in 0 .. Count - 2 /\ i + 1 \in 1 .. Count
    BY <1>5, <1>7, <1>8
  <2>2. Contents'[i] = kbd_buf[SlotAt(i - 1)']
    BY <1>3, <1>8, <2>1
  <2>3. SlotAt(i - 1)' = SlotAt(i - 1 + 1) /\ i - 1 + 1 = i + 1 - 1
    BY <1>6, <2>1
  <2>4. Contents[i + 1] = kbd_buf[SlotAt(i + 1 - 1)]
    BY <1>7, <2>1
  <2> QED
    BY <2>2, <2>3, <2>4
<1>11. Contents' = Tail(Contents)
  BY <1>5, <1>7, <1>8, <1>9, <1>10, IsTail
<1>12. Head(Contents) = kbd_buf[kbd_tail]
  BY <1>5, <1>7
<1> QED
  BY <1>2, <1>9, <1>11, <1>12 DEF Queue!Get, DequeueTake

\* Steps that leave the ring's indices and the oldest slot leave the queue.
LEMMA SameContents ==
  ASSUME UNCHANGED <<kbd_buf, kbd_head, First>>
  PROVE  Contents' = Contents
  BY DEF Contents, Count, SlotAt

\* Every step is a step of the bounded queue or leaves it alone.
LEMMA QueueStep == Inv /\ Inv' /\ [Next]_vars => [Queue!QNext]_(Queue!qvars)
<1> SUFFICES ASSUME Inv, Inv', [Next]_vars
             PROVE  Queue!QNext \/ UNCHANGED Queue!qvars
  OBVIOUS
<1>1. ASSUME NEW sc \in Scancodes, KeyIRQ(sc)
      PROVE  Queue!QNext \/ UNCHANGED Queue!qvars
  <2>1. Wake /\ UNCHANGED <<kbd_tail, out>>
    BY <1>1 DEF KeyIRQ, enqueue_char, ring
  <2>2. CASE UNCHANGED ring
    BY <2>1, <2>2, WakeFirst, SameContents DEF ring, Queue!qvars
  <2>3. CASE ~UNCHANGED ring
    <3>1. PICK c \in Chars : /\ Inc(kbd_head) # kbd_tail
                             /\ kbd_buf' = [kbd_buf EXCEPT ![kbd_head] = c]
                             /\ kbd_head' = Inc(kbd_head)
      BY <1>1, <2>3, KeyCases DEF Inv
    <3> QED
      BY <2>1, <3>1, KeyIsPut DEF Queue!QNext
  <2> QED
    BY <2>2, <2>3
<1>2. CASE DequeueTake
  BY <1>2, TakeIsGet DEF Queue!QNext
<1>3. CASE TimerIRQ
  BY <1>3, WakeFirst, SameContents DEF TimerIRQ, ring, Queue!qvars
<1>4. CASE ReadlineCall \/ TryCall \/ DequeueTest \/ Halt
  <2>1. First' = First /\ Mode' = Mode
    BY <1>4 DEF ReadlineCall, TryCall, DequeueTest, Halt, ring, First, Mode, Inc
  <2> QED
    BY <1>4, <2>1, SameContents
       DEF ReadlineCall, TryCall, DequeueTest, Halt, ring, Queue!qvars
<1>5. CASE DequeueAdvance
  <2>1. First' = First /\ Mode' = Mode
    BY <1>5 DEF DequeueAdvance, First, Mode, Inc
  <2> QED
    BY <1>5, <2>1, SameContents DEF DequeueAdvance, Queue!qvars
<1>6. CASE FlushHead
  <2>1. Mode = "open" /\ Mode' = "clearing" /\ First' = 0 /\ kbd_head' = 0
    BY <1>6 DEF FlushHead, Mode, First
  <2>2. Count' = 0
    BY <2>1 DEF Count
  <2>3. Contents' = <<>>
    BY <2>2, ContentsTypeNext DEF ContentsSound
  <2> QED
    BY <1>6, <2>1, <2>3 DEF FlushHead, Queue!Clear, Queue!QNext
<1>7. CASE FlushTail
  <2>1. First' = First /\ Mode' = Mode
    BY <1>7 DEF FlushTail, First, Mode
  <2> QED
    BY <1>7, <2>1, SameContents DEF FlushTail, Queue!qvars
<1>8. CASE FlushExt
  <2>1. First' = First /\ Mode = "clearing" /\ Mode' = "open"
    BY <1>8 DEF FlushExt, First, Mode, ring
  <2> QED
    BY <1>8, <2>1, SameContents DEF FlushExt, ring, Queue!Cleared, Queue!QNext
<1>9. CASE UNCHANGED vars
  <2>1. First' = First /\ Mode' = Mode
    BY <1>9 DEF vars, ring, First, Mode, Inc
  <2> QED
    BY <1>9, <2>1, SameContents DEF vars, ring, Queue!qvars
<1> QED
  BY <1>1, <1>2, <1>3, <1>4, <1>5, <1>6, <1>7, <1>8, <1>9 DEF Next, Thread

\* The ring buffer under interrupts implements the abstract queue, whatever
\* its size: every step of the driver is a Put, a Get, a Clear or a stutter.
THEOREM Refinement == Spec => ImplementsQueue
<1>1. Init => Queue!QInit
  <2> SUFFICES ASSUME Init
               PROVE  Queue!QInit
    OBVIOUS
  <2>1. Count = 0
    BY DEF Init, Count, First
  <2>2. Contents = <<>>
    BY <2>1, InvInit, ContentsType DEF ContentsSound
  <2>3. Mode = "open"
    BY DEF Init, Mode
  <2> QED
    BY <2>2, <2>3 DEF Init, Queue!QInit
<1>2. Inv /\ [Next]_vars => Inv'
  BY TypeStep, ShapeStep DEF Inv
<1> QED
  BY <1>1, <1>2, InvInit, QueueStep, PTL DEF Spec, ImplementsQueue, Queue!QSpec

-----------------------------------------------------------------------------
(* Characters that are dropped *)

\* A ring that enqueue_char finds full holds KBD_BUF_SIZE - 1 characters, one of
\* them perhaps read but not yet removed.
LEMMA FullRing ==
  ASSUME Inv, Inc(kbd_head) = kbd_tail, pc # "flushTail"
  PROVE  IF pc \in {"advance", "tryAdvance"} THEN Count = KBD_BUF_SIZE - 2
         ELSE Count = KBD_BUF_SIZE - 1
<1>1. KBD_BUF_SIZE \in Nat /\ KBD_BUF_SIZE > 1
  BY KeyboardAssumption
<1>2. kbd_head \in Slots /\ kbd_tail \in Slots
  BY DEF Inv, TypeOK
<1>3. Inc(kbd_head) = (IF kbd_head = KBD_BUF_SIZE - 1 THEN 0 ELSE kbd_head + 1)
      /\ Inc(kbd_tail) = (IF kbd_tail = KBD_BUF_SIZE - 1 THEN 0 ELSE kbd_tail + 1)
  BY <1>2, IncCases
<1> QED
  BY <1>1, <1>2, <1>3 DEF First, Count, Slots

\* For any ring size a typed character is lost only when the ring is full or
\* keyboard_flush is between its stores (enqueue_char).
THEOREM DropsOnlyWhenFull == Spec => DroppedOnlyWhenFull
<1> DEFINE Dropped ==
      \A sc \in {"letter", "enter", "back"} :
        KeyIRQ(sc) /\ ~extended_key /\ pc # "flushTail" =>
          \/ Len(Contents') = Len(Contents) + 1
          \/ Len(Contents) = KBD_BUF_SIZE - 1
          \/ Len(Contents) = KBD_BUF_SIZE - 2 /\ pc \in {"advance", "tryAdvance"}
<1>1. Inv /\ Inv' => Dropped
  <2> SUFFICES ASSUME Inv, Inv', NEW sc \in {"letter", "enter", "back"},
                      KeyIRQ(sc), ~extended_key, pc # "flushTail"
               PROVE  \/ Len(Contents') = Len(Contents) + 1
                      \/ Len(Contents) = KBD_BUF_SIZE - 1
                      \/ /\ Len(Contents) = KBD_BUF_SIZE - 2
                         /\ pc \in {"advance", "tryAdvance"}
    OBVIOUS
  <2>1. Decode(sc) \in Chars /\ Decode(sc) # NUL
    BY DEF Decode, Chars, NUL
  <2>2. enqueue_char(Decode(sc)) /\ Wake /\ UNCHANGED out
    BY <2>1 DEF KeyIRQ
  <2>3. Contents \in Seq(Chars) /\ Len(Contents) = Count
    BY ContentsType DEF ContentsSound
  <2>4. CASE Inc(kbd_head) = kbd_tail
    BY <2>3, <2>4, FullRing
  <2>5. CASE Inc(kbd_head) # kbd_tail
    <3>1. Queue!Put(Decode(sc))
      BY <2>1, <2>2, <2>5, KeyIsPut DEF enqueue_char
    <3>2. Contents' = Append(Contents, Decode(sc))
      BY <3>1 DEF Queue!Put
    <3> QED
      BY <2>1, <2>3, <3>2
  <2> QED
    BY <2>4, <2>5
<1>2. Inv /\ [Next]_vars => Inv'
  BY TypeStep, ShapeStep DEF Inv
<1> QED
  BY <1>1, <1>2, InvInit, PTL DEF Spec, DroppedOnlyWhenFull

-----------------------------------------------------------------------------
(* The console: rows, lines and places *)

\* Quotient and remainder.
LEMMA DivMod ==
  ASSUME NEW x \in Nat, NEW b \in Nat \ {0}
  PROVE  x \div b \in Nat /\ x % b \in 0 .. b - 1 /\ x = (x \div b) * b + (x % b)
OBVIOUS

\* Quotient and remainder are the only ones.
LEMMA DivIs ==
  ASSUME NEW b \in Nat \ {0}, NEW q \in Nat, NEW r \in 0 .. b - 1
  PROVE  /\ q * b + r \in Nat
         /\ (q * b + r) \div b = q /\ (q * b + r) % b = r
<1> DEFINE x == q * b + r
           p == x \div b
           s == x % b
<1>1. x \in Nat /\ q * b \in Nat
  OBVIOUS
<1>2. x = q * b + r
  OBVIOUS
<1> HIDE DEF x
<1>3. p \in Nat /\ s \in 0 .. b - 1 /\ x = p * b + s
  BY <1>1, DivMod
<1> HIDE DEF p, s
<1>4. ~(p < q)
  <2> SUFFICES ASSUME p + 1 <= q PROVE FALSE
    BY <1>3
  <2>1. (p + 1) * b <= q * b /\ (p + 1) * b = p * b + b /\ p * b \in Nat
    BY <1>3
  <2> QED
    BY <1>1, <1>2, <1>3, <2>1
<1>5. ~(q < p)
  <2> SUFFICES ASSUME q + 1 <= p PROVE FALSE
    BY <1>3
  <2>1. (q + 1) * b <= p * b /\ (q + 1) * b = q * b + b /\ p * b \in Nat
    BY <1>3
  <2> QED
    BY <1>1, <1>2, <1>3, <2>1
<1>6. p = q
  BY <1>3, <1>4, <1>5
<1>7. s = r
  BY <1>1, <1>2, <1>3, <1>6
<1> QED
  BY <1>1, <1>6, <1>7 DEF p, s, x

\* Which row a line of the screen is in, where a row has b lines.
LEMMA RowOfLine ==
  ASSUME NEW b \in Nat \ {0}, NEW l \in Nat \ {0}, NEW n \in Nat
  PROVE  LET q == (l - 1) \div b
         IN q \in Nat /\ (l <= n * b <=> q < n) /\ (l + b - 1) \div b = q + 1
<1> DEFINE x == l - 1
           q == x \div b
           r == x % b
<1>1. x \in Nat /\ l = x + 1
  OBVIOUS
<1> HIDE DEF x
<1>2. q \in Nat /\ r \in 0 .. b - 1 /\ x = q * b + r
  BY <1>1, DivMod
<1> HIDE DEF q, r
<1>3. ASSUME q < n PROVE l <= n * b
  <2>1. (q + 1) * b <= n * b /\ (q + 1) * b = q * b + b /\ q * b \in Nat /\ n * b \in Nat
    BY <1>2, <1>3
  <2> QED
    BY <1>1, <1>2, <2>1
<1>4. ASSUME l <= n * b PROVE q < n
  <2> SUFFICES ASSUME n <= q PROVE FALSE
    BY <1>2
  <2>1. n * b <= q * b /\ q * b \in Nat /\ n * b \in Nat
    BY <1>2
  <2> QED
    BY <1>1, <1>2, <1>4, <2>1
<1>5. (l + b - 1) \div b = q + 1
  <2>1. ((q + 1) * b + r) \div b = q + 1
    BY <1>2, DivIs
  <2>2. (q + 1) * b + r = l + b - 1
    <3>1. (q + 1) * b = q * b + b /\ q * b \in Nat
      BY <1>2
    <3> QED
      BY <1>1, <1>2, <3>1
  <2> QED
    BY <2>1, <2>2
<1> QED
  BY <1>2, <1>3, <1>4, <1>5 DEF q, x

\* The b-th line of row y.
LEMMA LineOfRow ==
  ASSUME NEW n \in Nat, NEW m \in Nat \ {0}, NEW y \in 1 .. n, NEW b \in 1 .. m
  PROVE  LET l == (y - 1) * m + b
         IN l \in 1 .. n * m /\ (l - 1) \div m = y - 1
<1> DEFINE q == y - 1
           r == b - 1
           l == (y - 1) * m + b
<1>1. q \in Nat /\ r \in 0 .. m - 1 /\ q < n /\ y = q + 1 /\ b = r + 1
  OBVIOUS
<1>2. l = q * m + b
  OBVIOUS
<1> HIDE DEF q, r, l
<1>3. q * m + r \in Nat /\ (q * m + r) \div m = q
  BY <1>1, DivIs
<1>4. q * m \in Nat /\ n * m \in Nat
  BY <1>1
<1>5. (q + 1) * m <= n * m /\ (q + 1) * m = q * m + m
  BY <1>1
<1>6. l - 1 = q * m + r /\ l \in 1 .. n * m
  BY <1>1, <1>2, <1>4, <1>5
<1>7. (l - 1) \div m = q
  BY <1>3, <1>6
<1> QED
  BY <1>6, <1>7 DEF q, l

-----------------------------------------------------------------------------
(* The console: screen and paper *)

Cells == Glyphs \cup {" ", "?", "pixels"}
CellRows == [1 .. Cols -> Cells]

\* Types of the variables of the console.
ConsoleType ==
  /\ gfx_active \in BOOLEAN /\ gui \in BOOLEAN /\ reading \in BOOLEAN /\ stuck \in BOOLEAN
  /\ screen \in [1 .. Height -> CellRows] /\ paper \in [1 .. PaperRows -> CellRows]
  /\ cursor_x \in 0 .. Cols - 1 /\ cursor_y \in 0 .. Rows - 1
  /\ buf \in Seq(Glyphs) /\ Len(buf) <= LineMax - 1 /\ from \in Int

\* The rows of paper above the screen.
Above == PaperRows - Rows

\* Every line of the screen shows its row of the paper, and those under the last
\* row nothing: they are what scrolling brings into it.
Window(scr, pap) ==
  \A l \in 1 .. Height :
    scr[l] = IF l <= Rows * Band THEN pap[Above + 1 + ((l - 1) \div Band)] ELSE BlankRow

\* The screen is a window on the paper except while the GUI draws over it, and
\* no line is read then.
ScreenInv ==
  ConsoleType /\ ~(reading /\ gui) /\ (~gui => Window(screen, paper))

\* The sizes of a screen and of the paper behind it.
LEMMA Sizes ==
  /\ Band \in Nat \ {0} /\ Rows * Band \in Nat /\ Height \in Nat
  /\ Rows * Band <= Height /\ Height < Rows * Band + Band
  /\ Above \in Nat /\ PaperRows = Above + Rows
  /\ Rows \in Nat \ {0} /\ Cols \in Nat \ {0} /\ PaperRows \in Nat \ {0}
<1>1. /\ Cols \in Nat \ {0} /\ Rows \in Nat \ {0} /\ BandOf \in Nat \ {0}
      /\ ExtraOf \in 0 .. BandOf - 1 /\ PaperRows \in Nat /\ PaperRows >= Rows
  BY ConsoleAssumption
<1>2. Band \in Nat \ {0}
  BY <1>1 DEF Band
<1>3. Rows * Band \in Nat
  BY <1>1, <1>2
<1>4. Height \in Nat /\ Rows * Band <= Height /\ Height < Rows * Band + Band
  <2>1. CASE gfx_active
    <3>1. Band = BandOf /\ Height = Rows * Band + ExtraOf
      BY <2>1 DEF Band, Height
    <3> QED
      BY <1>1, <1>3, <3>1
  <2>2. CASE ~gfx_active
    <3>1. Height = Rows * Band + 0
      BY <2>2 DEF Height
    <3> QED
      BY <1>2, <1>3, <3>1
  <2> QED
    BY <2>1, <2>2
<1> QED
  BY <1>1, <1>2, <1>3, <1>4 DEF Above

\* A blank row is a row of cells.
LEMMA BlankIsRow == BlankRow \in CellRows
  BY DEF BlankRow, CellRows, Cells

\* A function on 1 .. n is a sequence of length n.
LEMMA LenOf ==
  ASSUME NEW n \in Nat, NEW S, NEW s \in [1 .. n -> S]
  PROVE  s \in Seq(S) /\ Len(s) = n
  OBVIOUS

\* A window on the paper shows the paper.
LEMMA WindowShows ==
  ASSUME ConsoleType, Window(screen, paper)
  PROVE  \A y \in 1 .. Rows, b \in 1 .. Band :
           screen[(y - 1) * Band + b] = paper[Above + y]
<1> SUFFICES ASSUME NEW y \in 1 .. Rows, NEW b \in 1 .. Band
             PROVE  screen[(y - 1) * Band + b] = paper[Above + y]
  OBVIOUS
<1> DEFINE l == (y - 1) * Band + b
<1>1. l \in 1 .. Rows * Band /\ (l - 1) \div Band = y - 1
  BY Sizes, LineOfRow
<1> HIDE DEF l
<1>2. l \in 1 .. Height /\ l <= Rows * Band
  BY <1>1, Sizes
<1>3. screen[l] = paper[Above + 1 + ((l - 1) \div Band)]
  BY <1>2 DEF Window
<1>4. Above + 1 + ((l - 1) \div Band) = Above + y
  BY <1>1, Sizes
<1> QED
  BY <1>3, <1>4 DEF l

\* A cell drawn in a row is drawn in all of its lines and in no other.
LEMMA DrawKeeps ==
  ASSUME NEW scr \in [1 .. Height -> CellRows], NEW pap \in [1 .. PaperRows -> CellRows],
         Window(scr, pap), NEW y \in 0 .. Rows - 1, NEW x \in 0 .. Cols - 1, NEW c \in Cells
  PROVE  /\ Draw(scr, y, x, c) \in [1 .. Height -> CellRows]
         /\ [pap EXCEPT ![Above + y + 1][x + 1] = c] \in [1 .. PaperRows -> CellRows]
         /\ Window(Draw(scr, y, x, c), [pap EXCEPT ![Above + y + 1][x + 1] = c])
<1> DEFINE new == Draw(scr, y, x, c)
           pop == [pap EXCEPT ![Above + y + 1][x + 1] = c]
<1>1. Len(scr) = Height
  BY Sizes, LenOf
<1>2. x + 1 \in 1 .. Cols
  BY Sizes
<1>3. new = [l \in 1 .. Height |-> IF (l - 1) \div Band = y
                                   THEN [scr[l] EXCEPT ![x + 1] = c] ELSE scr[l]]
  BY <1>1 DEF Draw
<1>4. \A r \in CellRows : [r EXCEPT ![x + 1] = c] \in CellRows
  BY <1>2 DEF CellRows
<1>5. new \in [1 .. Height -> CellRows]
  BY <1>3, <1>4
<1>6. Above + y + 1 \in 1 .. PaperRows
  BY Sizes
<1>7. pop = [j \in 1 .. PaperRows |-> IF j = Above + y + 1
                                      THEN [pap[j] EXCEPT ![x + 1] = c] ELSE pap[j]]
  BY <1>6
<1>8. pop \in [1 .. PaperRows -> CellRows]
  BY <1>4, <1>7
<1> HIDE DEF new, pop
<1>9. ASSUME NEW l \in 1 .. Height
      PROVE  new[l] = IF l <= Rows * Band THEN pop[Above + 1 + ((l - 1) \div Band)]
                      ELSE BlankRow
  <2> DEFINE q == (l - 1) \div Band
  <2>1. q \in Nat /\ (l <= Rows * Band <=> q < Rows)
    <3>1. l \in Nat \ {0}
      BY Sizes
    <3> QED
      BY <3>1, Sizes, RowOfLine
  <2>2. scr[l] = IF l <= Rows * Band THEN pap[Above + 1 + q] ELSE BlankRow
    BY DEF Window
  <2>3. new[l] = IF q = y THEN [scr[l] EXCEPT ![x + 1] = c] ELSE scr[l]
    BY <1>3
  <2> HIDE DEF q
  <2>4. CASE q < Rows
    <3>1. Above + 1 + q \in 1 .. PaperRows /\ (Above + 1 + q = Above + y + 1 <=> q = y)
      BY <2>1, <2>4, Sizes
    <3>2. pop[Above + 1 + q] = IF q = y THEN [pap[Above + 1 + q] EXCEPT ![x + 1] = c]
                               ELSE pap[Above + 1 + q]
      BY <1>7, <3>1
    <3> QED
      BY <2>1, <2>2, <2>3, <2>4, <3>2 DEF q
  <2>5. CASE ~(q < Rows)
    <3>1. q # y
      BY <2>1, <2>5, Sizes
    <3> QED
      BY <2>1, <2>2, <2>3, <2>5, <3>1
  <2> QED
    BY <2>4, <2>5
<1> QED
  BY <1>5, <1>8, <1>9 DEF Window, new, pop

\* The paper, one row up.
LEMMA PaperUp ==
  ASSUME NEW pap \in [1 .. PaperRows -> CellRows]
  PROVE  Append(Tail(pap), BlankRow) =
           [j \in 1 .. PaperRows |-> IF j < PaperRows THEN pap[j + 1] ELSE BlankRow]
<1>1. PaperRows \in Nat \ {0}
  BY Sizes
<1>2. pap \in Seq(CellRows) /\ Len(pap) = PaperRows
  BY <1>1, LenOf
<1> DEFINE t == Tail(pap)
           a == Append(t, BlankRow)
<1>3. /\ t \in Seq(CellRows) /\ Len(t) = PaperRows - 1
      /\ \A j \in 1 .. Len(t) : t[j] = pap[j + 1]
  BY <1>1, <1>2, HeadTailProperties
<1> HIDE DEF t
<1>4. /\ a \in Seq(CellRows) /\ Len(a) = Len(t) + 1 /\ a[Len(t) + 1] = BlankRow
      /\ \A j \in 1 .. Len(t) : a[j] = t[j]
  BY <1>3, BlankIsRow, AppendProperties
<1> HIDE DEF a
<1>5. a = [j \in 1 .. PaperRows |-> a[j]]
  BY <1>1, <1>3, <1>4
<1>6. \A j \in 1 .. PaperRows : a[j] = IF j < PaperRows THEN pap[j + 1] ELSE BlankRow
  BY <1>1, <1>3, <1>4
<1> QED
  BY <1>5, <1>6 DEF a, t

\* Scrolling moves both, and brings an empty row.
LEMMA ScrollKeeps ==
  ASSUME NEW scr \in [1 .. Height -> CellRows], NEW pap \in [1 .. PaperRows -> CellRows],
         Window(scr, pap)
  PROVE  /\ Scroll(scr) \in [1 .. Height -> CellRows]
         /\ Append(Tail(pap), BlankRow) \in [1 .. PaperRows -> CellRows]
         /\ Window(Scroll(scr), Append(Tail(pap), BlankRow))
<1> DEFINE new == Scroll(scr)
           pop == Append(Tail(pap), BlankRow)
<1>1. Len(scr) = Height
  BY Sizes, LenOf
<1>2. new = [l \in 1 .. Height |-> IF l + Band <= Height THEN scr[l + Band] ELSE BlankRow]
  BY <1>1 DEF Scroll
<1>3. pop = [j \in 1 .. PaperRows |-> IF j < PaperRows THEN pap[j + 1] ELSE BlankRow]
  BY PaperUp
<1> HIDE DEF new, pop
<1>4. new \in [1 .. Height -> CellRows]
  <2>1. \A l \in 1 .. Height : l + Band <= Height => l + Band \in 1 .. Height
    BY Sizes
  <2> QED
    BY <1>2, <2>1, BlankIsRow
<1>5. pop \in [1 .. PaperRows -> CellRows]
  <2>1. \A j \in 1 .. PaperRows : j < PaperRows => j + 1 \in 1 .. PaperRows
    BY Sizes
  <2> QED
    BY <1>3, <2>1, BlankIsRow
<1>6. ASSUME NEW l \in 1 .. Height
      PROVE  new[l] = IF l <= Rows * Band THEN pop[Above + 1 + ((l - 1) \div Band)]
                      ELSE BlankRow
  <2> DEFINE q == (l - 1) \div Band
             m == l + Band
             p == (m - 1) \div Band
  <2>1. l \in Nat \ {0} /\ m \in Nat \ {0}
    BY Sizes
  <2>2. q \in Nat /\ (l <= Rows * Band <=> q < Rows) /\ p = q + 1
    <3>1. /\ (l - 1) \div Band \in Nat /\ (l <= Rows * Band <=> (l - 1) \div Band < Rows)
          /\ (l + Band - 1) \div Band = ((l - 1) \div Band) + 1
      BY <2>1, Sizes, RowOfLine
    <3>2. p = (l + Band - 1) \div Band
      BY <2>1, Sizes
    <3> QED
      BY <3>1, <3>2
  <2>3. p \in Nat /\ (m <= Rows * Band <=> p < Rows)
    <3> HIDE DEF m
    <3> QED
      BY <2>1, Sizes, RowOfLine
  <2>4. new[l] = IF m <= Height THEN scr[m] ELSE BlankRow
    BY <1>2
  <2>5. m <= Height => scr[m] = IF m <= Rows * Band THEN pap[Above + 1 + p] ELSE BlankRow
    <3>1. m <= Height => m \in 1 .. Height
      BY <2>1, Sizes
    <3> QED
      BY <3>1 DEF Window
  <2>6. l > Rows * Band => ~(m <= Height)
    BY Sizes
  <2>7. m <= Rows * Band => m <= Height
    BY <2>1, Sizes
  <2> HIDE DEF p, q, m
  <2>8. CASE p < Rows
    <3>1. /\ Above + 1 + q \in 1 .. PaperRows /\ Above + 1 + q < PaperRows
          /\ Above + 1 + q + 1 = Above + 1 + p
      BY <2>2, <2>3, <2>8, Sizes
    <3>2. pop[Above + 1 + q] = pap[Above + 1 + p]
      BY <1>3, <3>1
    <3>3. new[l] = pap[Above + 1 + p]
      BY <2>3, <2>4, <2>5, <2>7, <2>8
    <3>4. l <= Rows * Band
      BY <2>2, <2>3, <2>8, Sizes
    <3> QED
      BY <3>2, <3>3, <3>4 DEF q
  <2>9. CASE ~(p < Rows) /\ q < Rows
    <3>1. Above + 1 + q = PaperRows
      BY <2>2, <2>3, <2>9, Sizes
    <3>2. pop[Above + 1 + q] = BlankRow
      BY <1>3, <3>1, Sizes
    <3>3. new[l] = BlankRow
      BY <2>3, <2>4, <2>5, <2>9
    <3> QED
      BY <2>2, <2>9, <3>2, <3>3 DEF q
  <2>10. CASE ~(q < Rows)
    <3>1. ~(l <= Rows * Band) /\ l > Rows * Band
      BY <2>1, <2>2, <2>10, Sizes
    <3> QED
      BY <2>4, <2>6, <3>1
  <2> QED
    BY <2>8, <2>9, <2>10
<1> QED
  BY <1>4, <1>5, <1>6 DEF Window, new, pop

-----------------------------------------------------------------------------
(* The console: characters *)

\* What a character does to the cursor, and what it puts.
LEMMA GlyphStep ==
  ASSUME NEW c \in Glyphs
  PROVE  Step(c) = [x |-> cursor_x + 1, y |-> cursor_y, put |-> TRUE, px |-> cursor_x, glyph |-> c]
<1>1. c \notin {"newline", "return", "backspace", "tab", "control"}
  BY ConsoleAssumption DEF Controls
<1> QED
  BY <1>1 DEF Step

\* A backspace blanks the cell left of the cursor; at the left edge it does nothing.
LEMMA BackspaceStep ==
  Step("backspace") =
    IF cursor_x > 0
    THEN [x |-> cursor_x - 1, y |-> cursor_y, put |-> TRUE, px |-> cursor_x - 1, glyph |-> " "]
    ELSE [x |-> 0, y |-> cursor_y, put |-> FALSE, px |-> 0, glyph |-> " "]
  BY DEF Step

\* What is put is a cell of the row the cursor is in; the cursor goes at most one
\* row down, and then to its start.
StepsTo(s) ==
  /\ s.x \in Nat
  /\ s.put => s.px \in 0 .. Cols - 1 /\ s.glyph \in Cells
  /\ s.y = cursor_y \/ (s.y = cursor_y + 1 /\ s.x = 0)

\* A character that only moves the cursor.
LEMMA StepAt ==
  ASSUME NEW x \in Nat
  PROVE  StepsTo([x |-> x, y |-> cursor_y, put |-> FALSE, px |-> 0, glyph |-> " "])
<1> DEFINE s == [x |-> x, y |-> cursor_y, put |-> FALSE, px |-> 0, glyph |-> " "]
<1>1. s.x = x /\ s.y = cursor_y
  OBVIOUS
<1>2. ~s.put
  BY Zenon
<1> HIDE DEF s
<1>3. StepsTo(s)
  BY <1>1, <1>2 DEF StepsTo
<1> QED
  BY <1>3 DEF s

\* A character that is put on the screen.
LEMMA StepPut ==
  ASSUME NEW x \in Nat, NEW p \in 0 .. Cols - 1, NEW g \in Cells
  PROVE  StepsTo([x |-> x, y |-> cursor_y, put |-> TRUE, px |-> p, glyph |-> g])
<1> DEFINE s == [x |-> x, y |-> cursor_y, put |-> TRUE, px |-> p, glyph |-> g]
<1>1. s.x = x /\ s.y = cursor_y /\ s.px = p /\ s.glyph = g
  OBVIOUS
<1> HIDE DEF s
<1>3. StepsTo(s)
  BY <1>1 DEF StepsTo
<1> QED
  BY <1>3 DEF s

\* Every character does one or the other.
LEMMA StepIs ==
  ASSUME ConsoleType, NEW c \in Glyphs \cup Controls
  PROVE  StepsTo(Step(c))
<1>1. cursor_x \in 0 .. Cols - 1 /\ cursor_y \in 0 .. Rows - 1 /\ gfx_active \in BOOLEAN
  BY DEF ConsoleType
<1>2. Cols \in Nat \ {0} /\ TabStop \in Nat \ {0}
  BY ConsoleAssumption
<1>3. cursor_x \in Nat /\ cursor_x + 1 \in Nat /\ 0 \in Nat
  BY <1>1, <1>2
<1>4. CASE c \in Glyphs
  <2>1. c \in Cells
    BY <1>4 DEF Cells
  <2> QED
    BY <1>1, <1>3, <1>4, <2>1, GlyphStep, StepPut
<1>5. CASE c = "newline"
  BY <1>1, <1>5 DEF Step, StepsTo
<1>6. CASE c = "return"
  BY <1>1, <1>6 DEF Step, StepsTo
<1>7. CASE c = "backspace"
  <2>1. CASE cursor_x > 0
    <3>1. cursor_x - 1 \in Nat /\ cursor_x - 1 \in 0 .. Cols - 1 /\ " " \in Cells
      BY <1>1, <1>2, <2>1 DEF Cells
    <3> QED
      BY <1>7, <2>1, <3>1, BackspaceStep, StepPut
  <2>2. CASE ~(cursor_x > 0)
    BY <1>3, <1>7, <2>2, BackspaceStep, StepAt
  <2> QED
    BY <2>1, <2>2
<1>8. CASE c = "tab" /\ gfx_active
  <2> DEFINE x == ((cursor_x + TabStop) \div TabStop) * TabStop
  <2>1. x \in Nat
    BY <1>1, <1>2
  <2>2. Step(c) = [x |-> x, y |-> cursor_y, put |-> FALSE, px |-> 0, glyph |-> " "]
    BY <1>8 DEF Step
  <2> HIDE DEF x
  <2> QED
    BY <2>1, <2>2, StepAt
<1>9. CASE c = "control" /\ gfx_active
  <2>1. Step(c) = [x |-> cursor_x, y |-> cursor_y, put |-> FALSE, px |-> 0, glyph |-> " "]
    BY <1>9 DEF Step
  <2> QED
    BY <1>3, <2>1, StepAt
<1>10. CASE c \in {"tab", "control"} /\ ~gfx_active
  <2>1. Step(c) = [x |-> cursor_x + 1, y |-> cursor_y, put |-> TRUE, px |-> cursor_x, glyph |-> "?"]
    BY <1>10 DEF Step
  <2>2. "?" \in Cells
    BY DEF Cells
  <2> QED
    BY <1>1, <1>3, <2>1, <2>2, StepPut
<1> QED
  BY <1>1, <1>4, <1>5, <1>6, <1>7, <1>8, <1>9, <1>10 DEF Controls

\* The paper after a character is put, and before it is scrolled.
WrittenPaper(s) ==
  IF s.put THEN [paper EXCEPT ![Above + cursor_y + 1][s.px + 1] = s.glyph] ELSE paper

\* The paper after a character, scrolled where the screen is.
LEMMA PaperAfter ==
  ASSUME NEW c, putc(c)
  PROVE  paper' = IF Scrolls(c) THEN Append(Tail(WrittenPaper(Step(c))), BlankRow)
                  ELSE WrittenPaper(Step(c))
  BY DEF putc, WrittenPaper, Above

\* A character keeps the screen a window on the paper.
LEMMA PutcKeeps ==
  ASSUME ConsoleType, Window(screen, paper), NEW c \in Glyphs \cup Controls, putc(c),
         UNCHANGED gfx_active
  PROVE  /\ screen' \in [1 .. Height -> CellRows] /\ paper' \in [1 .. PaperRows -> CellRows]
         /\ Window(screen', paper')
         /\ cursor_x' \in 0 .. Cols - 1 /\ cursor_y' \in 0 .. Rows - 1
<1> DEFINE s == Step(c)
           pop == WrittenPaper(s)
           drawn == IF s.put THEN Draw(screen, cursor_y, s.px, s.glyph) ELSE screen
<1>1. StepsTo(s)
  BY StepIs
<1>2. cursor_x \in 0 .. Cols - 1 /\ cursor_y \in 0 .. Rows - 1
  BY DEF ConsoleType
<1>3. /\ cursor_x' = (IF s.x >= Cols THEN 0 ELSE s.x)
      /\ cursor_y' = (IF Scrolls(c) THEN Rows - 1 ELSE NewRow(c))
      /\ screen' = (IF Scrolls(c) THEN Scroll(drawn) ELSE drawn)
      /\ paper' = (IF Scrolls(c) THEN Append(Tail(pop), BlankRow) ELSE pop)
  <2>1. paper' = (IF Scrolls(c) THEN Append(Tail(pop), BlankRow) ELSE pop)
    BY PaperAfter
  <2> QED
    BY <2>1 DEF putc, Wraps
<1>4. /\ NewRow(c) = (IF s.x >= Cols THEN s.y + 1 ELSE s.y)
      /\ Scrolls(c) <=> NewRow(c) >= Rows
  BY DEF NewRow, Wraps, Scrolls
<1> HIDE DEF s
<1>5. cursor_x' \in 0 .. Cols - 1
  BY <1>1, <1>3, Sizes DEF StepsTo
<1>6. NewRow(c) \in Nat
  BY <1>1, <1>2, <1>4, Sizes DEF StepsTo
<1>7. cursor_y' \in 0 .. Rows - 1
  BY <1>3, <1>4, <1>6, Sizes
<1>8. screen \in [1 .. Height -> CellRows] /\ paper \in [1 .. PaperRows -> CellRows]
  BY DEF ConsoleType
<1>9. /\ drawn \in [1 .. Height -> CellRows] /\ pop \in [1 .. PaperRows -> CellRows]
      /\ Window(drawn, pop)
  <2>1. CASE s.put
    <3> DEFINE x == s.px
               g == s.glyph
               y == cursor_y
               d == Draw(screen, y, x, g)
               t == [paper EXCEPT ![Above + y + 1][x + 1] = g]
    <3>1. x \in 0 .. Cols - 1 /\ g \in Cells /\ y \in 0 .. Rows - 1
      BY <1>1, <1>2, <2>1 DEF StepsTo
    <3>2. drawn = d /\ pop = t
      BY <2>1 DEF WrittenPaper
    <3> HIDE DEF x, g, y, drawn, pop
    <3>3. /\ Draw(screen, y, x, g) \in [1 .. Height -> CellRows]
          /\ [paper EXCEPT ![Above + y + 1][x + 1] = g] \in [1 .. PaperRows -> CellRows]
          /\ Window(Draw(screen, y, x, g), [paper EXCEPT ![Above + y + 1][x + 1] = g])
      BY <1>8, <3>1, DrawKeeps
    <3> QED
      BY <3>2, <3>3
  <2>2. CASE ~s.put
    BY <1>8, <2>2 DEF WrittenPaper
  <2> QED
    BY <2>1, <2>2
<1> HIDE DEF drawn, pop
<1>10. CASE Scrolls(c)
  <2>1. /\ Scroll(drawn) \in [1 .. Height -> CellRows]
        /\ Append(Tail(pop), BlankRow) \in [1 .. PaperRows -> CellRows]
        /\ Window(Scroll(drawn), Append(Tail(pop), BlankRow))
    BY <1>9, ScrollKeeps
  <2> QED
    BY <1>3, <1>5, <1>7, <1>10, <2>1
<1>11. CASE ~Scrolls(c)
  BY <1>3, <1>5, <1>7, <1>9, <1>11
<1> QED
  BY <1>10, <1>11

\* An empty screen is a window on empty paper.
LEMMA ClearedWindow ==
  /\ Cleared \in [1 .. Height -> CellRows] /\ Page \in [1 .. PaperRows -> CellRows]
  /\ Window(Cleared, Page)
<1>1. Cleared \in [1 .. Height -> CellRows] /\ Page \in [1 .. PaperRows -> CellRows]
  BY BlankIsRow DEF Cleared, Page
<1>2. ASSUME NEW l \in 1 .. Height, l <= Rows * Band
      PROVE  Page[Above + 1 + ((l - 1) \div Band)] = BlankRow
  <2> DEFINE q == (l - 1) \div Band
  <2>1. q \in Nat /\ q < Rows
    <3>1. l \in Nat \ {0}
      BY Sizes
    <3> QED
      BY <1>2, <3>1, Sizes, RowOfLine
  <2> HIDE DEF q
  <2>2. Above + 1 + q \in 1 .. PaperRows
    BY <2>1, Sizes
  <2> QED
    BY <2>2 DEF Page, q
<1> QED
  BY <1>1, <1>2 DEF Window, Cleared

-----------------------------------------------------------------------------
(* The console: the window is kept *)

\* The types of what a character and the cleared screen leave, with the rest.
Shown ==
  /\ screen' \in [1 .. Height -> CellRows] /\ paper' \in [1 .. PaperRows -> CellRows]
  /\ Window(screen', paper')
  /\ cursor_x' \in 0 .. Cols - 1 /\ cursor_y' \in 0 .. Rows - 1

ReadType ==
  /\ reading \in BOOLEAN /\ stuck \in BOOLEAN
  /\ buf \in Seq(Glyphs) /\ Len(buf) <= LineMax - 1 /\ from \in Int

\* The invariant from its two halves: what is shown and what is read.
LEMMA ShownKeeps ==
  ASSUME Shown, UNCHANGED gfx_active, gfx_active \in BOOLEAN, gui' \in BOOLEAN, ReadType',
         ~(reading' /\ gui')
  PROVE  ScreenInv'
<1>1. Height' = Height /\ Band' = Band
  BY DEF Height, Band
<1>2. Window(screen, paper)' <=> Window(screen', paper')
  BY <1>1 DEF Window
<1> QED
  BY <1>1, <1>2 DEF Shown, ReadType, ConsoleType, ScreenInv

\* After a clear the screen is a window on an empty paper.
LEMMA ClearShows == ASSUME Clear PROVE Shown
<1>1. screen' = Cleared /\ paper' = Page /\ cursor_x' = 0 /\ cursor_y' = 0
  BY DEF Clear
<1>2. 0 \in 0 .. Cols - 1 /\ 0 \in 0 .. Rows - 1
  BY Sizes
<1> QED
  BY <1>1, <1>2, ClearedWindow DEF Shown

\* After a character the screen is a window on the paper.
LEMMA PutcShows ==
  ASSUME ConsoleType, Window(screen, paper), NEW c \in Glyphs \cup Controls, putc(c),
         UNCHANGED gfx_active
  PROVE  Shown
  BY PutcKeeps DEF Shown

\* The window moves with what the line editor does; its buffer has room left for
\* the terminator.
LEMMA ReadKeeps ==
  ASSUME ScreenInv, ReadBackspace \/ ReadEnd \/ \E c \in Glyphs : ReadGlyph(c)
  PROVE  ScreenInv'
<1>1. ConsoleType /\ reading /\ ~gui /\ Window(screen, paper)
  BY DEF ScreenInv, ReadBackspace, ReadEnd, ReadGlyph
<1>2. ReadType /\ gfx_active \in BOOLEAN /\ Cols \in Int /\ LineMax \in Nat \ {0}
  BY <1>1, ConsoleAssumption DEF ConsoleType, ReadType
<1>3. CASE ReadBackspace
  <2>1. putc("backspace") /\ UNCHANGED <<gfx_active, gui>>
    BY <1>3 DEF ReadBackspace
  <2>2. Shown
    BY <1>1, <2>1, PutcShows DEF Controls
  <2>3. buf' \in Seq(Glyphs) /\ Len(buf') <= LineMax - 1
    <3>1. buf # <<>> /\ buf' = SubSeq(buf, 1, Len(buf) - 1)
      BY <1>3 DEF ReadBackspace
    <3>2. buf \in Seq(Glyphs) /\ Len(buf) \in Nat /\ Len(buf) > 0 /\ Len(buf) <= LineMax - 1
      BY <1>2, <3>1 DEF ReadType
    <3> QED
      BY <1>2, <3>1, <3>2
  <2>4. reading' \in BOOLEAN /\ stuck' \in BOOLEAN /\ from' \in Int
    BY <1>2, <1>3 DEF ReadBackspace, KeepFrom, ReadType
  <2>5. ReadType' /\ ~gui' /\ gui' \in BOOLEAN
    BY <1>1, <2>1, <2>3, <2>4 DEF ReadType, ConsoleType
  <2> QED
    BY <1>2, <2>1, <2>2, <2>5, ShownKeeps
<1>4. CASE ReadEnd
  <2>1. putc("newline") /\ UNCHANGED <<gfx_active, gui>>
    BY <1>4 DEF ReadEnd
  <2>2. Shown
    BY <1>1, <2>1, PutcShows DEF Controls
  <2>3. buf' = <<>> /\ from' = 0 /\ reading' = FALSE /\ stuck' = FALSE
    BY <1>4 DEF ReadEnd
  <2>4. reading' \in BOOLEAN /\ stuck' \in BOOLEAN /\ ~gui' /\ gui' \in BOOLEAN
    BY <1>1, <2>1, <2>3 DEF ConsoleType
  <2>5. <<>> \in Seq(Glyphs) /\ Len(<<>>) = 0 /\ 0 <= LineMax - 1 /\ 0 \in Int
    BY <1>2
  <2>6. ReadType'
    BY <2>3, <2>4, <2>5 DEF ReadType
  <2> QED
    BY <1>2, <2>1, <2>2, <2>4, <2>6, ShownKeeps
<1>5. ASSUME NEW c \in Glyphs, ReadGlyph(c) PROVE ScreenInv'
  <2>1. putc(c) /\ UNCHANGED <<gfx_active, gui, reading, stuck>>
    BY <1>5 DEF ReadGlyph
  <2>2. Shown
    BY <1>1, <2>1, PutcShows
  <2>3. buf' = Append(buf, c) /\ Len(buf) + 1 < LineMax
    BY <1>5 DEF ReadGlyph
  <2>4. buf' \in Seq(Glyphs) /\ Len(buf') <= LineMax - 1
    BY <1>2, <2>3 DEF ReadType
  <2>5. from' \in Int
    BY <1>2, <1>5 DEF ReadGlyph, KeepFrom, ReadType
  <2>6. ReadType' /\ ~gui' /\ gui' \in BOOLEAN
    BY <1>1, <1>2, <2>1, <2>4, <2>5 DEF ReadType, ConsoleType
  <2> QED
    BY <1>2, <2>1, <2>2, <2>6, ShownKeeps
<1> QED
  BY <1>3, <1>4, <1>5

\* vga_init and gfxcon_init leave an empty screen over an empty paper.
LEMMA ScreenStart == ASSUME ConsoleInit PROVE ScreenInv
<1>1. /\ screen = Cleared /\ paper = Page /\ cursor_x = 0 /\ cursor_y = 0 /\ buf = <<>>
      /\ from = 0 /\ gfx_active \in BOOLEAN /\ gui = FALSE /\ reading = FALSE /\ stuck = FALSE
  BY DEF ConsoleInit
<1>2. 0 \in 0 .. Cols - 1 /\ 0 \in 0 .. Rows - 1 /\ 0 <= LineMax - 1
  BY Sizes, ConsoleAssumption
<1>3. <<>> \in Seq(Glyphs) /\ Len(<<>>) = 0
  OBVIOUS
<1>4. gui \in BOOLEAN /\ reading \in BOOLEAN /\ stuck \in BOOLEAN /\ ~(reading /\ gui)
  BY <1>1
<1>5. ConsoleType
  BY <1>1, <1>2, <1>3, <1>4, ClearedWindow DEF ConsoleType
<1> QED
  BY <1>1, <1>4, <1>5, ClearedWindow DEF ScreenInv

\* Every step keeps the window, one action at a time.
LEMMA ScreenStep ==
  ASSUME ScreenInv, [ConsoleNext]_consoleVars
  PROVE  ScreenInv'
<1>1. ConsoleType /\ ~(reading /\ gui) /\ gfx_active \in BOOLEAN /\ gui \in BOOLEAN /\ ReadType
  BY DEF ScreenInv, ConsoleType, ReadType
<1>2. UNCHANGED readVars => ReadType' /\ reading' = reading
  BY <1>1 DEF ReadType, readVars
<1>3. ASSUME NEW c \in Glyphs \cup Controls, Put(c) PROVE ScreenInv'
  <2>1. ~gui /\ putc(c) /\ UNCHANGED <<gfx_active, gui, readVars>>
    BY <1>3 DEF Put
  <2>2. Shown
    BY <1>1, <2>1, PutcShows DEF ScreenInv
  <2> QED
    BY <1>1, <1>2, <2>1, <2>2, ShownKeeps
<1>4. CASE vga_clear
  <2>1. ~gui /\ Clear /\ UNCHANGED <<gfx_active, gui, readVars>>
    BY <1>4 DEF vga_clear
  <2> QED
    BY <1>1, <1>2, <2>1, ClearShows, ShownKeeps
<1>5. ASSUME NEW x \in 0 .. Cols, NEW y \in 0 .. Rows, vga_set_cursor(x, y) PROVE ScreenInv'
  <2>1. /\ ~gui /\ UNCHANGED <<gfx_active, screen, gui, paper, readVars>>
        /\ cursor_x' = Least(x, Cols - 1) /\ cursor_y' = Least(y, Rows - 1)
    BY <1>5 DEF vga_set_cursor
  <2>2. cursor_x' \in 0 .. Cols - 1 /\ cursor_y' \in 0 .. Rows - 1
    BY <2>1, Sizes DEF Least
  <2>3. Shown
    BY <1>1, <2>1, <2>2 DEF ScreenInv, ConsoleType, Shown
  <2> QED
    BY <1>1, <1>2, <2>1, <2>3, ShownKeeps
<1>6. CASE ReadBegin
  <2>1. /\ ~gui /\ UNCHANGED <<gfx_active, screen, cursor, gui, paper>>
        /\ reading' = TRUE /\ buf' = <<>> /\ from' = Place /\ stuck' = FALSE
    BY <1>6 DEF ReadBegin
  <2>2. Shown
    BY <1>1, <2>1 DEF ScreenInv, ConsoleType, Shown, cursor
  <2>3. Place \in Int
    BY <1>1, Sizes DEF ConsoleType, Place
  <2>4. <<>> \in Seq(Glyphs) /\ Len(<<>>) = 0 /\ 0 <= LineMax - 1
    BY ConsoleAssumption
  <2>5. ReadType'
    <3>1. reading' \in BOOLEAN /\ stuck' \in BOOLEAN
      BY <2>1
    <3> QED
      BY <2>1, <2>3, <2>4, <3>1 DEF ReadType
  <2> QED
    BY <1>1, <2>1, <2>2, <2>5, ShownKeeps
<1>7. CASE ReadBackspace \/ ReadEnd \/ \E c \in Glyphs : ReadGlyph(c)
  BY <1>7, ReadKeeps
<1>8. CASE GuiBegin
  <2>1. ~reading /\ gui' = TRUE /\ UNCHANGED <<gfx_active, screen, cursor, paper, readVars>>
    BY <1>8 DEF GuiBegin
  <2>2. Height' = Height
    BY <2>1 DEF Height, Band
  <2> QED
    BY <1>1, <1>2, <2>1, <2>2 DEF ScreenInv, ConsoleType, ReadType, cursor
<1>9. CASE GuiPresent
  <2>1. /\ gui /\ UNCHANGED <<gfx_active, cursor, gui, paper, readVars>>
    BY <1>9 DEF GuiPresent
  <2>2. Height' = Height
    BY <2>1 DEF Height, Band
  <2>3. PICK size \in BackBuffers : screen' = Covered(size)
    BY <1>9 DEF GuiPresent
  <2>4. screen' \in [1 .. Height -> CellRows]
    <3>1. ASSUME NEW l \in 1 .. Height
          PROVE [x \in 1 .. Cols |-> IF (l - 1) * Cols + x <= size
                                     THEN "pixels" ELSE screen[l][x]] \in CellRows
      <4>1. screen[l] \in [1 .. Cols -> Cells] /\ "pixels" \in Cells
        BY <1>1 DEF ConsoleType, CellRows, Cells
      <4> QED
        BY <4>1 DEF CellRows
    <3> QED
      BY <2>3, <3>1 DEF Covered
  <2> QED
    <3>1. ReadType' /\ reading' = reading
      BY <1>2, <2>1
    <3>2. ConsoleType'
      BY <1>1, <2>1, <2>2, <2>4, <3>1 DEF ConsoleType, ReadType, cursor
    <3> QED
      BY <1>1, <2>1, <3>1, <3>2 DEF ScreenInv
<1>10. CASE GuiEnd
  <2>1. gui /\ gui' = FALSE /\ Clear /\ UNCHANGED <<gfx_active, readVars>>
    BY <1>10 DEF GuiEnd
  <2> QED
    BY <1>1, <1>2, <2>1, ClearShows, ShownKeeps
<1>11. CASE UNCHANGED consoleVars
  <2>1. UNCHANGED <<gfx_active, screen, cursor_x, cursor_y, gui, paper, reading, buf, from, stuck>>
    BY <1>11 DEF consoleVars, cursor, readVars
  <2> QED
    BY <2>1 DEF ScreenInv, ConsoleType, Window, Height, Band
<1> QED
  BY <1>3, <1>4, <1>5, <1>6, <1>7, <1>8, <1>9, <1>10, <1>11 DEF ConsoleNext

\* The screen is a window on what was printed (scroll_if_needed, scroll_up,
\* vesa_put_char), for any size of the screen, any height of the font and any
\* number of lines left under the last row, also after the GUI has drawn over it.
THEOREM AlwaysShowsPaper == ConsoleSpec => []ShowsPaper
<1>1. ConsoleInit => ScreenInv
  BY ScreenStart
<1>2. ScreenInv /\ [ConsoleNext]_consoleVars => ScreenInv'
  BY ScreenStep
<1>3. ScreenInv => ShowsPaper
  BY WindowShows DEF ScreenInv, ShowsPaper, Above
<1> QED
  BY <1>1, <1>2, <1>3, PTL DEF ConsoleSpec

-----------------------------------------------------------------------------
(* The console: the echo of a line *)

\* The cell at place k of a paper.
CellAt(pap, k) == pap[(k \div Cols) + 1][(k % Cols) + 1]

\* The row and the column of a place on the paper.
LEMMA PlaceIn ==
  ASSUME NEW k \in Nat, k < PaperRows * Cols
  PROVE  /\ k \div Cols \in Nat /\ k \div Cols < PaperRows
         /\ k % Cols \in 0 .. Cols - 1 /\ k = (k \div Cols) * Cols + (k % Cols)
<1>1. Cols \in Nat \ {0} /\ PaperRows \in Nat
  BY Sizes
<1>2. k \div Cols \in Nat /\ k % Cols \in 0 .. Cols - 1 /\ k = (k \div Cols) * Cols + (k % Cols)
  BY <1>1, DivMod
<1> DEFINE l == k + 1
<1>3. l \in Nat \ {0} /\ l - 1 = k
  OBVIOUS
<1>4. PaperRows * Cols \in Nat
  BY <1>1
<1>5. l <= PaperRows * Cols
  BY <1>4
<1> HIDE DEF l
<1>6. (l - 1) \div Cols < PaperRows
  BY <1>1, <1>3, <1>5, RowOfLine
<1> QED
  BY <1>2, <1>3, <1>6

\* A paper with g written in row y of the screen.
Penned(pap, y, x, g) == [pap EXCEPT ![Above + y + 1][x + 1] = g]

\* Writing in row y and column x changes that place and no other.
LEMMA CellPut ==
  ASSUME NEW pap \in [1 .. PaperRows -> CellRows], NEW y \in 0 .. Rows - 1,
         NEW x \in 0 .. Cols - 1, NEW g, NEW k \in Nat, k < PaperRows * Cols
  PROVE  CellAt(Penned(pap, y, x, g), k) =
           IF k = (Above + y) * Cols + x THEN g ELSE CellAt(pap, k)
<1> DEFINE q == k \div Cols
           r == k % Cols
           a == Above + y
           pop == [pap EXCEPT ![a + 1][x + 1] = g]
<1>1. q \in Nat /\ q < PaperRows /\ r \in 0 .. Cols - 1 /\ k = q * Cols + r
  BY PlaceIn
<1>2. a \in Nat /\ a + 1 \in 1 .. PaperRows /\ x + 1 \in 1 .. Cols /\ Cols \in Nat \ {0}
  BY Sizes
<1>3. k = a * Cols + x <=> q = a /\ r = x
  <2> HIDE DEF a
  <2>1. (a * Cols + x) \div Cols = a /\ (a * Cols + x) % Cols = x
    BY <1>2, DivIs
  <2>2. q = a /\ r = x => k = a * Cols + x
    <3> HIDE DEF q, r
    <3> QED
      BY <1>1
  <2>3. k = a * Cols + x => k \div Cols = (a * Cols + x) \div Cols /\ k % Cols = (a * Cols + x) % Cols
    BY Zenon
  <2> QED
    BY <2>1, <2>2, <2>3
<1> HIDE DEF q, r, a
<1>4. pap[a + 1] \in CellRows
  BY <1>2
<1>5. DOMAIN pap = 1 .. PaperRows /\ DOMAIN pap[a + 1] = 1 .. Cols
  BY <1>4 DEF CellRows
<1>6. \A j \in 1 .. PaperRows : pop[j] = IF j = a + 1 THEN [pap[j] EXCEPT ![x + 1] = g] ELSE pap[j]
  BY <1>2, <1>5
<1>7. q + 1 \in 1 .. PaperRows /\ r + 1 \in 1 .. Cols
  BY <1>1, <1>2, Sizes
<1> HIDE DEF pop
<1>8. pop[q + 1][r + 1] = IF q = a /\ r = x THEN g ELSE pap[q + 1][r + 1]
  <2>1. CASE q = a
    <3>1. pop[q + 1] = [pap[q + 1] EXCEPT ![x + 1] = g]
      BY <1>6, <1>7, <2>1
    <3>2. r + 1 = x + 1 <=> r = x
      BY <1>1
    <3>3. DOMAIN pap[q + 1] = 1 .. Cols
      BY <1>5, <2>1
    <3> QED
      BY <1>7, <2>1, <3>1, <3>2, <3>3
  <2>2. CASE q # a
    <3>1. q + 1 # a + 1
      BY <1>1, <1>2, <2>2
    <3> QED
      BY <1>6, <1>7, <2>2, <3>1
  <2> QED
    BY <2>1, <2>2
<1> QED
  BY <1>3, <1>8 DEF CellAt, Penned, pop, q, r, a

\* Scrolling moves every place up by a row.
LEMMA CellUp ==
  ASSUME NEW pap \in [1 .. PaperRows -> CellRows], NEW k \in Nat, k < PaperRows * Cols,
         Cols <= k
  PROVE  CellAt(Append(Tail(pap), BlankRow), k - Cols) = CellAt(pap, k)
<1> DEFINE j == k - Cols
           q == j \div Cols
           r == j % Cols
           pop == Append(Tail(pap), BlankRow)
<1>1. Cols \in Nat \ {0} /\ PaperRows \in Nat \ {0}
  BY Sizes
<1>2. j \in Nat /\ k = j + Cols
  BY <1>1
<1> HIDE DEF j
<1>3. q \in Nat /\ r \in 0 .. Cols - 1 /\ j = q * Cols + r
  BY <1>1, <1>2, DivMod
<1> HIDE DEF q, r
<1>4. k = (q + 1) * Cols + r
  <2>1. (q + 1) * Cols = q * Cols + Cols /\ q * Cols \in Nat
    BY <1>1, <1>3
  <2> QED
    BY <1>1, <1>2, <1>3, <2>1
<1>5. k \div Cols = q + 1 /\ k % Cols = r
  <2>1. q + 1 \in Nat
    BY <1>3
  <2>2. ((q + 1) * Cols + r) \div Cols = q + 1 /\ ((q + 1) * Cols + r) % Cols = r
    BY <1>1, <1>3, <2>1, DivIs
  <2> QED
    BY <1>4, <2>2
<1>6. q + 1 < PaperRows
  BY <1>5, PlaceIn
<1>7. pop = [i \in 1 .. PaperRows |-> IF i < PaperRows THEN pap[i + 1] ELSE BlankRow]
  BY PaperUp
<1> HIDE DEF pop
<1>8. q + 1 \in 1 .. PaperRows
  BY <1>1, <1>3, <1>6
<1>9. pop[q + 1] = pap[q + 1 + 1]
  BY <1>6, <1>7, <1>8
<1>10. CellAt(pop, j) = pop[q + 1][r + 1]
  BY DEF CellAt, q, r
<1>11. CellAt(pap, k) = pap[q + 1 + 1][r + 1]
  BY <1>5 DEF CellAt
<1> QED
  BY <1>9, <1>10, <1>11 DEF pop, j

\* The paper that is remembered has room for the longest line above the last row.
EnoughPaper == LineMax - 1 <= (PaperRows - 1) * Cols

\* What stands on paper pap from place f on.
Reads(pap, f, t) == \A i \in 1 .. Len(t) : CellAt(pap, f + i - 1) = t[i]

\* The buffer is what stands on the paper up to the cursor, which has not been
\* lost at the top.
Echoed == reading /\ ~stuck => /\ from \in Nat /\ Place = from + Len(buf)
                               /\ Reads(paper, from, buf)

\* The cursor is at a place on the paper.
LEMMA PlaceIs ==
  ASSUME ConsoleType
  PROVE  /\ Place = (Above + cursor_y) * Cols + cursor_x
         /\ Place \in Nat /\ Place < PaperRows * Cols
<1>1. cursor_x \in 0 .. Cols - 1 /\ cursor_y \in 0 .. Rows - 1
  BY DEF ConsoleType
<1> DEFINE a == Above + cursor_y
<1>2. a \in Nat /\ a + 1 <= PaperRows /\ Cols \in Nat \ {0} /\ PaperRows \in Nat
  BY <1>1, Sizes
<1>3. Place = a * Cols + cursor_x
  BY DEF Place, Above
<1> HIDE DEF a
<1>4. (a + 1) * Cols <= PaperRows * Cols /\ (a + 1) * Cols = a * Cols + Cols
  BY <1>2
<1>5. a * Cols \in Nat /\ PaperRows * Cols \in Nat
  BY <1>2
<1> QED
  BY <1>1, <1>2, <1>3, <1>4, <1>5 DEF a

\* Where the cursor is after a glyph.
LEMMA GlyphMoves ==
  ASSUME ConsoleType, NEW c \in Glyphs, putc(c)
  PROVE  /\ WrittenPaper(Step(c)) = [paper EXCEPT ![Above + cursor_y + 1][cursor_x + 1] = c]
         /\ ~Scrolls(c) => Place' = Place + 1
         /\ Scrolls(c) => Place' = Place + 1 - Cols /\ Place' = (PaperRows - 1) * Cols
<1>1. cursor_x \in 0 .. Cols - 1 /\ cursor_y \in 0 .. Rows - 1
  BY DEF ConsoleType
<1>2. Step(c) = [x |-> cursor_x + 1, y |-> cursor_y, put |-> TRUE, px |-> cursor_x, glyph |-> c]
  BY GlyphStep
<1>3. Step(c).x = cursor_x + 1 /\ Step(c).y = cursor_y /\ Step(c).px = cursor_x /\ Step(c).glyph = c
  BY <1>2
<1>4. Step(c).put
  <2> DEFINE r == [x |-> cursor_x + 1, y |-> cursor_y, put |-> TRUE, px |-> cursor_x, glyph |-> c]
  <2>1. r.put
    BY Zenon
  <2>2. Step(c) = r
    BY <1>2
  <2> HIDE DEF r
  <2> QED
    BY <2>1, <2>2
<1>5. WrittenPaper(Step(c)) = [paper EXCEPT ![Above + cursor_y + 1][cursor_x + 1] = c]
  BY <1>3, <1>4 DEF WrittenPaper
<1> DEFINE wraps == cursor_x + 1 >= Cols
           row == IF wraps THEN cursor_y + 1 ELSE cursor_y
           a == Above + cursor_y
<1>6. /\ Scrolls(c) <=> row >= Rows
      /\ cursor_x' = (IF wraps THEN 0 ELSE cursor_x + 1)
      /\ cursor_y' = (IF Scrolls(c) THEN Rows - 1 ELSE row)
  BY <1>3 DEF putc, Wraps, NewRow, Scrolls
<1>7. Place = a * Cols + cursor_x /\ Place' = (Above + cursor_y') * Cols + cursor_x'
  BY DEF Place, Above
<1>8. a \in Nat /\ Cols \in Nat \ {0} /\ PaperRows \in Nat \ {0} /\ Above \in Nat
  BY <1>1, Sizes
<1>9. (a + 1) * Cols = a * Cols + Cols /\ a * Cols \in Nat
  BY <1>8
<1>10. CASE ~wraps
  <2>1. ~Scrolls(c) /\ cursor_y' = cursor_y /\ cursor_x' = cursor_x + 1
    BY <1>1, <1>6, <1>10, Sizes
  <2>2. Above + cursor_y' = a
    BY <2>1
  <2> HIDE DEF a
  <2> QED
    BY <1>1, <1>5, <1>7, <1>9, <2>1, <2>2
<1>11. CASE wraps /\ cursor_y + 1 < Rows
  <2>1. ~Scrolls(c) /\ cursor_y' = cursor_y + 1 /\ cursor_x' = 0 /\ cursor_x = Cols - 1
    BY <1>1, <1>6, <1>11, Sizes
  <2>2. Above + cursor_y' = a + 1
    BY <1>1, <1>8, <2>1
  <2> HIDE DEF a
  <2> QED
    BY <1>5, <1>7, <1>8, <1>9, <2>1, <2>2
<1>12. CASE wraps /\ ~(cursor_y + 1 < Rows)
  <2>1. Scrolls(c) /\ cursor_y' = Rows - 1 /\ cursor_x' = 0 /\ cursor_x = Cols - 1
    BY <1>1, <1>6, <1>12, Sizes
  <2>2. cursor_y = Rows - 1
    BY <1>1, <1>12, Sizes
  <2>3. Above + cursor_y' = a /\ a = PaperRows - 1
    BY <2>1, <2>2, Sizes
  <2> HIDE DEF a
  <2> QED
    BY <1>5, <1>7, <1>8, <1>9, <2>1, <2>3
<1> QED
  BY <1>10, <1>11, <1>12

\* A glyph that is typed goes to the buffer and to the paper, also where it wraps
\* and scrolls.
LEMMA GlyphEchoes ==
  ASSUME ScreenInv, Echoed, EnoughPaper, NEW c \in Glyphs, ReadGlyph(c)
  PROVE  Echoed'
<1> SUFFICES ASSUME reading', ~stuck'
             PROVE  from' \in Nat /\ Place' = from' + Len(buf') /\ Reads(paper', from', buf')
  BY DEF Echoed, Reads, CellAt
<1> DEFINE w == WrittenPaper(Step(c))
           t == Append(buf, c)
           n == Len(buf)
<1>1. /\ reading /\ ~stuck /\ putc(c) /\ buf' = t /\ n + 1 < LineMax
      /\ from' = (IF Scrolls(c) THEN from - Cols ELSE from)
  BY DEF ReadGlyph, KeepFrom
<1>2. ConsoleType /\ paper \in [1 .. PaperRows -> CellRows] /\ buf \in Seq(Glyphs) /\ n \in Nat
  BY DEF ScreenInv, ConsoleType
<1>3. from \in Nat /\ Place = from + n /\ Reads(paper, from, buf)
  BY <1>1 DEF Echoed
<1>4. Place = (Above + cursor_y) * Cols + cursor_x /\ Place \in Nat /\ Place < PaperRows * Cols
  BY <1>2, PlaceIs
<1>5. /\ w = [paper EXCEPT ![Above + cursor_y + 1][cursor_x + 1] = c]
      /\ ~Scrolls(c) => Place' = Place + 1
      /\ Scrolls(c) => Place' = Place + 1 - Cols /\ Place' = (PaperRows - 1) * Cols
  BY <1>1, <1>2, GlyphMoves
<1>6. paper' = IF Scrolls(c) THEN Append(Tail(w), BlankRow) ELSE w
  BY <1>1, PaperAfter
<1>7. w \in [1 .. PaperRows -> CellRows]
  <2>1. cursor_x \in 0 .. Cols - 1 /\ cursor_y \in 0 .. Rows - 1 /\ c \in Cells
    BY <1>2 DEF ConsoleType, Cells
  <2>2. ~gui /\ Window(screen, paper) /\ screen \in [1 .. Height -> CellRows]
    BY <1>1, <1>2 DEF ScreenInv, ConsoleType
  <2>3. [paper EXCEPT ![Above + cursor_y + 1][cursor_x + 1] = c] \in [1 .. PaperRows -> CellRows]
    BY <1>2, <2>1, <2>2, DrawKeeps
  <2> QED
    BY <1>5, <2>3
<1>8. Len(t) = n + 1 /\ t[n + 1] = c /\ (\A i \in 1 .. n : t[i] = buf[i])
  BY <1>2
<1> HIDE DEF w, t, n
<1>9. ASSUME NEW i \in 1 .. n + 1 PROVE CellAt(w, from + i - 1) = t[i]
  <2> DEFINE k == from + i - 1
  <2>1. k \in Nat /\ k <= Place /\ (k = Place <=> i = n + 1) /\ k < PaperRows * Cols
    <3>1. PaperRows * Cols \in Nat
      BY Sizes
    <3> QED
      BY <1>2, <1>3, <1>4, <3>1
  <2>2. cursor_x \in 0 .. Cols - 1 /\ cursor_y \in 0 .. Rows - 1
    BY <1>2 DEF ConsoleType
  <2> HIDE DEF k
  <2>3. CellAt(w, k) = IF k = (Above + cursor_y) * Cols + cursor_x THEN c ELSE CellAt(paper, k)
    <3>1. w = Penned(paper, cursor_y, cursor_x, c)
      BY <1>5 DEF Penned
    <3>2. CellAt(Penned(paper, cursor_y, cursor_x, c), k) =
            IF k = (Above + cursor_y) * Cols + cursor_x THEN c ELSE CellAt(paper, k)
      BY <1>2, <2>1, <2>2, CellPut
    <3> QED
      BY <3>1, <3>2
  <2>4. CASE i = n + 1
    BY <1>4, <1>8, <2>1, <2>3, <2>4 DEF k
  <2>5. CASE i # n + 1
    <3>1. i \in 1 .. n /\ k # Place
      BY <1>2, <2>1, <2>5
    <3>2. CellAt(paper, k) = buf[i]
      BY <1>3, <3>1 DEF Reads, k, n
    <3> QED
      BY <1>4, <1>8, <2>3, <3>1, <3>2 DEF k
  <2> QED
    BY <2>4, <2>5
<1>10. CASE ~Scrolls(c)
  <2>1. from' = from /\ paper' = w /\ Place' = Place + 1
    BY <1>1, <1>5, <1>6, <1>10
  <2>2. Place' = from' + Len(buf')
    BY <1>1, <1>2, <1>3, <1>8, <2>1
  <2>3. Reads(paper', from', buf')
    BY <1>1, <1>8, <1>9, <2>1 DEF Reads
  <2> QED
    BY <1>3, <2>1, <2>2, <2>3
<1>11. CASE Scrolls(c)
  <2>1. /\ from' = from - Cols /\ paper' = Append(Tail(w), BlankRow)
        /\ Place' = Place + 1 - Cols /\ Place' = (PaperRows - 1) * Cols
    BY <1>1, <1>5, <1>6, <1>11
  <2>2. Cols \in Nat \ {0} /\ (PaperRows - 1) * Cols \in Int /\ LineMax \in Nat
    BY Sizes, ConsoleAssumption
  <2>3. Place' = from' + Len(buf')
    BY <1>1, <1>2, <1>3, <1>8, <2>1, <2>2
  <2>4. from >= Cols /\ from' \in Nat
    <3>1. n + 1 <= (PaperRows - 1) * Cols
      BY <1>1, <1>2, <2>2 DEF EnoughPaper
    <3>2. from + n + 1 - Cols = (PaperRows - 1) * Cols
      BY <1>3, <2>1
    <3> QED
      BY <1>2, <1>3, <2>1, <2>2, <3>1, <3>2
  <2>5. ASSUME NEW i \in 1 .. n + 1 PROVE CellAt(paper', from' + i - 1) = t[i]
    <3> DEFINE k == from + i - 1
    <3>1. k \in Nat /\ Cols <= k /\ k < PaperRows * Cols /\ from' + i - 1 = k - Cols
      <4>1. PaperRows * Cols \in Nat
        BY Sizes
      <4> QED
        BY <1>2, <1>3, <1>4, <2>1, <2>2, <2>4, <4>1
    <3>2. CellAt(w, k) = t[i]
      BY <1>9
    <3> HIDE DEF k
    <3>3. CellAt(Append(Tail(w), BlankRow), k - Cols) = CellAt(w, k)
      BY <1>7, <3>1, CellUp
    <3> QED
      BY <2>1, <3>1, <3>2, <3>3
  <2>6. Reads(paper', from', buf')
    BY <1>1, <1>8, <2>5 DEF Reads
  <2> QED
    BY <2>3, <2>4, <2>6
<1> QED
  BY <1>10, <1>11

\* A backspace right of the left edge takes the last glyph of the buffer off.
LEMMA BackspaceEchoes ==
  ASSUME ScreenInv, Echoed, ReadBackspace
  PROVE  Echoed'
<1> SUFFICES ASSUME reading', ~stuck'
             PROVE  from' \in Nat /\ Place' = from' + Len(buf') /\ Reads(paper', from', buf')
  BY DEF Echoed, Reads, CellAt
<1> DEFINE t == SubSeq(buf, 1, Len(buf) - 1)
           n == Len(buf)
           x == cursor_x - 1
           y == cursor_y
           s == Step("backspace")
<1>1. ConsoleType /\ paper \in [1 .. PaperRows -> CellRows] /\ buf \in Seq(Glyphs) /\ n \in Nat
  BY DEF ScreenInv, ConsoleType
<1>2. /\ reading /\ buf # <<>> /\ putc("backspace") /\ buf' = t /\ ~stuck /\ cursor_x # 0
      /\ from' = (IF Scrolls("backspace") THEN from - Cols ELSE from)
  BY DEF ReadBackspace, KeepFrom
<1>3. from \in Nat /\ Place = from + n /\ Reads(paper, from, buf)
  BY <1>2 DEF Echoed
<1>4. /\ cursor_x \in 0 .. Cols - 1 /\ y \in 0 .. Rows - 1 /\ x \in 0 .. Cols - 1 /\ cursor_x = x + 1
      /\ cursor_x > 0 /\ Above + y \in Nat
  BY <1>1, <1>2, Sizes DEF ConsoleType
<1>5. s = [x |-> x, y |-> y, put |-> TRUE, px |-> x, glyph |-> " "]
  <2>1. cursor_x > 0
    BY <1>4
  <2> QED
    BY <2>1, BackspaceStep, Zenon
<1>6. n > 0 /\ Len(t) = n - 1 /\ (\A i \in 1 .. n - 1 : t[i] = buf[i])
  <2>1. n > 0
    BY <1>1, <1>2, EmptySeq
  <2>2. n - 1 \in 0 .. n
    BY <1>1, <2>1
  <2> QED
    <3>1. \A i \in 1 .. n - 1 : buf[i] \in Glyphs
      BY <1>1, <2>2
    <3> DEFINE m == n - 1
    <3>2. m \in Nat /\ 1 \in Int /\ (\A i \in 1 .. m : buf[i] \in Glyphs)
      BY <2>2, <3>1
    <3>3. t = SubSeq(buf, 1, m)
      OBVIOUS
    <3> HIDE DEF m, t
    <3>4. /\ Len(SubSeq(buf, 1, m)) = IF 1 <= m THEN m - 1 + 1 ELSE 0
          /\ \A i \in 1 .. m - 1 + 1 : SubSeq(buf, 1, m)[i] = buf[1 + i - 1]
      BY <3>2, SubSeqProperties
    <3>5. Len(t) = m /\ (\A i \in 1 .. m : t[i] = buf[i])
      BY <3>2, <3>3, <3>4
    <3> QED
      BY <2>1, <3>5 DEF m
<1> HIDE DEF n, t
<1>7. s.x = x /\ s.y = y /\ s.px = x /\ s.glyph = " "
  <2> HIDE DEF s, x, y
  <2> QED
    BY <1>5
<1>8. s.put
  <2> DEFINE r == [x |-> x, y |-> y, put |-> TRUE, px |-> x, glyph |-> " "]
  <2>1. r.put
    BY Zenon
  <2>2. s = r
    BY <1>5
  <2> HIDE DEF r, s
  <2> QED
    BY <2>1, <2>2
<1>9. ~Scrolls("backspace") /\ cursor_x' = x /\ cursor_y' = y
  <2> HIDE DEF x, y
  <2>1. ~(x >= Cols) /\ ~(y >= Rows)
    BY <1>4, Sizes
  <2>2. ~Wraps("backspace") /\ NewRow("backspace") = y
    BY <1>7, <2>1 DEF Wraps, NewRow, s
  <2>3. ~Scrolls("backspace")
    BY <2>1, <2>2 DEF Scrolls
  <2> QED
    BY <1>2, <1>7, <2>2, <2>3 DEF putc, s
<1>10. paper' = Penned(paper, y, x, " ")
  <2>1. paper' = WrittenPaper(s)
    BY <1>2, <1>9, PaperAfter
  <2>2. WrittenPaper(s) = [paper EXCEPT ![Above + y + 1][x + 1] = " "]
    BY <1>7, <1>8 DEF WrittenPaper
  <2> QED
    BY <2>1, <2>2 DEF Penned
<1>11. Place = (Above + y) * Cols + x + 1 /\ Place < PaperRows * Cols
  <2>1. Place = (Above + cursor_y) * Cols + cursor_x /\ Place < PaperRows * Cols
    BY <1>1, PlaceIs
  <2>2. (Above + y) * Cols \in Nat
    BY <1>4, Sizes
  <2> QED
    BY <1>4, <2>1, <2>2
<1>12. Place' = (Above + y) * Cols + x
  BY <1>9 DEF Place, Above
<1>13. (Above + y) * Cols \in Nat /\ PaperRows * Cols \in Nat
  BY <1>4, Sizes
<1> HIDE DEF s, x, y
<1>14. from' = from /\ Place' = from' + Len(buf')
  BY <1>1, <1>2, <1>3, <1>4, <1>6, <1>9, <1>11, <1>12, <1>13
<1>15. ASSUME NEW i \in 1 .. n - 1 PROVE CellAt(paper', from + i - 1) = t[i]
  <2> DEFINE k == from + i - 1
  <2>1. k \in Nat /\ k < PaperRows * Cols /\ k # (Above + y) * Cols + x
    BY <1>1, <1>3, <1>4, <1>11, <1>13
  <2>2. i \in 1 .. n
    BY <1>1
  <2>3. CellAt(paper, k) = buf[i]
    BY <1>3, <2>2 DEF Reads, n
  <2> HIDE DEF k
  <2>4. CellAt(Penned(paper, y, x, " "), k) =
          IF k = (Above + y) * Cols + x THEN " " ELSE CellAt(paper, k)
    <3>1. y \in 0 .. Rows - 1 /\ x \in 0 .. Cols - 1 /\ k \in Nat /\ k < PaperRows * Cols
      BY <1>4, <2>1
    <3> DEFINE g == " "
    <3> HIDE DEF g
    <3>2. CellAt(Penned(paper, y, x, g), k) =
            IF k = (Above + y) * Cols + x THEN g ELSE CellAt(paper, k)
      BY <1>1, <3>1, CellPut
    <3> QED
      BY <3>2 DEF g
  <2> QED
    BY <1>6, <1>10, <2>1, <2>3, <2>4 DEF k
<1>16. Reads(paper', from', buf')
  BY <1>2, <1>6, <1>14, <1>15 DEF Reads
<1> QED
  BY <1>3, <1>14, <1>16

\* No other step disturbs what a line being read shows.
LEMMA EchoStep ==
  ASSUME ScreenInv, Echoed, EnoughPaper, [ConsoleNext]_consoleVars
  PROVE  Echoed'
<1>1. ASSUME NEW c \in Glyphs \cup Controls, Put(c) PROVE Echoed'
  BY <1>1 DEF Put, Echoed, readVars
<1>2. CASE vga_clear
  BY <1>2 DEF vga_clear, Echoed, readVars
<1>3. ASSUME NEW x \in 0 .. Cols, NEW y \in 0 .. Rows, vga_set_cursor(x, y) PROVE Echoed'
  BY <1>3 DEF vga_set_cursor, Echoed, readVars
<1>4. CASE ReadBegin
  <2>1. buf' = <<>> /\ from' = Place /\ UNCHANGED <<cursor, paper>>
    BY <1>4 DEF ReadBegin
  <2>2. Place' = Place /\ Place \in Nat
    BY <2>1, PlaceIs DEF ScreenInv, Place, cursor
  <2>3. Len(buf') = 0
    BY <2>1
  <2>4. (\A i \in 1 .. Len(buf) : CellAt(paper, from + i - 1) = buf[i])'
    BY <2>3
  <2> QED
    BY <2>1, <2>2, <2>3, <2>4 DEF Echoed, Reads
<1>5. CASE ReadBackspace
  BY <1>5, BackspaceEchoes
<1>6. CASE ReadEnd
  BY <1>6 DEF ReadEnd, Echoed
<1>7. ASSUME NEW c \in Glyphs, ReadGlyph(c) PROVE Echoed'
  BY <1>7, GlyphEchoes
<1>8. CASE GuiBegin
  BY <1>8 DEF GuiBegin, Echoed, readVars
<1>9. CASE GuiPresent
  BY <1>9 DEF GuiPresent, ScreenInv, Echoed, readVars
<1>10. CASE GuiEnd
  BY <1>10 DEF GuiEnd, ScreenInv, Echoed, readVars
<1>11. CASE UNCHANGED consoleVars
  <2>1. UNCHANGED <<cursor_x, cursor_y, paper, reading, buf, from, stuck>>
    BY <1>11 DEF consoleVars, cursor, readVars
  <2> QED
    BY <2>1 DEF Echoed, Place, Reads, CellAt
<1> QED
  BY <1>1, <1>2, <1>3, <1>4, <1>5, <1>6, <1>7, <1>8, <1>9, <1>10, <1>11 DEF ConsoleNext

\* What keyboard_readline has in its buffer stands on the screen from where it
\* began up to the cursor, over every wrap and scroll, until a backspace at the
\* left edge: for any size of the screen and of the buffer, where the history
\* that the statement looks at is long enough to hold a whole line.
THEOREM AlwaysEchoesLine ==
  ASSUME LineMax - 1 <= (PaperRows - 1) * Cols
  PROVE  ConsoleSpec => []EchoesLine
<1> DEFINE EchoInv == ScreenInv /\ Echoed
<1>1. EnoughPaper
  BY DEF EnoughPaper
<1>2. ConsoleInit => EchoInv
  BY ScreenStart DEF ConsoleInit, Echoed
<1>3. EchoInv /\ [ConsoleNext]_consoleVars => EchoInv'
  BY <1>1, ScreenStep, EchoStep
<1>4. EchoInv => EchoesLine
  BY DEF Echoed, EchoesLine, Reads, CellAt
<1> HIDE DEF EchoInv
<1> QED
  BY <1>2, <1>3, <1>4, PTL DEF ConsoleSpec
=============================================================================
