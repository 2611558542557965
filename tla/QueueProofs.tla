----------------------------- MODULE QueueProofs -----------------------------
(***************************************************************************)
(* Proofs about Queue: its ring implements AbstractQueue, and its two wait *)
(* lists hold whom they should.                                            *)
(***************************************************************************)
EXTENDS Queue, WaitListTheorems

-----------------------------------------------------------------------------
\* Rings of m positions: c items from position h on.

Slot(h, i, m) == (h + i - 1) % m

\* What a position can hold.
Content == Items \cup {NoItem}

Window(b, h, c, m) == [i \in 1 .. c |-> b[(h + i - 1) % m]]

LEMMA Wraps ==
    ASSUME NEW m \in Nat \ {0}, NEW x \in 0 .. (2 * m - 1)
    PROVE  x % m = IF x < m THEN x ELSE x - m
OBVIOUS

LEMMA SameSequence ==
    ASSUME NEW S, NEW s \in Seq(S), NEW t \in Seq(S), Len(s) = Len(t),
           \A i \in 1 .. Len(s) : s[i] = t[i]
    PROVE  s = t
BY SeqEqual

\* The position of the i-th item, without a division.
LEMMA SlotIs ==
    ASSUME NEW m \in Nat \ {0}, NEW h \in 0 .. (m - 1), NEW i \in 1 .. (m + 1)
    PROVE  /\ Slot(h, i, m) = IF h + i - 1 < m THEN h + i - 1 ELSE h + i - 1 - m
           /\ Slot(h, i, m) \in 0 .. (m - 1)
<1> DEFINE k == h + i - 1
<1>1. k \in 0 .. (2 * m - 1)
  OBVIOUS
<1>2. Slot(h, i, m) = k % m
  BY DEF Slot
<1> HIDE DEF k
<1>3. k % m = IF k < m THEN k ELSE k - m
  BY <1>1, Wraps
<1> QED
  BY <1>1, <1>2, <1>3 DEF k

\* No two items share a position.
LEMMA SlotsDiffer ==
    ASSUME NEW m \in Nat \ {0}, NEW h \in 0 .. (m - 1),
           NEW i \in 1 .. m, NEW j \in 1 .. m, i # j
    PROVE  Slot(h, i, m) # Slot(h, j, m)
<1>1. /\ Slot(h, i, m) = IF h + i - 1 < m THEN h + i - 1 ELSE h + i - 1 - m
      /\ Slot(h, j, m) = IF h + j - 1 < m THEN h + j - 1 ELSE h + j - 1 - m
  BY SlotIs
<1> QED
  BY <1>1

LEMMA WindowIs ==
    ASSUME NEW m \in Nat \ {0}, NEW h \in 0 .. (m - 1), NEW c \in 0 .. m,
           NEW b \in [0 .. (m - 1) -> Content]
    PROVE  /\ Window(b, h, c, m) \in Seq(Content)
           /\ Len(Window(b, h, c, m)) = c
           /\ \A i \in 1 .. c : Window(b, h, c, m)[i] = b[Slot(h, i, m)]
<1>1. \A i \in 1 .. c : Slot(h, i, m) \in 0 .. (m - 1)
  BY SlotIs
<1>2. Window(b, h, c, m) = [i \in 1 .. c |-> b[Slot(h, i, m)]]
  BY DEF Window, Slot
<1>3. [i \in 1 .. c |-> b[Slot(h, i, m)]] \in [1 .. c -> Content]
  BY <1>1
<1> QED
  BY <1>2, <1>3

\* An item put behind the last one is the last item.
LEMMA WindowPut ==
    ASSUME NEW m \in Nat \ {0}, NEW h \in 0 .. (m - 1), NEW c \in 0 .. (m - 1),
           NEW b \in [0 .. (m - 1) -> Content], NEW x \in Content
    PROVE  Window([b EXCEPT ![(h + c) % m] = x], h, c + 1, m)
               = Append(Window(b, h, c, m), x)
<1> DEFINE tl == (h + c) % m
           new == [b EXCEPT ![tl] = x]
           old == Window(b, h, c, m)
<1>1. tl = Slot(h, c + 1, m)
  BY DEF Slot
<1>2. tl \in 0 .. (m - 1)
  BY <1>1, SlotIs
<1>3. new \in [0 .. (m - 1) -> Content]
  BY <1>2
<1>4. /\ old \in Seq(Content) /\ Len(old) = c
      /\ \A i \in 1 .. c : old[i] = b[Slot(h, i, m)]
  <2>1. c \in 0 .. m
    OBVIOUS
  <2> QED
    BY <2>1, WindowIs
<1>5. /\ Window(new, h, c + 1, m) \in Seq(Content)
      /\ Len(Window(new, h, c + 1, m)) = c + 1
      /\ \A i \in 1 .. c + 1 : Window(new, h, c + 1, m)[i] = new[Slot(h, i, m)]
  <2>1. c + 1 \in 0 .. m
    OBVIOUS
  <2> HIDE DEF new
  <2> QED
    BY <1>3, <2>1, WindowIs
<1>6. \A i \in 1 .. c : new[Slot(h, i, m)] = b[Slot(h, i, m)]
  <2> SUFFICES ASSUME NEW i \in 1 .. c
               PROVE  new[Slot(h, i, m)] = b[Slot(h, i, m)]
    OBVIOUS
  <2>1. Slot(h, i, m) # tl
    BY <1>1, SlotsDiffer
  <2>2. Slot(h, i, m) \in 0 .. (m - 1)
    BY SlotIs
  <2> HIDE DEF tl
  <2> QED
    BY <2>1, <2>2
<1>7. new[tl] = x
  <2> HIDE DEF tl
  <2> QED
    BY <1>2
<1> HIDE DEF new, old, tl
<1>8. Append(old, x) \in Seq(Content) /\ Len(Append(old, x)) = c + 1
      /\ \A i \in 1 .. c + 1 : Append(old, x)[i] = IF i = c + 1 THEN x ELSE old[i]
  BY <1>4
<1>9. \A i \in 1 .. c + 1 : Window(new, h, c + 1, m)[i] = Append(old, x)[i]
  BY <1>1, <1>4, <1>5, <1>6, <1>7, <1>8
<1>10. Window(new, h, c + 1, m) = Append(old, x)
  BY <1>5, <1>8, <1>9, SameSequence
<1> QED
  BY <1>10 DEF new, old, tl

\* Without its first item the window begins one position further.
LEMMA WindowGet ==
    ASSUME NEW m \in Nat \ {0}, NEW h \in 0 .. (m - 1), NEW c \in 1 .. m,
           NEW b \in [0 .. (m - 1) -> Content]
    PROVE  /\ Window(b, h, c, m) # << >>
           /\ Head(Window(b, h, c, m)) = b[h]
           /\ Tail(Window(b, h, c, m)) = Window(b, (h + 1) % m, c - 1, m)
<1> DEFINE old == Window(b, h, c, m)
           nh == (h + 1) % m
           new == Window(b, nh, c - 1, m)
<1>1. /\ old \in Seq(Content) /\ Len(old) = c
      /\ \A i \in 1 .. c : old[i] = b[Slot(h, i, m)]
  <2>1. c \in 0 .. m
    OBVIOUS
  <2> QED
    BY <2>1, WindowIs
<1>2. Slot(h, 1, m) = h
  BY SlotIs
<1>3. /\ nh = IF h + 1 < m THEN h + 1 ELSE h + 1 - m
      /\ nh \in 0 .. (m - 1)
  BY SlotIs DEF Slot
<1> HIDE DEF nh
<1>4. /\ new \in Seq(Content) /\ Len(new) = c - 1
      /\ \A i \in 1 .. (c - 1) : new[i] = b[Slot(nh, i, m)]
  <2>1. c - 1 \in 0 .. m
    OBVIOUS
  <2> QED
    BY <1>3, <2>1, WindowIs
<1> HIDE DEF old, new
<1>5. /\ old # << >> /\ Head(old) = b[h]
      /\ Tail(old) \in Seq(Content) /\ Len(Tail(old)) = c - 1
      /\ \A i \in 1 .. (c - 1) : Tail(old)[i] = old[i + 1]
  BY <1>1, <1>2
<1>6. \A i \in 1 .. (c - 1) : Slot(nh, i, m) = Slot(h, i + 1, m)
  <2> SUFFICES ASSUME NEW i \in 1 .. (c - 1)
               PROVE  Slot(nh, i, m) = Slot(h, i + 1, m)
    OBVIOUS
  <2>1. Slot(nh, i, m) = IF nh + i - 1 < m THEN nh + i - 1 ELSE nh + i - 1 - m
    <3>1. i \in 1 .. (m + 1)
      OBVIOUS
    <3> QED
      BY <1>3, <3>1, SlotIs
  <2>2. Slot(h, i + 1, m) = IF h + (i + 1) - 1 < m THEN h + (i + 1) - 1
                            ELSE h + (i + 1) - 1 - m
    <3>1. i + 1 \in 1 .. (m + 1)
      OBVIOUS
    <3> QED
      BY <3>1, SlotIs
  <2> QED
    BY <1>3, <2>1, <2>2
<1>7. \A i \in 1 .. (c - 1) : new[i] = Tail(old)[i]
  BY <1>1, <1>4, <1>5, <1>6
<1>8. new = Tail(old)
  BY <1>4, <1>5, <1>7, SameSequence
<1> QED
  BY <1>5, <1>8 DEF old, new, nh

\* A ring of one position.
LEMMA WindowReplace ==
    ASSUME NEW m \in Nat \ {0}, NEW h \in 0 .. (m - 1), NEW c \in 0 .. m,
           NEW b \in [0 .. (m - 1) -> Content]
    PROVE  m = 1 /\ c # 0 => Window(b, h, c, m) = <<b[h]>>
<1> DEFINE w == Window(b, h, c, m)
<1>1. /\ w \in Seq(Content) /\ Len(w) = c
      /\ \A i \in 1 .. c : w[i] = b[Slot(h, i, m)]
  BY WindowIs
<1> HIDE DEF w
<1>2. Slot(h, 1, m) = h
  BY SlotIs
<1>3. <<b[h]>> \in Seq(Content) /\ Len(<<b[h]>>) = 1 /\ <<b[h]>>[1] = b[h]
  OBVIOUS
<1>4. m = 1 /\ c # 0 => Len(w) = 1 /\ w[1] = b[h]
  BY <1>1, <1>2
<1>5. m = 1 /\ c # 0 => w = <<b[h]>>
  BY <1>1, <1>3, <1>4, SameSequence
<1> QED
  BY <1>5 DEF w

-----------------------------------------------------------------------------
\* The ring.

RingInv ==
    /\ max_items \in 1 .. MaxItems
    /\ Created => buffer \in [Positions -> Items \cup {NoItem}]
    /\ count \in 0 .. max_items /\ head \in Positions /\ tail \in Positions
    /\ item \in [Callers -> Items \cup {NoItem}]
    /\ Created => tail = (head + count) % max_items

Contents == IF Created THEN Window(buffer, head, count, max_items) ELSE << >>

\* What a step does to the variables of the abstract queue.
AbstractStep == Abstract!Next \/ UNCHANGED <<Contents, max_items, item>>

LEMMA RingFacts ==
    ASSUME RingInv, Created
    PROVE  /\ max_items \in Nat \ {0} /\ head \in 0 .. (max_items - 1)
           /\ count \in 0 .. max_items
           /\ buffer \in [0 .. (max_items - 1) -> Content]
           /\ tail = (head + count) % max_items
BY QueueAssumption DEF RingInv, Positions, Content

LEMMA SuccessorIs ==
    ASSUME NEW m \in Nat \ {0}, NEW h \in 0 .. (m - 1), NEW c \in 0 .. m
    PROVE  /\ (h + 1) % m \in 0 .. (m - 1)
           /\ (((h + c) % m) + 1) % m = (h + (c + 1)) % m \/ c = m
           /\ c # 0 => (((h + 1) % m) + (c - 1)) % m = (h + c) % m
<1> DEFINE W(x) == IF x < m THEN x ELSE x - m
<1>1. \A x \in 0 .. (2 * m - 1) : x % m = W(x)
  BY Wraps
<1>2. (h + 1) % m = W(h + 1) /\ W(h + 1) \in 0 .. (m - 1)
  BY <1>1
<1>3. (h + c) % m = W(h + c) /\ W(h + c) \in 0 .. (m - 1)
  BY <1>1
<1>4. (W(h + c) + 1) % m = W(W(h + c) + 1)
  <2>1. W(h + c) + 1 \in 0 .. (2 * m - 1)
    BY <1>3
  <2> HIDE DEF W
  <2> QED
    BY <1>1, <2>1
<1>5. c # m => (h + (c + 1)) % m = W(h + (c + 1))
  BY <1>1
<1>6. c # 0 => (W(h + 1) + (c - 1)) % m = W(W(h + 1) + (c - 1))
  <2>1. c # 0 => W(h + 1) + (c - 1) \in 0 .. (2 * m - 1)
    BY <1>2
  <2> HIDE DEF W
  <2> QED
    BY <1>1, <2>1
<1>7. c # m => W(W(h + c) + 1) = W(h + (c + 1))
  OBVIOUS
<1>8. c # 0 => W(W(h + 1) + (c - 1)) = W(h + c)
  OBVIOUS
<1> HIDE DEF W
<1> QED
  BY <1>2, <1>3, <1>4, <1>5, <1>6, <1>7, <1>8

LEMMA PutStep ==
    ASSUME RingInv, NEW x \in Items, Put(x)
    PROVE  RingInv' /\ Created' /\ AbstractStep
<1>1. /\ Created /\ count < max_items
      /\ buffer' = [buffer EXCEPT ![tail] = x]
      /\ tail' = (tail + 1) % max_items /\ count' = count + 1
      /\ UNCHANGED <<max_items, head, item>>
  BY DEF Put, Successor
<1>2. /\ max_items \in Nat \ {0} /\ head \in 0 .. (max_items - 1)
      /\ count \in 0 .. max_items
      /\ buffer \in [0 .. (max_items - 1) -> Content]
      /\ tail = (head + count) % max_items
  BY <1>1, RingFacts
<1>3. tail' = (head' + count') % max_items'
  <2>1. (((head + count) % max_items) + 1) % max_items = (head + (count + 1)) % max_items
    <3>1. count # max_items
      BY <1>1, <1>2
    <3> QED
      BY <1>2, <3>1, SuccessorIs, Zenon
  <2> QED
    BY <1>1, <1>2, <2>1, Zenon
<1>4. tail \in 0 .. (max_items - 1) /\ tail' \in 0 .. (max_items - 1)
  BY <1>1, <1>2, SuccessorIs DEF RingInv, Positions
<1>5. buffer' \in [0 .. (max_items - 1) -> Content]
  BY <1>1, <1>2, <1>4 DEF Content
<1>6. Created'
  BY <1>1 DEF Created
<1>7. count' \in 0 .. max_items
  BY <1>1, <1>2
<1>8. RingInv'
  BY <1>1, <1>3, <1>4, <1>5, <1>7 DEF RingInv, Positions, Content
<1>9. Window(buffer', head, count + 1, max_items)
          = Append(Window(buffer, head, count, max_items), x)
  <2>1. count \in 0 .. (max_items - 1) /\ x \in Content
    BY <1>1, <1>2 DEF Content
  <2>2. Window([buffer EXCEPT ![(head + count) % max_items] = x], head, count + 1, max_items)
          = Append(Window(buffer, head, count, max_items), x)
    BY <1>2, <2>1, WindowPut
  <2> QED
    BY <1>1, <1>2, <2>2
<1>10. Contents' = Append(Contents, x)
  BY <1>1, <1>6, <1>9 DEF Contents
<1>11. Len(Contents) = count
  <2>1. Len(Window(buffer, head, count, max_items)) = count
    BY <1>2, WindowIs
  <2> QED
    BY <1>1, <2>1 DEF Contents
<1>12. Abstract!Put(x)
  BY <1>1, <1>10, <1>11 DEF Abstract!Put, Contents, Window
<1> QED
  BY <1>6, <1>8, <1>12 DEF AbstractStep, Abstract!Next

LEMMA GetStep ==
    ASSUME RingInv, NEW c \in Callers, Get(c)
    PROVE  RingInv' /\ Created' /\ AbstractStep
<1>1. /\ Created /\ count > 0
      /\ item' = [item EXCEPT ![c] = buffer[head]]
      /\ head' = (head + 1) % max_items /\ count' = count - 1
      /\ UNCHANGED <<buffer, max_items, tail>>
  BY DEF Get, Successor
<1>2. /\ max_items \in Nat \ {0} /\ head \in 0 .. (max_items - 1)
      /\ count \in 0 .. max_items
      /\ buffer \in [0 .. (max_items - 1) -> Content]
      /\ tail = (head + count) % max_items
  BY <1>1, RingFacts
<1>3. /\ tail = (head' + count') % max_items
      /\ head' \in 0 .. (max_items - 1)
  <2>1. /\ (((head + 1) % max_items) + (count - 1)) % max_items
               = (head + count) % max_items
        /\ (head + 1) % max_items \in 0 .. (max_items - 1)
    <3>1. count # 0
      BY <1>1, <1>2
    <3> QED
      BY <1>2, <3>1, SuccessorIs, Zenon
  <2> QED
    BY <1>1, <1>2, <2>1, Zenon
<1>4. Created'
  BY <1>1 DEF Created
<1>5. item' \in [Callers -> Content]
  BY <1>1, <1>2 DEF RingInv, Content
<1>6. count' \in 0 .. max_items
  BY <1>1, <1>2
<1>7. RingInv'
  BY <1>1, <1>2, <1>3, <1>5, <1>6 DEF RingInv, Positions, Content, Created
<1>8. /\ Contents # << >> /\ Head(Contents) = buffer[head]
      /\ Contents' = Tail(Contents)
  <2>1. count \in 1 .. max_items
    BY <1>1, <1>2
  <2>2. /\ Window(buffer, head, count, max_items) # << >>
        /\ Head(Window(buffer, head, count, max_items)) = buffer[head]
        /\ Tail(Window(buffer, head, count, max_items))
               = Window(buffer, (head + 1) % max_items, count - 1, max_items)
    BY <1>2, <2>1, WindowGet
  <2> QED
    BY <1>1, <1>4, <2>2 DEF Contents
<1>9. Abstract!Take(c)
  BY <1>1, <1>8 DEF Abstract!Take, Contents, Window
<1> QED
  BY <1>4, <1>7, <1>9 DEF AbstractStep, Abstract!Next

LEMMA ReplaceStep ==
    ASSUME RingInv, NEW x \in Items, Replace(x)
    PROVE  RingInv' /\ Created' /\ AbstractStep
<1>1. /\ Created /\ max_items = 1 /\ count # 0
      /\ buffer' = [buffer EXCEPT ![head] = x]
      /\ UNCHANGED <<max_items, count, head, tail, item>>
  BY DEF Replace
<1>2. /\ max_items \in Nat \ {0} /\ head \in 0 .. (max_items - 1)
      /\ count \in 0 .. max_items
      /\ buffer \in [0 .. (max_items - 1) -> Content]
      /\ tail = (head + count) % max_items
  BY <1>1, RingFacts
<1>3. Created' /\ buffer' \in [0 .. (max_items - 1) -> Content]
  BY <1>1, <1>2 DEF Created, Content
<1>4. RingInv'
  BY <1>1, <1>3 DEF RingInv, Positions, Content, Created
<1>5. Contents' = <<x>>
  <2>1. buffer'[head] = x
    BY <1>1, <1>2
  <2>2. max_items = 1 /\ count # 0
           => Window(buffer', head, count, max_items) = <<buffer'[head]>>
    BY <1>2, <1>3, WindowReplace
  <2> QED
    BY <1>1, <1>3, <2>1, <2>2 DEF Contents
<1>6. Abstract!Replace(x)
  BY <1>1, <1>5 DEF Abstract!Replace, Contents, Window
<1> QED
  BY <1>3, <1>4, <1>6 DEF AbstractStep, Abstract!Next

\* The ring changes in no other way than being copied from, reset, freed or created.
LEMMA PeekRing ==
    ASSUME RingInv, NEW t \in Takers, Peek(t)
    PROVE  RingInv' /\ Created' /\ AbstractStep
<1>1. /\ Created /\ count # 0
      /\ item' = [item EXCEPT ![t] = buffer[head]]
      /\ UNCHANGED <<buffer, max_items, count, head, tail>>
  BY DEF Peek, ring
<1>2. /\ max_items \in Nat \ {0} /\ head \in 0 .. (max_items - 1)
      /\ count \in 0 .. max_items
      /\ buffer \in [0 .. (max_items - 1) -> Content]
  BY <1>1, RingFacts
<1>3. RingInv' /\ Created'
  BY <1>1, <1>2 DEF RingInv, Positions, Content, Created
<1>4. Contents # << >> /\ Head(Contents) = buffer[head]
  <2>1. count \in 1 .. max_items
    BY <1>1, <1>2
  <2>2. /\ Window(buffer, head, count, max_items) # << >>
        /\ Head(Window(buffer, head, count, max_items)) = buffer[head]
    BY <1>2, <2>1, WindowGet
  <2> QED
    BY <1>1, <2>2 DEF Contents
<1>5. Contents' = Contents
  BY <1>1 DEF Contents, Created, Window
<1>6. Abstract!Peek(t)
  BY <1>1, <1>4, <1>5 DEF Abstract!Peek, Contents, Window
<1> QED
  BY <1>3, <1>6 DEF AbstractStep, Abstract!Next, Takers, Callers

LEMMA ResetRing ==
    ASSUME RingInv, NEW t \in Takers, Reset(t)
    PROVE  RingInv' /\ Created' /\ AbstractStep
<1>1. /\ Created /\ count' = 0 /\ head' = 0 /\ tail' = 0
      /\ UNCHANGED <<buffer, max_items, item>>
  BY DEF Reset
<1>2. /\ max_items \in Nat \ {0}
      /\ buffer \in [0 .. (max_items - 1) -> Content]
  BY <1>1, RingFacts
<1>3. 0 \in 0 .. (max_items - 1) /\ 0 \in 0 .. max_items /\ 0 = (0 + 0) % max_items
  BY <1>2
<1>4. RingInv' /\ Created'
  BY <1>1, <1>3 DEF RingInv, Positions, Created
<1>5. Contents' = << >>
  <2>1. /\ Window(buffer, 0, 0, max_items) \in Seq(Content)
        /\ Len(Window(buffer, 0, 0, max_items)) = 0
    BY <1>2, <1>3, WindowIs
  <2>2. Window(buffer, 0, 0, max_items) = << >>
    BY <2>1
  <2> QED
    BY <1>1, <1>4, <2>2 DEF Contents
<1>6. Abstract!Clear
  BY <1>1, <1>5 DEF Abstract!Clear, Contents, Window
<1> QED
  BY <1>4, <1>6 DEF AbstractStep, Abstract!Next

LEMMA DeleteRing ==
    ASSUME RingInv, NEW t \in Takers, Delete(t)
    PROVE  RingInv' /\ ~Created' /\ AbstractStep
<1>1. buffer' = << >> /\ UNCHANGED <<max_items, count, head, tail, item>>
  BY DEF Delete
<1>2. ~Created'
  BY <1>1 DEF Created
<1>3. RingInv'
  BY <1>1, <1>2 DEF RingInv, Positions
<1>4. Contents' = << >>
  BY <1>2 DEF Contents
<1>5. Abstract!Clear
  BY <1>1, <1>4 DEF Abstract!Clear, Contents, Window
<1> QED
  BY <1>2, <1>3, <1>5 DEF AbstractStep, Abstract!Next

LEMMA CreateRing ==
    ASSUME RingInv, NEW t \in Takers, NEW n \in 1 .. MaxItems, Create(t, n)
    PROVE  RingInv' /\ Created' /\ AbstractStep
<1>1. /\ ~Created /\ max_items' = n
      /\ buffer' = [i \in 0 .. (n - 1) |-> NoItem]
      /\ count' = 0 /\ head' = 0 /\ tail' = 0 /\ item' = item
  BY DEF Create
<1>2. /\ n \in Nat \ {0} /\ 0 \in 0 .. (n - 1) /\ 0 \in 0 .. n /\ 0 = (0 + 0) % n
  BY QueueAssumption
<1>3. Created' /\ buffer' \in [0 .. (n - 1) -> Content]
  BY <1>1, <1>2 DEF Created, Content
<1>4. RingInv'
  BY <1>1, <1>2, <1>3 DEF RingInv, Positions, Content
<1>5. Contents' = << >>
  <2>1. /\ Window(buffer', 0, 0, n) \in Seq(Content)
        /\ Len(Window(buffer', 0, 0, n)) = 0
    BY <1>2, <1>3, WindowIs
  <2>2. Window(buffer', 0, 0, n) = << >>
    BY <2>1
  <2> QED
    BY <1>1, <1>3, <2>2 DEF Contents
<1>6. Contents = << >>
  BY <1>1 DEF Contents
<1>7. Abstract!Create
  BY <1>1, <1>5, <1>6 DEF Abstract!Create, Contents, Window
<1> QED
  BY <1>3, <1>4, <1>7 DEF AbstractStep, Abstract!Next

LEMMA SameRing ==
    ASSUME RingInv, UNCHANGED ring, UNCHANGED item
    PROVE  RingInv' /\ Created' = Created /\ AbstractStep
<1>1. UNCHANGED <<buffer, max_items, count, head, tail, item>>
  BY DEF ring
<1>2. RingInv' /\ Created' = Created
  BY <1>1 DEF RingInv, Positions, Created
<1>3. Contents' = Contents
  BY <1>1 DEF Contents, Created, Window
<1> QED
  BY <1>1, <1>2, <1>3 DEF AbstractStep

LEMMA DiscardRing ==
    ASSUME RingInv, UNCHANGED ring, NEW t \in Takers,
           item' = [item EXCEPT ![t] = NoItem]
    PROVE  RingInv' /\ Created' = Created /\ AbstractStep
<1>1. UNCHANGED <<buffer, max_items, count, head, tail>>
  BY DEF ring
<1>2. RingInv' /\ Created' = Created
  BY <1>1 DEF RingInv, Positions, Created
<1>3. Contents' = Contents
  BY <1>1 DEF Contents, Created, Window
<1>4. Abstract!Discard(t)
  BY <1>1, <1>3 DEF Abstract!Discard, Contents, Window
<1> QED
  BY <1>2, <1>4 DEF AbstractStep, Abstract!Next, Takers, Callers

-----------------------------------------------------------------------------
\* Waiting.

Labels == {"run", "yield", "preempt", "send", "sent", "recv", "received"}
States == {"READY", "RUNNING", "BLOCKED"}

\* Where a task is that waits, or has waited, on a side.
In(side) == IF side = "send" THEN {"send", "sent"} ELSE {"recv", "received"}

\* A task is about to do something other than yield.
Busy == {"run", "sent", "received", "preempt"}

WaitTypeOK ==
    /\ DispatcherTypeOK
    /\ wait_list \in [Sides -> Seq(Takers)]
    /\ timed_out \in [Tasks -> BOOLEAN]
    /\ pc \in [Tasks -> Labels]
    /\ woken \in [Tasks -> Tasks]

ListInv ==
    \A s \in Sides :
        /\ Distinct(wait_list[s])
        /\ ByPriority(wait_list[s])
        /\ Elements(wait_list[s]) = {t \in Tasks : pc[t] \in In(s) /\ state[t] = "BLOCKED"}

\* A task that executes, and is not about to yield, is RUNNING; the idle task is
\* never blocked.
RunInv ==
    /\ ~pendsv /\ pc[current] \in Busy => state[current] = "RUNNING"
    /\ state[Idle] # "BLOCKED"
    /\ pc[Idle] = "run"

\* Until the executing task has compared priorities, the task it has woken is the
\* only woken one that may be of higher priority.
PreemptInv ==
    ~pendsv /\ pc[current] \in Busy =>
        \A t \in Woken :
            state[t] = "READY" =>
                \/ priority[current] <= priority[t]
                \/ pc[current] = "preempt" /\ t = woken[current]

WaitInv == WaitTypeOK /\ ListInv /\ RunInv /\ PreemptInv

LEMMA SidesAre ==
    /\ \A x : x \in In("send") \/ x \in In("recv") <=> x \in Blocking
    /\ \A s \in Sides : In(s) \subseteq Blocking
    /\ \A s, r \in Sides : \A x : x \in In(s) /\ x \in In(r) => s = r
BY DEF In, Blocking, Sides

LEMMA WaitingIs ==
    ASSUME ListInv
    PROVE  Waiting = {t \in Tasks : pc[t] \in Blocking /\ state[t] = "BLOCKED"}
<1>1. /\ Elements(wait_list["send"]) =
            {t \in Tasks : pc[t] \in In("send") /\ state[t] = "BLOCKED"}
      /\ Elements(wait_list["recv"]) =
            {t \in Tasks : pc[t] \in In("recv") /\ state[t] = "BLOCKED"}
  BY DEF ListInv, Sides
<1> QED
  BY <1>1, SidesAre DEF Waiting

\* Who waits and who was woken depends on three variables.
LEMMA SameWaiters ==
    ASSUME UNCHANGED <<wait_list, timed_out>>,
           \A t \in Tasks : pc'[t] \in Blocking <=> pc[t] \in Blocking
    PROVE  Waiting' = Waiting /\ Woken' = Woken
<1>1. Waiting' = Waiting
  BY DEF Waiting, Elements
<1> QED
  BY <1>1 DEF Woken

\* The lists and the states stay, and each task stays on its side.
LEMMA SameLists ==
    ASSUME ListInv, UNCHANGED <<wait_list, priority>>,
           \A t \in Tasks : state'[t] = "BLOCKED" <=> state[t] = "BLOCKED",
           \A s \in Sides, t \in Tasks : pc'[t] \in In(s) <=> pc[t] \in In(s)
    PROVE  ListInv'
<1> SUFFICES ASSUME NEW s \in Sides
             PROVE  /\ Distinct(wait_list[s])'
                    /\ ByPriority(wait_list[s])'
                    /\ Elements(wait_list[s])' =
                          {t \in Tasks : pc'[t] \in In(s) /\ state'[t] = "BLOCKED"}
  BY DEF ListInv
<1>1. /\ Distinct(wait_list[s]) /\ ByPriority(wait_list[s])
      /\ Elements(wait_list[s]) = {t \in Tasks : pc[t] \in In(s) /\ state[t] = "BLOCKED"}
  BY DEF ListInv
<1>2. Distinct(wait_list[s])' /\ ByPriority(wait_list[s])'
  BY <1>1 DEF Distinct, ByPriority
<1>3. Elements(wait_list[s])' = Elements(wait_list[s])
  BY DEF Elements
<1> QED
  BY <1>1, <1>2, <1>3

LEMMA SameWait ==
    ASSUME WaitInv, UNCHANGED <<dispatcher, wait_list, timed_out, pc, woken>>
    PROVE  WaitInv' /\ Waiting' = Waiting
<1>1. UNCHANGED <<state, priority, current, pendsv>>
  BY DEF dispatcher
<1>2. Waiting' = Waiting /\ Woken' = Woken
  BY SameWaiters
<1>3. WaitTypeOK'
  BY <1>1 DEF WaitInv, WaitTypeOK, DispatcherTypeOK
<1>4. ListInv'
  BY <1>1, SameLists DEF WaitInv
<1>5. RunInv' /\ PreemptInv'
  BY <1>1, <1>2 DEF WaitInv, RunInv, PreemptInv
<1> QED
  BY <1>2, <1>3, <1>4, <1>5 DEF WaitInv

\* prv_wake_task of the first task of a side.
LEMMA WakeFirstIs ==
    ASSUME WaitInv, NEW side \in Sides, WakeFirst(side), UNCHANGED priority,
           \A t \in Tasks, s \in Sides : pc'[t] \in In(s) <=> pc[t] \in In(s)
    PROVE  LET w == Head(wait_list[side])
           IN  /\ w \in Takers /\ w \in Waiting /\ state[w] = "BLOCKED"
               /\ wait_list' \in [Sides -> Seq(Takers)]
               /\ timed_out' \in [Tasks -> BOOLEAN]
               /\ state' \in [Tasks -> States]
               /\ \A u \in Tasks : state'[u] = IF u = w THEN "READY" ELSE state[u]
               /\ ListInv'
               /\ Waiting' = Waiting \ {w}
               /\ Woken' \subseteq Woken \cup {w}
<1> DEFINE w == Head(wait_list[side])
           list == wait_list[side]
<1>1. /\ priority \in [Tasks -> Priorities] /\ list \in Seq(Takers) /\ list # << >>
      /\ Distinct(list) /\ ByPriority(list)
      /\ Elements(list) = {t \in Tasks : pc[t] \in In(side) /\ state[t] = "BLOCKED"}
  BY DEF WaitInv, WaitTypeOK, DispatcherTypeOK, ListInv, WakeFirst
<1>2. /\ wait_list' = [wait_list EXCEPT ![side] = Tail(list)]
      /\ state' = [u \in Tasks |-> IF u \in {w} THEN "READY" ELSE state[u]]
      /\ timed_out' = [timed_out EXCEPT ![w] = FALSE]
  BY DEF WakeFirst, MakeReady
<1>3. /\ wait_list \in [Sides -> Seq(Takers)]
      /\ timed_out \in [Tasks -> BOOLEAN]
      /\ state \in [Tasks -> States]
  BY DEF WaitInv, WaitTypeOK, DispatcherTypeOK, States
<1>4. /\ Tail(list) \in Seq(Takers) /\ w \in Elements(list)
      /\ Elements(Tail(list)) = Elements(list) \ {w}
      /\ Distinct(Tail(list)) /\ ByPriority(Tail(list))
  <2> HIDE DEF list
  <2> QED
    BY <1>1, TailIs DEF list
<1>5. /\ wait_list'[side] = Tail(list)
      /\ \A s \in Sides : s # side => wait_list'[s] = wait_list[s]
      /\ wait_list' \in [Sides -> Seq(Takers)]
  BY <1>2, <1>3, <1>4
<1> HIDE DEF w, list
<1>6. w \in Tasks /\ w # Idle /\ state[w] = "BLOCKED" /\ pc[w] \in In(side)
  BY <1>1, <1>4 DEF WaitInv, RunInv
<1>7. /\ timed_out' \in [Tasks -> BOOLEAN]
      /\ state' \in [Tasks -> States]
      /\ \A u \in Tasks : state'[u] = IF u = w THEN "READY" ELSE state[u]
  BY <1>2, <1>3, <1>6 DEF States
<1>8. ListInv'
  <2> SUFFICES ASSUME NEW s \in Sides
               PROVE  /\ Distinct(wait_list[s])'
                      /\ ByPriority(wait_list[s])'
                      /\ Elements(wait_list[s])' =
                            {t \in Tasks : pc'[t] \in In(s) /\ state'[t] = "BLOCKED"}
    BY DEF ListInv
  <2>1. CASE s = side
    <3>1. Distinct(wait_list[s])' /\ ByPriority(wait_list[s])'
      BY <1>4, <1>5, <2>1 DEF Distinct, ByPriority
    <3>2. Elements(wait_list[s])' = Elements(list) \ {w}
      BY <1>4, <1>5, <2>1 DEF Elements
    <3>3. Elements(list) \ {w} =
              {t \in Tasks : pc'[t] \in In(s) /\ state'[t] = "BLOCKED"}
      BY <1>1, <1>6, <1>7, <2>1
    <3> QED
      BY <3>1, <3>2, <3>3
  <2>2. CASE s # side
    <3>1. /\ Distinct(wait_list[s]) /\ ByPriority(wait_list[s])
          /\ Elements(wait_list[s]) =
                {t \in Tasks : pc[t] \in In(s) /\ state[t] = "BLOCKED"}
      BY DEF WaitInv, ListInv
    <3>2. wait_list'[s] = wait_list[s]
      BY <1>5, <2>2
    <3>3. Distinct(wait_list[s])' /\ ByPriority(wait_list[s])'
      BY <3>1, <3>2 DEF Distinct, ByPriority
    <3>4. Elements(wait_list[s])' = Elements(wait_list[s])
      BY <3>2 DEF Elements
    <3>5. pc[w] \notin In(s)
      BY <1>6, <2>2, SidesAre
    <3>6. {t \in Tasks : pc[t] \in In(s) /\ state[t] = "BLOCKED"} =
              {t \in Tasks : pc'[t] \in In(s) /\ state'[t] = "BLOCKED"}
      BY <1>7, <3>5
    <3> QED
      BY <3>1, <3>3, <3>4, <3>6
  <2> QED
    BY <2>1, <2>2
<1>9. \A t \in Tasks : pc'[t] \in Blocking <=> pc[t] \in Blocking
  BY SidesAre DEF Sides
<1>10. /\ w \in Waiting /\ Waiting' = Waiting \ {w}
  <2>1. Waiting = {t \in Tasks : pc[t] \in Blocking /\ state[t] = "BLOCKED"}
    BY WaitingIs DEF WaitInv
  <2>2. Waiting' = {t \in Tasks : pc'[t] \in Blocking /\ state'[t] = "BLOCKED"}
    <3>1. /\ Elements(wait_list'["send"]) =
                {t \in Tasks : pc'[t] \in In("send") /\ state'[t] = "BLOCKED"}
          /\ Elements(wait_list'["recv"]) =
                {t \in Tasks : pc'[t] \in In("recv") /\ state'[t] = "BLOCKED"}
      BY <1>8 DEF ListInv, Sides, Elements
    <3> QED
      BY <3>1, SidesAre DEF Waiting, Elements
  <2>3. pc[w] \in Blocking
    BY <1>6, SidesAre
  <2> QED
    BY <1>6, <1>7, <1>9, <2>1, <2>2, <2>3
<1>11. Woken' \subseteq Woken \cup {w}
  BY <1>2, <1>3, <1>6, <1>9, <1>10 DEF Woken
<1> QED
  BY <1>5, <1>6, <1>7, <1>8, <1>10, <1>11 DEF w, Takers

LEMMA WakeStep ==
    ASSUME WaitInv, NEW side \in Sides,
           \/ \E t \in Takers : Calls(t) /\ WakeFromTask(t, side)
           \/ WakeFromISR(side)
    PROVE  WaitInv'
<1> DEFINE w == Head(wait_list[side])
<1>1. CASE WakeNobody(side)
  <2>1. wait_list[side] = << >>
    BY <1>1 DEF WakeNobody
  <2>2. UNCHANGED <<dispatcher, wait_list, timed_out, pc, woken>>
    BY <1>1, <2>1 DEF WakeNobody, WakeFromTask, WakeFromISR, WakeFirst, dispatcher
  <2> QED
    BY <2>2, SameWait
<1>2. CASE ~WakeNobody(side)
  <2>1. /\ WakeFirst(side) /\ UNCHANGED <<priority, current>>
        /\ \/ pendsv' = TRUE /\ UNCHANGED <<pc, woken>>
           \/ /\ pendsv' = pendsv /\ ~pendsv /\ current # Idle /\ pc[current] = "run"
              /\ woken' = [woken EXCEPT ![current] = w]
              /\ pc' = [pc EXCEPT ![current] = "preempt"]
    BY <1>2 DEF WakeFromTask, WakeFromISR, Calls, Executes, Goto
  <2>2. /\ pc \in [Tasks -> Labels] /\ woken \in [Tasks -> Tasks] /\ current \in Tasks
        /\ priority \in [Tasks -> Priorities] /\ pc[Idle] = "run" /\ Idle \in Tasks
        /\ state[Idle] # "BLOCKED" /\ pendsv \in BOOLEAN
    BY DispatcherAssumption DEF WaitInv, WaitTypeOK, DispatcherTypeOK, RunInv
  <2>3. \A t \in Tasks, s \in Sides : pc'[t] \in In(s) <=> pc[t] \in In(s)
    BY <2>1, <2>2 DEF In
  <2>4. /\ w \in Takers /\ w \in Waiting /\ state[w] = "BLOCKED"
        /\ wait_list' \in [Sides -> Seq(Takers)]
        /\ timed_out' \in [Tasks -> BOOLEAN]
        /\ state' \in [Tasks -> States]
        /\ \A u \in Tasks : state'[u] = IF u = w THEN "READY" ELSE state[u]
        /\ ListInv'
        /\ Woken' \subseteq Woken \cup {w}
    BY <2>1, <2>3, WakeFirstIs
  <2> HIDE DEF w
  <2>5. w \in Tasks /\ w # Idle
    BY <2>4 DEF Takers
  <2>6. /\ pc' \in [Tasks -> Labels] /\ woken' \in [Tasks -> Tasks]
        /\ pc'[Idle] = "run" /\ pendsv' \in BOOLEAN
    <3>1. pc' \in [Tasks -> Labels] /\ pc'[Idle] = "run"
      BY <2>1, <2>2 DEF Labels
    <3>2. woken' \in [Tasks -> Tasks]
      BY <2>1, <2>2, <2>5
    <3>3. pendsv' \in BOOLEAN
      BY <2>1, <2>2
    <3> QED
      BY <3>1, <3>2, <3>3
  <2>7. WaitTypeOK'
    BY <2>1, <2>2, <2>4, <2>6 DEF WaitTypeOK, DispatcherTypeOK, States
  <2>8. RunInv'
    <3>1. state'[Idle] # "BLOCKED"
      BY <2>2, <2>4, <2>5
    <3>2. ASSUME ~pendsv', pc'[current'] \in Busy
          PROVE  state'[current'] = "RUNNING"
      <4>1. ~pendsv /\ pc[current] = "run"
        BY <2>1, <3>2
      <4>2. state[current] = "RUNNING"
        BY <4>1 DEF WaitInv, RunInv, Busy
      <4> QED
        BY <2>1, <2>2, <2>4, <4>2
    <3> QED
      BY <2>6, <3>1, <3>2 DEF RunInv
  <2>9. PreemptInv'
    <3>1. SUFFICES ASSUME ~pendsv', NEW t \in Woken', state'[t] = "READY"
                   PROVE  \/ priority'[current'] <= priority'[t]
                          \/ pc'[current'] = "preempt" /\ t = woken'[current']
      BY DEF PreemptInv
    <3>2. /\ ~pendsv /\ pc[current] = "run" /\ pc'[current] = "preempt"
          /\ woken'[current] = w
      BY <2>1, <2>2, <3>1
    <3>3. CASE t = w
      BY <2>1, <3>2, <3>3
    <3>4. CASE t # w
      <4>1. t \in Woken /\ t \in Tasks
        BY <2>4, <3>1, <3>4 DEF Woken
      <4>2. state[t] = "READY"
        BY <2>4, <3>1, <3>4, <4>1
      <4>3. priority[current] <= priority[t]
        BY <3>2, <4>1, <4>2 DEF WaitInv, PreemptInv, Busy
      <4> QED
        BY <2>1, <4>3
    <3> QED
      BY <3>3, <3>4
  <2> QED
    BY <2>4, <2>7, <2>8, <2>9 DEF WaitInv
<1> QED
  BY <1>1, <1>2

LEMMA PreemptStep ==
    ASSUME WaitInv, NEW t \in Takers, Preempt(t)
    PROVE  WaitInv' /\ Waiting' = Waiting
<1>1. /\ UNCHANGED <<state, priority, current, pendsv, wait_list, timed_out>>
      /\ t = current /\ t \in Tasks /\ t # Idle /\ pc[t] = "preempt" /\ ~pendsv
      /\ pc' = [pc EXCEPT ![t] = IF priority[woken[t]] < priority[t] /\ state[t] = "RUNNING"
                                 THEN "yield" ELSE "run"]
      /\ woken' = [woken EXCEPT ![t] = Idle]
  BY DEF Preempt, Executes, Goto, dispatcher, Takers
<1>2. /\ pc \in [Tasks -> Labels] /\ woken \in [Tasks -> Tasks]
      /\ priority \in [Tasks -> Priorities] /\ Idle \in Tasks
  BY DispatcherAssumption DEF WaitInv, WaitTypeOK, DispatcherTypeOK
<1>3. state[t] = "RUNNING"
  BY <1>1 DEF WaitInv, RunInv, Busy
<1>4. /\ pc'[t] = IF priority[woken[t]] < priority[t] THEN "yield" ELSE "run"
      /\ \A u \in Tasks : u # t => pc'[u] = pc[u]
      /\ pc' \in [Tasks -> Labels]
  BY <1>1, <1>2, <1>3 DEF Labels
<1>5. /\ \A u \in Tasks : pc'[u] \in Blocking <=> pc[u] \in Blocking
      /\ \A s \in Sides, u \in Tasks : pc'[u] \in In(s) <=> pc[u] \in In(s)
  BY <1>1, <1>4 DEF In, Blocking
<1>6. Waiting' = Waiting /\ Woken' = Woken
  BY <1>1, <1>5, SameWaiters
<1>7. WaitTypeOK'
  BY <1>1, <1>2, <1>4 DEF WaitInv, WaitTypeOK, DispatcherTypeOK
<1>8. ListInv'
  BY <1>1, <1>5, SameLists DEF WaitInv
<1>9. RunInv'
  BY <1>1, <1>2, <1>3, <1>4 DEF WaitInv, RunInv
<1>10. PreemptInv'
  <2>1. CASE priority[woken[t]] < priority[t]
    <3>1. pc'[current'] = "yield"
      BY <1>1, <1>4, <2>1
    <3> QED
      BY <3>1 DEF PreemptInv, Busy
  <2>2. CASE ~(priority[woken[t]] < priority[t])
    <3>1. priority[t] <= priority[woken[t]]
      BY <1>1, <1>2, <2>2 DEF Priorities
    <3>2. \A u \in Woken : state[u] = "READY" => priority[t] <= priority[u]
      BY <1>1, <3>1 DEF WaitInv, PreemptInv, Busy
    <3> QED
      BY <1>1, <1>6, <3>2 DEF PreemptInv
  <2> QED
    BY <2>1, <2>2
<1> QED
  BY <1>6, <1>7, <1>8, <1>9, <1>10 DEF WaitInv

\* prv_block_task on either side.
LEMMA WaitForStep ==
    ASSUME WaitInv, NEW t \in Takers, NEW side \in Sides, Calls(t), WaitFor(t, side)
    PROVE  WaitInv'
<1> DEFINE list == wait_list[side]
<1>1. /\ UNCHANGED <<priority, current, pendsv, woken>>
      /\ timed_out' = [timed_out EXCEPT ![t] = FALSE]
      /\ state' = [state EXCEPT ![t] = "BLOCKED"]
      /\ pc' = [pc EXCEPT ![t] = side]
      /\ wait_list' = [wait_list EXCEPT ![side] = Inserted(list, t)]
      /\ t = current /\ ~pendsv /\ pc[t] = "run" /\ t \in Tasks /\ t # Idle
  BY DEF WaitFor, Calls, Executes, Block, Goto, Takers
<1>2. /\ state \in [Tasks -> States] /\ pc \in [Tasks -> Labels]
      /\ timed_out \in [Tasks -> BOOLEAN] /\ woken \in [Tasks -> Tasks]
      /\ priority \in [Tasks -> Priorities] /\ Idle \in Tasks
      /\ wait_list \in [Sides -> Seq(Takers)]
  BY DispatcherAssumption DEF WaitInv, WaitTypeOK, DispatcherTypeOK, States
<1>3. /\ list \in Seq(Takers) /\ Distinct(list) /\ ByPriority(list)
      /\ Elements(list) = {u \in Tasks : pc[u] \in In(side) /\ state[u] = "BLOCKED"}
  BY <1>2 DEF WaitInv, ListInv
<1>4. t \notin Elements(list)
  BY <1>1, <1>3 DEF In
<1> HIDE DEF list
<1>5. /\ Inserted(list, t) \in Seq(Takers)
      /\ Elements(Inserted(list, t)) = Elements(list) \cup {t}
      /\ Distinct(Inserted(list, t))
      /\ ByPriority(Inserted(list, t))
  BY <1>2, <1>3, <1>4, InsertedIs
<1>6. /\ wait_list'[side] = Inserted(list, t)
      /\ \A s \in Sides : s # side => wait_list'[s] = wait_list[s]
      /\ wait_list' \in [Sides -> Seq(Takers)]
  BY <1>1, <1>2, <1>5
<1>7. /\ pc'[t] = side /\ state'[t] = "BLOCKED"
      /\ \A u \in Tasks : u # t => pc'[u] = pc[u] /\ state'[u] = state[u]
      /\ pc' \in [Tasks -> Labels] /\ state' \in [Tasks -> States]
  BY <1>1, <1>2 DEF Labels, States, Sides
<1>8. WaitTypeOK'
  BY <1>1, <1>2, <1>6, <1>7 DEF WaitInv, WaitTypeOK, DispatcherTypeOK, States
<1>9. ListInv'
  <2> SUFFICES ASSUME NEW s \in Sides
               PROVE  /\ Distinct(wait_list[s])'
                      /\ ByPriority(wait_list[s])'
                      /\ Elements(wait_list[s])' =
                            {u \in Tasks : pc'[u] \in In(s) /\ state'[u] = "BLOCKED"}
    BY DEF ListInv
  <2>1. CASE s = side
    <3>1. Distinct(wait_list[s])' /\ ByPriority(wait_list[s])'
      BY <1>1, <1>5, <1>6, <2>1 DEF Distinct, ByPriority
    <3>2. Elements(wait_list[s])' = Elements(list) \cup {t}
      BY <1>5, <1>6, <2>1 DEF Elements
    <3>3. side \in In(side)
      BY DEF In, Sides
    <3>4. Elements(list) \cup {t} =
              {u \in Tasks : pc'[u] \in In(s) /\ state'[u] = "BLOCKED"}
      BY <1>1, <1>3, <1>7, <2>1, <3>3
    <3> QED
      BY <3>1, <3>2, <3>4
  <2>2. CASE s # side
    <3>1. /\ Distinct(wait_list[s]) /\ ByPriority(wait_list[s])
          /\ Elements(wait_list[s]) =
                {u \in Tasks : pc[u] \in In(s) /\ state[u] = "BLOCKED"}
      BY DEF WaitInv, ListInv
    <3>2. wait_list'[s] = wait_list[s]
      BY <1>6, <2>2
    <3>3. Distinct(wait_list[s])' /\ ByPriority(wait_list[s])'
      BY <1>1, <3>1, <3>2 DEF Distinct, ByPriority
    <3>4. Elements(wait_list[s])' = Elements(wait_list[s])
      BY <3>2 DEF Elements
    <3>5. pc[t] \notin In(s) /\ pc'[t] \notin In(s)
      BY <1>1, <1>7, <2>2 DEF In, Sides
    <3>6. {u \in Tasks : pc[u] \in In(s) /\ state[u] = "BLOCKED"} =
              {u \in Tasks : pc'[u] \in In(s) /\ state'[u] = "BLOCKED"}
      BY <1>7, <3>5
    <3> QED
      BY <3>1, <3>3, <3>4, <3>6
  <2> QED
    BY <2>1, <2>2
<1>10. RunInv' /\ PreemptInv'
  <2>1. pc'[current'] \notin Busy
    BY <1>1, <1>7 DEF Busy, Sides
  <2> QED
    BY <1>1, <1>2, <1>7, <2>1 DEF WaitInv, RunInv, PreemptInv
<1> QED
  BY <1>8, <1>9, <1>10 DEF WaitInv

\* A switch is asked for: by an interrupt, or by a task (os_sched_yield).
LEMMA RequestStep ==
    ASSUME WaitInv,
           \/ RequestSwitch /\ UNCHANGED queue
           \/ \E t \in Takers : Yield(t)
    PROVE  WaitInv' /\ Waiting' = Waiting
<1>1. /\ UNCHANGED <<state, priority, current, wait_list, timed_out, woken>>
      /\ pendsv' = TRUE
  BY DEF RequestSwitch, Yield, queue
<1>2. pc \in [Tasks -> Labels] /\ pc[Idle] = "run"
  BY DEF WaitInv, WaitTypeOK, RunInv
<1>3. /\ pc' \in [Tasks -> Labels] /\ pc'[Idle] = "run"
      /\ \A s \in Sides, u \in Tasks : pc'[u] \in In(s) <=> pc[u] \in In(s)
  <2>1. CASE UNCHANGED queue
    BY <1>2, <2>1 DEF queue
  <2>2. CASE \E t \in Takers : Yield(t)
    <3>1. PICK t \in Takers : Yield(t)
      BY <2>2
    <3>2. PICK l \in {"sent", "received", "run"} :
              /\ pc' = [pc EXCEPT ![t] = l]
              /\ \A s \in Sides : l \in In(s) <=> pc[t] \in In(s)
      <4>1. CASE pc[t] = "send"
        <5>1. pc' = [pc EXCEPT ![t] = "sent"]
          BY <3>1, <4>1 DEF Yield, Goto
        <5> QED
          BY <4>1, <5>1 DEF In
      <4>2. CASE pc[t] = "recv"
        <5>1. pc' = [pc EXCEPT ![t] = "received"]
          BY <3>1, <4>2 DEF Yield, Goto
        <5> QED
          BY <4>2, <5>1 DEF In
      <4>3. CASE pc[t] \notin {"send", "recv"}
        <5>1. pc' = [pc EXCEPT ![t] = "run"] /\ pc[t] \in {"run", "yield"}
          BY <3>1, <4>3 DEF Yield, Goto
        <5> QED
          BY <5>1 DEF In
      <4> QED
        BY <4>1, <4>2, <4>3
    <3>3. t \in Tasks /\ t # Idle
      BY DEF Takers
    <3> QED
      BY <1>2, <3>2, <3>3 DEF Labels
  <2> QED
    BY <2>1, <2>2
<1>4. \A u \in Tasks : pc'[u] \in Blocking <=> pc[u] \in Blocking
  BY <1>3, SidesAre DEF Sides
<1>5. Waiting' = Waiting
  BY <1>1, <1>4, SameWaiters
<1>6. WaitTypeOK'
  BY <1>1, <1>3 DEF WaitInv, WaitTypeOK, DispatcherTypeOK
<1>7. ListInv'
  BY <1>1, <1>3, SameLists DEF WaitInv
<1>8. RunInv' /\ PreemptInv'
  BY <1>1, <1>3 DEF WaitInv, RunInv, PreemptInv
<1> QED
  BY <1>5, <1>6, <1>7, <1>8 DEF WaitInv

LEMMA ResumedStep ==
    ASSUME WaitInv, NEW t \in Takers, Resumed(t)
    PROVE  WaitInv' /\ Waiting' = Waiting
<1>1. /\ UNCHANGED <<state, priority, current, pendsv, wait_list, timed_out, woken>>
      /\ pc' = [pc EXCEPT ![t] = "run"]
      /\ t = current /\ pc[t] \in {"sent", "received"} /\ ~pendsv
      /\ t \in Tasks /\ t # Idle
  BY DEF Resumed, Executes, Goto, dispatcher, Takers
<1>2. pc \in [Tasks -> Labels] /\ Idle \in Tasks
  BY DispatcherAssumption DEF WaitInv, WaitTypeOK
<1>3. state[t] = "RUNNING"
  BY <1>1 DEF WaitInv, RunInv, Busy
<1>4. /\ pc'[t] = "run" /\ pc' \in [Tasks -> Labels]
      /\ \A u \in Tasks : u # t => pc'[u] = pc[u]
  BY <1>1, <1>2 DEF Labels
<1>5. Waiting' = Waiting
  BY <1>1 DEF Waiting, Elements
<1>6. Woken' \subseteq Woken
  BY <1>1, <1>4, <1>5 DEF Woken, Blocking
<1>7. WaitTypeOK'
  BY <1>1, <1>4 DEF WaitInv, WaitTypeOK, DispatcherTypeOK
<1>8. ListInv'
  <2> SUFFICES ASSUME NEW s \in Sides
               PROVE  /\ Distinct(wait_list[s])'
                      /\ ByPriority(wait_list[s])'
                      /\ Elements(wait_list[s])' =
                            {u \in Tasks : pc'[u] \in In(s) /\ state'[u] = "BLOCKED"}
    BY DEF ListInv
  <2>1. /\ Distinct(wait_list[s]) /\ ByPriority(wait_list[s])
        /\ Elements(wait_list[s]) = {u \in Tasks : pc[u] \in In(s) /\ state[u] = "BLOCKED"}
    BY DEF WaitInv, ListInv
  <2>2. Distinct(wait_list[s])' /\ ByPriority(wait_list[s])'
    BY <1>1, <2>1 DEF Distinct, ByPriority
  <2>3. Elements(wait_list[s])' = Elements(wait_list[s])
    BY <1>1 DEF Elements
  <2> QED
    BY <1>1, <1>3, <1>4, <2>1, <2>2, <2>3
<1>9. RunInv'
  BY <1>1, <1>2, <1>3, <1>4 DEF WaitInv, RunInv
<1>10. PreemptInv'
  <2>1. \A u \in Woken : state[u] = "READY" => priority[current] <= priority[u]
    BY <1>1 DEF WaitInv, PreemptInv, Busy
  <2> QED
    BY <1>1, <1>6, <2>1 DEF PreemptInv
<1> QED
  BY <1>5, <1>7, <1>8, <1>9, <1>10 DEF WaitInv

\* Empty lists, with nobody blocked in a call.
LEMMA EmptyLists ==
    ASSUME wait_list' = [s \in Sides |-> << >>],
           \A t \in Tasks : ~(pc'[t] \in Blocking /\ state'[t] = "BLOCKED")
    PROVE  ListInv' /\ Waiting' = {} /\ wait_list' \in [Sides -> Seq(Takers)]
<1>1. \A s \in Sides : wait_list'[s] = << >> /\ Len(wait_list'[s]) = 0
  OBVIOUS
<1>2. \A s \in Sides : Elements(wait_list[s])' = {}
  BY <1>1 DEF Elements
<1>3. \A s \in Sides : Distinct(wait_list[s])' /\ ByPriority(wait_list[s])'
  BY <1>1 DEF Distinct, ByPriority
<1>4. \A s \in Sides, t \in Tasks : ~(pc'[t] \in In(s) /\ state'[t] = "BLOCKED")
  BY SidesAre
<1>5. ListInv'
  BY <1>2, <1>3, <1>4 DEF ListInv
<1>6. Waiting' = {}
  BY <1>1 DEF Waiting, Elements, Sides
<1> QED
  BY <1>5, <1>6

LEMMA DeleteStep ==
    ASSUME WaitInv, NEW t \in Takers, Delete(t)
    PROVE  WaitInv' /\ Waiting' = {}
<1>1. /\ UNCHANGED <<priority, current, pendsv, pc, woken>>
      /\ state' = [u \in Tasks |-> IF u \in Waiting THEN "READY" ELSE state[u]]
      /\ timed_out' = [u \in Tasks |-> u \in Waiting \/ timed_out[u]]
      /\ wait_list' = [s \in Sides |-> << >>]
      /\ ~pendsv /\ pc[current] = "run" /\ current = t
  BY DEF Delete, MakeReady, Calls, Executes
<1>2. /\ state \in [Tasks -> States] /\ timed_out \in [Tasks -> BOOLEAN]
      /\ current \in Tasks /\ Idle \in Tasks
  BY DispatcherAssumption DEF WaitInv, WaitTypeOK, DispatcherTypeOK, States
<1>3. Waiting = {u \in Tasks : pc[u] \in Blocking /\ state[u] = "BLOCKED"}
  BY WaitingIs DEF WaitInv
<1>4. ListInv' /\ Waiting' = {} /\ wait_list' \in [Sides -> Seq(Takers)]
  <2>1. \A u \in Tasks : ~(pc'[u] \in Blocking /\ state'[u] = "BLOCKED")
    BY <1>1, <1>2, <1>3
  <2> QED
    BY <1>1, <2>1, EmptyLists
<1>5. state' \in [Tasks -> States] /\ timed_out' \in [Tasks -> BOOLEAN]
  BY <1>1, <1>2 DEF States
<1>6. WaitTypeOK'
  BY <1>1, <1>4, <1>5 DEF WaitInv, WaitTypeOK, DispatcherTypeOK, States
<1>7. state[current] = "RUNNING" /\ state[Idle] # "BLOCKED"
  BY <1>1 DEF WaitInv, RunInv, Busy
<1>8. RunInv'
  BY <1>1, <1>2, <1>3, <1>7 DEF WaitInv, RunInv
<1>9. PreemptInv'
  <2>1. \A u \in Woken' : u \in Woken /\ u \in Tasks /\ u \notin Waiting
    BY <1>1 DEF Woken
  <2>2. \A u \in Woken' : state'[u] = state[u]
    BY <1>1, <2>1
  <2>3. \A u \in Woken : state[u] = "READY" => priority[current] <= priority[u]
    BY <1>1 DEF WaitInv, PreemptInv, Busy
  <2> QED
    BY <1>1, <2>1, <2>2, <2>3 DEF PreemptInv
<1> QED
  BY <1>4, <1>6, <1>8, <1>9 DEF WaitInv

LEMMA CreateStep ==
    ASSUME WaitInv, Waiting = {}, NEW t \in Takers, NEW n, Create(t, n)
    PROVE  WaitInv' /\ Waiting' = {}
<1>1. /\ UNCHANGED <<state, priority, current, pendsv, timed_out, pc, woken>>
      /\ wait_list' = [s \in Sides |-> << >>]
  BY DEF Create, dispatcher
<1>2. Waiting = {u \in Tasks : pc[u] \in Blocking /\ state[u] = "BLOCKED"}
  BY WaitingIs DEF WaitInv
<1>3. ListInv' /\ Waiting' = {} /\ wait_list' \in [Sides -> Seq(Takers)]
  BY <1>1, <1>2, EmptyLists
<1>4. WaitTypeOK'
  BY <1>1, <1>3 DEF WaitInv, WaitTypeOK, DispatcherTypeOK
<1>5. Woken' = Woken
  BY <1>1, <1>3 DEF Woken
<1>6. RunInv' /\ PreemptInv'
  BY <1>1, <1>5 DEF WaitInv, RunInv, PreemptInv
<1> QED
  BY <1>3, <1>4, <1>6 DEF WaitInv

\* os_task_delay and its end: tasks outside the blocking calls.
LEMMA DelayStep ==
    ASSUME WaitInv, NEW t \in Takers, Delay(t) \/ DelayEnds(t)
    PROVE  WaitInv' /\ Waiting' = Waiting
<1>1. /\ UNCHANGED <<priority, current, pendsv, wait_list, timed_out, woken>>
      /\ t \in Tasks /\ t # Idle
  BY DEF Delay, DelayEnds, queue, Takers
<1>2. /\ state \in [Tasks -> States] /\ pc \in [Tasks -> Labels] /\ Idle \in Tasks
      /\ current \in Tasks
  BY DispatcherAssumption DEF WaitInv, WaitTypeOK, DispatcherTypeOK, States
<1>3. pc[t] \notin Blocking
  <2>1. CASE Delay(t)
    BY <2>1 DEF Delay, Calls, Blocking
  <2>2. CASE DelayEnds(t)
    BY <1>1, <2>2, WaitingIs DEF DelayEnds, WaitInv
  <2> QED
    BY <2>1, <2>2
<1>4. /\ state' \in [Tasks -> States] /\ pc' \in [Tasks -> Labels]
      /\ pc'[t] \notin Blocking
      /\ \A u \in Tasks : u # t => state'[u] = state[u] /\ pc'[u] = pc[u]
  <2>1. CASE Delay(t)
    BY <1>1, <1>2, <2>1 DEF Delay, Block, Goto, Blocking, Labels, States
  <2>2. CASE DelayEnds(t)
    BY <1>1, <1>2, <1>3, <2>2 DEF DelayEnds, MakeReady, queue, States
  <2> QED
    BY <2>1, <2>2
<1>5. Waiting' = Waiting /\ Woken' = Woken
  <2>1. \A u \in Tasks : pc'[u] \in Blocking <=> pc[u] \in Blocking
    BY <1>3, <1>4
  <2> QED
    BY <1>1, <2>1, SameWaiters
<1>6. WaitTypeOK'
  BY <1>1, <1>4 DEF WaitInv, WaitTypeOK, DispatcherTypeOK, States
<1>7. ListInv'
  <2> SUFFICES ASSUME NEW s \in Sides
               PROVE  /\ Distinct(wait_list[s])'
                      /\ ByPriority(wait_list[s])'
                      /\ Elements(wait_list[s])' =
                            {u \in Tasks : pc'[u] \in In(s) /\ state'[u] = "BLOCKED"}
    BY DEF ListInv
  <2>1. /\ Distinct(wait_list[s]) /\ ByPriority(wait_list[s])
        /\ Elements(wait_list[s]) = {u \in Tasks : pc[u] \in In(s) /\ state[u] = "BLOCKED"}
    BY DEF WaitInv, ListInv
  <2>2. Distinct(wait_list[s])' /\ ByPriority(wait_list[s])'
    BY <1>1, <2>1 DEF Distinct, ByPriority
  <2>3. Elements(wait_list[s])' = Elements(wait_list[s])
    BY <1>1 DEF Elements
  <2>4. pc[t] \notin In(s) /\ pc'[t] \notin In(s)
    BY <1>3, <1>4, SidesAre
  <2> QED
    BY <1>4, <2>1, <2>2, <2>3, <2>4
<1>8. t \notin Woken
  BY <1>3 DEF Woken
<1>9. RunInv' /\ PreemptInv'
  <2>1. CASE Delay(t)
    <3>1. t = current /\ pc'[t] = "yield"
      BY <1>1, <1>2, <2>1 DEF Delay, Calls, Executes, Goto
    <3> QED
      BY <1>1, <1>2, <1>4, <3>1 DEF WaitInv, RunInv, PreemptInv, Busy
  <2>2. CASE DelayEnds(t)
    <3>1. pc' = pc /\ state'[t] = "READY" /\ state[t] = "BLOCKED"
      BY <1>1, <1>2, <2>2 DEF DelayEnds, MakeReady, queue
    <3>2. RunInv'
      BY <1>1, <1>2, <1>4, <3>1 DEF WaitInv, RunInv
    <3>3. \A u \in Woken : u \in Tasks /\ u # t /\ state'[u] = state[u]
      BY <1>4, <1>8 DEF Woken
    <3>4. PreemptInv'
      BY <1>1, <1>5, <3>1, <3>3 DEF WaitInv, PreemptInv
    <3> QED
      BY <3>2, <3>4
  <2> QED
    BY <2>1, <2>2
<1> QED
  BY <1>5, <1>6, <1>7, <1>9 DEF WaitInv

\* PendSV: the task chosen is of the highest priority, so no woken task is left
\* behind by it.
LEMMA SwitchStep ==
    ASSUME WaitInv, Switch, UNCHANGED queue
    PROVE  WaitInv' /\ Waiting' = Waiting
<1>1. UNCHANGED <<wait_list, timed_out, pc, woken, priority>>
  BY DEF Switch, queue
<1>2. PICK c \in Candidates(state) :
          /\ current' = c
          /\ state' = [u \in Tasks |-> IF u = c THEN "RUNNING"
                                       ELSE IF u = current /\ state[u] = "RUNNING"
                                       THEN "READY" ELSE state[u]]
  BY DEF Switch
<1>3. c \in Tasks /\ state[c] # "BLOCKED"
      /\ \A u \in Tasks : state[u] # "BLOCKED" => priority[c] <= priority[u]
  BY <1>2 DEF Candidates
<1>4. Waiting' = Waiting /\ Woken' = Woken
  BY <1>1, SameWaiters
<1>5. \A u \in Tasks : state'[u] = "BLOCKED" <=> state[u] = "BLOCKED"
  BY <1>2, <1>3
<1>6. WaitTypeOK'
  <2>1. state' \in [Tasks -> States] /\ pendsv' \in BOOLEAN
    BY <1>2 DEF WaitInv, WaitTypeOK, DispatcherTypeOK, States, Switch
  <2> QED
    BY <1>1, <1>2, <1>3, <2>1 DEF WaitInv, WaitTypeOK, DispatcherTypeOK, States
<1>7. ListInv'
  BY <1>1, <1>5, SameLists DEF WaitInv
<1>8. RunInv'
  BY <1>1, <1>2, <1>3, <1>5, DispatcherAssumption DEF WaitInv, RunInv
<1>9. PreemptInv'
  <2>1. \A t \in Woken' : state'[t] = "READY" => priority'[current'] <= priority'[t]
    BY <1>1, <1>2, <1>3, <1>4, <1>5 DEF Woken
  <2> QED
    BY <2>1 DEF PreemptInv
<1> QED
  BY <1>4, <1>6, <1>7, <1>8, <1>9 DEF WaitInv

-----------------------------------------------------------------------------
\* The theorems.

\* The inductive invariant: that of the ring, that of the lists, and that nobody
\* waits for a freed queue.
Inv == RingInv /\ WaitInv /\ (~Created => Waiting = {})

LEMMA InitInv ==
    ASSUME Init
    PROVE  Inv /\ Abstract!Init
<1>1. max_items \in Nat \ {0} /\ max_items \in 1 .. MaxItems
  BY QueueAssumption DEF Init
<1>2. 0 \in 0 .. (max_items - 1) /\ 0 \in 0 .. max_items /\ 0 = (0 + 0) % max_items
  BY <1>1
<1>3. Created /\ buffer \in [0 .. (max_items - 1) -> Content]
  BY <1>2 DEF Init, Created, Positions, Content
<1>4. RingInv
  BY <1>1, <1>2, <1>3 DEF Init, RingInv, Positions, Content
<1>5. Contents = << >>
  <2>1. /\ Window(buffer, 0, 0, max_items) \in Seq(Content)
        /\ Len(Window(buffer, 0, 0, max_items)) = 0
    BY <1>1, <1>2, <1>3, WindowIs
  <2>2. Window(buffer, 0, 0, max_items) = << >>
    BY <2>1
  <2> QED
    BY <1>3, <2>2 DEF Contents, Init
<1>6. Abstract!Init
  BY <1>1, <1>5 DEF Abstract!Init, Contents, Window, Init
<1>7. /\ \A s \in Sides : wait_list[s] = << >> /\ Len(wait_list[s]) = 0
      /\ \A t \in Tasks : pc[t] = "run" /\ state[t] # "BLOCKED"
  BY DEF Init, DispatcherInit
<1>8. WaitTypeOK
  <2>1. DispatcherTypeOK
    BY DEF Init, DispatcherInit, DispatcherTypeOK, Candidates
  <2>2. wait_list \in [Sides -> Seq(Takers)]
    BY DEF Init
  <2>3. /\ timed_out \in [Tasks -> BOOLEAN] /\ pc \in [Tasks -> Labels]
        /\ woken \in [Tasks -> Tasks]
    BY DispatcherAssumption DEF Init, Labels
  <2> QED
    BY <2>1, <2>2, <2>3 DEF WaitTypeOK
<1>9. ListInv
  <2>1. \A s \in Sides : Distinct(wait_list[s]) /\ ByPriority(wait_list[s])
    BY <1>7 DEF Distinct, ByPriority
  <2>2. \A s \in Sides : Elements(wait_list[s]) = {}
    BY <1>7 DEF Elements
  <2> QED
    BY <1>7, <2>1, <2>2 DEF ListInv
<1>10. RunInv
  BY <1>7, DispatcherAssumption DEF RunInv, Init, DispatcherInit, Candidates
<1>11. Woken = {}
  BY <1>7 DEF Woken, Blocking
<1>12. PreemptInv
  BY <1>11 DEF PreemptInv
<1> QED
  BY <1>3, <1>4, <1>6, <1>8, <1>9, <1>10, <1>12 DEF Inv, WaitInv

\* The calls that move an item.
LEMMA ItemCalls ==
    ASSUME Inv,
           \/ \E t \in Takers, x \in Items : Send(t, x) \/ Overwrite(t, x)
           \/ \E t \in Takers : Receive(t)
           \/ \E x \in Items : SendFromISR(x) \/ OverwriteFromISR(x)
           \/ ReceiveFromISR
    PROVE  Inv' /\ AbstractStep
<1>1. /\ \/ \E x \in Items : Put(x) \/ Replace(x)
         \/ \E c \in Callers : Get(c)
      /\ \/ UNCHANGED <<dispatcher, wait_list, timed_out, pc, woken>>
         \/ \E side \in Sides :
               \/ \E t \in Takers : Calls(t) /\ WakeFromTask(t, side)
               \/ WakeFromISR(side)
  BY DEF Send, Overwrite, Receive, SendFromISR, OverwriteFromISR, ReceiveFromISR,
         Sides, Callers, Takers
<1>2. RingInv' /\ Created' /\ AbstractStep
  BY <1>1, PutStep, ReplaceStep, GetStep DEF Inv
<1>3. WaitInv'
  BY <1>1, SameWait, WakeStep DEF Inv
<1> QED
  BY <1>2, <1>3 DEF Inv

LEMMA BlockingCalls ==
    ASSUME Inv, NEW t \in Takers, SendBlocks(t) \/ ReceiveBlocks(t)
    PROVE  Inv' /\ AbstractStep
<1>1. CASE SendBlocks(t)
  <2>1. /\ Created /\ Calls(t) /\ WaitFor(t, "send") /\ UNCHANGED ring /\ UNCHANGED item
    BY <1>1 DEF SendBlocks, WaitFor
  <2>2. RingInv' /\ Created' = Created /\ AbstractStep
    BY <2>1, SameRing DEF Inv
  <2>3. WaitInv'
    BY <2>1, WaitForStep DEF Inv, Sides
  <2> QED
    BY <2>1, <2>2, <2>3 DEF Inv
<1>2. CASE ReceiveBlocks(t)
  <2>1. /\ Created /\ Calls(t) /\ WaitFor(t, "recv") /\ UNCHANGED ring
        /\ item' = [item EXCEPT ![t] = NoItem]
    BY <1>2 DEF ReceiveBlocks, WaitFor
  <2>2. RingInv' /\ Created' = Created /\ AbstractStep
    BY <2>1, DiscardRing DEF Inv
  <2>3. WaitInv'
    BY <2>1, WaitForStep DEF Inv, Sides
  <2> QED
    BY <2>1, <2>2, <2>3 DEF Inv
<1> QED
  BY <1>1, <1>2

\* The other operations on the queue.
LEMMA OtherCalls ==
    ASSUME Inv, NEW t \in Takers,
           Peek(t) \/ Reset(t) \/ Delete(t) \/ \E n \in 1 .. MaxItems : Create(t, n)
    PROVE  Inv' /\ AbstractStep
<1>1. CASE Peek(t)
  <2>1. UNCHANGED <<dispatcher, wait_list, timed_out, pc, woken>>
    BY <1>1 DEF Peek
  <2> QED
    BY <1>1, <2>1, PeekRing, SameWait DEF Inv
<1>2. CASE Reset(t)
  <2>1. UNCHANGED <<dispatcher, wait_list, timed_out, pc, woken>>
    BY <1>2 DEF Reset
  <2> QED
    BY <1>2, <2>1, ResetRing, SameWait DEF Inv
<1>3. CASE Delete(t)
  BY <1>3, DeleteRing, DeleteStep DEF Inv
<1>4. CASE \E n \in 1 .. MaxItems : Create(t, n)
  <2>1. PICK n \in 1 .. MaxItems : Create(t, n)
    BY <1>4
  <2>2. Waiting = {}
    BY <2>1 DEF Create, Inv
  <2> QED
    BY <2>1, <2>2, CreateRing, CreateStep DEF Inv
<1> QED
  BY <1>1, <1>2, <1>3, <1>4

\* Steps that do not touch the ring.
LEMMA SchedulingSteps ==
    ASSUME Inv,
           \/ \E t \in Takers : Preempt(t) \/ Yield(t) \/ Resumed(t) \/ Delay(t) \/ DelayEnds(t)
           \/ RequestSwitch /\ UNCHANGED queue
           \/ Switch /\ UNCHANGED queue
    PROVE  Inv' /\ AbstractStep
<1>1. UNCHANGED ring /\ UNCHANGED item
  BY DEF Preempt, Yield, Resumed, Delay, DelayEnds, queue
<1>2. RingInv' /\ Created' = Created /\ AbstractStep
  BY <1>1, SameRing DEF Inv
<1>3. WaitInv' /\ Waiting' = Waiting
  BY PreemptStep, RequestStep, ResumedStep, DelayStep, SwitchStep DEF Inv
<1> QED
  BY <1>2, <1>3 DEF Inv

LEMMA Step ==
    ASSUME Inv, [Next]_vars
    PROVE  Inv' /\ AbstractStep
<1>1. CASE UNCHANGED vars
  <2>1. /\ UNCHANGED <<dispatcher, wait_list, timed_out, pc, woken>>
        /\ UNCHANGED ring /\ UNCHANGED item
    BY <1>1 DEF vars, queue
  <2> QED
    BY <2>1, SameRing, SameWait DEF Inv
<1>2. CASE \/ \E t \in Takers, x \in Items : Send(t, x) \/ Overwrite(t, x)
           \/ \E t \in Takers : Receive(t)
           \/ InterruptCall
  BY <1>2, ItemCalls DEF InterruptCall
<1>3. CASE \E t \in Takers : SendBlocks(t) \/ ReceiveBlocks(t)
  BY <1>3, BlockingCalls
<1>4. CASE \E t \in Takers :
              Peek(t) \/ Reset(t) \/ Delete(t) \/ \E n \in 1 .. MaxItems : Create(t, n)
  BY <1>4, OtherCalls
<1>5. CASE \/ \E t \in Takers :
                 Preempt(t) \/ Yield(t) \/ Resumed(t) \/ Delay(t) \/ DelayEnds(t)
           \/ RequestSwitch /\ UNCHANGED queue
           \/ Switch /\ UNCHANGED queue
  BY <1>5, SchedulingSteps
<1> QED
  BY <1>1, <1>2, <1>3, <1>4, <1>5
     DEF Next, TaskCall, os_queue_send, os_queue_receive, Takers

LEMMA Invariance == Spec => []Inv
<1>1. Init => Inv
  BY InitInv
<1>2. Inv /\ [Next]_vars => Inv'
  BY Step
<1> QED
  BY <1>1, <1>2, PTL DEF Spec

\* Type correctness of the queue, for every number of tasks and positions.
THEOREM QueueTypeCorrect == Spec => []TypeOK
<1>1. Inv => TypeOK
  BY DEF Inv, RingInv, WaitInv, WaitTypeOK, TypeOK, Labels, Takers
<1> QED
  BY <1>1, Invariance, PTL

\* Each wait list of the queue holds the tasks blocked on its side, once, by
\* priority, and a freed queue has no waiters.
THEOREM WaitListsCorrect == Spec => []WaitListsExact
<1>1. ASSUME Inv PROVE WaitListsExact
  <2>1. ASSUME NEW s \in Sides PROVE Ordered(wait_list[s])
    <3>1. Distinct(wait_list[s]) /\ ByPriority(wait_list[s]) /\ wait_list[s] \in Seq(Takers)
      BY <1>1 DEF Inv, WaitInv, ListInv, WaitTypeOK
    <3> QED
      BY <3>1 DEF Distinct, ByPriority, Ordered
  <2>2. /\ Elements(wait_list["send"]) =
              {t \in Tasks : pc[t] \in {"send", "sent"} /\ state[t] = "BLOCKED"}
        /\ Elements(wait_list["recv"]) =
              {t \in Tasks : pc[t] \in {"recv", "received"} /\ state[t] = "BLOCKED"}
    BY <1>1 DEF Inv, WaitInv, ListInv, Sides, In
  <2> QED
    BY <1>1, <2>1, <2>2 DEF Inv, WaitListsExact
<1> QED
  BY <1>1, Invariance, PTL

\* A task woken by a send, a receive or an overwrite does not wait for one of
\* lower priority.
THEOREM WokenCorrect == Spec => []WokenPreempts
<1>1. Inv => WokenPreempts
  BY DEF Inv, WaitInv, PreemptInv, WokenPreempts, Busy
<1> QED
  BY <1>1, Invariance, PTL

\* The ring of queue.c implements a first-in first-out queue, for every size of
\* the ring.
THEOREM QueueRefines == Spec => ImplementsFIFO
<1>1. Init => Abstract!Init
  BY InitInv
<1>2. Inv /\ [Next]_vars => [Abstract!Next]_(Abstract!vars)
  BY Step DEF AbstractStep, Abstract!vars, Contents, Window
<1> QED
  BY <1>1, <1>2, Invariance, PTL DEF Spec, ImplementsFIFO, Abstract!Spec
=============================================================================
