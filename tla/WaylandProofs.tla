--------------------------- MODULE WaylandProofs ---------------------------
(***************************************************************************)
(* Theorems about the Wayland server, for any windows, sizes, surfaces and *)
(* buffers, any size of the input ring and of a batch.                     *)
(***************************************************************************)
EXTENDS Wayland, FiniteSetTheorems, SequenceTheorems, TLAPS

(***************************************************************************)
(* The inductive invariant, by what it is about.                           *)
(***************************************************************************)
One(P) == IF P THEN 1 ELSE 0

(* A call in progress holds its window.  Without a display there are       *)
(* neither a window nor an EGL surface nor a loop thread.                  *)
WindowInv ==
  /\ ui \in {"idle", "join", "create"} /\ loop \in {"off", "wait", "drain", "tell"}
  /\ dir \in Dir \union {None} /\ sock \in BOOLEAN /\ running \in BOOLEAN
  /\ ui = "idle" => call = NoCall
  /\ ui # "idle" => call \in [win : Window, size : Size, dir : Dir]
  /\ ui = "create" => dir = None
  /\ dir = None => window = None /\ egl = None /\ loop = "off" /\ ~running
  /\ window \in Window \union {None} /\ egl \in {None, window}
  /\ refs \in [Window -> Nat]
  /\ \A w \in Window : refs[w] = One(window = w) + One(call.win = w) + One(w \in lost)
  /\ stored \in {recorded, None}

(* The ring without the remainders: its length, and the slot of its i-th   *)
(* event.                                                                  *)
Filled == IF head >= tail THEN head - tail ELSE head + Ring - tail
Slot(i) == IF tail + i <= Ring THEN tail + i - 1 ELSE tail + i - 1 - Ring

RingInv ==
  /\ head \in 0..Ring - 1 /\ tail \in 0..Ring - 1
  /\ slots \in [0..Ring - 1 -> Events]
  /\ sent \in Seq(Events) /\ batch \in Seq(Events) /\ Len(batch) <= Batch
  /\ Len(sent) = Filled
  /\ \A i \in 1..Len(sent) : sent[i] = slots[Slot(i)]
  /\ loop \in {"off", "wait"} => batch = <<>>

Surface == [life : {"gone", "torn", "live"}, cursor : BOOLEAN, xdg : BOOLEAN, xdgs : BOOLEAN,
            top : BOOLEAN, tops : BOOLEAN, acked : BOOLEAN, mapped : BOOLEAN,
            pend : Buf \union {None}, cur : Buf \union {None}]

(* Clients attach their own buffers; the seat knows surfaces that live, or  *)
(* that were torn; a buffer is stranded only when it is not current.        *)
SurfaceInv ==
  /\ surf \in [Surf -> Surface]
  /\ busy \subseteq Buf /\ again \subseteq Buf /\ stranded \subseteq Buf /\ skipped \subseteq Surf
  /\ told \in [Surf -> Size \union {None}]
  /\ active \in Surf \union {None} /\ pointer \in Surf \union {None} /\ keyboard \in Surf \union {None}
  /\ \A s \in Surf : surf[s].life = "live" \/ surf[s] \in {Gone, Torn}
  /\ \A b \in stranded : surf[Owner[b]].cur # b
  /\ \A s \in Surf : \A b \in Buf : surf[s].pend = b \/ surf[s].cur = b => Owner[b] = s
  /\ BuffersHeld
  /\ FocusLives

(* The last resize on its way brings the size last asked for; when none is *)
(* on its way the server has that size, and has told it unless it is about *)
(* to.                                                                     *)
Resize(e) == e.type = "resize"
Coming == batch \o sent

LastResize ==
  \A i \in 1..Len(Coming) :
    Resize(Coming[i]) /\ (\A j \in 1..Len(Coming) : Resize(Coming[j]) => j <= i) =>
      Coming[i].val = wanted

Settled ==
  (\A i \in 1..Len(Coming) : ~Resize(Coming[i])) =>
    /\ size = wanted
    /\ loop # "tell" => \A s \in Surf \ skipped : Toplevel(s) => told[s] = wanted

SizeInv ==
  /\ size \in Size \union {None} /\ wanted \in Size \union {None}
  /\ running /\ ~dropped /\ ~raced => LastResize /\ Settled

WaylandInv == WindowInv /\ RingInv /\ SurfaceInv /\ SizeInv

-----------------------------------------------------------------------------
(***************************************************************************)
(* Counting, remainders and the ring.                                      *)
(***************************************************************************)

(* The references a window should have, counted. *)
LEMMA HeldCounts ==
  ASSUME NEW w
  PROVE  Cardinality({x \in {1} : window = w} \union {x \in {2} : call.win = w}
                     \union {x \in {3} : w \in lost})
         = One(window = w) + One(call.win = w) + One(w \in lost)
<1> DEFINE A == {x \in {1} : window = w}
           B == {x \in {2} : call.win = w}
           C == {x \in {3} : w \in lost}
<1>1. /\ IsFiniteSet(A) /\ Cardinality(A) = One(window = w)
      /\ IsFiniteSet(B) /\ Cardinality(B) = One(call.win = w)
      /\ IsFiniteSet(C) /\ Cardinality(C) = One(w \in lost)
  <2>1. A = IF window = w THEN {1} ELSE {}
    OBVIOUS
  <2>2. B = IF call.win = w THEN {2} ELSE {}
    OBVIOUS
  <2>3. C = IF w \in lost THEN {3} ELSE {}
    OBVIOUS
  <2>4. IsFiniteSet({}) /\ Cardinality({}) = 0
    BY FS_EmptySet
  <2>5. \A x : IsFiniteSet({x}) /\ Cardinality({x}) = 1
    BY FS_Singleton
  <2> QED
    BY <2>1, <2>2, <2>3, <2>4, <2>5 DEF One
<1>2. A \cap B = {} /\ (A \union B) \cap C = {}
  OBVIOUS
<1>3. IsFiniteSet(A \union B) /\ Cardinality(A \union B) = One(window = w) + One(call.win = w)
  <2>1. One(window = w) \in Nat /\ One(call.win = w) \in Nat
    BY DEF One
  <2>2. IsFiniteSet(A \union B) /\ Cardinality(A \union B) = Cardinality(A) + Cardinality(B) - Cardinality(A \cap B)
    BY <1>1, FS_Union
  <2>3. Cardinality(A \cap B) = 0
    BY <1>2, FS_EmptySet
  <2> QED
    BY <1>1, <2>1, <2>2, <2>3
<1>4. Cardinality((A \union B) \union C)
        = Cardinality(A \union B) + Cardinality(C) - Cardinality((A \union B) \cap C)
  BY <1>1, <1>3, FS_Union
<1>5. Cardinality((A \union B) \cap C) = 0
  BY <1>2, FS_EmptySet
<1>6. One(window = w) \in Nat /\ One(call.win = w) \in Nat /\ One(w \in lost) \in Nat
  BY DEF One
<1> QED
  BY <1>1, <1>3, <1>4, <1>5, <1>6

(* The contents of the ring, without remainders. *)
LEMMA RingFlat ==
  ASSUME RingInv
  PROVE  /\ (head + Ring - tail) % Ring = Filled /\ Filled \in 0..Ring - 1
         /\ \A i \in 1..Filled : (tail + i - 1) % Ring = Slot(i) /\ Slot(i) \in 0..Ring - 1
         /\ RingContents = sent
<1>1. (head + Ring - tail) % Ring = Filled /\ Filled \in 0..Ring - 1
  <2>1. head \in 0..Ring - 1 /\ tail \in 0..Ring - 1 /\ Ring \in Nat
    BY WaylandAssumption DEF RingInv
  <2>3. (head + Ring - tail) % Ring = IF head + Ring - tail < Ring THEN head + Ring - tail
                                      ELSE head + Ring - tail - Ring
    BY <2>1, WaylandAssumption, SMTT(30)
  <2> QED
    BY <2>1, <2>3 DEF Filled
<1>2. \A i \in 1..Filled : (tail + i - 1) % Ring = Slot(i) /\ Slot(i) \in 0..Ring - 1
  <2>1. tail \in 0..Ring - 1 /\ Ring \in Nat
    BY WaylandAssumption DEF RingInv
  <2> SUFFICES ASSUME NEW i \in 1..Filled
               PROVE  (tail + i - 1) % Ring = Slot(i) /\ Slot(i) \in 0..Ring - 1
    OBVIOUS
  <2>2. i \in 1..Ring - 1
    BY <1>1, <2>1
  <2>4. (tail + i - 1) % Ring = IF tail + i - 1 < Ring THEN tail + i - 1 ELSE tail + i - 1 - Ring
    BY <2>1, <2>2, WaylandAssumption, SMTT(30)
  <2> QED
    BY <2>1, <2>2, <2>4 DEF Slot
<1>3. RingContents = [i \in 1..Len(sent) |-> sent[i]]
  BY <1>1, <1>2 DEF RingContents, RingInv
<1> QED
  BY <1>1, <1>2, <1>3 DEF RingInv

(* An event that is accepted goes behind the others, and nothing else      *)
(* changes in the ring.                                                    *)
LEMMA EnqueueKeepsRing ==
  ASSUME RingInv, NEW e \in Events, enqueue_input_event(e), UNCHANGED <<batch, loop>>
  PROVE  /\ RingInv'
         /\ \/ sent' = Append(sent, e) /\ dropped' = dropped
            \/ sent' = sent /\ dropped' = (dropped \/ Resize(e))
<1>1. CASE (head + 1) % Ring # tail
  <2>1. /\ slots' = [slots EXCEPT ![head] = e] /\ head' = (head + 1) % Ring
        /\ sent' = Append(sent, e) /\ UNCHANGED <<tail, dropped>>
    BY <1>1 DEF enqueue_input_event
  <2>2. head' = (IF head + 1 < Ring THEN head + 1 ELSE 0) /\ head' # tail /\ head' \in 0..Ring - 1
    <3>1. head \in 0..Ring - 1 /\ Ring \in Nat /\ Ring > 1
      BY WaylandAssumption DEF RingInv
    <3>3. (head + 1) % Ring = IF head + 1 < Ring THEN head + 1 ELSE head + 1 - Ring
      BY <3>1, SMTT(30)
    <3> QED
      BY <1>1, <2>1, <3>1, <3>3
  <2>3. Filled' = Filled + 1
    <3>1. head \in 0..Ring - 1 /\ tail \in 0..Ring - 1 /\ Ring \in Nat /\ Ring > 1 /\ tail' = tail
      BY <2>1, WaylandAssumption DEF RingInv
    <3> QED
      BY <2>2, <3>1 DEF Filled
  <2>4. Filled \in Nat /\ Filled + 1 < Ring /\ Slot(Filled + 1) = head
    BY <2>2, WaylandAssumption DEF Filled, Slot, RingInv
  <2>5. \A i \in 1..Filled : Slot(i) # head /\ Slot(i) \in 0..Ring - 1
    BY <2>4, WaylandAssumption DEF Filled, Slot, RingInv
  <2>6. Len(sent') = Len(sent) + 1 /\ sent' \in Seq(Events) /\ sent'[Len(sent) + 1] = e
        /\ \A i \in 1..Len(sent) : sent'[i] = sent[i]
    BY <2>1 DEF RingInv
  <2>7. slots' \in [0..Ring - 1 -> Events] /\ slots'[head] = e
        /\ \A k \in 0..Ring - 1 : k # head => slots'[k] = slots[k]
    BY <2>1 DEF RingInv
  <2>8. \A i \in 1..Len(sent') : sent'[i] = slots'[Slot(i)']
    <3> SUFFICES ASSUME NEW i \in 1..Len(sent') PROVE sent'[i] = slots'[Slot(i)]
      BY <2>1 DEF Slot
    <3>1. CASE i = Len(sent) + 1
      BY <3>1, <2>4, <2>6, <2>7 DEF RingInv
    <3>2. CASE i \in 1..Len(sent)
      BY <3>2, <2>5, <2>6, <2>7 DEF RingInv
    <3> QED
      BY <3>1, <3>2, <2>6 DEF RingInv
  <2> QED
    BY <2>1, <2>2, <2>3, <2>6, <2>7, <2>8 DEF RingInv
<1>2. CASE ~((head + 1) % Ring # tail)
  BY <1>2 DEF enqueue_input_event, ringVars, RingInv, Filled, Slot, Resize
<1> QED
  BY <1>1, <1>2

(* A batch is the oldest part of the ring; what is on its way stays the    *)
(* same.                                                                   *)
LEMMA TakeKeepsRing ==
  ASSUME RingInv, TakeBatch
  PROVE  RingInv' /\ Coming' = Coming
<1> DEFINE n == Least(Batch, Queued)
<1>1. /\ batch = <<>> /\ loop \in {"wait", "drain"}
      /\ batch' = SubSeq(RingContents, 1, n)
      /\ tail' = (tail + n) % Ring /\ sent' = SubSeq(sent, n + 1, Queued)
      /\ slots' = [i \in 0..Ring - 1 |-> IF (i + Ring - tail) % Ring < n THEN Blank ELSE slots[i]]
      /\ loop' = IF n = 0 THEN "wait" ELSE "drain"
      /\ head' = head
  BY DEF TakeBatch
<1>2. RingContents = sent /\ Filled \in 0..Ring - 1
  BY RingFlat
<1>3. /\ n \in 0..Len(sent) /\ n <= Batch /\ Len(sent) = Filled /\ Len(sent) \in Nat
      /\ n = 0 => Len(sent) = 0
  BY WaylandAssumption DEF RingInv, Least, Queued
<1>4. Ring \in Nat /\ Ring > 1 /\ head \in 0..Ring - 1 /\ tail \in 0..Ring - 1
  BY WaylandAssumption DEF RingInv
<1>5. sent \in Seq(Events) /\ slots \in [0..Ring - 1 -> Events] /\ Queued = Len(sent)
  BY DEF RingInv, Queued
<1> HIDE DEF n
<1>6. batch' \in Seq(Events) /\ Len(batch') = n /\ \A i \in 1..n : batch'[i] = sent[i]
  BY <1>1, <1>2, <1>3, <1>5
<1>7. /\ sent' \in Seq(Events) /\ Len(sent') = Len(sent) - n
      /\ \A i \in 1..Len(sent) - n : sent'[i] = sent[n + i]
  BY <1>1, <1>3, <1>5
<1>8. tail' = (IF tail + n < Ring THEN tail + n ELSE tail + n - Ring) /\ tail' \in 0..Ring - 1
  <2>1. n \in 0..Ring - 1
    BY <1>2, <1>3, <1>4
  <2>2. (tail + n) % Ring = IF tail + n < Ring THEN tail + n ELSE tail + n - Ring
    BY <1>4, <2>1, SMTT(30)
  <2> QED
    BY <1>1, <1>4, <2>1, <2>2
<1>9. Filled' = Filled - n
  <2>1. head' = head /\ n \in 0..Filled
    BY <1>1, <1>3
  <2> QED
    BY <1>4, <1>8, <2>1 DEF Filled
<1>10. \A i \in 1..Len(sent) - n : Slot(i)' = Slot(n + i)
  BY <1>2, <1>3, <1>4, <1>8 DEF Slot
<1>11. slots' \in [0..Ring - 1 -> Events]
  BY <1>1, <1>5 DEF Blank, Events
<1>12. \A i \in 1..Len(sent) - n : Slot(n + i) \in 0..Ring - 1 /\ slots'[Slot(n + i)] = slots[Slot(n + i)]
  <2> TAKE i \in 1..Len(sent) - n
  <2>0. n \in Nat /\ i \in Nat /\ 1 <= i
    BY <1>3
  <2>1. n + i \in 1..Len(sent) /\ n + i \in 1..Ring - 1
    BY <1>2, <1>3, <1>4
  <2>2. Slot(n + i) \in 0..Ring - 1
    BY <1>4, <2>1 DEF Slot
  <2>3. Slot(n + i) + Ring - tail = n + i - 1 \/ Slot(n + i) + Ring - tail = n + i - 1 + Ring
    BY <1>4, <2>0, <2>1 DEF Slot
  <2>4. n + i - 1 \in 0..Ring - 1
    BY <1>3, <1>4, <2>1
  <2>5. (n + i - 1) % Ring = n + i - 1 /\ (n + i - 1 + Ring) % Ring = n + i - 1
    BY <1>4, <2>4, SMTT(30)
  <2>6. (Slot(n + i) + Ring - tail) % Ring = n + i - 1
    BY <2>3, <2>5
  <2>7. ~(n + i - 1 < n)
    BY <1>3, <2>1
  <2> QED
    BY <1>1, <2>2, <2>6, <2>7
<1>13. \A i \in 1..Len(sent') : sent'[i] = slots'[Slot(i)']
  <2> SUFFICES ASSUME NEW i \in 1..Len(sent) - n PROVE sent'[i] = slots'[Slot(i)']
    BY <1>7
  <2>1. n + i \in 1..Len(sent)
    BY <1>3
  <2>2. sent[n + i] = slots[Slot(n + i)]
    BY <2>1 DEF RingInv
  <2> QED
    BY <1>7, <1>10, <1>12, <2>2
<1>14. Coming' = Coming
  <2>1. Coming \in Seq(Events) /\ Len(Coming) = Len(sent) /\ \A i \in 1..Len(sent) : Coming[i] = sent[i]
    BY <1>1, <1>5 DEF Coming
  <2>2. /\ Coming' \in Seq(Events) /\ Len(Coming') = Len(sent)
        /\ \A i \in 1..Len(sent) : Coming'[i] = IF i <= n THEN batch'[i] ELSE sent'[i - n]
    <3>1. Coming' = batch' \o sent'
      BY DEF Coming
    <3>2. /\ Coming' \in Seq(Events) /\ Len(Coming') = Len(batch') + Len(sent')
          /\ \A i \in 1..Len(batch') + Len(sent') :
               Coming'[i] = IF i <= Len(batch') THEN batch'[i] ELSE sent'[i - Len(batch')]
      <4> DEFINE p == batch'
                 q == sent'
      <4>1. p \in Seq(Events) /\ q \in Seq(Events)
        BY <1>6, <1>7
      <4> HIDE DEF p, q
      <4>2. /\ p \o q \in Seq(Events) /\ Len(p \o q) = Len(p) + Len(q)
            /\ \A i \in 1..Len(p) + Len(q) :
                 (p \o q)[i] = IF i <= Len(p) THEN p[i] ELSE q[i - Len(p)]
        BY <4>1, ConcatProperties
      <4>3. Coming' = p \o q
        BY <3>1 DEF p, q
      <4>4. /\ Coming' \in Seq(Events) /\ Len(Coming') = Len(p) + Len(q)
            /\ \A i \in 1..Len(p) + Len(q) :
                 Coming'[i] = IF i <= Len(p) THEN p[i] ELSE q[i - Len(p)]
        BY <4>2, <4>3
      <4> QED
        BY <4>4 DEF p, q
    <3>3. Len(batch') + Len(sent') = Len(sent)
      BY <1>3, <1>6, <1>7
    <3> QED
      BY <1>6, <3>2, <3>3
  <2>3. \A i \in 1..Len(sent) : Coming'[i] = sent[i]
    <3> TAKE i \in 1..Len(sent)
    <3>1. CASE i <= n
      <4>1. i \in 1..n
        BY <1>3, <3>1
      <4> QED
        BY <1>6, <2>2, <3>1, <4>1
    <3>2. CASE ~(i <= n)
      <4>1. i - n \in 1..Len(sent) - n /\ n + (i - n) = i
        BY <1>3, <3>2
      <4>2. sent'[i - n] = sent[n + (i - n)]
        BY <1>7, <4>1
      <4> QED
        BY <2>2, <3>2, <4>1, <4>2
    <3> QED
      BY <3>1, <3>2
  <2> QED
    BY <2>1, <2>2, <2>3
<1> QED
  <2>1. head' \in 0..Ring - 1 /\ tail' \in 0..Ring - 1 /\ Len(sent') = Filled' /\ Len(batch') <= Batch
    BY <1>1, <1>3, <1>4, <1>6, <1>7, <1>8, <1>9
  <2>2. loop' \in {"off", "wait"} => batch' = <<>>
    BY <1>1, <1>6
  <2> QED
    BY <1>6, <1>7, <1>11, <1>13, <1>14, <2>1, <2>2 DEF RingInv

-----------------------------------------------------------------------------
(***************************************************************************)
(* A new server.                                                           *)
(***************************************************************************)
LEMMA NewServerStarts ==
  ASSUME NEW d, NewServer(d)
  PROVE  /\ RingInv' /\ SurfaceInv'
         /\ Coming' = <<>> /\ \A s \in Surf : ~Toplevel(s)'
<1>1. /\ slots' = [i \in 0..Ring - 1 |-> Blank] /\ head' = 0 /\ tail' = 0
      /\ sent' = <<>> /\ batch' = <<>>
      /\ surf' = [s \in Surf |-> Gone]
      /\ busy' = {} /\ again' = {} /\ stranded' = {}
      /\ active' = None /\ pointer' = None /\ keyboard' = None
      /\ told' = [s \in Surf |-> None] /\ skipped' = {}
  BY DEF NewServer
<1>2. RingInv'
  BY <1>1, WaylandAssumption DEF RingInv, Filled, Blank, Events
<1>3. Coming' = <<>>
  BY <1>1 DEF Coming
<1>4. SurfaceInv'
  <2>1. surf' \in [Surf -> Surface]
    BY <1>1 DEF Gone, Surface
  <2>2. \A s \in Surf : surf'[s] = Gone /\ surf'[s].cur = None /\ surf'[s].pend = None
    BY <1>1 DEF Gone
  <2>3. BuffersHeld'
    BY <1>1, <2>2, WaylandAssumption DEF BuffersHeld
  <2>4. FocusLives'
    BY <1>1, WaylandAssumption DEF FocusLives
  <2> QED
    BY <1>1, <2>1, <2>2, <2>3, <2>4, WaylandAssumption DEF SurfaceInv
<1>5. \A s \in Surf : ~Toplevel(s)'
  BY <1>1 DEF Toplevel, Gone
<1> QED
  BY <1>2, <1>3, <1>4, <1>5

-----------------------------------------------------------------------------
(***************************************************************************)
(* Sizes on their way.                                                     *)
(***************************************************************************)
LEMMA ComingHolds ==
  ASSUME RingInv
  PROVE  /\ Coming \in Seq(Events) /\ Len(Coming) = Len(batch) + Len(sent) /\ Len(Coming) \in Nat
         /\ \A i \in 1..Len(Coming) :
              Coming[i] = IF i <= Len(batch) THEN batch[i] ELSE sent[i - Len(batch)]
<1>1. batch \in Seq(Events) /\ sent \in Seq(Events)
  BY DEF RingInv
<1> QED
  BY <1>1, ConcatProperties DEF Coming

(* What is accepted comes last. *)
LEMMA ComingGrows ==
  ASSUME RingInv, NEW e \in Events, sent' = Append(sent, e), batch' = batch
  PROVE  /\ Len(Coming') = Len(Coming) + 1 /\ Coming'[Len(Coming) + 1] = e
         /\ \A i \in 1..Len(Coming) : Coming'[i] = Coming[i]
<1>1. batch \in Seq(Events) /\ sent \in Seq(Events) /\ Append(sent, e) \in Seq(Events)
  BY DEF RingInv
<1>2. Coming' = batch \o Append(sent, e) /\ Coming = batch \o sent
  BY DEF Coming
<1>3. Len(Append(sent, e)) = Len(sent) + 1 /\ Append(sent, e)[Len(sent) + 1] = e
      /\ \A i \in 1..Len(sent) : Append(sent, e)[i] = sent[i]
  BY <1>1
<1>4. /\ Len(Coming) = Len(batch) + Len(sent)
      /\ \A i \in 1..Len(Coming) :
           Coming[i] = IF i <= Len(batch) THEN batch[i] ELSE sent[i - Len(batch)]
  BY ComingHolds
<1>5. /\ Len(Coming') = Len(batch) + Len(Append(sent, e))
      /\ \A i \in 1..Len(batch) + Len(Append(sent, e)) :
           Coming'[i] = IF i <= Len(batch) THEN batch[i] ELSE Append(sent, e)[i - Len(batch)]
  BY <1>1, <1>2, ConcatProperties
<1>6. Len(batch) \in Nat /\ Len(sent) \in Nat
  BY <1>1
<1>7. Len(Coming') = Len(Coming) + 1
  BY <1>3, <1>4, <1>5, <1>6
<1>8. Coming'[Len(Coming) + 1] = e
  <2>1. Len(Coming) + 1 \in 1..Len(batch) + Len(Append(sent, e)) /\ ~(Len(Coming) + 1 <= Len(batch))
        /\ Len(Coming) + 1 - Len(batch) = Len(sent) + 1
    BY <1>3, <1>4, <1>6
  <2> QED
    BY <1>3, <1>5, <2>1
<1>9. \A i \in 1..Len(Coming) : Coming'[i] = Coming[i]
  <2> TAKE i \in 1..Len(Coming)
  <2>1. i \in 1..Len(batch) + Len(Append(sent, e))
    BY <1>3, <1>4, <1>6
  <2>2. ~(i <= Len(batch)) => i - Len(batch) \in 1..Len(sent)
    BY <1>4, <1>6
  <2> QED
    BY <1>3, <1>4, <1>5, <2>1, <2>2
<1> QED
  BY <1>7, <1>8, <1>9

(* The loop works off the oldest event. *)
LEMMA ComingShrinks ==
  ASSUME RingInv, batch # <<>>, batch' = Tail(batch), sent' = sent
  PROVE  /\ Len(Coming) = Len(Coming') + 1 /\ Len(Coming') \in Nat /\ Coming[1] = Head(batch)
         /\ Coming[1] \in Events
         /\ \A i \in 1..Len(Coming') : Coming'[i] = Coming[i + 1]
<1>1. batch \in Seq(Events) /\ sent \in Seq(Events)
  BY DEF RingInv
<1>2. /\ Tail(batch) \in Seq(Events) /\ Len(batch) \in Nat \ {0} /\ Len(Tail(batch)) = Len(batch) - 1
      /\ Head(batch) = batch[1] /\ Head(batch) \in Events
      /\ \A i \in 1..Len(batch) - 1 : Tail(batch)[i] = batch[i + 1]
  BY <1>1
<1>3. /\ Len(Coming) = Len(batch) + Len(sent)
      /\ \A i \in 1..Len(Coming) :
           Coming[i] = IF i <= Len(batch) THEN batch[i] ELSE sent[i - Len(batch)]
  BY ComingHolds
<1>4. Coming' = Tail(batch) \o sent
  BY DEF Coming
<1>5. /\ Len(Coming') = Len(Tail(batch)) + Len(sent)
      /\ \A i \in 1..Len(Tail(batch)) + Len(sent) :
           Coming'[i] = IF i <= Len(Tail(batch)) THEN Tail(batch)[i] ELSE sent[i - Len(Tail(batch))]
  BY <1>1, <1>2, <1>4, ConcatProperties
<1>6. Len(sent) \in Nat
  BY <1>1
<1>7. Len(Coming) = Len(Coming') + 1 /\ Len(Coming') \in Nat
  BY <1>2, <1>3, <1>5, <1>6
<1>8. Coming[1] = Head(batch)
  BY <1>2, <1>3, <1>6
<1>9. \A i \in 1..Len(Coming') : Coming'[i] = Coming[i + 1]
  <2> TAKE i \in 1..Len(Coming')
  <2>1. i \in 1..Len(Tail(batch)) + Len(sent) /\ i + 1 \in 1..Len(Coming)
    BY <1>5, <1>6, <1>7, <1>2
  <2>2. CASE i <= Len(batch) - 1
    BY <1>2, <1>3, <1>5, <2>1, <2>2
  <2>3. CASE ~(i <= Len(batch) - 1)
    <3>1. ~(i + 1 <= Len(batch)) /\ i + 1 - Len(batch) = i - Len(Tail(batch)) /\ ~(i <= Len(Tail(batch)))
      BY <1>2, <2>3
    <3> QED
      BY <1>3, <1>5, <2>1, <3>1
  <2> QED
    BY <2>2, <2>3
<1> QED
  BY <1>2, <1>7, <1>8, <1>9

(* What was asked for stays what the last resize brings when an event is   *)
(* accepted: a resize brings its own size, other events change nothing.    *)
LEMMA GrowKeepsSize ==
  ASSUME RingInv, NEW e \in Events, sent' = Append(sent, e), batch' = batch,
         LastResize, Settled,
         Resize(e) => wanted' = e.val,
         ~Resize(e) => UNCHANGED <<size, wanted, loop, surf, skipped, told>>
  PROVE  LastResize' /\ Settled'
<1>1. /\ Len(Coming') = Len(Coming) + 1 /\ Coming'[Len(Coming) + 1] = e
      /\ \A i \in 1..Len(Coming) : Coming'[i] = Coming[i]
  BY ComingGrows
<1>2. Len(Coming) \in Nat
  BY ComingHolds
<1>3. Len(Coming) + 1 \in 1..Len(Coming')
  BY <1>1, <1>2
<1> HIDE DEF Coming
<1>4. CASE Resize(e)
  <2>1. \A i \in 1..Len(Coming') : Len(Coming) + 1 <= i => i = Len(Coming) + 1
    BY <1>1, <1>2
  <2>2. LastResize'
    BY <1>1, <1>3, <1>4, <2>1 DEF LastResize, Resize
  <2>3. Settled'
    BY <1>1, <1>3, <1>4 DEF Settled, Resize
  <2> QED
    BY <2>2, <2>3
<1>5. CASE ~Resize(e)
  <2>1. \A i \in 1..Len(Coming') : i \in 1..Len(Coming) \/ i = Len(Coming) + 1
    BY <1>1, <1>2
  <2>2. \A i \in 1..Len(Coming) : i \in 1..Len(Coming')
    BY <1>1, <1>2
  <2>3. LastResize'
    BY <1>1, <1>5, <2>1, <2>2 DEF LastResize, Resize
  <2>4. Settled'
    BY <1>1, <1>5, <2>1, <2>2 DEF Settled, Resize, Toplevel
  <2> QED
    BY <2>3, <2>4
<1> QED
  BY <1>4, <1>5

(* Attaching a window asks for a size and sends it, unless the server has  *)
(* it already and no other is on its way.                                  *)
LEMMA AttachKeepsSize ==
  ASSUME RingInv, SizeInv, NEW w \in Window, NEW s \in Size, attach_window(w, s),
         UNCHANGED <<loop, batch, running, surf, skipped, told>>
  PROVE  RingInv' /\ SizeInv'
<1> DEFINE e == [type |-> "resize", val |-> s]
<1>1. e \in Events /\ Resize(e) /\ e.val = s
  BY DEF Events, Resize
<1>2. size' = s /\ wanted' = s
  BY DEF attach_window
<1> HIDE DEF e
<1>3. CASE size # s \/ window # w
  <2>1. enqueue_input_event(e) /\ raced' = raced
    BY <1>3 DEF attach_window, e
  <2>2. RingInv'
    BY <1>1, <2>1, EnqueueKeepsRing
  <2>3. \/ sent' = Append(sent, e) /\ dropped' = dropped
        \/ dropped'
    BY <1>1, <2>1, EnqueueKeepsRing
  <2>4. ASSUME running', ~dropped', ~raced'
        PROVE  LastResize' /\ Settled'
    <3>1. sent' = Append(sent, e) /\ running /\ ~dropped /\ ~raced
      BY <2>1, <2>3, <2>4
    <3>2. LastResize /\ Settled
      BY <3>1 DEF SizeInv
    <3> QED
      BY <1>1, <1>2, <3>1, <3>2, GrowKeepsSize
  <2> QED
    BY <1>2, <2>2, <2>4 DEF SizeInv
<1>4. CASE ~(size # s \/ window # w)
  <2>1. /\ UNCHANGED <<ringVars, dropped>>
        /\ raced' = (raced \/ \E x \in {sent[i] : i \in 1..Len(sent)}
                                   \union {batch[i] : i \in 1..Len(batch)} :
                            x.type = "resize" /\ x.val # s)
    BY <1>4 DEF attach_window
  <2>2. RingInv' /\ Coming' = Coming
    BY <2>1 DEF RingInv, ringVars, Coming, Filled, Slot
  <2>3. ASSUME running', ~dropped', ~raced'
        PROVE  LastResize' /\ Settled'
    <3>1. LastResize /\ Settled /\ size = s
      BY <1>4, <2>1, <2>3 DEF SizeInv
    <3>2. \A x \in {sent[i] : i \in 1..Len(sent)} \union {batch[i] : i \in 1..Len(batch)} :
             Resize(x) => x.val = s
      BY <2>1, <2>3 DEF Resize
    <3>3. \A i \in 1..Len(Coming) : Resize(Coming[i]) => Coming[i].val = s
      <4> TAKE i \in 1..Len(Coming)
      <4>1. Coming[i] = IF i <= Len(batch) THEN batch[i] ELSE sent[i - Len(batch)]
        BY ComingHolds
      <4>2. Len(Coming) = Len(batch) + Len(sent) /\ Len(batch) \in Nat /\ Len(sent) \in Nat
        BY ComingHolds DEF RingInv
      <4>3. IF i <= Len(batch) THEN i \in 1..Len(batch) ELSE i - Len(batch) \in 1..Len(sent)
        BY <4>2
      <4> QED
        BY <3>2, <4>1, <4>3
    <3>4. LastResize'
      BY <1>2, <2>2, <3>3 DEF LastResize
    <3>5. Settled'
      BY <1>2, <2>2, <3>1 DEF Settled, Toplevel
    <3> QED
      BY <3>4, <3>5
  <2> QED
    BY <1>2, <2>2, <2>3 DEF SizeInv
<1> QED
  BY <1>3, <1>4

(* Working off an event: the last resize still brings what was asked for,  *)
(* or was the one worked off.                                              *)
LEMMA DispatchKeepsSize ==
  ASSUME RingInv, SizeInv, DispatchInput \/ DispatchResize
  PROVE  RingInv' /\ SizeInv'
<1>1. /\ batch # <<>> /\ batch' = Tail(batch) /\ sent' = sent /\ loop = "drain" /\ loop' \in {"drain", "tell"}
      /\ UNCHANGED <<slots, head, tail, wanted, running, dropped, raced, surf, told, skipped>>
  BY DEF DispatchInput, DispatchResize, ringVars, winVars, uiVars, surfVars
<1>2. RingInv'
  <2>1. batch' \in Seq(Events) /\ Len(batch') <= Batch
    BY <1>1, WaylandAssumption DEF RingInv
  <2> QED
    BY <1>1, <2>1 DEF RingInv, Filled, Slot
<1>3. /\ Len(Coming) = Len(Coming') + 1 /\ Len(Coming') \in Nat /\ Coming[1] = Head(batch)
      /\ Coming[1] \in Events
      /\ \A i \in 1..Len(Coming') : Coming'[i] = Coming[i + 1]
  BY <1>1, ComingShrinks
<1>4. size' \in Size \union {None}
  BY <1>3 DEF DispatchInput, DispatchResize, SizeInv, Events
<1>5. ASSUME running', ~dropped', ~raced'
      PROVE  LastResize' /\ Settled'
  <2>1. LastResize /\ Settled
    BY <1>1, <1>5 DEF SizeInv
  <2> HIDE DEF Coming
  <2>2. LastResize'
    <3> SUFFICES ASSUME NEW i \in 1..Len(Coming'), Resize(Coming'[i]),
                        \A j \in 1..Len(Coming') : Resize(Coming'[j]) => j <= i
                 PROVE  Coming'[i].val = wanted
      BY <1>1 DEF LastResize, Resize
    <3>1. i + 1 \in 1..Len(Coming)
      BY <1>3
    <3>2. \A j \in 1..Len(Coming) : Resize(Coming[j]) => j <= i + 1
      <4> SUFFICES ASSUME NEW j \in 1..Len(Coming), Resize(Coming[j]), j # 1 PROVE j <= i + 1
        BY <1>3
      <4>1. j - 1 \in 1..Len(Coming') /\ (j - 1) + 1 = j
        BY <1>3
      <4>2. j - 1 <= i
        BY <1>3, <4>1
      <4> QED
        BY <1>3, <4>2
    <3> QED
      BY <1>3, <2>1, <3>1, <3>2 DEF LastResize
  <2>3. Settled'
    <3> SUFFICES ASSUME \A i \in 1..Len(Coming') : ~Resize(Coming'[i])
                 PROVE  /\ size' = wanted
                        /\ loop' # "tell" => \A s \in Surf \ skipped : Toplevel(s) => told[s] = wanted
      BY <1>1 DEF Settled, Resize, Toplevel
    <3>1. \A j \in 1..Len(Coming) : Resize(Coming[j]) => j = 1
      <4> SUFFICES ASSUME NEW j \in 1..Len(Coming), Resize(Coming[j]), j # 1 PROVE FALSE
        OBVIOUS
      <4>1. j - 1 \in 1..Len(Coming') /\ (j - 1) + 1 = j
        BY <1>3
      <4> QED
        BY <1>3, <4>1
    <3>2. CASE DispatchInput
      <4>1. ~Resize(Coming[1]) /\ size' = size
        BY <1>3, <3>2 DEF DispatchInput, Resize
      <4> QED
        BY <1>1, <2>1, <3>1, <4>1 DEF Settled
    <3>3. CASE DispatchResize
      <4>1. Resize(Coming[1]) /\ size' = Coming[1].val /\ loop' = "tell"
        BY <1>3, <3>3 DEF DispatchResize, Resize
      <4>2. 1 \in 1..Len(Coming)
        BY <1>3
      <4> QED
        BY <2>1, <3>1, <4>1, <4>2 DEF LastResize
    <3> QED
      BY <3>2, <3>3
  <2> QED
    BY <2>2, <2>3
<1> QED
  BY <1>1, <1>2, <1>4, <1>5 DEF SizeInv

(* A request tells a toplevel nothing but the size of the server. *)
LEMMA RequestKeepsSize ==
  ASSUME RingInv, SizeInv, Serving,
         \A s \in Surf \ skipped' :
           Toplevel(s)' => \/ told'[s] = size
                           \/ s \notin skipped /\ Toplevel(s) /\ told'[s] = told[s]
  PROVE  RingInv' /\ SizeInv'
<1>1. UNCHANGED <<loop, size, wanted, slots, head, tail, sent, batch, dropped, raced, running>>
  BY DEF Serving, ringVars, winVars, uiVars
<1>2. RingInv' /\ Coming' = Coming
  BY <1>1 DEF RingInv, Coming, Filled, Slot
<1>3. LastResize => LastResize'
  BY <1>1, <1>2 DEF LastResize
<1>4. Settled => Settled'
  BY <1>1, <1>2 DEF Settled
<1> QED
  BY <1>1, <1>2, <1>3, <1>4 DEF SizeInv

-----------------------------------------------------------------------------
(***************************************************************************)
(* Requests: the surfaces, their buffers and the seat.                     *)
(***************************************************************************)
LEMMA FoundLives ==
  ASSUME NEW a
  PROVE  /\ Found(a) \subseteq Surf
         /\ \A s \in Found(a) : surf[s].life = "live" /\ surf[s].xdg /\ ~surf[s].cursor
BY DEF Found, Targets

(* A request that changes what a surface is, and no buffer. *)
LEMMA RoleKeepsSurfaces ==
  ASSUME SurfaceInv, NEW s \in Surf, NEW r \in Surface, surf' = [surf EXCEPT ![s] = r],
         r.life = "live", r.pend = surf[s].pend, r.cur = surf[s].cur,
         UNCHANGED <<bufVars, active, keyboard>>, pointer' \in {pointer, None},
         r.cursor => surf[s].cursor \/ pointer' # s,
         skipped' \subseteq Surf, told' \in [Surf -> Size \union {None}]
  PROVE  SurfaceInv'
<1>1. /\ surf' \in [Surf -> Surface] /\ surf'[s] = r /\ \A t \in Surf : t # s => surf'[t] = surf[t]
  BY DEF SurfaceInv
<1>2. \A t \in Surf : surf'[t].pend = surf[t].pend /\ surf'[t].cur = surf[t].cur
  BY <1>1
<1>3. BuffersHeld' /\ UNCHANGED <<busy, again, stranded>>
  BY <1>2, WaylandAssumption DEF SurfaceInv, BuffersHeld, bufVars
<1>4. \A t \in Surf : surf[t].life # "gone" => surf'[t].life # "gone"
  BY <1>1
<1>5. FocusLives'
  <2>1. active' # None => surf'[active'].life = "live"
    BY <1>1 DEF SurfaceInv, FocusLives
  <2>2. \A f \in {pointer', keyboard'} \ {None} : surf'[f].life # "gone"
    BY <1>4 DEF SurfaceInv, FocusLives
  <2>3. pointer' # None => ~surf'[pointer'].cursor
    BY <1>1 DEF SurfaceInv, FocusLives
  <2> QED
    BY <2>1, <2>2, <2>3 DEF FocusLives
<1>6. \A b \in stranded' : surf'[Owner[b]].cur # b
  BY <1>2, <1>3, WaylandAssumption DEF SurfaceInv
<1> QED
  BY <1>1, <1>2, <1>3, <1>5, <1>6 DEF SurfaceInv

(* The fields of a surface that a request leaves alone. *)
LEMMA SurfaceFields ==
  ASSUME NEW r \in Surface
  PROVE  /\ \A v \in BOOLEAN :
              /\ [r EXCEPT !["top"] = v] = [r EXCEPT !.top = v]
              /\ [r EXCEPT !["acked"] = v] = [r EXCEPT !.acked = v]
         /\ \A v : [r EXCEPT !["cursor"] = v] = [r EXCEPT !.cursor = v]
         /\ \A v : [r EXCEPT !["pend"] = v] = [r EXCEPT !.pend = v]
BY DEF Surface

(* Requests that change a surface's role or state, or the focus. *)
LEMMA RolesKept ==
  ASSUME SurfaceInv, NEW s \in Surf, size \in Size \union {None},
         \/ Connect(s) \/ GetXdgSurface(s) \/ GetToplevel(s) \/ AckConfigure(s)
         \/ DestroyXdg(s) \/ SetCursor(s)
  PROVE  /\ SurfaceInv'
         /\ \A t \in Surf \ skipped' :
              Toplevel(t)' => \/ told'[t] = size
                              \/ t \notin skipped /\ Toplevel(t) /\ told'[t] = told[t]
<1>1. surf[s] \in Surface /\ told \in [Surf -> Size \union {None}] /\ skipped \subseteq Surf
  BY DEF SurfaceInv
<1>2. pointer \in {pointer, None}
  OBVIOUS
<1>3. surf \in [Surf -> Surface]
  BY DEF SurfaceInv
<1>4. CASE Connect(s)
  <2> DEFINE r == [Gone EXCEPT !.life = "live"]
  <2>1. /\ surf[s].life # "live" /\ surf' = [surf EXCEPT ![s] = r]
        /\ UNCHANGED <<bufVars, active, pointer, keyboard, told, skipped>>
    BY <1>4 DEF Connect, seatVars
  <2>2. /\ r \in Surface /\ r.life = "live" /\ r.pend = None /\ r.cur = None /\ r.xdg = FALSE
        /\ r.cursor = FALSE
    BY DEF Gone, Surface
  <2>3. surf[s].pend = None /\ surf[s].cur = None
    BY <2>1 DEF SurfaceInv, Gone, Torn
  <2> HIDE DEF r
  <2>4. SurfaceInv'
    BY <1>1, <1>2, <2>1, <2>2, <2>3, RoleKeepsSurfaces
  <2>5. surf'[s] = r /\ \A t \in Surf : t # s => surf'[t] = surf[t]
    BY <1>3, <2>1
  <2> QED
    BY <2>1, <2>2, <2>4, <2>5 DEF Toplevel
<1>5. CASE GetXdgSurface(s)
  <2> DEFINE more == surf[s].xdg \/ surf[s].xdgs
             r == [surf[s] EXCEPT !.xdg = TRUE, !.xdgs = more, !.cursor = FALSE, !.top = FALSE,
                                  !.tops = FALSE, !.acked = FALSE]
  <2>1. /\ surf[s].life = "live" /\ surf' = [surf EXCEPT ![s] = r]
        /\ UNCHANGED <<bufVars, active, pointer, keyboard, told, skipped>>
    <3>1. surf' = [surf EXCEPT ![s] = r]
      BY <1>5, Zenon DEF GetXdgSurface
    <3> QED
      BY <1>5, <3>1 DEF GetXdgSurface, seatVars
  <2>0. more \in BOOLEAN
    BY <1>1 DEF Surface
  <2> HIDE DEF more
  <2>2. /\ r \in Surface /\ r.life = "live" /\ r.pend = surf[s].pend /\ r.cur = surf[s].cur
        /\ r.top = FALSE /\ r.cursor = FALSE
    BY <1>1, <2>0, <2>1 DEF Surface
  <2> HIDE DEF r
  <2>4. SurfaceInv'
    BY <1>1, <1>2, <2>1, <2>2, RoleKeepsSurfaces
  <2>5. surf'[s] = r /\ \A t \in Surf : t # s => surf'[t] = surf[t]
    BY <1>3, <2>1
  <2> QED
    BY <2>1, <2>2, <2>4, <2>5 DEF Toplevel
<1>6. CASE GetToplevel(s)
  <2> DEFINE more == surf[s].top \/ surf[s].tops
             r == [surf[s] EXCEPT !.top = TRUE, !.tops = more]
  <2>1. /\ surf[s].life = "live" /\ surf' = [surf EXCEPT ![s] = r]
        /\ told' = [told EXCEPT ![s] = size] /\ skipped' = skipped \ {s}
        /\ UNCHANGED <<bufVars, active, pointer, keyboard>>
    <3>1. surf' = [surf EXCEPT ![s] = r]
      BY <1>6, Zenon DEF GetToplevel
    <3> QED
      BY <1>6, <3>1 DEF GetToplevel, seatVars
  <2>0. more \in BOOLEAN
    BY <1>1 DEF Surface
  <2> HIDE DEF more
  <2>2. /\ r \in Surface /\ r.life = "live" /\ r.pend = surf[s].pend /\ r.cur = surf[s].cur
        /\ r.cursor = surf[s].cursor
    BY <1>1, <2>0, <2>1 DEF Surface
  <2>3. /\ told' \in [Surf -> Size \union {None}] /\ skipped' \subseteq Surf
        /\ told'[s] = size /\ \A t \in Surf : t # s => told'[t] = told[t]
    BY <1>1, <2>1
  <2> HIDE DEF r
  <2>4. SurfaceInv'
    BY <1>2, <2>1, <2>2, <2>3, RoleKeepsSurfaces
  <2>5. surf'[s] = r /\ \A t \in Surf : t # s => surf'[t] = surf[t]
    BY <1>3, <2>1
  <2> QED
    BY <2>1, <2>3, <2>4, <2>5 DEF Toplevel
<1>7. CASE AckConfigure(s)
  <2> DEFINE r == [surf[s] EXCEPT !.acked = TRUE]
  <2>1. /\ Toplevel(s) /\ surf' = [surf EXCEPT ![s] = r]
        /\ UNCHANGED <<bufVars, active, pointer, keyboard, told, skipped>>
    BY <1>1, <1>7, SurfaceFields DEF AckConfigure, Change, seatVars
  <2>2. /\ r \in Surface /\ r.life = "live" /\ r.pend = surf[s].pend /\ r.cur = surf[s].cur
        /\ r.cursor = surf[s].cursor
    BY <1>1, <2>1 DEF Surface, Toplevel
  <2> HIDE DEF r
  <2>4. SurfaceInv'
    BY <1>1, <1>2, <2>1, <2>2, RoleKeepsSurfaces
  <2>5. surf'[s] = r /\ \A t \in Surf : t # s => surf'[t] = surf[t]
    BY <1>3, <2>1
  <2> QED
    BY <2>1, <2>4, <2>5 DEF Toplevel
<1>8. CASE DestroyXdg(s)
  <2>1. /\ surf[s].life = "live"
        /\ told' = [told EXCEPT ![s] = None] /\ skipped' = skipped \ {s}
        /\ UNCHANGED <<bufVars, active, pointer, keyboard>>
    BY <1>8 DEF DestroyXdg, seatVars
  <2>2. PICK r \in Surface :
             /\ surf' = [surf EXCEPT ![s] = r] /\ r.life = "live"
             /\ r.pend = surf[s].pend /\ r.cur = surf[s].cur /\ r.cursor = surf[s].cursor
             /\ r.top = FALSE \/ r.xdg = FALSE
    <3>1. CASE Change(s, "top", FALSE)
      <4> DEFINE q == [surf[s] EXCEPT !.top = FALSE]
      <4>1. surf' = [surf EXCEPT ![s] = q]
        BY <1>1, <3>1, SurfaceFields DEF Change
      <4>2. /\ q \in Surface /\ q.life = "live" /\ q.pend = surf[s].pend /\ q.cur = surf[s].cur
            /\ q.cursor = surf[s].cursor /\ q.top = FALSE
        BY <1>1, <2>1 DEF Surface
      <4> HIDE DEF q
      <4> QED
        BY <4>1, <4>2
    <3>2. CASE surf' = [surf EXCEPT ![s] = [@ EXCEPT !.xdg = FALSE, !.top = FALSE, !.tops = FALSE,
                                               !.acked = FALSE]]
      <4> DEFINE q == [surf[s] EXCEPT !.xdg = FALSE, !.top = FALSE, !.tops = FALSE, !.acked = FALSE]
      <4>1. surf' = [surf EXCEPT ![s] = q]
        BY <3>2
      <4>2. /\ q \in Surface /\ q.life = "live" /\ q.pend = surf[s].pend /\ q.cur = surf[s].cur
            /\ q.cursor = surf[s].cursor /\ q.top = FALSE
        BY <1>1, <2>1 DEF Surface
      <4> HIDE DEF q
      <4> QED
        BY <4>1, <4>2
    <3> QED
      BY <1>8, <3>1, <3>2 DEF DestroyXdg
  <2>3. /\ told' \in [Surf -> Size \union {None}] /\ skipped' \subseteq Surf
        /\ \A t \in Surf : t # s => told'[t] = told[t]
    BY <1>1, <2>1
  <2>4. SurfaceInv'
    BY <1>2, <2>1, <2>2, <2>3, RoleKeepsSurfaces
  <2>5. surf'[s] = r /\ \A t \in Surf : t # s => surf'[t] = surf[t]
    BY <1>3, <2>2
  <2> QED
    BY <2>1, <2>2, <2>3, <2>4, <2>5 DEF Toplevel
<1>9. CASE SetCursor(s)
  <2> DEFINE r == [surf[s] EXCEPT !.cursor = TRUE]
  <2>1. /\ surf[s].life = "live" /\ surf' = [surf EXCEPT ![s] = r]
        /\ pointer' = IF pointer = s THEN None ELSE pointer
        /\ UNCHANGED <<bufVars, active, keyboard, told, skipped>>
    BY <1>1, <1>9, SurfaceFields DEF SetCursor, Change
  <2>2. /\ r \in Surface /\ r.life = "live" /\ r.pend = surf[s].pend /\ r.cur = surf[s].cur
        /\ r.xdg = surf[s].xdg /\ r.top = surf[s].top
    BY <1>1, <2>1 DEF Surface
  <2> HIDE DEF r
  <2>3. pointer' \in {pointer, None} /\ pointer' # s
    BY <2>1, WaylandAssumption
  <2>4. SurfaceInv'
    BY <1>1, <2>1, <2>2, <2>3, RoleKeepsSurfaces
  <2>5. surf'[s] = r /\ \A t \in Surf : t # s => surf'[t] = surf[t]
    BY <1>3, <2>1
  <2> QED
    BY <2>1, <2>2, <2>4, <2>5 DEF Toplevel
<1> QED
  BY <1>4, <1>5, <1>6, <1>7, <1>8, <1>9

(* get_target_surface gives a focus to a surface that lives. *)
LEMMA FocusKept ==
  ASSUME SurfaceInv, UNCHANGED <<surf, bufVars, active, told, skipped>>,
         pointer' = pointer \/ pointer' \in get_target_surface,
         keyboard' = keyboard \/ keyboard' \in get_target_surface
  PROVE  SurfaceInv'
<1>1. /\ get_target_surface \subseteq Surf
      /\ \A t \in get_target_surface : surf[t].life = "live" /\ ~surf[t].cursor
  BY FoundLives DEF get_target_surface
<1>2. BuffersHeld' /\ UNCHANGED <<busy, again, stranded>>
  BY DEF SurfaceInv, BuffersHeld, bufVars
<1>3. FocusLives' /\ pointer' \in Surf \union {None} /\ keyboard' \in Surf \union {None}
  BY <1>1 DEF SurfaceInv, FocusLives
<1> QED
  BY <1>2, <1>3 DEF SurfaceInv

(* A client attaches one of its own buffers. *)
LEMMA AttachKeepsSurfaces ==
  ASSUME SurfaceInv, NEW s \in Surf, NEW b \in Buf \union {None}, Attach(s, b)
  PROVE  SurfaceInv' /\ \A t \in Surf : Toplevel(t)' => Toplevel(t)
<1> DEFINE r == [surf[s] EXCEPT !.pend = b]
<1>1. surf[s] \in Surface /\ surf \in [Surf -> Surface]
  BY DEF SurfaceInv
<1>2. /\ surf[s].life = "live" /\ surf' = [surf EXCEPT ![s] = r]
      /\ b \in Buf => Owner[b] = s
      /\ UNCHANGED <<busy, again, stranded, active, pointer, keyboard, told, skipped>>
  BY <1>1, SurfaceFields, WaylandAssumption DEF Attach, Change, bufVars, seatVars
<1>3. /\ r \in Surface /\ r.life = "live" /\ r.pend = b /\ r.cur = surf[s].cur
      /\ r.xdg = surf[s].xdg /\ r.top = surf[s].top /\ r.cursor = surf[s].cursor
  BY <1>1, <1>2 DEF Surface
<1> HIDE DEF r
<1>4. /\ surf' \in [Surf -> Surface] /\ surf'[s] = r /\ \A t \in Surf : t # s => surf'[t] = surf[t]
  BY <1>1, <1>2, <1>3
<1>5. \A t \in Surf : /\ surf'[t].cur = surf[t].cur /\ surf'[t].life = surf[t].life
                    /\ surf'[t].cursor = surf[t].cursor
  BY <1>2, <1>3, <1>4
<1>6. BuffersHeld'
  BY <1>2, <1>5, WaylandAssumption DEF SurfaceInv, BuffersHeld
<1>7. FocusLives'
  BY <1>2, <1>5 DEF SurfaceInv, FocusLives
<1>8. \A t \in Surf : \A x \in Buf : surf'[t].pend = x \/ surf'[t].cur = x => Owner[x] = t
  BY <1>2, <1>3, <1>4, <1>5 DEF SurfaceInv
<1>9. \A t \in Surf : surf'[t].life = "live" \/ surf'[t] \in {Gone, Torn}
  BY <1>3, <1>4 DEF SurfaceInv
<1>s. \A x \in stranded' : surf'[Owner[x]].cur # x
  BY <1>2, <1>5, WaylandAssumption DEF SurfaceInv
<1>10. SurfaceInv'
  BY <1>2, <1>4, <1>6, <1>7, <1>8, <1>9, <1>s DEF SurfaceInv
<1> QED
  BY <1>2, <1>3, <1>4, <1>10 DEF Toplevel

(* A commit makes the pending buffer current and gives the one before it   *)
(* back.                                                                   *)
LEMMA CommitKeepsSurfaces ==
  ASSUME SurfaceInv, NEW s \in Surf, Commit(s)
  PROVE  SurfaceInv' /\ \A t \in Surf : Toplevel(t)' => Toplevel(t)
<1> DEFINE pend == surf[s].pend
           cur == surf[s].cur
           replaced == IF pend # None /\ cur # None /\ ~SameDescriptor(cur, pend) THEN {cur} ELSE {}
           given == IF pend = None THEN {} ELSE {pend}
           now == IF pend = None THEN cur ELSE pend
           r == [surf[s] EXCEPT !.cur = now, !.mapped = (surf[s].mapped \/ pend # None), !.pend = None]
<1>1. surf[s] \in Surface /\ surf \in [Surf -> Surface]
  BY DEF SurfaceInv
<1>2. /\ surf[s].life = "live" /\ surf' = [surf EXCEPT ![s] = r]
      /\ busy' = (busy \union given) \ replaced
      /\ again' = (again \ (given \union replaced)) \union (given \intersect replaced)
      /\ stranded' = stranded \ given
      /\ active' \in {active, s}
      /\ UNCHANGED <<pointer, keyboard, told, skipped>>
  <2>1. active' = active \/ active' = s
    BY DEF Commit
  <2>2. surf' = [surf EXCEPT ![s] = r]
    BY Zenon DEF Commit
  <2>3. surf[s].life = "live" /\ UNCHANGED <<pointer, keyboard, told, skipped>>
    BY DEF Commit
  <2>6. stranded' = stranded \ given
    BY Zenon DEF Commit
  <2>4. busy' = (busy \union given) \ replaced
    BY Zenon DEF Commit
  <2>5. again' = (again \ (given \union replaced)) \union (given \intersect replaced)
    BY Zenon DEF Commit
  <2> HIDE DEF r, given, replaced
  <2> QED
    BY <2>1, <2>2, <2>3, <2>4, <2>5, <2>6
<1>3. pend \in Buf \union {None} /\ cur \in Buf \union {None}
  BY <1>1 DEF Surface
<1>4. /\ r \in Surface /\ r.life = "live" /\ r.pend = None /\ r.cur = now
      /\ r.xdg = surf[s].xdg /\ r.top = surf[s].top /\ r.cursor = surf[s].cursor
  BY <1>1, <1>2, <1>3 DEF Surface
<1>5. \A x \in Buf : pend = x \/ cur = x => Owner[x] = s
  BY DEF SurfaceInv
<1>6. None \notin Buf /\ Owner \in [Buf -> Surf] /\ None \notin Surf
  BY WaylandAssumption
<1> HIDE DEF r
<1>7. /\ surf' \in [Surf -> Surface] /\ surf'[s] = r /\ \A t \in Surf : t # s => surf'[t] = surf[t]
  BY <1>1, <1>2, <1>4
<1>8. BuffersHeld'
  <2> SUFFICES ASSUME NEW x \in Buf
               PROVE  x \in busy' <=>
                        (surf'[Owner[x]].cur = x /\ x \notin again') \/ x \in stranded'
    BY DEF BuffersHeld
  <2>1. /\ x \in busy <=> (surf[Owner[x]].cur = x /\ x \notin again) \/ x \in stranded
        /\ x \in stranded => surf[Owner[x]].cur # x
    BY DEF SurfaceInv, BuffersHeld
  <2>2. CASE Owner[x] # s
    <3>1. x # pend /\ x # cur /\ surf'[Owner[x]] = surf[Owner[x]]
      BY <1>5, <1>6, <1>7, <2>2
    <3> QED
      BY <1>2, <2>1, <3>1
  <2>3. CASE Owner[x] = s
    <3>1. surf'[Owner[x]].cur = now /\ surf[Owner[x]].cur = cur
      BY <1>4, <1>7, <2>3
    <3>2. CASE pend = None
      BY <1>2, <1>6, <2>1, <3>1, <3>2
    <3>3. CASE pend # None
      BY <1>2, <1>3, <1>6, <2>1, <3>1, <3>3 DEF SameDescriptor
    <3> QED
      BY <3>2, <3>3
  <2> QED
    BY <2>2, <2>3
<1>9. FocusLives'
  <2>1. \A t \in Surf : surf'[t].life = surf[t].life /\ surf'[t].cursor = surf[t].cursor
    BY <1>2, <1>4, <1>7
  <2> QED
    BY <1>2, <2>1 DEF SurfaceInv, FocusLives
<1>10. \A t \in Surf : \A x \in Buf : surf'[t].pend = x \/ surf'[t].cur = x => Owner[x] = t
  BY <1>4, <1>5, <1>6, <1>7 DEF SurfaceInv
<1>s. \A x \in stranded' : surf'[Owner[x]].cur # x
  <2> SUFFICES ASSUME NEW x \in Buf, x \in stranded, x \notin given
               PROVE  surf'[Owner[x]].cur # x
    BY <1>2 DEF SurfaceInv
  <2>1. surf[Owner[x]].cur # x
    BY DEF SurfaceInv
  <2> QED
    BY <1>4, <1>6, <1>7, <2>1
<1>11. \A t \in Surf : surf'[t].life = "live" \/ surf'[t] \in {Gone, Torn}
  BY <1>4, <1>7 DEF SurfaceInv
<1>12. /\ busy' \subseteq Buf /\ again' \subseteq Buf /\ stranded' \subseteq Buf
       /\ active' \in Surf \union {None}
  BY <1>2, <1>3 DEF SurfaceInv
<1>13. SurfaceInv'
  BY <1>2, <1>7, <1>8, <1>9, <1>10, <1>11, <1>12, <1>s DEF SurfaceInv
<1> QED
  BY <1>2, <1>4, <1>7, <1>13 DEF Toplevel

(* A buffer that goes is no longer current. *)
LEMMA DestroyKeepsSurfaces ==
  ASSUME SurfaceInv, NEW b \in Buf, DestroyBuffer(b)
  PROVE  SurfaceInv' /\ \A t \in Surf : Toplevel(t)' => Toplevel(t)
<1> DEFINE s == Owner[b]
           r == [surf[s] EXCEPT !.cur = None, !.mapped = FALSE]
<1>1. s \in Surf /\ surf[s] \in Surface /\ surf \in [Surf -> Surface]
  BY WaylandAssumption DEF SurfaceInv
<1>2. /\ surf[s].life = "live" /\ surf[s].cur = b /\ surf' = [surf EXCEPT ![s] = r]
      /\ busy' = busy \ {b} /\ again' = again \ {b}
      /\ UNCHANGED <<stranded, active, pointer, keyboard, told, skipped>>
  BY DEF DestroyBuffer, seatVars
<1>3. /\ r \in Surface /\ r.life = "live" /\ r.pend = surf[s].pend /\ r.cur = None
      /\ r.xdg = surf[s].xdg /\ r.top = surf[s].top /\ r.cursor = surf[s].cursor
  BY <1>1, <1>2 DEF Surface
<1>4. None \notin Buf /\ Owner \in [Buf -> Surf]
  BY WaylandAssumption
<1> HIDE DEF r, s
<1>5. /\ surf' \in [Surf -> Surface] /\ surf'[s] = r /\ \A t \in Surf : t # s => surf'[t] = surf[t]
  BY <1>1, <1>2, <1>3
<1>6. BuffersHeld'
  <2> SUFFICES ASSUME NEW x \in Buf
               PROVE  x \in busy' <=>
                        (surf'[Owner[x]].cur = x /\ x \notin again') \/ x \in stranded'
    BY DEF BuffersHeld
  <2>1. /\ x \in busy <=> (surf[Owner[x]].cur = x /\ x \notin again) \/ x \in stranded
        /\ x \in stranded => surf[Owner[x]].cur # x
    BY DEF SurfaceInv, BuffersHeld
  <2>2. CASE Owner[x] # s
    <3>1. x # b /\ surf'[Owner[x]] = surf[Owner[x]]
      BY <1>4, <1>5, <2>2 DEF s
    <3> QED
      BY <1>2, <2>1, <3>1
  <2>3. CASE Owner[x] = s
    BY <1>2, <1>3, <1>4, <1>5, <2>1, <2>3
  <2> QED
    BY <2>2, <2>3
<1>7. FocusLives'
  <2>1. \A t \in Surf : surf'[t].life = surf[t].life /\ surf'[t].cursor = surf[t].cursor
    BY <1>2, <1>3, <1>5
  <2> QED
    BY <1>2, <2>1 DEF SurfaceInv, FocusLives
<1>8. \A t \in Surf : \A x \in Buf : surf'[t].pend = x \/ surf'[t].cur = x => Owner[x] = t
  BY <1>1, <1>3, <1>4, <1>5 DEF SurfaceInv
<1>s. \A x \in stranded' : surf'[Owner[x]].cur # x
  BY <1>2, <1>3, <1>4, <1>5 DEF SurfaceInv
<1>9. \A t \in Surf : surf'[t].life = "live" \/ surf'[t] \in {Gone, Torn}
  BY <1>3, <1>5 DEF SurfaceInv
<1>10. SurfaceInv'
  BY <1>2, <1>5, <1>6, <1>7, <1>8, <1>9, <1>s DEF SurfaceInv
<1> QED
  BY <1>2, <1>3, <1>5, <1>10 DEF Toplevel

(* A surface that goes leaves a focus behind only when it is torn, and its  *)
(* current buffer is stranded or goes with its client.                      *)
LEMMA LeaveKeepsSurfaces ==
  ASSUME SurfaceInv, NEW s \in Surf, Leave(s)
  PROVE  /\ SurfaceInv'
         /\ \A t \in Surf \ skipped' :
              Toplevel(t)' => t \notin skipped /\ Toplevel(t) /\ told'[t] = told[t]
<1> DEFINE own == {b \in Buf : Owner[b] = s}
           end == IF surf[s].xdg THEN Torn ELSE Gone
<1>1. surf \in [Surf -> Surface] /\ Gone \in Surface /\ Torn \in Surface
  BY DEF SurfaceInv, Gone, Torn, Surface
<1>2. /\ surf' = [surf EXCEPT ![s] = end] /\ surf[s].life = "live"
      /\ active' = IF active = s THEN None ELSE active
      /\ again' = again \ own
      /\ skipped' = skipped \ {s} /\ told' = [told EXCEPT ![s] = None]
  BY DEF Leave
<1>b. \/ busy' = busy \ own /\ stranded' = stranded \ own
      \/ busy' = busy /\ stranded' = stranded \union {b \in own \ again : b = surf[s].cur}
  BY DEF Leave
<1>f. PICK t \in IF Found(active') = {} THEN {None} ELSE Found(active') :
           /\ pointer' = IF pointer = s THEN t ELSE pointer
           /\ keyboard' = IF keyboard = s THEN t ELSE keyboard
  BY DEF Leave
<1>3. /\ end.cur = None /\ end.pend = None /\ end.xdg = FALSE /\ end.cursor = FALSE
      /\ end \in {Gone, Torn} /\ end \in Surface /\ (surf[s].xdg => end.life = "torn")
  BY <1>1 DEF Gone, Torn
<1>4. None \notin Buf /\ Owner \in [Buf -> Surf] /\ None \notin Surf
  BY WaylandAssumption
<1> HIDE DEF end
<1>5. /\ surf' \in [Surf -> Surface] /\ surf'[s] = end /\ \A u \in Surf : u # s => surf'[u] = surf[u]
  BY <1>1, <1>2, <1>3
<1>6. BuffersHeld' /\ \A x \in stranded' : surf'[Owner[x]].cur # x
  <2> SUFFICES ASSUME NEW x \in Buf
               PROVE  /\ x \in busy' <=>
                           (surf'[Owner[x]].cur = x /\ x \notin again') \/ x \in stranded'
                      /\ x \in stranded' => surf'[Owner[x]].cur # x
    <3>1. stranded' \subseteq Buf
      BY <1>b DEF SurfaceInv
    <3> QED
      BY <3>1 DEF BuffersHeld
  <2>1. /\ x \in busy <=> (surf[Owner[x]].cur = x /\ x \notin again) \/ x \in stranded
        /\ x \in stranded => surf[Owner[x]].cur # x
    BY DEF SurfaceInv, BuffersHeld
  <2>2. CASE Owner[x] # s
    <3>1. x \notin own /\ surf'[Owner[x]] = surf[Owner[x]]
      BY <1>4, <1>5, <2>2
    <3> QED
      BY <1>2, <1>b, <2>1, <3>1
  <2>3. CASE Owner[x] = s
    <3>1. x \in own /\ surf'[Owner[x]].cur # x
      BY <1>3, <1>4, <1>5, <2>3
    <3> QED
      BY <1>2, <1>b, <2>1, <2>3, <3>1
  <2> QED
    BY <2>2, <2>3
<1>7. /\ active' \in Surf \union {None}
      /\ active' # None => surf'[active'].life = "live"
  BY <1>2, <1>4, <1>5 DEF SurfaceInv, FocusLives
<1>8. /\ t \in Surf \union {None}
      /\ t # None => surf'[t].life # "gone" /\ ~surf'[t].cursor
  <2>1. CASE t = None
    BY <2>1
  <2>2. CASE t # None
    <3>1. t \in Surf /\ surf[t].life = "live" /\ surf[t].xdg /\ ~surf[t].cursor
      BY <1>f, <2>2, FoundLives
    <3> QED
      BY <1>3, <1>5, <2>2, <3>1
  <2> QED
    BY <2>1, <2>2
<1>9. FocusLives' /\ pointer' \in Surf \union {None} /\ keyboard' \in Surf \union {None}
  <2>1. /\ pointer' \in Surf \union {None}
        /\ pointer' # None => surf'[pointer'].life # "gone" /\ ~surf'[pointer'].cursor
    BY <1>5, <1>8, <1>f DEF SurfaceInv, FocusLives
  <2>2. /\ keyboard' \in Surf \union {None}
        /\ keyboard' # None => surf'[keyboard'].life # "gone"
    BY <1>5, <1>8, <1>f DEF SurfaceInv, FocusLives
  <2> QED
    BY <1>7, <2>1, <2>2 DEF FocusLives
<1>10. \A u \in Surf : \A x \in Buf : surf'[u].pend = x \/ surf'[u].cur = x => Owner[x] = u
  BY <1>3, <1>4, <1>5 DEF SurfaceInv
<1>11. \A u \in Surf : surf'[u].life = "live" \/ surf'[u] \in {Gone, Torn}
  BY <1>3, <1>5 DEF SurfaceInv
<1>12. /\ told' \in [Surf -> Size \union {None}] /\ skipped' \subseteq Surf
       /\ busy' \subseteq Buf /\ again' \subseteq Buf /\ stranded' \subseteq Buf
       /\ \A u \in Surf : u # s => told'[u] = told[u]
  BY <1>2, <1>b DEF SurfaceInv
<1>13. SurfaceInv'
  BY <1>5, <1>6, <1>7, <1>9, <1>10, <1>11, <1>12 DEF SurfaceInv
<1> QED
  BY <1>2, <1>3, <1>5, <1>12, <1>13 DEF Toplevel

-----------------------------------------------------------------------------
(***************************************************************************)
(* The native window.                                                      *)
(***************************************************************************)

(* Attaching takes a reference for the new window and gives the one of the *)
(* old window back.                                                        *)
LEMMA AttachKeepsWindow ==
  ASSUME WindowInv, NEW w \in Window, NEW s, attach_window(w, s), ui = "idle", dir # None,
         UNCHANGED <<ui, call, dir, sock, running, loop, lost, stored, recorded>>
  PROVE  WindowInv'
<1>1. \A x \in Window : refs[x] = One(window = x) + One(call.win = x) + One(x \in lost)
  BY DEF WindowInv
<1>2. refs \in [Window -> Nat]
  BY DEF WindowInv
<1>3. CASE window = w
  BY <1>3 DEF attach_window, WindowInv
<1>4. CASE window # w
  <2>1. /\ window' = w /\ egl' = None
        /\ refs' = [x \in Window |-> acquire(w)[x] - IF x = window THEN 1 ELSE 0]
    BY <1>4 DEF attach_window
  <2>2. \A x \in Window : acquire(w)[x] = refs[x] + One(x = w)
    BY <1>2 DEF acquire, One
  <2>3. \A x \in Window : refs'[x] = One(window' = x) + One(call'.win = x) + One(x \in lost')
    BY <1>1, <1>2, <1>4, <2>1, <2>2 DEF One
  <2>4. refs' \in [Window -> Nat]
    BY <2>1, <2>3 DEF One
  <2> QED
    BY <2>1, <2>3, <2>4 DEF WindowInv
<1> QED
  BY <1>3, <1>4

(* Detaching gives the reference of the window back. *)
LEMMA ReleaseCounts ==
  ASSUME WindowInv, window' = None, UNCHANGED <<call, lost>>,
         refs' = IF window = None THEN refs ELSE [refs EXCEPT ![window] = @ - 1]
  PROVE  /\ refs' \in [Window -> Nat]
         /\ \A w \in Window : refs'[w] = One(window' = w) + One(call'.win = w) + One(w \in lost')
<1>1. /\ refs \in [Window -> Nat] /\ window \in Window \union {None} /\ None \notin Window
      /\ \A w \in Window : refs[w] = One(window = w) + One(call.win = w) + One(w \in lost)
  BY WaylandAssumption DEF WindowInv
<1>2. \A w \in Window : refs'[w] = refs[w] - One(window = w)
  BY <1>1 DEF One
<1>3. \A w \in Window : refs'[w] = One(window' = w) + One(call'.win = w) + One(w \in lost')
  BY <1>1, <1>2 DEF One
<1>4. \A w \in Window : refs'[w] \in Nat
  BY <1>3 DEF One
<1>5. refs' = [w \in Window |-> refs'[w]]
  BY <1>1
<1> QED
  BY <1>3, <1>4, <1>5

(* A commit presents on the window that is attached. *)
LEMMA RequestKeepsWindow ==
  ASSUME WindowInv, Serving,
         \/ UNCHANGED glVars
         \/ \E s, z : present(s, z)
  PROVE  WindowInv'
<1>1. /\ UNCHANGED <<ui, call, dir, sock, running, loop, window, refs, lost>>
      /\ loop = "wait"
  BY DEF Serving, uiVars, winVars
<1>2. dir # None
  BY <1>1 DEF WindowInv
<1>3. egl' \in {None, window} /\ stored' \in {recorded', None}
  BY DEF WindowInv, present, glVars
<1> QED
  BY <1>1, <1>2, <1>3 DEF WindowInv

-----------------------------------------------------------------------------
(***************************************************************************)
(* The steps.                                                              *)
(***************************************************************************)

(* The UI thread: the server is destroyed and made again. *)
LEMMA UiKeeps ==
  ASSUME WaylandInv, UiSteps
  PROVE  WaylandInv'
<1>1. WindowInv /\ SizeInv
  BY DEF WaylandInv
<1>2. CASE Destroyed
  <2>1. /\ ui = "join" /\ ui' = "create" /\ egl' = None /\ stored' = None /\ window' = None
        /\ refs' = IF window = None THEN refs ELSE [refs EXCEPT ![window] = @ - 1]
        /\ NewServer(None) /\ UNCHANGED <<call, lost, wanted, size>>
    BY <1>2 DEF Destroyed
  <2>2. dir' = None /\ sock' = FALSE /\ running' = FALSE /\ loop' = "off"
    BY <2>1 DEF NewServer
  <2>3. /\ refs' \in [Window -> Nat]
        /\ \A w \in Window : refs'[w] = One(window' = w) + One(call'.win = w) + One(w \in lost')
    BY <1>1, <2>1, ReleaseCounts
  <2>4. call' \in [win : Window, size : Size, dir : Dir]
    BY <1>1, <2>1 DEF WindowInv
  <2>5. WindowInv'
    BY <2>1, <2>2, <2>3, <2>4 DEF WindowInv
  <2>6. SizeInv'
    BY <1>1, <2>1, <2>2 DEF SizeInv
  <2> QED
    BY <2>1, <2>5, <2>6, NewServerStarts DEF WaylandInv
<1>3. CASE Create
  <2>1. /\ ui = "create" /\ ui' = "idle" /\ call' = NoCall
        /\ UNCHANGED <<refs, dropped, raced, egl, stored, recorded>>
    BY <1>3 DEF Create, glVars
  <2>2. /\ call \in [win : Window, size : Size, dir : Dir] /\ window = None /\ egl = None
        /\ None \notin Window \union Dir
    BY <1>1, <2>1, WaylandAssumption DEF WindowInv
  <2>3. call.win \in Window /\ call.size \in Size /\ call.dir \in Dir /\ NoCall.win = None
    BY <2>2 DEF NoCall
  <2>4. /\ refs \in [Window -> Nat]
        /\ \A w \in Window : refs[w] = One(window = w) + One(call.win = w) + One(w \in lost)
    BY <1>1 DEF WindowInv
  <2>5. CASE /\ NewServer(call.dir) /\ window' = call.win /\ size' = call.size
             /\ wanted' = call.size /\ UNCHANGED lost
    <3>1. dir' = call.dir /\ sock' = TRUE /\ running' = TRUE /\ loop' = "wait"
      BY <2>2, <2>3, <2>5 DEF NewServer
    <3>2. \A w \in Window : refs'[w] = One(window' = w) + One(call'.win = w) + One(w \in lost')
      BY <2>1, <2>2, <2>3, <2>4, <2>5 DEF One
    <3>3. WindowInv'
      BY <1>1, <2>1, <2>2, <2>3, <2>4, <2>5, <3>1, <3>2 DEF WindowInv
    <3>4. RingInv' /\ SurfaceInv' /\ Coming' = <<>> /\ \A s \in Surf : ~Toplevel(s)'
      BY <2>5, NewServerStarts
    <3>5. Len(Coming') = 0
      BY <3>4
    <3>6. LastResize' /\ Settled'
      BY <2>5, <3>4, <3>5 DEF LastResize, Settled
    <3>7. SizeInv'
      BY <2>3, <2>5, <3>6 DEF SizeInv
    <3> QED
      BY <3>3, <3>4, <3>7 DEF WaylandInv
  <2>6. CASE /\ lost = {} /\ NewServer(None) /\ lost' = lost \union {call.win}
             /\ UNCHANGED <<window, size, wanted>>
    <3>1. dir' = None /\ sock' = FALSE /\ running' = FALSE /\ loop' = "off"
      BY <2>6 DEF NewServer
    <3>2. \A w \in Window : refs'[w] = One(window' = w) + One(call'.win = w) + One(w \in lost')
      BY <2>1, <2>2, <2>3, <2>4, <2>6 DEF One
    <3>3. WindowInv'
      BY <1>1, <2>1, <2>2, <2>4, <2>6, <3>1, <3>2 DEF WindowInv
    <3>4. SizeInv'
      BY <1>1, <2>6, <3>1 DEF SizeInv
    <3> QED
      BY <2>6, <3>3, <3>4, NewServerStarts DEF WaylandInv
  <2> QED
    BY <1>3, <2>5, <2>6 DEF Create
<1> QED
  BY <1>2, <1>3 DEF UiSteps

(* The loop thread, apart from requests. *)
LEMMA LoopKeeps ==
  ASSUME WaylandInv, LoopSteps
  PROVE  WaylandInv'
<1>1. WindowInv /\ RingInv /\ SurfaceInv /\ SizeInv
  BY DEF WaylandInv
<1>2. CASE TakeBatch
  <2>1. /\ UNCHANGED <<ui, call, dir, sock, running, window, refs, lost, wanted, size, dropped, raced,
                       egl, stored, recorded, surf, busy, again, stranded, active,
                       pointer, keyboard, told, skipped>>
        /\ loop \in {"wait", "drain"} /\ loop' \in {"wait", "drain"}
    BY <1>2 DEF TakeBatch, uiVars, winVars, glVars, surfVars, bufVars, seatVars
  <2>2. RingInv' /\ Coming' = Coming
    BY <1>1, <1>2, TakeKeepsRing
  <2>3. WindowInv'
    BY <1>1, <2>1 DEF WindowInv
  <2>4. SurfaceInv'
    BY <1>1, <2>1 DEF SurfaceInv, BuffersHeld, FocusLives
  <2>5. LastResize /\ Settled => LastResize' /\ Settled'
    BY <2>1, <2>2 DEF LastResize, Settled, Toplevel
  <2>6. SizeInv'
    BY <1>1, <2>1, <2>5 DEF SizeInv
  <2> QED
    BY <2>2, <2>3, <2>4, <2>6 DEF WaylandInv
<1>3. CASE DispatchInput \/ DispatchResize
  <2>1. /\ UNCHANGED <<ui, call, dir, sock, running, window, refs, lost,
                       egl, stored, recorded, surf, bufVars, active, told, skipped>>
        /\ loop = "drain" /\ loop' \in {"drain", "tell"}
        /\ pointer' = pointer \/ pointer' \in get_target_surface
        /\ keyboard' = keyboard \/ keyboard' \in get_target_surface
    BY <1>3 DEF DispatchInput, DispatchResize, uiVars, winVars, glVars, surfVars, seatVars, Ensured
  <2>2. WindowInv'
    BY <1>1, <2>1 DEF WindowInv
  <2>3. SurfaceInv'
    BY <1>1, <2>1, FocusKept
  <2>4. RingInv' /\ SizeInv'
    BY <1>1, <1>3, DispatchKeepsSize
  <2> QED
    BY <2>2, <2>3, <2>4 DEF WaylandInv
<1>4. CASE resize_all
  <2>1. /\ UNCHANGED <<ui, call, dir, sock, running, window, refs, lost, wanted, size, slots, head, tail,
                       sent, batch, dropped, raced, egl, stored, recorded, surf, busy, again, stranded,
                       active, pointer, keyboard>>
        /\ loop = "tell" /\ loop' = "drain"
        /\ told' = [s \in Surf |-> IF Toplevel(s) /\ surf[s].acked THEN size ELSE told[s]]
        /\ skipped' = (skipped \union {s \in Surf : Toplevel(s)}) \ {s \in Surf : surf[s].acked}
    BY <1>4 DEF resize_all, uiVars, winVars, ringVars, glVars, bufVars, seatVars
  <2>2. WindowInv'
    BY <1>1, <2>1 DEF WindowInv
  <2>3. RingInv' /\ Coming' = Coming
    BY <1>1, <2>1 DEF RingInv, Coming, Filled, Slot
  <2>4. told' \in [Surf -> Size \union {None}] /\ skipped' \subseteq Surf
    BY <1>1, <2>1 DEF SurfaceInv, SizeInv
  <2>5. BuffersHeld' /\ FocusLives'
    BY <1>1, <2>1 DEF SurfaceInv, BuffersHeld, FocusLives
  <2>6. SurfaceInv'
    BY <1>1, <2>1, <2>4, <2>5 DEF SurfaceInv
  <2>7. \A s \in Surf \ skipped' : Toplevel(s)' => told'[s] = size
    BY <2>1 DEF Toplevel
  <2>8. LastResize /\ Settled => LastResize' /\ Settled'
    BY <2>1, <2>3, <2>7 DEF LastResize, Settled
  <2>9. SizeInv'
    BY <1>1, <2>1, <2>8 DEF SizeInv
  <2> QED
    BY <2>2, <2>3, <2>6, <2>9 DEF WaylandInv
<1>5. CASE LoopEnds
  <2>1. /\ UNCHANGED <<ui, call, dir, sock, running, window, refs, lost, wanted, size, slots, head, tail,
                       sent, batch, dropped, raced, egl, stored, recorded, surf, busy, again, stranded,
                       active, pointer, keyboard, told, skipped>>
        /\ loop = "wait" /\ loop' = "off" /\ ~running
    BY <1>5 DEF LoopEnds, uiVars, winVars, ringVars, glVars, surfVars, bufVars, seatVars
  <2>2. WindowInv'
    BY <1>1, <2>1 DEF WindowInv
  <2>3. RingInv'
    BY <1>1, <2>1 DEF RingInv, Filled, Slot
  <2>4. SurfaceInv'
    BY <1>1, <2>1 DEF SurfaceInv, BuffersHeld, FocusLives
  <2>5. SizeInv'
    BY <1>1, <2>1 DEF SizeInv
  <2> QED
    BY <2>2, <2>3, <2>4, <2>5 DEF WaylandInv
<1> QED
  BY <1>2, <1>3, <1>4, <1>5 DEF LoopSteps

(* The loop thread: requests of clients. *)
LEMMA RequestsKeep ==
  ASSUME WaylandInv, Requests
  PROVE  WaylandInv'
<1>1. WindowInv /\ RingInv /\ SurfaceInv /\ SizeInv /\ size \in Size \union {None}
  BY DEF WaylandInv, SizeInv
<1>2. ASSUME NEW s \in Surf,
             \/ Connect(s) \/ GetXdgSurface(s) \/ GetToplevel(s) \/ AckConfigure(s)
             \/ DestroyXdg(s) \/ SetCursor(s)
      PROVE  WaylandInv'
  <2>1. Serving /\ UNCHANGED glVars
    BY <1>2 DEF Connect, GetXdgSurface, GetToplevel, AckConfigure, DestroyXdg, SetCursor
  <2>2. /\ SurfaceInv'
        /\ \A t \in Surf \ skipped' :
              Toplevel(t)' => \/ told'[t] = size
                              \/ t \notin skipped /\ Toplevel(t) /\ told'[t] = told[t]
    BY <1>1, <1>2, RolesKept
  <2>3. RingInv' /\ SizeInv'
    BY <1>1, <2>1, <2>2, RequestKeepsSize
  <2> QED
    BY <1>1, <2>1, <2>2, <2>3, RequestKeepsWindow DEF WaylandInv
<1>3. ASSUME NEW s \in Surf, GetInput(s)
      PROVE  WaylandInv'
  <2>1. /\ Serving /\ UNCHANGED <<glVars, surf, bufVars, active, told, skipped>>
        /\ pointer' = pointer \/ pointer' \in get_target_surface
        /\ keyboard' = keyboard \/ keyboard' \in get_target_surface
    BY <1>3 DEF GetInput
  <2>2. SurfaceInv'
    BY <1>1, <2>1, FocusKept
  <2>3. RingInv' /\ SizeInv'
    BY <1>1, <2>1, RequestKeepsSize DEF Toplevel
  <2> QED
    BY <1>1, <2>1, <2>2, <2>3, RequestKeepsWindow DEF WaylandInv
<1>4. ASSUME NEW s \in Surf, Commit(s)
      PROVE  WaylandInv'
  <2>1. Serving /\ UNCHANGED <<told, skipped>>
    BY <1>4 DEF Commit
  <2>2. UNCHANGED glVars \/ \E x, z : present(x, z)
    BY <1>4 DEF Commit
  <2>3. SurfaceInv' /\ \A t \in Surf : Toplevel(t)' => Toplevel(t)
    BY <1>1, <1>4, CommitKeepsSurfaces
  <2>4. RingInv' /\ SizeInv'
    BY <1>1, <2>1, <2>3, RequestKeepsSize
  <2> QED
    BY <1>1, <2>1, <2>2, <2>3, <2>4, RequestKeepsWindow DEF WaylandInv
<1>5. ASSUME NEW s \in Surf, Leave(s)
      PROVE  WaylandInv'
  <2>1. Serving /\ UNCHANGED glVars
    BY <1>5 DEF Leave
  <2>2. /\ SurfaceInv'
        /\ \A t \in Surf \ skipped' :
              Toplevel(t)' => t \notin skipped /\ Toplevel(t) /\ told'[t] = told[t]
    BY <1>1, <1>5, LeaveKeepsSurfaces
  <2>3. RingInv' /\ SizeInv'
    BY <1>1, <2>1, <2>2, RequestKeepsSize
  <2> QED
    BY <1>1, <2>1, <2>2, <2>3, RequestKeepsWindow DEF WaylandInv
<1>6. ASSUME NEW s \in Surf, NEW b \in Buf \union {None}, Attach(s, b)
      PROVE  WaylandInv'
  <2>1. Serving /\ UNCHANGED <<glVars, told, skipped>>
    BY <1>6 DEF Attach
  <2>2. SurfaceInv' /\ \A t \in Surf : Toplevel(t)' => Toplevel(t)
    BY <1>1, <1>6, AttachKeepsSurfaces
  <2>3. RingInv' /\ SizeInv'
    BY <1>1, <2>1, <2>2, RequestKeepsSize
  <2> QED
    BY <1>1, <2>1, <2>2, <2>3, RequestKeepsWindow DEF WaylandInv
<1>7. ASSUME NEW b \in Buf, DestroyBuffer(b)
      PROVE  WaylandInv'
  <2>1. Serving /\ UNCHANGED <<glVars, told, skipped>>
    BY <1>7 DEF DestroyBuffer
  <2>2. SurfaceInv' /\ \A t \in Surf : Toplevel(t)' => Toplevel(t)
    BY <1>1, <1>7, DestroyKeepsSurfaces
  <2>3. RingInv' /\ SizeInv'
    BY <1>1, <2>1, <2>2, RequestKeepsSize
  <2> QED
    BY <1>1, <2>1, <2>2, <2>3, RequestKeepsWindow DEF WaylandInv
<1> QED
  BY <1>2, <1>3, <1>4, <1>5, <1>6, <1>7 DEF Requests

(* The UI thread's calls, and the socket file that somebody deletes. *)
LEMMA CallsKeep ==
  ASSUME WaylandInv, Calls
  PROVE  WaylandInv'
<1>1. WindowInv /\ RingInv /\ SurfaceInv /\ SizeInv
  BY DEF WaylandInv
<1>2. ASSUME NEW w \in Window, NEW s \in Size, NEW d \in Dir, SetSurface(w, s, d)
      PROVE  WaylandInv'
  <2>1. ui = "idle" /\ None \notin Dir \union Window
    BY <1>2, WaylandAssumption DEF SetSurface
  <2>2. CASE /\ dir = d /\ attach_window(w, s)
             /\ UNCHANGED <<uiVars, loop, lost, batch, stored, recorded, surfVars>>
    <3>1. UNCHANGED <<ui, call, dir, sock, running, loop, lost, batch, stored, recorded,
                      surf, busy, again, stranded, active,
                       pointer, keyboard, told, skipped>>
      BY <2>2 DEF uiVars, surfVars, bufVars, seatVars
    <3>2. WindowInv'
      BY <1>1, <2>1, <2>2, <3>1, AttachKeepsWindow
    <3>3. RingInv' /\ SizeInv'
      BY <1>1, <2>2, <3>1, AttachKeepsSize
    <3>4. SurfaceInv'
      BY <1>1, <3>1 DEF SurfaceInv, BuffersHeld, FocusLives
    <3> QED
      BY <3>2, <3>3, <3>4 DEF WaylandInv
  <2>3. CASE /\ refs' = acquire(w) /\ call' = [win |-> w, size |-> s, dir |-> d]
             /\ ui' = (IF dir = None THEN "create" ELSE "join") /\ running' = FALSE
             /\ UNCHANGED <<topic, dir, sock, loop, window, lost, wanted, size, ringVars, batch,
                            dropped, raced, glVars, surfVars>>
    <3>1. UNCHANGED <<dir, sock, loop, window, lost, wanted, size, slots, head, tail, sent, batch, dropped, raced,
                      egl, stored, recorded, surf, busy, again, stranded, active,
                       pointer, keyboard, told, skipped>>
      BY <2>3 DEF ringVars, glVars, surfVars, bufVars, seatVars
    <3>2. /\ refs \in [Window -> Nat] /\ call.win = None
          /\ \A x \in Window : refs[x] = One(window = x) + One(call.win = x) + One(x \in lost)
      BY <1>1, <2>1 DEF WindowInv, NoCall
    <3>3. refs' \in [Window -> Nat] /\ \A x \in Window : refs'[x] = refs[x] + One(x = w)
      BY <2>3, <3>2 DEF acquire, One
    <3>4. \A x \in Window : refs'[x] = One(window' = x) + One(call'.win = x) + One(x \in lost')
      BY <2>1, <2>3, <3>1, <3>2, <3>3 DEF One
    <3>5. WindowInv'
      <4>1. /\ dir \in Dir \union {None} /\ (dir = None => window = None /\ egl = None /\ loop = "off")
            /\ sock \in BOOLEAN /\ loop \in {"off", "wait", "drain", "tell"}
            /\ window \in Window \union {None} /\ egl \in {None, window} /\ stored \in {recorded, None}
        BY <1>1 DEF WindowInv
      <4>2. call' \in [win : Window, size : Size, dir : Dir]
        BY <2>3
      <4>3. ui' \in {"join", "create"} /\ (ui' = "create" => dir = None) /\ running' = FALSE
        BY <2>3
      <4> QED
        BY <3>1, <3>3, <3>4, <4>1, <4>2, <4>3 DEF WindowInv
    <3>6. RingInv'
      BY <1>1, <3>1 DEF RingInv, Filled, Slot
    <3>7. SurfaceInv'
      BY <1>1, <3>1 DEF SurfaceInv, BuffersHeld, FocusLives
    <3>8. SizeInv'
      BY <1>1, <2>3, <3>1 DEF SizeInv
    <3> QED
      BY <3>5, <3>6, <3>7, <3>8 DEF WaylandInv
  <2> QED
    BY <1>2, <2>2, <2>3 DEF SetSurface
<1>3. CASE DestroySurface
  <2>1. /\ UNCHANGED <<ui, call, dir, sock, running, loop, lost, wanted, size, slots, head, tail, sent, batch,
                       dropped, raced, stored, recorded, surf, busy, again, stranded, active,
                       pointer, keyboard, told, skipped>>
        /\ egl' = None /\ window' = None
        /\ refs' = IF window = None THEN refs ELSE [refs EXCEPT ![window] = @ - 1]
    BY <1>3 DEF DestroySurface, uiVars, ringVars, surfVars, bufVars, seatVars
  <2>2. /\ refs' \in [Window -> Nat]
        /\ \A w \in Window : refs'[w] = One(window' = w) + One(call'.win = w) + One(w \in lost')
    BY <1>1, <2>1, ReleaseCounts
  <2>3. WindowInv'
    BY <1>1, <2>1, <2>2 DEF WindowInv
  <2>4. RingInv' /\ Coming' = Coming
    BY <1>1, <2>1 DEF RingInv, Filled, Slot, Coming
  <2>5. SurfaceInv'
    BY <1>1, <2>1 DEF SurfaceInv, BuffersHeld, FocusLives
  <2>6. SizeInv'
    BY <1>1, <2>1, <2>4 DEF SizeInv, LastResize, Settled, Toplevel
  <2> QED
    BY <2>3, <2>4, <2>5, <2>6 DEF WaylandInv
<1>4. CASE SendInput
  <2>1. /\ UNCHANGED <<ui, call, dir, sock, running, loop, window, refs, lost, wanted, size, batch, raced,
                       egl, stored, recorded, surf, busy, again, stranded, active,
                       pointer, keyboard, told, skipped>>
        /\ enqueue_input_event(Blank) /\ Blank \in Events /\ ~Resize(Blank)
    BY <1>4 DEF SendInput, uiVars, winVars, glVars, surfVars, bufVars, seatVars, Blank, Events, Resize
  <2>2. /\ RingInv'
        /\ \/ sent' = Append(sent, Blank) /\ dropped' = dropped
           \/ sent' = sent /\ dropped' = (dropped \/ Resize(Blank))
    BY <1>1, <2>1, EnqueueKeepsRing
  <2>3. WindowInv'
    BY <1>1, <2>1 DEF WindowInv
  <2>4. SurfaceInv'
    BY <1>1, <2>1 DEF SurfaceInv, BuffersHeld, FocusLives
  <2>5. LastResize /\ Settled => LastResize' /\ Settled'
    <3>1. CASE sent' = Append(sent, Blank)
      BY <1>1, <2>1, <3>1, GrowKeepsSize
    <3>2. CASE sent' = sent
      <4>1. Coming' = Coming
        BY <2>1, <3>2 DEF Coming
      <4> QED
        BY <2>1, <4>1 DEF LastResize, Settled, Toplevel
    <3> QED
      BY <2>2, <3>1, <3>2
  <2>6. ~dropped' => ~dropped
    BY <2>2
  <2>7. SizeInv'
    BY <1>1, <2>1, <2>5, <2>6 DEF SizeInv
  <2> QED
    BY <2>2, <2>3, <2>4, <2>7 DEF WaylandInv
<1>5. CASE SocketDeleted
  <2>1. /\ UNCHANGED <<ui, call, dir, running, loop, window, refs, lost, wanted, size, slots, head, tail, sent, batch,
                       dropped, raced, egl, stored, recorded, surf, busy, again, stranded, active,
                       pointer, keyboard, told, skipped>>
        /\ sock' = FALSE
    BY <1>5 DEF SocketDeleted, winVars, ringVars, glVars, surfVars, bufVars, seatVars
  <2>2. WindowInv'
    BY <1>1, <2>1 DEF WindowInv
  <2>3. RingInv' /\ Coming' = Coming
    BY <1>1, <2>1 DEF RingInv, Filled, Slot, Coming
  <2>4. SurfaceInv'
    BY <1>1, <2>1 DEF SurfaceInv, BuffersHeld, FocusLives
  <2>5. SizeInv'
    BY <1>1, <2>1, <2>3 DEF SizeInv, LastResize, Settled, Toplevel
  <2> QED
    BY <2>2, <2>3, <2>4, <2>5 DEF WaylandInv
<1> QED
  BY <1>2, <1>3, <1>4, <1>5 DEF Calls

LEMMA StartsRight ==
  ASSUME Init
  PROVE  WaylandInv
<1>1. WindowInv
  <2>1. /\ ui = "idle" /\ call = NoCall /\ dir = None /\ sock = FALSE /\ running = FALSE /\ loop = "off"
        /\ window = None /\ refs = [w \in Window |-> 0] /\ lost = {}
        /\ egl = None /\ stored = None
    BY DEF Init
  <2>2. call.win = None /\ None \notin Window
    BY <2>1, WaylandAssumption DEF NoCall
  <2>3. \A w \in Window : refs[w] = One(window = w) + One(call.win = w) + One(w \in lost)
    BY <2>1, <2>2 DEF One
  <2> QED
    BY <2>1, <2>3 DEF WindowInv
<1>2. RingInv
  BY WaylandAssumption DEF Init, RingInv, Filled, Blank, Events
<1>3. SurfaceInv
  <2>1. surf \in [Surf -> Surface] /\ \A s \in Surf : surf[s] = Gone /\ surf[s].cur = None /\ surf[s].pend = None
    BY DEF Init, Gone, Surface
  <2>2. BuffersHeld /\ FocusLives
    BY <2>1, WaylandAssumption DEF Init, BuffersHeld, FocusLives
  <2> QED
    BY <2>1, <2>2, WaylandAssumption DEF Init, SurfaceInv
<1>4. SizeInv
  BY DEF Init, SizeInv
<1> QED
  BY <1>1, <1>2, <1>3, <1>4 DEF WaylandInv

LEMMA StutterKeeps ==
  ASSUME WaylandInv, UNCHANGED vars
  PROVE  WaylandInv'
<1>1. UNCHANGED <<ui, call, dir, sock, running, loop, window, refs, lost, wanted, size, slots, head, tail, sent,
                  batch, dropped, raced, egl, stored, recorded, surf, busy, again, stranded, active,
                       pointer, keyboard, told, skipped>>
  BY DEF vars, uiVars, winVars, ringVars, glVars, surfVars, bufVars, seatVars
<1>2. WindowInv'
  BY <1>1 DEF WaylandInv, WindowInv
<1>3. RingInv' /\ Coming' = Coming
  BY <1>1 DEF WaylandInv, RingInv, Filled, Slot, Coming
<1>4. SurfaceInv'
  BY <1>1 DEF WaylandInv, SurfaceInv, BuffersHeld, FocusLives
<1>5. SizeInv'
  BY <1>1, <1>3 DEF WaylandInv, SizeInv, LastResize, Settled, Toplevel
<1> QED
  BY <1>2, <1>3, <1>4, <1>5 DEF WaylandInv

-----------------------------------------------------------------------------
(***************************************************************************)
(* The theorems.                                                           *)
(***************************************************************************)

(* The inductive invariant of the two threads of the Wayland server, over  *)
(* attaching, detaching, rebinding, input, resizes and the requests of     *)
(* clients (ds_server.c, ds_seat.c, ds_compositor.c, ds_presenter.c).      *)
THEOREM WaylandInvariant == Spec => []WaylandInv
<1>1. Init => WaylandInv
  BY StartsRight
<1>2. WaylandInv /\ [Next]_vars => WaylandInv'
  BY UiKeeps, LoopKeeps, RequestsKeep, CallsKeep, StutterKeeps DEF Next
<1> QED
  BY <1>1, <1>2, PTL DEF Spec

(* No reference to a native window is leaked or released twice, frames are *)
(* drawn on the attached window only, and from a texture of the recorded   *)
(* size, for any number of windows, surfaces and rebinds                   *)
(* (ds_server.c:196-262, ds_presenter.c:294-391).                          *)
THEOREM WindowShared == Spec => []WindowSafe
<1>1. WaylandInv => WindowSafe
  <2> SUFFICES ASSUME WaylandInv PROVE WindowSafe
    OBVIOUS
  <2>1. WindowInv /\ RingInv /\ SurfaceInv /\ SizeInv
    BY DEF WaylandInv
  <2>2. WindowsHeld
    <3> SUFFICES ASSUME NEW w \in Window
                 PROVE  refs[w] = Cardinality({x \in {1} : window = w} \union {x \in {2} : call.win = w}
                                              \union {x \in {3} : w \in lost})
      BY DEF WindowsHeld
    <3>1. refs[w] = One(window = w) + One(call.win = w) + One(w \in lost)
      BY <2>1 DEF WindowInv
    <3> QED
      BY <3>1, HeldCounts, Zenon
  <2>3. refs \in [Window -> 0..3]
    BY <2>1 DEF WindowInv, One
  <2>4. TypeOK
    BY <2>1, <2>3 DEF TypeOK, WindowInv, RingInv, SurfaceInv, SizeInv
  <2>5. DrawsOnWindow /\ TextureFits
    BY <2>1 DEF DrawsOnWindow, TextureFits, WindowInv
  <2> QED
    BY <2>2, <2>4, <2>5 DEF WindowSafe
<1> QED
  BY <1>1, WaylandInvariant, PTL

(* The input ring loses and reorders nothing it accepted, for any size of  *)
(* the ring and of a batch; the active surface lives, no focus is left on  *)
(* a surface that was destroyed after its xdg_surface, and the pointer is  *)
(* never on a cursor; and the size last asked for wins, unless its event   *)
(* was dropped or passed over (ds_seat.c:112-125, 314-471, 669-719,        *)
(* ds_xdg_shell.c:266-292).                                                *)
THEOREM InputInOrder == Spec => []InputSafe
<1>1. WaylandInv => InputSafe
  <2> SUFFICES ASSUME WaylandInv PROVE InputSafe
    OBVIOUS
  <2>1. WindowInv /\ RingInv /\ SurfaceInv /\ SizeInv
    BY DEF WaylandInv
  <2>2. RingInOrder
    BY <2>1, RingFlat DEF RingInOrder
  <2>3. FocusLives
    BY <2>1 DEF SurfaceInv
  <2>4. SizeSettles
    <3> SUFFICES ASSUME loop = "wait", sent = <<>>, running, ~dropped, ~raced
                 PROVE  /\ size = wanted
                        /\ \A s \in Surf \ skipped : Toplevel(s) => told[s] = wanted
      BY DEF SizeSettles
    <3>1. Len(Coming) = 0
      BY <2>1 DEF RingInv, Coming
    <3>2. Settled
      BY <2>1 DEF SizeInv
    <3> QED
      BY <3>1, <3>2 DEF Settled
  <2> QED
    BY <2>2, <2>3, <2>4 DEF InputSafe
<1> QED
  BY <1>1, WaylandInvariant, PTL

(* A buffer is withheld from its client exactly while it is current, or    *)
(* was current when its surface was destroyed by a client that stayed, for *)
(* any buffers of both kinds (ds_compositor.c:168-231, 321-362).           *)
THEOREM BuffersReleased == Spec => []BuffersHeld
<1>1. WaylandInv => BuffersHeld
  BY DEF WaylandInv, SurfaceInv
<1> QED
  BY <1>1, WaylandInvariant, PTL
=============================================================================
