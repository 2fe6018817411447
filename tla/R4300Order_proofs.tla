--------------------------- MODULE R4300Order_proofs ---------------------------
(***************************************************************************)
(* That the event queue stays in the order in which COUNT meets its events,  *)
(* for every range of COUNT, set of devices and program.                     *)
(*                                                                         *)
(* Counts wrap, so the proof gives each queued event a time t: an integer,   *)
(* counted from COUNT, negative once the event is overdue, of which the      *)
(* event's count is the remainder.  The invariant says that the times are in *)
(* order along the queue and close enough together for the code's wrapped    *)
(* comparisons to tell them apart.  COMPARE may stand a full range of COUNT  *)
(* and count_per_op away, where AddCompare leaves it; the next instruction   *)
(* brings it back within the range.                                         *)
(***************************************************************************)
EXTENDS R4300Interrupts_proofs

Times == [EventTypes -> Int]

\* The time of the i-th event.
When(q, t, i) == t[q[i].type]

\* t are times of the events of q, counted from b, and the queue follows them.
Timed(q, b, t) ==
    /\ t \in Times
    /\ \A i \in 1 .. Len(q) : q[i].count = U(b + When(q, t, i))
    /\ \A i, j \in 1 .. Len(q) : i < j => When(q, t, i) <= When(q, t, j)

\* Measured from the time -l, every event is less than a range of COUNT away.
Within(q, t, l) == \A i \in 1 .. Len(q) : -l <= When(q, t, i) /\ When(q, t, i) < Modulus - l

-----------------------------------------------------------------------------
(* Insertion and removal.                                                   *)

LEMMA WhenType ==
    ASSUME NEW q, Filed(q), NEW t \in Times, NEW i \in 1 .. Len(q)
    PROVE  /\ When(q, t, i) \in Int /\ q[i].type \in EventTypes /\ q[i].type \in Types(q)
           /\ q[i].count \in Counts /\ q[i].count \in Int /\ q[i] \in Events
  <1>1. q[i] \in Events
    BY DEF Filed
  <1>2. q[i].type \in EventTypes /\ q[i].count \in Counts
    BY <1>1 DEF Events
  <1>3. q[i].type \in Types(q)
    BY DEF Types
  <1> QED  BY <1>1, <1>2, <1>3, RangeLarge DEF When, Times, Counts

\* A wrapped difference from the origin is the difference of the times.
LEMMA Measured ==
    ASSUME NEW b \in Int, NEW l \in Int, NEW v \in Int, -l <= v, v < Modulus - l
    PROVE  U(U(b + v) - U(b - l)) = v + l
  <1> DEFINE x == b + v
             y == b - l
             z == U(x)
  <1>1. x \in Int /\ y \in Int /\ -y \in Int
    OBVIOUS
  <1>2. z \in Int
    BY <1>1, CountType, RangeLarge DEF Counts
  <1> HIDE DEF z
  <1>3. U(z - U(y)) = U(z - y)
    <2> HIDE DEF x, y
    <2> QED  BY <1>1, <1>2, WrapSum
  <1>4. z - y = z + (-y)
    BY <1>1, <1>2
  <1>5. U(z + (-y)) = U(x + (-y))
    <2> HIDE DEF x, y
    <2> QED  BY <1>1, WrapSum DEF z
  <1>6. x + (-y) = v + l /\ v + l \in Counts
    BY RangeLarge DEF Counts
  <1>7. U(v + l) = v + l
    BY <1>6, WrapSmall
  <1>8. U(z - U(y)) = v + l
    BY <1>3, <1>4, <1>5, <1>6, <1>7
  <1> QED  BY <1>8 DEF z

\* The position of a new event is where its time belongs, behind those of the same time.
LEMMA Placed ==
    ASSUME NEW c, Filed(c.q), NEW t, NEW b \in Int, NEW l \in Int, Timed(c.q, b, t),
           Within(c.q, t, l), Origin(c) = U(b - l),
           NEW w \in Int, -l <= w, w < Modulus - l
    PROVE  LET p == InsertPosition(c, U(b + w))
           IN  /\ p \in 1 .. Len(c.q) + 1
               /\ \A i \in 1 .. Len(c.q) : i < p => When(c.q, t, i) <= w
               /\ \A i \in 1 .. Len(c.q) : i >= p => w < When(c.q, t, i)
  <1> DEFINE n     == Len(c.q)
             count == U(b + w)
             later == {i \in DOMAIN c.q : BeforeEvent(c, count, c.q[i].count)}
             N     == later \cup {n + 1}
             p     == InsertPosition(c, count)
  <1>1. n \in Nat /\ DOMAIN c.q = 1 .. n
    BY DEF Filed
  <1>2. \A i \in 1 .. n : When(c.q, t, i) \in Int
    BY WhenType DEF Timed
  <1>3. count \in Int
    BY CountType, RangeLarge DEF Counts
  <1>4. U(count - Origin(c)) = w + l
    BY SMTT(40), Measured
  <1>5. ASSUME NEW i \in 1 .. n
        PROVE  BeforeEvent(c, count, c.q[i].count) <=> w < When(c.q, t, i)
    <2> DEFINE v == When(c.q, t, i)
    <2>1. v \in Int /\ -l <= v /\ v < Modulus - l /\ c.q[i].count = U(b + v)
      BY <1>2 DEF Timed, Within
    <2> HIDE DEF v
    <2>2. U(c.q[i].count - Origin(c)) = v + l
      <3>1. U(U(b + v) - U(b - l)) = v + l
        BY <2>1, Measured
      <3> QED  BY <2>1, <3>1
    <2>3. w + l < v + l <=> w < v
      BY <2>1
    <2> QED  BY <1>4, <2>2, <2>3 DEF BeforeEvent, v
  <1>6. p = Min(N)
    BY DEF InsertPosition
  <1>7. N \in SUBSET Nat /\ N # {}
    BY <1>1
  <1>8. p \in N /\ \A x \in N : p <= x
    BY <1>6, <1>7, LeastOf
  <1>9. p \in 1 .. n + 1
    BY <1>1, <1>8
  <1>10. \A i \in 1 .. n : i \in N <=> w < When(c.q, t, i)
    <2>1. \A i \in 1 .. n : i # n + 1
      BY <1>1
    <2> QED  BY <1>1, <1>5, <2>1
  <1> HIDE DEF N, p, later, count
  <1>11. ASSUME NEW i \in 1 .. n, i < p PROVE When(c.q, t, i) <= w
    <2>1. i \notin N
      BY <1>1, <1>8, <1>9, <1>11
    <2> QED  BY <1>2, <1>10, <2>1
  <1>12. ASSUME NEW i \in 1 .. n, i >= p PROVE w < When(c.q, t, i)
    <2>1. p \in 1 .. n
      BY <1>1, <1>9, <1>12
    <2>2. w < When(c.q, t, p)
      BY <1>8, <1>10, <2>1
    <2>3. When(c.q, t, p) <= When(c.q, t, i)
      <3>1. CASE i = p
        BY <1>2, <3>1
      <3>2. CASE i # p
        <4>1. p < i
          BY <1>12, <2>1, <3>2
        <4> QED  BY <2>1, <4>1 DEF Timed
      <3> QED  BY <3>1, <3>2
    <2> QED  BY <1>2, <2>1, <2>2, <2>3
  <1> QED  BY <1>9, <1>11, <1>12 DEF p, n, count

\* r and its times u are q and its times t with the event e of time w put in at p.
Joined(r, u, q, t, p, e, w) ==
    /\ Len(r) = Len(q) + 1 /\ Len(q) \in Nat /\ p \in 1 .. Len(q) + 1
    /\ \A i \in 1 .. Len(q) + 1 :
          /\ i < p => i \in 1 .. Len(q) /\ r[i] = q[i] /\ When(r, u, i) = When(q, t, i)
          /\ i = p => r[i] = e /\ When(r, u, i) = w
          /\ i > p => /\ i - 1 \in 1 .. Len(q) /\ r[i] = q[i - 1]
                      /\ When(r, u, i) = When(q, t, i - 1)

\* The new event takes its time, and the others keep theirs.
LEMMA InsertTimed ==
    ASSUME NEW q, Filed(q), NEW t, NEW b \in Int, Timed(q, b, t),
           NEW w \in Int, NEW type \in EventTypes \ Types(q), NEW p \in 1 .. Len(q) + 1,
           \A i \in 1 .. Len(q) : i < p => When(q, t, i) <= w,
           \A i \in 1 .. Len(q) : i >= p => w < When(q, t, i)
    PROVE  LET r == InsertAt(q, p, Event(type, U(b + w)))
               u == [t EXCEPT ![type] = w]
           IN  Timed(r, b, u) /\ Joined(r, u, q, t, p, Event(type, U(b + w)), w)
  <1> DEFINE e == Event(type, U(b + w))
             r == InsertAt(q, p, e)
             u == [t EXCEPT ![type] = w]
             n == Len(q)
  <1>1. q \in Seq(Events) /\ n \in Nat /\ t \in Times /\ u \in Times
    BY DEF Filed, Timed, Times
  <1>2. e \in Events /\ e.type = type /\ e.count = U(b + w)
    BY CountType DEF Event, Events
  <1>3. /\ Len(r) = n + 1
        /\ \A i \in 1 .. n + 1 : r[i] = IF i < p THEN q[i] ELSE IF i = p THEN e ELSE q[i - 1]
    BY <1>1, <1>2, Inserted
  <1>4. \A i \in 1 .. n : When(q, u, i) = When(q, t, i)
    BY WhenType DEF When, Timed, Times
  <1>5. u[type] = w
    BY <1>1 DEF Times
  <1> HIDE DEF r, u, n, e
  <1>6. ASSUME NEW i \in 1 .. n + 1
        PROVE  /\ i < p => i \in 1 .. n /\ r[i] = q[i] /\ When(r, u, i) = When(q, t, i)
               /\ i = p => r[i] = e /\ When(r, u, i) = w
               /\ i > p => i - 1 \in 1 .. n /\ r[i] = q[i - 1]
                           /\ When(r, u, i) = When(q, t, i - 1)
    <2>1. CASE i < p
      <3>1. i \in 1 .. n /\ r[i] = q[i]
        BY <1>1, <1>3, <2>1 DEF n
      <3> QED  BY <1>4, <2>1, <3>1 DEF When
    <2>2. CASE i = p
      <3>1. r[i] = e
        BY <1>1, <1>3, <2>2
      <3> QED  BY <1>2, <1>5, <2>2, <3>1 DEF When
    <2>3. CASE i > p
      <3>1. i - 1 \in 1 .. n /\ r[i] = q[i - 1]
        BY <1>1, <1>3, <2>3 DEF n
      <3> QED  BY <1>4, <2>3, <3>1 DEF When
    <2> QED  BY <1>1, <2>1, <2>2, <2>3
  <1>7. ASSUME NEW i \in 1 .. n + 1 PROVE r[i].count = U(b + When(r, u, i))
    <2>1. \A k \in 1 .. n : q[k].count = U(b + When(q, t, k))
      BY DEF Timed, n
    <2>2. i < p \/ i = p \/ i > p
      BY <1>1
    <2> QED  BY <1>2, <1>6, <2>1, <2>2
  <1>8. ASSUME NEW i \in 1 .. n + 1, NEW j \in 1 .. n + 1, i < j
        PROVE  When(r, u, i) <= When(r, u, j)
    <2>1. \A k \in 1 .. n : When(q, t, k) \in Int
      BY WhenType DEF Timed, n
    <2>2. \A k, h \in 1 .. n : k < h => When(q, t, k) <= When(q, t, h)
      BY DEF Timed, n
    <2>3. CASE j < p
      <3>1. i < p
        BY <1>1, <1>8, <2>3
      <3> QED  BY <1>6, <1>8, <2>2, <2>3, <3>1
    <2>4. CASE i > p
      <3>1. j > p /\ i - 1 < j - 1
        BY <1>1, <1>8, <2>4
      <3> QED  BY <1>6, <2>2, <2>4, <3>1
    <2>5. CASE i < p /\ j = p
      BY <1>6, <2>5 DEF n
    <2>6. CASE i = p /\ j > p
      <3>1. j - 1 \in 1 .. n /\ j - 1 >= p /\ When(r, u, j) = When(q, t, j - 1)
        BY <1>1, <1>6, <2>6
      <3>2. w < When(q, t, j - 1)
        BY <3>1 DEF n
      <3> QED  BY <1>6, <2>1, <2>6, <3>1, <3>2
    <2>7. CASE i < p /\ j > p
      <3>1. j - 1 \in 1 .. n /\ j - 1 >= p /\ When(r, u, j) = When(q, t, j - 1)
        BY <1>1, <1>6, <2>7
      <3>2. w < When(q, t, j - 1)
        BY <3>1 DEF n
      <3>3. i \in 1 .. n /\ When(r, u, i) = When(q, t, i)
        BY <1>6, <2>7
      <3>4. When(q, t, i) <= w
        BY <2>7, <3>3 DEF n
      <3> QED  BY <2>1, <3>1, <3>2, <3>3, <3>4
    <2> QED  BY <1>1, <1>8, <2>3, <2>4, <2>5, <2>6, <2>7
  <1>9. Timed(r, b, u)
    BY <1>1, <1>3, <1>7, <1>8 DEF Timed
  <1>10. Joined(r, u, q, t, p, e, w)
    BY <1>1, <1>3, <1>6 DEF Joined, n
  <1> QED  BY <1>9, <1>10 DEF r, u, e

\* The events left keep their times.
LEMMA RemoveTimed ==
    ASSUME NEW q, Filed(q), NEW t, NEW b \in Int, Timed(q, b, t), NEW p \in 1 .. Len(q)
    PROVE  LET r == RemoveAt(q, p)
           IN  /\ Timed(r, b, t)
               /\ Len(r) = Len(q) - 1 /\ Len(q) \in Nat
               /\ \A i \in 1 .. Len(q) - 1 :
                     LET k == IF i < p THEN i ELSE i + 1
                     IN  k \in 1 .. Len(q) /\ r[i] = q[k] /\ When(r, t, i) = When(q, t, k)
  <1> DEFINE r == RemoveAt(q, p)
             n == Len(q)
             from(i) == IF i < p THEN i ELSE i + 1
  <1>1. q \in Seq(Events) /\ n \in Nat /\ t \in Times
    BY DEF Filed, Timed
  <1>2. /\ Len(r) = n - 1
        /\ \A i \in 1 .. n - 1 : r[i] = IF i < p THEN q[i] ELSE q[i + 1]
    BY <1>1, Removed
  <1> HIDE DEF r, n
  <1>3. \A i \in 1 .. n - 1 : from(i) \in 1 .. n /\ r[i] = q[from(i)]
    BY <1>1, <1>2
  <1>4. \A i, j \in 1 .. n - 1 : i < j => from(i) < from(j)
    BY <1>1
  <1> HIDE DEF from
  <1>5. \A i \in 1 .. n - 1 : When(r, t, i) = When(q, t, from(i))
    BY <1>3 DEF When
  <1>6. \A i \in 1 .. n : q[i].count = U(b + When(q, t, i))
    BY DEF Timed, n
  <1>7. \A i, j \in 1 .. n : i < j => When(q, t, i) <= When(q, t, j)
    BY DEF Timed, n
  <1>8. Timed(r, b, t)
    BY <1>1, <1>2, <1>3, <1>4, <1>5, <1>6, <1>7 DEF Timed
  <1> QED  BY <1>1, <1>2, <1>3, <1>5, <1>8 DEF r, n, from

-----------------------------------------------------------------------------
(* How late an event can be.  A branch serves one event and takes at most     *)
(* longest counts, so the i-th event waits for i branches: the bound is        *)
(* inductive when it is tightened with the place in the queue.               *)

\* The machines of these theorems: a step is an instruction at least and longest at
\* most; a burst of due events is over within LateBound, which VI's period and the
\* range of COUNT exceed; no delay passes half the range; and nobody presses the soft
\* reset button, which queues its events where COMPARE may still lag.
Paced(longest) ==
    /\ "soft" \notin Buttons
    /\ \A n \in Steps : CountPerOp <= n /\ n <= longest
    /\ MaxLate + longest * (Cardinality(Devices) + 2) <= LateBound
    /\ LateBound + longest <= VIDelay /\ VIDelay <= HalfRange
    /\ LateBound + longest + CountPerOp < HalfRange
    /\ PowerOnCount < HalfRange
    /\ \A d \in Delays : d <= HalfRange

\* One more than the events queued between two instructions.
Places == Cardinality(Devices) + 3

\* What the event served after k branches may be late.
Allowed(longest, k) == MaxLate + longest * (Places - k)

\* A COMPARE_INT ahead of the i-th event will come a second time before it: an event
\* behind COMPARE_INT has its very time, from which its handler arms it again.
Twice(q, t, i) ==
    \E a, b \in 1 .. Len(q) :
        a < b /\ a < i /\ q[a].type = "COMPARE" /\ When(q, t, a) = When(q, t, b)

Rank(q, t, i) == IF Twice(q, t, i) THEN i + 1 ELSE i

\* x branches' worth of time has passed since the last service.
Slack(q, t, longest, x) ==
    \A i \in 1 .. Len(q) :
        When(q, t, i) < 0 => -When(q, t, i) <= Allowed(longest, Rank(q, t, i) - x)

Transient == {"CHECK", "HW2", "NMI"}

LEMMA PlacesType == ASSUME Hosted PROVE Places \in Nat /\ Places >= 3
  <1>1. Cardinality(Devices) \in Nat
    BY FS_CardinalityType DEF Hosted
  <1> QED  BY <1>1 DEF Places

LEMMA AllowedFacts ==
    ASSUME Hosted, NEW longest \in Nat
    PROVE  /\ \A k \in Int : Allowed(longest, k) \in Int
           /\ \A k \in Int : Allowed(longest, k - 1) = Allowed(longest, k) + longest
           /\ \A k, j \in Int : k <= j => Allowed(longest, j) <= Allowed(longest, k)
           /\ Allowed(longest, Places) = MaxLate
           /\ Allowed(longest, Places - 1) = MaxLate + longest
           /\ Allowed(longest, 1) = MaxLate + longest * (Cardinality(Devices) + 2)
           /\ Places \in Nat /\ Places >= 3 /\ MaxLate \in Nat /\ LateBound \in Nat
  <1>1. Cardinality(Devices) \in Nat
    BY FS_CardinalityType DEF Hosted
  <1>2. Places \in Nat /\ Places >= 3 /\ Places - 1 = Cardinality(Devices) + 2
    BY <1>1 DEF Places
  <1>3. MaxLate \in Nat /\ LateBound \in Nat
    BY LateAssumption
  <1> HIDE DEF Places
  <1>4. ASSUME NEW k \in Int
        PROVE  /\ Allowed(longest, k) \in Int
               /\ Allowed(longest, k - 1) = Allowed(longest, k) + longest
    <2> DEFINE x == Places - k
    <2>1. x \in Int /\ Places - (k - 1) = x + 1
      BY <1>2
    <2>2. Allowed(longest, k) = MaxLate + longest * x
          /\ Allowed(longest, k - 1) = MaxLate + longest * (x + 1)
      BY <2>1 DEF Allowed
    <2> HIDE DEF x
    <2>3. longest * (x + 1) = longest * x + longest /\ longest * x \in Int
      BY <2>1
    <2> QED  BY <1>3, <2>2, <2>3
  <1>5. ASSUME NEW k \in Int, NEW j \in Int, k <= j
        PROVE  Allowed(longest, j) <= Allowed(longest, k)
    <2> DEFINE x == Places - j
               y == j - k
    <2>1. x \in Int /\ y \in Nat /\ Places - k = x + y
      BY <1>2, <1>5
    <2>2. Allowed(longest, j) = MaxLate + longest * x
          /\ Allowed(longest, k) = MaxLate + longest * (x + y)
      BY <2>1 DEF Allowed
    <2> HIDE DEF x, y
    <2>3. longest * (x + y) = longest * x + longest * y /\ longest * x \in Int
          /\ longest * y \in Nat
      BY <2>1
    <2> QED  BY <1>3, <2>2, <2>3
  <1>6. Allowed(longest, Places) = MaxLate
    <2>1. Places - Places = 0 /\ longest * 0 = 0
      BY <1>2
    <2> QED  BY <1>3, <2>1 DEF Allowed
  <1>7. Allowed(longest, Places - 1) = MaxLate + longest
    BY <1>2, <1>4, <1>6
  <1>8. Allowed(longest, 1) = MaxLate + longest * (Cardinality(Devices) + 2)
    BY <1>2 DEF Allowed
  <1> QED  BY <1>2, <1>3, <1>4, <1>5, <1>6, <1>7, <1>8

\* Between two instructions the queue holds the two anchors and one event a device.
LEMMA LengthBound ==
    ASSUME Hosted, NEW q, Filed(q), Types(q) \cap Transient = {}
    PROVE  Len(q) \in Nat /\ Len(q) + 1 <= Places
  <1> DEFINE types == [i \in 1 .. Len(q) |-> q[i].type]
             Anchors == {"SPECIAL", "COMPARE"}
             All     == Devices \cup Anchors
  <1>1. Len(q) \in Nat /\ \A i \in 1 .. Len(q) : q[i] \in Events /\ q[i].type \in Types(q)
    BY DEF Filed, Types
  <1>2. types \in Injection(1 .. Len(q), All)
    BY <1>1 DEF Filed, Events, EventTypes, CoreEvents, Transient, Injection, IsInjective
  <1>3. IsFiniteSet(All) /\ Cardinality(All) <= Cardinality(Devices) + 2
        /\ Cardinality(All) \in Nat
    <2>1. IsFiniteSet({"SPECIAL"}) /\ Cardinality({"SPECIAL"}) = 1
      BY FS_Singleton, Zenon
    <2>2. IsFiniteSet(Anchors) /\ Cardinality(Anchors) = 2
      <3>1. Anchors = {"SPECIAL"} \cup {"COMPARE"} /\ "COMPARE" \notin {"SPECIAL"}
        OBVIOUS
      <3>2. IsFiniteSet({"SPECIAL"} \cup {"COMPARE"})
            /\ Cardinality({"SPECIAL"} \cup {"COMPARE"}) = Cardinality({"SPECIAL"}) + 1
        BY <2>1, <3>1, FS_AddElement
      <3> QED  BY <2>1, <3>1, <3>2
    <2>3. IsFiniteSet(Devices) /\ Cardinality(Devices) \in Nat
      BY FS_CardinalityType DEF Hosted
    <2>4. Devices \cap Anchors = {}
      BY DevicesAssumption DEF CoreEvents
    <2> HIDE DEF Anchors
    <2>5. IsFiniteSet(All)
      BY <2>2, <2>3, FS_Union, Zenon
    <2>6. Cardinality(All) = Cardinality(Devices) + Cardinality(Anchors)
                               - Cardinality(Devices \cap Anchors)
      BY <2>2, <2>3, FS_Union, Zenon
    <2>7. Cardinality(Devices \cap Anchors) = 0
      BY <2>4, FS_EmptySet
    <2>8. Cardinality(All) \in Nat
      BY <2>5, FS_CardinalityType
    <2> HIDE DEF All
    <2> QED  BY <2>2, <2>3, <2>5, <2>6, <2>7, <2>8
  <1>4. Cardinality(1 .. Len(q)) <= Cardinality(All)
    BY <1>2, <1>3, FS_Injection
  <1>5. Cardinality(1 .. Len(q)) = Len(q)
    <2> DEFINE n == Len(q)
               k == Cardinality(1 .. n)
    <2>1. 1 \in Int /\ n \in Int
      BY <1>1
    <2>2. k = IF 1 > n THEN 0 ELSE n - 1 + 1
      BY <2>1, FS_Interval, Zenon
    <2> HIDE DEF k
    <2>3. k = n
      BY <1>1, <2>2
    <2> QED  BY <2>3 DEF k
  <1>6. Cardinality(Devices) \in Nat
    BY FS_CardinalityType DEF Hosted
  <1> QED  BY <1>1, <1>3, <1>4, <1>5, <1>6 DEF Places

LEMMA RankFacts ==
    ASSUME Hosted, NEW q, Filed(q), Types(q) \cap Transient = {}, NEW t
    PROVE  \A i \in 1 .. Len(q) :
              /\ Rank(q, t, i) \in Int /\ 1 <= Rank(q, t, i) /\ Rank(q, t, i) <= Places
              /\ i <= Rank(q, t, i) /\ Rank(q, t, i) <= i + 1
  <1>1. Len(q) \in Nat /\ Len(q) + 1 <= Places
    BY LengthBound
  <1>2. Places \in Nat
    BY PlacesType
  <1> QED  BY <1>1, <1>2 DEF Rank

\* However the events are placed, none is later than what the last may be.
LEMMA SlackFlat ==
    ASSUME Hosted, NEW longest \in Nat, NEW q, Filed(q), Types(q) \cap Transient = {},
           NEW t \in Times, NEW x \in {0, 1},
           \A i \in 1 .. Len(q) : -When(q, t, i) <= Allowed(longest, Places - x)
    PROVE  Slack(q, t, longest, x)
  <1> SUFFICES ASSUME NEW i \in 1 .. Len(q)
               PROVE  -When(q, t, i) <= Allowed(longest, Rank(q, t, i) - x)
    BY DEF Slack
  <1>1. When(q, t, i) \in Int
    BY WhenType
  <1>2. Rank(q, t, i) - x \in Int /\ Places - x \in Int /\ Rank(q, t, i) - x <= Places - x
    <2>1. Rank(q, t, i) \in Int /\ Rank(q, t, i) <= Places
      BY RankFacts
    <2> QED  BY <2>1, PlacesType
  <1>3. Allowed(longest, Places - x) <= Allowed(longest, Rank(q, t, i) - x)
        /\ Allowed(longest, Places - x) \in Int /\ Allowed(longest, Rank(q, t, i) - x) \in Int
    BY <1>2, AllowedFacts
  <1> QED  BY <1>1, <1>3

\* The head may be the latest.
LEMMA SlackLate ==
    ASSUME Hosted, NEW longest \in Nat, NEW q, Filed(q), Types(q) \cap Transient = {},
           NEW t \in Times, NEW x \in {0, 1}, Slack(q, t, longest, x)
    PROVE  /\ \A i \in 1 .. Len(q) : -When(q, t, i) <= Allowed(longest, 1 - x)
           /\ x = 0 => Slack(q, t, longest, 1)
  <1>1. ASSUME NEW i \in 1 .. Len(q) PROVE -When(q, t, i) <= Allowed(longest, 1 - x)
    <2>1. When(q, t, i) \in Int
      BY WhenType
    <2>2. 1 - x \in Int /\ Rank(q, t, i) - x \in Int /\ 1 - x <= Rank(q, t, i) - x
      BY RankFacts
    <2>3. Allowed(longest, Rank(q, t, i) - x) <= Allowed(longest, 1 - x)
          /\ Allowed(longest, 1 - x) \in Int /\ Allowed(longest, Rank(q, t, i) - x) \in Int
      BY <2>2, AllowedFacts
    <2>4. Allowed(longest, 1 - x) >= 0
      <3>1. Places \in Int /\ 1 - x \in Int /\ 1 - x <= Places
        BY PlacesType
      <3>2. Allowed(longest, Places) <= Allowed(longest, 1 - x)
        BY <3>1, AllowedFacts
      <3>3. Allowed(longest, Places) \in Nat
        BY AllowedFacts
      <3> QED  BY <2>3, <3>2, <3>3
    <2> QED  BY <2>1, <2>3, <2>4 DEF Slack
  <1>2. ASSUME x = 0 PROVE Slack(q, t, longest, 1)
    <2> SUFFICES ASSUME NEW i \in 1 .. Len(q), When(q, t, i) < 0
                 PROVE  -When(q, t, i) <= Allowed(longest, Rank(q, t, i) - 1)
      BY DEF Slack
    <2> DEFINE k == Rank(q, t, i)
    <2>1. When(q, t, i) \in Int /\ k \in Int
      BY WhenType, RankFacts
    <2>2. -When(q, t, i) <= Allowed(longest, k)
      <3>1. k - 0 = k
        BY <2>1
      <3> QED  BY <1>2, <3>1 DEF Slack
    <2> HIDE DEF k
    <2>3. Allowed(longest, k) \in Int /\ Allowed(longest, k - 1) = Allowed(longest, k) + longest
      BY <2>1, AllowedFacts
    <2> QED  BY <2>1, <2>2, <2>3 DEF k
  <1> QED  BY <1>1, <1>2

\* The times after n more counts.
Elapsed(t, n) == [x \in EventTypes |-> t[x] - n]

LEMMA ElapseTimed ==
    ASSUME NEW q, Filed(q), NEW b \in Int, NEW t, Timed(q, b, t), NEW n \in Int
    PROVE  /\ Timed(q, U(b + n), Elapsed(t, n))
           /\ \A i \in 1 .. Len(q) : When(q, Elapsed(t, n), i) = When(q, t, i) - n
           /\ \A x \in EventTypes : /\ t[x] \in Int
                                    /\ Elapsed(t, n)[x] = t[x] - n
                                    /\ U(U(b + n) + Elapsed(t, n)[x]) = U(b + t[x])
           /\ \A i \in 1 .. Len(q) : Twice(q, Elapsed(t, n), i) <=> Twice(q, t, i)
  <1>1. t \in Times /\ Elapsed(t, n) \in Times
    BY DEF Timed, Times, Elapsed
  <1>2. ASSUME NEW x \in EventTypes
        PROVE  /\ t[x] \in Int /\ Elapsed(t, n)[x] = t[x] - n
               /\ U(U(b + n) + Elapsed(t, n)[x]) = U(b + t[x])
    <2>1. t[x] \in Int /\ Elapsed(t, n)[x] = t[x] - n
      BY <1>1 DEF Times, Elapsed
    <2> DEFINE y == b + n
               z == t[x] - n
    <2>2. y \in Int /\ z \in Int /\ y + z = b + t[x]
      BY <2>1
    <2>3. U(U(y) + z) = U(y + z)
      <3> HIDE DEF y, z
      <3> QED  BY <2>2, WrapSum
    <2> QED  BY <2>1, <2>2, <2>3
  <1>3. \A i \in 1 .. Len(q) : q[i].type \in EventTypes /\ When(q, t, i) \in Int
    BY <1>1, WhenType
  <1>4. \A i \in 1 .. Len(q) : When(q, Elapsed(t, n), i) = When(q, t, i) - n
    BY <1>2, <1>3 DEF When
  <1>5. \A i \in 1 .. Len(q) : q[i].count = U(U(b + n) + When(q, Elapsed(t, n), i))
    <2>1. \A i \in 1 .. Len(q) : q[i].count = U(b + When(q, t, i))
      BY DEF Timed
    <2> QED  BY <1>2, <1>3, <2>1 DEF When
  <1>6. \A i, j \in 1 .. Len(q) :
            i < j => When(q, Elapsed(t, n), i) <= When(q, Elapsed(t, n), j)
    <2>1. \A i, j \in 1 .. Len(q) : i < j => When(q, t, i) <= When(q, t, j)
      BY DEF Timed
    <2> QED  BY <1>3, <1>4, <2>1
  <1>7. \A i, j \in 1 .. Len(q) :
            When(q, Elapsed(t, n), i) = When(q, Elapsed(t, n), j)
              <=> When(q, t, i) = When(q, t, j)
    BY <1>3, <1>4
  <1>8. \A i \in 1 .. Len(q) : Twice(q, Elapsed(t, n), i) <=> Twice(q, t, i)
    BY <1>7 DEF Twice
  <1> QED  BY <1>1, <1>2, <1>4, <1>5, <1>6, <1>8 DEF Timed

LEMMA SlackElapse ==
    ASSUME Hosted, NEW longest \in Nat, NEW q, Filed(q), Types(q) \cap Transient = {},
           NEW b \in Int, NEW t, Timed(q, b, t), Slack(q, t, longest, 0),
           NEW n \in Nat, n <= longest
    PROVE  Slack(q, Elapsed(t, n), longest, 1)
  <1> DEFINE u == Elapsed(t, n)
  <1> SUFFICES ASSUME NEW i \in 1 .. Len(q), When(q, u, i) < 0
               PROVE  -When(q, u, i) <= Allowed(longest, Rank(q, u, i) - 1)
    BY DEF Slack
  <1> DEFINE k == Rank(q, t, i)
             v == When(q, t, i)
  <1>1. When(q, u, i) = v - n /\ Rank(q, u, i) = k
    <2>1. n \in Int
      OBVIOUS
    <2>2. When(q, u, i) = v - n /\ (Twice(q, u, i) <=> Twice(q, t, i))
      BY <2>1, ElapseTimed
    <2> QED  BY <2>2 DEF Rank
  <1>2. v \in Int /\ k \in Int /\ k <= Places
    BY WhenType, RankFacts DEF Timed
  <1>3. v < 0 => -v <= Allowed(longest, k)
    <2>1. v < 0 => -v <= Allowed(longest, k - 0)
      BY DEF Slack
    <2>2. k - 0 = k
      BY <1>2
    <2> QED  BY <2>1, <2>2
  <1> HIDE DEF u, k, v
  <1>4. Allowed(longest, k) \in Int /\ Allowed(longest, k - 1) = Allowed(longest, k) + longest
        /\ Allowed(longest, k) >= 0
    <2>1. Places \in Int
      BY PlacesType
    <2>2. Allowed(longest, Places) <= Allowed(longest, k) /\ Allowed(longest, Places) \in Nat
      BY <1>2, <2>1, AllowedFacts
    <2>3. Allowed(longest, k) \in Int /\ Allowed(longest, k - 1) = Allowed(longest, k) + longest
      BY <1>2, AllowedFacts
    <2> QED  BY <2>2, <2>3
  <1> QED  BY <1>1, <1>2, <1>3, <1>4

\* An event put in at or after the present disturbs no overdue one.
LEMMA SlackInsert ==
    ASSUME Hosted, NEW longest \in Nat, NEW x \in {0, 1},
           NEW q, Filed(q), NEW t, NEW b \in Int, Timed(q, b, t), Slack(q, t, longest, x),
           NEW w \in Int, 0 <= w, NEW type \in EventTypes \ Types(q),
           NEW p \in 1 .. Len(q) + 1,
           \A i \in 1 .. Len(q) : i < p => When(q, t, i) <= w,
           \A i \in 1 .. Len(q) : i >= p => w < When(q, t, i)
    PROVE  Slack(InsertAt(q, p, Event(type, U(b + w))), [t EXCEPT ![type] = w], longest, x)
  <1> DEFINE r == InsertAt(q, p, Event(type, U(b + w)))
             u == [t EXCEPT ![type] = w]
             n == Len(q)
  <1>1. /\ Timed(r, b, u) /\ Len(r) = n + 1 /\ n \in Nat
        /\ \A i \in 1 .. n + 1 :
              /\ i < p => i \in 1 .. n /\ r[i] = q[i] /\ When(r, u, i) = When(q, t, i)
              /\ i = p => When(r, u, i) = w
              /\ i > p => i - 1 \in 1 .. n /\ When(r, u, i) = When(q, t, i - 1)
    <2>1. Timed(r, b, u) /\ Joined(r, u, q, t, p, Event(type, U(b + w)), w)
      BY InsertTimed
    <2> HIDE DEF r, u
    <2> QED  BY <2>1 DEF Joined
  <1> HIDE DEF r, u, n
  <1>2. \A i \in 1 .. n : When(q, t, i) \in Int
    BY WhenType DEF Timed, n
  <1>3. ASSUME NEW i \in 1 .. n + 1, When(r, u, i) < 0 PROVE i < p
    <2>1. CASE i = p
      BY <1>1, <1>3, <2>1
    <2>2. CASE i > p
      <3>1. i - 1 \in 1 .. n /\ i - 1 >= p /\ When(r, u, i) = When(q, t, i - 1)
        BY <1>1, <2>2
      <3>2. w < When(q, t, i - 1)
        BY <3>1 DEF n
      <3> QED  BY <1>2, <1>3, <3>1, <3>2
    <2> QED  BY <2>1, <2>2
  <1> SUFFICES ASSUME NEW i \in 1 .. n + 1, When(r, u, i) < 0
               PROVE  -When(r, u, i) <= Allowed(longest, Rank(r, u, i) - x)
    BY <1>1 DEF Slack, r, u
  <1>4. i < p /\ i \in 1 .. n /\ When(r, u, i) = When(q, t, i)
    BY <1>1, <1>3
  <1>5. Twice(r, u, i) => Twice(q, t, i)
    <2> SUFFICES ASSUME Twice(r, u, i) PROVE Twice(q, t, i)
      OBVIOUS
    <2>1. PICK a \in 1 .. n + 1, d \in 1 .. n + 1 :
             a < d /\ a < i /\ r[a].type = "COMPARE" /\ When(r, u, a) = When(r, u, d)
      BY <1>1 DEF Twice
    <2>2. a < p /\ a \in 1 .. n /\ r[a] = q[a] /\ When(r, u, a) = When(q, t, a)
      BY <1>1, <1>4, <2>1
    <2>3. When(q, t, a) <= When(q, t, i)
      BY <1>4, <2>1, <2>2 DEF Timed, n
    <2>4. When(r, u, d) < 0
      BY <1>2, <1>4, <2>1, <2>2, <2>3
    <2>5. d < p
      BY <1>3, <2>4
    <2>6. d \in 1 .. n /\ When(r, u, d) = When(q, t, d)
      BY <1>1, <2>5
    <2> QED  BY <2>1, <2>2, <2>6 DEF Twice, n
  <1> DEFINE k == Rank(q, t, i)
             j == Rank(r, u, i)
  <1>6. k \in Int /\ j \in Int /\ j <= k
    BY <1>4, <1>5 DEF Rank
  <1>7. -When(q, t, i) <= Allowed(longest, k - x)
    BY <1>4 DEF Slack, n
  <1> HIDE DEF k, j
  <1>8. k - x \in Int /\ j - x \in Int /\ j - x <= k - x
    BY <1>6
  <1>9. Allowed(longest, k - x) <= Allowed(longest, j - x) /\ Allowed(longest, k - x) \in Int
        /\ Allowed(longest, j - x) \in Int
    BY <1>8, AllowedFacts
  <1> QED  BY <1>2, <1>4, <1>7, <1>9 DEF j

\* The events behind one that is taken out move up.
LEMMA SlackRemove ==
    ASSUME Hosted, NEW longest \in Nat, NEW q, Filed(q), NEW t, NEW b \in Int, Timed(q, b, t),
           NEW p \in 1 .. Len(q)
    PROVE  /\ Slack(q, t, longest, 0) => Slack(RemoveAt(q, p), t, longest, 0)
           /\ p = 1 /\ Slack(q, t, longest, 1) => Slack(RemoveAt(q, p), t, longest, 0)
  <1> DEFINE r == RemoveAt(q, p)
             n == Len(q)
             from(i) == IF i < p THEN i ELSE i + 1
  <1>1. /\ Len(r) = n - 1 /\ n \in Nat
        /\ \A i \in 1 .. n - 1 :
              from(i) \in 1 .. n /\ r[i] = q[from(i)] /\ When(r, t, i) = When(q, t, from(i))
    BY RemoveTimed
  <1>2. \A i, j \in 1 .. n - 1 : i < j => from(i) < from(j)
    BY <1>1
  <1>3. \A i \in 1 .. n - 1 : i <= from(i) /\ (p = 1 => from(i) = i + 1)
    BY <1>1
  <1> HIDE DEF r, n, from
  <1>4. \A i \in 1 .. n - 1 : Twice(r, t, i) => Twice(q, t, from(i))
    <2> SUFFICES ASSUME NEW i \in 1 .. n - 1, Twice(r, t, i) PROVE Twice(q, t, from(i))
      OBVIOUS
    <2>1. PICK a \in 1 .. n - 1, d \in 1 .. n - 1 :
             a < d /\ a < i /\ r[a].type = "COMPARE" /\ When(r, t, a) = When(r, t, d)
      BY <1>1 DEF Twice
    <2>2. /\ from(a) \in 1 .. n /\ from(d) \in 1 .. n /\ from(a) < from(d) /\ from(a) < from(i)
          /\ q[from(a)].type = "COMPARE" /\ When(q, t, from(a)) = When(q, t, from(d))
      BY <1>1, <1>2, <2>1
    <2> QED  BY <2>2 DEF Twice, n
  <1>5. ASSUME NEW i \in 1 .. n - 1, NEW x \in {0, 1}, NEW y \in {0, 1},
               y <= x, y = 1 => p = 1,
               Slack(q, t, longest, x), When(r, t, i) < 0
        PROVE  -When(r, t, i) <= Allowed(longest, Rank(r, t, i) - (x - y))
    <2> DEFINE k == Rank(q, t, from(i))
               j == Rank(r, t, i)
    <2>1. from(i) \in 1 .. n /\ When(r, t, i) = When(q, t, from(i)) /\ from(i) \in Int /\ i \in Int
      BY <1>1
    <2>2. -When(q, t, from(i)) <= Allowed(longest, k - x)
      BY <1>5, <2>1 DEF Slack, n
    <2>3. k \in Int /\ j \in Int /\ j + y <= k
      BY <1>3, <1>4, <1>5, <2>1 DEF Rank
    <2>4. When(q, t, from(i)) \in Int
      BY <2>1, WhenType DEF Timed, n
    <2> HIDE DEF k, j
    <2>5. k - x \in Int /\ j - (x - y) \in Int /\ j - (x - y) <= k - x
      BY <2>3
    <2>6. /\ Allowed(longest, k - x) <= Allowed(longest, j - (x - y))
          /\ Allowed(longest, k - x) \in Int /\ Allowed(longest, j - (x - y)) \in Int
      BY <2>5, AllowedFacts
    <2> QED  BY <2>1, <2>2, <2>4, <2>6 DEF j
  <1>6. ASSUME Slack(q, t, longest, 0) PROVE Slack(r, t, longest, 0)
    <2> SUFFICES ASSUME NEW i \in 1 .. n - 1, When(r, t, i) < 0
                 PROVE  -When(r, t, i) <= Allowed(longest, Rank(r, t, i) - 0)
      BY <1>1 DEF Slack
    <2>1. 0 - 0 = 0
      OBVIOUS
    <2> QED  BY <1>5, <1>6, <2>1
  <1>7. ASSUME p = 1, Slack(q, t, longest, 1) PROVE Slack(r, t, longest, 0)
    <2> SUFFICES ASSUME NEW i \in 1 .. n - 1, When(r, t, i) < 0
                 PROVE  -When(r, t, i) <= Allowed(longest, Rank(r, t, i) - 0)
      BY <1>1 DEF Slack
    <2>1. 1 - 1 = 0
      OBVIOUS
    <2> QED  BY <1>5, <1>7, <2>1
  <1> QED  BY <1>6, <1>7 DEF r

\* COMPARE_INT served while another event is due at its very time goes behind all of
\* that time: it was the one to come twice, and comes twice no more.
LEMMA SlackAgain ==
    ASSUME Hosted, NEW longest \in Nat,
           NEW q, Filed(q), NEW t, NEW b \in Int, Timed(q, b, t), Slack(q, t, longest, 1),
           2 \in 1 .. Len(q), q[1].type = "COMPARE", NEW w \in Int,
           When(q, t, 1) = w, When(q, t, 2) = w,
           NEW s, s = RemoveAt(q, 1), Filed(s), "COMPARE" \notin Types(s),
           NEW p \in 1 .. Len(s) + 1,
           \A i \in 1 .. Len(s) : i < p => When(s, t, i) <= w,
           \A i \in 1 .. Len(s) : i >= p => w < When(s, t, i)
    PROVE  Slack(InsertAt(s, p, Event("COMPARE", U(b + w))), [t EXCEPT !["COMPARE"] = w],
                 longest, 0)
  <1> DEFINE r == InsertAt(s, p, Event("COMPARE", U(b + w)))
             u == [t EXCEPT !["COMPARE"] = w]
             n == Len(s)
  <1>1. /\ Timed(s, b, t) /\ Len(q) = n + 1 /\ n \in Nat
        /\ \A i \in 1 .. n : i + 1 \in 1 .. n + 1 /\ When(s, t, i) = When(q, t, i + 1)
    <2>1. 1 \in 1 .. Len(q) /\ Len(q) \in Nat
      BY DEF Filed
    <2>2. /\ Timed(s, b, t) /\ n = Len(q) - 1
          /\ \A i \in 1 .. Len(q) - 1 :
                LET k == IF i < 1 THEN i ELSE i + 1
                IN  k \in 1 .. Len(q) /\ s[i] = q[k] /\ When(s, t, i) = When(q, t, k)
      BY <2>1, RemoveTimed
    <2> HIDE DEF n
    <2> QED  BY <2>1, <2>2
  <1>2. Timed(r, b, u) /\ Joined(r, u, s, t, p, Event("COMPARE", U(b + w)), w)
    <2>1. "COMPARE" \in EventTypes \ Types(s)
      BY DEF EventTypes, CoreEvents
    <2> QED  BY <1>1, <2>1, InsertTimed
  <1>3. \A i \in 1 .. n : s[i].type # "COMPARE"
    BY DEF Types, n
  <1>4. \A i \in 1 .. n + 1 : When(q, t, i) \in Int
    BY <1>1, WhenType DEF Timed
  <1> HIDE DEF r, u, n
  <1>5. Len(r) = n + 1
    BY <1>2 DEF Joined, n
  <1>6. \A i \in 1 .. n + 1 : ~Twice(r, u, i)
    <2> SUFFICES ASSUME NEW i \in 1 .. n + 1, Twice(r, u, i) PROVE FALSE
      OBVIOUS
    <2>1. PICK a \in 1 .. n + 1, d \in 1 .. n + 1 :
             a < d /\ r[a].type = "COMPARE" /\ When(r, u, a) = When(r, u, d)
      BY <1>5 DEF Twice
    <2>2. a = p
      <3>1. a < p => r[a] = s[a] /\ a \in 1 .. n
        BY <1>2 DEF Joined, n
      <3>2. a > p => r[a] = s[a - 1] /\ a - 1 \in 1 .. n
        BY <1>2 DEF Joined, n
      <3>3. ~(a < p) /\ ~(a > p)
        BY <1>3, <2>1, <3>1, <3>2
      <3> QED  BY <1>1, <3>3 DEF n
    <2>3. /\ d - 1 \in 1 .. n /\ d - 1 >= p /\ When(r, u, d) = When(s, t, d - 1)
          /\ When(r, u, a) = w
      BY <1>1, <1>2, <2>1, <2>2 DEF Joined, n
    <2>4. w < When(s, t, d - 1)
      BY <2>3 DEF n
    <2>5. When(s, t, d - 1) \in Int
      BY <1>1, <1>4, <2>3
    <2> QED  BY <2>1, <2>3, <2>4, <2>5
  <1>7. p \in 2 .. n + 1
    <2>1. 1 \in 1 .. n /\ When(s, t, 1) = w
      BY <1>1
    <2>2. ~(1 >= p)
      BY <2>1 DEF n
    <2> QED  BY <1>1, <2>2 DEF n
  <1>8. ASSUME NEW i \in 2 .. n + 1, When(q, t, i) < 0
        PROVE  /\ -When(q, t, i) <= Allowed(longest, i)
               /\ -When(q, t, i) <= Allowed(longest, i - 1)
    <2>1. Twice(q, t, i)
      <3>1. /\ 1 \in 1 .. Len(q) /\ 1 < 2 /\ 1 < i
        BY <1>1
      <3> QED  BY <3>1 DEF Twice
    <2>2. Rank(q, t, i) - 1 = i /\ i \in 1 .. Len(q) /\ i \in Int
      BY <1>1, <2>1 DEF Rank
    <2>3. -When(q, t, i) <= Allowed(longest, i)
      BY <1>8, <2>2 DEF Slack
    <2>4. Allowed(longest, i) <= Allowed(longest, i - 1) /\ Allowed(longest, i) \in Int
          /\ Allowed(longest, i - 1) \in Int /\ When(q, t, i) \in Int
      <3>1. i - 1 \in Int /\ i \in Int /\ i - 1 <= i
        BY <2>2
      <3> QED  BY <1>1, <1>4, <2>2, <3>1, AllowedFacts
    <2> QED  BY <2>3, <2>4
  <1> SUFFICES ASSUME NEW i \in 1 .. n + 1, When(r, u, i) < 0
               PROVE  -When(r, u, i) <= Allowed(longest, i)
    <2>1. \A i \in 1 .. n + 1 : Rank(r, u, i) - 0 = i
      BY <1>6 DEF Rank
    <2> QED  BY <1>5, <2>1 DEF Slack, r, u
  <1>9. CASE i < p
    <2>1. i \in 1 .. n /\ When(r, u, i) = When(s, t, i)
      BY <1>2, <1>9 DEF Joined, n
    <2>2. When(r, u, i) = When(q, t, i + 1) /\ i + 1 \in 2 .. n + 1 /\ (i + 1) - 1 = i
      BY <1>1, <2>1
    <2> QED  BY <1>8, <2>2
  <1>10. CASE i = p
    <2>1. When(r, u, i) = w
      BY <1>2, <1>10 DEF Joined, n
    <2>2. i - 1 \in 1 .. n /\ i - 1 < p /\ (i - 1) + 1 = i /\ i \in 2 .. n + 1
      BY <1>1, <1>7, <1>10
    <2>3. When(s, t, i - 1) <= w /\ When(s, t, i - 1) = When(q, t, i)
      BY <1>1, <2>2 DEF n
    <2>4. 2 \in 1 .. n + 1 /\ (2 < i => When(q, t, 2) <= When(q, t, i))
      BY <1>1, <2>2 DEF Timed
    <2>5. When(q, t, i) = w
      BY <1>4, <2>2, <2>3, <2>4
    <2> QED  BY <1>8, <2>1, <2>2, <2>5
  <1>11. CASE i > p
    <2>1. i - 1 \in 1 .. n /\ When(r, u, i) = When(s, t, i - 1) /\ (i - 1) + 1 = i
      BY <1>2, <1>11 DEF Joined, n
    <2>2. When(r, u, i) = When(q, t, i) /\ i \in 2 .. n + 1
      BY <1>1, <2>1
    <2> QED  BY <1>8, <2>2
  <1> QED  BY <1>1, <1>9, <1>10, <1>11 DEF n

-----------------------------------------------------------------------------
(* The invariant, and the operations of the queue.                           *)

\* The times lie within a range of COUNT, from the present and from the head ...
Settled(q, t) ==
    \A i \in 1 .. Len(q) :
        When(q, t, i) - When(q, t, 1) < Modulus /\ When(q, t, i) < Modulus

\* ... or COMPARE has just been armed, and lies up to count_per_op beyond.
Spread(q, t) ==
    \A i \in 1 .. Len(q) :
        /\ When(q, t, i) - When(q, t, 1) < Modulus
        /\ \/ When(q, t, i) < Modulus
           \/ q[i].type = "COMPARE" /\ When(q, t, i) < Modulus + CountPerOp

\* SPECIAL_INT, and VI_INT once the screen is programmed, are never further than half
\* the range: one of them is always queued, and the head is no further.
Near(q, t) ==
    /\ "SPECIAL" \in Types(q) => t["SPECIAL"] <= HalfRange
    /\ "VI" \in Types(q) => t["VI"] <= HalfRange

\* Before the screen is programmed, SPECIAL_INT waits for the half of COUNT's range that
\* is not reached.
Dark(q, n, t) ==
    "VI" \notin Types(q) /\ "SPECIAL" \in Types(q) /\ n < HalfRange
        => t["SPECIAL"] = HalfRange - n

\* The queue q, COUNT at n and COMPARE at k, with the times t ...
Strung(q, n, k, t) ==
    /\ Timed(q, n, t) /\ Spread(q, t) /\ Near(q, t)
    /\ k = U(n + t["COMPARE"])
    /\ {"HW2", "NMI"} \cap Types(q) = {}

\* ... also before the screen is programmed.
Queued(q, n, k, t) == Strung(q, n, k, t) /\ Dark(q, n, t)

\* COUNT is in the half of its range that needs no screen.
Screened(q, n) == "VI" \in Types(q) \/ n < HalfRange

\* The queue without the CHECK_INT that an instruction may put ahead of it.
Line(c) == IF c.q[1].type = "CHECK" THEN Tail(c.q) ELSE c.q

Lined(c, t, pace, x) ==
    Queued(Line(c), c.count, c.compare, t) /\ Slack(Line(c), t, pace, x)

Late(v) == IF v < 0 THEN -v ELSE 0

LEMMA CycleOf ==
    ASSUME NEW c \in Machine, NEW v \in Int, -HalfRange < v, v <= HalfRange,
           Mirrored(c), c.q[1].count = U(c.count + v)
    PROVE  c.cycle = -v
  <1> DEFINE a == c.count + v
             b == c.count
  <1>1. a \in Int /\ b \in Int /\ b - a = -v
    BY MachineInts
  <1>2. c.cycle = S(b - U(a))
    BY DEF Mirrored
  <1>3. S(b - U(a)) = S(b - a)
    <2> HIDE DEF a, b
    <2> QED  BY <1>1, WrapSum
  <1>4. -v \in Cycles
    BY RangeLarge DEF Cycles
  <1>5. S(-v) = -v
    BY <1>4, WrapSmall
  <1> QED  BY <1>1, <1>2, <1>3, <1>5

LEMMA OriginOf ==
    ASSUME NEW c \in Machine, NEW v \in Int, c.cycle = -v
    PROVE  Origin(c) = U(c.count - Late(v))
  <1>1. c.count \in Counts /\ c.count \in Int
    BY MachineInts
  <1>2. CASE v < 0
    <2>1. c.cycle > 0 /\ Late(v) = c.cycle
      BY <1>2 DEF Late
    <2> QED  BY <2>1 DEF Origin
  <1>3. CASE ~(v < 0)
    <2>1. ~(c.cycle > 0) /\ Late(v) = 0 /\ c.count - 0 = c.count
      BY <1>1, <1>3 DEF Late
    <2>2. U(c.count) = c.count
      BY <1>1, WrapSmall
    <2> QED  BY <2>1, <2>2 DEF Origin
  <1> QED  BY <1>2, <1>3

LEMMA WithinLate ==
    ASSUME NEW q, Filed(q), NEW b \in Int, NEW t, Timed(q, b, t), Settled(q, t)
    PROVE  q # <<>> => Within(q, t, Late(When(q, t, 1)))
  <1> SUFFICES ASSUME NEW i \in 1 .. Len(q), q # <<>>
               PROVE  /\ -Late(When(q, t, 1)) <= When(q, t, i)
                      /\ When(q, t, i) < Modulus - Late(When(q, t, 1))
    BY DEF Within
  <1>1. 1 \in 1 .. Len(q)
    BY DEF Filed
  <1>2. When(q, t, i) \in Int /\ When(q, t, 1) \in Int
    BY <1>1, WhenType DEF Timed
  <1>3. When(q, t, 1) <= When(q, t, i)
    <2>1. i = 1 \/ 1 < i
      OBVIOUS
    <2> QED  BY <1>1, <1>2, <2>1 DEF Timed
  <1>4. When(q, t, i) - When(q, t, 1) < Modulus /\ When(q, t, i) < Modulus
    BY DEF Settled
  <1> QED  BY <1>2, <1>3, <1>4, RangeLarge DEF Late

LEMMA WithinSettled ==
    ASSUME NEW q, Filed(q), NEW t \in Times, NEW l \in Nat, Within(q, t, l)
    PROVE  Settled(q, t)
  <1> SUFFICES ASSUME NEW i \in 1 .. Len(q)
               PROVE  When(q, t, i) - When(q, t, 1) < Modulus /\ When(q, t, i) < Modulus
    BY DEF Settled
  <1>1. 1 \in 1 .. Len(q)
    BY DEF Filed
  <1>2. When(q, t, i) \in Int /\ When(q, t, 1) \in Int
    BY <1>1, WhenType
  <1>3. When(q, t, i) < Modulus - l /\ -l <= When(q, t, 1)
    BY <1>1 DEF Within
  <1> QED  BY <1>2, <1>3, RangeLarge

LEMMA SettledSpread ==
    ASSUME NEW q, NEW t, Settled(q, t) PROVE Spread(q, t)
  BY DEF Settled, Spread

\* What an insertion does to the queue.
LEMMA AddQueue ==
    ASSUME Hosted, NEW c \in Machine, Filed(c.q), NEW type \in EventTypes \ Types(c.q),
           NEW count \in Counts
    PROVE  AddInterruptEventCount(c, type, count).q
             = InsertAt(c.q, InsertPosition(c, count), Event(type, count))
  <1> DEFINE e == Event(type, count)
             p == InsertPosition(c, count)
             q == InsertAt(c.q, p, e)
             f == [c EXCEPT !.q = q]
  <1>1. e \in Events /\ e.type = type
    BY DEF Event, Events
  <1>2. p \in 1 .. Len(c.q) + 1
    BY PositionType
  <1>3. Len(c.q) < PoolCapacity /\ Len(c.q) \in Nat /\ PoolCapacity \in Nat
    BY NodeLeft, PoolCapacityAssumption DEF Hosted, Filed
  <1>4. ~(Len(c.q) >= PoolCapacity)
    BY <1>3
  <1>5. AddInterruptEventCount(c, type, count) = Mirror(f)
    BY <1>4 DEF AddInterruptEventCount
  <1> HIDE DEF e, p
  <1>6. Filed(q) /\ q # <<>>
    BY <1>1, <1>2, FiledInsert
  <1> HIDE DEF q
  <1>7. f \in Machine /\ f.q = q
    BY <1>6, Requeued DEF Kept
  <1> HIDE DEF f
  <1>8. Mirror(f).q = q
    BY <1>6, <1>7, MirrorKept
  <1> QED  BY <1>5, <1>8 DEF q, p, e

\* An event may be queued for a time w, at the present or after it ...
Armable(c, type, t, l, w) ==
    /\ c \in Machine /\ Filed(c.q) /\ type \in EventTypes \ Types(c.q)
    /\ l \in Nat /\ Timed(c.q, c.count, t) /\ Within(c.q, t, l)
    /\ Origin(c) = U(c.count - l)
    /\ w \in Int /\ 0 <= w /\ w < Modulus - l

\* ... and has been, in d.
ArmedAs(d, c, type, t, l, w) ==
    LET u == [t EXCEPT ![type] = w]
    IN  /\ Kept(d, c) /\ Filed(d.q) /\ Types(d.q) = Types(c.q) \cup {type}
        /\ d.q # <<>> /\ Mirrored(d)
        /\ Timed(d.q, c.count, u) /\ Settled(d.q, u) /\ Within(d.q, u, l)
        /\ \A pace \in Nat, x \in {0, 1} : Slack(c.q, t, pace, x) => Slack(d.q, u, pace, x)
        /\ u[type] = w /\ \A y \in EventTypes \ {type} : u[y] = t[y]

LEMMA Armed ==
    ASSUME Hosted, NEW c, NEW type, NEW t, NEW l, NEW w, Armable(c, type, t, l, w)
    PROVE  ArmedAs(AddInterruptEventCount(c, type, U(c.count + w)), c, type, t, l, w)
  <1> DEFINE count == U(c.count + w)
             p == InsertPosition(c, count)
             e == Event(type, count)
             d == AddInterruptEventCount(c, type, count)
             u == [t EXCEPT ![type] = w]
             n == Len(c.q)
  <1>a. /\ c \in Machine /\ Filed(c.q) /\ type \in EventTypes \ Types(c.q)
        /\ l \in Nat /\ Timed(c.q, c.count, t) /\ Within(c.q, t, l)
        /\ Origin(c) = U(c.count - l)
        /\ w \in Int /\ 0 <= w /\ w < Modulus - l
    BY DEF Armable
  <1>1. c.count \in Int /\ count \in Counts /\ w < Modulus - l /\ -l <= w /\ l \in Int
    BY <1>a, MachineInts, CountType, RangeLarge
  <1>2. /\ p \in 1 .. n + 1
        /\ \A i \in 1 .. n : i < p => When(c.q, t, i) <= w
        /\ \A i \in 1 .. n : i >= p => w < When(c.q, t, i)
    BY <1>a, <1>1, Placed
  <1>3. Kept(d, c) /\ Filed(d.q) /\ Types(d.q) = Types(c.q) \cup {type}
        /\ d.q # <<>> /\ Mirrored(d)
    BY <1>a, <1>1, AddKept
  <1>4. d.q = InsertAt(c.q, p, e)
    BY <1>a, <1>1, AddQueue
  <1> HIDE DEF p, d
  <1>5. Timed(d.q, c.count, u) /\ Joined(d.q, u, c.q, t, p, e, w)
    <2>1. LET r == InsertAt(c.q, p, Event(type, U(c.count + w)))
          IN  Timed(r, c.count, u) /\ Joined(r, u, c.q, t, p, Event(type, U(c.count + w)), w)
      BY <1>a, <1>1, <1>2, InsertTimed
    <2> QED  BY <1>4, <2>1
  <1>6. \A pace \in Nat, x \in {0, 1} : Slack(c.q, t, pace, x) => Slack(d.q, u, pace, x)
    <2> SUFFICES ASSUME NEW pace \in Nat, NEW x \in {0, 1}, Slack(c.q, t, pace, x)
                 PROVE  Slack(InsertAt(c.q, p, Event(type, U(c.count + w))), u, pace, x)
      BY <1>4
    <2> QED  BY <1>a, <1>1, <1>2, SlackInsert
  <1>7. u[type] = w /\ \A y \in EventTypes \ {type} : u[y] = t[y]
    BY <1>a DEF Timed, Times
  <1> HIDE DEF u, e, count
  <1>8. Within(d.q, u, l)
    <2> SUFFICES ASSUME NEW i \in 1 .. n + 1
                 PROVE  -l <= When(d.q, u, i) /\ When(d.q, u, i) < Modulus - l
      BY <1>5 DEF Within, Joined, n
    <2>1. i < p \/ i = p \/ i > p
      BY <1>2
    <2> QED  BY <1>a, <1>1, <1>5, <2>1 DEF Joined, Within, n
  <1>9. Settled(d.q, u)
    BY <1>a, <1>3, <1>5, <1>8, WithinSettled DEF Timed
  <1> QED  BY <1>3, <1>5, <1>6, <1>7, <1>8, <1>9 DEF ArmedAs, d, u, count

\* The queue lies within a range of COUNT from the time v, which cycle_count remembers:
\* that of the head, or of an event that has just left the head.
Recalled(q, t, v) ==
    \A i \in 1 .. Len(q) :
        v <= When(q, t, i) /\ When(q, t, i) - v < Modulus /\ When(q, t, i) < Modulus

LEMMA HeadRecalled ==
    ASSUME NEW q, Filed(q), q # <<>>, NEW b, NEW t, Timed(q, b, t), Settled(q, t)
    PROVE  Recalled(q, t, When(q, t, 1))
  <1>1. 1 \in 1 .. Len(q)
    BY DEF Filed
  <1>2. \A i \in 1 .. Len(q) : When(q, t, i) \in Int
    BY WhenType DEF Timed
  <1>3. \A i \in 1 .. Len(q) : When(q, t, 1) <= When(q, t, i)
    <2> SUFFICES ASSUME NEW i \in 1 .. Len(q) PROVE When(q, t, 1) <= When(q, t, i)
      OBVIOUS
    <2>1. i = 1 \/ 1 < i
      OBVIOUS
    <2> QED  BY <1>1, <1>2, <2>1 DEF Timed
  <1> QED  BY <1>3 DEF Recalled, Settled

\* COMPARE is queued, as if COUNT were count_per_op further: its time is counted from
\* there, or from the time cycle_count remembers if that is sooner.
LEMMA CompareArmed ==
    ASSUME Hosted, NEW longest \in Nat, NEW c \in Machine, Filed(c.q), c.q # <<>>,
           "COMPARE" \notin Types(c.q),
           NEW t, Timed(c.q, c.count, t),
           NEW v \in Int, c.cycle = -v, Recalled(c.q, t, v),
           CountPerOp - HalfRange < v, v <= HalfRange,
           NEW delta \in Int, delta = IF v < CountPerOp THEN v ELSE CountPerOp,
           NEW w \in Int, delta <= w, w < Modulus + delta
    PROVE  LET d == AddCompare(c, U(c.count + w))
               u == [t EXCEPT !["COMPARE"] = w]
           IN  /\ Kept(d, c) /\ Filed(d.q) /\ Types(d.q) = Types(c.q) \cup {"COMPARE"}
               /\ d.q # <<>> /\ Mirrored(d)
               /\ Timed(d.q, c.count, u) /\ Spread(d.q, u)
               /\ \E p \in 1 .. Len(c.q) + 1 :
                     /\ d.q = InsertAt(c.q, p, Event("COMPARE", U(c.count + w)))
                     /\ \A i \in 1 .. Len(c.q) : i < p => When(c.q, t, i) <= w
                     /\ \A i \in 1 .. Len(c.q) : i >= p => w < When(c.q, t, i)
               /\ u["COMPARE"] = w /\ \A y \in EventTypes \ {"COMPARE"} : u[y] = t[y]
  <1> DEFINE compare == U(c.count + w)
             count == U(c.count + CountPerOp)
             cycle == S(c.cycle + CountPerOp)
             ahead == [c EXCEPT !.count = count, !.cycle = cycle]
             added == AddInterruptEventCount(ahead, "COMPARE", compare)
             p     == InsertPosition(ahead, compare)
             e     == Event("COMPARE", compare)
             d     == AddCompare(c, compare)
             u     == [t EXCEPT !["COMPARE"] = w]
             n     == Len(c.q)
  <1>1. c.count \in Int /\ c.cycle \in Int /\ compare \in Counts /\ count \in Counts
        /\ count \in Int /\ cycle \in Cycles /\ CountPerOp \in Nat /\ CountPerOp > 0
    <2>1. c.count \in Int /\ c.cycle \in Int /\ CountPerOp \in Nat /\ CountPerOp > 0
      BY MachineInts, CountPerOpAssumption
    <2>2. c.count + w \in Int /\ c.count + CountPerOp \in Int /\ c.cycle + CountPerOp \in Int
      BY <2>1
    <2>3. compare \in Counts /\ count \in Counts /\ cycle \in Cycles
      BY <2>2, CountType
    <2>4. \A x \in Counts : x \in Int
      BY RangeLarge DEF Counts
    <2> QED  BY <2>1, <2>3, <2>4
  <1>2. 1 \in 1 .. n /\ n \in Nat /\ \A i \in 1 .. n : When(c.q, t, i) \in Int
    BY WhenType DEF Timed, Filed
  <1>4. cycle = CountPerOp - v
    <2>1. c.cycle + CountPerOp = CountPerOp - v
      BY <1>1
    <2>2. CountPerOp - v \in Cycles
      <3>1. CountPerOp \in Nat /\ CountPerOp > 0
        BY CountPerOpAssumption
      <3>2. HalfRange \in Nat /\ CountPerOp - v \in Int /\ -HalfRange <= CountPerOp - v
            /\ CountPerOp - v <= HalfRange - 1
        BY <3>1, HalfRangeAssumption
      <3> QED  BY <3>2 DEF Cycles
    <2> QED  BY <2>1, <2>2, WrapSmall
  <1>5. "COMPARE" \in EventTypes \ Types(c.q)
    BY DEF EventTypes, CoreEvents
  <1>6. Kept(d, c) /\ Filed(d.q) /\ Types(d.q) = Types(c.q) \cup {"COMPARE"}
        /\ d.q # <<>> /\ Mirrored(d)
    BY <1>1, CompareKept
  <1>7. d.q = added.q
    <2>1. d = [added EXCEPT !.count = c.count, !.cycle = S(c.count - added.q[1].count)]
      BY DEF AddCompare
    <2> HIDE DEF added
    <2>2. DOMAIN d = DOMAIN added
      BY <2>1
    <2>3. "q" \in DOMAIN d
      BY <1>6 DEF Kept, Machine
    <2> HIDE DEF d
    <2> QED  BY <2>1, <2>2, <2>3
  <1> HIDE DEF count, cycle
  <1>8. ahead \in Machine /\ ahead.q = c.q /\ ahead.count = count /\ ahead.cycle = cycle
    BY <1>1 DEF Machine
  <1> HIDE DEF ahead
  <1>9. added.q = InsertAt(c.q, p, e)
    <2>1. ahead \in Machine /\ Filed(ahead.q) /\ "COMPARE" \in EventTypes \ Types(ahead.q)
          /\ compare \in Counts
      BY <1>1, <1>5, <1>8
    <2> HIDE DEF compare
    <2>2. AddInterruptEventCount(ahead, "COMPARE", compare).q
            = InsertAt(ahead.q, InsertPosition(ahead, compare), Event("COMPARE", compare))
      BY <2>1, AddQueue
    <2> QED  BY <1>8, <2>2
  <1> HIDE DEF added, d
  <1>10. Origin(ahead) = U(c.count + delta)
    <2>1. CASE v < CountPerOp
      <3> DEFINE a == c.count + CountPerOp
                 b == v - CountPerOp
      <3>1. a \in Int /\ b \in Int /\ a + b = c.count + v /\ count - cycle = count + b
        BY <1>1, <1>4
      <3>2. U(U(a) + b) = U(a + b)
        <4> HIDE DEF a, b
        <4> QED  BY <3>1, WrapSum
      <3>3. ahead.cycle > 0
        BY <1>1, <1>4, <1>8, <2>1
      <3>4. Origin(ahead) = U(count - cycle)
        BY <1>8, <3>3 DEF Origin
      <3>5. count = U(a)
        BY DEF count
      <3>6. U(count - cycle) = U(c.count + v)
        <4> HIDE DEF a, b
        <4> QED  BY <3>1, <3>2, <3>5
      <3> QED  BY <2>1, <3>4, <3>6
    <2>2. CASE ~(v < CountPerOp)
      <3>1. ~(ahead.cycle > 0)
        BY <1>1, <1>4, <1>8, <2>2
      <3> QED  BY <1>8, <2>2, <3>1 DEF Origin, count
    <2> QED  BY <2>1, <2>2
  <1>11. \A i \in 1 .. n : /\ v <= When(c.q, t, i) /\ When(c.q, t, i) - v < Modulus
                            /\ When(c.q, t, i) < Modulus
    BY DEF Recalled
  <1>12. /\ p \in 1 .. n + 1
         /\ \A i \in 1 .. n : i < p => When(c.q, t, i) <= w
         /\ \A i \in 1 .. n : i >= p => w < When(c.q, t, i)
    <2> DEFINE l == -delta
    <2>1. l \in Int /\ c.count - l = c.count + delta /\ -l <= w /\ w < Modulus - l
      BY <1>1, RangeLarge
    <2>2. Within(c.q, t, l)
      <3> SUFFICES ASSUME NEW i \in 1 .. n
                   PROVE  -l <= When(c.q, t, i) /\ When(c.q, t, i) < Modulus - l
        BY DEF Within
      <3> QED  BY SMTT(40), <1>1, <1>2, <1>11, RangeLarge
    <2>3. Timed(ahead.q, c.count, t) /\ Within(ahead.q, t, l) /\ Origin(ahead) = U(c.count - l)
          /\ Filed(ahead.q)
      BY <1>8, <1>10, <2>1, <2>2
    <2> HIDE DEF l
    <2>4. LET k == InsertPosition(ahead, U(c.count + w))
          IN  /\ k \in 1 .. Len(ahead.q) + 1
              /\ \A i \in 1 .. Len(ahead.q) : i < k => When(ahead.q, t, i) <= w
              /\ \A i \in 1 .. Len(ahead.q) : i >= k => w < When(ahead.q, t, i)
      BY <1>1, <2>1, <2>3, Placed
    <2> QED  BY <1>8, <2>4
  <1> HIDE DEF p
  <1>13. Timed(d.q, c.count, u) /\ Joined(d.q, u, c.q, t, p, e, w)
    <2>1. LET r == InsertAt(c.q, p, Event("COMPARE", U(c.count + w)))
          IN  Timed(r, c.count, u)
              /\ Joined(r, u, c.q, t, p, Event("COMPARE", U(c.count + w)), w)
      BY <1>1, <1>5, <1>12, InsertTimed
    <2> QED  BY <1>7, <1>9, <2>1
  <1>14. u["COMPARE"] = w /\ \A y \in EventTypes \ {"COMPARE"} : u[y] = t[y]
    BY <1>5 DEF Timed, Times
  <1>15. e.type = "COMPARE"
    BY DEF Event
  <1>16. \E k \in 1 .. n + 1 :
            /\ d.q = InsertAt(c.q, k, Event("COMPARE", U(c.count + w)))
            /\ \A i \in 1 .. n : i < k => When(c.q, t, i) <= w
            /\ \A i \in 1 .. n : i >= k => w < When(c.q, t, i)
    <2>1. d.q = InsertAt(c.q, p, Event("COMPARE", U(c.count + w)))
      BY <1>7, <1>9
    <2> QED  BY <1>12, <2>1
  <1> HIDE DEF u, e, compare
  <1>17. Spread(d.q, u)
    <2> SUFFICES ASSUME NEW i \in 1 .. n + 1
                 PROVE  /\ When(d.q, u, i) - When(d.q, u, 1) < Modulus
                        /\ \/ When(d.q, u, i) < Modulus
                           \/ d.q[i].type = "COMPARE" /\ When(d.q, u, i) < Modulus + CountPerOp
      BY <1>13 DEF Spread, Joined, n
    <2>1. \A k \in 1 .. n : When(c.q, t, k) - v < Modulus /\ When(c.q, t, k) < Modulus
      BY <1>11
    <2>2. /\ i < p => i \in 1 .. n /\ When(d.q, u, i) = When(c.q, t, i)
          /\ i = p => d.q[i] = e /\ When(d.q, u, i) = w
          /\ i > p => i - 1 \in 1 .. n /\ When(d.q, u, i) = When(c.q, t, i - 1)
      BY <1>13 DEF Joined, n
    <2>3. 1 \in 1 .. n + 1 /\ p \in Int /\ i \in Int
      BY <1>2, <1>12
    <2>4. p # 1 => When(d.q, u, 1) \in Int /\ v <= When(d.q, u, 1)
      BY <1>2, <1>11, <1>12, <1>13, <2>3 DEF Joined, n
    <2>5. p = 1 => When(d.q, u, 1) = w
      BY <1>2, <1>12, <1>13, <2>3 DEF Joined, n
    <2>6. CountPerOp \in Nat /\ CountPerOp > 0 /\ Modulus \in Nat /\ delta <= CountPerOp
          /\ delta <= v
      BY CountPerOpAssumption, RangeLarge
    <2>7. CASE i = p
      <3>1. When(d.q, u, i) < Modulus + CountPerOp /\ d.q[i].type = "COMPARE"
        BY <1>15, <2>2, <2>6, <2>7
      <3>2. When(d.q, u, i) - When(d.q, u, 1) < Modulus
        BY <2>2, <2>4, <2>5, <2>6, <2>7
      <3> QED  BY <3>1, <3>2
    <2>8. CASE i # p
      <3>1. PICK k \in 1 .. n : When(d.q, u, i) = When(c.q, t, k)
        BY <2>2, <2>3, <2>8
      <3>2. When(c.q, t, k) \in Int
        BY <1>2
      <3>3. When(c.q, t, k) < Modulus + delta
        BY <2>1, <2>6, <3>2
      <3> QED  BY SMTT(40), <2>1, <2>4, <2>5, <2>6, <3>1, <3>2, <3>3
    <2> QED  BY <2>7, <2>8
  <1> QED  BY <1>6, <1>13, <1>14, <1>16, <1>17 DEF d, u, compare

\* Some time of the window has a given count.
LEMMA TimeOf ==
    ASSUME NEW n \in Int, NEW delta \in Int, NEW count \in Counts
    PROVE  \E w \in Int : delta <= w /\ w < Modulus + delta /\ count = U(n + w)
  <1> DEFINE a == count - (n + delta)
             w == U(a) + delta
  <1>1. count \in Int /\ a \in Int /\ U(a) \in Counts /\ n + delta \in Int
    BY CountType, RangeLarge DEF Counts
  <1>2. w \in Int /\ delta <= w /\ w < Modulus + delta /\ n + w = U(a) + (n + delta)
    BY <1>1, RangeLarge DEF Counts
  <1>3. U(U(a) + (n + delta)) = U(a + (n + delta))
    <2> DEFINE b == n + delta
    <2> HIDE DEF a, b
    <2>1. U(U(a) + b) = U(a + b)
      BY <1>1, WrapSum DEF b
    <2> QED  BY <2>1 DEF b
  <1>4. a + (n + delta) = count
    BY <1>1
  <1>5. U(n + w) = count
    BY <1>2, <1>3, <1>4, WrapSmall
  <1> QED  BY <1>2, <1>5

-----------------------------------------------------------------------------
(* The head.                                                                *)

\* No event is before the head.
LEMMA HeadFirst ==
    ASSUME NEW q, Filed(q), q # <<>>, NEW b, NEW t, Timed(q, b, t)
    PROVE  /\ 1 \in 1 .. Len(q) /\ When(q, t, 1) \in Int
           /\ \A i \in 1 .. Len(q) : When(q, t, i) \in Int /\ When(q, t, 1) <= When(q, t, i)
           /\ \A type \in Types(q) : t[type] \in Int /\ When(q, t, 1) <= t[type]
  <1>1. 1 \in 1 .. Len(q)
    BY HeadType
  <1>2. \A i \in 1 .. Len(q) : When(q, t, i) \in Int
    BY WhenType DEF Timed
  <1>3. ASSUME NEW i \in 1 .. Len(q) PROVE When(q, t, 1) <= When(q, t, i)
    <2>1. i = 1 \/ 1 < i
      OBVIOUS
    <2> QED  BY <1>1, <1>2, <2>1 DEF Timed
  <1>4. ASSUME NEW type \in Types(q) PROVE t[type] \in Int /\ When(q, t, 1) <= t[type]
    <2>1. PICK i \in 1 .. Len(q) : When(q, t, i) = t[type]
      BY DEF Types, When
    <2> QED  BY <1>2, <1>3, <2>1
  <1> QED  BY <1>1, <1>2, <1>3, <1>4

\* What a pace of 0 or of longest allows.
LEMMA PaceBound ==
    ASSUME Hosted, NEW longest \in Nat, Paced(longest), NEW pace \in {0, longest}
    PROVE  /\ pace \in Nat
           /\ Allowed(pace, 1) \in Int /\ Allowed(pace, 1) <= LateBound
           /\ Allowed(pace, 0) \in Int /\ Allowed(pace, 0) <= LateBound + longest
  <1>1. pace \in Nat /\ longest \in Nat
    OBVIOUS
  <1>2. Cardinality(Devices) \in Nat
    BY FS_CardinalityType DEF Hosted
  <1> DEFINE k == Cardinality(Devices) + 2
  <1>3. k \in Nat
    BY <1>2
  <1>4. MaxLate + longest * k <= LateBound /\ MaxLate \in Nat /\ LateBound \in Nat
    BY LateAssumption DEF Paced
  <1>5. /\ Allowed(pace, 1) \in Int /\ Allowed(pace, 0) = Allowed(pace, 1) + pace
        /\ Allowed(pace, 1) = MaxLate + pace * k
    <2>1. 1 - 1 = 0 /\ 1 \in Int
      OBVIOUS
    <2>2. Allowed(pace, 1 - 1) = Allowed(pace, 1) + pace
      BY <1>1, <2>1, AllowedFacts
    <2>3. Allowed(pace, 1) = MaxLate + pace * (Cardinality(Devices) + 2)
      BY <1>1, AllowedFacts
    <2>4. Allowed(pace, 1) \in Int
      <3>1. \A j \in Int : Allowed(pace, j) \in Int
        BY <1>1, AllowedFacts
      <3> QED  BY <2>1, <3>1
    <2> QED  BY <2>1, <2>2, <2>3, <2>4
  <1> HIDE DEF k
  <1>6. longest * k \in Nat /\ 0 * k = 0
    BY <1>1, <1>3
  <1>7. pace * k <= longest * k /\ pace * k \in Nat
    <2>1. CASE pace = 0
      BY <1>6, <2>1
    <2>2. CASE pace = longest
      BY <1>6, <2>2
    <2> QED  BY <2>1, <2>2
  <1> DEFINE a == longest * k
             b == pace * k
  <1>8. a \in Int /\ b \in Int /\ b <= a /\ MaxLate + a <= LateBound /\ pace <= longest
        /\ Allowed(pace, 1) = MaxLate + b
    BY <1>1, <1>4, <1>5, <1>6, <1>7
  <1> HIDE DEF a, b
  <1> QED  BY <1>1, <1>4, <1>5, <1>8

\* The head is within half a range of COUNT, and cycle_count is what it is late.
Headed(c, t) ==
    LET v == When(c.q, t, 1)
    IN  /\ v \in Int /\ CountPerOp - HalfRange < v /\ -HalfRange < v /\ v <= HalfRange
        /\ c.cycle = -v /\ Origin(c) = U(c.count - Late(v))
        /\ Late(v) \in Nat /\ Late(v) < HalfRange
        /\ c.q # <<>> /\ 1 \in 1 .. Len(c.q)

LEMMA LineHead ==
    ASSUME Hosted, NEW longest \in Nat, Paced(longest), NEW pace \in {0, longest},
           NEW x \in {0, 1}, NEW c, NEW t, c \in Machine, Filed(c.q), Mirrored(c),
           "SPECIAL" \in Types(c.q) \/ "VI" \in Types(c.q), "CHECK" \notin Types(c.q),
           NEW k, Strung(c.q, c.count, k, t), Slack(c.q, t, pace, x)
    PROVE  /\ Headed(c, t)
           /\ -When(c.q, t, 1) <= LateBound + longest
           /\ x = 0 => -When(c.q, t, 1) <= LateBound
  <1> DEFINE v == When(c.q, t, 1)
  <1>1. c.q # <<>>
    BY DEF Types
  <1>2. Timed(c.q, c.count, t) /\ Near(c.q, t) /\ Types(c.q) \cap Transient = {}
    BY DEF Strung, Transient
  <1>3. 1 \in 1 .. Len(c.q) /\ v \in Int /\ \A type \in Types(c.q) : t[type] \in Int /\ v <= t[type]
    BY <1>1, <1>2, HeadFirst
  <1>4. v <= HalfRange
    BY <1>2, <1>3, RangeLarge DEF Near
  <1>5. -v <= Allowed(pace, 1 - x)
    <2>1. t \in Times /\ pace \in Nat
      BY <1>2 DEF Timed
    <2>2. \A i \in 1 .. Len(c.q) : -When(c.q, t, i) <= Allowed(pace, 1 - x)
      BY <1>2, <2>1, SlackLate
    <2> QED  BY <1>3, <2>2
  <1>6. (x = 0 => -v <= LateBound) /\ -v <= LateBound + longest
    <2>1. LateBound \in Nat
      BY LateAssumption
    <2>2. CASE x = 0
      <3>1. -v <= Allowed(pace, 1)
        BY <1>5, <2>2
      <3> QED  BY <1>3, <2>1, <2>2, <3>1, PaceBound
    <2>3. CASE x = 1
      <3>1. -v <= Allowed(pace, 0)
        BY <1>5, <2>3
      <3> QED  BY <1>3, <2>1, <2>3, <3>1, PaceBound
    <2> QED  BY <2>2, <2>3
  <1>7. CountPerOp - HalfRange < v /\ -HalfRange < v
    <2>1. LateBound + longest + CountPerOp < HalfRange /\ LateBound \in Nat /\ CountPerOp \in Nat
          /\ HalfRange \in Nat
      BY LateAssumption, CountPerOpAssumption, RangeLarge DEF Paced
    <2> QED  BY <1>3, <1>6, <2>1
  <1>8. c.q[1].count = U(c.count + v)
    BY <1>2, <1>3 DEF Timed
  <1> HIDE DEF v
  <1>9. c.cycle = -v
    BY <1>3, <1>4, <1>7, <1>8, CycleOf
  <1>10. Origin(c) = U(c.count - Late(v))
    BY <1>3, <1>9, OriginOf
  <1>11. Late(v) \in Nat /\ Late(v) < HalfRange
    BY <1>3, <1>7, RangeLarge DEF Late
  <1> QED  BY <1>1, <1>3, <1>4, <1>6, <1>7, <1>9, <1>10, <1>11 DEF v, Headed

-----------------------------------------------------------------------------
(* COUNT moves on.                                                          *)

\* No event is later than a block of code can make it.
Fresh(q, t) == \A i \in 1 .. Len(q) : -When(q, t, i) <= MaxLate

LEMMA FreshSlack ==
    ASSUME Hosted, NEW q, Filed(q), Types(q) \cap Transient = {}, NEW t \in Times,
           NEW x \in {0, 1}
    PROVE  /\ Fresh(q, t) => \A pace \in Nat : Slack(q, t, pace, x)
           /\ Slack(q, t, 0, x) => Fresh(q, t)
  <1>1. \A i \in 1 .. Len(q) : When(q, t, i) \in Int
    BY WhenType
  <1>2. ASSUME Fresh(q, t), NEW pace \in Nat PROVE Slack(q, t, pace, x)
    <2>1. MaxLate <= Allowed(pace, Places - x) /\ MaxLate \in Nat
          /\ Allowed(pace, Places - x) \in Int
      <3>1. /\ Allowed(pace, Places) = MaxLate /\ Allowed(pace, Places - 1) = MaxLate + pace
            /\ Places \in Nat /\ MaxLate \in Nat
        BY AllowedFacts
      <3>2. x = 0 => Places - x = Places
        BY <3>1
      <3> QED  BY <3>1, <3>2
    <2>2. \A i \in 1 .. Len(q) : -When(q, t, i) <= Allowed(pace, Places - x)
      BY <1>1, <1>2, <2>1 DEF Fresh
    <2> QED  BY <2>2, SlackFlat
  <1>3. ASSUME Slack(q, t, 0, x) PROVE Fresh(q, t)
    <2>1. \A i \in 1 .. Len(q) : -When(q, t, i) <= Allowed(0, 1 - x)
      BY <1>3, SlackLate
    <2>2. Allowed(0, 1 - x) = MaxLate
      <3>1. MaxLate \in Nat /\ Places \in Nat
        BY AllowedFacts
      <3>2. 0 * (Places - (1 - x)) = 0
        BY <3>1
      <3> QED  BY <3>1, <3>2 DEF Allowed
    <2> QED  BY <2>1, <2>2 DEF Fresh
  <1> QED  BY <1>2, <1>3

\* The times shrink by what COUNT has moved; an armed COMPARE is back in the range.
LEMMA ElapseQueued ==
    ASSUME NEW q, Filed(q), NEW n \in Counts, NEW k, NEW t, Queued(q, n, k, t),
           NEW d \in Nat, "VI" \in Types(q) \/ n + d < HalfRange
    PROVE  LET u == Elapsed(t, d)
           IN  /\ Queued(q, U(n + d), k, u) /\ Screened(q, U(n + d))
               /\ CountPerOp <= d => Settled(q, u)
  <1> DEFINE u == Elapsed(t, d)
             b == U(n + d)
  <1>1. n \in Int /\ d \in Int /\ b \in Counts /\ b \in Int
    BY CountType, RangeLarge DEF Counts
  <1>2. Timed(q, n, t)
    BY DEF Queued, Strung
  <1>3. /\ Timed(q, b, u)
        /\ \A i \in 1 .. Len(q) : When(q, u, i) = When(q, t, i) - d
        /\ \A x \in EventTypes : t[x] \in Int /\ u[x] = t[x] - d /\ U(b + u[x]) = U(n + t[x])
    <2>1. Timed(q, U(n + d), Elapsed(t, d))
      BY <1>1, <1>2, ElapseTimed
    <2>2. \A i \in 1 .. Len(q) : When(q, Elapsed(t, d), i) = When(q, t, i) - d
      BY <1>1, <1>2, ElapseTimed
    <2>3. ASSUME NEW x \in EventTypes
          PROVE  /\ t[x] \in Int /\ Elapsed(t, d)[x] = t[x] - d
                 /\ U(U(n + d) + Elapsed(t, d)[x]) = U(n + t[x])
      BY SMTT(40), <1>1, <1>2, ElapseTimed
    <2> QED  BY <2>1, <2>2, <2>3
  <1> HIDE DEF u
  <1>4. {"SPECIAL", "COMPARE"} \subseteq EventTypes /\ Types(q) \subseteq EventTypes
    <2>1. \A i \in 1 .. Len(q) : q[i].type \in EventTypes
      BY <1>2, WhenType DEF Timed
    <2>2. {"SPECIAL", "COMPARE"} \subseteq EventTypes
      BY DEF EventTypes, CoreEvents
    <2> QED  BY <2>1, <2>2 DEF Types
  <1>5. k = U(b + u["COMPARE"])
    <2>1. k = U(n + t["COMPARE"]) /\ "COMPARE" \in EventTypes
      BY <1>4 DEF Queued, Strung
    <2>2. U(b + u["COMPARE"]) = U(n + t["COMPARE"])
      BY <1>3, <2>1
    <2> HIDE DEF b
    <2> QED  BY <2>1, <2>2
  <1>6. Near(q, u)
    BY <1>3, <1>4, RangeLarge DEF Near, Queued, Strung
  <1>7. n + d < HalfRange => b = n + d
    <2>1. n + d < HalfRange => n + d \in Counts
      BY RangeLarge DEF Counts
    <2> QED  BY <2>1, WrapSmall
  <1>8. Screened(q, b)
    BY <1>7 DEF Screened
  <1>9. Dark(q, b, u)
    <2> SUFFICES ASSUME "VI" \notin Types(q), "SPECIAL" \in Types(q)
                 PROVE  u["SPECIAL"] = HalfRange - b
      BY DEF Dark
    <2>1. n + d < HalfRange /\ n < HalfRange /\ b = n + d
      BY <1>1, <1>7, RangeLarge
    <2>2. t["SPECIAL"] = HalfRange - n
      BY <2>1 DEF Queued, Dark, Strung
    <2>3. u["SPECIAL"] = t["SPECIAL"] - d
      BY <1>3, <1>4
    <2> HIDE DEF b
    <2> QED  BY <1>1, <2>1, <2>2, <2>3, RangeLarge
  <1> HIDE DEF b
  <1>10. Spread(q, t) /\ \A i \in 1 .. Len(q) : When(q, t, i) \in Int
    BY <1>2, WhenType DEF Queued, Timed, Strung
  <1>11. CountPerOp \in Nat /\ Modulus \in Nat
    BY CountPerOpAssumption, RangeLarge
  <1>12. Spread(q, u) /\ (CountPerOp <= d => Settled(q, u))
    <2>1. \A i \in 1 .. Len(q) : 1 \in 1 .. Len(q)
      BY DEF Filed
    <2>2. ASSUME NEW i \in 1 .. Len(q)
          PROVE  /\ When(q, u, i) - When(q, u, 1) < Modulus
                 /\ \/ When(q, u, i) < Modulus
                    \/ q[i].type = "COMPARE" /\ When(q, u, i) < Modulus + CountPerOp
                 /\ CountPerOp <= d => When(q, u, i) < Modulus
      <3>1. When(q, u, i) = When(q, t, i) - d /\ When(q, u, 1) = When(q, t, 1) - d
        BY <1>3, <2>1
      <3>2. When(q, t, i) \in Int /\ When(q, t, 1) \in Int
        BY <1>10, <2>1
      <3>3. /\ When(q, t, i) - When(q, t, 1) < Modulus
            /\ \/ When(q, t, i) < Modulus
               \/ q[i].type = "COMPARE" /\ When(q, t, i) < Modulus + CountPerOp
        BY <1>10 DEF Spread
      <3> QED  BY <1>1, <1>11, <3>1, <3>2, <3>3
    <2> QED  BY <2>2 DEF Spread, Settled
  <1>13. {"HW2", "NMI"} \cap Types(q) = {}
    BY DEF Queued, Strung
  <1>14. Queued(q, b, k, u)
    BY <1>3, <1>5, <1>6, <1>9, <1>12, <1>13 DEF Queued, Strung
  <1> QED  BY <1>8, <1>12, <1>14 DEF u, b

\* An instruction's worth of COUNT.
LEMMA ElapseLined ==
    ASSUME Hosted, NEW longest \in Nat, Paced(longest),
           NEW q, Filed(q), q # <<>>, "CHECK" \notin Types(q), NEW n \in Counts, NEW k, NEW t,
           Queued(q, n, k, t), Slack(q, t, longest, 0),
           NEW d \in Steps, "VI" \in Types(q) \/ n + d < HalfRange
    PROVE  LET u == Elapsed(t, d)
               b == U(n + d)
           IN  /\ Queued(q, b, k, u) /\ Screened(q, b) /\ Settled(q, u)
               /\ Slack(q, u, longest, 1)
               /\ d - When(q, t, 1) <= MaxLate => Fresh(q, u)
  <1> DEFINE u == Elapsed(t, d)
             b == U(n + d)
  <1>1. d \in Nat /\ CountPerOp <= d /\ d <= longest /\ n \in Int /\ d \in Int
    BY StepsAssumption, RangeLarge DEF Paced, Counts
  <1>2. Timed(q, n, t) /\ Types(q) \cap Transient = {}
    BY DEF Queued, Transient, Strung
  <1>3. Queued(q, b, k, u) /\ Screened(q, b) /\ Settled(q, u)
    BY <1>1, ElapseQueued
  <1>4. Slack(q, u, longest, 1)
    BY <1>1, <1>2, SlackElapse
  <1>5. ASSUME d - When(q, t, 1) <= MaxLate PROVE Fresh(q, u)
    <2>1. \A i \in 1 .. Len(q) : When(q, u, i) = When(q, t, i) - d
      BY <1>1, <1>2, ElapseTimed
    <2>2. /\ When(q, t, 1) \in Int
          /\ \A i \in 1 .. Len(q) : When(q, t, i) \in Int /\ When(q, t, 1) <= When(q, t, i)
      BY <1>2, HeadFirst
    <2>3. MaxLate \in Nat
      BY LateAssumption
    <2> HIDE DEF u
    <2> QED  BY <1>1, <1>5, <2>1, <2>2, <2>3 DEF Fresh
  <1> QED  BY <1>3, <1>4, <1>5 DEF u, b

LEMMA LineOf ==
    ASSUME NEW c, Filed(c.q), c.q # <<>>
    PROVE  /\ "CHECK" \notin Types(c.q) => Line(c) = c.q
           /\ Filed(Line(c)) /\ (Types(Line(c)) = Types(c.q) \ {"CHECK"} \/ c.q[1].type # "CHECK")
  <1>1. c.q[1].type \in Types(c.q)
    BY HeadType
  <1>2. CASE c.q[1].type = "CHECK"
    <2>1. Line(c) = Tail(c.q)
      BY <1>2 DEF Line
    <2> QED  BY <1>1, <1>2, <2>1, FiledTail
  <1>3. CASE c.q[1].type # "CHECK"
    BY <1>1, <1>3 DEF Line
  <1> QED  BY <1>2, <1>3

\* Outside and inside an instruction, the line holds the anchors and no CHECK_INT.
LEMMA LineFacts ==
    ASSUME NEW c, Steady(c) \/ Urgent(c)
    PROVE  /\ Filed(Line(c)) /\ Line(c) # <<>> /\ "CHECK" \notin Types(Line(c))
           /\ {"SPECIAL", "COMPARE"} \subseteq Types(Line(c))
           /\ "VI" \in Types(Line(c)) <=> "VI" \in Types(c.q)
           /\ Steady(c) => Line(c) = c.q
           /\ c.count \in Counts
  <1>1. c \in Machine /\ Sound(c) /\ Filed(c.q) /\ c.q # <<>> /\ c.count \in Counts
    BY AnchoredHead, MachineInts DEF Steady, Urgent, Sound
  <1>2. CASE Steady(c)
    BY <1>1, <1>2, LineOf DEF Steady, Sound
  <1>3. CASE Urgent(c)
    <2>1. c.q[1].type = "CHECK" /\ ~Steady(c)
      BY <1>1, <1>3, HeadType DEF Urgent, Steady
    <2>2. Filed(Line(c)) /\ Types(Line(c)) = Types(c.q) \ {"CHECK"}
      BY <1>1, <2>1, LineOf
    <2>3. {"SPECIAL", "COMPARE"} \subseteq Types(Line(c))
      BY <1>1, <2>2 DEF Sound
    <2>4. Line(c) # <<>>
      BY <2>3 DEF Types
    <2> QED  BY <1>1, <2>1, <2>2, <2>3, <2>4
  <1> QED  BY <1>2, <1>3

\* r4300_check_interrupt puts CHECK_INT ahead of the line at most.
LEMMA CheckLine ==
    ASSUME Hosted, NEW c, Steady(c)
    PROVE  LET d == CheckInterrupt(c)
           IN  /\ Steady(d) \/ Urgent(d)
               /\ Line(d) = c.q /\ d.count = c.count /\ d.compare = c.compare
  <1> DEFINE ip     == IF c.intr \cap c.mask # {} THEN c.ip \cup {"IP2"} ELSE c.ip \ {"IP2"}
             caused == [c EXCEPT !.ip = ip]
             e      == Event("CHECK", caused.count)
             q      == <<e>> \o caused.q
             pushed == [caused EXCEPT !.q = q, !.next = caused.count, !.cycle = 0]
             d      == CheckInterrupt(c)
  <1>1. c \in Machine /\ Filed(c.q) /\ c.q # <<>> /\ "CHECK" \notin Types(c.q)
    BY AnchoredHead DEF Steady, Sound
  <1>2. /\ DOMAIN caused = DOMAIN c /\ caused.q = c.q /\ caused.count = c.count
        /\ caused.compare = c.compare
    <2> HIDE DEF ip
    <2> QED  BY <1>1 DEF Machine
  <1>3. d = IF Deliverable(caused) THEN PushCheck(caused) ELSE caused
    BY DEF CheckInterrupt
  <1>4. Steady(d) \/ Urgent(d)
    BY CheckedSteady
  <1> HIDE DEF d, caused
  <1>5. CASE ~Deliverable(caused)
    <2>1. d.q = c.q
      BY <1>2, <1>3, <1>5
    <2>2. Line(d) = c.q
      BY <1>1, <2>1, LineOf
    <2> QED  BY <1>2, <1>3, <1>4, <1>5, <2>2 DEF d
  <1>6. CASE Deliverable(caused)
    <2>1. ~(Len(caused.q) >= PoolCapacity)
      <3>1. Len(c.q) < PoolCapacity
        BY <1>1, NodeLeft DEF Hosted
      <3> QED  BY <1>1, <1>2, <3>1, PoolCapacityAssumption DEF Filed
    <2>2. d = pushed
      BY <1>3, <1>6, <2>1 DEF PushCheck
    <2>3. e.type = "CHECK"
      BY DEF Event
    <2> HIDE DEF e
    <2>4. c.q \in Seq(Events)
      BY <1>1 DEF Filed
    <2>5. q[1] = e /\ Tail(q) = c.q
      <3> DEFINE s == c.q
      <3>1. q = <<e>> \o s /\ s \in Seq(Events)
        BY <1>2, <2>4
      <3> HIDE DEF s, q
      <3>2. q[1] = e /\ Tail(q) = s
        BY <3>1
      <3> QED  BY <3>2 DEF s
    <2> HIDE DEF q
    <2>6. d.q = q /\ d.count = c.count /\ d.compare = c.compare
      BY <1>1, <1>2, <2>2 DEF Machine
    <2>7. Line(d) = c.q
      BY <2>3, <2>5, <2>6 DEF Line
    <2> QED  BY <1>4, <2>6, <2>7 DEF d
  <1> QED  BY <1>5, <1>6

LEMMA UpdateLined ==
    ASSUME Hosted, NEW longest \in Nat, Paced(longest), NEW c, Steady(c) \/ Urgent(c), NEW t,
           Lined(c, t, longest, 0), NEW n \in Steps,
           "VI" \in Types(c.q) \/ c.count + n < HalfRange
    PROVE  LET d == UpdateCount(c, n)
               u == Elapsed(t, n)
           IN  /\ Line(d) = Line(c) /\ d.q = c.q /\ d.compare = c.compare
               /\ d.count = U(c.count + n)
               /\ Lined(d, u, longest, 1) /\ Screened(Line(d), d.count)
               /\ Settled(Line(d), u)
               /\ n - When(Line(c), t, 1) <= MaxLate => Fresh(Line(d), u)
  <1> DEFINE d == UpdateCount(c, n)
             u == Elapsed(t, n)
             q == Line(c)
             b == U(c.count + n)
  <1>1. /\ c \in Machine /\ Filed(q) /\ q # <<>> /\ "CHECK" \notin Types(q) /\ c.count \in Counts
        /\ "VI" \in Types(q) \/ c.count + n < HalfRange
    BY LineFacts DEF Steady, Urgent, Sound
  <1>2. d.q = c.q /\ d.compare = c.compare /\ d.count = b
    <2>1. d = [c EXCEPT !.count = b, !.cycle = S(c.cycle + n)]
      BY DEF UpdateCount
    <2> HIDE DEF d, b
    <2> QED  BY <1>1, <2>1 DEF Machine
  <1> HIDE DEF d
  <1>3. Line(d) = q
    BY <1>2 DEF Line
  <1>4. Queued(q, c.count, c.compare, t) /\ Slack(q, t, longest, 0)
    BY DEF Lined
  <1> HIDE DEF q
  <1>5. /\ Queued(q, b, c.compare, u) /\ Screened(q, b) /\ Settled(q, u)
        /\ Slack(q, u, longest, 1)
        /\ n - When(q, t, 1) <= MaxLate => Fresh(q, u)
    BY <1>1, <1>4, ElapseLined
  <1> HIDE DEF b, u
  <1>6. Lined(d, u, longest, 1)
    BY <1>2, <1>3, <1>5 DEF Lined
  <1> QED  BY <1>2, <1>3, <1>5, <1>6 DEF d, u, q, b

-----------------------------------------------------------------------------
(* The handlers.                                                            *)

\* The half of COUNT's range that SPECIAL_INT is armed for is at most half a range away.
LEMMA HalfAhead ==
    ASSUME NEW n \in Counts
    PROVE  \E w \in Int : /\ 0 < w /\ w <= HalfRange /\ OppositeHalf(n) = U(n + w)
                          /\ n < HalfRange => w = HalfRange - n
  <1>1. n \in Int /\ 0 <= n /\ n < Modulus /\ HalfRange \in Nat /\ HalfRange > 1
        /\ Modulus \in Nat /\ Modulus = HalfRange + HalfRange
    BY HalfRangeAssumption DEF Counts, Modulus
  <1>2. CASE n < HalfRange
    <2> DEFINE w == HalfRange - n
    <2>1. w \in Int /\ 0 < w /\ w <= HalfRange /\ n + w = HalfRange
      BY <1>1, <1>2
    <2>2. HalfRange \in Counts
      BY <1>1 DEF Counts
    <2>3. OppositeHalf(n) = U(n + w)
      BY <1>2, <2>1, <2>2, WrapSmall DEF OppositeHalf
    <2> QED  BY <2>1, <2>3
  <1>3. CASE ~(n < HalfRange)
    <2> DEFINE w == Modulus - n
    <2>1. w \in Int /\ 0 < w /\ w <= HalfRange /\ n + w = Modulus
      BY <1>1, <1>3
    <2>2. U(Modulus) = 0
      BY <1>1 DEF U
    <2>3. OppositeHalf(n) = U(n + w)
      BY <1>3, <2>1, <2>2 DEF OppositeHalf
    <2> QED  BY <1>3, <2>1, <2>3
  <1> QED  BY <1>2, <1>3

\* r and its times u are no later than q and its times t.
Eased(r, u, q, t) ==
    \A pace \in Nat, x \in {0, 1} : Slack(q, t, pace, x) => Slack(r, u, pace, x)

\* r follows q, whose times were t, with an event more and no more delay.
Relined(r, q, n, k, t) ==
    \E u : Queued(r, n, k, u) /\ Settled(r, u) /\ Eased(r, u, q, t)

\* AddSpecial on a line that lost its SPECIAL_INT.
LEMMA SpecialLined ==
    ASSUME Hosted, NEW c \in Machine, Filed(c.q), "SPECIAL" \notin Types(c.q),
           NEW t, NEW l \in Nat, l < HalfRange, Origin(c) = U(c.count - l),
           Within(c.q, t, l), Queued(c.q, c.count, c.compare, t)
    PROVE  LET d == AddSpecial(c)
           IN  /\ Kept(d, c) /\ Filed(d.q) /\ Types(d.q) = Types(c.q) \cup {"SPECIAL"}
               /\ d.q # <<>> /\ Mirrored(d)
               /\ Relined(d.q, c.q, c.count, c.compare, t)
  <1>1. c.count \in Counts /\ c.count \in Int
    BY MachineInts
  <1>2. PICK w \in Int : /\ 0 < w /\ w <= HalfRange /\ OppositeHalf(c.count) = U(c.count + w)
                         /\ c.count < HalfRange => w = HalfRange - c.count
    BY <1>1, HalfAhead
  <1> DEFINE d == AddInterruptEventCount(c, "SPECIAL", U(c.count + w))
             u == [t EXCEPT !["SPECIAL"] = w]
  <1>3. AddSpecial(c) = d
    BY <1>2 DEF AddSpecial
  <1>4. 0 <= w /\ w < Modulus - l /\ "SPECIAL" \in EventTypes \ Types(c.q)
        /\ Timed(c.q, c.count, t)
    <2>1. HalfRange + l < Modulus
      BY HalfRangeAssumption DEF Modulus
    <2>2. "SPECIAL" \in EventTypes
      BY DEF EventTypes, CoreEvents
    <2> QED  BY <1>2, <2>1, <2>2, RangeLarge DEF Queued, Strung
  <1>5. ArmedAs(d, c, "SPECIAL", t, l, w)
    <2>1. Armable(c, "SPECIAL", t, l, w)
      BY <1>4 DEF Armable
    <2> QED  BY <2>1, Armed
  <1>7. /\ Kept(d, c) /\ Filed(d.q) /\ Types(d.q) = Types(c.q) \cup {"SPECIAL"}
        /\ d.q # <<>> /\ Mirrored(d)
        /\ Timed(d.q, c.count, u) /\ Settled(d.q, u)
        /\ u["SPECIAL"] = w /\ \A y \in EventTypes \ {"SPECIAL"} : u[y] = t[y]
    BY <1>5 DEF ArmedAs
  <1>8. \A pace \in Nat, x \in {0, 1} : Slack(c.q, t, pace, x) => Slack(d.q, u, pace, x)
    BY <1>5 DEF ArmedAs
  <1> HIDE DEF d, u
  <1>9. "VI" \in EventTypes \ {"SPECIAL"} /\ "COMPARE" \in EventTypes \ {"SPECIAL"}
    BY DEF Hosted, EventTypes, CoreEvents
  <1>10. Queued(d.q, c.count, c.compare, u)
    <2>1. Near(d.q, u)
      BY <1>2, <1>7, <1>9 DEF Near, Queued, Strung
    <2>2. Dark(d.q, c.count, u)
      BY <1>2, <1>7 DEF Dark
    <2>3. c.compare = U(c.count + u["COMPARE"]) /\ {"HW2", "NMI"} \cap Types(d.q) = {}
      BY <1>7, <1>9 DEF Queued, Strung
    <2>4. Spread(d.q, u)
      BY <1>7, SettledSpread
    <2> QED  BY <1>7, <2>1, <2>2, <2>3, <2>4 DEF Queued, Strung
  <1> QED  BY <1>3, <1>7, <1>8, <1>10 DEF Relined, Eased

\* A device's event, half a range ahead at most.
LEMMA DeviceLined ==
    ASSUME Hosted, NEW c \in Machine, Filed(c.q), NEW type \in Devices, type \notin Types(c.q),
           NEW t, NEW l \in Nat, l < HalfRange, Origin(c) = U(c.count - l),
           Within(c.q, t, l), Strung(c.q, c.count, c.compare, t),
           type # "VI" => Dark(c.q, c.count, t),
           NEW w \in Int, 0 <= w, w <= HalfRange
    PROVE  LET d == AddInterruptEventCount(c, type, U(c.count + w))
           IN  /\ Kept(d, c) /\ Filed(d.q) /\ Types(d.q) = Types(c.q) \cup {type}
               /\ d.q # <<>> /\ Mirrored(d)
               /\ Relined(d.q, c.q, c.count, c.compare, t)
  <1> DEFINE d == AddInterruptEventCount(c, type, U(c.count + w))
             u == [t EXCEPT ![type] = w]
  <1>1. 0 <= w /\ w < Modulus - l /\ type \in EventTypes \ Types(c.q) /\ type \notin CoreEvents
        /\ Timed(c.q, c.count, t)
    <2>1. HalfRange + l < Modulus
      BY HalfRangeAssumption DEF Modulus
    <2> QED  BY <2>1, DevicesApart, RangeLarge DEF Queued, Strung
  <1>2. ArmedAs(d, c, type, t, l, w)
    <2>1. Armable(c, type, t, l, w)
      BY <1>1 DEF Armable
    <2> QED  BY <2>1, Armed
  <1>4. /\ Kept(d, c) /\ Filed(d.q) /\ Types(d.q) = Types(c.q) \cup {type}
        /\ d.q # <<>> /\ Mirrored(d)
        /\ Timed(d.q, c.count, u) /\ Settled(d.q, u)
        /\ u[type] = w /\ \A y \in EventTypes \ {type} : u[y] = t[y]
    BY <1>2 DEF ArmedAs
  <1>5. \A pace \in Nat, x \in {0, 1} : Slack(c.q, t, pace, x) => Slack(d.q, u, pace, x)
    BY <1>2 DEF ArmedAs
  <1> HIDE DEF d, u
  <1>6. {"SPECIAL", "COMPARE", "HW2", "NMI"} \subseteq CoreEvents
        /\ {"SPECIAL", "COMPARE", "VI"} \subseteq EventTypes
    BY DEF Hosted, EventTypes, CoreEvents
  <1>7. type # "SPECIAL" /\ type # "COMPARE" /\ type # "HW2" /\ type # "NMI"
    BY <1>1, <1>6
  <1>8. Queued(d.q, c.count, c.compare, u)
    <2>1. Near(d.q, u)
      <3>1. "SPECIAL" \in Types(d.q) => u["SPECIAL"] <= HalfRange
        BY <1>4, <1>6, <1>7 DEF Near, Queued, Strung
      <3>2. "VI" \in Types(d.q) => u["VI"] <= HalfRange
        BY <1>4, <1>6, <1>7 DEF Near, Queued, Strung
      <3> QED  BY <3>1, <3>2 DEF Near
    <2>2. Dark(d.q, c.count, u)
      BY <1>4, <1>6, <1>7 DEF Dark, Queued, Strung
    <2>3. c.compare = U(c.count + u["COMPARE"]) /\ {"HW2", "NMI"} \cap Types(d.q) = {}
      BY <1>4, <1>6, <1>7 DEF Queued, Strung
    <2>4. Spread(d.q, u)
      BY <1>4, SettledSpread
    <2> QED  BY <1>4, <2>1, <2>2, <2>3, <2>4 DEF Queued, Strung
  <1> QED  BY <1>4, <1>5, <1>8 DEF d, Relined, Eased

\* COMPARE_INT, armed by AddCompare.
LEMMA CompareLined ==
    ASSUME Hosted, NEW c \in Machine, Filed(c.q), c.q # <<>>, "COMPARE" \notin Types(c.q),
           NEW t, NEW k, Queued(c.q, c.count, k, t),
           NEW v \in Int, c.cycle = -v, Recalled(c.q, t, v),
           CountPerOp - HalfRange < v, v <= HalfRange,
           NEW delta \in Int, delta = IF v < CountPerOp THEN v ELSE CountPerOp,
           NEW w \in Int, delta <= w, w < Modulus + delta
    PROVE  LET d == AddCompare(c, U(c.count + w))
               u == [t EXCEPT !["COMPARE"] = w]
           IN  /\ Kept(d, c) /\ Filed(d.q) /\ Types(d.q) = Types(c.q) \cup {"COMPARE"}
               /\ d.q # <<>> /\ Mirrored(d)
               /\ Queued(d.q, c.count, U(c.count + w), u)
               /\ 0 <= w => Eased(d.q, u, c.q, t)
               /\ -w <= MaxLate /\ Fresh(c.q, t) => Fresh(d.q, u)
  <1> DEFINE e == Event("COMPARE", U(c.count + w))
             d == AddCompare(c, U(c.count + w))
             u == [t EXCEPT !["COMPARE"] = w]
             n == Len(c.q)
  <1>1. Timed(c.q, c.count, t) /\ c.count \in Int /\ 0 \in Nat
        /\ "COMPARE" \in EventTypes \ Types(c.q)
    BY MachineInts DEF Queued, EventTypes, CoreEvents, Strung
  <1>2. /\ Kept(d, c) /\ Filed(d.q) /\ Types(d.q) = Types(c.q) \cup {"COMPARE"}
        /\ d.q # <<>> /\ Mirrored(d)
        /\ Timed(d.q, c.count, u) /\ Spread(d.q, u)
        /\ \E p \in 1 .. n + 1 :
              /\ d.q = InsertAt(c.q, p, e)
              /\ \A i \in 1 .. n : i < p => When(c.q, t, i) <= w
              /\ \A i \in 1 .. n : i >= p => w < When(c.q, t, i)
        /\ u["COMPARE"] = w /\ \A y \in EventTypes \ {"COMPARE"} : u[y] = t[y]
    <2>1. /\ Kept(d, c) /\ Filed(d.q) /\ Types(d.q) = Types(c.q) \cup {"COMPARE"}
          /\ d.q # <<>> /\ Mirrored(d)
      <3>1. U(c.count + w) \in Counts
        BY <1>1, CountType
      <3> QED  BY <3>1, CompareKept
    <2>4. /\ Timed(AddCompare(c, U(c.count + w)).q, c.count, [t EXCEPT !["COMPARE"] = w])
          /\ Spread(AddCompare(c, U(c.count + w)).q, [t EXCEPT !["COMPARE"] = w])
      BY <1>1, CompareArmed
    <2>2. LET f == AddCompare(c, U(c.count + w))
          IN  \E p \in 1 .. Len(c.q) + 1 :
                    /\ f.q = InsertAt(c.q, p, Event("COMPARE", U(c.count + w)))
                    /\ \A i \in 1 .. Len(c.q) : i < p => When(c.q, t, i) <= w
                    /\ \A i \in 1 .. Len(c.q) : i >= p => w < When(c.q, t, i)
      BY <1>1, CompareArmed
    <2>3. u["COMPARE"] = w /\ \A y \in EventTypes \ {"COMPARE"} : u[y] = t[y]
      BY <1>1 DEF Timed, Times
    <2> QED  BY <2>1, <2>2, <2>3, <2>4
  <1>3. PICK p \in 1 .. n + 1 :
              /\ d.q = InsertAt(c.q, p, e)
              /\ \A i \in 1 .. n : i < p => When(c.q, t, i) <= w
              /\ \A i \in 1 .. n : i >= p => w < When(c.q, t, i)
    BY <1>2
  <1> HIDE DEF d
  <1>4. ASSUME 0 <= w, NEW pace \in Nat, NEW x \in {0, 1}, Slack(c.q, t, pace, x)
        PROVE  Slack(d.q, u, pace, x)
    <2>1. Slack(InsertAt(c.q, p, Event("COMPARE", U(c.count + w))), [t EXCEPT !["COMPARE"] = w],
                pace, x)
      BY <1>1, <1>3, <1>4, SlackInsert
    <2> QED  BY <1>3, <2>1
  <1>5. Joined(d.q, u, c.q, t, p, e, w)
    <2>1. LET r == InsertAt(c.q, p, Event("COMPARE", U(c.count + w)))
          IN  Timed(r, c.count, u) /\ Joined(r, u, c.q, t, p, Event("COMPARE", U(c.count + w)), w)
      BY <1>1, <1>3, InsertTimed
    <2> QED  BY <1>3, <2>1
  <1> HIDE DEF u, e
  <1>6. ASSUME -w <= MaxLate, Fresh(c.q, t) PROVE Fresh(d.q, u)
    <2> SUFFICES ASSUME NEW i \in 1 .. n + 1 PROVE -When(d.q, u, i) <= MaxLate
      BY <1>5 DEF Fresh, Joined
    <2>1. i < p \/ i = p \/ i > p
      BY <1>3
    <2> QED  BY <1>5, <1>6, <2>1 DEF Fresh, Joined
  <1>7. Queued(d.q, c.count, U(c.count + w), u)
    <2>1. "SPECIAL" \in EventTypes \ {"COMPARE"} /\ "VI" \in EventTypes \ {"COMPARE"}
      BY DEF Hosted, EventTypes, CoreEvents
    <2>2. Near(d.q, u)
      BY <1>2, <2>1 DEF Near, Queued, Strung
    <2>3. Dark(d.q, c.count, u)
      BY <1>2, <2>1 DEF Dark, Queued, Strung
    <2>4. {"HW2", "NMI"} \cap Types(d.q) = {}
      BY <1>2 DEF Queued, Strung
    <2> QED  BY <1>2, <2>2, <2>3, <2>4 DEF Queued, Strung
  <1>8. 0 <= w => Eased(d.q, u, c.q, t)
    BY <1>4 DEF Eased
  <1> QED  BY <1>2, <1>6, <1>7, <1>8 DEF d, u

\* An event leaves the queue.
LEMMA LeaveLined ==
    ASSUME Hosted, NEW q, Filed(q), NEW n \in Int, NEW k, NEW t, Strung(q, n, k, t),
           NEW p \in 1 .. Len(q)
    PROVE  LET r == RemoveAt(q, p)
           IN  /\ Filed(r) /\ Types(r) = Types(q) \ {q[p].type}
               /\ Strung(r, n, k, t)
               /\ Dark(q, n, t) /\ q[p].type # "VI" => Dark(r, n, t)
               /\ Settled(q, t) => Settled(r, t)
               /\ Fresh(q, t) => Fresh(r, t)
               /\ \A l \in Nat : Within(q, t, l) => Within(r, t, l)
               /\ \A pace \in Nat : /\ Slack(q, t, pace, 0) => Slack(r, t, pace, 0)
                                    /\ p = 1 /\ Slack(q, t, pace, 1) => Slack(r, t, pace, 0)
               /\ \A i \in 1 .. Len(r) : When(q, t, 1) <= When(r, t, i)
  <1> DEFINE r == RemoveAt(q, p)
  <1>1. Timed(q, n, t) /\ Spread(q, t) /\ Near(q, t) /\ q # <<>>
    BY DEF Strung, Filed
  <1>2. Filed(r) /\ Types(r) = Types(q) \ {q[p].type}
    BY FiledRemove
  <1>3. /\ Timed(r, n, t)
        /\ Len(r) = Len(q) - 1 /\ Len(q) \in Nat
        /\ \A i \in 1 .. Len(q) - 1 :
              LET j == IF i < p THEN i ELSE i + 1
              IN  j \in 1 .. Len(q) /\ r[i] = q[j] /\ When(r, t, i) = When(q, t, j)
    BY <1>1, RemoveTimed
  <1>4. \A pace \in Nat : /\ Slack(q, t, pace, 0) => Slack(r, t, pace, 0)
                          /\ p = 1 /\ Slack(q, t, pace, 1) => Slack(r, t, pace, 0)
    BY <1>1, SlackRemove
  <1> HIDE DEF r
  <1>5. \A i \in 1 .. Len(r) : \E j \in 1 .. Len(q) : r[i] = q[j] /\ When(r, t, i) = When(q, t, j)
    BY <1>3
  <1>6. /\ When(q, t, 1) \in Int
        /\ \A j \in 1 .. Len(q) : When(q, t, j) \in Int /\ When(q, t, 1) <= When(q, t, j)
    BY <1>1, HeadFirst
  <1>7. \A i \in 1 .. Len(r) : 1 \in 1 .. Len(r) /\ When(r, t, i) \in Int
                               /\ When(q, t, 1) <= When(r, t, i)
    <2>1. \A i \in 1 .. Len(r) : 1 \in 1 .. Len(r)
      BY <1>2 DEF Filed
    <2> QED  BY <1>5, <1>6, <2>1
  <1>8. Spread(r, t) /\ (Settled(q, t) => Settled(r, t))
    <2> SUFFICES ASSUME NEW i \in 1 .. Len(r)
                 PROVE  /\ When(r, t, i) - When(r, t, 1) < Modulus
                        /\ \/ When(r, t, i) < Modulus
                           \/ r[i].type = "COMPARE" /\ When(r, t, i) < Modulus + CountPerOp
                        /\ Settled(q, t) => When(r, t, i) < Modulus
      BY DEF Spread, Settled
    <2>1. PICK j \in 1 .. Len(q) : r[i] = q[j] /\ When(r, t, i) = When(q, t, j)
      BY <1>5
    <2>2. /\ When(q, t, j) - When(q, t, 1) < Modulus
          /\ \/ When(q, t, j) < Modulus
             \/ q[j].type = "COMPARE" /\ When(q, t, j) < Modulus + CountPerOp
          /\ Settled(q, t) => When(q, t, j) < Modulus
      BY <1>1 DEF Spread, Settled
    <2>3. When(r, t, 1) \in Int /\ When(q, t, 1) <= When(r, t, 1)
      BY <1>7
    <2> QED  BY <1>6, <2>1, <2>2, <2>3, RangeLarge
  <1>9. Strung(r, n, k, t)
    BY <1>1, <1>2, <1>3, <1>8 DEF Strung, Near
  <1>10. Dark(q, n, t) /\ q[p].type # "VI" => Dark(r, n, t)
    BY <1>2 DEF Dark
  <1>11. Fresh(q, t) => Fresh(r, t)
    BY <1>5 DEF Fresh
  <1>12. \A l \in Nat : Within(q, t, l) => Within(r, t, l)
    BY <1>5 DEF Within
  <1>13. \A i \in 1 .. Len(r) : When(q, t, 1) <= When(r, t, i)
    BY <1>7
  <1> QED  BY <1>2, <1>4, <1>8, <1>9, <1>10, <1>11, <1>12, <1>13 DEF r

LEMMA TailRemoved == ASSUME NEW q, Filed(q), q # <<>> PROVE Tail(q) = RemoveAt(q, 1)
  <1>1. q \in Seq(Events) /\ Len(q) \in Nat /\ 1 \in 1 .. Len(q)
    BY HeadType DEF Filed
  <1> QED  BY <1>1 DEF RemoveAt

\* remove_interrupt_event: what the handlers find.
LEMMA PopLined ==
    ASSUME Hosted, NEW longest \in Nat, Paced(longest), NEW pace \in {0, longest},
           NEW c, Steady(c), NEW t, Lined(c, t, pace, 1), Settled(c.q, t),
           c.q[1].type = "SPECIAL" => "VI" \in Types(c.q)
    PROVE  LET d == RemoveInterruptEvent(c)
           IN  /\ Kept(d, c) /\ Filed(d.q) /\ Types(d.q) = Types(c.q) \ {c.q[1].type}
               /\ Mirrored(d) /\ d.q = RemoveAt(c.q, 1)
               /\ Strung(d.q, d.count, d.compare, t)
               /\ c.q[1].type # "VI" => Dark(d.q, d.count, t)
               /\ Settled(d.q, t) /\ Slack(d.q, t, pace, 0)
               /\ Headed(d, t) /\ When(c.q, t, 1) <= When(d.q, t, 1)
               /\ Within(d.q, t, Late(When(d.q, t, 1)))
  <1> DEFINE d == RemoveInterruptEvent(c)
             q == c.q
             type == q[1].type
  <1>1. /\ c \in Machine /\ Filed(q) /\ q # <<>> /\ "CHECK" \notin Types(q)
        /\ {"SPECIAL", "COMPARE"} \subseteq Types(q) /\ Line(c) = q /\ c.count \in Int
        /\ \E y \in Types(q) : y # type
    BY AnchoredHead, LineFacts, MachineInts DEF Steady, Sound
  <1>2. Kept(d, c) /\ Filed(d.q) /\ Types(d.q) = Types(q) \ {type} /\ d.q # <<>> /\ Mirrored(d)
    BY <1>1, PopKept
  <1>3. d.q = RemoveAt(q, 1)
    <2>1. d = Mirror([c EXCEPT !.q = Tail(q)])
      BY DEF RemoveInterruptEvent
    <2>2. Filed(Tail(q)) /\ Types(Tail(q)) = Types(q) \ {type} /\ Tail(q) = RemoveAt(q, 1)
      BY <1>1, FiledTail, TailRemoved
    <2> DEFINE s == Tail(q)
               f == [c EXCEPT !.q = s]
    <2>3. s # <<>>
      <3>1. PICK y \in Types(q) : y # type
        BY <1>1
      <3>2. y \in Types(s)
        BY <2>2, <3>1
      <3> HIDE DEF s
      <3> QED  BY <3>2 DEF Types
    <2>4. Kept(f, c) /\ f.q = s
      BY ZenonT(40), <1>1, <2>2, Requeued
    <2>5. d = Mirror(f)
      BY <2>1
    <2> HIDE DEF s, f, d
    <2>6. f \in Machine
      BY <2>4 DEF Kept
    <2>7. Mirror(f).q = f.q
      BY <2>2, <2>3, <2>4, <2>6, MirrorKept DEF s
    <2> QED  BY <2>2, <2>4, <2>5, <2>7 DEF s
  <1>4. /\ Strung(q, c.count, c.compare, t) /\ Dark(q, c.count, t) /\ Slack(q, t, pace, 1)
        /\ Timed(q, c.count, t)
    BY <1>1 DEF Lined, Queued, Strung
  <1> HIDE DEF d, q
  <1>5. 1 \in 1 .. Len(q) /\ pace \in Nat
    BY <1>1, HeadType
  <1>6. /\ Strung(d.q, c.count, c.compare, t) /\ Settled(d.q, t) /\ Slack(d.q, t, pace, 0)
        /\ type # "VI" => Dark(d.q, c.count, t)
        /\ \A i \in 1 .. Len(d.q) : When(q, t, 1) <= When(d.q, t, i)
    <2> DEFINE r == RemoveAt(q, 1)
    <2>1. /\ Strung(r, c.count, c.compare, t)
          /\ Dark(q, c.count, t) /\ q[1].type # "VI" => Dark(r, c.count, t)
          /\ Settled(q, t) => Settled(r, t)
          /\ \A y \in Nat : 1 = 1 /\ Slack(q, t, y, 1) => Slack(r, t, y, 0)
          /\ \A i \in 1 .. Len(r) : When(q, t, 1) <= When(r, t, i)
      BY <1>1, <1>4, <1>5, LeaveLined
    <2> HIDE DEF r
    <2>2. d.q = r
      BY <1>3 DEF r
    <2> QED  BY <1>4, <1>5, <2>1, <2>2 DEF q
  <1>7. d \in Machine /\ d.count = c.count /\ d.compare = c.compare
    BY <1>2 DEF Kept
  <1>8. Headed(d, t)
    <2>1. "SPECIAL" \in Types(d.q) \/ "VI" \in Types(d.q)
      BY <1>1, <1>2 DEF q
    <2>2. "CHECK" \notin Types(d.q)
      BY <1>1, <1>2
    <2> QED  BY <1>2, <1>6, <1>7, <2>1, <2>2, LineHead
  <1>9. When(q, t, 1) <= When(d.q, t, 1)
    BY <1>6, <1>8 DEF Headed
  <1>10. Within(d.q, t, Late(When(d.q, t, 1)))
    <2>1. Timed(d.q, c.count, t)
      BY <1>6 DEF Strung
    <2> QED  BY <1>1, <1>2, <1>6, <2>1, WithinLate
  <1> QED  BY <1>2, <1>3, <1>6, <1>7, <1>8, <1>9, <1>10 DEF d, q

\* The exceptions leave the queue, COUNT and COMPARE alone.
SameQueue(d, c) == Shaped(d) /\ d.q = c.q /\ d.count = c.count /\ d.compare = c.compare

LEMMA SameLine ==
    ASSUME NEW c, NEW d, SameQueue(d, c)
    PROVE  /\ Line(d) = Line(c) /\ d.count = c.count
           /\ \A t, pace, x : Lined(c, t, pace, x) => Lined(d, t, pace, x)
  BY DEF SameQueue, Lined, Line

LEMMA MachineShaped == ASSUME NEW c \in Machine PROVE Shaped(c)
  BY DEF Machine, Shaped, Fields

LEMMA TakenSame ==
    ASSUME NEW c, Shaped(c), NEW slot \in BOOLEAN
    PROVE  /\ SameQueue(ExceptionGeneral(c, slot), c)
           /\ SameQueue(TakeInterrupt(c, slot), c)
  <1>1. ASSUME NEW b, Shaped(b) PROVE SameQueue(ExceptionGeneral(b, slot), b)
    <2> DEFINE e == [b EXCEPT !.exl = TRUE]
               f == [e EXCEPT !.skip = TRUE, !.next = 0, !.cycle = 0]
    <2>1. SameQueue(e, b)
      BY <1>1 DEF SameQueue, Shaped, Fields
    <2> HIDE DEF e
    <2>2. SameQueue(f, b)
      BY <2>1 DEF SameQueue, Shaped, Fields
    <2> HIDE DEF f
    <2>3. ExceptionGeneral(b, slot) = IF slot THEN f ELSE e
      BY DEF ExceptionGeneral, e, f
    <2> QED  BY <2>1, <2>2, <2>3
  <1> DEFINE b == [c EXCEPT !.spurious = @ \/ ~Deliverable(c)]
  <1>2. SameQueue(b, c)
    BY DEF SameQueue, Shaped, Fields
  <1> HIDE DEF b
  <1>3. TakeInterrupt(c, slot) = ExceptionGeneral(b, slot)
    BY DEF TakeInterrupt, b
  <1>4. SameQueue(ExceptionGeneral(b, slot), b)
    BY <1>1, <1>2 DEF SameQueue
  <1> QED  BY <1>1, <1>2, <1>3, <1>4 DEF SameQueue

LEMMA RaisedSame ==
    ASSUME NEW c, Shaped(c), NEW line, NEW slot \in BOOLEAN
    PROVE  /\ SameQueue(RaiseMaskableInterrupt(c, line, slot), c)
           /\ SameQueue(RaiseRcpInterrupt(c, line, slot), c)
  <1>1. ASSUME NEW b, Shaped(b), NEW h PROVE SameQueue(RaiseMaskableInterrupt(b, h, slot), b)
    <2> DEFINE f == [b EXCEPT !.ip = @ \cup {h}]
    <2>1. SameQueue(f, b)
      BY <1>1 DEF SameQueue, Shaped, Fields
    <2> HIDE DEF f
    <2>2. SameQueue(TakeInterrupt(f, slot), f)
      BY <2>1, TakenSame DEF SameQueue
    <2>3. RaiseMaskableInterrupt(b, h, slot)
            = IF Deliverable(f) THEN TakeInterrupt(f, slot) ELSE f
      BY DEF RaiseMaskableInterrupt, f
    <2> QED  BY <2>1, <2>2, <2>3 DEF SameQueue
  <1> DEFINE f == [c EXCEPT !.intr = @ \cup {line}]
  <1>2. SameQueue(f, c)
    BY DEF SameQueue, Shaped, Fields
  <1> HIDE DEF f
  <1>3. SameQueue(RaiseMaskableInterrupt(f, "IP2", slot), f)
    BY <1>1, <1>2 DEF SameQueue
  <1>4. RaiseRcpInterrupt(c, line, slot)
          = IF f.intr \cap f.mask # {} THEN RaiseMaskableInterrupt(f, "IP2", slot) ELSE f
    BY DEF RaiseRcpInterrupt, f
  <1> QED  BY <1>1, <1>2, <1>3, <1>4 DEF SameQueue

\* VI is armed again a period after it was due.
LEMMA ViLined ==
    ASSUME Hosted, NEW longest \in Nat, Paced(longest), NEW pace \in {0, longest},
           NEW c, Steady(c), NEW t, Lined(c, t, pace, 1), Settled(c.q, t),
           c.q[1].type = "VI", When(c.q, t, 1) <= 0, NEW slot \in BOOLEAN
    PROVE  LET d == ViVerticalInterruptEvent(c, slot)
           IN  (\E u : Lined(d, u, pace, 0)) /\ Screened(Line(d), d.count)
  <1> DEFINE yielded == [c EXCEPT !.frame = TRUE]
             found   == GetEvent(c.q, "VI")
             next_vi == U(c.q[Min(found)].count + VIDelay)
             popped  == RemoveInterruptEvent(yielded)
             armed   == AddInterruptEventCount(popped, "VI", next_vi)
             d       == ViVerticalInterruptEvent(c, slot)
             v       == When(c.q, t, 1)
             w       == v + VIDelay
  <1>1. /\ c \in Machine /\ Filed(c.q) /\ c.q # <<>> /\ "CHECK" \notin Types(c.q) /\ Mirrored(c)
        /\ "SPECIAL" \in Types(c.q) /\ Line(c) = c.q /\ 1 \in 1 .. Len(c.q)
    BY AnchoredHead, LineFacts, HeadType DEF Steady, Sound
  <1>2. Strung(c.q, c.count, c.compare, t) /\ Slack(c.q, t, pace, 1)
    BY <1>1 DEF Lined, Queued
  <1>3. v \in Int /\ -v <= LateBound + longest
    <2>1. Headed(c, t) /\ -v <= LateBound + longest
      BY <1>1, <1>2, LineHead
    <2> QED  BY <2>1 DEF Headed
  <1>4. w \in Int /\ 0 <= w /\ w <= HalfRange
    <2>1. LateBound + longest <= VIDelay /\ VIDelay <= HalfRange /\ VIDelay \in Nat
          /\ LateBound \in Nat
      BY LateAssumption, DelaysAssumption DEF Paced
    <2> QED  BY <1>3, <2>1, RangeLarge
  <1>5. next_vi = U(c.count + w)
    <2>1. found = {1}
      <3>1. DOMAIN c.q = 1 .. Len(c.q)
        BY <1>1 DEF Filed
      <3>2. \A i \in 1 .. Len(c.q) : c.q[i].type = "VI" => i = 1
        BY <1>1 DEF Filed
      <3> QED  BY <1>1, <3>1, <3>2 DEF GetEvent
    <2>2. Min(found) = 1
      <3>1. {1} \in SUBSET Nat /\ {1} # {}
        OBVIOUS
      <3>2. Min({1}) \in {1}
        BY <3>1, LeastOf
      <3> QED  BY <2>1, <3>2
    <2>3. c.q[1].count = U(c.count + v)
      BY <1>1, <1>2 DEF Strung, Timed
    <2> DEFINE a == c.count + v
    <2>4. a \in Int /\ VIDelay \in Int /\ a + VIDelay = c.count + w
      BY <1>1, <1>3, MachineInts, DelaysAssumption
    <2>5. U(U(a) + VIDelay) = U(a + VIDelay)
      <3> HIDE DEF a
      <3> QED  BY <2>4, WrapSum
    <2> HIDE DEF w
    <2> QED  BY <2>2, <2>3, <2>4, <2>5
  <1>6. d = RaiseRcpInterrupt(armed, "VI", slot)
    BY DEF ViVerticalInterruptEvent
  <1> HIDE DEF next_vi, d
  <1>7. /\ yielded \in Machine /\ yielded.q = c.q /\ yielded.count = c.count
        /\ yielded.next = c.next /\ yielded.cycle = c.cycle /\ yielded.skip = c.skip
        /\ yielded.dropped = c.dropped /\ yielded.early = c.early
        /\ yielded.spurious = c.spurious /\ yielded.compare = c.compare
    BY <1>1 DEF Machine
  <1> HIDE DEF yielded
  <1>8. Steady(yielded) /\ Lined(yielded, t, pace, 1)
    <2>1. Steady(yielded)
      BY <1>1, <1>7, RegistersSteady
    <2>2. Line(yielded) = Line(c)
      BY <1>7 DEF Line
    <2> QED  BY <1>7, <2>1, <2>2 DEF Lined
  <1>9. /\ Kept(popped, yielded) /\ Filed(popped.q) /\ Types(popped.q) = Types(c.q) \ {"VI"}
        /\ Strung(popped.q, popped.count, popped.compare, t)
        /\ Slack(popped.q, t, pace, 0)
        /\ Headed(popped, t)
        /\ Within(popped.q, t, Late(When(popped.q, t, 1)))
    <2>1. yielded.q[1].type = "SPECIAL" => "VI" \in Types(yielded.q)
      BY <1>7
    <2> QED  BY <1>7, <1>8, <2>1, PopLined
  <1> HIDE DEF popped, w
  <1>10. popped \in Machine /\ popped.count = c.count /\ popped.compare = c.compare
    BY <1>7, <1>9 DEF Kept
  <1>11. "VI" \in Devices /\ "VI" \notin Types(popped.q)
    BY <1>9 DEF Hosted
  <1>12. /\ Kept(armed, popped) /\ Types(armed.q) = Types(popped.q) \cup {"VI"} /\ Filed(armed.q)
         /\ armed.q # <<>>
         /\ \E u : /\ Queued(armed.q, popped.count, popped.compare, u)
                   /\ Slack(armed.q, u, pace, 0)
    <2> DEFINE l == Late(When(popped.q, t, 1))
    <2>1. l \in Nat /\ l < HalfRange /\ Origin(popped) = U(popped.count - l)
          /\ Within(popped.q, t, l)
      BY <1>9 DEF Headed
    <2> HIDE DEF l
    <2>2. armed = AddInterruptEventCount(popped, "VI", U(popped.count + w))
      BY <1>5, <1>10
    <2>3. /\ Kept(armed, popped) /\ Filed(armed.q) /\ Types(armed.q) = Types(popped.q) \cup {"VI"}
          /\ armed.q # <<>> /\ Mirrored(armed)
          /\ Relined(armed.q, popped.q, popped.count, popped.compare, t)
      <3>1. LET f == AddInterruptEventCount(popped, "VI", U(popped.count + w))
            IN  /\ Kept(f, popped) /\ Filed(f.q) /\ Types(f.q) = Types(popped.q) \cup {"VI"}
                /\ f.q # <<>> /\ Mirrored(f)
                /\ Relined(f.q, popped.q, popped.count, popped.compare, t)
        BY <1>4, <1>9, <1>10, <1>11, <2>1, DeviceLined
      <3> QED  BY <2>2, <3>1
    <2>4. pace \in Nat /\ 0 \in {0, 1}
      OBVIOUS
    <2> QED  BY <1>9, <2>3, <2>4 DEF Relined, Eased
  <1> HIDE DEF armed
  <1>13. armed \in Machine /\ "CHECK" \notin Types(armed.q) /\ armed.count = popped.count
         /\ armed.compare = popped.compare
    BY <1>1, <1>9, <1>12 DEF Kept
  <1>14. Line(armed) = armed.q
    BY <1>12, <1>13, LineOf
  <1>15. SameQueue(d, armed)
    BY <1>6, <1>13, MachineShaped, RaisedSame
  <1>16. \E u : Lined(armed, u, pace, 0)
    BY <1>12, <1>13, <1>14 DEF Lined
  <1>17. Screened(Line(d), d.count)
    BY <1>12, <1>14, <1>15, SameLine DEF Screened
  <1> QED  BY <1>15, <1>16, <1>17, SameLine DEF d

\* A device's event is served.
LEMMA PoppedLined ==
    ASSUME Hosted, NEW longest \in Nat, Paced(longest), NEW pace \in {0, longest},
           NEW c, Steady(c), NEW t, Lined(c, t, pace, 1), Settled(c.q, t),
           c.q[1].type \notin {"SPECIAL", "VI"}, Screened(c.q, c.count)
    PROVE  LET d == RemoveInterruptEvent(c)
           IN  Lined(d, t, pace, 0) /\ Screened(Line(d), d.count) /\ Line(d) = d.q /\ Shaped(d)
  <1> DEFINE d == RemoveInterruptEvent(c)
  <1>1. "CHECK" \notin Types(c.q)
    BY DEF Steady
  <1>2. /\ Kept(d, c) /\ Filed(d.q) /\ Types(d.q) = Types(c.q) \ {c.q[1].type}
        /\ Strung(d.q, d.count, d.compare, t)
        /\ c.q[1].type # "VI" => Dark(d.q, d.count, t)
        /\ Slack(d.q, t, pace, 0)
        /\ Headed(d, t)
    BY PopLined
  <1> HIDE DEF d
  <1>3. Line(d) = d.q
    BY <1>1, <1>2, LineOf DEF Headed
  <1>4. Shaped(d) /\ d.count = c.count
    BY <1>2, MachineShaped DEF Kept
  <1>5. Screened(d.q, d.count)
    BY <1>2, <1>4 DEF Screened
  <1>6. Lined(d, t, pace, 0)
    BY <1>2, <1>3 DEF Lined, Queued
  <1> QED  BY <1>3, <1>4, <1>5, <1>6 DEF d

\* SPECIAL_INT is armed for the other half of the range; VI is queued by then.
LEMMA SpecialHandled ==
    ASSUME Hosted, NEW longest \in Nat, Paced(longest), NEW pace \in {0, longest},
           NEW c, Steady(c), NEW t, Lined(c, t, pace, 1), Settled(c.q, t),
           c.q[1].type = "SPECIAL", When(c.q, t, 1) <= 0, Screened(c.q, c.count)
    PROVE  LET d == SpecialIntHandler(c)
           IN  (\E u : Lined(d, u, pace, 0)) /\ Screened(Line(d), d.count)
  <1> DEFINE popped == RemoveInterruptEvent(c)
             d      == AddSpecial(popped)
  <1>1. /\ c \in Machine /\ Filed(c.q) /\ c.q # <<>> /\ "CHECK" \notin Types(c.q)
        /\ "SPECIAL" \in Types(c.q) /\ Line(c) = c.q /\ 1 \in 1 .. Len(c.q)
        /\ c.count \in Counts /\ c.count \in Int
    BY AnchoredHead, LineFacts, HeadType, MachineInts DEF Steady, Sound
  <1>2. "VI" \in Types(c.q)
    <2> SUFFICES ASSUME "VI" \notin Types(c.q) PROVE FALSE
      OBVIOUS
    <2>1. c.count < HalfRange
      BY DEF Screened
    <2>2. t["SPECIAL"] = HalfRange - c.count
      BY <1>1, <2>1 DEF Lined, Queued, Dark
    <2>3. t["SPECIAL"] <= 0
      BY DEF When
    <2> QED  BY <1>1, <2>1, <2>2, <2>3, RangeLarge
  <1>3. /\ Kept(popped, c) /\ Filed(popped.q) /\ Types(popped.q) = Types(c.q) \ {"SPECIAL"}
        /\ Strung(popped.q, popped.count, popped.compare, t)
        /\ Dark(popped.q, popped.count, t)
        /\ Slack(popped.q, t, pace, 0)
        /\ Headed(popped, t)
        /\ Within(popped.q, t, Late(When(popped.q, t, 1)))
    <2>1. c.q[1].type = "SPECIAL" => "VI" \in Types(c.q)
      BY <1>2
    <2>2. c.q[1].type # "VI"
      OBVIOUS
    <2> QED  BY <2>1, <2>2, PopLined
  <1>4. SpecialIntHandler(c) = d
    BY DEF SpecialIntHandler
  <1> HIDE DEF popped
  <1>5. popped \in Machine /\ "SPECIAL" \notin Types(popped.q) /\ popped.count = c.count
        /\ Queued(popped.q, popped.count, popped.compare, t)
    BY <1>3 DEF Kept, Queued
  <1>6. /\ Kept(d, popped) /\ Filed(d.q) /\ Types(d.q) = Types(popped.q) \cup {"SPECIAL"}
        /\ d.q # <<>> /\ Mirrored(d)
        /\ Relined(d.q, popped.q, popped.count, popped.compare, t)
    <2> DEFINE l == Late(When(popped.q, t, 1))
    <2>1. l \in Nat /\ l < HalfRange /\ Origin(popped) = U(popped.count - l)
          /\ Within(popped.q, t, l)
      BY <1>3 DEF Headed
    <2> HIDE DEF l
    <2> QED  BY <1>3, <1>5, <2>1, SpecialLined
  <1> HIDE DEF d
  <1>7. d.count = popped.count /\ d.compare = popped.compare /\ "CHECK" \notin Types(d.q)
        /\ "VI" \in Types(d.q)
    BY <1>1, <1>2, <1>3, <1>6 DEF Kept
  <1>8. Line(d) = d.q
    BY <1>6, <1>7, LineOf
  <1>9. \E u : Queued(d.q, popped.count, popped.compare, u) /\ Slack(d.q, u, pace, 0)
    <2>1. pace \in Nat /\ 0 \in {0, 1}
      OBVIOUS
    <2> QED  BY <1>3, <1>6, <2>1 DEF Relined, Eased
  <1> QED  BY <1>4, <1>7, <1>8, <1>9 DEF Lined, Screened

\* COMPARE_INT is armed a full range of COUNT later, or at once again when the next
\* event is due at the very same time.
LEMMA CompareHandled ==
    ASSUME Hosted, NEW longest \in Nat, Paced(longest), NEW pace \in {0, longest},
           NEW c, Steady(c), NEW t, Lined(c, t, pace, 1), Settled(c.q, t),
           c.q[1].type = "COMPARE", When(c.q, t, 1) <= 0, Screened(c.q, c.count),
           NEW slot \in BOOLEAN
    PROVE  LET d == CompareIntHandler(RemoveInterruptEvent(c), slot)
           IN  (\E u : Lined(d, u, pace, 0)) /\ Screened(Line(d), d.count)
  <1> DEFINE popped == RemoveInterruptEvent(c)
             armed  == AddCompare(popped, popped.compare)
             d      == CompareIntHandler(popped, slot)
             v      == When(c.q, t, 1)
             x      == When(popped.q, t, 1)
             delta  == IF x < CountPerOp THEN x ELSE CountPerOp
  <1>1. /\ c \in Machine /\ Filed(c.q) /\ c.q # <<>> /\ "CHECK" \notin Types(c.q)
        /\ Line(c) = c.q /\ 1 \in 1 .. Len(c.q) /\ c.count \in Int /\ Mirrored(c)
        /\ "SPECIAL" \in Types(c.q)
    BY AnchoredHead, LineFacts, HeadType, MachineInts DEF Steady, Sound
  <1>2. /\ Kept(popped, c) /\ Filed(popped.q) /\ Types(popped.q) = Types(c.q) \ {"COMPARE"}
        /\ Mirrored(popped) /\ popped.q = RemoveAt(c.q, 1)
        /\ Strung(popped.q, popped.count, popped.compare, t)
        /\ Dark(popped.q, popped.count, t) /\ Settled(popped.q, t)
        /\ Slack(popped.q, t, pace, 0)
        /\ Headed(popped, t) /\ v <= x
    <2>1. c.q[1].type # "VI" /\ c.q[1].type # "SPECIAL"
      OBVIOUS
    <2> QED  BY <2>1, PopLined
  <1>3. d = RaiseMaskableInterrupt(armed, "IP7", slot)
    BY DEF CompareIntHandler
  <1> HIDE DEF popped, d
  <1>4. popped \in Machine /\ popped.count = c.count /\ popped.compare = c.compare
        /\ "COMPARE" \notin Types(popped.q) /\ popped.q # <<>> /\ pace \in Nat
        /\ Queued(popped.q, popped.count, popped.compare, t)
    BY <1>2 DEF Kept, Headed, Queued
  <1>5. /\ x \in Int /\ CountPerOp - HalfRange < x /\ x <= HalfRange /\ popped.cycle = -x
        /\ Recalled(popped.q, t, x)
    <2>1. Timed(popped.q, popped.count, t)
      BY <1>2 DEF Strung
    <2> QED  BY <1>2, <1>4, <2>1, HeadRecalled DEF Headed
  <1>6. v \in Int /\ CountPerOp - HalfRange < v
    <2>1. Strung(c.q, c.count, c.compare, t) /\ Slack(c.q, t, pace, 1)
      BY <1>1 DEF Lined, Queued
    <2>2. Headed(c, t)
      BY <1>1, <2>1, LineHead
    <2> QED  BY <2>2 DEF Headed
  <1>7. c.compare = U(c.count + v) /\ t \in Times
    BY <1>1 DEF Lined, Queued, Strung, When, Timed
  <1>8. CountPerOp \in Nat /\ CountPerOp > 0 /\ Modulus \in Int /\ HalfRange \in Int
        /\ Modulus = HalfRange + HalfRange /\ HalfRange > 1 /\ CountPerOp < HalfRange
    <2>1. LateBound + longest + CountPerOp < HalfRange /\ LateBound \in Nat
      BY LateAssumption DEF Paced
    <2> QED  BY <2>1, CountPerOpAssumption, HalfRangeAssumption DEF Modulus
  <1>9. delta \in Int /\ delta = IF x < CountPerOp THEN x ELSE CountPerOp
    BY <1>5, <1>8
  <1> HIDE DEF armed, v, x, delta
  <1>10. \E u : Queued(armed.q, c.count, c.compare, u) /\ Slack(armed.q, u, pace, 0)
    <2>1. CASE v < x
      <3> DEFINE w == v + Modulus
      <3>1. w \in Int /\ 0 <= w /\ delta <= w /\ w < Modulus + delta
        BY <1>2, <1>5, <1>6, <1>8, <1>9, <2>1 DEF v
      <3>2. U(popped.count + w) = popped.compare
        <4> DEFINE y == c.count + v
        <4>1. y \in Int /\ c.count + w = y + Modulus
          BY <1>1, <1>6, <1>8
        <4>2. U(y + Modulus) = U(y)
          <5> HIDE DEF y
          <5>1. y + 1 * Modulus = y + Modulus /\ 1 \in Int
            BY <1>8, <4>1
          <5>2. (y + 1 * Modulus) % Modulus = y % Modulus
            BY <4>1, <5>1, SameTurns
          <5> QED  BY <5>1, <5>2 DEF U
        <4> QED  BY <1>4, <1>7, <4>1, <4>2
      <3> HIDE DEF w
      <3>3. /\ Queued(AddCompare(popped, U(popped.count + w)).q, popped.count,
                      U(popped.count + w), [t EXCEPT !["COMPARE"] = w])
            /\ 0 <= w => Eased(AddCompare(popped, U(popped.count + w)).q,
                               [t EXCEPT !["COMPARE"] = w], popped.q, t)
        BY <1>2, <1>4, <1>5, <1>9, <3>1, CompareLined
      <3> QED  BY <1>2, <1>4, <3>1, <3>2, <3>3 DEF armed, Eased
    <2>2. CASE ~(v < x)
      <3>1. v = x /\ x <= 0
        BY <1>2, <1>5, <1>6, <2>2 DEF v
      <3> DEFINE w == v
      <3>2. w \in Int /\ delta <= w /\ w < Modulus + delta
        BY <1>6, <1>8, <1>9, <3>1
      <3>3. U(popped.count + w) = popped.compare
        BY <1>4, <1>7
      <3> HIDE DEF w
      <3>4. Queued(AddCompare(popped, U(popped.count + w)).q, popped.count,
                   U(popped.count + w), [t EXCEPT !["COMPARE"] = w])
        BY <1>2, <1>4, <1>5, <1>9, <3>2, CompareLined
      <3>5. \E p \in 1 .. Len(popped.q) + 1 :
               /\ AddCompare(popped, U(popped.count + w)).q
                    = InsertAt(popped.q, p, Event("COMPARE", U(popped.count + w)))
               /\ \A i \in 1 .. Len(popped.q) : i < p => When(popped.q, t, i) <= w
               /\ \A i \in 1 .. Len(popped.q) : i >= p => w < When(popped.q, t, i)
        <4>1. Timed(popped.q, popped.count, t)
          BY <1>2 DEF Strung
        <4> QED  BY <1>2, <1>4, <1>5, <1>9, <3>2, <4>1, CompareArmed
      <3>6. PICK p \in 1 .. Len(popped.q) + 1 :
               /\ armed.q = InsertAt(popped.q, p, Event("COMPARE", U(popped.count + w)))
               /\ \A i \in 1 .. Len(popped.q) : i < p => When(popped.q, t, i) <= w
               /\ \A i \in 1 .. Len(popped.q) : i >= p => w < When(popped.q, t, i)
        BY <3>3, <3>5 DEF armed
      <3>7. Slack(InsertAt(popped.q, p, Event("COMPARE", U(c.count + w))),
                  [t EXCEPT !["COMPARE"] = w], pace, 0)
        <4>1. Timed(c.q, c.count, t) /\ Slack(c.q, t, pace, 1)
          BY <1>1 DEF Lined, Queued, Strung
        <4>2. 2 \in 1 .. Len(c.q) /\ When(c.q, t, 2) = w /\ When(c.q, t, 1) = w
          <5>1. c.q \in Seq(Events) /\ Len(c.q) \in Nat
            BY <1>1 DEF Filed
          <5>2. Len(popped.q) = Len(c.q) - 1
                /\ \A i \in 1 .. Len(c.q) - 1 :
                      popped.q[i] = IF i < 1 THEN c.q[i] ELSE c.q[i + 1]
            <6>1. Len(RemoveAt(c.q, 1)) = Len(c.q) - 1
                  /\ \A i \in 1 .. Len(c.q) - 1 :
                        RemoveAt(c.q, 1)[i] = IF i < 1 THEN c.q[i] ELSE c.q[i + 1]
              BY <1>1, <5>1, Removed
            <6> QED  BY <1>2, <6>1
          <5>3. 1 \in 1 .. Len(popped.q)
            BY <1>2 DEF Headed
          <5>4. 1 \in 1 .. Len(c.q) - 1 /\ 2 \in 1 .. Len(c.q)
            BY <5>1, <5>2, <5>3
          <5>5. popped.q[1] = c.q[2]
            BY <5>2, <5>4
          <5>6. When(c.q, t, 2) = x
            BY <5>5 DEF When, x
          <5> QED  BY <3>1, <5>4, <5>6 DEF v, w
        <4> QED  BY <1>1, <1>2, <1>4, <3>2, <3>6, <4>1, <4>2, SlackAgain
      <3>8. Queued(armed.q, c.count, c.compare, [t EXCEPT !["COMPARE"] = w])
        BY <1>4, <3>3, <3>4 DEF armed
      <3> QED  BY <1>4, <3>6, <3>7, <3>8
    <2> QED  BY <2>1, <2>2
  <1>11. /\ Kept(armed, popped) /\ Filed(armed.q) /\ armed.q # <<>>
         /\ Types(armed.q) = Types(popped.q) \cup {"COMPARE"}
    <2>1. popped.compare \in Counts
      BY <1>4, MachineInts
    <2> QED  BY <1>2, <1>4, <2>1, CompareKept DEF armed
  <1>12. armed \in Machine /\ armed.count = c.count /\ armed.compare = c.compare
         /\ "CHECK" \notin Types(armed.q)
    BY <1>1, <1>2, <1>4, <1>11 DEF Kept
  <1>13. Line(armed) = armed.q
    BY <1>11, <1>12, LineOf
  <1>14. SameQueue(d, armed)
    BY <1>3, <1>12, MachineShaped, RaisedSame
  <1>15. \E u : Lined(armed, u, pace, 0)
    BY <1>10, <1>12, <1>13 DEF Lined
  <1>16. Screened(Line(d), d.count)
    <2>1. Screened(armed.q, armed.count)
      BY <1>2, <1>11, <1>12 DEF Screened
    <2> QED  BY <1>13, <1>14, <2>1, SameLine
  <1> QED  BY <1>14, <1>15, <1>16, SameLine DEF d, popped

\* poweron_device arms the two anchors.
LEMMA InitLined ==
    ASSUME Hosted, NEW longest \in Nat, Paced(longest), NEW pace \in Nat,
           NEW c \in Machine, c.count = PowerOnCount, c.cycle = 0, c.compare = 0
    PROVE  LET d == InitInterrupt(c)
           IN  (\E u : Lined(d, u, pace, 0)) /\ Screened(Line(d), d.count)
  <1> DEFINE cleared == ClearQueue(c)
             one     == AddInterruptEventCount(cleared, "SPECIAL", HalfRange)
             two     == AddInterruptEventCount(one, "COMPARE", 0)
             v       == HalfRange - PowerOnCount
             zero    == [x \in EventTypes |-> 0]
  <1>1. Filed(<<>>) /\ Types(<<>>) = {}
    BY DEF Filed, Types
  <1>l. PICK l \in Nat : l = 0
    OBVIOUS
  <1>2. Kept(cleared, c) /\ cleared.q = <<>> /\ cleared.cycle = c.cycle
    BY <1>1, Requeued DEF ClearQueue
  <1> HIDE DEF cleared
  <1>3. cleared \in Machine /\ cleared.count = PowerOnCount /\ cleared.compare = 0
    BY <1>2 DEF Kept
  <1>4. v \in Int /\ 0 < v /\ v <= HalfRange /\ PowerOnCount + v = HalfRange
        /\ PowerOnCount \in Counts /\ PowerOnCount \in Int /\ v < Modulus
        /\ PowerOnCount < HalfRange
    BY PowerOnAssumption, HalfRangeAssumption DEF Paced, Counts, Modulus
  <1>5. HalfRange \in Counts /\ 0 \in Counts
        /\ {"SPECIAL", "COMPARE"} \subseteq EventTypes
    BY RangeLarge DEF Counts, EventTypes, CoreEvents
  <1>6. U(PowerOnCount + v) = HalfRange
    BY <1>4, <1>5, WrapSmall
  <1> HIDE DEF v
  <1>7. Origin(cleared) = PowerOnCount /\ U(PowerOnCount - 0) = PowerOnCount
    BY <1>2, <1>3, <1>4, WrapSmall DEF Origin
  <1>8. /\ Timed(cleared.q, cleared.count, zero) /\ Within(cleared.q, zero, 0)
        /\ Slack(cleared.q, zero, pace, 0)
    BY <1>2 DEF Timed, Within, Slack, Times
  <1> HIDE DEF zero
  <1> DEFINE t == [zero EXCEPT !["SPECIAL"] = v]
  <1>9. /\ Kept(one, cleared) /\ Filed(one.q) /\ Types(one.q) = {"SPECIAL"}
        /\ one.q # <<>> /\ Mirrored(one)
        /\ Timed(one.q, PowerOnCount, t) /\ Within(one.q, t, 0)
        /\ Slack(one.q, t, pace, 0)
        /\ t["SPECIAL"] = v
    <2>1. /\ Filed(cleared.q) /\ "SPECIAL" \in EventTypes \ Types(cleared.q)
          /\ Origin(cleared) = U(cleared.count - l) /\ 0 <= v /\ v < Modulus - l
          /\ Within(cleared.q, zero, l) /\ Timed(cleared.q, cleared.count, zero)
      BY <1>1, <1>2, <1>3, <1>4, <1>5, <1>7, <1>8, <1>l, RangeLarge
    <2>2. ArmedAs(AddInterruptEventCount(cleared, "SPECIAL", U(cleared.count + v)),
                  cleared, "SPECIAL", zero, l, v)
      <3>1. Armable(cleared, "SPECIAL", zero, l, v)
        BY <1>3, <1>4, <2>1 DEF Armable
      <3> HIDE DEF one, two, t
      <3> QED  BY <3>1, Armed
    <2>3. U(cleared.count + v) = HalfRange /\ Types(cleared.q) \cup {"SPECIAL"} = {"SPECIAL"}
          /\ 0 \in {0, 1}
      BY <1>1, <1>2, <1>3, <1>6
    <2> QED  BY <1>3, <1>8, <1>l, <2>1, <2>2, <2>3 DEF ArmedAs
  <1> HIDE DEF one, t
  <1>10. one \in Machine /\ one.count = PowerOnCount /\ one.compare = 0
         /\ "COMPARE" \in EventTypes \ Types(one.q)
    BY <1>3, <1>5, <1>9 DEF Kept
  <1>11. Origin(one) = U(one.count - 0)
    <2>1. 1 \in 1 .. Len(one.q) /\ one.q[1].type \in Types(one.q)
      BY <1>9, HeadType
    <2>2. When(one.q, t, 1) = v
      BY <1>9, <2>1 DEF When
    <2>3. one.q[1].count = U(one.count + v)
      BY <1>9, <1>10, <2>1, <2>2 DEF Timed
    <2>4. one.cycle = -v
      BY <1>4, <1>9, <1>10, <2>3, RangeLarge, CycleOf
    <2>5. ~(one.cycle > 0)
      BY <1>4, <2>4
    <2> QED  BY <1>7, <1>10, <2>5 DEF Origin
  <1>12. PICK w \in Int : 0 <= w /\ w < Modulus + 0 /\ 0 = U(PowerOnCount + w)
    <2>1. l \in Int
      OBVIOUS
    <2>2. \E w \in Int : l <= w /\ w < Modulus + l /\ 0 = U(PowerOnCount + w)
      BY ZenonT(40), <1>4, <1>5, <2>1, TimeOf
    <2> QED  BY <1>l, <2>2
  <1> DEFINE u == [t EXCEPT !["COMPARE"] = w]
  <1>13. /\ Kept(two, one) /\ Filed(two.q) /\ Types(two.q) = Types(one.q) \cup {"COMPARE"}
         /\ two.q # <<>> /\ Mirrored(two)
         /\ Timed(two.q, PowerOnCount, u) /\ Settled(two.q, u) /\ Slack(two.q, u, pace, 0)
         /\ u["COMPARE"] = w /\ u["SPECIAL"] = v
    <2>1. Timed(one.q, one.count, t) /\ Within(one.q, t, l) /\ Origin(one) = U(one.count - l)
          /\ 0 <= w /\ w < Modulus - l
      BY <1>9, <1>10, <1>11, <1>12, <1>l, RangeLarge
    <2>2. ArmedAs(AddInterruptEventCount(one, "COMPARE", U(one.count + w)),
                  one, "COMPARE", t, l, w)
      <3>1. Armable(one, "COMPARE", t, l, w)
        BY <1>9, <1>10, <2>1 DEF Armable
      <3> HIDE DEF two, u
      <3> QED  BY <3>1, Armed
    <2>3. U(one.count + w) = 0 /\ 0 \in {0, 1} /\ "SPECIAL" \in EventTypes \ {"COMPARE"}
      BY <1>5, <1>10, <1>12
    <2> QED  BY <1>9, <1>10, <2>2, <2>3 DEF ArmedAs
  <1> HIDE DEF two, u
  <1>14. "VI" \notin {"SPECIAL", "COMPARE"}
    BY DevicesApart DEF Hosted, CoreEvents
  <1>15. Types(two.q) = {"SPECIAL", "COMPARE"} /\ two.count = PowerOnCount /\ two.compare = 0
    BY <1>9, <1>10, <1>13 DEF Kept
  <1>16. Queued(two.q, two.count, two.compare, u)
    <2>1. Near(two.q, u)
      BY <1>4, <1>13, <1>14, <1>15 DEF Near
    <2>2. Dark(two.q, two.count, u)
      BY <1>13, <1>15 DEF Dark, v
    <2>3. Spread(two.q, u)
      BY <1>13, SettledSpread
    <2>4. {"HW2", "NMI"} \cap Types(two.q) = {}
      BY <1>15
    <2> QED  BY <1>12, <1>13, <1>15, <2>1, <2>2, <2>3, <2>4 DEF Queued, Strung
  <1>17. Line(two) = two.q
    <2>1. "CHECK" \notin Types(two.q)
      BY <1>15
    <2> QED  BY <1>13, <2>1, LineOf
  <1>18. Lined(two, u, pace, 0) /\ Screened(Line(two), two.count)
    BY <1>4, <1>13, <1>15, <1>16, <1>17 DEF Lined, Screened
  <1>19. InitInterrupt(c) = two
    BY DEF InitInterrupt, two, one, cleared
  <1> QED  BY <1>18, <1>19

LEMMA PoweredOnLined ==
    ASSUME Hosted, NEW longest \in Nat, Paced(longest), NEW pace \in Nat, NEW c \in Machine
    PROVE  LET d == PoweredOn(c)
           IN  (\E u : Lined(d, u, pace, 0)) /\ Screened(Line(d), d.count)
  <1> DEFINE fresh ==
        [c EXCEPT !.count = PowerOnCount, !.cycle = 0, !.next = 0, !.q = <<>>, !.compare = 0,
                  !.ie = FALSE, !.exl = FALSE, !.im = {}, !.ip = {},
                  !.intr = {}, !.mask = {}, !.skip = FALSE, !.reset = FALSE]
  <1>1. fresh \in Machine /\ fresh.count = PowerOnCount /\ fresh.cycle = 0 /\ fresh.compare = 0
    <2>1. 0 \in Counts /\ 0 \in Cycles /\ PowerOnCount \in Counts /\ <<>> \in Seq(Events)
      BY RangeLarge, PowerOnAssumption DEF Counts, Cycles
    <2> QED  BY <2>1 DEF Machine
  <1>2. PoweredOn(c) = InitInterrupt(fresh)
    BY DEF PoweredOn
  <1> HIDE DEF fresh
  <1> QED  BY <1>1, <1>2, InitLined

\* The machine after a service: the line is in order, with nothing later than it may be.
InLine(d, pace) == (\E u : Lined(d, u, pace, 0)) /\ Screened(Line(d), d.count)

\* Of the line, for what a service does to it.
LEMMA SpreadDue ==
    ASSUME NEW q, Filed(q), q # <<>>, NEW b, NEW t, Timed(q, b, t), Spread(q, t),
           When(q, t, 1) <= 0
    PROVE  Settled(q, t)
  <1>1. \A i \in 1 .. Len(q) : When(q, t, i) \in Int
    BY WhenType DEF Timed
  <1>2. 1 \in 1 .. Len(q) /\ When(q, t, 1) \in Int
    BY HeadFirst
  <1> QED  BY <1>1, <1>2, RangeLarge DEF Spread, Settled

LEMMA ServeLined ==
    ASSUME Hosted, NEW longest \in Nat, Paced(longest), NEW pace \in {0, longest},
           NEW c, NEW t, NEW slot \in BOOLEAN,
           \/ Steady(c) /\ Lined(c, t, pace, 1) /\ When(c.q, t, 1) <= 0
           \/ Urgent(c) /\ Lined(c, t, pace, 0),
           c.cycle >= 0, Screened(Line(c), c.count)
    PROVE  InLine(Serve(c, slot), pace)
  <1> DEFINE type   == c.q[1].type
             popped == RemoveInterruptEvent(c)
  <1>1. /\ c \in Machine /\ Sound(c) /\ type \in Types(c.q) /\ type \in EventTypes
        /\ "CHECK" \in Types(c.q) => type = "CHECK"
        /\ type # "CHECK" => Steady(c)
    BY ServeOf
  <1>2. Serve(c, slot) =
          CASE type = "VI"      -> ViVerticalInterruptEvent(c, slot)
            [] type = "SPECIAL" -> SpecialIntHandler(c)
            [] type = "COMPARE" -> CompareIntHandler(popped, slot)
            [] type = "CHECK"   -> CheckIntHandler(popped, slot)
            [] type = "HW2"     -> RaiseMaskableInterrupt(popped, "IP4", slot)
            [] type = "NMI"     -> NmiIntHandler(popped)
            [] OTHER            -> RaiseRcpInterrupt(popped, type, slot)
    BY ServeOf
  <1>3. CASE type # "CHECK"
    <2>1. Steady(c) /\ Lined(c, t, pace, 1) /\ When(c.q, t, 1) <= 0
      BY <1>1, <1>3 DEF Urgent
    <2>2. Filed(c.q) /\ c.q # <<>> /\ Line(c) = c.q
      BY <1>1, <2>1, AnchoredHead, LineFacts
    <2>3. Timed(c.q, c.count, t) /\ Spread(c.q, t) /\ {"HW2", "NMI"} \cap Types(c.q) = {}
      BY <2>1, <2>2 DEF Lined, Queued, Strung
    <2>4. Settled(c.q, t)
      BY <2>1, <2>2, <2>3, SpreadDue
    <2>5. Screened(c.q, c.count)
      BY <2>2
    <2>6. CASE type = "VI"
      <3>1. Serve(c, slot) = ViVerticalInterruptEvent(c, slot)
        BY <1>2, <2>6
      <3>2. InLine(ViVerticalInterruptEvent(c, slot), pace)
        BY <2>1, <2>4, <2>6, ViLined DEF InLine
      <3> QED  BY <3>1, <3>2
    <2>7. CASE type = "SPECIAL"
      <3>1. Serve(c, slot) = SpecialIntHandler(c)
        BY <1>2, <2>7
      <3>2. InLine(SpecialIntHandler(c), pace)
        BY <2>1, <2>4, <2>5, <2>7, SpecialHandled DEF InLine
      <3> QED  BY <3>1, <3>2
    <2>8. CASE type = "COMPARE"
      <3>1. Serve(c, slot) = CompareIntHandler(popped, slot)
        BY <1>2, <2>8
      <3>2. InLine(CompareIntHandler(popped, slot), pace)
        BY <2>1, <2>4, <2>5, <2>8, CompareHandled DEF InLine
      <3> QED  BY <3>1, <3>2
    <2>9. CASE type \notin {"VI", "SPECIAL", "COMPARE"}
      <3>1. Serve(c, slot) = RaiseRcpInterrupt(popped, type, slot)
        <4>1. type \notin {"HW2", "NMI"}
          BY <1>1, <2>3
        <4> QED  BY <1>2, <1>3, <2>9, <4>1
      <3>2. Lined(popped, t, pace, 0) /\ Screened(Line(popped), popped.count) /\ Shaped(popped)
        BY <2>1, <2>4, <2>5, <2>9, PoppedLined
      <3> HIDE DEF popped
      <3> DEFINE d == RaiseRcpInterrupt(popped, type, slot)
      <3>3. SameQueue(d, popped)
        BY <3>2, RaisedSame
      <3> HIDE DEF d, type
      <3>4. Lined(d, t, pace, 0) /\ Screened(Line(d), d.count)
        BY <3>2, <3>3, SameLine
      <3>5. InLine(d, pace)
        BY <3>4 DEF InLine
      <3> QED  BY <3>1, <3>5 DEF d
    <2> QED  BY <2>6, <2>7, <2>8, <2>9
  <1>4. CASE type = "CHECK"
    <2>1. Lined(c, t, pace, 0) /\ Urgent(c)
      BY <1>1, <1>4 DEF Steady
    <2>2. Line(c) = Tail(c.q)
      BY <1>4 DEF Line
    <2>3. Filed(c.q) /\ c.q # <<>>
      BY <1>1, AnchoredHead
    <2>4. Kept(popped, c) /\ Types(popped.q) = Types(c.q) \ {"CHECK"} /\ Steady(popped)
      BY <1>1, <1>4, <2>1, PoppedSteady DEF Urgent
    <2>5. popped.q = Tail(c.q)
      <3> DEFINE f == [c EXCEPT !.q = Tail(@)]
      <3>1. f \in Machine /\ f.q = Tail(c.q)
        <4>1. Filed(Tail(c.q))
          BY <2>3, FiledTail
        <4> QED  BY <1>1, <4>1, Requeued DEF Kept
      <3> HIDE DEF f
      <3>2. Mirror(f).q = f.q
        BY <3>1 DEF Mirror, Machine
      <3> QED  BY <3>1, <3>2 DEF RemoveInterruptEvent, f
    <2>6. Shaped(popped) /\ popped.count = c.count /\ popped.compare = c.compare
      BY <2>4, MachineShaped DEF Kept
    <2>7. Line(popped) = popped.q
      BY <2>4, LineFacts
    <2> DEFINE d == TakeInterrupt(popped, slot)
    <2>8. Serve(c, slot) = d
      BY <1>2, <1>4 DEF CheckIntHandler
    <2> HIDE DEF popped
    <2>9. SameQueue(d, popped)
      BY <2>6, TakenSame
    <2> HIDE DEF d
    <2>10. Lined(popped, t, pace, 0) /\ Screened(Line(popped), popped.count)
      BY <2>1, <2>2, <2>5, <2>6, <2>7 DEF Lined
    <2>11. Lined(d, t, pace, 0) /\ Screened(Line(d), d.count)
      BY <2>9, <2>10, SameLine
    <2>12. InLine(d, pace)
      BY <2>11 DEF InLine
    <2> QED  BY <2>8, <2>12
  <1> QED  BY <1>3, <1>4

\* gen_interrupt, if it is due.
LEMMA GenLined ==
    ASSUME Hosted, NEW longest \in Nat, Paced(longest), NEW pace \in {0, longest},
           NEW c, NEW t, NEW unsafe, NEW slot \in BOOLEAN,
           \/ Steady(c) /\ Lined(c, t, pace, 1)
           \/ Urgent(c) /\ Lined(c, t, pace, 0),
           Screened(Line(c), c.count)
    PROVE  InLine(GenIfDue(c, unsafe, slot), pace)
  <1>1. c \in Machine /\ ~c.skip /\ Mirrored(c) /\ pace \in Nat
    BY DEF Steady, Urgent, Sound
  <1>2. InLine(PoweredOn(c), pace)
    BY <1>1, PoweredOnLined DEF InLine
  <1>3. Steady(c) => /\ Headed(c, t) /\ Line(c) = c.q /\ Filed(c.q)
                     /\ Types(c.q) \cap Transient = {} /\ t \in Times
    <2> SUFFICES ASSUME Steady(c)
                 PROVE  /\ Headed(c, t) /\ Line(c) = c.q /\ Filed(c.q)
                        /\ Types(c.q) \cap Transient = {} /\ t \in Times
      OBVIOUS
    <2>1. Line(c) = c.q /\ Filed(c.q) /\ "CHECK" \notin Types(c.q) /\ "SPECIAL" \in Types(c.q)
      BY LineFacts DEF Steady, Sound
    <2>2. Lined(c, t, pace, 1)
      <3>1. ~Urgent(c)
        BY <2>1, AnchoredHead DEF Urgent
      <3> QED  BY <3>1
    <2>3. Strung(c.q, c.count, c.compare, t) /\ Slack(c.q, t, pace, 1)
      BY <2>1, <2>2 DEF Lined, Queued
    <2>4. Headed(c, t)
      BY <1>1, <2>1, <2>3, LineHead
    <2>5. {"HW2", "NMI"} \cap Types(c.q) = {} /\ t \in Times
      BY <2>3 DEF Strung, Timed
    <2> QED  BY <2>1, <2>4, <2>5 DEF Transient
  <1>4. CASE c.cycle >= 0
    <2>1. \/ Steady(c) /\ Lined(c, t, pace, 1) /\ When(c.q, t, 1) <= 0
          \/ Urgent(c) /\ Lined(c, t, pace, 0)
      BY <1>3, <1>4 DEF Headed
    <2>2. InLine(Serve(c, slot), pace)
      BY <1>4, <2>1, ServeLined
    <2>3. GenIfDue(c, unsafe, slot) = IF c.reset /\ ~unsafe THEN PoweredOn(c) ELSE Serve(c, slot)
      BY <1>1, <1>4 DEF GenIfDue, GenInterrupt
    <2> QED  BY <1>2, <2>2, <2>3
  <1>5. CASE ~(c.cycle >= 0)
    <2>1. GenIfDue(c, unsafe, slot) = c /\ Steady(c) /\ Lined(c, t, pace, 1)
      BY <1>5 DEF GenIfDue, Urgent
    <2>2. \A i \in 1 .. Len(c.q) : When(c.q, t, i) \in Int /\ When(c.q, t, i) > 0
      <3>1. When(c.q, t, 1) > 0 /\ c.q # <<>> /\ When(c.q, t, 1) \in Int
        BY <1>3, <1>5, <2>1 DEF Headed
      <3>2. Timed(c.q, c.count, t)
        BY <1>3, <2>1 DEF Lined, Queued, Strung
      <3>3. \A i \in 1 .. Len(c.q) : When(c.q, t, i) \in Int /\ When(c.q, t, 1) <= When(c.q, t, i)
        BY <1>3, <2>1, <3>1, <3>2, HeadFirst
      <3> QED  BY <3>1, <3>3
    <2>3. Slack(c.q, t, pace, 0)
      BY <2>2 DEF Slack
    <2>4. Lined(c, t, pace, 0)
      BY <1>3, <2>1, <2>3 DEF Lined
    <2> QED  BY <2>1, <2>4 DEF InLine
  <1> QED  BY <1>4, <1>5

\* ... and the end of a branch after it.
LEMMA EndLined ==
    ASSUME Hosted, NEW longest \in Nat, Paced(longest), NEW pace \in {0, longest},
           NEW c, NEW slot \in BOOLEAN, Served(c, slot), InLine(c, pace)
    PROVE  InLine(EndBranch(c, slot), pace)
  <1>1. PICK t : Lined(c, t, pace, 0)
    BY DEF InLine
  <1>2. Screened(Line(c), c.count)
    BY DEF InLine
  <1>3. CASE ~slot
    BY <1>3 DEF EndBranch
  <1>4. CASE slot /\ Steady(c)
    <2>1. Lined(c, t, pace, 1)
      <3>1. Line(c) = c.q /\ Filed(c.q) /\ "CHECK" \notin Types(c.q)
        BY <1>4, LineFacts DEF Steady, Sound
      <3>2. {"HW2", "NMI"} \cap Types(c.q) = {} /\ t \in Times /\ Slack(c.q, t, pace, 0)
        BY <1>1, <3>1 DEF Lined, Queued, Strung, Timed
      <3>3. Types(c.q) \cap Transient = {}
        BY <3>1, <3>2 DEF Transient
      <3>4. Slack(c.q, t, pace, 1)
        BY <3>1, <3>2, <3>3, SlackLate
      <3> QED  BY <1>1, <3>1, <3>4 DEF Lined
    <2>2. InLine(GenIfDue(c, FALSE, FALSE), pace)
      BY <1>2, <1>4, <2>1, GenLined
    <2> QED  BY <1>4, <2>2 DEF EndBranch
  <1>5. CASE slot /\ ~Steady(c)
    <2> DEFINE r == [c EXCEPT !.skip = FALSE]
    <2>1. Sound(c) /\ "CHECK" \notin Types(c.q) /\ c.skip /\ c.cycle = 0
      BY <1>5 DEF Served
    <2>2. EndBranch(c, slot) = IF c.reset THEN PoweredOn(c) ELSE Mirror(r)
      <3>1. EndBranch(c, slot) = GenInterrupt(c, FALSE, FALSE)
        BY <1>5, <2>1 DEF EndBranch, GenIfDue
      <3>2. c.reset => GenInterrupt(c, FALSE, FALSE) = PoweredOn(c)
        BY DEF GenInterrupt
      <3>3. ~c.reset => GenInterrupt(c, FALSE, FALSE) = Mirror(r)
        BY <2>1 DEF GenInterrupt
      <3> QED  BY <3>1, <3>2, <3>3
    <2>3. c \in Machine /\ Filed(c.q) /\ c.q # <<>>
      BY <2>1, AnchoredHead
    <2>4. InLine(PoweredOn(c), pace)
      BY <2>3, PoweredOnLined DEF InLine
    <2>5. r \in Machine /\ r.q = c.q /\ r.count = c.count /\ r.compare = c.compare
      BY <2>3 DEF Machine
    <2> HIDE DEF r
    <2>6. SameQueue(Mirror(r), c)
      <3>1. Kept(Mirror(r), r) /\ Mirror(r).q = r.q
        BY <2>3, <2>5, MirrorKept
      <3> QED  BY <2>5, <3>1, MachineShaped DEF SameQueue, Kept
    <2>7. InLine(Mirror(r), pace)
      BY <1>1, <1>2, <2>6, SameLine DEF InLine
    <2> QED  BY <2>2, <2>4, <2>7
  <1> QED  BY <1>3, <1>4, <1>5

-----------------------------------------------------------------------------
(* The instructions.                                                        *)

\* A line whose events are fresh meets any pace.
LEMMA FreshLined ==
    ASSUME Hosted, NEW c, Steady(c) \/ Urgent(c), NEW t,
           Queued(Line(c), c.count, c.compare, t), Fresh(Line(c), t)
    PROVE  \A pace \in Nat, x \in {0, 1} : Lined(c, t, pace, x)
  <1>1. Filed(Line(c)) /\ "CHECK" \notin Types(Line(c))
    BY LineFacts
  <1>2. Types(Line(c)) \cap Transient = {} /\ t \in Times
    BY <1>1 DEF Queued, Strung, Timed, Transient
  <1>3. \A pace \in Nat, x \in {0, 1} : Slack(Line(c), t, pace, x)
    BY <1>1, <1>2, FreshSlack
  <1> QED  BY <1>3 DEF Lined

\* With no pace at all, every event is fresh.
LEMMA LinedFresh ==
    ASSUME Hosted, NEW c, Steady(c) \/ Urgent(c), NEW t, Lined(c, t, 0, 0)
    PROVE  Fresh(Line(c), t)
  <1>1. Filed(Line(c)) /\ "CHECK" \notin Types(Line(c))
    BY LineFacts
  <1>2. Types(Line(c)) \cap Transient = {} /\ t \in Times /\ Slack(Line(c), t, 0, 0)
    BY <1>1 DEF Lined, Queued, Strung, Timed, Transient
  <1>3. \A x \in {0, 1} : Slack(Line(c), t, 0, x) => Fresh(Line(c), t)
    BY <1>1, <1>2, FreshSlack
  <1> QED  BY <1>2, <1>3

\* The head of a machine between two instructions.
LEMMA SteadyHeaded ==
    ASSUME Hosted, NEW longest \in Nat, Paced(longest), NEW pace \in {0, longest},
           NEW x \in {0, 1}, NEW c, Steady(c), NEW t, Lined(c, t, pace, x)
    PROVE  /\ Headed(c, t) /\ Line(c) = c.q /\ Filed(c.q) /\ c.q # <<>>
           /\ Types(c.q) \cap Transient = {} /\ t \in Times
           /\ Queued(c.q, c.count, c.compare, t) /\ Slack(c.q, t, pace, x)
           /\ c \in Machine /\ c.count \in Counts /\ c.count \in Int
           /\ x = 0 => -When(c.q, t, 1) <= LateBound
  <1>1. Line(c) = c.q /\ Filed(c.q) /\ "CHECK" \notin Types(c.q) /\ "SPECIAL" \in Types(c.q)
        /\ c \in Machine /\ c.count \in Counts /\ c.count \in Int /\ c.q # <<>> /\ Mirrored(c)
    BY LineFacts, MachineInts DEF Steady, Sound
  <1>2. Queued(c.q, c.count, c.compare, t) /\ Slack(c.q, t, pace, x)
    BY <1>1 DEF Lined
  <1>3. Strung(c.q, c.count, c.compare, t)
    BY <1>2 DEF Queued
  <1>4. Headed(c, t) /\ (x = 0 => -When(c.q, t, 1) <= LateBound)
    BY <1>1, <1>2, <1>3, LineHead
  <1>5. {"HW2", "NMI"} \cap Types(c.q) = {} /\ t \in Times
    BY <1>3 DEF Strung, Timed
  <1> QED  BY <1>1, <1>2, <1>4, <1>5 DEF Transient

\* A stretch of code worth n counts.
LEMMA NowLined ==
    ASSUME Hosted, NEW longest \in Nat, Paced(longest), NEW c, Steady(c), NEW t,
           Lined(c, t, longest, 0), NEW n \in Steps,
           "VI" \in Types(c.q) \/ c.count + n < HalfRange
    PROVE  LET d == UpdateCount(c, n)
               u == Elapsed(t, n)
           IN  /\ Steady(d) /\ Line(d) = d.q /\ d.q = c.q
               /\ Lined(d, u, longest, 1) /\ Screened(d.q, d.count) /\ Settled(d.q, u)
               /\ Queued(d.q, d.count, d.compare, u)
               /\ c.cycle + n <= MaxLate => Fresh(d.q, u)
  <1> DEFINE d == UpdateCount(c, n)
             u == Elapsed(t, n)
  <1>1. /\ Line(d) = Line(c) /\ d.q = c.q
        /\ Lined(d, u, longest, 1) /\ Screened(Line(d), d.count)
        /\ Settled(Line(d), u)
        /\ n - When(Line(c), t, 1) <= MaxLate => Fresh(Line(d), u)
    BY UpdateLined
  <1>2. n \in Nat
    BY StepsAssumption
  <1>3. Steady(d)
    BY <1>2, UpdateSteady
  <1> HIDE DEF d, u
  <1>4. Headed(c, t) /\ Line(c) = c.q
    BY SteadyHeaded
  <1>5. c.cycle + n = n - When(c.q, t, 1)
    BY <1>2, <1>4 DEF Headed
  <1>6. Queued(d.q, d.count, d.compare, u)
    BY <1>1, <1>4 DEF Lined
  <1> QED  BY <1>1, <1>3, <1>4, <1>5, <1>6 DEF d, u

LEMMA ScreenKnown ==
    ASSUME Hosted, NEW n, Running(n), Filed(m.q)
    PROVE  "VI" \in Types(m.q) \/ m.count + n < HalfRange
  BY DEF Hosted, Running, GetEvent, Types, Filed

\* What every instruction but a branch finds: it follows a block of code that has not run
\* past an event for long.
Inside(c, u) ==
    /\ Steady(c) /\ Line(c) = c.q /\ Queued(c.q, c.count, c.compare, u)
    /\ Screened(c.q, c.count) /\ Settled(c.q, u) /\ Fresh(c.q, u)

LEMMA BlockInside ==
    ASSUME Hosted, NEW longest \in Nat, Paced(longest), Steady(m), NEW t,
           Lined(m, t, longest, 0), NEW n \in Steps, WithinBlock(n)
    PROVE  Inside(UpdateCount(m, n), Elapsed(t, n))
  <1>1. "VI" \in Types(m.q) \/ m.count + n < HalfRange
    BY ScreenKnown DEF WithinBlock, Steady, Sound
  <1>2. m.cycle + n <= MaxLate
    BY DEF WithinBlock
  <1> QED  BY <1>1, <1>2, NowLined DEF Inside

LEMMA InsideLined ==
    ASSUME Hosted, NEW c, NEW u, Inside(c, u)
    PROVE  \A pace \in Nat, x \in {0, 1} : Lined(c, u, pace, x)
  BY FreshLined DEF Inside

LEMMA BranchLined ==
    ASSUME Hosted, NEW longest \in Nat, Paced(longest), Steady(m), NEW t,
           Lined(m, t, longest, 0), NEW n \in Steps, Branch(n)
    PROVE  \E u : Lined(m', u, longest, 0)
  <1>1. "VI" \in Types(m.q) \/ m.count + n < HalfRange
    BY ScreenKnown DEF Branch, Steady, Sound
  <1> DEFINE d == UpdateCount(m, n)
             u == Elapsed(t, n)
  <1>2. Steady(d) /\ Lined(d, u, longest, 1) /\ Screened(Line(d), d.count)
    BY <1>1, NowLined
  <1>3. m' = GenIfDue(d, FALSE, FALSE)
    BY DEF Branch
  <1> HIDE DEF d, u
  <1>4. InLine(GenIfDue(d, FALSE, FALSE), longest)
    BY <1>2, GenLined
  <1> QED  BY <1>3, <1>4 DEF InLine

\* COUNT skips to the next event, if none is overdue.
LEMMA SkipLined ==
    ASSUME Hosted, NEW longest \in Nat, Paced(longest), NEW c, Steady(c), NEW t,
           Lined(c, t, longest, 0), c.cycle < 0, "VI" \in Types(c.q)
    PROVE  LET d == [c EXCEPT !.count = U(c.count - c.cycle), !.cycle = 0]
           IN  Steady(d) /\ d.q = c.q /\ \E u : Lined(d, u, longest, 0)
  <1> DEFINE d == [c EXCEPT !.count = U(c.count - c.cycle), !.cycle = 0]
  <1>1. /\ Headed(c, t) /\ Line(c) = c.q /\ Filed(c.q) /\ c.q # <<>> /\ c \in Machine
        /\ Queued(c.q, c.count, c.compare, t) /\ c.count \in Counts /\ c.count \in Int
    BY SteadyHeaded
  <1>2. PICK v \in Nat : c.cycle = -v /\ v = When(c.q, t, 1)
    BY <1>1 DEF Headed
  <1>3. c.count - c.cycle = c.count + v /\ c.count + v \in Int /\ v \in Int
    BY <1>1, <1>2
  <1>4. U(c.count + v) \in Counts /\ 0 \in Cycles
    BY <1>3, CountType, RangeLarge DEF Cycles
  <1>5. d = [c EXCEPT !.count = U(c.count + v), !.cycle = 0]
    BY <1>3
  <1>6. Steady(d)
    BY IdleSteady
  <1> HIDE DEF d
  <1>7. d.q = c.q /\ d.count = U(c.count + v) /\ d.compare = c.compare
    BY <1>1, <1>4, <1>5 DEF Machine
  <1> DEFINE u == Elapsed(t, v)
  <1>8. Queued(c.q, U(c.count + v), c.compare, u)
    BY <1>1, ElapseQueued
  <1>9. \A i \in 1 .. Len(c.q) : When(c.q, u, i) \in Int /\ 0 <= When(c.q, u, i)
    <2>1. Timed(c.q, c.count, t)
      BY <1>1 DEF Queued, Strung
    <2>2. \A i \in 1 .. Len(c.q) : When(c.q, Elapsed(t, v), i) = When(c.q, t, i) - v
      BY <1>1, <2>1, WhenType DEF When, Elapsed, Timed
    <2>3. \A i \in 1 .. Len(c.q) : When(c.q, t, i) \in Int /\ v <= When(c.q, t, i)
      BY <1>1, <1>2, <2>1, HeadFirst
    <2>4. \A i \in 1 .. Len(c.q) : When(c.q, u, i) = When(c.q, t, i) - v
      BY <2>2
    <2> HIDE DEF u
    <2> QED  BY <2>3, <2>4
  <1> HIDE DEF u
  <1>10. Slack(c.q, u, longest, 0)
    BY <1>9 DEF Slack
  <1>11. Line(d) = d.q
    BY <1>6, LineFacts
  <1>12. Lined(d, u, longest, 0)
    BY <1>7, <1>8, <1>10, <1>11 DEF Lined
  <1> QED  BY <1>6, <1>7, <1>12 DEF d

LEMMA IdleLined ==
    ASSUME Hosted, NEW longest \in Nat, Paced(longest), Steady(m), NEW t,
           Lined(m, t, longest, 0), NEW n \in Steps, IdleBranch(n)
    PROVE  \E u : Lined(m', u, longest, 0)
  <1> DEFINE idle == IF m.cycle < 0
                     THEN [m EXCEPT !.count = U(m.count - m.cycle), !.cycle = 0]
                     ELSE m
             d    == UpdateCount(idle, n)
  <1>1. m' = GenIfDue(d, FALSE, FALSE)
    BY DEF IdleBranch
  <1>2. "VI" \in Types(m.q)
    <2>1. m.count \in Counts /\ Filed(m.q)
      BY SteadyHeaded
    <2>2. ~(m.count + HalfRange < HalfRange)
      BY <2>1, RangeLarge DEF Counts
    <2> QED  BY <2>1, <2>2, ScreenKnown DEF IdleBranch
  <1>3. Steady(idle) /\ idle.q = m.q /\ \E u : Lined(idle, u, longest, 0)
    BY <1>2, SkipLined
  <1> HIDE DEF idle
  <1>4. PICK u : Lined(idle, u, longest, 0)
    BY <1>3
  <1>5. Steady(d) /\ Lined(d, Elapsed(u, n), longest, 1) /\ Screened(Line(d), d.count)
    BY <1>2, <1>3, <1>4, NowLined
  <1> HIDE DEF d
  <1>6. InLine(GenIfDue(d, FALSE, FALSE), longest)
    BY <1>5, GenLined
  <1> QED  BY <1>1, <1>6 DEF InLine

LEMMA ObserveLined ==
    ASSUME Hosted, NEW longest \in Nat, Paced(longest), Steady(m), NEW t,
           Lined(m, t, longest, 0), NEW n \in Steps, ObserveCount(n)
    PROVE  \E u : Lined(m', u, longest, 0)
  <1>1. m' = UpdateCount(m, n) /\ WithinBlock(n)
    BY DEF ObserveCount
  <1>2. Inside(m', Elapsed(t, n))
    BY <1>1, BlockInside
  <1> QED  BY <1>2, InsideLined

LEMMA StartedLined ==
    ASSUME Hosted, NEW longest \in Nat, Paced(longest), NEW c, NEW t, Inside(c, t),
           NEW type \in Devices, GetEvent(c.q, type) = {}, NEW delay \in Delays
    PROVE  \E u : Lined(AddInterruptEvent(c, type, delay), u, longest, 0)
  <1> DEFINE d == AddInterruptEvent(c, type, delay)
             l == Late(When(c.q, t, 1))
  <1>1. Steady(c) /\ Queued(c.q, c.count, c.compare, t) /\ Settled(c.q, t) /\ Fresh(c.q, t)
    BY DEF Inside
  <1>2. longest \in {0, longest} /\ 0 \in {0, 1} /\ Lined(c, t, longest, 0)
    BY InsideLined
  <1>3. Headed(c, t) /\ Filed(c.q) /\ c.q # <<>> /\ c \in Machine /\ Slack(c.q, t, longest, 0)
    BY <1>1, <1>2, SteadyHeaded
  <1>4. type \notin Types(c.q) /\ type \in EventTypes \ {"CHECK"}
    BY <1>3, DevicesApart DEF GetEvent, Types, Filed, CoreEvents
  <1>5. delay \in Nat /\ delay \in Int /\ 0 <= delay /\ delay <= HalfRange
    BY DelaysAssumption DEF Paced
  <1>6. l \in Nat /\ l < HalfRange /\ Origin(c) = U(c.count - l)
    BY <1>3 DEF Headed
  <1>7. Strung(c.q, c.count, c.compare, t) /\ Dark(c.q, c.count, t) /\ Within(c.q, t, l)
    <2>1. Strung(c.q, c.count, c.compare, t) /\ Dark(c.q, c.count, t) /\ Timed(c.q, c.count, t)
      BY <1>1 DEF Queued, Strung
    <2>2. c.count \in Int
      BY <1>3, MachineInts
    <2>3. Within(c.q, t, Late(When(c.q, t, 1)))
      BY <1>1, <1>3, <2>1, <2>2, WithinLate
    <2> QED  BY <2>1, <2>3
  <1> HIDE DEF l
  <1>8. LET f == AddInterruptEventCount(c, type, U(c.count + delay))
        IN  Kept(f, c) /\ Relined(f.q, c.q, c.count, c.compare, t)
    BY <1>3, <1>4, <1>5, <1>6, <1>7, DeviceLined
  <1>9. d = AddInterruptEventCount(c, type, U(c.count + delay))
    BY DEF AddInterruptEvent
  <1>10. Steady(d)
    BY <1>1, <1>4, <1>5, AddSteady
  <1> HIDE DEF d
  <1>11. d.count = c.count /\ d.compare = c.compare
    BY <1>8, <1>9 DEF Kept
  <1>12. PICK u : Queued(d.q, c.count, c.compare, u) /\ Eased(d.q, u, c.q, t)
    BY <1>8, <1>9 DEF Relined
  <1>13. Slack(d.q, u, longest, 0)
    BY <1>2, <1>3, <1>12 DEF Eased
  <1>14. Line(d) = d.q
    BY <1>10, LineFacts
  <1>15. Lined(d, u, longest, 0)
    BY <1>11, <1>12, <1>13, <1>14 DEF Lined
  <1> QED  BY <1>15 DEF d

\* STATUS, CAUSE, MI and the frontend's flags say nothing of the line.
LEMMA RegistersInside ==
    ASSUME NEW c, NEW t, Inside(c, t), NEW d \in Machine, d.q = c.q, d.count = c.count,
           d.next = c.next, d.cycle = c.cycle, d.compare = c.compare, d.skip = c.skip,
           d.dropped = c.dropped, d.early = c.early, d.spurious = c.spurious
    PROVE  Inside(d, t)
  <1>1. Steady(d)
    BY RegistersSteady DEF Inside
  <1> QED  BY <1>1 DEF Inside, Line

LEMMA CheckedInLine ==
    ASSUME Hosted, NEW longest \in Nat, Paced(longest), NEW c, NEW t, Inside(c, t),
           NEW unsafe, NEW slot \in BOOLEAN
    PROVE  LET d == GenIfDue(CheckInterrupt(c), unsafe, slot)
           IN  InLine(d, longest) /\ Served(d, slot)
  <1> DEFINE f == CheckInterrupt(c)
             d == GenIfDue(f, unsafe, slot)
  <1>1. Steady(c) /\ Line(c) = c.q
    BY DEF Inside
  <1>2. Steady(f) \/ Urgent(f)
    BY <1>1, CheckLine
  <1>3. Line(f) = c.q /\ f.count = c.count /\ f.compare = c.compare
    BY <1>1, CheckLine
  <1> HIDE DEF f
  <1>4. Lined(f, t, longest, 0) /\ Lined(f, t, longest, 1)
    <2>1. \A pace \in Nat, x \in {0, 1} : Lined(f, t, pace, x)
      BY <1>2, <1>3, FreshLined DEF Inside
    <2> QED  BY <2>1
  <1>5. Screened(Line(f), f.count)
    BY <1>3 DEF Inside
  <1>6. InLine(GenIfDue(f, unsafe, slot), longest)
    BY <1>2, <1>4, <1>5, GenLined
  <1>7. Served(GenIfDue(f, unsafe, slot), slot)
    BY <1>2, GenServed
  <1> QED  BY <1>6, <1>7 DEF f

LEMMA EretLined ==
    ASSUME Hosted, NEW longest \in Nat, Paced(longest), Steady(m), NEW t,
           Lined(m, t, longest, 0), NEW n \in Steps, Eret(n)
    PROVE  \E u : Lined(m', u, longest, 0)
  <1> DEFINE now  == UpdateCount(m, n)
             left == [now EXCEPT !.exl = FALSE]
             u    == Elapsed(t, n)
  <1>1. m' = GenIfDue(CheckInterrupt(left), FALSE, FALSE)
    BY DEF Eret
  <1>2. Inside(now, u)
    BY BlockInside DEF Eret
  <1> HIDE DEF now, u
  <1>3. now \in Machine
    BY <1>2 DEF Inside, Steady, Sound
  <1>4. /\ left \in Machine /\ left.q = now.q /\ left.count = now.count
        /\ left.next = now.next /\ left.cycle = now.cycle /\ left.skip = now.skip
        /\ left.dropped = now.dropped /\ left.early = now.early
        /\ left.spurious = now.spurious /\ left.compare = now.compare
    BY <1>3 DEF Machine
  <1> HIDE DEF left
  <1>5. Inside(left, u)
    BY <1>2, <1>4, RegistersInside
  <1>6. InLine(GenIfDue(CheckInterrupt(left), FALSE, FALSE), longest)
    BY <1>5, CheckedInLine
  <1> QED  BY <1>1, <1>6 DEF InLine

LEMMA SyscallLined ==
    ASSUME Hosted, NEW longest \in Nat, Paced(longest), Steady(m), NEW t,
           Lined(m, t, longest, 0), NEW n \in Steps, NEW slot \in BOOLEAN, Syscall(n, slot)
    PROVE  \E u : Lined(m', u, longest, 0)
  <1> DEFINE now    == UpdateCount(m, n)
             raised == ExceptionGeneral(now, slot)
             u      == Elapsed(t, n)
  <1>1. m' = EndBranch(raised, slot)
    BY DEF Syscall
  <1>2. Inside(now, u)
    BY BlockInside DEF Syscall
  <1> HIDE DEF now, u
  <1>3. Steady(now) /\ Shaped(now)
    BY <1>2, MachineShaped DEF Inside, Steady, Sound
  <1>4. Served(raised, slot) /\ SameQueue(raised, now)
    BY <1>3, ExceptionServed, TakenSame
  <1> HIDE DEF raised
  <1>5. Lined(now, u, longest, 0) /\ Screened(Line(now), now.count)
    <2>1. 0 \in {0, 1} /\ longest \in Nat
      OBVIOUS
    <2> QED  BY <1>2, <2>1, InsideLined DEF Inside
  <1>6. InLine(raised, longest)
    BY <1>4, <1>5, SameLine DEF InLine
  <1>7. InLine(EndBranch(raised, slot), longest)
    BY <1>4, <1>6, EndLined
  <1> QED  BY <1>1, <1>7 DEF InLine

LEMMA StatusLined ==
    ASSUME Hosted, NEW longest \in Nat, Paced(longest), Steady(m), NEW t,
           Lined(m, t, longest, 0), NEW n \in Steps, NEW w \in StatusWrites,
           NEW slot \in BOOLEAN, MtcStatus(n, w, slot)
    PROVE  \E u : Lined(m', u, longest, 0)
  <1> DEFINE loaded  == [m EXCEPT !.ie = w.ie, !.exl = w.exl, !.im = w.im]
             now     == UpdateCount(m, n)
             written == UpdateCount(loaded, n)
             u       == Elapsed(t, n)
             d       == GenIfDue(CheckInterrupt(written), TRUE, slot)
  <1>1. m' = EndBranch(d, slot)
    BY DEF MtcStatus
  <1>2. w.ie \in BOOLEAN /\ w.exl \in BOOLEAN /\ w.im \in SUBSET IPs
    BY StatusAssumption
  <1>3. m \in Machine /\ n \in Int
    BY StepsAssumption DEF Steady, Sound
  <1>4. Inside(now, u)
    BY BlockInside DEF MtcStatus
  <1>5. now \in Machine
    BY <1>4 DEF Inside, Steady, Sound
  <1>6. written = [now EXCEPT !.ie = w.ie, !.exl = w.exl, !.im = w.im]
    BY <1>3 DEF UpdateCount, Machine
  <1> HIDE DEF now, u, written
  <1>7. /\ written \in Machine /\ written.q = now.q /\ written.count = now.count
        /\ written.next = now.next /\ written.cycle = now.cycle /\ written.skip = now.skip
        /\ written.dropped = now.dropped /\ written.early = now.early
        /\ written.spurious = now.spurious /\ written.compare = now.compare
    BY <1>2, <1>5, <1>6 DEF Machine
  <1>8. Inside(written, u)
    BY <1>4, <1>7, RegistersInside
  <1>9. InLine(d, longest) /\ Served(d, slot)
    BY <1>8, CheckedInLine
  <1> HIDE DEF d
  <1>10. InLine(EndBranch(d, slot), longest)
    BY <1>9, EndLined
  <1> QED  BY <1>1, <1>10 DEF InLine

\* The interrupt is checked for before COUNT moves on.
LEMMA MaskLined ==
    ASSUME Hosted, NEW longest \in Nat, Paced(longest), Steady(m), NEW t,
           Lined(m, t, longest, 0), NEW n \in Steps, NEW lines \in MaskWrites,
           NEW slot \in BOOLEAN, WriteMiMask(n, lines, slot)
    PROVE  \E u : Lined(m', u, longest, 0)
  <1> DEFINE masked  == [m EXCEPT !.mask = lines]
             checked == CheckInterrupt(masked)
             now     == UpdateCount(checked, n)
             u       == Elapsed(t, n)
             d       == GenIfDue(now, FALSE, slot)
  <1>1. m' = EndBranch(d, slot)
    BY DEF WriteMiMask
  <1>2. /\ m \in Machine /\ Line(m) = m.q /\ Headed(m, t) /\ Filed(m.q)
    BY SteadyHeaded
  <1>3. /\ masked \in Machine /\ masked.q = m.q /\ masked.count = m.count
        /\ masked.next = m.next /\ masked.cycle = m.cycle /\ masked.skip = m.skip
        /\ masked.dropped = m.dropped /\ masked.early = m.early
        /\ masked.spurious = m.spurious /\ masked.compare = m.compare
    BY <1>2, MasksAssumption DEF Machine, Lines
  <1> HIDE DEF masked
  <1>4. Steady(masked)
    BY <1>3, RegistersSteady
  <1>5. /\ Steady(checked) \/ Urgent(checked)
        /\ Line(checked) = m.q /\ checked.count = m.count /\ checked.compare = m.compare
    BY <1>3, <1>4, CheckLine
  <1>6. Steady(checked) \/ (Urgent(checked) /\ checked.cycle = 0)
    <2>1. \/ Steady(CheckInterrupt(masked))
          \/ Urgent(CheckInterrupt(masked)) /\ CheckInterrupt(masked).cycle = 0
      BY <1>4, CheckedSteady
    <2> QED  BY <2>1
  <1> HIDE DEF checked
  <1>7. n \in Nat /\ n < HalfRange
    BY StepsAssumption DEF Hosted
  <1>8. Steady(now) \/ Urgent(now)
    BY <1>6, <1>7, UpdateSteady
  <1>9. "VI" \in Types(checked.q) \/ checked.count + n < HalfRange
    <2>1. "VI" \in Types(m.q) \/ m.count + n < HalfRange
      BY <1>2, ScreenKnown DEF WriteMiMask, WithinBlock
    <2>2. "VI" \in Types(m.q) <=> "VI" \in Types(checked.q)
      BY <1>5, LineFacts
    <2> QED  BY <1>5, <2>1, <2>2
  <1>10. Lined(checked, t, longest, 0)
    BY <1>2, <1>5 DEF Lined
  <1>11. /\ Line(now) = m.q /\ Screened(Line(now), now.count) /\ Lined(now, u, longest, 1)
         /\ n - When(m.q, t, 1) <= MaxLate => Fresh(Line(now), u)
    BY <1>5, <1>9, <1>10, UpdateLined
  <1>12. Fresh(Line(now), u)
    <2>1. m.cycle + n <= MaxLate
      BY DEF WriteMiMask, WithinBlock
    <2>2. m.cycle + n = n - When(m.q, t, 1)
      BY <1>2, <1>7 DEF Headed
    <2> QED  BY <1>11, <2>1, <2>2
  <1> HIDE DEF now, u
  <1>13. Lined(now, u, longest, 0)
    <2>1. \A pace \in Nat, x \in {0, 1} : Lined(now, u, pace, x)
      BY <1>8, <1>11, <1>12, FreshLined DEF Lined
    <2> QED  BY <2>1
  <1>14. InLine(d, longest) /\ Served(d, slot)
    BY <1>8, <1>11, <1>13, GenLined, GenServed
  <1> HIDE DEF d
  <1>15. InLine(EndBranch(d, slot), longest)
    BY <1>14, EndLined
  <1> QED  BY <1>1, <1>15 DEF InLine

\* A program raises or acknowledges a line; the frontend acts on its own flags.
LEMMA HeardLined ==
    ASSUME Hosted, NEW c, Steady(c), NEW t, NEW pace, NEW x, Lined(c, t, pace, x),
           NEW intr \in SUBSET Lines
    PROVE  Lined(CheckInterrupt([c EXCEPT !.intr = intr]), t, pace, x)
  <1> DEFINE d == [c EXCEPT !.intr = intr]
  <1>1. c \in Machine /\ Line(c) = c.q
    BY LineFacts DEF Steady, Sound
  <1>2. /\ d \in Machine /\ d.q = c.q /\ d.count = c.count /\ d.next = c.next
        /\ d.cycle = c.cycle /\ d.skip = c.skip /\ d.dropped = c.dropped
        /\ d.early = c.early /\ d.spurious = c.spurious /\ d.compare = c.compare
    BY <1>1 DEF Machine
  <1> HIDE DEF d
  <1>3. Steady(d)
    BY <1>2, RegistersSteady
  <1>4. /\ Line(CheckInterrupt(d)) = d.q /\ CheckInterrupt(d).count = d.count
        /\ CheckInterrupt(d).compare = d.compare
    BY <1>3, CheckLine
  <1>5. Lined(CheckInterrupt(d), t, pace, x)
    BY <1>1, <1>2, <1>4 DEF Lined
  <1> QED  BY <1>5 DEF d

LEMMA QuietLined ==
    ASSUME Hosted, NEW longest \in Nat, Steady(m), NEW t, Lined(m, t, longest, 0),
           \/ \E line \in Lines : SignalLine(line) \/ AcknowledgeLine(line)
           \/ \E line \in PluginLines : PluginRaises(line) \/ PluginHoldsBack(line)
           \/ HardReset \/ RunFrame \/ UNCHANGED vars
    PROVE  Lined(m', t, longest, 0)
  <1>1. m \in Machine
    BY DEF Steady, Sound
  <1>2. ASSUME NEW line \in Lines, SignalLine(line) \/ AcknowledgeLine(line)
        PROVE  Lined(m', t, longest, 0)
    <2>1. m.intr \cup {line} \in SUBSET Lines /\ m.intr \ {line} \in SUBSET Lines
      BY <1>1 DEF Machine
    <2>2. m' = CheckInterrupt([m EXCEPT !.intr = @ \cup {line}])
          \/ m' = CheckInterrupt([m EXCEPT !.intr = @ \ {line}])
      BY <1>2 DEF SignalLine, AcknowledgeLine, SignalRcpInterrupt, ClearRcpInterrupt
    <2> QED  BY <2>1, <2>2, HeardLined
  <1>3. CASE HardReset \/ RunFrame \/ UNCHANGED vars
    <2>1. m'.q = m.q /\ m'.count = m.count /\ m'.compare = m.compare
      BY <1>1, <1>3 DEF HardReset, RunFrame, vars, Machine
    <2> QED  BY <2>1 DEF Lined, Line
  <1>4. ASSUME NEW line \in PluginLines, PluginRaises(line) \/ PluginHoldsBack(line)
        PROVE  Lined(m', t, longest, 0)
    <2>1. m'.q = m.q /\ m'.count = m.count /\ m'.compare = m.compare
      BY <1>1, <1>4 DEF PluginRaises, PluginHoldsBack, Machine
    <2> QED  BY <2>1 DEF Lined, Line
  <1> QED  BY <1>2, <1>3, <1>4

-----------------------------------------------------------------------------
(* A write of COMPARE.                                                      *)

\* remove_event leaves the views of the head as they were.
LEMMA Withdrawn ==
    ASSUME NEW c \in Machine, Filed(c.q), NEW type \in Types(c.q)
    PROVE  LET d == RemoveEvent(c, type)
           IN  /\ Kept(d, c) /\ d.cycle = c.cycle /\ Types(d.q) = Types(c.q) \ {type}
               /\ \E p \in 1 .. Len(c.q) : c.q[p].type = type /\ d.q = RemoveAt(c.q, p)
  <1> DEFINE found == GetEvent(c.q, type)
             p     == Min(found)
             q     == RemoveAt(c.q, p)
             d     == RemoveEvent(c, type)
  <1>1. DOMAIN c.q = 1 .. Len(c.q) /\ Len(c.q) \in Nat
    BY DEF Filed
  <1>2. found # {} /\ found \in SUBSET Nat
    BY <1>1 DEF GetEvent, Types
  <1>3. p \in found
    BY <1>2, LeastOf
  <1>4. p \in 1 .. Len(c.q) /\ c.q[p].type = type
    BY <1>1, <1>3 DEF GetEvent
  <1>5. d = [c EXCEPT !.q = q]
    BY <1>2 DEF RemoveEvent
  <1> HIDE DEF p
  <1>6. Filed(q) /\ Types(q) = Types(c.q) \ {type}
    BY <1>4, FiledRemove
  <1> HIDE DEF d
  <1>7. Kept(d, c) /\ d.q = q /\ d.cycle = c.cycle
    <2> HIDE DEF q
    <2>1. LET f == [c EXCEPT !.q = q]
          IN  Kept(f, c) /\ f.q = q /\ f.next = c.next /\ f.cycle = c.cycle
      BY <1>6, Requeued
    <2> QED  BY <1>5, <2>1
  <1> QED  BY <1>4, <1>6, <1>7 DEF d

LEMMA RecalledLeave ==
    ASSUME NEW q, Filed(q), NEW b \in Int, NEW t, Timed(q, b, t), NEW v \in Int,
           Recalled(q, t, v), NEW p \in 1 .. Len(q)
    PROVE  Recalled(RemoveAt(q, p), t, v)
  <1> DEFINE r == RemoveAt(q, p)
  <1>1. /\ Len(r) = Len(q) - 1 /\ Len(q) \in Nat
        /\ \A i \in 1 .. Len(q) - 1 :
              LET k == IF i < p THEN i ELSE i + 1
              IN  k \in 1 .. Len(q) /\ r[i] = q[k] /\ When(r, t, i) = When(q, t, k)
    BY RemoveTimed
  <1> HIDE DEF r
  <1>2. \A i \in 1 .. Len(r) : \E k \in 1 .. Len(q) : When(r, t, i) = When(q, t, k)
    BY <1>1
  <1>3. Recalled(r, t, v)
    BY <1>2 DEF Recalled
  <1> QED  BY <1>3 DEF r

LEMMA WrittenLined ==
    ASSUME Hosted, NEW longest \in Nat, Paced(longest), NEW c, NEW t, Inside(c, t),
           NEW compare \in Counts
    PROVE  LET armed == AddCompare(RemoveEvent(c, "COMPARE"), compare)
           IN  /\ Kept(armed, c) /\ Line(armed) = armed.q
               /\ \E u : Queued(armed.q, c.count, compare, u) /\ Slack(armed.q, u, longest, 0)
  <1> DEFINE less  == RemoveEvent(c, "COMPARE")
             armed == AddCompare(less, compare)
             v     == When(c.q, t, 1)
             delta == IF v < CountPerOp THEN v ELSE CountPerOp
  <1>1. /\ Steady(c) /\ Queued(c.q, c.count, c.compare, t) /\ Settled(c.q, t)
        /\ Fresh(c.q, t)
    BY DEF Inside
  <1>2. longest \in {0, longest} /\ 0 \in {0, 1} /\ Lined(c, t, longest, 0)
    BY InsideLined
  <1>3. /\ Headed(c, t) /\ Filed(c.q) /\ c.q # <<>> /\ c \in Machine /\ t \in Times
        /\ Types(c.q) \cap Transient = {} /\ c.count \in Int
    BY <1>1, <1>2, SteadyHeaded
  <1>4. {"SPECIAL", "COMPARE"} \subseteq Types(c.q) /\ "CHECK" \notin Types(c.q)
    BY <1>1 DEF Steady, Sound
  <1>5. /\ Strung(c.q, c.count, c.compare, t) /\ Dark(c.q, c.count, t)
        /\ Timed(c.q, c.count, t)
    BY <1>1 DEF Queued, Strung
  <1>6. /\ v \in Int /\ CountPerOp - HalfRange < v /\ v <= HalfRange /\ c.cycle = -v
        /\ -v <= MaxLate /\ 1 \in 1 .. Len(c.q)
    BY <1>1, <1>3 DEF Headed, Fresh
  <1>7. Recalled(c.q, t, v)
    BY <1>1, <1>3, <1>5, HeadRecalled
  <1> HIDE DEF v
  <1>8. /\ Kept(less, c) /\ less.cycle = c.cycle /\ Types(less.q) = Types(c.q) \ {"COMPARE"}
        /\ \E p \in 1 .. Len(c.q) : c.q[p].type = "COMPARE" /\ less.q = RemoveAt(c.q, p)
    BY <1>3, <1>4, Withdrawn
  <1> HIDE DEF less
  <1>9. PICK p \in 1 .. Len(c.q) : c.q[p].type = "COMPARE" /\ less.q = RemoveAt(c.q, p)
    BY <1>8
  <1>10. /\ Filed(less.q) /\ Strung(less.q, c.count, c.compare, t)
         /\ Dark(less.q, c.count, t) /\ Fresh(less.q, t)
    <2>1. c.q[p].type # "VI"
      BY <1>9 DEF Hosted
    <2>2. LET r == RemoveAt(c.q, p)
          IN  /\ Filed(r) /\ Strung(r, c.count, c.compare, t)
              /\ Dark(c.q, c.count, t) /\ c.q[p].type # "VI" => Dark(r, c.count, t)
              /\ Fresh(c.q, t) => Fresh(r, t)
      BY <1>3, <1>5, LeaveLined
    <2> QED  BY <1>1, <1>5, <1>9, <2>1, <2>2
  <1>11. Recalled(less.q, t, v)
    BY <1>3, <1>5, <1>6, <1>7, <1>9, RecalledLeave
  <1>12. /\ less \in Machine /\ less.q # <<>> /\ "COMPARE" \notin Types(less.q)
         /\ less.count = c.count /\ less.cycle = -v
         /\ Queued(less.q, less.count, c.compare, t)
    <2>1. less.q # <<>>
      <3>1. Types(less.q) = Types(c.q) \ {"COMPARE"}
        BY <1>8
      <3>2. "SPECIAL" \in Types(less.q)
        BY <1>4, <3>1
      <3> QED  BY <3>2 DEF Types
    <2> QED  BY <1>6, <1>8, <1>10, <2>1 DEF Kept, Queued
  <1>13. delta \in Int /\ delta = IF v < CountPerOp THEN v ELSE CountPerOp
    BY <1>6, CountPerOpAssumption
  <1>14. -delta <= MaxLate /\ MaxLate \in Nat
    BY <1>6, <1>13, CountPerOpAssumption, LateAssumption
  <1> HIDE DEF delta
  <1>15. PICK w \in Int : delta <= w /\ w < Modulus + delta /\ compare = U(less.count + w)
    BY <1>3, <1>12, <1>13, TimeOf
  <1> DEFINE u == [t EXCEPT !["COMPARE"] = w]
  <1>16. -w <= MaxLate
    BY <1>13, <1>14, <1>15
  <1>17. /\ Kept(armed, less) /\ Filed(armed.q) /\ armed.q # <<>>
         /\ Types(armed.q) = Types(less.q) \cup {"COMPARE"}
         /\ Queued(armed.q, less.count, compare, u) /\ Fresh(armed.q, u)
    <2>1. LET d == AddCompare(less, U(less.count + w))
              z == [t EXCEPT !["COMPARE"] = w]
          IN  /\ Kept(d, less) /\ Filed(d.q) /\ Types(d.q) = Types(less.q) \cup {"COMPARE"}
              /\ d.q # <<>>
              /\ Queued(d.q, less.count, U(less.count + w), z)
              /\ -w <= MaxLate /\ Fresh(less.q, t) => Fresh(d.q, z)
      BY <1>6, <1>10, <1>11, <1>12, <1>13, <1>15, CompareLined
    <2> QED  BY <1>10, <1>15, <1>16, <2>1
  <1> HIDE DEF armed, u
  <1>18. "CHECK" \notin Types(armed.q) /\ Types(armed.q) \cap Transient = {} /\ u \in Times
    <2>1. "COMPARE" \notin Transient
      BY DEF Transient
    <2> QED  BY <1>3, <1>4, <1>8, <1>17, <2>1 DEF Queued, Strung, Timed
  <1>19. Slack(armed.q, u, longest, 0)
    BY <1>2, <1>17, <1>18, FreshSlack
  <1>20. Line(armed) = armed.q
    BY <1>17, <1>18, LineOf
  <1>21. Kept(armed, c) /\ Queued(armed.q, c.count, compare, u)
    BY <1>8, <1>12, <1>17 DEF Kept
  <1> QED  BY <1>19, <1>20, <1>21 DEF armed, less

LEMMA MtcCompareLined ==
    ASSUME Hosted, NEW longest \in Nat, Paced(longest), Steady(m), NEW t,
           Lined(m, t, longest, 0), NEW n \in Steps, NEW gap \in CompareGaps,
           MtcCompare(n, gap)
    PROVE  \E u : Lined(m', u, longest, 0)
  <1> DEFINE now     == UpdateCount(m, n)
             compare == U(now.count + gap)
             armed   == AddCompare(RemoveEvent(now, "COMPARE"), compare)
             d       == [armed EXCEPT !.compare = compare, !.ip = @ \ {"IP7"}]
  <1>1. m' = d
    BY DEF MtcCompare
  <1>2. Inside(now, Elapsed(t, n))
    BY BlockInside DEF MtcCompare
  <1> HIDE DEF now
  <1>3. compare \in Counts
    <2>1. now.count \in Int /\ gap \in Int
      BY <1>2, MachineInts, GapsAssumption DEF Inside, Steady, Sound
    <2> QED  BY <2>1, CountType
  <1> HIDE DEF compare
  <1>4. /\ Kept(armed, now) /\ Line(armed) = armed.q
        /\ \E u : Queued(armed.q, now.count, compare, u) /\ Slack(armed.q, u, longest, 0)
    BY <1>2, <1>3, WrittenLined
  <1> HIDE DEF armed
  <1>5. d.q = armed.q /\ d.count = now.count /\ d.compare = compare
    BY <1>4 DEF Kept, Machine
  <1>6. Line(d) = armed.q
    BY <1>4, <1>5 DEF Line
  <1>7. PICK u : Queued(armed.q, now.count, compare, u) /\ Slack(armed.q, u, longest, 0)
    BY <1>4
  <1> HIDE DEF d
  <1>8. Lined(d, u, longest, 0)
    BY <1>5, <1>6, <1>7 DEF Lined
  <1> QED  BY <1>1, <1>8

-----------------------------------------------------------------------------
(* A write of COUNT.                                                        *)

\* The events of q at the same distances from base as from n.
Moved(q, n, base) == [i \in DOMAIN q |-> [q[i] EXCEPT !.count = U((@ - n) + base)]]

\* The events move with COUNT: their times do not change.
LEMMA Shifted ==
    ASSUME NEW q, Filed(q), NEW n \in Int, NEW t, Timed(q, n, t), "COMPARE" \notin Types(q),
           NEW base \in Counts, NEW w \in Int
    PROVE  LET r == Moved(q, n, base)
               u == [t EXCEPT !["COMPARE"] = w]
           IN  /\ Filed(r) /\ Types(r) = Types(q) /\ Timed(r, base, u) /\ Len(r) = Len(q)
               /\ \A i \in 1 .. Len(q) : r[i].type = q[i].type /\ When(r, u, i) = When(q, t, i)
  <1> DEFINE k == Len(q)
             to(e) == [e EXCEPT !.count = U((@ - n) + base)]
             r == Moved(q, n, base)
             u == [t EXCEPT !["COMPARE"] = w]
  <1>1. k \in Nat /\ DOMAIN q = 1 .. k /\ base \in Int /\ t \in Times
    BY RangeLarge DEF Filed, Counts, Timed
  <1>2. \A i \in 1 .. k : /\ When(q, t, i) \in Int /\ q[i].type \in Types(q)
                          /\ q[i] \in Events /\ q[i].type \in EventTypes
                          /\ q[i].count = U(n + When(q, t, i))
    BY <1>1, WhenType DEF Timed
  <1>3. ASSUME NEW i \in 1 .. k
        PROVE  to(q[i]) = [q[i] EXCEPT !.count = U(base + When(q, t, i))]
    <2> DEFINE v == When(q, t, i)
               x == n + v
               y == base - n
    <2>1. v \in Int /\ x \in Int /\ y \in Int /\ q[i].count = U(x)
      BY <1>1, <1>2
    <2>2. U(x) \in Int /\ (U(x) - n) + base = U(x) + y
      <3>1. U(x) \in Int
        BY <2>1, CountType, RangeLarge DEF Counts
      <3> HIDE DEF x
      <3> QED  BY <1>1, <3>1
    <2>3. x + y = base + v
      BY <1>1, <2>1
    <2>4. U(U(x) + y) = U(x + y)
      <3> HIDE DEF x, y
      <3> QED  BY <2>1, WrapSum
    <2>5. U((q[i].count - n) + base) = U(base + v)
      BY <2>1, <2>2, <2>3, <2>4
    <2> QED  BY <2>5
  <1>4. \A i \in 1 .. k : /\ [q[i] EXCEPT !.count = U(base + When(q, t, i))] \in Events
                          /\ [q[i] EXCEPT !.count = U(base + When(q, t, i))].type = q[i].type
                          /\ [q[i] EXCEPT !.count = U(base + When(q, t, i))].count
                               = U(base + When(q, t, i))
    <2> SUFFICES ASSUME NEW i \in 1 .. k
                 PROVE  LET f == [q[i] EXCEPT !.count = U(base + When(q, t, i))]
                        IN  f \in Events /\ f.type = q[i].type
                            /\ f.count = U(base + When(q, t, i))
      OBVIOUS
    <2> DEFINE z == U(base + When(q, t, i))
    <2>1. z \in Counts
      <3>1. base + When(q, t, i) \in Int
        BY <1>1, <1>2
      <3> QED  BY <3>1, CountType
    <2> HIDE DEF z
    <2> QED  BY <1>2, <2>1 DEF Events, z
  <1>5. r = [i \in 1 .. k |-> [q[i] EXCEPT !.count = U(base + When(q, t, i))]]
    <2>1. r = [i \in 1 .. k |-> to(q[i])]
      BY <1>1 DEF Moved
    <2> HIDE DEF to, r
    <2> QED  BY <1>3, <2>1
  <1> HIDE DEF r, to
  <1>6. /\ r \in Seq(Events) /\ Len(r) = k
        /\ \A i \in 1 .. k : r[i].type = q[i].type /\ r[i].count = U(base + When(q, t, i))
    <2> DEFINE g(i) == [q[i] EXCEPT !.count = U(base + When(q, t, i))]
    <2>1. r = [i \in 1 .. k |-> g(i)]
      BY <1>5
    <2>2. \A i \in 1 .. k : g(i) \in Events /\ g(i).type = q[i].type
                            /\ g(i).count = U(base + When(q, t, i))
      BY <1>4
    <2> HIDE DEF g, k
    <2> QED  BY <1>1, <2>1, <2>2
  <1>7. Filed(r) /\ Types(r) = Types(q)
    <2>1. \A i, j \in 1 .. k : q[i].type = q[j].type => i = j
      BY DEF Filed
    <2>2. Types(r) = {r[i].type : i \in 1 .. k} /\ Types(q) = {q[i].type : i \in 1 .. k}
      BY <1>6 DEF Types
    <2> HIDE DEF k
    <2>3. {r[i].type : i \in 1 .. k} = {q[i].type : i \in 1 .. k}
      BY <1>6
    <2>4. \A i, j \in 1 .. k : r[i].type = r[j].type => i = j
      BY <1>6, <2>1
    <2> QED  BY <1>6, <2>2, <2>3, <2>4 DEF Filed
  <1>8. "COMPARE" \in EventTypes
    BY DEF EventTypes, CoreEvents
  <1>9. u \in Times /\ u["COMPARE"] = w /\ \A y \in EventTypes \ {"COMPARE"} : u[y] = t[y]
    BY <1>1, <1>8 DEF Times
  <1> HIDE DEF u
  <1>10. \A i \in 1 .. k : When(r, u, i) = When(q, t, i)
    <2>1. \A i \in 1 .. k : q[i].type \in EventTypes \ {"COMPARE"}
      BY <1>2
    <2> QED  BY <1>6, <1>9, <2>1 DEF When
  <1>11. Timed(r, base, u)
    <2>1. \A i, j \in 1 .. k : i < j => When(q, t, i) <= When(q, t, j)
      BY DEF Timed
    <2>2. \A i \in 1 .. Len(r) : r[i].count = U(base + When(r, u, i))
      BY <1>6, <1>10
    <2>3. \A i, j \in 1 .. Len(r) : i < j => When(r, u, i) <= When(r, u, j)
      BY <1>6, <1>10, <2>1
    <2> QED  BY <1>9, <2>2, <2>3 DEF Timed
  <1> QED  BY <1>6, <1>7, <1>9, <1>10, <1>11 DEF r, u, k

\* Without COMPARE, nothing is further than the range.
LEMMA SpreadWithin ==
    ASSUME NEW q, Filed(q), q # <<>>, NEW b \in Int, NEW t, Timed(q, b, t), Spread(q, t),
           NEW p \in 1 .. Len(q), q[p].type = "COMPARE"
    PROVE  Within(RemoveAt(q, p), t, Late(When(q, t, 1)))
  <1> DEFINE r == RemoveAt(q, p)
             v == When(q, t, 1)
  <1>1. v \in Int /\ \A i \in 1 .. Len(q) : When(q, t, i) \in Int /\ v <= When(q, t, i)
    BY HeadFirst
  <1>2. /\ Len(r) = Len(q) - 1 /\ Len(q) \in Nat
        /\ \A i \in 1 .. Len(q) - 1 :
              LET k == IF i < p THEN i ELSE i + 1
              IN  k \in 1 .. Len(q) /\ r[i] = q[k] /\ When(r, t, i) = When(q, t, k)
    BY RemoveTimed
  <1> HIDE DEF r, v
  <1>3. ASSUME NEW i \in 1 .. Len(r)
        PROVE  \E k \in 1 .. Len(q) : k # p /\ When(r, t, i) = When(q, t, k)
    <2> DEFINE k == IF i < p THEN i ELSE i + 1
    <2>1. k \in 1 .. Len(q) /\ When(r, t, i) = When(q, t, k)
      BY <1>2
    <2>2. k # p
      OBVIOUS
    <2> HIDE DEF k
    <2> QED  BY <2>1, <2>2
  <1>4. \A k \in 1 .. Len(q) : k # p => q[k].type # "COMPARE"
    BY DEF Filed
  <1>5. \A k \in 1 .. Len(q) : k # p => When(q, t, k) - v < Modulus /\ When(q, t, k) < Modulus
    BY <1>4 DEF Spread, v
  <1>6. \A k \in 1 .. Len(q) : k # p => -Late(v) <= When(q, t, k)
                                        /\ When(q, t, k) < Modulus - Late(v)
    BY <1>1, <1>5, RangeLarge DEF Late
  <1>7. Within(r, t, Late(v))
    BY <1>3, <1>6 DEF Within
  <1> QED  BY <1>7 DEF r, v

\* ... and so does the line, without the events that do not move with COUNT.
LEMMA ShiftedLined ==
    ASSUME Hosted, NEW q, Filed(q), NEW n \in Int, NEW k, NEW t, Strung(q, n, k, t),
           "COMPARE" \notin Types(q), "SPECIAL" \notin Types(q),
           NEW l \in Nat, Within(q, t, l), Fresh(q, t),
           NEW base \in Counts, NEW compare \in Counts
    PROVE  LET r == Moved(q, n, base)
           IN  /\ Filed(r) /\ Types(r) = Types(q)
               /\ \E u : Queued(r, base, compare, u) /\ Within(r, u, l) /\ Fresh(r, u)
  <1> DEFINE r == Moved(q, n, base)
  <1>1. base \in Int /\ 0 \in Int
    BY RangeLarge DEF Counts
  <1>2. PICK w \in Int : compare = U(base + w)
    BY <1>1, TimeOf
  <1>3. Timed(q, n, t) /\ t \in Times
    BY DEF Strung, Timed
  <1> DEFINE u == [t EXCEPT !["COMPARE"] = w]
  <1>4. /\ Filed(r) /\ Types(r) = Types(q) /\ Timed(r, base, u) /\ Len(r) = Len(q)
        /\ \A i \in 1 .. Len(q) : r[i].type = q[i].type /\ When(r, u, i) = When(q, t, i)
    BY <1>3, Shifted
  <1>5. u["COMPARE"] = w /\ u["VI"] = t["VI"]
    BY <1>3 DEF Times, Hosted, EventTypes, CoreEvents
  <1> HIDE DEF r, u
  <1>6. Within(r, u, l) /\ Fresh(r, u)
    BY <1>4 DEF Within, Fresh
  <1>7. Spread(r, u)
    <2>1. Settled(r, u)
      BY <1>4, <1>6, WithinSettled DEF Timed
    <2> QED  BY <2>1, SettledSpread
  <1>8. Near(r, u) /\ {"HW2", "NMI"} \cap Types(r) = {} /\ "SPECIAL" \notin Types(r)
    BY <1>4, <1>5 DEF Near, Strung
  <1>9. Queued(r, base, compare, u)
    BY <1>2, <1>4, <1>5, <1>7, <1>8 DEF Queued, Strung, Dark
  <1> QED  BY <1>4, <1>6, <1>9 DEF r

\* The line without its anchors, moved to the new COUNT.
LEMMA MovedLined ==
    ASSUME Hosted, NEW longest \in Nat, Paced(longest), NEW c, Steady(c), NEW t,
           Lined(c, t, 0, 0), NEW base \in Counts
    PROVE  LET kept    == RemoveEvent(RemoveEvent(c, "COMPARE"), "SPECIAL")
               shifted == [kept EXCEPT
                             !.q = Moved(kept.q, c.count, base), !.count = base]
               l == Late(When(c.q, t, 1))
           IN  /\ shifted \in Machine /\ Filed(shifted.q) /\ shifted.count = base
               /\ shifted.compare = c.compare
               /\ Types(shifted.q) = Types(c.q) \ {"COMPARE", "SPECIAL"}
               /\ l \in Nat /\ l < HalfRange /\ Origin(shifted) = U(base - l)
               /\ \E u : /\ Queued(shifted.q, base, shifted.compare, u)
                         /\ Within(shifted.q, u, l) /\ Fresh(shifted.q, u)
  <1> DEFINE less    == RemoveEvent(c, "COMPARE")
             kept    == RemoveEvent(less, "SPECIAL")
             moved   == Moved(kept.q, c.count, base)
             shifted == [kept EXCEPT !.q = moved, !.count = base]
             v       == When(c.q, t, 1)
             l       == Late(v)
  <1>1. /\ Headed(c, t) /\ Line(c) = c.q /\ Filed(c.q) /\ c.q # <<>> /\ c \in Machine
        /\ Queued(c.q, c.count, c.compare, t) /\ Fresh(c.q, t)
        /\ c.count \in Counts /\ c.count \in Int /\ c.compare \in Counts /\ base \in Int
    <2>1. 0 \in {0, longest} /\ 0 \in {0, 1}
      OBVIOUS
    <2>2. /\ Headed(c, t) /\ Line(c) = c.q /\ Filed(c.q) /\ c.q # <<>> /\ c \in Machine
          /\ Queued(c.q, c.count, c.compare, t)
      BY <2>1, SteadyHeaded
    <2>3. Fresh(c.q, t)
      BY <2>2, LinedFresh
    <2> QED  BY <2>2, <2>3, MachineInts, RangeLarge DEF Counts
  <1>2. {"SPECIAL", "COMPARE"} \subseteq Types(c.q) /\ "CHECK" \notin Types(c.q)
    BY DEF Steady, Sound
  <1>3. /\ v \in Int /\ c.cycle = -v /\ l \in Nat /\ l < HalfRange
    BY <1>1 DEF Headed
  <1>4. Strung(c.q, c.count, c.compare, t) /\ Timed(c.q, c.count, t) /\ Spread(c.q, t)
    BY <1>1 DEF Queued, Strung
  <1>5. /\ Kept(less, c) /\ less.cycle = c.cycle /\ Types(less.q) = Types(c.q) \ {"COMPARE"}
        /\ Filed(less.q) /\ Strung(less.q, c.count, c.compare, t) /\ Fresh(less.q, t)
        /\ Within(less.q, t, l)
    <2>1. /\ Kept(less, c) /\ less.cycle = c.cycle /\ Types(less.q) = Types(c.q) \ {"COMPARE"}
          /\ \E p \in 1 .. Len(c.q) : c.q[p].type = "COMPARE" /\ less.q = RemoveAt(c.q, p)
      BY <1>1, <1>2, Withdrawn
    <2> HIDE DEF less, l
    <2>2. PICK p \in 1 .. Len(c.q) : c.q[p].type = "COMPARE" /\ less.q = RemoveAt(c.q, p)
      BY <2>1
    <2>3. LET r == RemoveAt(c.q, p)
          IN  /\ Filed(r) /\ Strung(r, c.count, c.compare, t)
              /\ Fresh(c.q, t) => Fresh(r, t)
      BY <1>1, <1>4, LeaveLined
    <2>4. Within(RemoveAt(c.q, p), t, l)
      BY <1>1, <1>4, <2>2, SpreadWithin DEF l
    <2> QED  BY <1>1, <2>1, <2>2, <2>3, <2>4
  <1> HIDE DEF less, v, l
  <1>6. /\ Kept(kept, c) /\ kept.cycle = -v
        /\ Types(kept.q) = Types(c.q) \ {"COMPARE", "SPECIAL"}
        /\ Filed(kept.q) /\ Strung(kept.q, c.count, c.compare, t) /\ Fresh(kept.q, t)
        /\ Within(kept.q, t, l)
    <2>1. less \in Machine /\ "SPECIAL" \in Types(less.q)
      BY <1>2, <1>5 DEF Kept
    <2>2. /\ Kept(kept, less) /\ kept.cycle = less.cycle
          /\ Types(kept.q) = Types(less.q) \ {"SPECIAL"}
          /\ \E p \in 1 .. Len(less.q) : less.q[p].type = "SPECIAL"
                                         /\ kept.q = RemoveAt(less.q, p)
      BY <1>5, <2>1, Withdrawn
    <2> HIDE DEF kept
    <2>3. PICK p \in 1 .. Len(less.q) : kept.q = RemoveAt(less.q, p)
      BY <2>2
    <2>4. LET r == RemoveAt(less.q, p)
          IN  /\ Filed(r) /\ Strung(r, c.count, c.compare, t)
              /\ Fresh(less.q, t) => Fresh(r, t)
              /\ \A z \in Nat : Within(less.q, t, z) => Within(r, t, z)
      BY <1>1, <1>5, LeaveLined
    <2>5. Kept(kept, c)
      BY <1>5, <2>2 DEF Kept
    <2>6. kept.cycle = -v /\ Types(kept.q) = Types(c.q) \ {"COMPARE", "SPECIAL"}
      BY <1>3, <1>5, <2>2
    <2> QED  BY <1>3, <1>5, <2>3, <2>4, <2>5, <2>6
  <1> HIDE DEF kept
  <1>7. Filed(moved) /\ Types(moved) = Types(kept.q)
    BY <1>1, <1>3, <1>6, ShiftedLined
  <1>8. \E z : Queued(moved, base, c.compare, z) /\ Within(moved, z, l) /\ Fresh(moved, z)
    BY <1>1, <1>3, <1>6, ShiftedLined
  <1> HIDE DEF moved
  <1>11. /\ shifted \in Machine /\ shifted.q = moved /\ shifted.count = base
         /\ shifted.compare = c.compare /\ shifted.cycle = -v
    <2>1. moved \in Seq(Events) /\ kept \in Machine /\ kept.compare = c.compare
      BY <1>6, <1>7 DEF Filed, Kept
    <2> QED  BY <1>6, <2>1 DEF Machine
  <1>12. Origin(shifted) = U(base - l)
    BY <1>3, <1>11, OriginOf DEF l
  <1> HIDE DEF shifted
  <1>13. /\ shifted \in Machine /\ Filed(shifted.q) /\ shifted.count = base
         /\ shifted.compare = c.compare
         /\ Types(shifted.q) = Types(c.q) \ {"COMPARE", "SPECIAL"}
         /\ l \in Nat /\ l < HalfRange /\ Origin(shifted) = U(base - l)
    BY <1>3, <1>6, <1>7, <1>11, <1>12
  <1>14. \E z : /\ Queued(shifted.q, base, shifted.compare, z)
                /\ Within(shifted.q, z, l) /\ Fresh(shifted.q, z)
    BY <1>8, <1>11
  <1> QED  BY <1>13, <1>14 DEF shifted, moved, kept, less, l, v

\* ... and the anchors are armed again, SPECIAL_INT and then COMPARE_INT.
LEMMA AnchorsLined ==
    ASSUME Hosted, NEW longest \in Nat, Paced(longest), NEW c \in Machine, Filed(c.q),
           "COMPARE" \notin Types(c.q), "SPECIAL" \notin Types(c.q), "CHECK" \notin Types(c.q),
           NEW l \in Nat, l < HalfRange, Origin(c) = U(c.count - l),
           NEW t, Queued(c.q, c.count, c.compare, t), Within(c.q, t, l), Fresh(c.q, t)
    PROVE  LET d == AddCompare(AddSpecial(c), c.compare)
           IN  /\ Kept(d, c) /\ Line(d) = d.q
               /\ \E u : Queued(d.q, d.count, d.compare, u) /\ Slack(d.q, u, longest, 0)
  <1> DEFINE armed == AddSpecial(c)
             d     == AddCompare(armed, c.compare)
  <1>1. c.count \in Int /\ c.compare \in Counts /\ t \in Times
        /\ {"HW2", "NMI"} \cap Types(c.q) = {}
    BY MachineInts DEF Queued, Strung, Timed
  <1>2. /\ Kept(armed, c) /\ Filed(armed.q) /\ Types(armed.q) = Types(c.q) \cup {"SPECIAL"}
        /\ armed.q # <<>> /\ Mirrored(armed)
        /\ Relined(armed.q, c.q, c.count, c.compare, t)
    BY SpecialLined
  <1> HIDE DEF armed
  <1>3. PICK u : /\ Queued(armed.q, c.count, c.compare, u) /\ Settled(armed.q, u)
                 /\ Eased(armed.q, u, c.q, t)
    BY <1>2 DEF Relined
  <1>4. Types(c.q) \cap Transient = {} /\ Types(armed.q) \cap Transient = {}
    BY <1>1, <1>2 DEF Transient
  <1>5. /\ armed \in Machine /\ armed.count = c.count
    BY <1>2 DEF Kept
  <1>6. Strung(armed.q, c.count, c.compare, u) /\ Timed(armed.q, c.count, u) /\ u \in Times
    BY <1>3 DEF Queued, Strung, Timed
  <1>7. Slack(armed.q, u, 0, 0) /\ Fresh(armed.q, u)
    <2>1. 0 \in Nat /\ 0 \in {0, 1}
      OBVIOUS
    <2>2. \A pace \in Nat : Slack(c.q, t, pace, 0)
      BY <1>1, <1>4, <2>1, FreshSlack
    <2>3. Slack(armed.q, u, 0, 0)
      BY <1>3, <2>1, <2>2 DEF Eased
    <2>4. \A x \in {0, 1} : Slack(armed.q, u, 0, x) => Fresh(armed.q, u)
      BY <1>2, <1>4, <1>6, FreshSlack
    <2> QED  BY <2>1, <2>3, <2>4
  <1> DEFINE v     == When(armed.q, u, 1)
             delta == IF v < CountPerOp THEN v ELSE CountPerOp
  <1>8. Headed(armed, u)
    <2>1. 0 \in {0, longest} /\ 0 \in {0, 1}
      OBVIOUS
    <2>2. "SPECIAL" \in Types(armed.q) /\ "CHECK" \notin Types(armed.q)
      BY <1>2
    <2>3. Strung(armed.q, armed.count, c.compare, u)
      BY <1>5, <1>6
    <2> QED  BY <1>2, <1>5, <1>7, <2>1, <2>2, <2>3, LineHead
  <1>9. Recalled(armed.q, u, v)
    BY <1>2, <1>3, <1>6, HeadRecalled
  <1>10. /\ v \in Int /\ CountPerOp - HalfRange < v /\ v <= HalfRange /\ armed.cycle = -v
         /\ -v <= MaxLate
    <2>1. 1 \in 1 .. Len(armed.q)
      BY <1>8 DEF Headed
    <2> QED  BY <1>7, <1>8, <2>1 DEF Headed, Fresh
  <1> HIDE DEF v
  <1>11. delta \in Int /\ delta = IF v < CountPerOp THEN v ELSE CountPerOp
    BY <1>10, CountPerOpAssumption
  <1>12. -delta <= MaxLate /\ MaxLate \in Nat
    BY <1>10, <1>11, CountPerOpAssumption, LateAssumption
  <1> HIDE DEF delta
  <1>13. PICK w \in Int : delta <= w /\ w < Modulus + delta /\ c.compare = U(c.count + w)
    BY <1>1, <1>11, TimeOf
  <1>14. -w <= MaxLate
    BY <1>11, <1>12, <1>13
  <1> DEFINE z == [u EXCEPT !["COMPARE"] = w]
  <1>15. /\ Kept(d, armed) /\ Filed(d.q) /\ d.q # <<>>
         /\ Types(d.q) = Types(armed.q) \cup {"COMPARE"}
         /\ Queued(d.q, c.count, c.compare, z) /\ Fresh(d.q, z)
    <2>1. "COMPARE" \notin Types(armed.q) /\ Queued(armed.q, armed.count, c.compare, u)
          /\ c.compare = U(armed.count + w)
      BY <1>2, <1>3, <1>5, <1>13
    <2>2. LET f == AddCompare(armed, U(armed.count + w))
              y == [u EXCEPT !["COMPARE"] = w]
          IN  /\ Kept(f, armed) /\ Filed(f.q) /\ Types(f.q) = Types(armed.q) \cup {"COMPARE"}
              /\ f.q # <<>>
              /\ Queued(f.q, armed.count, U(armed.count + w), y)
              /\ -w <= MaxLate /\ Fresh(armed.q, u) => Fresh(f.q, y)
      <3>1. /\ armed \in Machine /\ Filed(armed.q) /\ armed.q # <<>>
            /\ "COMPARE" \notin Types(armed.q) /\ Queued(armed.q, armed.count, c.compare, u)
        BY <1>2, <1>5, <2>1
      <3>2. /\ v \in Int /\ armed.cycle = -v /\ CountPerOp - HalfRange < v /\ v <= HalfRange
            /\ delta \in Int /\ delta = IF v < CountPerOp THEN v ELSE CountPerOp
            /\ delta <= w /\ w < Modulus + delta
        BY <1>10, <1>11, <1>13
      <3>3. LET f == AddCompare(armed, U(armed.count + w))
            IN  /\ Kept(f, armed) /\ Filed(f.q) /\ Types(f.q) = Types(armed.q) \cup {"COMPARE"}
                /\ f.q # <<>>
        BY <1>9, <3>1, <3>2, CompareLined
      <3>4. LET f == AddCompare(armed, U(armed.count + w))
                y == [u EXCEPT !["COMPARE"] = w]
            IN  Queued(f.q, armed.count, U(armed.count + w), y)
        BY <1>9, <3>1, <3>2, CompareLined
      <3>5. LET f == AddCompare(armed, U(armed.count + w))
                y == [u EXCEPT !["COMPARE"] = w]
            IN  -w <= MaxLate /\ Fresh(armed.q, u) => Fresh(f.q, y)
        BY <1>9, <3>1, <3>2, CompareLined
      <3> QED  BY <3>3, <3>4, <3>5
    <2> QED  BY <1>5, <1>7, <1>14, <2>1, <2>2
  <1> HIDE DEF d, z
  <1>16. Types(d.q) \cap Transient = {} /\ "CHECK" \notin Types(d.q) /\ z \in Times
    <2>1. "COMPARE" \notin Transient /\ "CHECK" \in Transient
      BY DEF Transient
    <2> QED  BY <1>4, <1>15, <2>1 DEF Queued, Strung, Timed
  <1>17. Slack(d.q, z, longest, 0)
    <2>1. 0 \in {0, 1}
      OBVIOUS
    <2>2. Fresh(d.q, z) => \A pace \in Nat : Slack(d.q, z, pace, 0)
      BY <1>15, <1>16, <2>1, FreshSlack
    <2> QED  BY <1>15, <2>2
  <1>18. Line(d) = d.q
    BY <1>15, <1>16, LineOf
  <1>19. Kept(d, c)
    BY <1>2, <1>15 DEF Kept
  <1>20. Queued(d.q, d.count, d.compare, z)
    BY <1>15, <1>19 DEF Kept
  <1> QED  BY <1>17, <1>18, <1>19, <1>20 DEF d, armed

LEMMA TranslateLined ==
    ASSUME Hosted, NEW longest \in Nat, Paced(longest), NEW c, Steady(c), NEW t,
           Lined(c, t, 0, 0), NEW base \in Counts
    PROVE  \E u : Lined(TranslateEventQueue(c, base, c.compare), u, longest, 0)
  <1> DEFINE kept    == RemoveEvent(RemoveEvent(c, "COMPARE"), "SPECIAL")
             shifted == [kept EXCEPT !.q = Moved(kept.q, c.count, base), !.count = base]
             l       == Late(When(c.q, t, 1))
             d       == AddCompare(AddSpecial(shifted), c.compare)
  <1>1. TranslateEventQueue(c, base, c.compare) = d
    BY DEF TranslateEventQueue, Moved
  <1>2. /\ shifted \in Machine /\ Filed(shifted.q) /\ shifted.count = base
        /\ shifted.compare = c.compare
        /\ Types(shifted.q) = Types(c.q) \ {"COMPARE", "SPECIAL"}
        /\ l \in Nat /\ l < HalfRange /\ Origin(shifted) = U(base - l)
        /\ \E u : /\ Queued(shifted.q, base, shifted.compare, u)
                  /\ Within(shifted.q, u, l) /\ Fresh(shifted.q, u)
    BY MovedLined
  <1> HIDE DEF shifted, l
  <1>3. PICK u : /\ Queued(shifted.q, base, shifted.compare, u)
                 /\ Within(shifted.q, u, l) /\ Fresh(shifted.q, u)
    BY <1>2
  <1>4. "CHECK" \notin Types(shifted.q) /\ "COMPARE" \notin Types(shifted.q)
        /\ "SPECIAL" \notin Types(shifted.q)
    BY <1>2 DEF Steady
  <1>5. Queued(shifted.q, shifted.count, shifted.compare, u)
        /\ Origin(shifted) = U(shifted.count - l)
    BY <1>2, <1>3
  <1>6. LET f == AddCompare(AddSpecial(shifted), shifted.compare)
        IN  /\ Kept(f, shifted) /\ Line(f) = f.q
            /\ \E z : Queued(f.q, f.count, f.compare, z) /\ Slack(f.q, z, longest, 0)
    BY <1>2, <1>3, <1>4, <1>5, AnchorsLined
  <1>7. /\ Line(d) = d.q
        /\ \E z : Queued(d.q, d.count, d.compare, z) /\ Slack(d.q, z, longest, 0)
    BY <1>2, <1>6
  <1> HIDE DEF d
  <1>8. \E z : Lined(d, z, longest, 0)
    BY <1>7 DEF Lined
  <1> QED  BY <1>1, <1>8

LEMMA MtcCountLined ==
    ASSUME Hosted, NEW longest \in Nat, Paced(longest), Steady(m), NEW t,
           Lined(m, t, longest, 0), NEW n \in Steps, NEW value \in CountWrites,
           NEW slot \in BOOLEAN, MtcCount(n, value, slot)
    PROVE  \E u : Lined(m', u, longest, 0)
  <1> DEFINE now    == UpdateCount(m, n)
             served == GenIfDue(now, TRUE, FALSE)
  <1>1. slot = FALSE /\ value \in Counts
    BY WritesAssumption DEF MtcCount, Hosted
  <1>2. m' = TranslateEventQueue(served, value, served.compare)
    BY <1>1 DEF MtcCount, EndBranch
  <1>3. Inside(now, Elapsed(t, n))
    BY BlockInside DEF MtcCount
  <1> HIDE DEF now
  <1>4. Steady(now) /\ Screened(Line(now), now.count)
    BY <1>3 DEF Inside
  <1>5. Lined(now, Elapsed(t, n), 0, 1)
    <2>1. 0 \in Nat /\ 1 \in {0, 1}
      OBVIOUS
    <2> QED  BY <1>3, <2>1, InsideLined
  <1>6. InLine(served, 0)
    <2>1. 0 \in {0, longest} /\ FALSE \in BOOLEAN
      OBVIOUS
    <2> QED  BY <1>4, <1>5, <2>1, GenLined
  <1>7. Steady(served)
    <2>1. FALSE \in BOOLEAN
      OBVIOUS
    <2>2. Served(served, FALSE)
      BY <1>4, <2>1, GenServed
    <2> QED  BY <2>2 DEF Served
  <1> HIDE DEF served
  <1>8. PICK u : Lined(served, u, 0, 0)
    BY <1>6 DEF InLine
  <1>9. \E z : Lined(TranslateEventQueue(served, value, served.compare), z, longest, 0)
    BY <1>1, <1>7, <1>8, TranslateLined
  <1> QED  BY <1>2, <1>9

-----------------------------------------------------------------------------
(* A reload.                                                                *)

\* A COMPARE that has just been armed lags a range of COUNT behind what a load can tell.
Lagging(t) == t["COMPARE"] >= Modulus

\* The times that the load gives the events.
Unlagged(t) == [t EXCEPT !["COMPARE"] = IF Lagging(t) THEN @ - Modulus ELSE @]

LEMMA UnlaggedTimes ==
    ASSUME NEW t \in Times
    PROVE  /\ Unlagged(t) \in Times /\ t["COMPARE"] \in Int
           /\ \A type \in EventTypes \ {"COMPARE"} : Unlagged(t)[type] = t[type]
           /\ Lagging(t) => Unlagged(t)["COMPARE"] = t["COMPARE"] - Modulus
           /\ ~Lagging(t) => Unlagged(t) = t
           /\ \A n \in Int : U(n + Unlagged(t)["COMPARE"]) = U(n + t["COMPARE"])
  <1> DEFINE x == t["COMPARE"]
             y == IF Lagging(t) THEN x - Modulus ELSE x
             u == [t EXCEPT !["COMPARE"] = y]
  <1>1. Unlagged(t) = u
    BY DEF Unlagged
  <1>2. "COMPARE" \in EventTypes
    BY DEF EventTypes, CoreEvents
  <1>3. x \in Int /\ y \in Int /\ Modulus \in Nat
    BY <1>2, RangeLarge DEF Times
  <1> HIDE DEF y
  <1>4. /\ u \in Times /\ u["COMPARE"] = y
        /\ \A type \in EventTypes \ {"COMPARE"} : u[type] = t[type]
    BY <1>2, <1>3 DEF Times
  <1>5. ~Lagging(t) => u = t
    <2>1. ~Lagging(t) => y = x
      BY DEF y
    <2> QED  BY <2>1, <1>2 DEF Times
  <1>6. ASSUME NEW n \in Int PROVE U(n + y) = U(n + x)
    <2> DEFINE z == n + x
    <2>1. z \in Int /\ -1 \in Int
      BY <1>3
    <2>2. U(z + (-1) * Modulus) = U(z)
      <3> HIDE DEF z
      <3> QED  BY <2>1, SameTurns DEF U
    <2>3. z + (-1) * Modulus = n + (x - Modulus)
      BY <1>3
    <2> QED  BY <2>2, <2>3 DEF y
  <1> HIDE DEF u
  <1>7. Lagging(t) => y = x - Modulus
    BY DEF y
  <1> QED  BY <1>1, <1>3, <1>4, <1>5, <1>6, <1>7

\* The events of the queue lie within a range of COUNT by these times.
LEMMA UnlaggedWithin ==
    ASSUME Hosted, NEW longest \in Nat, Paced(longest), NEW c, Steady(c), NEW t,
           Lined(c, t, longest, 0)
    PROVE  LET u == Unlagged(t)
               v == When(c.q, t, 1)
               l == Late(v)
           IN  /\ u \in Times /\ c.compare = U(c.count + u["COMPARE"])
               /\ u["SPECIAL"] = t["SPECIAL"] /\ u["VI"] = t["VI"]
               /\ v \in Int /\ v <= HalfRange /\ l \in Nat /\ l < HalfRange
               /\ Origin(c) = U(c.count - l)
               /\ u[c.q[1].type] = v
               /\ Lagging(t) => l = 0
               /\ \A i \in 1 .. Len(c.q) :
                     /\ When(c.q, u, i) \in Int /\ -l <= When(c.q, u, i)
                     /\ When(c.q, u, i) < Modulus - l
                     /\ c.q[i].count = U(c.count + When(c.q, u, i))
               /\ ~Lagging(t) => u = t
  <1> DEFINE u == Unlagged(t)
             v == When(c.q, t, 1)
             l == Late(v)
             n == Len(c.q)
  <1>1. /\ Headed(c, t) /\ Filed(c.q) /\ c.q # <<>> /\ t \in Times
        /\ Strung(c.q, c.count, c.compare, t) /\ c.count \in Int
    <2>1. longest \in {0, longest} /\ 0 \in {0, 1}
      OBVIOUS
    <2> QED  BY <2>1, SteadyHeaded DEF Queued
  <1>2. {"SPECIAL", "COMPARE"} \subseteq Types(c.q)
    BY DEF Steady, Sound
  <1>3. /\ v \in Int /\ v <= HalfRange /\ l \in Nat /\ l < HalfRange
        /\ Origin(c) = U(c.count - l) /\ 1 \in 1 .. n
    BY <1>1 DEF Headed
  <1>4. Timed(c.q, c.count, t) /\ Spread(c.q, t) /\ c.compare = U(c.count + t["COMPARE"])
    BY <1>1 DEF Strung
  <1>5. \A i \in 1 .. n : When(c.q, t, i) \in Int /\ v <= When(c.q, t, i)
    BY <1>1, <1>4, HeadFirst
  <1>6. /\ u \in Times /\ t["COMPARE"] \in Int
        /\ \A type \in EventTypes \ {"COMPARE"} : u[type] = t[type]
        /\ Lagging(t) => u["COMPARE"] = t["COMPARE"] - Modulus
        /\ ~Lagging(t) => u = t
        /\ \A k \in Int : U(k + u["COMPARE"]) = U(k + t["COMPARE"])
    BY <1>1, UnlaggedTimes
  <1> HIDE DEF u, v, l, n
  <1>7. PICK p \in 1 .. n : c.q[p].type = "COMPARE"
    BY <1>2 DEF Types, n
  <1>8. \A i \in 1 .. n : i # p => c.q[i].type \in EventTypes \ {"COMPARE"}
    <2>1. \A i \in 1 .. n : c.q[i].type \in EventTypes
      BY <1>1, WhenType DEF n
    <2>2. \A i \in 1 .. n : i # p => c.q[i].type # "COMPARE"
      BY <1>1, <1>7 DEF Filed, n
    <2> QED  BY <2>1, <2>2
  <1>9. When(c.q, t, p) = t["COMPARE"] /\ When(c.q, u, p) = u["COMPARE"]
    BY <1>7 DEF When
  <1>10. \A i \in 1 .. n : i # p => When(c.q, u, i) = When(c.q, t, i)
    BY <1>6, <1>8 DEF When
  <1>11. \A i \in 1 .. n : c.q[i].count = U(c.count + When(c.q, u, i))
    <2>1. \A i \in 1 .. n : c.q[i].count = U(c.count + When(c.q, t, i))
      BY <1>4 DEF Timed, n
    <2>2. c.q[p].count = U(c.count + When(c.q, u, p))
      BY <1>1, <1>6, <1>7, <1>9, <2>1
    <2> QED  BY <1>10, <2>1, <2>2
  <1>12. \A i \in 1 .. n : When(c.q, t, i) - v < Modulus
    BY <1>4 DEF Spread, v, n
  <1>13. \A i \in 1 .. n : i # p => When(c.q, t, i) < Modulus
    BY <1>4, <1>8 DEF Spread, n
  <1>14. t["COMPARE"] < Modulus + CountPerOp /\ CountPerOp \in Nat /\ CountPerOp < HalfRange
    <2>1. When(c.q, t, p) < Modulus \/ When(c.q, t, p) < Modulus + CountPerOp
      BY <1>4, <1>7 DEF Spread, n
    <2>2. CountPerOp \in Nat /\ CountPerOp < HalfRange
      BY <1>3, CountPerOpAssumption, LateAssumption, RangeLarge DEF Paced
    <2> QED  BY <1>6, <1>9, <2>1, <2>2, RangeLarge
  <1>15. Lagging(t) => l = 0 /\ v > 0
    BY <1>3, <1>6, <1>7, <1>9, <1>12, RangeLarge DEF Lagging, l, Late
  <1>16. ASSUME NEW i \in 1 .. n
         PROVE  /\ When(c.q, u, i) \in Int /\ -l <= When(c.q, u, i)
                /\ When(c.q, u, i) < Modulus - l
    <2>1. CASE i = p /\ Lagging(t)
      <3>1. When(c.q, u, i) = t["COMPARE"] - Modulus
        BY <1>6, <1>9, <2>1
      <3> QED  BY <1>6, <1>14, <1>15, <2>1, <3>1, RangeLarge DEF Lagging
    <2>2. CASE ~(i = p /\ Lagging(t))
      <3>1. When(c.q, u, i) = When(c.q, t, i)
        BY <1>6, <1>10, <2>2
      <3>2. When(c.q, t, i) < Modulus
        BY <1>6, <1>9, <1>13, <2>2, RangeLarge DEF Lagging
      <3>3. When(c.q, t, i) \in Int /\ v <= When(c.q, t, i) /\ When(c.q, t, i) - v < Modulus
        BY <1>5, <1>12
      <3> QED  BY <1>3, <3>1, <3>2, <3>3, RangeLarge DEF l, Late
    <2> QED  BY <2>1, <2>2
  <1>17. u[c.q[1].type] = v
    <2>1. When(c.q, u, 1) = When(c.q, t, 1)
      <3>1. CASE ~Lagging(t)
        BY <1>6, <3>1
      <3>2. CASE Lagging(t)
        <4>1. 1 # p
          <5> SUFFICES ASSUME 1 = p PROVE FALSE
            OBVIOUS
          <5>1. v = t["COMPARE"]
            BY <1>9 DEF v
          <5> QED  BY <1>3, <3>2, <5>1, RangeLarge DEF Lagging
        <4> QED  BY <1>3, <1>10, <4>1
      <3> QED  BY <3>1, <3>2
    <2> QED  BY <2>1 DEF When, v
  <1>18. u["SPECIAL"] = t["SPECIAL"] /\ u["VI"] = t["VI"]
    BY <1>6 DEF Hosted, EventTypes, CoreEvents
  <1>19. c.compare = U(c.count + u["COMPARE"])
    BY <1>1, <1>4, <1>6
  <1> QED  BY <1>3, <1>6, <1>11, <1>15, <1>16, <1>17, <1>18, <1>19 DEF u, v, l, n

\* One insertion of a load: an event of a known time, which may be overdue.
LEMMA LoadedOne ==
    ASSUME Hosted, NEW d \in Machine, Filed(d.q), NEW t, NEW l \in Nat,
           Timed(d.q, d.count, t), Within(d.q, t, l), Origin(d) = U(d.count - l),
           NEW e \in Events, e.type \notin Types(d.q),
           NEW w \in Int, t[e.type] = w, -l <= w, w < Modulus - l, e.count = U(d.count + w)
    PROVE  LET f == AddInterruptEventCount(d, e.type, e.count)
           IN  /\ Kept(f, d) /\ Filed(f.q) /\ Types(f.q) = Types(d.q) \cup {e.type}
               /\ f.q # <<>> /\ Mirrored(f)
               /\ Timed(f.q, d.count, t) /\ Within(f.q, t, l)
               /\ (\A i \in 1 .. Len(d.q) : When(d.q, t, i) <= w) =>
                     /\ Len(f.q) = Len(d.q) + 1 /\ f.q[Len(d.q) + 1] = e
                     /\ \A i \in 1 .. Len(d.q) : f.q[i] = d.q[i]
  <1> DEFINE p == InsertPosition(d, e.count)
             f == AddInterruptEventCount(d, e.type, e.count)
             n == Len(d.q)
             type == e.type
  <1>1. d.count \in Int /\ l \in Int /\ n \in Nat
    BY MachineInts DEF Filed
  <1>2. type \in EventTypes \ Types(d.q) /\ e.count \in Counts /\ Event(type, e.count) = e
    BY DEF Events, Event
  <1>3. /\ p \in 1 .. n + 1
        /\ \A i \in 1 .. n : i < p => When(d.q, t, i) <= w
        /\ \A i \in 1 .. n : i >= p => w < When(d.q, t, i)
    <2>1. LET s == InsertPosition(d, U(d.count + w))
          IN  /\ s \in 1 .. Len(d.q) + 1
              /\ \A i \in 1 .. Len(d.q) : i < s => When(d.q, t, i) <= w
              /\ \A i \in 1 .. Len(d.q) : i >= s => w < When(d.q, t, i)
      BY <1>1, Placed
    <2> QED  BY <2>1
  <1>4. /\ Kept(f, d) /\ Filed(f.q) /\ Types(f.q) = Types(d.q) \cup {type}
        /\ f.q # <<>> /\ Mirrored(f)
    BY <1>2, AddKept
  <1>5. f.q = InsertAt(d.q, p, e)
    <2>1. f.q = InsertAt(d.q, p, Event(type, e.count))
      BY <1>2, AddQueue
    <2> QED  BY <1>2, <2>1
  <1> HIDE DEF p, f
  <1>6. Timed(f.q, d.count, t) /\ Joined(f.q, t, d.q, t, p, e, w)
    <2> DEFINE u == [t EXCEPT ![type] = w]
    <2>1. LET r == InsertAt(d.q, p, Event(type, U(d.count + w)))
          IN  Timed(r, d.count, u) /\ Joined(r, u, d.q, t, p, Event(type, U(d.count + w)), w)
      BY <1>1, <1>2, <1>3, InsertTimed
    <2>2. u = t
      BY <1>2 DEF Timed, Times
    <2> HIDE DEF u, type
    <2> QED  BY <1>2, <1>5, <2>1, <2>2
  <1>7. Within(f.q, t, l)
    <2> SUFFICES ASSUME NEW i \in 1 .. n + 1
                 PROVE  -l <= When(f.q, t, i) /\ When(f.q, t, i) < Modulus - l
      BY <1>6 DEF Within, Joined, n
    <2>1. i < p \/ i = p \/ i > p
      BY <1>3
    <2> QED  BY <1>1, <1>6, <2>1 DEF Joined, Within, n
  <1>8. ASSUME \A i \in 1 .. n : When(d.q, t, i) <= w
        PROVE  /\ Len(f.q) = n + 1 /\ f.q[n + 1] = e
               /\ \A i \in 1 .. n : f.q[i] = d.q[i]
    <2>1. p = n + 1
      <3> SUFFICES ASSUME p # n + 1 PROVE FALSE
        OBVIOUS
      <3>1. p \in 1 .. n
        BY <1>1, <1>3
      <3>2. w < When(d.q, t, p) /\ When(d.q, t, p) <= w
        BY <1>3, <1>8, <3>1
      <3>3. When(d.q, t, p) \in Int
        BY <3>1, WhenType DEF Timed, n
      <3> QED  BY <3>2, <3>3
    <2>2. \A i \in 1 .. n : i \in 1 .. n + 1 /\ i < p
      BY <1>1, <2>1
    <2> QED  BY <1>1, <1>6, <2>1, <2>2 DEF Joined, n
  <1> QED  BY <1>4, <1>6, <1>7, <1>8 DEF f, n, type

\* The origin stays where it was while the overdue events are loaded.
LEMMA OriginHeld ==
    ASSUME NEW f \in Machine, Filed(f.q), f.q # <<>>, Mirrored(f), NEW t, Timed(f.q, f.count, t),
           NEW v \in Int, v <= HalfRange, NEW l \in Nat, l = Late(v), l < HalfRange,
           Within(f.q, t, l), NEW type \in Types(f.q), t[type] = v
    PROVE  Origin(f) = U(f.count - l)
  <1> DEFINE w == When(f.q, t, 1)
  <1>1. 1 \in 1 .. Len(f.q) /\ w \in Int /\ w <= v
    BY HeadFirst
  <1>2. -l <= w
    BY <1>1 DEF Within
  <1>3. f.q[1].count = U(f.count + w)
    BY <1>1 DEF Timed
  <1> HIDE DEF w
  <1>4. -HalfRange < w /\ w <= HalfRange
    BY <1>1, <1>2, RangeLarge
  <1>5. f.cycle = -w
    BY <1>1, <1>3, <1>4, CycleOf
  <1>6. Origin(f) = U(f.count - Late(w))
    BY <1>1, <1>5, OriginOf
  <1>7. Late(w) = l
    <2>1. CASE v < 0
      <3>1. l = -v /\ w = v
        BY <1>1, <1>2, <2>1 DEF Late
      <3> QED  BY <2>1, <3>1 DEF Late
    <2>2. CASE v >= 0
      <3>1. l = 0 /\ ~(w < 0)
        BY SMTT(40), <1>1, <1>2, <2>2 DEF Late
      <3> QED  BY <3>1 DEF Late
    <2> QED  BY <2>1, <2>2
  <1> QED  BY <1>6, <1>7

\* The events that the first k insertions of a load have put in a queue d.q, at the times
\* u; in the order of q if that is the order of their times.
Filled(d, c, u, l, k) ==
    /\ Kept(d, c) /\ Filed(d.q) /\ Types(d.q) = {c.q[i].type : i \in 1 .. k}
    /\ Timed(d.q, c.count, u) /\ Within(d.q, u, l) /\ Origin(d) = U(c.count - l)
    /\ Timed(c.q, c.count, u) => Len(d.q) = k /\ \A i \in 1 .. k : d.q[i] = c.q[i]

LEMMA FilledStep ==
    ASSUME Hosted, NEW c \in Machine, Filed(c.q), NEW u \in Times,
           NEW v \in Int, v <= HalfRange, NEW l \in Nat, l = Late(v), l < HalfRange,
           u[c.q[1].type] = v,
           \A i \in 1 .. Len(c.q) :
              /\ When(c.q, u, i) \in Int /\ -l <= When(c.q, u, i)
              /\ When(c.q, u, i) < Modulus - l
              /\ c.q[i].count = U(c.count + When(c.q, u, i)),
           NEW k \in Nat, k + 1 <= Len(c.q), NEW d, Filled(d, c, u, l, k)
    PROVE  Filled(AddInterruptEventCount(d, c.q[k + 1].type, c.q[k + 1].count), c, u, l, k + 1)
  <1> DEFINE n == Len(c.q)
             e == c.q[k + 1]
             w == When(c.q, u, k + 1)
             f == AddInterruptEventCount(d, e.type, e.count)
  <1>1. n \in Nat /\ k + 1 \in 1 .. n /\ \A i \in 1 .. k : i \in 1 .. n /\ i # k + 1
    BY DEF Filed
  <1>2. /\ d \in Machine /\ d.count = c.count /\ Kept(d, c) /\ Filed(d.q)
        /\ Types(d.q) = {c.q[i].type : i \in 1 .. k}
        /\ Timed(d.q, d.count, u) /\ Within(d.q, u, l) /\ Origin(d) = U(d.count - l)
        /\ Timed(c.q, c.count, u) => Len(d.q) = k /\ \A i \in 1 .. k : d.q[i] = c.q[i]
    BY DEF Filled, Kept
  <1>3. e \in Events
    BY <1>1 DEF Filed
  <1>4. e.type \notin Types(d.q)
    <2>1. \A i \in 1 .. k : c.q[i].type # c.q[k + 1].type
      BY <1>1 DEF Filed
    <2> QED  BY <1>2, <2>1
  <1>5. /\ w \in Int /\ u[e.type] = w /\ -l <= w /\ w < Modulus - l /\ e.count = U(d.count + w)
    BY <1>1, <1>2 DEF When
  <1> HIDE DEF e, w
  <1>6. /\ Kept(f, d) /\ Filed(f.q) /\ Types(f.q) = Types(d.q) \cup {e.type}
        /\ f.q # <<>> /\ Mirrored(f)
        /\ Timed(f.q, d.count, u) /\ Within(f.q, u, l)
        /\ (\A i \in 1 .. Len(d.q) : When(d.q, u, i) <= w) =>
              /\ Len(f.q) = Len(d.q) + 1 /\ f.q[Len(d.q) + 1] = e
              /\ \A i \in 1 .. Len(d.q) : f.q[i] = d.q[i]
    <2>1. /\ d \in Machine /\ Filed(d.q) /\ Timed(d.q, d.count, u) /\ Within(d.q, u, l)
          /\ Origin(d) = U(d.count - l)
      BY <1>2
    <2>2. Timed(f.q, d.count, u) /\ Within(f.q, u, l)
      BY <1>3, <1>4, <1>5, <2>1, LoadedOne
    <2>3. /\ Kept(f, d) /\ Filed(f.q) /\ Types(f.q) = Types(d.q) \cup {e.type}
          /\ f.q # <<>> /\ Mirrored(f)
      <3>1. e.type \in EventTypes \ Types(d.q) /\ e.count \in Counts
        BY <1>3, <1>4 DEF Events
      <3> QED  BY <2>1, <3>1, AddKept
    <2>4. (\A i \in 1 .. Len(d.q) : When(d.q, u, i) <= w) =>
              /\ Len(f.q) = Len(d.q) + 1 /\ f.q[Len(d.q) + 1] = e
              /\ \A i \in 1 .. Len(d.q) : f.q[i] = d.q[i]
      BY SMTT(40), <1>3, <1>4, <1>5, <2>1, LoadedOne
    <2> QED  BY <2>2, <2>3, <2>4
  <1> HIDE DEF f
  <1>7. Types(f.q) = {c.q[i].type : i \in 1 .. k + 1}
    <2>1. \A i : i \in 1 .. k + 1 <=> i \in 1 .. k \/ i = k + 1
      OBVIOUS
    <2> QED  BY <1>2, <1>6, <2>1 DEF e
  <1>8. f \in Machine /\ f.count = c.count /\ Kept(f, c)
    BY <1>2, <1>6 DEF Kept
  <1>9. Origin(f) = U(c.count - l)
    <2>1. c.q[1].type \in Types(f.q)
      <3>1. 1 \in 1 .. k + 1
        OBVIOUS
      <3> QED  BY <1>7, <3>1
    <2>2. Timed(f.q, f.count, u)
      BY <1>2, <1>6, <1>8
    <2> QED  BY <1>6, <1>8, <2>1, <2>2, OriginHeld
  <1>10. ASSUME Timed(c.q, c.count, u)
         PROVE  Len(f.q) = k + 1 /\ \A i \in 1 .. k + 1 : f.q[i] = c.q[i]
    <2>1. Len(d.q) = k /\ \A i \in 1 .. k : d.q[i] = c.q[i]
      BY <1>2, <1>10
    <2>2. \A i \in 1 .. Len(d.q) : When(d.q, u, i) <= w
      <3>1. \A i \in 1 .. k : When(c.q, u, i) <= w
        BY <1>1, <1>10 DEF Timed, w
      <3> QED  BY <2>1, <3>1 DEF When
    <2>3. /\ Len(f.q) = k + 1 /\ f.q[k + 1] = e
          /\ \A i \in 1 .. k : f.q[i] = d.q[i]
      BY <1>6, <2>1, <2>2
    <2>4. \A i \in 1 .. k + 1 : i \in 1 .. k \/ i = k + 1
      OBVIOUS
    <2>5. f.q[k + 1] = c.q[k + 1]
      BY <2>3 DEF e
    <2>6. \A i \in 1 .. k : f.q[i] = c.q[i]
      BY <2>1, <2>3
    <2> HIDE DEF e
    <2> QED  BY <2>3, <2>4, <2>5, <2>6
  <1> QED  BY <1>2, <1>6, <1>7, <1>8, <1>9, <1>10 DEF Filled, f, e

LEMMA RefillFilled ==
    ASSUME Hosted, NEW c \in Machine, Filed(c.q), NEW u \in Times,
           NEW v \in Int, v <= HalfRange, NEW l \in Nat, l = Late(v), l < HalfRange,
           Origin(c) = U(c.count - l), u[c.q[1].type] = v,
           \A i \in 1 .. Len(c.q) :
              /\ When(c.q, u, i) \in Int /\ -l <= When(c.q, u, i)
              /\ When(c.q, u, i) < Modulus - l
              /\ c.q[i].count = U(c.count + When(c.q, u, i))
    PROVE  Filled(Refill(c, c.q)[Len(c.q)], c, u, l, Len(c.q))
  <1> DEFINE n    == Len(c.q)
             r(k) == Refill(c, c.q)[k]
             P(k) == Filled(r(k), c, u, l, k)
             N    == {k \in Nat : k <= n => P(k)}
  <1>1. n \in Nat
    BY DEF Filed
  <1>2. /\ r(0) = ClearQueue(c)
        /\ \A k \in 1 .. n :
              r(k) = AddInterruptEventCount(r(k - 1), c.q[k].type, c.q[k].count)
    BY <1>1, RefillSteps
  <1> HIDE DEF r, n
  <1>3. P(0)
    <2>1. Filed(<<>>) /\ Types(<<>>) = {}
      BY DEF Filed, Types
    <2>2. /\ Kept(ClearQueue(c), c) /\ ClearQueue(c).q = <<>>
          /\ ClearQueue(c).count = c.count /\ ClearQueue(c).cycle = c.cycle
      BY <2>1, Requeued DEF ClearQueue, Kept
    <2>3. {c.q[i].type : i \in 1 .. 0} = {}
      OBVIOUS
    <2>4. Timed(<<>>, c.count, u) /\ Within(<<>>, u, l)
      BY DEF Timed, Within
    <2>5. Origin(ClearQueue(c)) = U(c.count - l)
      BY <2>2 DEF Origin
    <2> QED  BY <1>2, <2>1, <2>2, <2>3, <2>4, <2>5 DEF Filled
  <1>4. ASSUME NEW k \in Nat, k + 1 <= n, P(k) PROVE P(k + 1)
    <2>1. k + 1 \in 1 .. n /\ (k + 1) - 1 = k
      BY <1>1, <1>4
    <2>2. r(k + 1) = AddInterruptEventCount(r(k), c.q[k + 1].type, c.q[k + 1].count)
      BY <1>2, <2>1
    <2> DEFINE d == r(k)
    <2>3. Filled(d, c, u, l, k) /\ k + 1 <= Len(c.q)
      BY <1>4 DEF n
    <2> HIDE DEF d
    <2>4. Filled(AddInterruptEventCount(d, c.q[k + 1].type, c.q[k + 1].count), c, u, l, k + 1)
      BY <2>3, FilledStep
    <2> QED  BY <2>2, <2>4 DEF d
  <1> HIDE DEF P
  <1>5. 0 \in N
    BY <1>3
  <1>6. \A k \in Nat : k \in N => k + 1 \in N
    <2> SUFFICES ASSUME NEW k \in Nat, k <= n => P(k), k + 1 <= n PROVE P(k + 1)
      OBVIOUS
    <2>1. k <= n
      BY <1>1
    <2> QED  BY <1>4, <2>1
  <1>7. n \in N
    <2> HIDE DEF N
    <2>1. Nat \subseteq N
      BY <1>5, <1>6, UpTo
    <2> QED  BY <1>1, <2>1
  <1>8. P(n)
    BY <1>1, <1>7
  <1> QED  BY <1>8 DEF P, n, r

\* A load finds the queue as it was saved, unless COMPARE lags.
LEMMA LoadedQueue ==
    ASSUME Hosted, NEW longest \in Nat, Paced(longest), NEW c, Steady(c), NEW t,
           Lined(c, t, longest, 0)
    PROVE  LET d == Refill(c, c.q)[Len(c.q)]
               l == Late(When(c.q, t, 1))
           IN  /\ Filled(d, c, Unlagged(t), l, Len(c.q))
               /\ ~Lagging(t) => d.q = c.q
  <1> DEFINE u == Unlagged(t)
             v == When(c.q, t, 1)
             l == Late(v)
             d == Refill(c, c.q)[Len(c.q)]
  <1>1. /\ u \in Times /\ v \in Int /\ v <= HalfRange /\ l \in Nat /\ l < HalfRange
        /\ Origin(c) = U(c.count - l) /\ u[c.q[1].type] = v
        /\ \A i \in 1 .. Len(c.q) :
              /\ When(c.q, u, i) \in Int /\ -l <= When(c.q, u, i)
              /\ When(c.q, u, i) < Modulus - l
              /\ c.q[i].count = U(c.count + When(c.q, u, i))
        /\ ~Lagging(t) => u = t
    BY UnlaggedWithin
  <1>2. l = Late(v)
    OBVIOUS
  <1>3. /\ c \in Machine /\ Filed(c.q) /\ Timed(c.q, c.count, t)
    <2>1. longest \in {0, longest} /\ 0 \in {0, 1}
      OBVIOUS
    <2> QED  BY <2>1, SteadyHeaded DEF Queued, Strung
  <1> HIDE DEF u, v, l
  <1>4. Filled(d, c, u, l, Len(c.q))
    BY <1>1, <1>2, <1>3, RefillFilled
  <1> HIDE DEF d
  <1>5. ASSUME ~Lagging(t) PROVE d.q = c.q
    <2>1. Timed(c.q, c.count, u)
      BY <1>1, <1>3, <1>5
    <2>2. Len(d.q) = Len(c.q) /\ \A i \in 1 .. Len(c.q) : d.q[i] = c.q[i]
      BY <1>4, <2>1 DEF Filled
    <2>3. d.q \in Seq(Events) /\ c.q \in Seq(Events)
      BY <1>3, <1>4 DEF Filled, Filed
    <2> QED  BY <2>2, <2>3
  <1> QED  BY <1>4, <1>5 DEF d, u, v, l

LEMMA ReloadLined ==
    ASSUME Hosted, NEW longest \in Nat, Paced(longest), NEW c, Steady(c), NEW t,
           Lined(c, t, longest, 0)
    PROVE  \E z : Lined(LoadEventQueueInfos(c, c.q), z, longest, 0)
  <1> DEFINE u == Unlagged(t)
             v == When(c.q, t, 1)
             l == Late(v)
             r == Refill(c, c.q)[Len(c.q)]
             d == [c EXCEPT !.q = r.q, !.next = r.next, !.cycle = r.cycle,
                            !.dropped = r.dropped]
             e == RemoveEvent(d, "SPECIAL")
             f == AddSpecial(e)
  <1>1. /\ u \in Times /\ c.compare = U(c.count + u["COMPARE"])
        /\ u["SPECIAL"] = t["SPECIAL"] /\ u["VI"] = t["VI"]
        /\ l \in Nat /\ l < HalfRange
        /\ Lagging(t) => l = 0
        /\ ~Lagging(t) => u = t
    BY UnlaggedWithin
  <1>2. /\ c \in Machine /\ Filed(c.q) /\ Strung(c.q, c.count, c.compare, t)
        /\ Slack(c.q, t, longest, 0) /\ c.count \in Int
    <2>1. longest \in {0, longest} /\ 0 \in {0, 1}
      OBVIOUS
    <2> QED  BY <2>1, SteadyHeaded DEF Queued
  <1>3. {"SPECIAL", "COMPARE"} \subseteq Types(c.q) /\ "CHECK" \notin Types(c.q)
    BY DEF Steady, Sound
  <1>4. LoadEventQueueInfos(c, c.q) = f
    BY DEF LoadEventQueueInfos
  <1>5. Filled(r, c, u, l, Len(c.q)) /\ (~Lagging(t) => r.q = c.q)
    BY LoadedQueue
  <1> HIDE DEF u, v, l, r
  <1>6. /\ Kept(r, c) /\ Filed(r.q) /\ Types(r.q) = Types(c.q)
        /\ Timed(r.q, c.count, u) /\ Within(r.q, u, l) /\ Origin(r) = U(c.count - l)
    BY <1>5 DEF Filled, Types
  <1>7. /\ Kept(d, c) /\ d.q = r.q /\ d.cycle = r.cycle
    BY <1>2, <1>6 DEF Kept, Machine
  <1>8. Origin(d) = U(c.count - l) /\ d \in Machine /\ d.count = c.count
        /\ d.compare = c.compare
    BY <1>6, <1>7 DEF Kept, Origin
  <1> HIDE DEF d
  <1>9. Strung(d.q, c.count, c.compare, u)
    <2>1. Spread(r.q, u)
      BY <1>1, <1>6, WithinSettled, SettledSpread
    <2>2. Near(r.q, u) /\ {"HW2", "NMI"} \cap Types(r.q) = {}
      BY <1>1, <1>2, <1>6 DEF Near, Strung
    <2> QED  BY <1>1, <1>6, <1>7, <2>1, <2>2 DEF Strung
  <1>10. /\ Kept(e, d) /\ e.cycle = d.cycle /\ Types(e.q) = Types(d.q) \ {"SPECIAL"}
         /\ \E p \in 1 .. Len(d.q) : d.q[p].type = "SPECIAL" /\ e.q = RemoveAt(d.q, p)
    BY <1>3, <1>6, <1>7, <1>8, Withdrawn
  <1> HIDE DEF e
  <1>11. PICK p \in 1 .. Len(d.q) : e.q = RemoveAt(d.q, p)
    BY <1>10
  <1>12. /\ Filed(e.q) /\ Strung(e.q, c.count, c.compare, u) /\ Within(e.q, u, l)
         /\ Slack(d.q, u, longest, 0) => Slack(e.q, u, longest, 0)
    <2>1. Filed(d.q) /\ Within(d.q, u, l)
      BY <1>6, <1>7
    <2>2. LET s == RemoveAt(d.q, p)
          IN  /\ Filed(s) /\ Strung(s, c.count, c.compare, u)
              /\ \A z \in Nat : Within(d.q, u, z) => Within(s, u, z)
              /\ \A pace \in Nat : Slack(d.q, u, pace, 0) => Slack(s, u, pace, 0)
      BY <1>2, <1>9, <2>1, LeaveLined
    <2> QED  BY <1>1, <1>11, <2>1, <2>2
  <1>13. Slack(e.q, u, longest, 0)
    <2>1. CASE Lagging(t)
      <3>1. \A i \in 1 .. Len(e.q) : ~(When(e.q, u, i) < 0)
        <4>1. \A i \in 1 .. Len(e.q) : -0 <= When(e.q, u, i) /\ When(e.q, u, i) \in Int
          BY <1>1, <1>12, <2>1, WhenType DEF Within
        <4> QED  BY <4>1
      <3> QED  BY <3>1 DEF Slack
    <2>2. CASE ~Lagging(t)
      BY <1>1, <1>2, <1>5, <1>7, <1>12, <2>2
    <2> QED  BY <2>1, <2>2
  <1>14. /\ e \in Machine /\ e.count = c.count /\ e.compare = c.compare
         /\ Origin(e) = U(e.count - l) /\ "SPECIAL" \notin Types(e.q)
    BY <1>8, <1>10 DEF Kept, Origin
  <1>15. Queued(e.q, e.count, e.compare, u)
    BY <1>12, <1>14 DEF Queued, Dark
  <1>16. /\ Kept(f, e) /\ Filed(f.q) /\ Types(f.q) = Types(e.q) \cup {"SPECIAL"}
         /\ f.q # <<>>
         /\ Relined(f.q, e.q, e.count, e.compare, u)
    BY <1>1, <1>12, <1>14, <1>15, SpecialLined
  <1> HIDE DEF f
  <1>17. PICK z : Queued(f.q, e.count, e.compare, z) /\ Eased(f.q, z, e.q, u)
    BY <1>16 DEF Relined
  <1>18. Slack(f.q, z, longest, 0)
    <2>1. 0 \in {0, 1}
      OBVIOUS
    <2> QED  BY <1>13, <1>17, <2>1 DEF Eased
  <1>19. Line(f) = f.q
    <2>1. "CHECK" \notin Types(f.q)
      BY <1>3, <1>6, <1>7, <1>10, <1>16
    <2> QED  BY <1>16, <2>1, LineOf
  <1>20. Lined(f, z, longest, 0)
    BY <1>16, <1>17, <1>18, <1>19 DEF Lined, Kept
  <1> QED  BY <1>4, <1>20

-----------------------------------------------------------------------------
(* Every step.                                                              *)

LEMMA StartLined ==
    ASSUME Hosted, NEW longest \in Nat, Paced(longest), Steady(m), NEW t,
           Lined(m, t, longest, 0), NEW n \in Steps, NEW d \in Devices, NEW delay \in Delays,
           StartDevice(d, n, delay)
    PROVE  \E u : Lined(m', u, longest, 0)
  <1> DEFINE now == UpdateCount(m, n)
  <1>1. now.q = m.q
    BY DEF UpdateCount, Machine, Steady, Sound
  <1>2. GetEvent(now.q, d) = {} /\ m' = AddInterruptEvent(now, d, delay)
    BY <1>1 DEF StartDevice
  <1>3. Inside(now, Elapsed(t, n))
    BY BlockInside DEF StartDevice
  <1> HIDE DEF now
  <1> QED  BY <1>2, <1>3, StartedLined

\* The plugin has taken its line back before it has the event added.
LEMMA DeferLined ==
    ASSUME Hosted, NEW longest \in Nat, Paced(longest), Steady(m), NEW t,
           Lined(m, t, longest, 0), NEW n \in Steps, NEW line \in PluginLines,
           NEW delay \in Delays, PluginDefers(line, n, delay)
    PROVE  \E u : Lined(m', u, longest, 0)
  <1> DEFINE now   == UpdateCount(m, n)
             intr  == now.intr \ {line}
             taken == [now EXCEPT !.intr = intr]
  <1>1. now.q = m.q
    BY DEF UpdateCount, Machine, Steady, Sound
  <1>2. GetEvent(now.q, line) = {} /\ m' = AddInterruptEvent(taken, line, delay)
    BY <1>1 DEF PluginDefers
  <1>3. Inside(now, Elapsed(t, n))
    BY BlockInside DEF PluginDefers
  <1>4. now \in Machine
    BY <1>3 DEF Inside, Steady, Sound
  <1> HIDE DEF now
  <1>5. intr \in SUBSET Lines
    BY <1>4 DEF Machine
  <1> HIDE DEF intr
  <1>6. /\ taken \in Machine /\ taken.q = now.q /\ taken.count = now.count
        /\ taken.next = now.next /\ taken.cycle = now.cycle /\ taken.compare = now.compare
        /\ taken.skip = now.skip /\ taken.dropped = now.dropped
        /\ taken.early = now.early /\ taken.spurious = now.spurious
    BY <1>4, <1>5 DEF Machine
  <1> HIDE DEF taken
  <1>7. Inside(taken, Elapsed(t, n))
    BY <1>3, <1>6, RegistersInside
  <1>8. line \in Devices
    BY PluginAssumption
  <1> QED  BY <1>2, <1>6, <1>7, <1>8, StartedLined

Ordered(c, longest) == \E t : Lined(c, t, longest, 0)

LEMMA InitOrdered ==
    ASSUME Hosted, NEW longest \in Nat, Paced(longest), Init
    PROVE  Ordered(m, longest)
  <1> DEFINE blank == [count |-> 0, cycle |-> 0, next |-> 0, q |-> <<>>, compare |-> 0,
                       ie |-> FALSE, exl |-> FALSE, im |-> {}, ip |-> {},
                       intr |-> {}, mask |-> {}, skip |-> FALSE, reset |-> FALSE,
                       frame |-> FALSE, dropped |-> FALSE, early |-> FALSE, spurious |-> FALSE]
  <1>1. 0 \in Counts /\ 0 \in Cycles /\ <<>> \in Seq(Events)
    BY RangeLarge DEF Counts, Cycles
  <1>2. blank \in Machine
    BY <1>1 DEF Machine
  <1>3. m = PoweredOn(blank)
    BY DEF Init
  <1> HIDE DEF blank
  <1> QED  BY <1>2, <1>3, PoweredOnLined DEF Ordered

LEMMA StepOrdered ==
    ASSUME Hosted, NEW longest \in Nat, Paced(longest), Steady(m), Ordered(m, longest),
           [Next]_vars
    PROVE  Ordered(m', longest)
  <1> SUFFICES \E u : Lined(m', u, longest, 0)
    BY DEF Ordered
  <1> USE DEF Ordered
  <1>1. PICK t : Lined(m, t, longest, 0)
    OBVIOUS
  <1>2. ASSUME NEW n \in Steps, Branch(n) PROVE \E u : Lined(m', u, longest, 0)
    BY <1>1, <1>2, BranchLined
  <1>3. ASSUME NEW n \in Steps, IdleBranch(n) PROVE \E u : Lined(m', u, longest, 0)
    BY <1>1, <1>3, IdleLined
  <1>4. ASSUME NEW n \in Steps, Eret(n) PROVE \E u : Lined(m', u, longest, 0)
    BY <1>1, <1>4, EretLined
  <1>5. ASSUME NEW n \in Steps, ObserveCount(n) PROVE \E u : Lined(m', u, longest, 0)
    BY <1>1, <1>5, ObserveLined
  <1>6. ASSUME NEW n \in Steps, NEW d \in Devices, NEW delay \in Delays, StartDevice(d, n, delay)
        PROVE  \E u : Lined(m', u, longest, 0)
    BY <1>1, <1>6, StartLined
  <1>7. ASSUME NEW n \in Steps, NEW slot \in BOOLEAN, Syscall(n, slot)
        PROVE  \E u : Lined(m', u, longest, 0)
    BY <1>1, <1>7, SyscallLined
  <1>8. ASSUME NEW n \in Steps, NEW slot \in BOOLEAN, NEW value \in CountWrites,
               MtcCount(n, value, slot)
        PROVE  \E u : Lined(m', u, longest, 0)
    BY <1>1, <1>8, MtcCountLined
  <1>9. ASSUME NEW n \in Steps, NEW slot \in BOOLEAN, NEW w \in StatusWrites,
               MtcStatus(n, w, slot)
        PROVE  \E u : Lined(m', u, longest, 0)
    BY <1>1, <1>9, StatusLined
  <1>10. ASSUME NEW n \in Steps, NEW slot \in BOOLEAN, NEW lines \in MaskWrites,
                WriteMiMask(n, lines, slot)
         PROVE  \E u : Lined(m', u, longest, 0)
    BY <1>1, <1>10, MaskLined
  <1>11. ASSUME NEW n \in Steps, NEW gap \in CompareGaps, MtcCompare(n, gap)
         PROVE  \E u : Lined(m', u, longest, 0)
    BY <1>1, <1>11, MtcCompareLined
  <1>12. ASSUME \/ \E line \in Lines : SignalLine(line) \/ AcknowledgeLine(line)
                \/ \E line \in PluginLines : PluginRaises(line) \/ PluginHoldsBack(line)
                \/ HardReset \/ RunFrame \/ UNCHANGED vars
         PROVE  \E u : Lined(m', u, longest, 0)
    BY <1>1, <1>12, QuietLined
  <1>12a. ASSUME NEW line \in PluginLines, NEW n \in Steps, NEW delay \in Delays,
                 PluginDefers(line, n, delay)
          PROVE  \E u : Lined(m', u, longest, 0)
    BY <1>1, <1>12a, DeferLined
  <1>13. ~SoftReset
    BY DEF SoftReset, Paced
  <1>14. ASSUME Reload PROVE \E u : Lined(m', u, longest, 0)
    BY <1>1, <1>14, ReloadLined DEF Reload, SaveEventQueueInfos
  <1> HIDE DEF Ordered
  <1> QED
    BY <1>2, <1>3, <1>4, <1>5, <1>6, <1>7, <1>8, <1>9, <1>10, <1>11, <1>12, <1>12a,
       <1>13, <1>14 DEF Next, PluginWrites

LEMMA OrderedAlways ==
    ASSUME Hosted, NEW longest \in Nat, Paced(longest)
    PROVE  Spec => [](Steady(m) /\ Ordered(m, longest))
  <1>1. Init => Ordered(m, longest)
    BY InitOrdered
  <1>2. Steady(m) /\ Ordered(m, longest) /\ [Next]_vars => Ordered(m, longest)'
    BY StepOrdered
  <1> QED  BY <1>1, <1>2, SteadyAlways, PTL DEF Spec

-----------------------------------------------------------------------------
(* The theorems.                                                            *)

LEMMA OrderOf ==
    ASSUME Hosted, NEW longest \in Nat, Paced(longest), Steady(m), Ordered(m, longest)
    PROVE  InOrder /\ HeadWithinReach
  <1>1. PICK t : Lined(m, t, longest, 0)
    BY DEF Ordered
  <1> DEFINE v == When(m.q, t, 1)
             l == Late(v)
  <1>2. /\ Headed(m, t) /\ Filed(m.q) /\ m.count \in Int /\ Timed(m.q, m.count, t)
        /\ Spread(m.q, t) /\ -v <= LateBound
    <2>1. longest \in {0, longest} /\ 0 \in {0, 1}
      OBVIOUS
    <2> QED  BY <1>1, <2>1, SteadyHeaded DEF Queued, Strung
  <1>3. v \in Int /\ m.cycle = -v /\ Origin(m) = U(m.count - l) /\ l \in Nat /\ m.q # <<>>
    BY <1>2 DEF Headed
  <1>4. HeadWithinReach
    BY <1>2, <1>3 DEF HeadWithinReach
  <1>5. \A i \in 1 .. Len(m.q) : When(m.q, t, i) \in Int /\ v <= When(m.q, t, i)
    BY <1>2, <1>3, HeadFirst
  <1>6. ASSUME NEW i \in 1 .. Len(m.q), m.q[i].type # "COMPARE"
        PROVE  Distance(m.q[i]) = When(m.q, t, i) + l
    <2> DEFINE w == When(m.q, t, i)
    <2>1. w \in Int /\ v <= w /\ w - v < Modulus /\ w < Modulus
      BY <1>2, <1>5, <1>6 DEF Spread
    <2>2. m.q[i].count = U(m.count + w)
      BY <1>2 DEF Timed
    <2> HIDE DEF w
    <2>3. -l <= w /\ w < Modulus - l /\ l \in Int
      BY <1>3, <2>1, RangeLarge DEF Late
    <2> HIDE DEF l, v
    <2>4. U(U(m.count + w) - U(m.count - l)) = w + l
      BY <1>2, <2>1, <2>3, Measured
    <2>5. Distance(m.q[i]) = w + l
      BY <1>3, <2>2, <2>4 DEF Distance
    <2> QED  BY <2>5 DEF w
  <1>7. DOMAIN m.q = 1 .. Len(m.q)
    BY <1>2 DEF Filed
  <1>8. InOrder
    <2> SUFFICES ASSUME NEW i \in DOMAIN m.q \ GetEvent(m.q, "COMPARE"),
                        NEW j \in DOMAIN m.q \ GetEvent(m.q, "COMPARE"), i < j
                 PROVE  Distance(m.q[i]) <= Distance(m.q[j])
      BY DEF InOrder
    <2>1. /\ i \in 1 .. Len(m.q) /\ m.q[i].type # "COMPARE"
          /\ j \in 1 .. Len(m.q) /\ m.q[j].type # "COMPARE"
      BY <1>7 DEF GetEvent
    <2>2. Distance(m.q[i]) = When(m.q, t, i) + l /\ Distance(m.q[j]) = When(m.q, t, j) + l
      BY <1>6, <2>1
    <2>3. When(m.q, t, i) <= When(m.q, t, j)
      BY <1>2, <2>1 DEF Timed
    <2> HIDE DEF l
    <2> QED  BY <1>3, <1>5, <2>1, <2>2, <2>3
  <1> QED  BY <1>4, <1>8

\* COMPARE lags only within count_per_op of COUNT.
LEMMA LagClose ==
    ASSUME Hosted, NEW longest \in Nat, Paced(longest), NEW c, Steady(c), NEW t,
           Lined(c, t, longest, 0), Lagging(t)
    PROVE  U(c.compare - c.count) < CountPerOp
  <1> DEFINE w == t["COMPARE"]
  <1>1. /\ Filed(c.q) /\ c.count \in Int /\ Timed(c.q, c.count, t)
        /\ Spread(c.q, t) /\ c.compare = U(c.count + w)
    <2>1. longest \in {0, longest} /\ 0 \in {0, 1}
      OBVIOUS
    <2> QED  BY <2>1, SteadyHeaded DEF Queued, Strung
  <1>2. PICK p \in 1 .. Len(c.q) : c.q[p].type = "COMPARE"
    BY DEF Steady, Sound, Types
  <1>3. w = When(c.q, t, p) /\ w \in Int
    BY <1>1, <1>2, WhenType DEF When, Timed
  <1>4. Modulus <= w /\ w < Modulus + CountPerOp /\ CountPerOp \in Nat
        /\ CountPerOp < HalfRange
    <2>1. CountPerOp \in Nat /\ CountPerOp < HalfRange
      BY CountPerOpAssumption, LateAssumption, RangeLarge DEF Paced
    <2>2. w < Modulus \/ w < Modulus + CountPerOp
      BY <1>1, <1>2, <1>3 DEF Spread
    <2>3. Modulus <= w
      BY <1>3, RangeLarge DEF Lagging
    <2> QED  BY <1>3, <2>1, <2>2, <2>3, RangeLarge
  <1> HIDE DEF w
  <1> DEFINE x == c.count + w
             y == w - Modulus
  <1>5. x \in Int /\ -c.count \in Int /\ x + (-c.count) = w /\ y \in Counts
    <2>1. c.count \in Int /\ w \in Int
      BY <1>1, <1>3
    <2>2. x \in Int /\ -c.count \in Int /\ x + (-c.count) = w
      BY <2>1
    <2>3. y \in Counts
      BY <1>3, <1>4, RangeLarge DEF Counts
    <2> QED  BY <2>2, <2>3
  <1>6. U(c.compare - c.count) = U(w)
    <2>1. U(x) \in Int
      <3>1. x \in Int
        BY <1>5
      <3> HIDE DEF x
      <3>2. U(x) \in Counts
        BY <3>1, CountType
      <3> QED  BY <3>2, RangeLarge DEF Counts
    <2>2. U(U(x) + (-c.count)) = U(x + (-c.count))
      <3> HIDE DEF x
      <3> QED  BY <1>5, WrapSum
    <2>3. U(x) - c.count = U(x) + (-c.count)
      <3> HIDE DEF x
      <3> QED  BY <1>1, <2>1
    <2> QED  BY <1>1, <1>5, <2>2, <2>3
  <1>7. U(w) = y
    <2>1. y \in Int /\ 1 \in Int /\ y + 1 * Modulus = w
      BY <1>3, RangeLarge
    <2>2. U(y + 1 * Modulus) = U(y)
      <3> HIDE DEF y
      <3> QED  BY <2>1, SameTurns DEF U
    <2>3. U(y) = y
      BY <1>5, WrapSmall
    <2> QED  BY <2>1, <2>2, <2>3
  <1> QED  BY <1>3, <1>4, <1>6, <1>7, RangeLarge

\* What is put in can be taken out.
LEMMA InsertRemove ==
    ASSUME NEW T, NEW q \in Seq(T), NEW p \in 1 .. Len(q) + 1, NEW e \in T,
           NEW s, s = InsertAt(q, p, e)
    PROVE  p \in 1 .. Len(s) /\ s[p] = e /\ RemoveAt(s, p) = q
  <1> DEFINE r == RemoveAt(s, p)
             n == Len(q)
  <1>1. n \in Nat
    OBVIOUS
  <1>2. s \in Seq(T)
    BY Inserted
  <1>3. /\ Len(s) = n + 1
        /\ \A i \in 1 .. n + 1 : s[i] = IF i < p THEN q[i] ELSE IF i = p THEN e ELSE q[i - 1]
    BY Inserted
  <1>4. p \in 1 .. Len(s) /\ s[p] = e
    BY <1>1, <1>3
  <1>5. /\ r \in Seq(T) /\ Len(r) = Len(s) - 1
        /\ \A i \in 1 .. Len(s) - 1 : r[i] = IF i < p THEN s[i] ELSE s[i + 1]
    BY <1>2, <1>4, Removed
  <1> HIDE DEF r, n
  <1>6. Len(r) = n /\ \A i \in 1 .. n : r[i] = q[i]
    BY <1>1, <1>3, <1>4, <1>5
  <1>7. r = q
    BY <1>5, <1>6 DEF n
  <1> QED  BY <1>4, <1>7 DEF r

LEMMA EventInsertRemove ==
    ASSUME NEW q, Filed(q), NEW e \in Events, NEW p \in 1 .. Len(q) + 1,
           NEW s, s = InsertAt(q, p, e)
    PROVE  p \in 1 .. Len(s) /\ s[p] = e /\ RemoveAt(s, p) = q
  <1>1. q \in Seq(Events)
    BY DEF Filed
  <1> QED  BY <1>1, InsertRemove

\* What a removal leaves depends on the queue alone.
LEMMA RemoveEventQueue ==
    ASSUME NEW c \in Machine, NEW d \in Machine, d.q = c.q, NEW type
    PROVE  RemoveEvent(d, type).q = RemoveEvent(c, type).q
  <1> DEFINE found == GetEvent(c.q, type)
             q     == RemoveAt(c.q, Min(found))
  <1>1. CASE found = {}
    <2>1. RemoveEvent(d, type) = d /\ RemoveEvent(c, type) = c
      BY <1>1 DEF RemoveEvent
    <2> QED  BY <2>1
  <1>2. CASE found # {}
    <2>1. RemoveEvent(d, type) = [d EXCEPT !.q = q] /\ RemoveEvent(c, type) = [c EXCEPT !.q = q]
      BY <1>2 DEF RemoveEvent
    <2> HIDE DEF q
    <2>2. [d EXCEPT !.q = q].q = q /\ [c EXCEPT !.q = q].q = q
      BY DEF Machine
    <2> QED  BY <2>1, <2>2
  <1> QED  BY <1>1, <1>2

\* SPECIAL_INT armed and taken out again.
LEMMA SpecialRemoved ==
    ASSUME Hosted, NEW c \in Machine, Filed(c.q), "SPECIAL" \notin Types(c.q)
    PROVE  Others(AddSpecial(c)) = c.q
  <1> DEFINE at == OppositeHalf(c.count)
             p  == InsertPosition(c, at)
             e  == Event("SPECIAL", at)
             f  == AddSpecial(c)
             n  == Len(c.q)
  <1>1. at \in Counts
    BY RangeLarge DEF OppositeHalf, Counts
  <1> HIDE DEF at
  <1>2. e \in Events /\ e.type = "SPECIAL"
    BY <1>1 DEF Event, Events, EventTypes, CoreEvents
  <1>3. p \in 1 .. n + 1
    BY PositionType
  <1>4. f.q = InsertAt(c.q, p, e)
    <2>1. f = AddInterruptEventCount(c, "SPECIAL", at)
      BY DEF AddSpecial, at
    <2>2. "SPECIAL" \in EventTypes \ Types(c.q)
      BY DEF EventTypes, CoreEvents
    <2> HIDE DEF f
    <2> QED  BY <1>1, <2>1, <2>2, AddQueue
  <1>5. f \in Machine /\ Filed(f.q) /\ "SPECIAL" \in Types(f.q)
    BY SpecialKept DEF Kept
  <1> HIDE DEF f, p, e
  <1>6. PICK k \in 1 .. Len(f.q) :
            f.q[k].type = "SPECIAL" /\ RemoveEvent(f, "SPECIAL").q = RemoveAt(f.q, k)
    BY <1>5, Withdrawn
  <1>7. p \in 1 .. Len(f.q) /\ f.q[p] = e /\ RemoveAt(f.q, p) = c.q
    BY <1>2, <1>3, <1>4, EventInsertRemove
  <1>8. k = p
    BY <1>2, <1>5, <1>6, <1>7 DEF Filed
  <1> QED  BY <1>6, <1>7, <1>8 DEF Others, f

LEMMA FaithfulOf ==
    ASSUME Hosted, NEW longest \in Nat, Paced(longest), Steady(m), Ordered(m, longest)
    PROVE  SaveLoadFaithful
  <1> DEFINE r == Refill(m, m.q)[Len(m.q)]
             d == [m EXCEPT !.q = r.q, !.next = r.next, !.cycle = r.cycle,
                            !.dropped = r.dropped]
             e == RemoveEvent(d, "SPECIAL")
             f == AddSpecial(e)
  <1> SUFFICES ASSUME U(m.compare - m.count) >= CountPerOp
               PROVE  /\ Others(f) = Others(m)
                      /\ Sole(f.q, "SPECIAL")
                      /\ f.cycle = S(m.count - f.q[1].count)
    BY DEF SaveLoadFaithful, LoadEventQueueInfos, SaveEventQueueInfos
  <1>1. PICK t : Lined(m, t, longest, 0)
    BY DEF Ordered
  <1>2. ~Lagging(t)
    <2>1. U(m.compare - m.count) \in Int /\ CountPerOp \in Int
      <3>1. m.compare - m.count \in Int
        BY RangeLarge DEF Steady, Sound, Machine, Counts
      <3>2. U(m.compare - m.count) \in Counts
        BY <3>1, CountType
      <3> QED  BY <3>2, CountPerOpAssumption, RangeLarge DEF Counts
    <2>2. Lagging(t) => U(m.compare - m.count) < CountPerOp
      BY <1>1, LagClose
    <2> QED  BY <2>1, <2>2
  <1>3. r.q = m.q
    BY <1>1, <1>2, LoadedQueue
  <1>4. Kept(r, m) /\ Filed(r.q) /\ Types(r.q) = Types(m.q)
    BY RefillKept
  <1> HIDE DEF r
  <1>5. m \in Machine /\ Filed(m.q) /\ "SPECIAL" \in Types(m.q)
    BY DEF Steady, Sound
  <1>6. Kept(d, m) /\ d \in Machine /\ d.q = m.q
    BY <1>3, <1>4, <1>5 DEF Kept, Machine
  <1> HIDE DEF d
  <1>7. e.q = Others(m)
    BY <1>5, <1>6, RemoveEventQueue DEF Others
  <1>8. Kept(e, d) /\ e \in Machine /\ Filed(e.q) /\ "SPECIAL" \notin Types(e.q)
    BY <1>5, <1>6, RemoveKept DEF Kept
  <1> HIDE DEF e
  <1>9. Others(f) = e.q
    BY <1>8, SpecialRemoved
  <1>10. Kept(f, e) /\ Filed(f.q) /\ Mirrored(f) /\ "SPECIAL" \in Types(f.q)
    BY <1>8, SpecialKept
  <1> HIDE DEF f
  <1>11. Sole(f.q, "SPECIAL")
    BY <1>10, SoleOf
  <1>12. f.count = m.count
    BY <1>6, <1>8, <1>10 DEF Kept
  <1> QED  BY SMTT(40), <1>7, <1>9, <1>10, <1>11, <1>12 DEF Mirrored

\* The queue is kept in the order in which COUNT meets its events, though the
\* insertions compare distances modulo 2^32 and count from a head that may be
\* overdue: gen_interrupt may look at the head alone.
THEOREM QueueInOrder ==
    ASSUME Hosted, NEW longest \in Nat, Paced(longest)
    PROVE  Spec => []InOrder
  <1>1. Spec => [](Steady(m) /\ Ordered(m, longest))
    BY OrderedAlways
  <1>2. Steady(m) /\ Ordered(m, longest) => InOrder
    BY OrderOf
  <1> QED  BY <1>1, <1>2, PTL

\* The head is never so far ahead that the signed cycle_count would take it for
\* overdue: SPECIAL_INT, or the screen's event, cuts the range of COUNT in time
\* (special_int_handler).
THEOREM HeadOverdueByLittle ==
    ASSUME Hosted, NEW longest \in Nat, Paced(longest)
    PROVE  Spec => []HeadWithinReach
  <1>1. Spec => [](Steady(m) /\ Ordered(m, longest))
    BY OrderedAlways
  <1>2. Steady(m) /\ Ordered(m, longest) => HeadWithinReach
    BY OrderOf
  <1> QED  BY <1>1, <1>2, PTL

\* A savestate gives back the queue it was taken from: load_eventqueue_infos
\* finds for each saved event the place it had.
THEOREM ReloadKeepsOrder ==
    ASSUME Hosted, NEW longest \in Nat, Paced(longest)
    PROVE  Spec => []SaveLoadFaithful
  <1>1. Spec => [](Steady(m) /\ Ordered(m, longest))
    BY OrderedAlways
  <1>2. Steady(m) /\ Ordered(m, longest) => SaveLoadFaithful
    BY FaithfulOf
  <1> QED  BY <1>1, <1>2, PTL
=============================================================================
