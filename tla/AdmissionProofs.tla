--------------------------- MODULE AdmissionProofs ---------------------------
(***************************************************************************)
(* What visitor_handler asks before it opens a stream.  The limiter: what  *)
(* a bucket gives away and what it withholds, for every number of callers, *)
(* every rate and every burst.  The meter: its books balance, and its      *)
(* readers count right, for every number of users, readers, units and days *)
(* and whatever faults.  The path table: it is a map, and a lookup finds   *)
(* the most specific prefix, for every number of connections and prefixes. *)
(***************************************************************************)
EXTENDS RateLimiter, UsageMeter, RouteTable, QueueLemmas, SequenceTheorems, TLAPS

-----------------------------------------------------------------------------
(* The limiter.                                                            *)

\* A bucket that is not full has been used up to the limit in some window: it
\* never loses a token it should have gained.
NothingWithheld ==
  \/ tokens = Burst
  \/ \E i \in 1 .. Len(granted) : tokens + CostSince(i) >= Burst + (last - granted[i].at)

IInv == TypeOK /\ WindowBounded /\ NothingWithheld

\* One more request costs Cost more.
LEMMA OneMore ==
  ASSUME NEW a \in Int PROVE Cost * a \in Int /\ Cost * (a + 1) = Cost * a + Cost
BY RateLimiterAssumption

\* What CostSince counts after a request is let through.
LEMMA CostAfterGrant ==
  ASSUME TypeOK, NEW n \in Nat, n = Len(granted),
         NEW e \in [at : 0 .. MaxClock, rewound : Nat], granted' = Append(granted, e)
  PROVE  /\ Len(granted') = n + 1
         /\ \A i \in 1 .. n :
              /\ granted'[i] = granted[i]
              /\ CostSince(i) \in Int /\ CostSince(i)' = CostSince(i) + Cost
         /\ granted'[n + 1] = e
         /\ CostSince(n + 1)' = Cost
<1>1. granted \in Seq([at : 0 .. MaxClock, rewound : Nat])
  BY DEF TypeOK
<1>2. Len(granted') = n + 1
  BY <1>1
<1>3. ASSUME NEW i \in 1 .. n
      PROVE  /\ granted'[i] = granted[i]
             /\ CostSince(i) \in Int /\ CostSince(i)' = CostSince(i) + Cost
  <2>1. granted'[i] = granted[i]
    BY <1>1
  <2> DEFINE a == n - i + 1
  <2>2. a \in Int /\ Len(granted') - i + 1 = a + 1
    BY <1>2
  <2>3. Cost * a \in Int /\ Cost * (a + 1) = Cost * a + Cost
    BY <2>2, OneMore
  <2> QED
    BY <2>1, <2>2, <2>3 DEF CostSince
<1>4. granted'[n + 1] = e
  BY <1>1
<1>5. CostSince(n + 1)' = Cost
  <2>1. Len(granted') - (n + 1) + 1 = 1
    BY <1>2
  <2> QED
    BY <2>1, RateLimiterAssumption DEF CostSince
<1> QED
  BY <1>2, <1>3, <1>4, <1>5

\* The numbers an entry of the history is compared with.
LEMMA Entry ==
  ASSUME TypeOK, NEW i \in 1 .. Len(granted)
  PROVE  \E k \in Int, a \in Int, b \in Int :
           k = CostSince(i) /\ a = granted[i].at /\ b = granted[i].rewound
<1> DEFINE S == [at : 0 .. MaxClock, rewound : Nat]
<1>a. granted \in Seq(S)
  BY DEF TypeOK
<1> HIDE DEF S
<1>b. granted[i] \in S /\ Len(granted) - i + 1 \in Int
  BY <1>a
<1>1. granted[i] \in [at : 0 .. MaxClock, rewound : Nat] /\ Len(granted) - i + 1 \in Int
  BY <1>b DEF S
<1>2. Cost * (Len(granted) - i + 1) \in Int
  BY <1>1, OneMore
<1>3. granted[i].at \in Int /\ granted[i].rewound \in Int
  BY <1>1, RateLimiterAssumption
<1> QED
  BY <1>2, <1>3 DEF CostSince

\* f is what the bucket holds once it is refilled, r what last is set back by.
FilledBy(t, l, now, f, r) ==
  /\ f = Filled(now) /\ r = Since(last, now)
  /\ f <= t + (now - l) + r
  /\ f = Burst \/ f >= t + (now - l)
  /\ t = Burst => f = Burst

\* What refilling does: never more than the burst, and as long as the burst is
\* not reached exactly what the time since and the set-back account for.
LEMMA FilledBounds ==
  ASSUME NEW t \in 0 .. Burst, t = tokens, NEW l \in Nat, l = last, NEW now \in Nat
  PROVE  \E f \in 0 .. Burst, r \in Nat : FilledBy(t, l, now, f, r)
<1> DEFINE s == IF now > l THEN now - l ELSE 0
           r == IF l > now THEN l - now ELSE 0
           f == IF t + s < Burst THEN t + s ELSE Burst
<1>1. /\ f \in 0 .. Burst /\ r \in Nat
      /\ f <= t + (now - l) + r
      /\ f = Burst \/ f >= t + (now - l)
      /\ t = Burst => f = Burst
  BY RateLimiterAssumption
<1>2. f = Filled(now) /\ r = Since(last, now)
  BY DEF Filled, Since
<1> HIDE DEF f, r, s
<1>3. FilledBy(t, l, now, f, r)
  BY <1>1, <1>2, Zenon DEF FilledBy
<1> QED
  BY <1>1, <1>3, Zenon

LEMMA InitInv == Init => IInv
BY RateLimiterAssumption DEF Init, IInv, TypeOK, WindowBounded, NothingWithheld, CostSince, Idle

LEMMA GrantInv == ASSUME IInv, NEW c \in Callers, Grant(c) PROVE IInv'
<1>a. tokens \in 0 .. Burst /\ last \in Nat /\ rewound \in Nat /\ stamp[c] \in Nat
  BY RateLimiterAssumption DEF IInv, TypeOK, Grant, Idle
<1>b. PICK t \in 0 .. Burst, l \in Nat, w \in Nat, now \in Nat :
        t = tokens /\ l = last /\ w = rewound /\ now = stamp[c]
  BY <1>a, Zenon
<1>c. PICK f \in 0 .. Burst, r \in Nat : FilledBy(t, l, now, f, r)
  BY <1>b, FilledBounds, Zenon
<1>d. /\ f <= t + (now - l) + r
      /\ f = Burst \/ f >= t + (now - l)
      /\ t = Burst => f = Burst
  BY <1>c, Zenon DEF FilledBy
<1>n. PICK n \in Nat : n = Len(granted)
  BY DEF IInv, TypeOK
<1> DEFINE e == [at |-> now, rewound |-> w + r]
<1>1. /\ tokens' = f - Cost /\ last' = now /\ rewound' = w + r
      /\ granted' = Append(granted, e)
  BY <1>b, <1>c, Zenon DEF FilledBy, Grant, Refill
<1>2. e \in [at : 0 .. MaxClock, rewound : Nat]
  <2>1. now \in 0 .. MaxClock
    BY <1>b DEF IInv, TypeOK, Grant, Idle
  <2>2. w + r \in Nat
    OBVIOUS
  <2> QED
    BY <2>1, <2>2
<1>3. TypeOK'
  <2>1. f >= Cost
    BY <1>b, <1>c, Zenon DEF FilledBy, Grant
  <2>2. f - Cost \in 0 .. Burst /\ w + r \in Nat
    BY <2>1, RateLimiterAssumption
  <2>3. tokens' \in 0 .. Burst /\ rewound' \in Nat
    BY <1>1, <2>2, Zenon
  <2>4. last' \in 0 .. MaxClock /\ granted' \in Seq([at : 0 .. MaxClock, rewound : Nat])
    BY <1>1, <1>2 DEF IInv, TypeOK
  <2>5. clock' \in 0 .. MaxClock /\ stamp' \in [Callers -> 0 .. MaxClock \cup {Idle}]
    BY DEF IInv, TypeOK, Grant
  <2> QED
    BY <2>3, <2>4, <2>5 DEF TypeOK
<1>4. /\ Len(granted') = n + 1
      /\ \A i \in 1 .. n :
           /\ granted'[i] = granted[i]
           /\ CostSince(i) \in Int /\ CostSince(i)' = CostSince(i) + Cost
      /\ granted'[n + 1] = e
      /\ CostSince(n + 1)' = Cost
  BY <1>1, <1>2, <1>n, CostAfterGrant DEF IInv
<1>5. Cost \in Nat /\ Burst \in Nat
  BY RateLimiterAssumption
<1>6. WindowBounded'
  <2> SUFFICES ASSUME NEW i \in 1 .. n + 1
               PROVE  CostSince(i)' + tokens'
                        <= Burst + (last' - granted'[i].at) + (rewound' - granted'[i].rewound)
    BY <1>4 DEF WindowBounded
  <2>1. CASE i \in 1 .. n
    <3>1. PICK k \in Int, a \in Int, b \in Int :
            k = CostSince(i) /\ a = granted[i].at /\ b = granted[i].rewound
      BY <2>1, <1>n, Entry, Zenon DEF IInv
    <3>2. k + t <= Burst + (l - a) + (w - b)
      BY <2>1, <3>1, <1>b, <1>n, Zenon DEF IInv, WindowBounded
    <3>3. (k + Cost) + (f - Cost) <= Burst + (now - a) + ((w + r) - b)
      BY <3>2, <1>d, <1>5
    <3> QED
      BY <2>1, <3>1, <3>3, <1>1, <1>4, Zenon
  <2>2. CASE i = n + 1
    <3>1. e.at = now /\ e.rewound = w + r
      OBVIOUS
    <3>2. Cost + (f - Cost) <= Burst + (now - now) + ((w + r) - (w + r))
      BY <1>5
    <3> QED
      BY <2>2, <3>1, <3>2, <1>1, <1>4, Zenon
  <2> QED
    BY <2>1, <2>2
<1>7. NothingWithheld'
  <2>1. CASE f = Burst
    <3>1. e.at = now
      OBVIOUS
    <3>2. (f - Cost) + Cost >= Burst + (now - now)
      BY <2>1, <1>5
    <3>3. tokens' + CostSince(n + 1)' >= Burst + (last' - granted'[n + 1].at)
      BY <3>1, <3>2, <1>1, <1>4, Zenon
    <3>4. n + 1 \in 1 .. Len(granted')
      BY <1>4
    <3> QED
      BY <3>3, <3>4, Zenon DEF NothingWithheld
  <2>2. CASE f # Burst
    <3>1. PICK i \in 1 .. n : tokens + CostSince(i) >= Burst + (last - granted[i].at)
      BY <2>2, <1>b, <1>d, <1>n, Zenon DEF IInv, NothingWithheld
    <3>2. PICK k \in Int, a \in Int : k = CostSince(i) /\ a = granted[i].at
      BY <1>n, Entry, Zenon DEF IInv
    <3>3. t + k >= Burst + (l - a)
      BY <3>1, <3>2, <1>b, Zenon
    <3>4. (f - Cost) + (k + Cost) >= Burst + (now - a)
      BY <2>2, <3>3, <1>d, <1>5
    <3>5. tokens' + CostSince(i)' >= Burst + (last' - granted'[i].at)
      BY <3>2, <3>4, <1>1, <1>4, Zenon
    <3>6. i \in 1 .. Len(granted')
      BY <1>4
    <3> QED
      BY <3>5, <3>6, Zenon DEF NothingWithheld
  <2> QED
    BY <2>1, <2>2
<1> QED
  BY <1>3, <1>6, <1>7 DEF IInv

LEMMA RejectInv == ASSUME IInv, NEW c \in Callers, Reject(c) PROVE IInv'
<1>a. tokens \in 0 .. Burst /\ last \in Nat /\ rewound \in Nat /\ stamp[c] \in Nat
  BY RateLimiterAssumption DEF IInv, TypeOK, Reject, Idle
<1>b. PICK t \in 0 .. Burst, l \in Nat, w \in Nat, now \in Nat :
        t = tokens /\ l = last /\ w = rewound /\ now = stamp[c]
  BY <1>a, Zenon
<1>c. PICK f \in 0 .. Burst, r \in Nat : FilledBy(t, l, now, f, r)
  BY <1>b, FilledBounds, Zenon
<1>d. /\ f <= t + (now - l) + r
      /\ f = Burst \/ f >= t + (now - l)
      /\ t = Burst => f = Burst
  BY <1>c, Zenon DEF FilledBy
<1>1. tokens' = f /\ last' = now /\ rewound' = w + r /\ granted' = granted
  BY <1>b, <1>c, Zenon DEF FilledBy, Reject, Refill
<1>2. TypeOK'
  <2>1. w + r \in Nat
    OBVIOUS
  <2>2. tokens' \in 0 .. Burst /\ rewound' \in Nat
    BY <1>1, <2>1, Zenon
  <2>3. last' \in 0 .. MaxClock
    BY <1>1, <1>b DEF IInv, TypeOK, Reject, Idle
  <2>4. /\ granted' \in Seq([at : 0 .. MaxClock, rewound : Nat])
        /\ clock' \in 0 .. MaxClock /\ stamp' \in [Callers -> 0 .. MaxClock \cup {Idle}]
    BY DEF IInv, TypeOK, Reject
  <2> QED
    BY <2>2, <2>3, <2>4 DEF TypeOK
<1>3. Burst \in Nat
  BY RateLimiterAssumption
<1>4. \A i \in 1 .. Len(granted) : CostSince(i)' = CostSince(i)
  BY <1>1 DEF CostSince
<1>5. WindowBounded'
  <2> SUFFICES ASSUME NEW i \in 1 .. Len(granted)
               PROVE  CostSince(i)' + tokens'
                        <= Burst + (last' - granted'[i].at) + (rewound' - granted'[i].rewound)
    BY <1>1 DEF WindowBounded
  <2>1. PICK k \in Int, a \in Int, b \in Int :
          k = CostSince(i) /\ a = granted[i].at /\ b = granted[i].rewound
    BY Entry, Zenon DEF IInv
  <2>2. k + t <= Burst + (l - a) + (w - b)
    BY <2>1, <1>b, Zenon DEF IInv, WindowBounded
  <2>3. k + f <= Burst + (now - a) + ((w + r) - b)
    BY <2>2, <1>d, <1>3
  <2> QED
    BY <2>1, <2>3, <1>1, <1>4, Zenon
<1>6. NothingWithheld'
  <2>1. CASE f = Burst
    BY <2>1, <1>1, Zenon DEF NothingWithheld
  <2>2. CASE f # Burst
    <3>1. PICK i \in 1 .. Len(granted) :
            tokens + CostSince(i) >= Burst + (last - granted[i].at)
      BY <2>2, <1>b, <1>d, Zenon DEF IInv, NothingWithheld
    <3>2. PICK k \in Int, a \in Int : k = CostSince(i) /\ a = granted[i].at
      BY Entry, Zenon DEF IInv
    <3>3. t + k >= Burst + (l - a)
      BY <3>1, <3>2, <1>b, Zenon
    <3>4. f + k >= Burst + (now - a)
      BY <2>2, <3>3, <1>d, <1>3
    <3>5. tokens' + CostSince(i)' >= Burst + (last' - granted'[i].at)
      BY <3>2, <3>4, <1>1, <1>4, Zenon
    <3> QED
      BY <3>5, <1>1, Zenon DEF NothingWithheld
  <2> QED
    BY <2>1, <2>2
<1> QED
  BY <1>2, <1>5, <1>6 DEF IInv

LEMMA NextInv == IInv /\ [Next]_vars => IInv'
<1> SUFFICES ASSUME IInv, [Next]_vars PROVE IInv'
  OBVIOUS
<1>1. CASE Tick
  <2>1. TypeOK'
    BY <1>1, RateLimiterAssumption DEF Tick, IInv, TypeOK
  <2>2. WindowBounded' /\ NothingWithheld'
    BY <1>1 DEF Tick, IInv, WindowBounded, NothingWithheld, CostSince
  <2> QED
    BY <2>1, <2>2 DEF IInv
<1>2. ASSUME NEW c \in Callers, ReadClock(c) PROVE IInv'
  <2>1. TypeOK'
    BY <1>2 DEF ReadClock, IInv, TypeOK
  <2>2. WindowBounded' /\ NothingWithheld'
    BY <1>2 DEF ReadClock, IInv, WindowBounded, NothingWithheld, CostSince
  <2> QED
    BY <2>1, <2>2 DEF IInv
<1>3. CASE UNCHANGED vars
  BY <1>3 DEF vars, IInv, TypeOK, WindowBounded, NothingWithheld, CostSince
<1> QED
  BY <1>1, <1>2, <1>3, GrantInv, RejectInv DEF Next

\* Every state of every instance has the invariant.
THEOREM Inductive == Spec => []IInv
BY InitInv, NextInv, PTL DEF Spec

\* A bucket gives away the burst, the time, and the time credited twice to
\* callers that overtook each other, and nothing else.
THEOREM BoundedInEveryWindow == Spec => []WindowBounded
<1>1. IInv => WindowBounded
  BY DEF IInv
<1> QED
  BY <1>1, Inductive, PTL

\* allow refuses a request only when burst and rate are used up.
THEOREM RefusalsJustified == Spec => RefusedOnlyOverLimit
<1> DEFINE Justified == \A c \in Callers : Reject(c) =>
             \E i \in 1 .. Len(granted) : CostSince(i) + Cost > Burst + (stamp[c] - granted[i].at)
<1>1. IInv /\ [Next]_vars => [Justified]_vars
  <2> SUFFICES ASSUME IInv, NEW c \in Callers, Reject(c)
               PROVE  \E i \in 1 .. Len(granted) :
                        CostSince(i) + Cost > Burst + (stamp[c] - granted[i].at)
    OBVIOUS
  <2>a. tokens \in 0 .. Burst /\ last \in Nat /\ rewound \in Nat /\ stamp[c] \in Nat
    BY RateLimiterAssumption DEF IInv, TypeOK, Reject, Idle
  <2>b. PICK t \in 0 .. Burst, l \in Nat, w \in Nat, now \in Nat :
          t = tokens /\ l = last /\ w = rewound /\ now = stamp[c]
    BY <2>a, Zenon
  <2>c. PICK f \in 0 .. Burst, r \in Nat : FilledBy(t, l, now, f, r)
    BY <2>b, FilledBounds, Zenon
  <2>d. /\ f <= t + (now - l) + r
        /\ f = Burst \/ f >= t + (now - l)
        /\ t = Burst => f = Burst
    BY <2>c, Zenon DEF FilledBy
  <2>1. f < Cost
    BY <2>b, <2>c, Zenon DEF FilledBy, Reject
  <2>2. f # Burst
    BY <2>1, RateLimiterAssumption
  <2>3. PICK i \in 1 .. Len(granted) : tokens + CostSince(i) >= Burst + (last - granted[i].at)
    BY <2>2, <2>b, <2>d, Zenon DEF IInv, NothingWithheld
  <2>4. PICK k \in Int, a \in Int : k = CostSince(i) /\ a = granted[i].at
    BY Entry, Zenon DEF IInv
  <2>5. t + k >= Burst + (l - a)
    BY <2>3, <2>4, <2>b, Zenon
  <2>6. k + Cost > Burst + (now - a)
    BY <2>1, <2>2, <2>5, <2>d, RateLimiterAssumption
  <2> QED
    BY <2>4, <2>6, <2>b, Zenon
<1>2. [][IInv /\ Next]_vars => [][Justified]_vars
  <2>1. [IInv /\ Next]_vars => [Justified]_vars
    BY <1>1
  <2> QED
    BY <2>1, PTL
<1> QED
  BY <1>1, Inductive, PTL DEF Spec, RefusedOnlyOverLimit

-----------------------------------------------------------------------------
(* The meter.                                                              *)

Reader == [stage : {"idle", "asked", "answered"}, used : Nat, hidden : Nat,
           metered : Nat, lost : Nat, calm : BOOLEAN]

MeterType ==
  /\ day \in Nat /\ late \in BOOLEAN
  /\ pending \in [Users -> Nat] /\ taken \in [Users -> Nat]
  /\ row \in [Users -> Nat] /\ past \in [Users -> Nat]
  /\ metered \in [Users -> Nat] /\ lost \in [Users -> Nat]
  /\ reader \in [Users -> [Readers -> Reader]]

\* What a reader has seen of the table is in the table for good, and what was
\* metered when it asked is seen, lost, or still in memory if flush kept away.
RowSeen(u, k) ==
  /\ k.hidden + k.used <= row[u] + past[u]
  /\ k.calm => k.hidden + k.used + k.lost + pending[u] >= k.metered

\* What ReadersCountRight says of one reader.
CountsRight(u, k) ==
  /\ k.hidden + k.used <= metered[u]
  /\ k.calm => k.hidden + k.used + k.lost >= k.metered

ReaderRight(u, k) ==
  /\ k.stage = "asked" => RowSeen(u, k)
  /\ k.stage = "answered" => CountsRight(u, k)

ReadersRight == \A u \in Users, r \in Readers : ReaderRight(u, reader[u][r])

MeterInv == MeterType /\ Conserved /\ ReadersRight

-----------------------------------------------------------------------------

\* A reader that has not asked has no claim.
LEMMA NoReaderRight == NoReader \in Reader /\ NoReader.stage = "idle"
<1>a. 0 \in Nat /\ TRUE \in BOOLEAN /\ "idle" \in {"idle", "asked", "answered"}
  OBVIOUS
<1>1. NoReader \in Reader
  BY <1>a, Zenon DEF NoReader, Reader
<1>2. NoReader.stage = "idle"
  BY DEF NoReader
<1> QED
  BY <1>1, <1>2

LEMMA MeterInitInv == MeterInit => MeterInv
<1> SUFFICES ASSUME MeterInit PROVE MeterInv
  OBVIOUS
<1>2. MeterType
  BY NoReaderRight DEF MeterInit, MeterType, Zero
<1>3. Conserved
  <2> SUFFICES ASSUME NEW u \in Users
               PROVE  metered[u] = pending[u] + taken[u] + row[u] + past[u] + lost[u]
    BY DEF Conserved
  <2>1. /\ metered[u] = 0 /\ pending[u] = 0 /\ taken[u] = 0
        /\ row[u] = 0 /\ past[u] = 0 /\ lost[u] = 0
    BY DEF MeterInit, Zero
  <2> QED
    BY <2>1
<1>4. ReadersRight
  BY NoReaderRight DEF MeterInit, ReadersRight, ReaderRight
<1> QED
  BY <1>2, <1>3, <1>4 DEF MeterInv

\* A reader that a step leaves alone stays right if neither the table nor the
\* total goes down, and nothing leaves memory while it is calm.
LEMMA Untouched ==
  ASSUME MeterType, MeterType', NEW u \in Users, NEW k \in Reader, ReaderRight(u, k),
         row[u] + past[u] <= row'[u] + past'[u], metered[u] <= metered'[u],
         k.calm => pending[u] <= pending'[u]
  PROVE  ReaderRight(u, k)'
<1>1. PICK a \in Nat, b \in Nat, c \in Nat, d \in Nat, m \in Nat, n \in Nat,
           p \in Nat, q \in Nat :
        /\ a = row[u] /\ b = past[u] /\ c = row'[u] /\ d = past'[u]
        /\ m = metered[u] /\ n = metered'[u] /\ p = pending[u] /\ q = pending'[u]
  BY DEF MeterType
<1>2. PICK s \in Nat, t \in Nat, x \in Nat, y \in Nat :
        s = k.hidden /\ t = k.used /\ x = k.lost /\ y = k.metered
  BY DEF Reader
<1>3. k.stage = "asked" => RowSeen(u, k)'
  BY <1>1, <1>2 DEF ReaderRight, RowSeen
<1>4. k.stage = "answered" => CountsRight(u, k)'
  BY <1>1, <1>2 DEF ReaderRight, CountsRight
<1> QED
  BY <1>3, <1>4 DEF ReaderRight

LEMMA AddInv == ASSUME MeterInv, NEW u \in Users, Add(u) PROVE MeterInv'
<1>1. MeterType'
  BY DEF MeterInv, MeterType, Add
<1>2. Conserved'
  BY DEF MeterInv, MeterType, Conserved, Add
<1>3. ReadersRight'
  <2> SUFFICES ASSUME NEW v \in Users, NEW r \in Readers
               PROVE  ReaderRight(v, reader[v][r])'
    BY DEF ReadersRight
  <2>1. /\ row'[v] = row[v] /\ past'[v] = past[v]
        /\ metered[v] <= metered'[v] /\ pending[v] <= pending'[v]
        /\ row[v] + past[v] <= row[v] + past[v]
    BY DEF MeterInv, MeterType, Add
  <2>2. reader[v][r] \in Reader /\ ReaderRight(v, reader[v][r]) /\ reader' = reader
    BY DEF MeterInv, MeterType, ReadersRight, Add
  <2> QED
    BY <1>1, <2>1, <2>2, Untouched DEF MeterInv
<1> QED
  BY <1>1, <1>2, <1>3 DEF MeterInv

\* Those whose counts are taken out of memory are told so by Disturb: no calm
\* reader has lost sight of a unit.
LEMMA FlushTakeInv == ASSUME MeterInv, FlushTake PROVE MeterInv'
<1> DEFINE us == {u \in Users : pending[u] > 0}
<1>1. ASSUME NEW u \in Users, NEW r \in Readers
      PROVE  /\ reader'[u][r] \in Reader
             /\ pending[u] = 0 => reader'[u][r] = reader[u][r]
             /\ reader'[u][r].stage = reader[u][r].stage
             /\ reader'[u][r].hidden = reader[u][r].hidden
             /\ reader'[u][r].used = reader[u][r].used
             /\ u \in us /\ reader[u][r].stage = "asked" => ~reader'[u][r].calm
  <2>1. reader'[u][r] = IF u \in us /\ reader[u][r].stage = "asked"
                          THEN [reader[u][r] EXCEPT !.calm = FALSE] ELSE reader[u][r]
    BY DEF FlushTake, Disturb
  <2>2. reader[u][r] \in Reader /\ pending[u] \in Nat /\ (pending[u] = 0 => u \notin us)
    BY DEF MeterInv, MeterType
  <2>3. CASE u \in us /\ reader[u][r].stage = "asked"
    <3>1. reader'[u][r] = [reader[u][r] EXCEPT !.calm = FALSE]
      BY <2>1, <2>3
    <3>2. reader[u][r] \in Reader /\ FALSE \in BOOLEAN
      BY <2>2
    <3>3. reader'[u][r] \in Reader
      BY <3>1, <3>2, Zenon DEF Reader
    <3>4. /\ reader'[u][r].stage = reader[u][r].stage
          /\ reader'[u][r].hidden = reader[u][r].hidden
          /\ reader'[u][r].used = reader[u][r].used
      BY <3>1, <3>2 DEF Reader
    <3>5. ~reader'[u][r].calm
      BY <3>1, <3>2, Zenon DEF Reader
    <3> QED
      BY <2>2, <2>3, <3>3, <3>4, <3>5
  <2>4. CASE ~(u \in us /\ reader[u][r].stage = "asked")
    BY <2>1, <2>2, <2>4
  <2> QED
    BY <2>3, <2>4
<1>2. MeterType'
  <2>1. reader' \in [Users -> [Readers -> Reader]]
    BY <1>1 DEF FlushTake, Disturb
  <2> QED
    BY <2>1 DEF MeterInv, MeterType, FlushTake, Zero
<1>3. Conserved'
  <2> SUFFICES ASSUME NEW u \in Users
               PROVE  (metered[u] = pending[u] + taken[u] + row[u] + past[u] + lost[u])'
    BY DEF Conserved
  <2>1. taken[u] = 0 /\ taken'[u] = pending[u] /\ pending'[u] = 0
    BY DEF MeterInv, MeterType, FlushTake, Flushing, Zero
  <2>2. metered[u] = pending[u] + taken[u] + row[u] + past[u] + lost[u]
    BY DEF MeterInv, Conserved
  <2> QED
    BY <2>1, <2>2 DEF MeterInv, MeterType, FlushTake
<1>4. ReadersRight'
  <2> SUFFICES ASSUME NEW u \in Users, NEW r \in Readers
               PROVE  ReaderRight(u, reader[u][r])'
    BY DEF ReadersRight
  <2>a. reader[u][r] \in Reader /\ ReaderRight(u, reader[u][r])
    BY DEF MeterInv, MeterType, ReadersRight
  <2>b. /\ row' = row /\ past' = past /\ metered' = metered
        /\ pending[u] \in Nat /\ row[u] \in Nat /\ past[u] \in Nat /\ metered[u] \in Nat
        /\ pending'[u] = 0
    BY DEF MeterInv, MeterType, FlushTake, Zero
  <2>1. CASE pending[u] = 0
    <3>1. reader'[u][r] = reader[u][r]
      BY <2>1, <1>1
    <3>2. row'[u] = row[u] /\ past'[u] = past[u] /\ metered'[u] = metered[u]
          /\ pending'[u] = pending[u]
      BY <2>b, <2>1
    <3> QED
      BY <3>1, <3>2, <2>a DEF ReaderRight, RowSeen, CountsRight
  <2>2. CASE pending[u] > 0 /\ reader[u][r].stage = "asked"
    <3>1. ~reader'[u][r].calm
      BY <2>2, <1>1
    <3>2. reader[u][r].hidden + reader[u][r].used <= row[u] + past[u]
      BY <2>a, <2>2 DEF ReaderRight, RowSeen
    <3> QED
      BY <3>1, <3>2, <2>2, <2>b, <1>1 DEF ReaderRight, RowSeen
  <2>3. CASE reader[u][r].stage # "asked"
    <3>1. reader'[u][r] = reader[u][r]
      BY <2>3 DEF FlushTake, Disturb
    <3> QED
      BY <3>1, <2>3, <2>a, <2>b DEF ReaderRight, CountsRight
  <2> QED
    BY <2>1, <2>2, <2>3, <2>b
<1> QED
  BY <1>2, <1>3, <1>4 DEF MeterInv

LEMMA FlushWriteInv == ASSUME MeterInv, NEW u \in Users, FlushWrite(u) PROVE MeterInv'
<1>a. /\ \A v \in Users : pending[v] \in Nat /\ taken[v] \in Nat /\ row[v] \in Nat
                           /\ past[v] \in Nat /\ metered[v] \in Nat /\ lost[v] \in Nat
      /\ taken[u] + row[u] \in Nat /\ taken[u] + past[u] \in Nat
  BY DEF MeterInv, MeterType
<1>1. \/ past' = [past EXCEPT ![u] = past[u] + taken[u]] /\ row' = row
      \/ row' = [row EXCEPT ![u] = row[u] + taken[u]] /\ past' = past
  BY DEF FlushWrite
<1>2. taken' = [taken EXCEPT ![u] = 0] /\ UNCHANGED <<day, pending, late, reader, metered, lost>>
  BY DEF FlushWrite
<1>3. MeterType'
  BY <1>a, <1>1, <1>2 DEF MeterInv, MeterType
<1>4. ASSUME NEW v \in Users
      PROVE  /\ taken'[v] + row'[v] + past'[v] = taken[v] + row[v] + past[v]
             /\ row[v] + past[v] <= row'[v] + past'[v]
  BY <1>a, <1>1, <1>2 DEF MeterInv, MeterType
<1>5. Conserved'
  <2> SUFFICES ASSUME NEW v \in Users
               PROVE  (metered[v] = pending[v] + taken[v] + row[v] + past[v] + lost[v])'
    BY DEF Conserved
  <2>1. metered[v] = pending[v] + taken[v] + row[v] + past[v] + lost[v]
    BY DEF MeterInv, Conserved
  <2>2. /\ metered'[v] = metered[v] /\ pending'[v] = pending[v] /\ lost'[v] = lost[v]
        /\ taken'[v] \in Nat /\ row'[v] \in Nat /\ past'[v] \in Nat
    BY <1>2, <1>3 DEF MeterType
  <2> QED
    BY <2>1, <2>2, <1>4, <1>a
<1>6. ReadersRight'
  BY <1>2, <1>3, <1>4, <1>a, Untouched DEF MeterInv, MeterType, ReadersRight
<1> QED
  BY <1>3, <1>5, <1>6 DEF MeterInv

LEMMA FlushFailsInv == ASSUME MeterInv, NEW u \in Users, FlushFails(u) PROVE MeterInv'
<1>1. MeterType'
  BY DEF MeterInv, MeterType, FlushFails
<1>2. Conserved'
  BY DEF MeterInv, MeterType, Conserved, FlushFails
<1>3. ReadersRight'
  BY DEF MeterInv, ReadersRight, ReaderRight, RowSeen, CountsRight, FlushFails
<1> QED
  BY <1>1, <1>2, <1>3 DEF MeterInv

\* today(): what is in the row stays there, whether or not it is shown, and when
\* flush holds nothing the rest is in memory or lost.
LEMMA AskRowInv ==
  ASSUME MeterInv, NEW u \in Users, NEW r \in Readers, AskRow(u, r) \/ AskRowFails(u, r)
  PROVE  MeterInv'
<1>0. PICK units \in {0, row[u]} : Shown(u, r, units)
  BY DEF AskRow, AskRowFails
<1> DEFINE k == [stage |-> "asked", used |-> units, hidden |-> past[u] + (row[u] - units),
                 metered |-> metered[u], lost |-> lost[u], calm |-> taken[u] = 0]
<1>1. k \in Reader
  <2>1. row[u] \in Nat /\ past[u] \in Nat /\ metered[u] \in Nat /\ lost[u] \in Nat
    BY DEF MeterInv, MeterType
  <2>2. units \in Nat /\ past[u] + (row[u] - units) \in Nat
    BY <2>1
  <2> QED
    BY <2>1, <2>2 DEF Reader
<1>2. reader' = [reader EXCEPT ![u][r] = k]
  BY <1>0 DEF Shown
<1> DEFINE rest == <<day, pending, taken, late, row, past, metered, lost>>
<1>3. rest' = rest
  BY <1>0 DEF Shown
<1>4. ReaderRight(u, k)
  <2>1. /\ k.stage = "asked" /\ k.used = units /\ k.hidden = past[u] + (row[u] - units)
        /\ k.metered = metered[u] /\ k.lost = lost[u] /\ k.calm = (taken[u] = 0)
    OBVIOUS
  <2> HIDE DEF k
  <2>2. metered[u] = pending[u] + taken[u] + row[u] + past[u] + lost[u]
    BY DEF MeterInv, Conserved
  <2>3. /\ row[u] \in Nat /\ past[u] \in Nat /\ metered[u] \in Nat
        /\ lost[u] \in Nat /\ pending[u] \in Nat /\ taken[u] \in Nat
    BY DEF MeterInv, MeterType
  <2>4. past[u] + (row[u] - units) + units <= row[u] + past[u]
    BY <2>3
  <2>5. taken[u] = 0 =>
          past[u] + (row[u] - units) + units + lost[u] + pending[u] >= metered[u]
    BY <2>2, <2>3
  <2> QED
    BY <2>1, <2>4, <2>5, Zenon DEF ReaderRight, RowSeen
<1> HIDE DEF k
<1>5. MeterType'
  BY <1>1, <1>2, <1>3 DEF MeterInv, MeterType
<1>6. Conserved'
  BY <1>3 DEF MeterInv, Conserved
<1>7. ReadersRight'
  <2> SUFFICES ASSUME NEW v \in Users, NEW s \in Readers
               PROVE  ReaderRight(v, reader[v][s])'
    BY DEF ReadersRight
  <2>1. reader'[v][s] = IF v = u /\ s = r THEN k ELSE reader[v][s]
    BY <1>2 DEF MeterInv, MeterType
  <2>2. ReaderRight(v, reader[v][s])
    BY DEF MeterInv, ReadersRight
  <2> QED
    BY <2>1, <2>2, <1>3, <1>4 DEF ReaderRight, RowSeen, CountsRight
<1> QED
  BY <1>5, <1>6, <1>7 DEF MeterInv

LEMMA AskPendingInv ==
  ASSUME MeterInv, NEW u \in Users, NEW r \in Readers, AskPending(u, r) PROVE MeterInv'
<1> DEFINE old == reader[u][r]
           k == [old EXCEPT !.stage = "answered", !.used = @ + pending[u]]
           rest == <<day, pending, taken, late, row, past, metered, lost>>
<1>1. old \in Reader /\ old.stage = "asked" /\ ReaderRight(u, old)
  BY DEF MeterInv, MeterType, ReadersRight, AskPending
<1>2. /\ row[u] \in Nat /\ past[u] \in Nat /\ metered[u] \in Nat
      /\ lost[u] \in Nat /\ pending[u] \in Nat /\ taken[u] \in Nat
  BY DEF MeterInv, MeterType
<1>3. /\ k \in Reader /\ k.stage = "answered" /\ k.used = old.used + pending[u]
      /\ k.hidden = old.hidden /\ k.lost = old.lost /\ k.metered = old.metered /\ k.calm = old.calm
      /\ old.used \in Nat /\ old.hidden \in Nat /\ old.lost \in Nat /\ old.metered \in Nat
  <2>1. /\ old.used \in Nat /\ old.hidden \in Nat /\ old.lost \in Nat /\ old.metered \in Nat
        /\ old.calm \in BOOLEAN
    BY <1>1 DEF Reader
  <2> DEFINE k1 == [old EXCEPT !.stage = "answered"]
             x == old.used + pending[u]
  <2>2. "answered" \in {"idle", "asked", "answered"} /\ x \in Nat
    BY <2>1, <1>2
  <2>3. k1 \in Reader /\ k1.used = old.used
    BY <1>1, <2>2, Zenon DEF Reader
  <2>4. k = [k1 EXCEPT !.used = x]
    BY <2>3, Zenon
  <2>5. k1.stage = "answered" /\ k1.hidden = old.hidden /\ k1.lost = old.lost /\ k1.metered = old.metered
    BY <1>1 DEF Reader
  <2>6. k1.calm = old.calm
    BY <1>1, Zenon DEF Reader
  <2> HIDE DEF k, k1, x, old
  <2>7. k \in Reader
    BY <2>2, <2>3, <2>4, Zenon DEF Reader
  <2>8. /\ k.stage = "answered" /\ k.used = x
        /\ k.hidden = old.hidden /\ k.lost = old.lost /\ k.metered = old.metered
    BY <2>2, <2>3, <2>4, <2>5 DEF Reader
  <2>9. k.calm = old.calm
    BY <2>3, <2>4, <2>6, Zenon DEF Reader
  <2> QED
    BY <2>1, <2>7, <2>8, <2>9, Zenon DEF x
<1>4. reader' = [reader EXCEPT ![u][r] = k]
  <2>1. reader \in [Users -> [Readers -> Reader]]
    BY DEF MeterInv, MeterType
  <2> QED
    BY <2>1 DEF AskPending
<1>5. rest' = rest
  BY DEF AskPending
<1> HIDE DEF k
<1>6. MeterType'
  BY <1>3, <1>4, <1>5 DEF MeterInv, MeterType
<1>7. Conserved'
  BY <1>5 DEF MeterInv, Conserved
<1>8. ReaderRight(u, k)
  <2>1. metered[u] = pending[u] + taken[u] + row[u] + past[u] + lost[u]
    BY DEF MeterInv, Conserved
  <2>2. /\ old.hidden + old.used <= row[u] + past[u]
        /\ old.calm => old.hidden + old.used + old.lost + pending[u] >= old.metered
    BY <1>1 DEF ReaderRight, RowSeen
  <2> HIDE DEF old
  <2>3. old.hidden + (old.used + pending[u]) <= metered[u]
    BY <2>1, <2>2, <1>2, <1>3
  <2>4. old.calm => old.hidden + (old.used + pending[u]) + old.lost >= old.metered
    BY <2>2, <1>2, <1>3
  <2> QED
    BY <2>3, <2>4, <1>3, Zenon DEF ReaderRight, CountsRight
<1>9. ReadersRight'
  <2> SUFFICES ASSUME NEW v \in Users, NEW s \in Readers
               PROVE  ReaderRight(v, reader[v][s])'
    BY DEF ReadersRight
  <2>1. reader'[v][s] = IF v = u /\ s = r THEN k ELSE reader[v][s]
    BY <1>4 DEF MeterInv, MeterType
  <2>2. ReaderRight(v, reader[v][s])
    BY DEF MeterInv, ReadersRight
  <2> QED
    BY <2>1, <2>2, <1>5, <1>8 DEF ReaderRight, RowSeen, CountsRight
<1> QED
  BY <1>6, <1>7, <1>9 DEF MeterInv

LEMMA NextRequestInv ==
  ASSUME MeterInv, NEW u \in Users, NEW r \in Readers, NextRequest(u, r) PROVE MeterInv'
<1>1. MeterType'
  BY NoReaderRight DEF MeterInv, MeterType, NextRequest
<1>2. Conserved'
  BY DEF MeterInv, Conserved, NextRequest
<1>3. ReadersRight'
  <2> SUFFICES ASSUME NEW v \in Users, NEW s \in Readers
               PROVE  ReaderRight(v, reader[v][s])'
    BY DEF ReadersRight
  <2>1. reader'[v][s] = IF v = u /\ s = r THEN NoReader ELSE reader[v][s]
    BY DEF MeterInv, MeterType, NextRequest
  <2>2. ReaderRight(v, reader[v][s])
    BY DEF MeterInv, ReadersRight
  <2> QED
    BY <2>1, <2>2, NoReaderRight DEF NextRequest, ReaderRight, RowSeen, CountsRight
<1> QED
  BY <1>1, <1>2, <1>3 DEF MeterInv

LEMMA MidnightInv == ASSUME MeterInv, Midnight PROVE MeterInv'
<1>1. ASSUME NEW u \in Users
      PROVE  /\ pending[u] \in Nat /\ taken[u] \in Nat /\ row[u] \in Nat
             /\ past[u] \in Nat /\ metered[u] \in Nat /\ lost[u] \in Nat
             /\ past'[u] = past[u] + row[u] /\ row'[u] = 0
  BY DEF MeterInv, MeterType, Midnight, Zero
<1>2. UNCHANGED <<pending, taken, reader, metered, lost>>
  BY DEF Midnight
<1>3. MeterType'
  <2>1. past' \in [Users -> Nat] /\ row' \in [Users -> Nat]
    BY <1>1 DEF Midnight, Zero
  <2> QED
    BY <2>1 DEF MeterInv, MeterType, Midnight
<1>4. Conserved'
  <2> SUFFICES ASSUME NEW u \in Users
               PROVE  (metered[u] = pending[u] + taken[u] + row[u] + past[u] + lost[u])'
    BY DEF Conserved
  <2>1. metered[u] = pending[u] + taken[u] + row[u] + past[u] + lost[u]
    BY DEF MeterInv, Conserved
  <2> QED
    BY <2>1, <1>1, <1>2
<1>5. ReadersRight'
  <2> SUFFICES ASSUME NEW u \in Users, NEW r \in Readers
               PROVE  ReaderRight(u, reader[u][r])'
    BY DEF ReadersRight
  <2>1. reader[u][r] \in Reader /\ ReaderRight(u, reader[u][r])
    BY DEF MeterInv, MeterType, ReadersRight
  <2>2. row[u] + past[u] <= row'[u] + past'[u]
    BY <1>1
  <2> QED
    BY <2>1, <2>2, <1>1, <1>2, <1>3, Untouched DEF MeterInv
<1> QED
  BY <1>3, <1>4, <1>5 DEF MeterInv

LEMMA CrashInv == ASSUME MeterInv, Crash PROVE MeterInv'
<1>1. ASSUME NEW u \in Users
      PROVE  /\ pending[u] \in Nat /\ taken[u] \in Nat /\ row[u] \in Nat
             /\ past[u] \in Nat /\ metered[u] \in Nat /\ lost[u] \in Nat
             /\ lost'[u] = lost[u] + pending[u] + taken[u]
             /\ pending'[u] = 0 /\ taken'[u] = 0
  BY DEF MeterInv, MeterType, Crash, Zero
<1>2. UNCHANGED <<row, past, metered>>
  BY DEF Crash
<1>3. MeterType'
  <2>1. /\ lost' \in [Users -> Nat] /\ pending' \in [Users -> Nat]
        /\ taken' \in [Users -> Nat]
    BY <1>1 DEF Crash, Zero
  <2>2. reader' \in [Users -> [Readers -> Reader]]
    BY NoReaderRight DEF Crash
  <2> QED
    BY <2>1, <2>2 DEF MeterInv, MeterType, Crash
<1>4. Conserved'
  <2> SUFFICES ASSUME NEW u \in Users
               PROVE  (metered[u] = pending[u] + taken[u] + row[u] + past[u] + lost[u])'
    BY DEF Conserved
  <2>1. metered[u] = pending[u] + taken[u] + row[u] + past[u] + lost[u]
    BY DEF MeterInv, Conserved
  <2> QED
    BY <2>1, <1>1, <1>2
<1>5. ReadersRight'
  BY NoReaderRight DEF Crash, ReadersRight, ReaderRight
<1> QED
  BY <1>3, <1>4, <1>5 DEF MeterInv

LEMMA MeterNextInv == MeterInv /\ [MeterNext]_meterVars => MeterInv'
<1>1. MeterInv /\ UNCHANGED meterVars => MeterInv'
  BY DEF meterVars, MeterInv, MeterType, Conserved, ReadersRight, ReaderRight, RowSeen, CountsRight
<1> QED
  BY <1>1, AddInv, FlushTakeInv, FlushWriteInv, FlushFailsInv, AskRowInv, AskPendingInv,
     NextRequestInv, MidnightInv, CrashInv DEF MeterNext, FlushStep

\* The invariant holds in every instance.
LEMMA MeterInductive == MeterSpec => []MeterInv
BY MeterInitInv, MeterNextInv, PTL DEF MeterSpec

\* Every unit that add was given is in the map, in the hands of flush, in one
\* row of usage_daily, or lost by a failed statement or a crash, and in one
\* place only.
THEOREM BooksBalance == MeterSpec => []Conserved
<1>1. MeterInv => Conserved
  BY DEF MeterInv
<1> QED
  BY <1>1, MeterInductive, PTL

\* today() never counts a unit twice.  It leaves out what has been lost, the day's row
\* when its SELECT fails, and what flush has in hand if it comes between the two reads;
\* nothing else.
THEOREM QuotaReadsRight == MeterSpec => []ReadersCountRight
<1>1. MeterInv => ReadersCountRight
  BY DEF MeterInv, ReadersRight, ReaderRight, CountsRight, ReadersCountRight
<1> QED
  BY <1>1, MeterInductive, PTL

-----------------------------------------------------------------------------
(* The path table.  A prefix is a sequence of segments, each as long as it *)
(* likes; the operators of the table are folds over sequences.             *)

\* What the vector has in it.
PathEntry == [prefix : PathPrefixes, conn : Conns]

\* The stages of Retain.
LEMMA RetainFold ==
  ASSUME NEW E, NEW s0 \in Seq(E), NEW p
  PROVE  \E f \in [0 .. Len(s0) -> Seq(E)] :
           /\ f[0] = <<>> /\ f[Len(s0)] = Retain(s0, p)
           /\ \A k \in 1 .. Len(s0) : f[k] = IF s0[k].prefix = p THEN f[k - 1] ELSE Append(f[k - 1], s0[k])
<1> DEFINE v == s0
           n == Len(v)
           Op(w, e) == IF e.prefix = p THEN w ELSE Append(w, e)
           F == [x \in (1 .. n) \X Seq(E) |-> Op(x[2], v[x[1]])]
           Is(h) == h = [s \in SUBSET (DOMAIN v) |->
                           IF s = {} THEN <<>> ELSE Op(h[s \ {Greatest(s)}], v[Greatest(s)])]
           H == CHOOSE h : Is(h)
           f == [k \in 0 .. n |-> H[1 .. k]]
<1>1. n \in Nat /\ DOMAIN v = 1 .. n /\ <<>> \in Seq(E)
  OBVIOUS
<1>2. \A k \in 1 .. n, w \in Seq(E) : Op(w, v[k]) \in Seq(E)
  OBVIOUS
<1>3. Retain(s0, p) = H[DOMAIN v]
  BY DEF Retain, FoldLeft, MapThenFoldSet, Max, Greatest
<1> HIDE DEF v
<1>4. \E h : Is(h)
  <2>1. F \in [(1 .. n) \X Seq(E) -> Seq(E)]
    <3> HIDE DEF Op
    <3> QED
      BY <1>2
  <2>2. PICK h \in [SUBSET (1 .. n) -> Seq(E)] : Chosen(h, n, <<>>, F)
    <3> HIDE DEF F, n
    <3> QED
      BY <1>1, <2>1, FoldChosen
  <2>3. ASSUME NEW s \in SUBSET (1 .. n), s # {}
        PROVE  h[s] = Op(h[s \ {Greatest(s)}], v[Greatest(s)])
    <3>1. Greatest(s) \in 1 .. n /\ s \ {Greatest(s)} \in SUBSET (1 .. n)
      BY <1>1, <2>3, HasLast
    <3>2. h[s] = F[<<Greatest(s), h[s \ {Greatest(s)}]>>]
      BY <2>2, <2>3 DEF Chosen
    <3> HIDE DEF Op
    <3> QED
      BY <3>1, <3>2, <2>2
  <2>4. h[{}] = <<>>
    BY <2>2 DEF Chosen
  <2>5. Is(h)
    <3> HIDE DEF Op
    <3> QED
      BY <1>1, <2>2, <2>3, <2>4
  <2> HIDE DEF Is
  <2> QED
    BY <2>5
<1>5. Is(H)
  <2> HIDE DEF Is
  <2> QED
    BY <1>4
<1>6. f[0] = <<>> /\ f[n] = Retain(s0, p)
  <2>1. {} \in SUBSET (DOMAIN v) /\ 1 .. 0 = {}
    OBVIOUS
  <2>2. H[{}] = <<>>
    <3> HIDE DEF Op, H
    <3> QED
      BY <1>5, <2>1
  <2>3. 0 \in 0 .. n /\ n \in 0 .. n
    <3> HIDE DEF n
    <3> QED
      BY <1>1
  <2>4. f[0] = H[1 .. 0] /\ f[n] = H[1 .. n]
    <3> HIDE DEF H, n
    <3> QED
      BY <2>3
  <2> HIDE DEF H, f
  <2> QED
    BY <1>1, <1>3, <2>1, <2>2, <2>4
<1>7. ASSUME NEW k \in 1 .. n PROVE f[k] = Op(f[k - 1], v[k])
  <2>1. Greatest(1 .. k) = k /\ (1 .. k) \ {k} = 1 .. (k - 1) /\ 1 .. k # {}
    BY <1>1, FirstPlaces
  <2>2. 1 .. k \in SUBSET (DOMAIN v)
    BY <1>1
  <2>3. H[1 .. k] = Op(H[(1 .. k) \ {k}], v[k])
    <3> HIDE DEF Op, H
    <3> QED
      BY <1>5, <2>1, <2>2
  <2>4. f[k] = H[1 .. k] /\ f[k - 1] = H[1 .. (k - 1)]
    <3>1. k \in 0 .. n /\ k - 1 \in 0 .. n
      BY <1>1
    <3> HIDE DEF H
    <3> QED
      BY <3>1
  <2> HIDE DEF f, H, Op
  <2> QED
    BY <2>1, <2>3, <2>4
<1>8. \A k \in 0 .. n : f[k] \in Seq(E)
  <2>1. ASSUME NEW k \in 1 .. n, f[k - 1] \in Seq(E) PROVE f[k] \in Seq(E)
    <3> HIDE DEF f, Op
    <3> QED
      BY <1>2, <1>7, <2>1
  <2> HIDE DEF f
  <2> QED
    BY <1>1, <1>6, <2>1, FoldKeeps
<1>9. f \in [0 .. n -> Seq(E)]
  BY <1>8
<1>10. \A k \in 1 .. n : f[k] = IF v[k].prefix = p THEN f[k - 1] ELSE Append(f[k - 1], v[k])
  <2> HIDE DEF f
  <2> QED
    BY <1>7
<1>11. n = Len(s0) /\ v = s0
  BY DEF v
<1> HIDE DEF f
<1> QED
  BY <1>6, <1>9, <1>10, <1>11 DEF v

Entries(v) == {v[i] : i \in 1 .. Len(v)}

\* A prefix is in the vector once.
Unique(v) == \A i, j \in 1 .. Len(v) : v[i].prefix = v[j].prefix => i = j

\* Longer prefixes come first.
Ordered(v) == \A i, j \in 1 .. Len(v) :
                i < j => StrLen(v[i].prefix) >= StrLen(v[j].prefix)

\* w is made of the first k elements of v, in their order.
PartOf(w, v, k) ==
  /\ \A i \in 1 .. Len(w) : \E m \in 1 .. k : w[i] = v[m]
  /\ \A i, j \in 1 .. Len(w) :
       i < j => \E m, l \in 1 .. k : m < l /\ w[i] = v[m] /\ w[j] = v[l]

LEMMA PartKeeps ==
  ASSUME NEW w \in Seq(PathEntry), NEW v \in Seq(PathEntry), PartOf(w, v, Len(v))
  PROVE  (Unique(v) => Unique(w)) /\ (Ordered(v) => Ordered(w))
<1>1. ASSUME Unique(v), NEW i \in 1 .. Len(w), NEW j \in 1 .. Len(w), i < j
      PROVE  w[i].prefix # w[j].prefix
  <2>1. PICK m \in 1 .. Len(v), l \in 1 .. Len(v) : m < l /\ w[i] = v[m] /\ w[j] = v[l]
    BY <1>1 DEF PartOf
  <2>2. m # l
    BY <2>1
  <2> QED
    BY <1>1, <2>1, <2>2 DEF Unique
<1>2. Unique(v) => Unique(w)
  <2> SUFFICES ASSUME Unique(v), NEW i \in 1 .. Len(w), NEW j \in 1 .. Len(w), i # j
               PROVE  w[i].prefix # w[j].prefix
    BY DEF Unique
  <2>1. i < j \/ j < i
    OBVIOUS
  <2> QED
    BY <2>1, <1>1
<1>3. Ordered(v) => Ordered(w)
  BY DEF Ordered, PartOf
<1> QED
  BY <1>2, <1>3

LEMMA PartGrows ==
  ASSUME NEW w \in Seq(PathEntry), NEW v \in Seq(PathEntry), NEW k \in 1 .. Len(v), PartOf(w, v, k - 1)
  PROVE  PartOf(w, v, k) /\ PartOf(Append(w, v[k]), v, k)
<1>1. (1 .. (k - 1)) \subseteq 1 .. k /\ k \in 1 .. k /\ v[k] \in PathEntry
  OBVIOUS
<1>2. PartOf(w, v, k)
  BY <1>1 DEF PartOf
<1> DEFINE u == Append(w, v[k])
<1>3. /\ Len(u) = Len(w) + 1 /\ u[Len(u)] = v[k] /\ Len(w) \in Nat
      /\ \A i \in 1 .. Len(w) : u[i] = w[i]
  BY <1>1
<1>4. \A i \in 1 .. Len(u) : i \in 1 .. Len(w) \/ i = Len(u)
  BY <1>3
<1> HIDE DEF u
<1>5. ASSUME NEW i \in 1 .. Len(u) PROVE \E m \in 1 .. k : u[i] = v[m]
  <2>1. CASE i \in 1 .. Len(w)
    <3>1. u[i] = w[i]
      BY <1>3, <2>1
    <3> QED
      BY <1>2, <2>1, <3>1 DEF PartOf
  <2>2. CASE i = Len(u)
    BY <1>1, <1>3, <2>2
  <2> QED
    BY <1>4, <2>1, <2>2
<1>6. ASSUME NEW i \in 1 .. Len(u), NEW j \in 1 .. Len(u), i < j
      PROVE  \E m, l \in 1 .. k : m < l /\ u[i] = v[m] /\ u[j] = v[l]
  <2>1. i \in 1 .. Len(w)
    BY <1>3, <1>6
  <2>2. CASE j \in 1 .. Len(w)
    <3>1. u[i] = w[i] /\ u[j] = w[j]
      BY <1>3, <2>1, <2>2
    <3> QED
      BY <1>2, <1>6, <2>1, <2>2, <3>1 DEF PartOf
  <2>3. CASE j = Len(u)
    <3>1. PICK m \in 1 .. (k - 1) : w[i] = v[m]
      BY <2>1 DEF PartOf
    <3>2. m \in 1 .. k /\ m < k /\ u[i] = v[m] /\ u[j] = v[k]
      BY <1>3, <2>1, <2>3, <3>1
    <3> QED
      BY <1>1, <3>2
  <2> QED
    BY <1>4, <2>2, <2>3
<1>7. PartOf(u, v, k)
  BY <1>5, <1>6 DEF PartOf
<1> QED
  BY <1>2, <1>7 DEF u

LEMMA EntriesAppended ==
  ASSUME NEW w \in Seq(PathEntry), NEW e \in PathEntry
  PROVE  Entries(Append(w, e)) = Entries(w) \cup {e}
<1>1. /\ Len(Append(w, e)) = Len(w) + 1 /\ Append(w, e)[Len(w) + 1] = e
      /\ Len(w) \in Nat /\ \A i \in 1 .. Len(w) : Append(w, e)[i] = w[i]
  OBVIOUS
<1>2. 1 .. (Len(w) + 1) = (1 .. Len(w)) \cup {Len(w) + 1}
  BY <1>1
<1> QED
  BY <1>1, <1>2 DEF Entries

\* retain: the entries of other prefixes stay, in their order.
LEMMA RetainMakes ==
  ASSUME NEW v \in Seq(PathEntry), NEW p
  PROVE  /\ Retain(v, p) \in Seq(PathEntry)
         /\ Entries(Retain(v, p)) = {e \in Entries(v) : e.prefix # p}
         /\ Unique(v) => Unique(Retain(v, p))
         /\ Ordered(v) => Ordered(Retain(v, p))
<1> DEFINE n == Len(v)
<1>1. PICK f \in [0 .. n -> Seq(PathEntry)] :
        /\ f[0] = <<>> /\ f[n] = Retain(v, p)
        /\ \A k \in 1 .. n : f[k] = IF v[k].prefix = p THEN f[k - 1] ELSE Append(f[k - 1], v[k])
  BY RetainFold
<1> DEFINE Good(k) == /\ PartOf(f[k], v, k)
                      /\ Entries(f[k]) = {e \in {v[i] : i \in 1 .. k} : e.prefix # p}
           T == {k \in 0 .. n : Good(k)}
<1>2. n \in Nat /\ \A k \in 1 .. n : v[k] \in PathEntry
  OBVIOUS
<1> HIDE DEF n
<1>3. 0 \in T
  BY <1>1, <1>2 DEF PartOf, Entries
<1>4. ASSUME NEW k \in 1 .. n, k - 1 \in T PROVE k \in T
  <2>1. Good(k - 1) /\ f[k - 1] \in Seq(PathEntry) /\ k \in 0 .. n /\ v[k] \in PathEntry
    BY <1>1, <1>2, <1>4
  <2>2. PartOf(f[k - 1], v, k) /\ PartOf(Append(f[k - 1], v[k]), v, k)
    BY <2>1, PartGrows DEF n
  <2>3. {v[i] : i \in 1 .. k} = {v[i] : i \in 1 .. (k - 1)} \cup {v[k]}
    OBVIOUS
  <2>4. Entries(Append(f[k - 1], v[k])) = Entries(f[k - 1]) \cup {v[k]}
    BY <2>1, EntriesAppended
  <2>5. f[k] = IF v[k].prefix = p THEN f[k - 1] ELSE Append(f[k - 1], v[k])
    BY <1>1
  <2>6. PartOf(f[k], v, k)
    BY <2>2, <2>5
  <2>7. Entries(f[k]) = {e \in {v[i] : i \in 1 .. k} : e.prefix # p}
    <3>1. CASE v[k].prefix = p
      BY <2>1, <2>3, <2>5, <3>1
    <3>2. CASE v[k].prefix # p
      BY <2>1, <2>3, <2>4, <2>5, <3>2
    <3> QED
      BY <3>1, <3>2
  <2> QED
    BY <2>1, <2>6, <2>7
<1>5. n \in T
  <2> HIDE DEF T
  <2>1. \A k \in 0 .. n : k \in T
    BY <1>2, <1>3, <1>4, Induct
  <2> QED
    BY <1>2, <2>1
<1>6. Good(n) /\ f[n] \in Seq(PathEntry)
  BY <1>1, <1>2, <1>5
<1> QED
  BY <1>1, <1>6, PartKeeps DEF n, Entries

\* The stages of StrLen.
LEMMA StrLenFold ==
  ASSUME RouteTableAssumption, NEW p \in Seq(DOMAIN SegLen)
  PROVE  \E f \in [0 .. Len(p) -> Nat] :
           /\ f[0] = 0 /\ f[Len(p)] = StrLen(p)
           /\ \A k \in 1 .. Len(p) : f[k] = f[k - 1] + 1 + SegLen[p[k]]
<1> DEFINE v == p
           n == Len(v)
           Op(m, seg) == m + 1 + SegLen[seg]
           F == [x \in (1 .. n) \X Nat |-> Op(x[2], v[x[1]])]
           Is(h) == h = [s \in SUBSET (DOMAIN v) |->
                           IF s = {} THEN 0 ELSE Op(h[s \ {Greatest(s)}], v[Greatest(s)])]
           H == CHOOSE h : Is(h)
           f == [k \in 0 .. n |-> H[1 .. k]]
<1>1. n \in Nat /\ DOMAIN v = 1 .. n /\ 0 \in Nat
  OBVIOUS
<1>2. \A k \in 1 .. n, w \in Nat : Op(w, v[k]) \in Nat
  BY DEF RouteTableAssumption
<1>3. StrLen(p) = H[DOMAIN v]
  BY DEF StrLen, FoldLeft, MapThenFoldSet, Max, Greatest
<1> HIDE DEF v
<1>4. \E h : Is(h)
  <2>1. F \in [(1 .. n) \X Nat -> Nat]
    <3> HIDE DEF Op
    <3> QED
      BY <1>2
  <2>2. PICK h \in [SUBSET (1 .. n) -> Nat] : Chosen(h, n, 0, F)
    <3> HIDE DEF F, n
    <3> QED
      BY <1>1, <2>1, FoldChosen
  <2>3. ASSUME NEW s \in SUBSET (1 .. n), s # {}
        PROVE  h[s] = Op(h[s \ {Greatest(s)}], v[Greatest(s)])
    <3>1. Greatest(s) \in 1 .. n /\ s \ {Greatest(s)} \in SUBSET (1 .. n)
      BY <1>1, <2>3, HasLast
    <3>2. h[s] = F[<<Greatest(s), h[s \ {Greatest(s)}]>>]
      BY <2>2, <2>3 DEF Chosen
    <3> HIDE DEF Op
    <3> QED
      BY <3>1, <3>2, <2>2
  <2>4. h[{}] = 0
    BY <2>2 DEF Chosen
  <2>5. Is(h)
    <3> HIDE DEF Op
    <3> QED
      BY <1>1, <2>2, <2>3, <2>4
  <2> HIDE DEF Is
  <2> QED
    BY <2>5
<1>5. Is(H)
  <2> HIDE DEF Is
  <2> QED
    BY <1>4
<1>6. f[0] = 0 /\ f[n] = StrLen(p)
  <2>1. {} \in SUBSET (DOMAIN v) /\ 1 .. 0 = {}
    OBVIOUS
  <2>2. H[{}] = 0
    <3> HIDE DEF Op, H
    <3> QED
      BY <1>5, <2>1
  <2>3. 0 \in 0 .. n /\ n \in 0 .. n
    <3> HIDE DEF n
    <3> QED
      BY <1>1
  <2>4. f[0] = H[1 .. 0] /\ f[n] = H[1 .. n]
    <3> HIDE DEF H, n
    <3> QED
      BY <2>3
  <2> HIDE DEF H, f
  <2> QED
    BY <1>1, <1>3, <2>1, <2>2, <2>4
<1>7. ASSUME NEW k \in 1 .. n PROVE f[k] = Op(f[k - 1], v[k])
  <2>1. Greatest(1 .. k) = k /\ (1 .. k) \ {k} = 1 .. (k - 1) /\ 1 .. k # {}
    BY <1>1, FirstPlaces
  <2>2. 1 .. k \in SUBSET (DOMAIN v)
    BY <1>1
  <2>3. H[1 .. k] = Op(H[(1 .. k) \ {k}], v[k])
    <3> HIDE DEF Op, H
    <3> QED
      BY <1>5, <2>1, <2>2
  <2>4. f[k] = H[1 .. k] /\ f[k - 1] = H[1 .. (k - 1)]
    <3>1. k \in 0 .. n /\ k - 1 \in 0 .. n
      BY <1>1
    <3> HIDE DEF H
    <3> QED
      BY <3>1
  <2> HIDE DEF f, H, Op
  <2> QED
    BY <2>1, <2>3, <2>4
<1>8. \A k \in 0 .. n : f[k] \in Nat
  <2>1. ASSUME NEW k \in 1 .. n, f[k - 1] \in Nat PROVE f[k] \in Nat
    <3> HIDE DEF f, Op
    <3> QED
      BY <1>2, <1>7, <2>1
  <2> HIDE DEF f
  <2> QED
    BY <1>1, <1>6, <2>1, FoldKeeps
<1>9. f \in [0 .. n -> Nat]
  BY <1>8
<1>10. \A k \in 1 .. n : f[k] = f[k - 1] + 1 + SegLen[v[k]]
  <2> HIDE DEF f
  <2> QED
    BY <1>7
<1>11. n = Len(p) /\ v = p
  BY DEF v
<1> HIDE DEF f
<1> QED
  BY <1>6, <1>9, <1>10, <1>11 DEF v

LEMMA StrLenType ==
  ASSUME RouteTableAssumption, NEW p \in Seq(DOMAIN SegLen)
  PROVE  StrLen(p) \in Nat
<1>1. PICK f \in [0 .. Len(p) -> Nat] : f[Len(p)] = StrLen(p)
  BY StrLenFold
<1>2. Len(p) \in 0 .. Len(p)
  OBVIOUS
<1> QED
  BY <1>1, <1>2

\* A prefix of a path stands for a shorter string than one that goes on.
LEMMA StrLenGrows ==
  ASSUME RouteTableAssumption, NEW p \in Seq(DOMAIN SegLen), NEW q \in Seq(DOMAIN SegLen),
         Len(p) < Len(q), \A i \in 1 .. Len(p) : p[i] = q[i]
  PROVE  StrLen(p) < StrLen(q)
<1> DEFINE m == Len(p)
           n == Len(q)
<1>1. PICK f \in [0 .. m -> Nat] :
        /\ f[0] = 0 /\ f[m] = StrLen(p)
        /\ \A k \in 1 .. m : f[k] = f[k - 1] + 1 + SegLen[p[k]]
  BY StrLenFold
<1>2. PICK g \in [0 .. n -> Nat] :
        /\ g[0] = 0 /\ g[n] = StrLen(q)
        /\ \A k \in 1 .. n : g[k] = g[k - 1] + 1 + SegLen[q[k]]
  BY StrLenFold
<1>3. m \in Nat /\ n \in Nat /\ m < n /\ \A k \in 1 .. m : p[k] = q[k]
  OBVIOUS
<1>4. \A k \in 1 .. n : SegLen[q[k]] \in Nat
  BY DEF RouteTableAssumption
<1> HIDE DEF m, n
<1>5. f[m] = g[m]
  <2> DEFINE T == {k \in 0 .. m : f[k] = g[k]}
  <2>1. 0 \in T
    BY <1>1, <1>2, <1>3
  <2>2. ASSUME NEW k \in 1 .. m, k - 1 \in T PROVE k \in T
    <3>1. k \in 1 .. n /\ f[k - 1] = g[k - 1] /\ k \in 0 .. m
      BY <1>3, <2>2
    <3>2. f[k] = g[k]
      BY <1>1, <1>2, <1>3, <3>1
    <3> QED
      BY <3>1, <3>2
  <2> HIDE DEF T
  <2>3. m \in T
    <3>1. \A k \in 0 .. m : k \in T
      BY <1>3, <2>1, <2>2, Induct
    <3> QED
      BY <1>3, <3>1
  <2> QED
    BY <2>3 DEF T
<1>6. g[m] < g[n]
  <2> DEFINE T == {k \in 0 .. n : m < k => g[m] < g[k]}
  <2>1. 0 \in T
    BY <1>3
  <2>2. ASSUME NEW k \in 1 .. n, k - 1 \in T PROVE k \in T
    <3>1. g[k] = g[k - 1] + 1 + SegLen[q[k]] /\ SegLen[q[k]] \in Nat
          /\ g[k - 1] \in Nat /\ g[k] \in Nat /\ k \in 0 .. n
      BY <1>2, <1>3, <1>4
    <3>2. g[k - 1] < g[k]
      BY <3>1
    <3>3. ASSUME m < k PROVE g[m] < g[k]
      <4>1. CASE m = k - 1
        BY <3>2, <4>1
      <4>2. CASE m < k - 1
        <5>1. g[m] < g[k - 1] /\ g[m] \in Nat
          BY <1>2, <1>3, <2>2, <4>2
        <5> QED
          BY <3>1, <3>2, <5>1
      <4> QED
        BY <1>3, <3>3, <4>1, <4>2
    <3> QED
      BY <3>1, <3>3
  <2> HIDE DEF T
  <2>3. n \in T
    <3>1. \A k \in 0 .. n : k \in T
      BY <1>3, <2>1, <2>2, Induct
    <3> QED
      BY <1>3, <3>1
  <2> QED
    BY <1>3, <2>3 DEF T
<1> QED
  BY <1>1, <1>2, <1>5, <1>6

\* The stages of Cleared.
LEMMA ClearedFold ==
  ASSUME NEW c \in Conns, by_path \in Seq(PathEntry), owned[c] \in Seq(PathPrefixes)
  PROVE  \E f \in [0 .. Len(owned[c]) -> Seq(PathEntry)] :
           /\ f[0] = by_path /\ f[Len(owned[c])] = Cleared(c)
           /\ \A k \in 1 .. Len(owned[c]) : f[k] = Retain(f[k - 1], owned[c][k])
<1> DEFINE v == owned[c]
           n == Len(v)
           Op(w, p) == Retain(w, p)
           F == [x \in (1 .. n) \X Seq(PathEntry) |-> Op(x[2], v[x[1]])]
           Is(h) == h = [s \in SUBSET (DOMAIN v) |->
                           IF s = {} THEN by_path ELSE Op(h[s \ {Greatest(s)}], v[Greatest(s)])]
           H == CHOOSE h : Is(h)
           f == [k \in 0 .. n |-> H[1 .. k]]
<1>1. n \in Nat /\ DOMAIN v = 1 .. n /\ by_path \in Seq(PathEntry)
  OBVIOUS
<1>2. \A k \in 1 .. n, w \in Seq(PathEntry) : Op(w, v[k]) \in Seq(PathEntry)
  <2>1. ASSUME NEW w \in Seq(PathEntry), NEW p PROVE Retain(w, p) \in Seq(PathEntry)
    BY RetainMakes
  <2> QED
    BY <2>1
<1>3. Cleared(c) = H[DOMAIN v]
  BY DEF Cleared, FoldLeft, MapThenFoldSet, Max, Greatest
<1> HIDE DEF v
<1>4. \E h : Is(h)
  <2>1. F \in [(1 .. n) \X Seq(PathEntry) -> Seq(PathEntry)]
    <3> HIDE DEF Op
    <3> QED
      BY <1>2
  <2>2. PICK h \in [SUBSET (1 .. n) -> Seq(PathEntry)] : Chosen(h, n, by_path, F)
    <3> HIDE DEF F, n
    <3> QED
      BY <1>1, <2>1, FoldChosen
  <2>3. ASSUME NEW s \in SUBSET (1 .. n), s # {}
        PROVE  h[s] = Op(h[s \ {Greatest(s)}], v[Greatest(s)])
    <3>1. Greatest(s) \in 1 .. n /\ s \ {Greatest(s)} \in SUBSET (1 .. n)
      BY <1>1, <2>3, HasLast
    <3>2. h[s] = F[<<Greatest(s), h[s \ {Greatest(s)}]>>]
      BY <2>2, <2>3 DEF Chosen
    <3> HIDE DEF Op
    <3> QED
      BY <3>1, <3>2, <2>2
  <2>4. h[{}] = by_path
    BY <2>2 DEF Chosen
  <2>5. Is(h)
    <3> HIDE DEF Op
    <3> QED
      BY <1>1, <2>2, <2>3, <2>4
  <2> HIDE DEF Is
  <2> QED
    BY <2>5
<1>5. Is(H)
  <2> HIDE DEF Is
  <2> QED
    BY <1>4
<1>6. f[0] = by_path /\ f[n] = Cleared(c)
  <2>1. {} \in SUBSET (DOMAIN v) /\ 1 .. 0 = {}
    OBVIOUS
  <2>2. H[{}] = by_path
    <3> HIDE DEF Op, H
    <3> QED
      BY <1>5, <2>1
  <2>3. 0 \in 0 .. n /\ n \in 0 .. n
    <3> HIDE DEF n
    <3> QED
      BY <1>1
  <2>4. f[0] = H[1 .. 0] /\ f[n] = H[1 .. n]
    <3> HIDE DEF H, n
    <3> QED
      BY <2>3
  <2> HIDE DEF H, f
  <2> QED
    BY <1>1, <1>3, <2>1, <2>2, <2>4
<1>7. ASSUME NEW k \in 1 .. n PROVE f[k] = Op(f[k - 1], v[k])
  <2>1. Greatest(1 .. k) = k /\ (1 .. k) \ {k} = 1 .. (k - 1) /\ 1 .. k # {}
    BY <1>1, FirstPlaces
  <2>2. 1 .. k \in SUBSET (DOMAIN v)
    BY <1>1
  <2>3. H[1 .. k] = Op(H[(1 .. k) \ {k}], v[k])
    <3> HIDE DEF Op, H
    <3> QED
      BY <1>5, <2>1, <2>2
  <2>4. f[k] = H[1 .. k] /\ f[k - 1] = H[1 .. (k - 1)]
    <3>1. k \in 0 .. n /\ k - 1 \in 0 .. n
      BY <1>1
    <3> HIDE DEF H
    <3> QED
      BY <3>1
  <2> HIDE DEF f, H, Op
  <2> QED
    BY <2>1, <2>3, <2>4
<1>8. \A k \in 0 .. n : f[k] \in Seq(PathEntry)
  <2>1. ASSUME NEW k \in 1 .. n, f[k - 1] \in Seq(PathEntry) PROVE f[k] \in Seq(PathEntry)
    <3> HIDE DEF f, Op
    <3> QED
      BY <1>2, <1>7, <2>1
  <2> HIDE DEF f
  <2> QED
    BY <1>1, <1>6, <2>1, FoldKeeps
<1>9. f \in [0 .. n -> Seq(PathEntry)]
  BY <1>8
<1>10. \A k \in 1 .. n : f[k] = Retain(f[k - 1], v[k])
  <2> HIDE DEF f
  <2> QED
    BY <1>7
<1>11. n = Len(owned[c]) /\ v = owned[c]
  BY DEF v
<1> HIDE DEF f
<1> QED
  BY <1>6, <1>9, <1>10, <1>11 DEF v

\* Clearing: what is not a prefix the connection owned stays, in its order.
LEMMA ClearedMakes ==
  ASSUME NEW c \in Conns, by_path \in Seq(PathEntry), owned[c] \in Seq(PathPrefixes)
  PROVE  /\ Cleared(c) \in Seq(PathEntry)
         /\ Entries(Cleared(c)) = {e \in Entries(by_path) : e.prefix \notin Entries(owned[c])}
         /\ Unique(by_path) => Unique(Cleared(c))
         /\ Ordered(by_path) => Ordered(Cleared(c))
<1> DEFINE ps == owned[c]
           n == Len(ps)
<1>1. PICK f \in [0 .. n -> Seq(PathEntry)] :
        /\ f[0] = by_path /\ f[n] = Cleared(c)
        /\ \A k \in 1 .. n : f[k] = Retain(f[k - 1], ps[k])
  BY ClearedFold
<1> DEFINE Good(k) == /\ Unique(by_path) => Unique(f[k])
                      /\ Ordered(by_path) => Ordered(f[k])
                      /\ Entries(f[k]) = {e \in Entries(by_path) : e.prefix \notin {ps[i] : i \in 1 .. k}}
           T == {k \in 0 .. n : Good(k)}
<1>2. n \in Nat
  OBVIOUS
<1> HIDE DEF n
<1>3. 0 \in T
  <2>1. {ps[i] : i \in 1 .. 0} = {}
    OBVIOUS
  <2> QED
    BY <1>1, <1>2, <2>1
<1>4. ASSUME NEW k \in 1 .. n, k - 1 \in T PROVE k \in T
  <2>1. Good(k - 1) /\ f[k - 1] \in Seq(PathEntry) /\ k \in 0 .. n
    <3>1. k - 1 \in 0 .. n /\ k \in 0 .. n
      BY <1>2
    <3> HIDE DEF Good
    <3> QED
      BY <1>1, <1>4, <3>1
  <2>2. {ps[i] : i \in 1 .. k} = {ps[i] : i \in 1 .. (k - 1)} \cup {ps[k]}
    OBVIOUS
  <2>3. f[k] = Retain(f[k - 1], ps[k])
    BY <1>1
  <2>4. /\ Entries(f[k]) = {e \in Entries(f[k - 1]) : e.prefix # ps[k]}
        /\ Unique(f[k - 1]) => Unique(f[k])
        /\ Ordered(f[k - 1]) => Ordered(f[k])
    <3> HIDE DEF ps
    <3> QED
      BY <2>1, <2>3, RetainMakes
  <2>5. Entries(f[k]) = {e \in Entries(by_path) : e.prefix \notin {ps[i] : i \in 1 .. k}}
    BY <2>1, <2>2, <2>4
  <2> QED
    BY <2>1, <2>4, <2>5
<1>5. n \in T
  <2> HIDE DEF T
  <2>1. \A k \in 0 .. n : k \in T
    BY <1>2, <1>3, <1>4, Induct
  <2> QED
    BY <1>2, <2>1
<1>6. Good(n) /\ f[n] \in Seq(PathEntry)
  <2> HIDE DEF Good
  <2> QED
    BY <1>1, <1>2, <1>5
<1>7. {ps[i] : i \in 1 .. n} = Entries(ps)
  BY DEF n, Entries
<1> HIDE DEF ps
<1>8. /\ Cleared(c) \in Seq(PathEntry)
      /\ Entries(Cleared(c)) = {e \in Entries(by_path) : e.prefix \notin Entries(ps)}
      /\ Unique(by_path) => Unique(Cleared(c))
      /\ Ordered(by_path) => Ordered(Cleared(c))
  BY <1>1, <1>6, <1>7
<1> QED
  BY <1>8 DEF ps

\* The entries a connection puts for some prefixes.
Given(ps, c) == {[prefix |-> p, conn |-> c] : p \in ps}

LEMMA PutMakes ==
  ASSUME NEW v \in Seq(PathEntry), NEW p \in PathPrefixes, NEW c \in Conns
  PROVE  /\ Put(v, p, c) \in Seq(PathEntry)
         /\ Entries(Put(v, p, c)) = {e \in Entries(v) : e.prefix # p} \cup Given({p}, c)
         /\ Unique(v) => Unique(Put(v, p, c))
<1> DEFINE w == Retain(v, p)
           e0 == [prefix |-> p, conn |-> c]
           u == Append(w, e0)
<1>1. /\ w \in Seq(PathEntry) /\ Entries(w) = {e \in Entries(v) : e.prefix # p}
      /\ Unique(v) => Unique(w)
  BY RetainMakes
<1>2. Put(v, p, c) = u
  BY DEF Put
<1>3. e0 \in PathEntry /\ e0.prefix = p /\ Given({p}, c) = {e0}
  BY DEF PathEntry, Given
<1> HIDE DEF w, e0
<1>4. u \in Seq(PathEntry) /\ Entries(u) = Entries(w) \cup {e0}
  BY <1>1, <1>3, EntriesAppended
<1>5. ASSUME Unique(w) PROVE Unique(u)
  <2>1. /\ Len(u) = Len(w) + 1 /\ u[Len(u)] = e0 /\ Len(w) \in Nat
        /\ \A i \in 1 .. Len(w) : u[i] = w[i]
    BY <1>1, <1>3
  <2>2. \A i \in 1 .. Len(u) : i \in 1 .. Len(w) \/ i = Len(u)
    BY <2>1
  <2>3. \A i \in 1 .. Len(w) : u[i].prefix # p
    BY <1>1, <2>1 DEF Entries
  <2> HIDE DEF u
  <2> SUFFICES ASSUME NEW i \in 1 .. Len(u), NEW j \in 1 .. Len(u), u[i].prefix = u[j].prefix
               PROVE  i = j
    BY DEF Unique
  <2>4. CASE i \in 1 .. Len(w) /\ j \in 1 .. Len(w)
    BY <1>5, <2>1, <2>4 DEF Unique
  <2>5. CASE i = Len(u) \/ j = Len(u)
    BY <1>3, <2>1, <2>2, <2>3, <2>5
  <2> QED
    BY <2>2, <2>4, <2>5
<1> QED
  BY <1>1, <1>2, <1>3, <1>4, <1>5

\* The stages of Filled.
LEMMA FilledFold ==
  ASSUME NEW c \in Conns, NEW ps \in Seq(PathPrefixes), Cleared(c) \in Seq(PathEntry)
  PROVE  \E f \in [0 .. Len(ps) -> Seq(PathEntry)] :
           /\ f[0] = Cleared(c) /\ f[Len(ps)] = WithInputs(c, ps)
           /\ \A k \in 1 .. Len(ps) : f[k] = Put(f[k - 1], ps[k], c)
<1> DEFINE v == ps
           n == Len(v)
           Op(w, p) == Put(w, p, c)
           F == [x \in (1 .. n) \X Seq(PathEntry) |-> Op(x[2], v[x[1]])]
           Is(h) == h = [s \in SUBSET (DOMAIN v) |->
                           IF s = {} THEN Cleared(c) ELSE Op(h[s \ {Greatest(s)}], v[Greatest(s)])]
           H == CHOOSE h : Is(h)
           f == [k \in 0 .. n |-> H[1 .. k]]
<1>1. n \in Nat /\ DOMAIN v = 1 .. n /\ Cleared(c) \in Seq(PathEntry)
  OBVIOUS
<1>2. \A k \in 1 .. n, w \in Seq(PathEntry) : Op(w, v[k]) \in Seq(PathEntry)
  <2>1. ASSUME NEW w \in Seq(PathEntry), NEW p \in PathPrefixes PROVE Put(w, p, c) \in Seq(PathEntry)
    BY PutMakes
  <2> QED
    BY <2>1
<1>3. WithInputs(c, ps) = H[DOMAIN v]
  BY DEF WithInputs, FoldLeft, MapThenFoldSet, Max, Greatest
<1> HIDE DEF v
<1>4. \E h : Is(h)
  <2>1. F \in [(1 .. n) \X Seq(PathEntry) -> Seq(PathEntry)]
    <3> HIDE DEF Op
    <3> QED
      BY <1>2
  <2>2. PICK h \in [SUBSET (1 .. n) -> Seq(PathEntry)] : Chosen(h, n, Cleared(c), F)
    <3> HIDE DEF F, n
    <3> QED
      BY <1>1, <2>1, FoldChosen
  <2>3. ASSUME NEW s \in SUBSET (1 .. n), s # {}
        PROVE  h[s] = Op(h[s \ {Greatest(s)}], v[Greatest(s)])
    <3>1. Greatest(s) \in 1 .. n /\ s \ {Greatest(s)} \in SUBSET (1 .. n)
      BY <1>1, <2>3, HasLast
    <3>2. h[s] = F[<<Greatest(s), h[s \ {Greatest(s)}]>>]
      BY <2>2, <2>3 DEF Chosen
    <3> HIDE DEF Op
    <3> QED
      BY <3>1, <3>2, <2>2
  <2>4. h[{}] = Cleared(c)
    BY <2>2 DEF Chosen
  <2>5. Is(h)
    <3> HIDE DEF Op
    <3> QED
      BY <1>1, <2>2, <2>3, <2>4
  <2> HIDE DEF Is
  <2> QED
    BY <2>5
<1>5. Is(H)
  <2> HIDE DEF Is
  <2> QED
    BY <1>4
<1>6. f[0] = Cleared(c) /\ f[n] = WithInputs(c, ps)
  <2>1. {} \in SUBSET (DOMAIN v) /\ 1 .. 0 = {}
    OBVIOUS
  <2>2. H[{}] = Cleared(c)
    <3> HIDE DEF Op, H
    <3> QED
      BY <1>5, <2>1
  <2>3. 0 \in 0 .. n /\ n \in 0 .. n
    <3> HIDE DEF n
    <3> QED
      BY <1>1
  <2>4. f[0] = H[1 .. 0] /\ f[n] = H[1 .. n]
    <3> HIDE DEF H, n
    <3> QED
      BY <2>3
  <2> HIDE DEF H, f
  <2> QED
    BY <1>1, <1>3, <2>1, <2>2, <2>4
<1>7. ASSUME NEW k \in 1 .. n PROVE f[k] = Op(f[k - 1], v[k])
  <2>1. Greatest(1 .. k) = k /\ (1 .. k) \ {k} = 1 .. (k - 1) /\ 1 .. k # {}
    BY <1>1, FirstPlaces
  <2>2. 1 .. k \in SUBSET (DOMAIN v)
    BY <1>1
  <2>3. H[1 .. k] = Op(H[(1 .. k) \ {k}], v[k])
    <3> HIDE DEF Op, H
    <3> QED
      BY <1>5, <2>1, <2>2
  <2>4. f[k] = H[1 .. k] /\ f[k - 1] = H[1 .. (k - 1)]
    <3>1. k \in 0 .. n /\ k - 1 \in 0 .. n
      BY <1>1
    <3> HIDE DEF H
    <3> QED
      BY <3>1
  <2> HIDE DEF f, H, Op
  <2> QED
    BY <2>1, <2>3, <2>4
<1>8. \A k \in 0 .. n : f[k] \in Seq(PathEntry)
  <2>1. ASSUME NEW k \in 1 .. n, f[k - 1] \in Seq(PathEntry) PROVE f[k] \in Seq(PathEntry)
    <3> HIDE DEF f, Op
    <3> QED
      BY <1>2, <1>7, <2>1
  <2> HIDE DEF f
  <2> QED
    BY <1>1, <1>6, <2>1, FoldKeeps
<1>9. f \in [0 .. n -> Seq(PathEntry)]
  BY <1>8
<1>10. \A k \in 1 .. n : f[k] = Put(f[k - 1], v[k], c)
  <2> HIDE DEF f
  <2> QED
    BY <1>7
<1>11. n = Len(ps) /\ v = ps
  BY DEF v
<1> HIDE DEF f
<1> QED
  BY <1>6, <1>9, <1>10, <1>11 DEF v

\* insert: one place further back from where e goes.
LEMMA InsertMakes ==
  ASSUME NEW v \in Seq(PathEntry), NEW e \in PathEntry
  PROVE  /\ InsertByLen(v, e) \in Seq(PathEntry)
         /\ \E at \in 1 .. (Len(v) + 1) :
              LET w == InsertByLen(v, e) IN
              /\ Len(w) = Len(v) + 1 /\ w[at] = e
              /\ \A i \in 1 .. (at - 1) : w[i] = v[i]
              /\ \A i \in (at + 1) .. (Len(v) + 1) : w[i] = v[i - 1]
              /\ at > 1 => StrLen(v[at - 1].prefix) >= StrLen(e.prefix)
              /\ \A i \in at .. Len(v) : ~ (StrLen(v[i].prefix) >= StrLen(e.prefix))
<1> DEFINE n == Len(v)
           before == {i \in DOMAIN v : StrLen(v[i].prefix) >= StrLen(e.prefix)}
           at == IF before = {} THEN 1 ELSE Max(before) + 1
           w == SubSeq(v, 1, at - 1) \o <<e>> \o SubSeq(v, at, n)
<1>1. InsertByLen(v, e) = w
  BY DEF InsertByLen, InsertAt
<1>2. n \in Nat /\ before \in SUBSET (1 .. n) /\ DOMAIN v = 1 .. n
  OBVIOUS
<1>3. /\ at \in 1 .. (n + 1)
      /\ at > 1 => at - 1 \in before
      /\ \A i \in at .. n : i \notin before
  <2> HIDE DEF n, before
  <2>1. CASE before = {}
    BY <1>2, <2>1
  <2>2. CASE before # {}
    <3>1. LastOf(before, Greatest(before)) /\ Greatest(before) \in 1 .. n /\ Max(before) = Greatest(before)
      BY <1>2, <2>2, HasLast DEF Max, Greatest
    <3> HIDE DEF Greatest
    <3>2. at = Greatest(before) + 1
      BY <2>2, <3>1
    <3> HIDE DEF at
    <3>3. \A i \in at .. n : i \notin before
      BY <1>2, <3>1, <3>2 DEF LastOf
    <3> QED
      BY <1>2, <3>1, <3>2, <3>3 DEF LastOf
  <2> QED
    BY <2>1, <2>2
<1> HIDE DEF at
<1>4. /\ w \in Seq(PathEntry) /\ Len(w) = n + 1 /\ w[at] = e
      /\ \A i \in 1 .. (at - 1) : w[i] = v[i]
      /\ \A i \in (at + 1) .. (n + 1) : w[i] = v[i - 1]
  <2> DEFINE x == SubSeq(v, 1, at - 1)
             y == SubSeq(v, at, n)
  <2>1. x \in Seq(PathEntry) /\ Len(x) = at - 1 /\ \A i \in 1 .. (at - 1) : x[i] = v[i]
    BY <1>2, <1>3
  <2>2. y \in Seq(PathEntry) /\ Len(y) = n + 1 - at /\ \A i \in 1 .. (n + 1 - at) : y[i] = v[at + i - 1]
    BY <1>2, <1>3
  <2> HIDE DEF x, y, n
  <2>3. w = (x \o <<e>>) \o y
    BY DEF x, y
  <2> DEFINE z == x \o <<e>>
  <2>4. z \in Seq(PathEntry) /\ Len(z) = at /\ z[at] = e /\ \A i \in 1 .. (at - 1) : z[i] = v[i]
    BY <1>2, <1>3, <2>1
  <2> HIDE DEF z, w
  <2>5. w = z \o y
    BY <2>3 DEF z
  <2>6. /\ w \in Seq(PathEntry) /\ Len(w) = n + 1
        /\ \A i \in 1 .. at : w[i] = z[i]
        /\ \A i \in (at + 1) .. (n + 1) : w[i] = y[i - at]
    <3>1. /\ w \in Seq(PathEntry) /\ Len(w) = Len(z) + Len(y)
          /\ \A i \in 1 .. (Len(z) + Len(y)) : w[i] = IF i <= Len(z) THEN z[i] ELSE y[i - Len(z)]
      BY <2>2, <2>4, <2>5
    <3>2. Len(z) + Len(y) = n + 1
      BY <1>2, <1>3, <2>2, <2>4
    <3>3. \A i \in 1 .. at : i \in 1 .. (n + 1) /\ i <= at
      BY <1>2, <1>3
    <3>4. \A i \in (at + 1) .. (n + 1) : i \in 1 .. (n + 1) /\ ~ (i <= at)
      BY <1>2, <1>3
    <3> QED
      BY <3>1, <3>2, <3>3, <3>4, <2>4
  <2>7. ASSUME NEW i \in (at + 1) .. (n + 1) PROVE w[i] = v[i - 1]
    <3>1. i - at \in 1 .. (n + 1 - at) /\ at + (i - at) - 1 = i - 1
      BY <1>2, <1>3
    <3> QED
      BY <2>2, <2>6, <3>1
  <2> QED
    BY <1>2, <1>3, <2>4, <2>6, <2>7
<1> HIDE DEF w
<1>5. /\ at > 1 => StrLen(v[at - 1].prefix) >= StrLen(e.prefix)
      /\ \A i \in at .. n : ~ (StrLen(v[i].prefix) >= StrLen(e.prefix))
  <2>1. \A i \in at .. n : i \in DOMAIN v
    BY <1>2, <1>3
  <2> QED
    BY <1>3, <2>1
<1> HIDE DEF before
<1> QED
  BY <1>1, <1>3, <1>4, <1>5

\* The stages of SortByLen.
LEMMA SortFold ==
  ASSUME NEW s0 \in Seq(PathEntry)
  PROVE  \E f \in [0 .. Len(s0) -> Seq(PathEntry)] :
           /\ f[0] = <<>> /\ f[Len(s0)] = SortByLen(s0)
           /\ \A k \in 1 .. Len(s0) : f[k] = InsertByLen(f[k - 1], s0[k])
<1> DEFINE v == s0
           n == Len(v)
           Op(w, e) == InsertByLen(w, e)
           F == [x \in (1 .. n) \X Seq(PathEntry) |-> Op(x[2], v[x[1]])]
           Is(h) == h = [s \in SUBSET (DOMAIN v) |->
                           IF s = {} THEN <<>> ELSE Op(h[s \ {Greatest(s)}], v[Greatest(s)])]
           H == CHOOSE h : Is(h)
           f == [k \in 0 .. n |-> H[1 .. k]]
<1>1. n \in Nat /\ DOMAIN v = 1 .. n /\ <<>> \in Seq(PathEntry)
  OBVIOUS
<1>2. \A k \in 1 .. n, w \in Seq(PathEntry) : Op(w, v[k]) \in Seq(PathEntry)
  <2>1. \A k \in 1 .. n : v[k] \in PathEntry
    OBVIOUS
  <2> HIDE DEF v, n
  <2> QED
    BY <2>1, InsertMakes
<1>3. SortByLen(s0) = H[DOMAIN v]
  BY DEF SortByLen, FoldLeft, MapThenFoldSet, Max, Greatest
<1> HIDE DEF v
<1>4. \E h : Is(h)
  <2>1. F \in [(1 .. n) \X Seq(PathEntry) -> Seq(PathEntry)]
    <3> HIDE DEF Op
    <3> QED
      BY <1>2
  <2>2. PICK h \in [SUBSET (1 .. n) -> Seq(PathEntry)] : Chosen(h, n, <<>>, F)
    <3> HIDE DEF F, n
    <3> QED
      BY <1>1, <2>1, FoldChosen
  <2>3. ASSUME NEW s \in SUBSET (1 .. n), s # {}
        PROVE  h[s] = Op(h[s \ {Greatest(s)}], v[Greatest(s)])
    <3>1. Greatest(s) \in 1 .. n /\ s \ {Greatest(s)} \in SUBSET (1 .. n)
      BY <1>1, <2>3, HasLast
    <3>2. h[s] = F[<<Greatest(s), h[s \ {Greatest(s)}]>>]
      BY <2>2, <2>3 DEF Chosen
    <3> HIDE DEF Op
    <3> QED
      BY <3>1, <3>2, <2>2
  <2>4. h[{}] = <<>>
    BY <2>2 DEF Chosen
  <2>5. Is(h)
    <3> HIDE DEF Op
    <3> QED
      BY <1>1, <2>2, <2>3, <2>4
  <2> HIDE DEF Is
  <2> QED
    BY <2>5
<1>5. Is(H)
  <2> HIDE DEF Is
  <2> QED
    BY <1>4
<1>6. f[0] = <<>> /\ f[n] = SortByLen(s0)
  <2>1. {} \in SUBSET (DOMAIN v) /\ 1 .. 0 = {}
    OBVIOUS
  <2>2. H[{}] = <<>>
    <3> HIDE DEF Op, H
    <3> QED
      BY <1>5, <2>1
  <2>3. 0 \in 0 .. n /\ n \in 0 .. n
    <3> HIDE DEF n
    <3> QED
      BY <1>1
  <2>4. f[0] = H[1 .. 0] /\ f[n] = H[1 .. n]
    <3> HIDE DEF H, n
    <3> QED
      BY <2>3
  <2> HIDE DEF H, f
  <2> QED
    BY <1>1, <1>3, <2>1, <2>2, <2>4
<1>7. ASSUME NEW k \in 1 .. n PROVE f[k] = Op(f[k - 1], v[k])
  <2>1. Greatest(1 .. k) = k /\ (1 .. k) \ {k} = 1 .. (k - 1) /\ 1 .. k # {}
    BY <1>1, FirstPlaces
  <2>2. 1 .. k \in SUBSET (DOMAIN v)
    BY <1>1
  <2>3. H[1 .. k] = Op(H[(1 .. k) \ {k}], v[k])
    <3> HIDE DEF Op, H
    <3> QED
      BY <1>5, <2>1, <2>2
  <2>4. f[k] = H[1 .. k] /\ f[k - 1] = H[1 .. (k - 1)]
    <3>1. k \in 0 .. n /\ k - 1 \in 0 .. n
      BY <1>1
    <3> HIDE DEF H
    <3> QED
      BY <3>1
  <2> HIDE DEF f, H, Op
  <2> QED
    BY <2>1, <2>3, <2>4
<1>8. \A k \in 0 .. n : f[k] \in Seq(PathEntry)
  <2>1. ASSUME NEW k \in 1 .. n, f[k - 1] \in Seq(PathEntry) PROVE f[k] \in Seq(PathEntry)
    <3> HIDE DEF f, Op
    <3> QED
      BY <1>2, <1>7, <2>1
  <2> HIDE DEF f
  <2> QED
    BY <1>1, <1>6, <2>1, FoldKeeps
<1>9. f \in [0 .. n -> Seq(PathEntry)]
  BY <1>8
<1>10. \A k \in 1 .. n : f[k] = InsertByLen(f[k - 1], v[k])
  <2> HIDE DEF f
  <2> QED
    BY <1>7
<1>11. n = Len(s0) /\ v = s0
  BY DEF v
<1> HIDE DEF f
<1> QED
  BY <1>6, <1>9, <1>10, <1>11 DEF v

\* Filling: the inputs are the connection's, the rest is as it was cleared.
LEMMA FilledMakes ==
  ASSUME NEW c \in Conns, NEW ps \in Seq(PathPrefixes), Cleared(c) \in Seq(PathEntry)
  PROVE  /\ WithInputs(c, ps) \in Seq(PathEntry)
         /\ Entries(WithInputs(c, ps)) =
              {e \in Entries(Cleared(c)) : e.prefix \notin Entries(ps)} \cup Given(Entries(ps), c)
         /\ Unique(Cleared(c)) => Unique(WithInputs(c, ps))
<1> DEFINE n == Len(ps)
           v == Cleared(c)
<1>1. PICK f \in [0 .. n -> Seq(PathEntry)] :
        /\ f[0] = v /\ f[n] = WithInputs(c, ps)
        /\ \A k \in 1 .. n : f[k] = Put(f[k - 1], ps[k], c)
  BY FilledFold
<1> DEFINE Good(k) == /\ Unique(v) => Unique(f[k])
                      /\ Entries(f[k]) = {e \in Entries(v) : e.prefix \notin {ps[i] : i \in 1 .. k}}
                                           \cup Given({ps[i] : i \in 1 .. k}, c)
           T == {k \in 0 .. n : Good(k)}
<1>2. n \in Nat /\ \A k \in 1 .. n : ps[k] \in PathPrefixes
  OBVIOUS
<1> HIDE DEF n, v
<1>3. 0 \in T
  <2>1. {ps[i] : i \in 1 .. 0} = {}
    OBVIOUS
  <2> QED
    BY <1>1, <1>2, <2>1 DEF Given
<1>4. ASSUME NEW k \in 1 .. n, k - 1 \in T PROVE k \in T
  <2>1. Good(k - 1) /\ f[k - 1] \in Seq(PathEntry) /\ k \in 0 .. n
    <3>1. k - 1 \in 0 .. n /\ k \in 0 .. n
      BY <1>2
    <3> HIDE DEF Good
    <3> QED
      BY <1>1, <1>4, <3>1
  <2> DEFINE A == {ps[i] : i \in 1 .. (k - 1)}
             B == {ps[i] : i \in 1 .. k}
  <2>2. B = A \cup {ps[k]}
    OBVIOUS
  <2>3. f[k] = Put(f[k - 1], ps[k], c)
    BY <1>1
  <2>4. /\ Entries(f[k]) = {e \in Entries(f[k - 1]) : e.prefix # ps[k]} \cup Given({ps[k]}, c)
        /\ Unique(f[k - 1]) => Unique(f[k])
    <3>1. ASSUME NEW u \in Seq(PathEntry)
          PROVE  /\ Entries(Put(u, ps[k], c)) = {e \in Entries(u) : e.prefix # ps[k]} \cup Given({ps[k]}, c)
                 /\ Unique(u) => Unique(Put(u, ps[k], c))
      BY <1>2, PutMakes
    <3> HIDE DEF Good
    <3> QED
      BY <2>1, <2>3, <3>1
  <2>5. /\ Entries(f[k - 1]) = {e \in Entries(v) : e.prefix \notin A} \cup Given(A, c)
        /\ Unique(v) => Unique(f[k - 1])
    BY <2>1
  <2> HIDE DEF A, B
  <2>6. Entries(f[k]) = {e \in Entries(v) : e.prefix \notin B} \cup Given(B, c)
    <3>1. \A e \in Given(A, c) : e.prefix \in A /\ e = [prefix |-> e.prefix, conn |-> c]
      BY DEF Given
    <3>2. \A p \in A : [prefix |-> p, conn |-> c] \in Given(A, c) /\ [prefix |-> p, conn |-> c].prefix = p
      BY DEF Given
    <3>3. Given(B, c) = {e \in Given(A, c) : e.prefix # ps[k]} \cup Given({ps[k]}, c)
      BY <2>2, <3>1, <3>2 DEF Given
    <3> QED
      BY <2>2, <2>4, <2>5, <3>3
  <2>7. Good(k)
    BY <2>4, <2>5, <2>6 DEF B
  <2> HIDE DEF Good
  <2> QED
    BY <2>1, <2>7
<1>5. n \in T
  <2> HIDE DEF T
  <2>1. \A k \in 0 .. n : k \in T
    BY <1>2, <1>3, <1>4, Induct
  <2> QED
    BY <1>2, <2>1
<1>6. Good(n) /\ f[n] \in Seq(PathEntry)
  <2> HIDE DEF Good
  <2> QED
    BY <1>1, <1>2, <1>5
<1>7. {ps[i] : i \in 1 .. n} = Entries(ps)
  BY DEF n, Entries
<1> QED
  BY <1>1, <1>6, <1>7 DEF v

\* Inserting into an ordered vector leaves it ordered.
LEMMA InsertOrders ==
  ASSUME RouteTableAssumption, NEW v \in Seq(PathEntry), NEW e \in PathEntry, Ordered(v)
  PROVE  /\ Entries(InsertByLen(v, e)) = Entries(v) \cup {e}
         /\ Ordered(InsertByLen(v, e))
         /\ Unique(v) /\ (\A o \in Entries(v) : o.prefix # e.prefix) => Unique(InsertByLen(v, e))
<1> DEFINE w == InsertByLen(v, e)
           n == Len(v)
           L(o) == StrLen(o.prefix)
<1>1. PICK at \in 1 .. (n + 1) :
              /\ Len(w) = n + 1 /\ w[at] = e
              /\ \A i \in 1 .. (at - 1) : w[i] = v[i]
              /\ \A i \in (at + 1) .. (n + 1) : w[i] = v[i - 1]
              /\ at > 1 => L(v[at - 1]) >= L(e)
              /\ \A i \in at .. n : ~ (L(v[i]) >= L(e))
  BY InsertMakes
<1>2. n \in Nat /\ w \in Seq(PathEntry) /\ \A o \in PathEntry : L(o) \in Nat
  <2>1. \A o \in PathEntry : o.prefix \in Seq(DOMAIN SegLen)
    BY DEF PathEntry, RouteTableAssumption
  <2>2. \A o \in PathEntry : L(o) \in Nat
    BY <2>1, StrLenType
  <2>3. w \in Seq(PathEntry)
    <3> HIDE DEF L
    <3> QED
      BY InsertMakes
  <2> HIDE DEF L
  <2> QED
    BY <2>2, <2>3
<1>3. \A i, j \in 1 .. n : v[i] \in PathEntry /\ (i < j => L(v[i]) >= L(v[j]))
  BY DEF Ordered
<1> HIDE DEF w, n, L
\* Each place of w holds e or comes from a place of v, in order.
<1> DEFINE from(i) == IF i < at THEN i ELSE i - 1
<1>4. \A i \in 1 .. (n + 1) : i = at \/ (i # at /\ from(i) \in 1 .. n /\ w[i] = v[from(i)])
  <2> SUFFICES ASSUME NEW i \in 1 .. (n + 1), i # at
               PROVE  from(i) \in 1 .. n /\ w[i] = v[from(i)]
    OBVIOUS
  <2>1. CASE i < at
    <3>1. from(i) = i /\ i \in 1 .. (at - 1) /\ i \in 1 .. n
      BY <1>2, <2>1
    <3> HIDE DEF from
    <3> QED
      BY <1>1, <3>1
  <2>2. CASE at < i
    <3>1. from(i) = i - 1 /\ i \in (at + 1) .. (n + 1) /\ i - 1 \in 1 .. n
      BY <1>2, <2>2
    <3> HIDE DEF from
    <3> QED
      BY <1>1, <3>1
  <2> QED
    BY <1>2, <2>1, <2>2
<1>5. \A i, j \in 1 .. (n + 1) : i # at /\ j # at /\ i < j => from(i) < from(j)
  BY <1>2
<1>6. \A i \in 1 .. n : \E j \in 1 .. (n + 1) : j # at /\ from(j) = i
  <2> SUFFICES ASSUME NEW i \in 1 .. n
               PROVE  \E j \in 1 .. (n + 1) : j # at /\ from(j) = i
    OBVIOUS
  <2>1. CASE i < at
    BY <1>2, <2>1
  <2>2. CASE ~ (i < at)
    <3>1. i + 1 \in 1 .. (n + 1) /\ i + 1 # at /\ from(i + 1) = i
      BY <1>2, <2>2
    <3> HIDE DEF from
    <3> QED
      BY <3>1
  <2> QED
    BY <2>1, <2>2
<1>7. Entries(w) = Entries(v) \cup {e}
  <2> HIDE DEF from
  <2>1. \A i \in 1 .. (n + 1) : w[i] \in Entries(v) \cup {e}
    BY <1>1, <1>4 DEF Entries, n
  <2>2. ASSUME NEW i \in 1 .. n PROVE v[i] \in {w[j] : j \in 1 .. (n + 1)}
    <3>1. PICK j \in 1 .. (n + 1) : j # at /\ from(j) = i
      BY <1>6
    <3> QED
      BY <1>4, <3>1
  <2>3. e \in {w[j] : j \in 1 .. (n + 1)}
    BY <1>1
  <2> QED
    BY <1>1, <2>1, <2>2, <2>3 DEF Entries, n
<1>8. \A i \in 1 .. n : (i < at => L(v[i]) >= L(e)) /\ (i >= at => L(e) >= L(v[i]))
  <2> SUFFICES ASSUME NEW i \in 1 .. n
               PROVE  (i < at => L(v[i]) >= L(e)) /\ (i >= at => L(e) >= L(v[i]))
    OBVIOUS
  <2>1. L(v[i]) \in Nat /\ L(e) \in Nat
    BY <1>2, <1>3
  <2>2. CASE i < at
    <3>1. at - 1 \in 1 .. n /\ at > 1 /\ (i < at - 1 \/ i = at - 1)
      BY <1>2, <2>2
    <3>2. L(v[at - 1]) >= L(e) /\ L(v[at - 1]) \in Nat
      BY <1>1, <1>2, <1>3, <3>1
    <3>3. L(v[i]) >= L(v[at - 1])
      <4>1. CASE i < at - 1
        BY <1>3, <3>1, <4>1
      <4>2. CASE i = at - 1
        BY <3>2, <4>2
      <4> QED
        BY <3>1, <4>1, <4>2
    <3> QED
      BY <1>2, <2>1, <2>2, <3>2, <3>3
  <2>3. CASE i >= at
    BY <1>1, <1>2, <2>1, <2>3
  <2> QED
    BY <1>2, <2>2, <2>3
<1>9. Ordered(w)
  <2> SUFFICES ASSUME NEW i \in 1 .. (n + 1), NEW j \in 1 .. (n + 1), i < j
               PROVE  L(w[i]) >= L(w[j])
    BY <1>1 DEF Ordered, L
  <2>1. CASE i # at /\ j # at
    <3> HIDE DEF from
    <3> QED
      BY <1>3, <1>4, <1>5, <2>1
  <2>2. CASE i = at
    <3>1. j # at /\ from(j) \in 1 .. n /\ w[j] = v[from(j)] /\ from(j) >= at
      BY <1>2, <1>4, <2>2
    <3> HIDE DEF from
    <3> QED
      BY <1>1, <1>8, <2>2, <3>1
  <2>3. CASE j = at
    <3>1. i # at /\ from(i) \in 1 .. n /\ w[i] = v[from(i)] /\ from(i) < at
      BY <1>2, <1>4, <2>3
    <3> HIDE DEF from
    <3> QED
      BY <1>1, <1>8, <2>3, <3>1
  <2> QED
    BY <2>1, <2>2, <2>3
<1>10. ASSUME Unique(v), \A o \in Entries(v) : o.prefix # e.prefix PROVE Unique(w)
  <2> SUFFICES ASSUME NEW i \in 1 .. (n + 1), NEW j \in 1 .. (n + 1), i # j
               PROVE  w[i].prefix # w[j].prefix
    BY <1>1 DEF Unique
  <2>1. CASE i # at /\ j # at
    <3>1. from(i) # from(j)
      BY <1>2, <2>1
    <3> HIDE DEF from
    <3> QED
      BY <1>4, <1>10, <2>1, <3>1 DEF Unique, n
  <2>2. \A l \in 1 .. (n + 1) : l # at => w[l].prefix # e.prefix
    <3> HIDE DEF from
    <3> QED
      BY <1>4, <1>10 DEF Entries, n
  <2> QED
    BY <1>1, <2>1, <2>2
<1> QED
  BY <1>7, <1>9, <1>10 DEF w

\* The sort: the same entries, longer prefixes first.
LEMMA SortMakes ==
  ASSUME RouteTableAssumption, NEW v \in Seq(PathEntry), Unique(v)
  PROVE  /\ SortByLen(v) \in Seq(PathEntry)
         /\ Entries(SortByLen(v)) = Entries(v)
         /\ Unique(SortByLen(v))
         /\ Ordered(SortByLen(v))
<1> DEFINE n == Len(v)
<1>1. PICK f \in [0 .. n -> Seq(PathEntry)] :
        /\ f[0] = <<>> /\ f[n] = SortByLen(v)
        /\ \A k \in 1 .. n : f[k] = InsertByLen(f[k - 1], v[k])
  BY SortFold
<1> DEFINE Good(k) == /\ Entries(f[k]) = {v[i] : i \in 1 .. k}
                      /\ Unique(f[k])
                      /\ Ordered(f[k])
           T == {k \in 0 .. n : Good(k)}
<1>2. n \in Nat /\ \A k \in 1 .. n : v[k] \in PathEntry
  OBVIOUS
<1>3. 0 \in T
  <2>1. Good(0)
    BY <1>1 DEF Entries, Unique, Ordered
  <2> HIDE DEF Good, n
  <2> QED
    BY <1>2, <2>1
<1>4. ASSUME NEW k \in 1 .. n, k - 1 \in T PROVE k \in T
  <2>1. Good(k - 1) /\ f[k - 1] \in Seq(PathEntry) /\ k \in 0 .. n
    <3>1. k - 1 \in 0 .. n /\ k \in 0 .. n
      BY <1>2
    <3> HIDE DEF Good, n
    <3> QED
      BY <1>1, <1>4, <3>1
  <2>2. {v[i] : i \in 1 .. k} = {v[i] : i \in 1 .. (k - 1)} \cup {v[k]}
    OBVIOUS
  <2>3. \A o \in Entries(f[k - 1]) : o.prefix # v[k].prefix
    <3>1. ASSUME NEW i \in 1 .. (k - 1) PROVE v[i].prefix # v[k].prefix
      BY DEF Unique
    <3> QED
      BY <2>1, <3>1
  <2>4. f[k] = InsertByLen(f[k - 1], v[k])
    BY <1>1
  <2>5. Unique(f[k - 1]) /\ Ordered(f[k - 1]) /\ Entries(f[k - 1]) = {v[i] : i \in 1 .. (k - 1)}
    BY <2>1
  <2>6. /\ Entries(f[k]) = Entries(f[k - 1]) \cup {v[k]}
        /\ Ordered(f[k]) /\ Unique(f[k])
    <3>1. v[k] \in PathEntry
      BY <1>2
    <3>2. ASSUME NEW u \in Seq(PathEntry), Unique(u), Ordered(u), \A o \in Entries(u) : o.prefix # v[k].prefix
          PROVE  /\ Entries(InsertByLen(u, v[k])) = Entries(u) \cup {v[k]}
                 /\ Ordered(InsertByLen(u, v[k])) /\ Unique(InsertByLen(u, v[k]))
      BY <3>1, <3>2, InsertOrders
    <3>3. f[k - 1] \in Seq(PathEntry)
      BY <2>1
    <3> HIDE DEF Good
    <3> QED
      BY <2>3, <2>4, <2>5, <3>2, <3>3
  <2>7. Good(k)
    BY <2>2, <2>5, <2>6
  <2> HIDE DEF Good
  <2> QED
    BY <2>1, <2>7
<1>5. n \in T
  <2> HIDE DEF T, n
  <2>1. \A k \in 0 .. n : k \in T
    BY <1>2, <1>3, <1>4, Induct
  <2> QED
    BY <1>2, <2>1
<1>6. Good(n) /\ f[n] \in Seq(PathEntry)
  <2> HIDE DEF Good, n
  <2> QED
    BY <1>1, <1>2, <1>5
<1>7. Entries(v) = {v[i] : i \in 1 .. n}
  BY DEF Entries
<1> HIDE DEF n
<1> QED
  BY <1>1, <1>6, <1>7

-----------------------------------------------------------------------------
(* The path table: its inductive invariant, and the map it implements.     *)

RouteVars == <<by_path, owned>>

\* One entry for each prefix, longer prefixes first.
RouteInv ==
  /\ by_path \in Seq(PathEntry)
  /\ owned \in [Conns -> Seq(PathPrefixes)]
  /\ Unique(by_path)
  /\ Ordered(by_path)

LEMMA RouteInit ==
  ASSUME RouteTableAssumption, TableInit PROVE RouteInv
BY DEF TableInit, RouteInv, Unique, Ordered

\* register_client replaces what the connection had by what it asks for.
LEMMA RouteRegister ==
  ASSUME RouteTableAssumption, RouteInv,
         NEW c \in Conns, NEW ps \in InputLists, RegisterClient(c, ps)
  PROVE  /\ RouteInv'
         /\ owned' = [owned EXCEPT ![c] = ps]
         /\ Entries(by_path') =
              {e \in Entries(by_path) : e.prefix \notin Entries(owned[c]) \cup Entries(ps)}
                \cup Given(Entries(ps), c)
<1>1. /\ by_path' = SortByLen(WithInputs(c, ps))
      /\ owned' = [owned EXCEPT ![c] = ps]
  BY DEF RegisterClient
<1>2. /\ by_path \in Seq(PathEntry) /\ owned[c] \in Seq(PathPrefixes) /\ ps \in Seq(PathPrefixes)
      /\ Unique(by_path)
  BY DEF RouteInv, RouteTableAssumption
<1>3. /\ Cleared(c) \in Seq(PathEntry) /\ Unique(Cleared(c))
      /\ Entries(Cleared(c)) = {e \in Entries(by_path) : e.prefix \notin Entries(owned[c])}
  BY <1>2, ClearedMakes
<1>4. /\ WithInputs(c, ps) \in Seq(PathEntry) /\ Unique(WithInputs(c, ps))
      /\ Entries(WithInputs(c, ps)) =
           {e \in Entries(Cleared(c)) : e.prefix \notin Entries(ps)} \cup Given(Entries(ps), c)
  BY <1>2, <1>3, FilledMakes
<1>5. /\ by_path' \in Seq(PathEntry) /\ Unique(by_path') /\ Ordered(by_path')
      /\ Entries(by_path') = Entries(WithInputs(c, ps))
  BY <1>1, <1>4, SortMakes
<1>6. owned' \in [Conns -> Seq(PathPrefixes)]
  BY <1>1, <1>2 DEF RouteInv
<1>7. RouteInv'
  BY <1>5, <1>6 DEF RouteInv, Unique, Ordered
<1> QED
  BY <1>1, <1>3, <1>4, <1>5, <1>7

\* remove_client takes what the connection had away.
LEMMA RouteRemove ==
  ASSUME RouteTableAssumption, RouteInv, NEW c \in Conns, RemoveClient(c)
  PROVE  /\ RouteInv'
         /\ owned' = [owned EXCEPT ![c] = <<>>]
         /\ Entries(by_path') = {e \in Entries(by_path) : e.prefix \notin Entries(owned[c])}
<1>1. by_path' = Cleared(c) /\ owned' = [owned EXCEPT ![c] = <<>>]
  BY DEF RemoveClient
<1>2. /\ by_path \in Seq(PathEntry) /\ owned[c] \in Seq(PathPrefixes)
      /\ Unique(by_path) /\ Ordered(by_path)
  BY DEF RouteInv
<1>3. /\ by_path' \in Seq(PathEntry) /\ Unique(by_path') /\ Ordered(by_path')
      /\ Entries(by_path') = {e \in Entries(by_path) : e.prefix \notin Entries(owned[c])}
  BY <1>1, <1>2, ClearedMakes
<1>4. owned' \in [Conns -> Seq(PathPrefixes)]
  BY <1>1, <1>2 DEF RouteInv
<1>5. RouteInv'
  BY <1>3, <1>4 DEF RouteInv, Unique, Ordered
<1> QED
  BY <1>1, <1>3, <1>5

LEMMA RouteStep ==
  ASSUME RouteTableAssumption, RouteInv, [TableNext]_RouteVars PROVE RouteInv'
<1>1. CASE UNCHANGED RouteVars
  BY <1>1 DEF RouteVars, RouteInv, Unique, Ordered
<1>2. CASE TableNext
  BY <1>2, RouteRegister, RouteRemove DEF TableNext
<1> QED
  BY <1>1, <1>2

LEMMA RouteSafe == TableSpec => []RouteInv
<1>1. TableInit => RouteInv
  BY RouteTableAssumption, RouteInit
<1>2. RouteInv /\ [TableNext]_RouteVars => RouteInv'
  BY RouteTableAssumption, RouteStep
<1> QED
  BY <1>1, <1>2, PTL DEF TableSpec, RouteVars

\* The map a vector stands for.
MapOf(v) == [p \in PathPrefixes |->
               IF \E i \in DOMAIN v : v[i].prefix = p
                 THEN v[CHOOSE i \in DOMAIN v : v[i].prefix = p].conn
                 ELSE NoConn]

LEMMA MapOfMakes ==
  ASSUME NEW v \in Seq(PathEntry), Unique(v), NEW p \in PathPrefixes
  PROVE  /\ \A e \in Entries(v) : e.prefix = p => MapOf(v)[p] = e.conn
         /\ (\A e \in Entries(v) : e.prefix # p) => MapOf(v)[p] = NoConn
<1>1. DOMAIN v = 1 .. Len(v)
  OBVIOUS
<1>2. ASSUME NEW e \in Entries(v), e.prefix = p PROVE MapOf(v)[p] = e.conn
  <2>1. PICK i \in DOMAIN v : e = v[i]
    BY <1>1 DEF Entries
  <2> DEFINE k == CHOOSE j \in DOMAIN v : v[j].prefix = p
  <2>2. k \in DOMAIN v /\ v[k].prefix = p
    BY <1>2, <2>1
  <2>3. k = i
    <3> HIDE DEF k
    <3> QED
      BY <1>1, <1>2, <2>1, <2>2 DEF Unique
  <2>4. MapOf(v)[p] = v[k].conn
    BY <1>2, <2>1 DEF MapOf
  <2> HIDE DEF k
  <2> QED
    BY <2>1, <2>3, <2>4
<1>3. ASSUME \A e \in Entries(v) : e.prefix # p PROVE MapOf(v)[p] = NoConn
  BY <1>1, <1>3 DEF Entries, MapOf
<1> QED
  BY <1>2, <1>3

LEMMA TableIsMap ==
  ASSUME owned \in [Conns -> Seq(PathPrefixes)]
  PROVE  /\ TableOf = MapOf(by_path)
         /\ HoldsOf = [c \in Conns |-> Entries(owned[c])]
<1>1. \A c \in Conns : DOMAIN owned[c] = 1 .. Len(owned[c])
  OBVIOUS
<1> QED
  BY <1>1 DEF TableOf, HoldsOf, MapOf, Entries

\* What is left of the entries when c takes new over and what was of old goes.
TakenOver(entries, old, new, c) == {e \in entries : e.prefix \notin old \cup new} \cup Given(new, c)

MapTakenOver(m, old, new, c) ==
  [p \in PathPrefixes |-> IF p \in new THEN c ELSE IF p \in old THEN NoConn ELSE m[p]]

\* Changing the entries as Register says changes the map as Register says.
LEMMA MapRegisters ==
  ASSUME NEW v \in Seq(PathEntry), NEW w \in Seq(PathEntry), Unique(v), Unique(w),
         NEW c \in Conns, NEW old, NEW new \in SUBSET PathPrefixes,
         Entries(w) = TakenOver(Entries(v), old, new, c)
  PROVE  MapOf(w) = MapTakenOver(MapOf(v), old, new, c)
<1> USE DEF TakenOver
<1>1. ASSUME NEW p \in PathPrefixes
      PROVE  MapOf(w)[p] = IF p \in new THEN c ELSE IF p \in old THEN NoConn ELSE MapOf(v)[p]
  <2>1. \A e \in Given(new, c) : e.prefix \in new /\ e.conn = c
    BY DEF Given
  <2>2. CASE p \in new
    <3>1. [prefix |-> p, conn |-> c] \in Entries(w)
      BY <2>2 DEF Given
    <3> QED
      BY <2>2, <3>1, MapOfMakes
  <2>3. CASE p \notin new /\ p \in old
    <3>1. \A e \in Entries(w) : e.prefix # p
      BY <2>1, <2>3
    <3> QED
      BY <2>3, <3>1, MapOfMakes
  <2>4. CASE p \notin new /\ p \notin old
    <3>1. CASE \E e \in Entries(v) : e.prefix = p
      <4>1. PICK e \in Entries(v) : e.prefix = p
        BY <3>1
      <4>2. e \in Entries(w)
        BY <2>4, <4>1
      <4> QED
        BY <2>4, <4>1, <4>2, MapOfMakes
    <3>2. CASE \A e \in Entries(v) : e.prefix # p
      <4>1. \A e \in Entries(w) : e.prefix # p
        BY <2>1, <2>4, <3>2
      <4> QED
        BY <2>4, <3>2, <4>1, MapOfMakes
    <3> QED
      BY <3>1, <3>2
  <2> QED
    BY <2>2, <2>3, <2>4
<1> QED
  BY <1>1 DEF MapOf, MapTakenOver

LEMMA StepMaps ==
  ASSUME RouteTableAssumption, RouteInv, [TableNext]_RouteVars
  PROVE  [Map!Next]_<<TableOf, HoldsOf>>
<1> USE DEF Map!Next
<1>1. RouteInv' /\ owned \in [Conns -> Seq(PathPrefixes)]
      /\ owned' \in [Conns -> Seq(PathPrefixes)] /\ by_path \in Seq(PathEntry)
      /\ Unique(by_path)
  BY RouteStep DEF RouteInv
<1>2. /\ TableOf = MapOf(by_path) /\ TableOf' = MapOf(by_path')
      /\ HoldsOf = [c \in Conns |-> Entries(owned[c])]
      /\ HoldsOf' = [c \in Conns |-> Entries(owned'[c])]
  <2>1. DOMAIN [c \in Conns |-> Entries(owned[c])] = Conns
    OBVIOUS
  <2>2. \A c \in Conns : DOMAIN owned'[c] = 1 .. Len(owned'[c])
    BY <1>1
  <2>3. /\ TableOf' = MapOf(by_path')
        /\ HoldsOf' = [c \in Conns |-> Entries(owned'[c])]
    BY <2>2 DEF TableOf, HoldsOf, MapOf, Entries
  <2> QED
    BY <1>1, <2>3, TableIsMap
<1>3. by_path' \in Seq(PathEntry) /\ Unique(by_path')
  BY <1>1 DEF RouteInv, Unique
<1>4. CASE UNCHANGED RouteVars
  BY <1>2, <1>4 DEF RouteVars
<1>5. ASSUME NEW c \in Conns, NEW ps \in Seq(PathPrefixes), owned' = [owned EXCEPT ![c] = ps],
             Entries(by_path') =
               {e \in Entries(by_path) : e.prefix \notin Entries(owned[c]) \cup Entries(ps)}
                 \cup Given(Entries(ps), c)
      PROVE  Map!Register(c, Entries(ps)) /\ Entries(ps) \in SUBSET PathPrefixes
  <2>1. Entries(ps) \in SUBSET PathPrefixes
    BY DEF Entries
  <2>2. MapOf(by_path') =
          [p \in PathPrefixes |->
             IF p \in Entries(ps) THEN c
             ELSE IF p \in Entries(owned[c]) THEN NoConn ELSE MapOf(by_path)[p]]
    <3> DEFINE old == Entries(owned[c])
               new == Entries(ps)
               v == by_path
               w == by_path'
    <3>1. /\ v \in Seq(PathEntry) /\ w \in Seq(PathEntry) /\ Unique(v) /\ Unique(w)
          /\ new \in SUBSET PathPrefixes
          /\ Entries(w) = TakenOver(Entries(v), old, new, c)
      BY <1>1, <1>3, <1>5, <2>1 DEF TakenOver
    <3> HIDE DEF old, new, v, w
    <3>2. MapOf(w) = MapTakenOver(MapOf(v), old, new, c)
      BY <3>1, MapRegisters
    <3> QED
      BY <3>2 DEF old, new, v, w, MapTakenOver
  <2>3. HoldsOf' = [HoldsOf EXCEPT ![c] = Entries(ps)]
    BY <1>1, <1>2, <1>5
  <2> QED
    BY <1>2, <2>1, <2>2, <2>3 DEF Map!Register
<1>6. ASSUME NEW c \in Conns, NEW ps \in InputLists, RegisterClient(c, ps) PROVE Map!Next
  <2>1. ps \in Seq(PathPrefixes)
    BY DEF RouteTableAssumption
  <2> QED
    BY <1>5, <1>6, <2>1, RouteRegister
<1>7. ASSUME NEW c \in Conns, RemoveClient(c) PROVE Map!Next
  <2>1. <<>> \in Seq(PathPrefixes) /\ Entries(<<>>) = {} /\ Given({}, c) = {}
    BY DEF Entries, Given
  <2>2. /\ owned' = [owned EXCEPT ![c] = <<>>]
        /\ Entries(by_path') = {e \in Entries(by_path) : e.prefix \notin Entries(owned[c])}
    BY <1>7, RouteRemove
  <2>3. Entries(by_path') =
          {e \in Entries(by_path) : e.prefix \notin Entries(owned[c]) \cup Entries(<<>>)}
            \cup Given(Entries(<<>>), c)
    BY <2>1, <2>2
  <2>4. Map!Register(c, Entries(<<>>)) /\ Entries(<<>>) \in SUBSET PathPrefixes
    BY <1>5, <2>1, <2>2, <2>3
  <2> QED
    BY <2>4
<1> QED
  BY <1>4, <1>6, <1>7 DEF TableNext

\* The vector by_path is a map from prefixes to connections: a registration or a
\* removal changes it as it would change the map, whatever was there before, so
\* that the registry can be read as if it kept one.
THEOREM RouteTableImplementsMap == TableSpec => ImplementsMap
<1>1. TableInit => Map!Init
  <2> SUFFICES ASSUME TableInit PROVE Map!Init
    OBVIOUS
  <2>1. TableOf = MapOf(by_path) /\ HoldsOf = [c \in Conns |-> Entries(owned[c])]
    BY RouteTableAssumption, RouteInit, TableIsMap DEF RouteInv
  <2>2. by_path = <<>> /\ \A c \in Conns : owned[c] = <<>>
    BY DEF TableInit
  <2>3. Entries(<<>>) = {} /\ MapOf(<<>>) = [p \in PathPrefixes |-> NoConn]
    BY DEF Entries, MapOf
  <2> QED
    BY <2>1, <2>2, <2>3 DEF Map!Init
<1>2. RouteInv /\ [TableNext]_RouteVars => [Map!Next]_<<TableOf, HoldsOf>>
  BY RouteTableAssumption, StepMaps
<1> QED
  BY <1>1, <1>2, RouteSafe, PTL DEF TableSpec, ImplementsMap, Map!Spec, RouteVars

\* The first match of an ordered vector is the longest.
LEMMA FirstIsLongest ==
  ASSUME RouteTableAssumption, RouteInv, NEW path \in Paths,
         NEW i \in 1 .. Len(by_path), NEW j \in 1 .. Len(by_path), i <= j,
         IsPrefix(by_path[i].prefix, path), IsPrefix(by_path[j].prefix, path)
  PROVE  Len(by_path[j].prefix) <= Len(by_path[i].prefix)
<1> DEFINE p == by_path[i].prefix
           q == by_path[j].prefix
<1>1. /\ p \in Seq(DOMAIN SegLen) /\ q \in Seq(DOMAIN SegLen) /\ path \in Seq(DOMAIN SegLen)
      /\ StrLen(p) \in Nat /\ StrLen(q) \in Nat
  <2>1. by_path[i] \in PathEntry /\ by_path[j] \in PathEntry
    BY DEF RouteInv
  <2>2. p \in Seq(DOMAIN SegLen) /\ q \in Seq(DOMAIN SegLen) /\ path \in Seq(DOMAIN SegLen)
    BY <2>1 DEF PathEntry, RouteTableAssumption
  <2> HIDE DEF p, q
  <2> QED
    BY <2>2, StrLenType
<1>2. StrLen(p) >= StrLen(q)
  <2>1. CASE i < j
    BY <2>1 DEF RouteInv, Ordered
  <2>2. CASE i = j
    BY <1>1, <2>2
  <2> QED
    BY <2>1, <2>2
<1>3. /\ Len(p) <= Len(path) /\ SubSeq(p, 1, Len(p)) = SubSeq(path, 1, Len(p))
      /\ Len(q) <= Len(path) /\ SubSeq(q, 1, Len(q)) = SubSeq(path, 1, Len(q))
  BY DEF IsPrefix
<1> HIDE DEF p, q
<1>4. (\A k \in 1 .. Len(p) : p[k] = path[k]) /\ (\A k \in 1 .. Len(q) : q[k] = path[k])
  <2>1. ASSUME NEW r \in Seq(DOMAIN SegLen), Len(r) <= Len(path),
               SubSeq(r, 1, Len(r)) = SubSeq(path, 1, Len(r)), NEW k \in 1 .. Len(r)
        PROVE  r[k] = path[k]
    <3>1. Len(r) \in Nat /\ Len(path) \in Nat /\ 1 <= Len(r) /\ path \in Seq(DOMAIN SegLen)
      BY <1>1
    <3>2. SubSeq(r, 1, Len(r))[k] = r[k]
      BY <3>1
    <3>3. SubSeq(path, 1, Len(r))[k] = path[k]
      BY <2>1, <3>1
    <3> QED
      BY <2>1, <3>2, <3>3
  <2> QED
    BY <1>1, <1>3, <2>1
<1>5. ASSUME Len(p) < Len(q) PROVE FALSE
  <2>1. \A k \in 1 .. Len(p) : p[k] = q[k]
    BY <1>1, <1>4, <1>5
  <2>2. StrLen(p) < StrLen(q)
    BY <1>1, <1>5, <2>1, StrLenGrows
  <2> QED
    BY <1>1, <1>2, <2>2
<1> QED
  BY <1>1, <1>5 DEF p, q

LEMMA InvLooksUp ==
  ASSUME RouteTableAssumption, RouteInv PROVE LookupMostSpecific
<1> SUFFICES ASSUME NEW path \in Paths
             PROVE  LET found == Lookup(path)
                        hits  == {p \in PathPrefixes :
                                    TableOf[p] # NoConn /\ IsPrefix(p, path)}
                    IN  IF hits = {} THEN found.conn = NoConn
                        ELSE \E p \in hits :
                               /\ \A q \in hits : Len(q) <= Len(p)
                               /\ found = [conn |-> TableOf[p],
                                           rest |-> SubSeq(path, Len(p) + 1, Len(path))]
  BY DEF LookupMostSpecific
<1> DEFINE places == {i \in DOMAIN by_path : Matches(by_path[i].prefix, path)}
           hits == {p \in PathPrefixes : TableOf[p] # NoConn /\ IsPrefix(p, path)}
<1>1. by_path \in Seq(PathEntry) /\ Unique(by_path) /\ TableOf = MapOf(by_path) /\ NoConn \notin Conns
  BY TableIsMap DEF RouteInv, RouteTableAssumption
<1>2. places = {i \in 1 .. Len(by_path) : IsPrefix(by_path[i].prefix, path)} /\ Len(by_path) \in Nat
  BY <1>1 DEF Matches
<1>3. \A i \in 1 .. Len(by_path) :
        /\ by_path[i] \in PathEntry /\ by_path[i].prefix \in PathPrefixes /\ by_path[i].conn \in Conns
        /\ TableOf[by_path[i].prefix] = by_path[i].conn
  <2> SUFFICES ASSUME NEW i \in 1 .. Len(by_path)
               PROVE  /\ by_path[i] \in PathEntry /\ by_path[i].prefix \in PathPrefixes /\ by_path[i].conn \in Conns
                      /\ TableOf[by_path[i].prefix] = by_path[i].conn
    OBVIOUS
  <2>1. by_path[i] \in PathEntry
    BY <1>1
  <2>2. by_path[i].prefix \in PathPrefixes /\ by_path[i].conn \in Conns
    BY <2>1 DEF PathEntry
  <2>3. by_path[i] \in Entries(by_path)
    BY DEF Entries
  <2> QED
    BY <1>1, <2>1, <2>2, <2>3, MapOfMakes
<1>4. \A p \in hits : \E i \in places : by_path[i].prefix = p
  <2> SUFFICES ASSUME NEW p \in hits PROVE \E i \in 1 .. Len(by_path) : by_path[i].prefix = p
    BY <1>2
  <2>1. \E e \in Entries(by_path) : e.prefix = p
    BY <1>1, MapOfMakes
  <2> QED
    BY <2>1 DEF Entries
<1>5. \A i \in places : by_path[i].prefix \in hits
  BY <1>1, <1>2, <1>3
<1>6. CASE places = {}
  <2>1. hits = {}
    BY <1>4, <1>6
  <2>2. Lookup(path).conn = NoConn
    BY <1>6 DEF Lookup
  <2> QED
    BY <2>1, <2>2
<1>7. CASE places # {}
  <2> DEFINE i == Min(places)
             p == by_path[i].prefix
  <2>1. i \in places /\ \A j \in places : i <= j
    <3>1. places \in SUBSET Nat
      BY <1>2
    <3> HIDE DEF places
    <3>2. PICK k \in places : \A j \in places : k <= j
      BY <1>7, <3>1, Least
    <3> QED
      BY <3>2 DEF Min
  <2>2. Lookup(path) = [conn |-> by_path[i].conn, rest |-> SubSeq(path, Len(p) + 1, Len(path))]
    BY <1>7 DEF Lookup
  <2> HIDE DEF i
  <2>3. i \in 1 .. Len(by_path) /\ p \in hits /\ TableOf[p] = by_path[i].conn
    BY <1>2, <1>3, <1>5, <2>1
  <2>4. ASSUME NEW q \in hits PROVE Len(q) <= Len(p)
    <3>1. PICK j \in places : by_path[j].prefix = q
      BY <1>4
    <3>2. /\ j \in 1 .. Len(by_path) /\ i <= j
          /\ IsPrefix(by_path[i].prefix, path) /\ IsPrefix(by_path[j].prefix, path)
      BY <1>2, <2>1, <3>1
    <3> QED
      BY <2>3, <3>1, <3>2, FirstIsLongest
  <2> HIDE DEF hits, p, places
  <2>5. hits # {} /\ \E r \in hits :
            /\ \A q \in hits : Len(q) <= Len(r)
            /\ Lookup(path) = [conn |-> TableOf[r], rest |-> SubSeq(path, Len(r) + 1, Len(path))]
    BY <2>2, <2>3, <2>4
  <2> QED
    BY <2>5 DEF hits
<1> QED
  BY <1>6, <1>7

\* A visitor reaches the most specific registered prefix that matches his path,
\* though remove_client leaves the vector unsorted by itself and a takeover
\* moves entries: retaining keeps the order, and register_client sorts.
THEOREM LookupIsMostSpecific == TableSpec => []LookupMostSpecific
<1>1. RouteInv => LookupMostSpecific
  BY RouteTableAssumption, InvLooksUp
<1> QED
  BY <1>1, RouteSafe, PTL
=============================================================================
