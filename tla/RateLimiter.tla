---------------------------- MODULE RateLimiter ----------------------------
(***************************************************************************)
(* RateLimiter::allow for the requests of one user (the buckets of users   *)
(* are independent).  The handlers of several visitors call it at once: a  *)
(* caller reads the clock, then waits for the lock of the buckets.         *)
(*                                                                         *)
(* Tokens are counted in the ticks it takes to refill them, so a bucket    *)
(* gains one unit a tick and a request costs Cost units; f64 rounding is   *)
(* left out.                                                               *)
(***************************************************************************)
EXTENDS Integers, Sequences

CONSTANTS
  Callers,   \* visitor requests that may be in allow at the same time
  Cost,      \* ticks that refill one token: 1 / rate
  Burst,     \* burst, in the same unit
  MaxClock   \* bound: ticks

ASSUME RateLimiterAssumption ==
  /\ Cost \in Nat \ {0} /\ Burst \in Nat /\ Burst >= Cost
  /\ MaxClock \in Nat

VARIABLES
  clock,    \* Instant::now()
  stamp,    \* what each caller has read of it, or Idle
  tokens,   \* Bucket.tokens
  last,     \* Bucket.last
  granted,  \* history: the requests let through, by the time they were stamped
  rewound   \* history: by how much last has been set back in all

vars == <<clock, stamp, tokens, last, granted, rewound>>

Idle == -1

\* A bucket is made full at the first request, which is the same as having one
\* that is full from the start.
Init ==
  /\ clock = 0 /\ stamp = [c \in Callers |-> Idle]
  /\ tokens = Burst /\ last = 0
  /\ granted = <<>> /\ rewound = 0

Tick ==
  /\ clock < MaxClock
  /\ clock' = clock + 1
  /\ UNCHANGED <<stamp, tokens, last, granted, rewound>>

\* let now = Instant::now(), before the lock.
ReadClock(c) ==
  /\ stamp[c] = Idle
  /\ stamp' = [stamp EXCEPT ![c] = clock]
  /\ UNCHANGED <<clock, tokens, last, granted, rewound>>

\* duration_since saturates at zero.
Since(now, then) == IF now > then THEN now - then ELSE 0

Filled(now) ==
  LET sum == tokens + Since(now, last) IN IF sum < Burst THEN sum ELSE Burst

\* Mutant: the time of the refill is not recorded.
RefillAgain(now) == last' = last /\ rewound' = rewound

\* last becomes the caller's own time, even if it lies before last.
Refill(now) ==
  /\ last' = now
  /\ rewound' = rewound + Since(last, now)

Grant(c) ==
  /\ stamp[c] # Idle /\ Filled(stamp[c]) >= Cost
  /\ Refill(stamp[c])
  /\ tokens' = Filled(stamp[c]) - Cost
  /\ granted' = Append(granted, [at |-> stamp[c], rewound |-> rewound'])
  /\ stamp' = [stamp EXCEPT ![c] = Idle]
  /\ UNCHANGED clock

\* Mutant: one token exactly is not enough.
RejectAtCost(c) ==
  /\ stamp[c] # Idle /\ Filled(stamp[c]) <= Cost
  /\ Refill(stamp[c])
  /\ tokens' = Filled(stamp[c])
  /\ stamp' = [stamp EXCEPT ![c] = Idle]
  /\ UNCHANGED <<clock, granted>>

Reject(c) ==
  /\ stamp[c] # Idle /\ Filled(stamp[c]) < Cost
  /\ Refill(stamp[c])
  /\ tokens' = Filled(stamp[c])
  /\ stamp' = [stamp EXCEPT ![c] = Idle]
  /\ UNCHANGED <<clock, granted>>

Next == Tick \/ \E c \in Callers : ReadClock(c) \/ Grant(c) \/ Reject(c)

Spec == Init /\ [][Next]_vars

-----------------------------------------------------------------------------
(* Properties.                                                             *)

TypeOK ==
  /\ clock \in 0 .. MaxClock
  /\ stamp \in [Callers -> 0 .. MaxClock \cup {Idle}]
  /\ tokens \in 0 .. Burst
  /\ last \in 0 .. MaxClock
  /\ granted \in Seq([at : 0 .. MaxClock, rewound : Nat])
  /\ rewound \in Nat

\* What the requests from the i-th on have cost.
CostSince(i) == Cost * (Len(granted) - i + 1)

\* In every window that begins with a request let through, the requests cost
\* no more than the burst, the time since and the time credited twice: a bucket
\* gives away nothing else, however the callers overtake each other.
WindowBounded ==
  \A i \in 1 .. Len(granted) :
    CostSince(i) + tokens <= Burst + (last - granted[i].at) + (rewound - granted[i].rewound)

\* No request is refused that the limit would allow: there is a window, ending
\* with this request, in which one more would exceed burst and rate.
RefusedOnlyOverLimit ==
  [][\A c \in Callers : Reject(c) =>
       \E i \in 1 .. Len(granted) :
         CostSince(i) + Cost > Burst + (stamp[c] - granted[i].at)]_vars
=============================================================================
