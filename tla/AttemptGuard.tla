---------------------------- MODULE AttemptGuard ----------------------------
(***************************************************************************)
(* The attempt guard (dht/attemptGuard.js) as a value G: for each identity  *)
(* its entry, NoAttempt if it has none.  k numbers the attempt in flight (0: *)
(* none) and inc the channel it started (0: not said).  Instants are        *)
(* countdowns, the start of an attempt an age.  Of the path backoff only    *)
(* that it runs, not how it doubles, is kept.                               *)
(***************************************************************************)
EXTENDS Naturals

CONSTANTS
    Peer,           \* identities (their suffixes)
    MaxAttempts,    \* maxAttempts
    BaseMs,         \* baseMs, in ticks
    RefillMs,       \* refillWindowMs
    InflightMaxMs,  \* inflightMaxMs
    ExpiryRefill    \* expiryRefill

ASSUME GuardAssumption ==
    /\ MaxAttempts \in Nat \ {0} /\ BaseMs \in Nat /\ RefillMs \in Nat
    /\ InflightMaxMs \in Nat /\ ExpiryRefill \in BOOLEAN

NoAttempt == [attempts |-> 0, k |-> 0, age |-> 0, next |-> 0, expired |-> FALSE,
              path |-> 0, noPath |-> FALSE, inc |-> 0]

Inflight(G, i) == G[i].k # 0

Allow(G, i) ==
    /\ G[i].path = 0 /\ G[i].next = 0
    /\ ~Inflight(G, i)
    /\ G[i].expired => ExpiryRefill

\* begin(): the window of an expired entry moves; inc stays what it was.
BeginAttempt(G, i, k) ==
    [G EXCEPT ![i].k = k, ![i].age = 0, ![i].next = IF G[i].expired THEN RefillMs ELSE @]

\* Mutant: the channel the event comes from is not asked.
OwnAnyChannel(G, i, k, inc) == Inflight(G, i) /\ k \in {0, G[i].k}

\* end(): whether an event that names attempt k and channel inc (0: does not
\* say) is of the attempt in flight.
Own(G, i, k, inc) ==
    /\ Inflight(G, i) /\ k \in {0, G[i].k}
    /\ inc # 0 /\ G[i].inc # 0 => inc = G[i].inc

\* The window after the n-th failure.
Window(n) == IF n >= MaxAttempts THEN RefillMs ELSE BaseMs * 2^(n - 1)

\* What the doubling amounts to for the proofs, whose provers know no powers.
ASSUME WindowAssumption == \A n \in 1..MaxAttempts : Window(n) \in Nat

EndBound(G, i) == [G EXCEPT ![i] = NoAttempt]

EndFailed(G, i) ==
    LET n == G[i].attempts + 1
    IN  [G EXCEPT ![i].k = 0, ![i].inc = 0, ![i].age = 0, ![i].attempts = n,
                  ![i].expired = @ \/ n >= MaxAttempts,
                  ![i].next = Window(n)]

\* attach()
Attach(G, i, k, inc) == IF G[i].k = k THEN [G EXCEPT ![i].inc = inc] ELSE G

\* release(): no attempt is counted; inc stays in an entry that is kept.
ReleaseAttempt(G, i, k) ==
    IF ~Inflight(G, i) \/ k \notin {0, G[i].k} THEN G
    ELSE IF G[i].attempts = 0 /\ ~G[i].expired /\ ~G[i].noPath THEN [G EXCEPT ![i] = NoAttempt]
    ELSE [G EXCEPT ![i].k = 0, ![i].age = 0]

\* Mutant: an attempt that named its channel is left to that channel.
SweepUnattached(G) ==
    [i \in Peer |-> IF Inflight(G, i) /\ G[i].inc = 0 /\ G[i].age > InflightMaxMs
                    THEN EndFailed(G, i)[i] ELSE G[i]]

\* sweep()
SweepAttempts(G) ==
    [i \in Peer |-> IF Inflight(G, i) /\ G[i].age > InflightMaxMs THEN EndFailed(G, i)[i] ELSE G[i]]

\* onFreshRecord(), its pacing apart: a fresh budget, the attempt in flight kept.
Refreshed(G, i) ==
    IF Inflight(G, i)
    THEN [G EXCEPT ![i].attempts = 0, ![i].expired = FALSE, ![i].next = 0, ![i].path = 0, ![i].noPath = FALSE]
    ELSE [G EXCEPT ![i] = NoAttempt]

DeferPath(G, i, ms) == [G EXCEPT ![i].path = ms, ![i].noPath = TRUE]

PathDelivered(G, i) ==
    IF G[i].attempts = 0 /\ ~G[i].expired /\ ~Inflight(G, i) THEN [G EXCEPT ![i] = NoAttempt]
    ELSE [G EXCEPT ![i].path = 0, ![i].noPath = FALSE]

GuardLater(G) ==
    LET down(n) == IF n > 0 THEN n - 1 ELSE 0
    IN  [i \in Peer |-> [G[i] EXCEPT !.next = down(@), !.path = down(@),
                                     !.age = IF Inflight(G, i) /\ @ <= InflightMaxMs THEN @ + 1 ELSE @]]

GuardType(G) ==
    G \in [Peer -> [attempts : Nat, k : Nat, age : 0..(InflightMaxMs + 1), next : Nat, expired : BOOLEAN,
                    path : Nat, noPath : BOOLEAN, inc : Nat]]
=============================================================================
