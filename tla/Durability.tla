----------------------------- MODULE Durability -----------------------------
(***************************************************************************)
(* The durability obligations of one node: a root opens one with every      *)
(* message it stamps (wireHandlers.js), the rounds of replication to its    *)
(* cohort discharge it (repairPlane.js), and the ledger of pubsub/          *)
(* durability.js keeps them, per role, under a budget of the node.          *)
(*                                                                          *)
(* A round awaits twice: the lookup of the cohort, and the verdicts of its  *)
(* pushes.  Messages are stamped, killed and expire meanwhile.  What the    *)
(* cohort is does not matter, only whether all of it, some of it or none of *)
(* it consumed the push.                                                    *)
(***************************************************************************)
EXTENDS Integers, FiniteSets

CONSTANTS
    Topic,        \* the roles of the node
    NodeMax,      \* nodeMax, DURABILITY_MAX
    PerRoleMax,   \* perRoleMax, DURABILITY_PER_ROLE_MAX
    MaxTry,       \* maxAttempts, DURABILITY_ATTEMPTS
    MaxStamp,     \* bound: messages stamped per role
    MaxRound      \* bound: rounds under way at once

ASSUME DurabilityAssumption ==
    /\ IsFiniteSet(Topic) /\ NodeMax \in Nat /\ PerRoleMax \in Nat /\ MaxTry \in Nat \ {0}
    /\ MaxStamp \in Nat /\ MaxRound \in Nat \ {0}

Stamped == 1..MaxStamp
Entry == [state : {"none", "pending", "verified", "expired", "cancelled"}, tries : 0..MaxTry]
NoEntry == [state |-> "none", tries |-> 0]

VARIABLES
    role,     \* role[t]: [root, cache, tombs, next, sig, due, credited]
    book,     \* book[t][m]: the entry of role.durability
    rounds,   \* replications under way: [t, by, stage, full, sig]; by is the message
              \* whose stamp began it, ByTick or ByKill
    departed  \* leave() has cleared the ledgers

duVars == <<role, book, rounds, departed>>

ByTick == 0
ByKill == MaxStamp + 1

\* What the signature of a full push tells apart: count, high water, tombstones.
Sig(r) == [count |-> Cardinality(r.cache), tombs |-> Cardinality(r.tombs),
           high |-> IF r.cache = {} THEN 0 ELSE CHOOSE m \in r.cache : \A k \in r.cache : k <= m]
NoSig == [count |-> 0, tombs |-> 0, high |-> 0]

DuInit ==
    /\ role = [t \in Topic |-> [root |-> TRUE, cache |-> {}, tombs |-> {}, next |-> 1,
                                sig |-> NoSig, due |-> TRUE, credited |-> FALSE]]
    /\ book = [t \in Topic |-> [m \in Stamped |-> NoEntry]]
    /\ rounds = {} /\ departed = FALSE

-----------------------------------------------------------------------------
(***************************************************************************)
(* The ledger.                                                             *)
(***************************************************************************)
In(b, states) == {m \in Stamped : b[m].state \in states}
Standing(b) == In(b, {"pending"})
Terminal(b) == In(b, {"verified", "expired", "cancelled"})
Without(b, S) == [m \in Stamped |-> IF m \in S THEN NoEntry ELSE b[m]]

NodeSize(bs) == Cardinality({tm \in Topic \X Stamped : bs[tm[1]][tm[2]].state # "none"})

\* _prune, of DurabilityLedger.open: terminal entries go until the cap is met or
\* none is left (which ones, oldest first, no property tells apart).
Pruned(b) ==
    LET over == Cardinality(Standing(b)) + Cardinality(Terminal(b)) - PerRoleMax
    IN  {Without(b, D) : D \in {S \in SUBSET Terminal(b) :
            \/ over > 0 /\ Cardinality(S) = over
            \/ over > Cardinality(Terminal(b)) /\ S = Terminal(b)
            \/ over <= 0 /\ S = {}}}

\* RoleScopedDurability.open: at the ceiling every role reclaims its terminal
\* entries; a node full of standing obligations opens no more.
Opened(t, m) ==
    LET room == IF NodeSize(book) >= NodeMax THEN [u \in Topic |-> Without(book[u], Terminal(book[u]))] ELSE book
    IN  IF NodeSize(room) >= NodeMax THEN {room}
        ELSE {[room EXCEPT ![t] = b] : b \in Pruned([room[t] EXCEPT ![m] = [state |-> "pending", tries |-> 0]])}

\* _expire and cancel: a standing entry is closed; a closed one is final.
ClosedAs(b, S, state) == [m \in Stamped |-> IF m \in S \cap Standing(b) THEN [b[m] EXCEPT !.state = state] ELSE b[m]]

\* Mutants: one attempt more than there are; a verdict that comes after the
\* obligation was cancelled.
RecordedOneMore(b, S, consumed) ==
    [m \in Stamped |->
        IF m \notin S \cap Standing(b) THEN b[m]
        ELSE IF consumed THEN [b[m] EXCEPT !.state = "verified"]
        ELSE [state |-> IF b[m].tries + 1 > MaxTry THEN "expired" ELSE "pending", tries |-> b[m].tries + 1]]
RecordedLate(b, S, consumed) ==
    [m \in Stamped |->
        IF m \notin S \/ b[m].state = "none" THEN b[m]
        ELSE IF consumed THEN [b[m] EXCEPT !.state = "verified"]
        ELSE [b[m] EXCEPT !.state = "expired"]]

\* record: one consumed push is the evidence; without it an attempt is used up.
Recorded(b, S, consumed) ==
    [m \in Stamped |->
        IF m \notin S \cap Standing(b) THEN b[m]
        ELSE IF consumed THEN [b[m] EXCEPT !.state = "verified"]
        ELSE [state |-> IF b[m].tries + 1 >= MaxTry THEN "expired" ELSE "pending", tries |-> b[m].tries + 1]]

-----------------------------------------------------------------------------
(***************************************************************************)
(* A round of replication.                                                 *)
(***************************************************************************)
\* _replicateRole up to the lookup: nothing is sent for a role that is no root
\* or has nothing to preserve.
Begun(r, t, by) ==
    IF r.root /\ (r.cache # {} \/ r.tombs # {})
    THEN rounds \cup {[t |-> t, by |-> by, stage |-> "lookup", full |-> FALSE, sig |-> NoSig]} ELSE rounds

\* _replicateRoots, for one role.
ReplicateTick(t) ==
    /\ ~departed /\ Cardinality(rounds) < MaxRound
    /\ rounds' = Begun(role[t], t, ByTick) /\ rounds' # rounds
    /\ UNCHANGED <<role, book, departed>>

\* The entries a round's outcome is about: recordTopic, recordOne; a kill
\* records nothing.
Concerns(rd) ==
    CASE rd.by = ByTick    -> Stamped
      [] rd.by = ByKill    -> {}
      [] rd.by \in Stamped -> {rd.by}

\* The lookup failed, or the tick's budget is spent: retryable, nothing changes.
NoDispatch(rd) ==
    /\ rd.stage = "lookup"
    /\ rounds' = rounds \ {rd}
    /\ UNCHANGED <<role, book, departed>>

\* The lookup answered, and there is nobody: terminal and undurable.
NoCohort(rd) ==
    /\ rd.stage = "lookup"
    /\ rounds' = rounds \ {rd}
    /\ role' = [role EXCEPT ![rd.t].credited = FALSE]
    /\ book' = [book EXCEPT ![rd.t] = ClosedAs(@, Concerns(rd), "expired")]
    /\ UNCHANGED departed

\* Mutant: without the anti-entropy backstop.
NeedsFullNoBackstop(r, newcomer) == Sig(r) # r.sig \/ newcomer \/ ~r.credited

\* The delta gate: the state changed, a cohort member was never credited, or
\* the last full push is old.
NeedsFull(r, newcomer) == Sig(r) # r.sig \/ newcomer \/ ~r.credited \/ r.due

\* The pushes go out, with the state of now or as empty keepalives.
Push(rd, newcomer) ==
    /\ rd.stage = "lookup"
    /\ LET full == NeedsFull(role[rd.t], newcomer)
       IN  rounds' = (rounds \ {rd}) \cup
                {[rd EXCEPT !.stage = "push", !.full = full, !.sig = Sig(role[rd.t])]}
    /\ role' = [role EXCEPT ![rd.t].credited = @ /\ ~newcomer]
    /\ UNCHANGED <<book, departed>>

\* _classify, for pushes that went out.
Evidence(rd) == rd.full

\* The verdicts are in: all, some or none of the cohort consumed the push.
Verdicts(rd, who) ==
    /\ rd.stage = "push"
    /\ rounds' = rounds \ {rd}
    /\ role' = [role EXCEPT ![rd.t].credited = @ \/ who = "all",
                            ![rd.t].sig = IF rd.full THEN rd.sig ELSE @,
                            ![rd.t].due = @ /\ ~rd.full]
    /\ book' = IF Evidence(rd) THEN [book EXCEPT ![rd.t] = Recorded(@, Concerns(rd), who # "none")] ELSE book
    /\ UNCHANGED departed

-----------------------------------------------------------------------------
(***************************************************************************)
(* What happens meanwhile.                                                 *)
(***************************************************************************)
\* _ingestPublish: stamp, cache, open, and replicate eagerly.
Stamp(t) ==
    LET m == role[t].next
        r == [role[t] EXCEPT !.next = @ + 1, !.cache = @ \cup {m}]
    IN  /\ ~departed /\ role[t].root /\ m <= MaxStamp /\ Cardinality(rounds) < MaxRound
        /\ role' = [role EXCEPT ![t] = r]
        /\ book' \in Opened(t, m)
        /\ rounds' = Begun(r, t, m)
        /\ UNCHANGED departed

\* _applyKill at a root: the obligation goes with the body.
ApplyKill(t, m) ==
    LET r == [role[t] EXCEPT !.cache = @ \ {m}, !.tombs = @ \cup {m}]
    IN  /\ ~departed /\ role[t].root /\ m \in role[t].cache /\ Cardinality(rounds) < MaxRound
        /\ role' = [role EXCEPT ![t] = r]
        /\ book' = [book EXCEPT ![t] = ClosedAs(@, {m}, "cancelled")]
        /\ rounds' = Begun(r, t, ByKill)
        /\ UNCHANGED departed

\* _expireCache: the body's time is over; its obligation is not looked at.
ExpireBody(t, m) ==
    /\ ~departed /\ m \in role[t].cache
    /\ role' = [role EXCEPT ![t].cache = @ \ {m}]
    /\ UNCHANGED <<book, rounds, departed>>

\* ROOT_REPLICATE_FULL_MS since the last full push.
FullDue(t) ==
    /\ ~departed /\ ~role[t].due
    /\ role' = [role EXCEPT ![t].due = TRUE]
    /\ UNCHANGED <<book, rounds, departed>>

\* The claim is lost; the role and its ledger stay.
LoseClaim(t) ==
    /\ ~departed /\ role[t].root
    /\ role' = [role EXCEPT ![t].root = FALSE]
    /\ UNCHANGED <<book, rounds, departed>>

\* leave(): whether it drained or stalled, the ledgers are cleared.
LeaveClears ==
    /\ ~departed /\ departed' = TRUE
    /\ book' = [t \in Topic |-> [m \in Stamped |-> NoEntry]]
    /\ UNCHANGED <<role, rounds>>

DuNext ==
    \/ \E t \in Topic : ReplicateTick(t) \/ Stamp(t) \/ FullDue(t) \/ LoseClaim(t)
    \/ \E t \in Topic, m \in Stamped : ApplyKill(t, m) \/ ExpireBody(t, m)
    \/ \E rd \in rounds :
          \/ NoDispatch(rd) \/ NoCohort(rd)
          \/ \E newcomer \in BOOLEAN : Push(rd, newcomer)
          \/ \E who \in {"all", "some", "none"} : Verdicts(rd, who)
    \/ LeaveClears

DuSpec == DuInit /\ [][DuNext]_duVars

\* The tick runs, verdicts come, the backstop elapses; of the lookups that a
\* tick makes for ever while a full push is due, some answer within the budget.
DuFairness ==
    \A t \in Topic :
        /\ WF_duVars(ReplicateTick(t)) /\ WF_duVars(FullDue(t))
        /\ WF_duVars(\E rd \in rounds : rd.t = t /\ \E who \in {"all", "some", "none"} : Verdicts(rd, who))
        /\ WF_duVars(\E rd \in rounds : rd.t = t /\ (NoDispatch(rd) \/ NoCohort(rd) \/ Push(rd, FALSE)))
        /\ SF_duVars(\E rd \in rounds : rd.t = t /\ rd.by = ByTick /\ role[t].due /\ Push(rd, FALSE))

DuFairSpec == DuSpec /\ DuFairness

-----------------------------------------------------------------------------
DuTypeOK ==
    /\ role \in [Topic -> [root : BOOLEAN, cache : SUBSET Stamped, tombs : SUBSET Stamped, next : 1..(MaxStamp + 1),
                           sig : [count : 0..MaxStamp, tombs : 0..MaxStamp, high : 0..MaxStamp],
                           due : BOOLEAN, credited : BOOLEAN]]
    /\ book \in [Topic -> [Stamped -> Entry]]
    /\ rounds \subseteq [t : Topic, by : ByTick..ByKill, stage : {"lookup", "push"}, full : BOOLEAN,
                         sig : [count : 0..MaxStamp, tombs : 0..MaxStamp, high : 0..MaxStamp]]
    /\ departed \in BOOLEAN

\* An obligation does not stand for ever: as long as its node roots the topic
\* and keeps the body, replication closes it one way or the other, although an
\* eager push that failed leaves the signature as if it had gone through and
\* the next ticks send keepalives.
ObligationsEnd ==
    \A t \in Topic, m \in Stamped :
        book[t][m].state = "pending" ~> (book[t][m].state # "pending" \/ ~role[t].root \/ m \notin role[t].cache)

\* The ledger keeps the promise of Obligation: an obligation opens once, ends
\* once, and nothing but the node's own departure drops one that stands, with
\* both caps at their limit, and rounds, kills and stamps crossing.
Ledger == INSTANCE Obligation WITH
    Holder <- Topic, Message <- Stamped,
    stamped <- [t \in Topic |-> 1..(role[t].next - 1)],
    life <- [t \in Topic |-> [m \in Stamped |-> book[t][m].state]]
KeepsObligations == Ledger!ObSpec

=============================================================================
