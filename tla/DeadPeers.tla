----------------------------- MODULE DeadPeers -----------------------------
(***************************************************************************)
(* The table of loss marks (dht/DeadPeers.js) as a value M with             *)
(*   at     the mark of each marked identity,                               *)
(*   order  the marked identities, oldest mark first (their seq numbers),   *)
(*   full   MARKS-FULL, with its hysteresis,                                *)
(* and the inputs of its automaton as functions of M.  Instants are         *)
(* countdowns in ticks.  Policy marks, which nothing in the kernel writes,  *)
(* are left out.                                                            *)
(***************************************************************************)
EXTENDS Naturals, Sequences, SequencesExt

CONSTANTS
    Id,         \* identities
    Backoff,    \* B: the first backoff; it doubles
    RRefill,    \* R_refill: one attempt per window once exhausted
    AMax,       \* A_max: failures to exhaustion
    MMarks,     \* M_marks
    MHyst       \* M_hyst

ASSUME MarksAssumption ==
    /\ Backoff \in Nat /\ RRefill \in Nat /\ MHyst \in Nat
    /\ AMax \in Nat \ {0} /\ MMarks \in Nat \ {0}

NoMark   == [attempts |-> 0, due |-> 0, token |-> FALSE]
NoMarks  == [at |-> [i \in Id |-> NoMark], order |-> <<>>, full |-> FALSE]
Marked(M)       == Range(M.order)
Exhausted(M, i) == i \in Marked(M) /\ M.at[i].attempts >= AMax

\* _schedule
Schedule(n) == IF n >= AMax THEN RRefill ELSE Backoff * 2^(n - 1)

\* What the doubling amounts to for the proofs, whose provers know no powers.
ASSUME ScheduleAssumption == \A n \in 1..AMax : Schedule(n) \in Nat

\* eligible(): its answer, and the table after it (a due exhausted mark gets
\* its token back).
Eligible(M, i) == IF i \in Marked(M) THEN M.at[i].due = 0 ELSE ~M.full
Asked(M, i) ==
    IF Exhausted(M, i) /\ M.at[i].due = 0 THEN [M EXCEPT !.at[i].token = TRUE] ELSE M

\* _latch
Latch(M) ==
    [M EXCEPT !.full = IF Len(M.order) >= MMarks THEN TRUE
                       ELSE IF Len(M.order) + MHyst < MMarks THEN FALSE ELSE @]

Place(s, i) == CHOOSE k \in 1..Len(s) : s[k] = i

Unmarked(M, i) ==
    IF i \in Marked(M) THEN [M EXCEPT !.at[i] = NoMark, !.order = RemoveAt(@, Place(@, i))] ELSE M

\* Mutant: a full table is not asked for room.
AdmitWriteAlways(M) == {M}

\* _admitWrite: the table with room for one mark more, the oldest exhausted and
\* waiting mark evicted if need be; no table if there is no such mark.
AdmitWrite(M) ==
    LET waiting == {k \in 1..Len(M.order) : M.at[M.order[k]].attempts >= AMax /\ ~M.at[M.order[k]].token}
    IN  IF Len(M.order) < MMarks THEN {M}
        ELSE IF waiting = {} THEN {}
        ELSE {Unmarked(M, M.order[Min(waiting)])}

\* fail(): the first mark, or the next step of the schedule.
Fail(M, i) ==
    LET n == IF M.at[i].attempts < AMax THEN M.at[i].attempts + 1 ELSE AMax
        written(R, a) == [R EXCEPT !.at[i] = [attempts |-> a, due |-> Schedule(a), token |-> FALSE]]
    IN  IF i \in Marked(M) THEN written(M, n)
        ELSE IF AdmitWrite(M) = {} THEN M
        ELSE LET R == CHOOSE R \in AdmitWrite(M) : TRUE
             IN  Latch(written([R EXCEPT !.order = Append(@, i)], 1))

\* consume(): a dial goes out; an exhausted mark's window moves.
Consume(M, i) ==
    IF Exhausted(M, i) THEN [M EXCEPT !.at[i].token = FALSE, !.at[i].due = RRefill] ELSE M

\* delete() / bind()
Delete(M, i) == Latch(Unmarked(M, i))

MarksLater(M) ==
    [M EXCEPT !.at = [i \in Id |-> [M.at[i] EXCEPT !.due = IF @ > 0 THEN @ - 1 ELSE 0]]]

MarksType(M) ==
    /\ M \in [at : [Id -> [attempts : 0..AMax, due : Nat, token : BOOLEAN]], order : Seq(Id), full : BOOLEAN]
    /\ IsInjective(M.order)
    /\ \A i \in Id : M.at[i].attempts > 0 <=> i \in Marked(M)
=============================================================================
