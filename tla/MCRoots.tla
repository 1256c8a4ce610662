------------------------------- MODULE MCRoots ------------------------------
(***************************************************************************)
(* What must eventually happen at the roots of a topic, for TLC: one         *)
(* behaviour elects a root or replicates a root's messages, under the        *)
(* fairness of that component, and leaves the other in its initial state.    *)
(***************************************************************************)
EXTENDS RootElection, Durability

CONSTANT topic

VARIABLE part

Part == {"election", "durability"}

rootsVars == <<part, reVars, duVars>>

RootsInit == part \in Part /\ ReInit /\ DuInit

RootsNext ==
    \/ part = "election" /\ ReNext /\ UNCHANGED <<part, duVars>>
    \/ part = "durability" /\ DuNext /\ UNCHANGED <<part, reVars>>

\* The fairness of each component, in the behaviours that move it.
RootsFairness ==
    /\ \A n \in Rank :
          /\ WF_reVars(part = "election" /\ OnSubscribe(n)) /\ WF_reVars(part = "election" /\ ClaimReachable(n))
          /\ SF_reVars(part = "election" /\ EmitRootBeacons(n))
          /\ WF_reVars(part = "election" /\ HoldAges(n)) /\ WF_reVars(part = "election" /\ RecordAges(n))
          /\ WF_reVars(part = "election" /\ UnpinDead(n)) /\ WF_reVars(part = "election" /\ VerifyEnd(n))
          /\ WF_reVars(part = "election" /\ (ForwardFailed(n) \/ ForwardConsumed(n)))
          /\ WF_reVars(part = "election" /\ MergeDone(n)) /\ WF_reVars(part = "election" /\ MergeRefused(n))
    /\ \A n \in Rank : \A m \in Rank \ {n} :
          /\ WF_reVars(part = "election" /\ PeerDied(n, m)) /\ WF_reVars(part = "election" /\ Link(n, m))
          /\ SF_reVars(part = "election" /\ \E b \in beacons : b.root = m /\ b.to = n /\ OnRootBeacon(b))
    /\ \A t \in Topic :
          /\ WF_duVars(part = "durability" /\ ReplicateTick(t)) /\ WF_duVars(part = "durability" /\ FullDue(t))
          /\ WF_duVars(part = "durability" /\ \E rd \in rounds : rd.t = t /\ \E who \in {"all", "some", "none"} : Verdicts(rd, who))
          /\ WF_duVars(part = "durability" /\ \E rd \in rounds : rd.t = t /\ (NoDispatch(rd) \/ NoCohort(rd) \/ Push(rd, FALSE)))
          /\ SF_duVars(part = "durability" /\ \E rd \in rounds :
                          rd.t = t /\ rd.by = ByTick /\ role[t].due /\ Push(rd, FALSE))

RootsSpec == RootsInit /\ [][RootsNext]_rootsVars /\ RootsFairness

\* Every variable of the election and of the durability ledger stays in its type.
RootsTypeOK == part \in Part /\ ReTypeOK /\ DuTypeOK

\* OneRoot is about the behaviours that elect.
OneRootElected == part = "election" => OneRoot
=============================================================================
