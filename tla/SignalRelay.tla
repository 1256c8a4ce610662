---------------------------- MODULE SignalRelay ----------------------------
(***************************************************************************)
(* A relayed signalling offer of AxonaPeer: _relayMeshSignal at the node    *)
(* that dials, routeMessage and the chain of route_msg requests that carry   *)
(* the frame, and the verdict that comes back along the chain.  A node is    *)
(* its distance to the target, which is 0.                                   *)
(*                                                                           *)
(* Every hop waits for the answer of the next one.  A request that fails     *)
(* when its frame has arrived leaves the rest of the chain behind: it goes   *)
(* on, and nobody hears its verdict.                                         *)
(*                                                                           *)
(* A peer with an open channel is a usable peer; tables, classes and loss    *)
(* marks are the subject of PeerDial.  Which of several answers to a         *)
(* lookahead round is first is left open.                                    *)
(***************************************************************************)
EXTENDS Naturals, Sequences, FiniteSets, SequencesExt

CONSTANTS
    RouteN,     \* nodes of the network
    Dialer,     \* the node that dials
    RouteHops,  \* MAX_HOPS
    RouteRetry, \* LOOKUP_RESELECT
    ReturnRoute,\* SIGNAL_RETURN_ROUTE
    RouteLost   \* bound: channels lost and requests that time out

ASSUME SignalRelayAssumption ==
    /\ RouteN \in Nat \ {0, 1} /\ Dialer \in 1..(RouteN - 1) /\ RouteHops \in Nat
    /\ RouteRetry \in BOOLEAN /\ ReturnRoute \in BOOLEAN /\ RouteLost \in Nat

RNode == 0..(RouteN - 1)
Callee == 0
NoNode == RouteN

VARIABLES
    channel,    \* the pairs of nodes with an open channel
    serves,     \* the nodes that can serve as a terminal (the target consumes in any case)
    crumb,      \* the reverse of the hops an offer of the target came by
    chains,     \* chains of route_msg requests; the calls of one wait for the next
    stage,      \* of _relayMeshSignal
    verdict,    \* the last routeMessage's
    noPath,     \* _onNoPath was told that the offer was not delivered
    arrived,    \* ghost: the target took the offer
    faults      \* faults so far

srVars == <<channel, serves, crumb, chains, stage, verdict, noPath, arrived, faults>>

Adjacent(a, b) == {a, b} \in channel
Nearest(ns) == CHOOSE n \in ns : \A k \in ns : n <= k

\* The routes an earlier offer of the target can have come by: none, or by one
\* hop in between.
Crumbs(links) ==
    {<<>>} \cup {<<m, Callee>> : m \in {n \in RNode : ReturnRoute /\ {{Dialer, n}, {n, Callee}} \subseteq links}}

\* A node dials a peer that it has no channel to.
SrInit ==
    /\ channel \in SUBSET ({{p[1], p[2]} : p \in {q \in RNode \X RNode : q[1] # q[2]}} \ {{Dialer, Callee}})
    /\ serves \in SUBSET (RNode \ {Callee})
    /\ crumb \in Crumbs(channel)
    /\ chains = {} /\ stage = "idle" /\ verdict = "none"
    /\ noPath = FALSE /\ arrived = FALSE /\ faults = 0

(***************************************************************************)
(* The choice of the next hop.                                               *)
(***************************************************************************)
\* A call of the handler at a node: the hops before it, the commitments it
\* carries, the hop it has chosen and those it tried.
RouteCall(n, path, via, rpath) ==
    [at |-> n, path |-> path, via |-> via, rpath |-> rpath, next |-> NoNode, nextVia |-> NoNode,
     tried |-> {}, st |-> "new", end |-> "none"]

Last1(c) == c[Len(c)]
Replaced(c, call) == [c EXCEPT ![Len(c)] = call]
Becomes(c, ds) == chains' = (chains \ {c}) \cup ds

\* (mutant) the path memory is not consulted.
UsablePeersAnywhere(call) == {n \in RNode : Adjacent(call.at, n)}

\* The usable peers off the walk's path.
UsablePeers(call) == {n \in RNode : Adjacent(call.at, n)} \ ToSet(call.path)

Honoured(call, n) == n \in UsablePeers(call)

\* Greedy: the usable peer nearest the target, if it is nearer than this node.
GreedyNextHop(call) ==
    LET nearer == {n \in UsablePeers(call) \ call.tried : n < call.at}
    IN  IF nearer = {} THEN NoNode ELSE Nearest(nearer)

\* The lookahead round: a peer that names one of its own that is nearer than
\* this node; the target does not look.
FindCloserInTwoHops(call) ==
    {p \in UsablePeers(call) \X RNode : Adjacent(p[1], p[2]) /\ p[2] < call.at}

Choose(c, call, next, via, rpath) ==
    Becomes(c, {Replaced(c, [call EXCEPT !.next = next, !.nextVia = via, !.rpath = rpath, !.st = "chosen"])})

\* The return route first, then the commitment of the hop before, then greedy,
\* then the lookahead.  An unavailable entry drops the rest of its route.
SelectHop(c) ==
    LET call == Last1(c) IN
    /\ call.st = "new"
    /\ IF call.rpath # <<>> /\ Honoured(call, Head(call.rpath))
       THEN Choose(c, call, Head(call.rpath), NoNode, Tail(call.rpath)) /\ UNCHANGED faults
       ELSE IF call.via # NoNode /\ Honoured(call, call.via)
       THEN Choose(c, call, call.via, NoNode, <<>>) /\ UNCHANGED faults
       ELSE IF GreedyNextHop(call) # NoNode
       THEN Choose(c, call, GreedyNextHop(call), NoNode, <<>>) /\ UNCHANGED faults
       ELSE \/ \E p \in FindCloserInTwoHops(call) : Choose(c, call, p[1], p[2], <<>>) /\ UNCHANGED faults
            \/ /\ FindCloserInTwoHops(call) = {}
               /\ Choose(c, call, NoNode, NoNode, <<>>) /\ UNCHANGED faults
            \/ /\ FindCloserInTwoHops(call) # {} /\ faults < RouteLost
               /\ Choose(c, call, NoNode, NoNode, <<>>) /\ faults' = faults + 1
    /\ UNCHANGED <<channel, serves, crumb, stage, verdict, noPath, arrived>>

(***************************************************************************)
(* The local handler, the terminal, and the send.                            *)
(***************************************************************************)
Ended(c, call, how) == Becomes(c, {Replaced(c, [call EXCEPT !.st = "done", !.end = how])})

\* Where a node that cannot serve sends a walk that would end here: the
\* nearest usable peer, whatever its distance.
CapableFallbackHop(call) == IF UsablePeers(call) = {} THEN NoNode ELSE Nearest(UsablePeers(call))

\* _deliverRouted: the target consumes; a node with no next hop is a terminal
\* if it can serve; the others forward, unless the walk is at its cap.
DeliverRouted(c) ==
    LET call == Last1(c)
        next == IF call.next = NoNode /\ call.at \notin serves THEN CapableFallbackHop(call) ELSE call.next
    IN  /\ call.st = "chosen"
        /\ arrived' = (arrived \/ call.at = Callee)
        /\ IF call.at = Callee THEN Ended(c, call, "consumed")
           ELSE IF next = NoNode THEN Ended(c, call, IF call.at \in serves THEN "terminal" ELSE "no-capable-terminal")
           ELSE IF call.path # <<>> /\ Len(call.path) + 1 >= RouteHops THEN Ended(c, call, "exhausted")
           ELSE Becomes(c, {Replaced(c, [call EXCEPT !.next = next, !.st = "send"])})
        /\ UNCHANGED <<channel, serves, crumb, stage, verdict, noPath, faults>>

\* Another try after a dead edge: the nearest usable peer nearer than this
\* node that was not tried, with no commitment left; or none.
Reselected(call, none) ==
    LET again == [call EXCEPT !.tried = @ \cup {call.next}, !.nextVia = NoNode, !.rpath = <<>>]
        pick  == GreedyNextHop(again)
    IN  IF RouteRetry /\ pick # NoNode THEN [again EXCEPT !.next = pick, !.st = "send"]
        ELSE [again EXCEPT !.st = "done", !.end = none]

\* The channel went in one of the awaits: a frame is not sent to a dead edge.
DeadAfterSelect(c) ==
    LET call == Last1(c) IN
    /\ call.st = "send" /\ ~Adjacent(call.at, call.next)
    /\ Becomes(c, {Replaced(c, Reselected(call, IF RouteRetry THEN "no-live-hop" ELSE "exhausted"))})
    /\ UNCHANGED <<channel, serves, crumb, stage, verdict, noPath, arrived, faults>>

RouteMsgSent(c) ==
    LET call == Last1(c) IN
    /\ call.st = "send" /\ Adjacent(call.at, call.next)
    /\ Becomes(c, {Append(Replaced(c, [call EXCEPT !.st = "wait"]),
                          RouteCall(call.next, Append(call.path, call.at), call.nextVia, call.rpath))})
    /\ UNCHANGED <<channel, serves, crumb, stage, verdict, noPath, arrived, faults>>

\* What goes on below a call that no longer waits: nothing, if the frame did
\* not arrive or the walk had ended.
Abandoned(c, k, frameLost) ==
    IF Last1(c).st = "done" \/ (frameLost /\ k + 1 = Len(c) /\ c[k + 1].st = "new") THEN {}
    ELSE {SubSeq(c, k + 1, Len(c))}

\* The request of call k throws: its channel died, or it timed out.  Only the
\* first earns another try.
SendThrew(c, k, frameLost) ==
    LET edge == ~Adjacent(c[k].at, c[k].next)
        call == IF edge THEN Reselected(c[k], "exhausted") ELSE [c[k] EXCEPT !.st = "done", !.end = "exhausted"]
    IN  /\ c[k].st = "wait"
        /\ edge \/ faults < RouteLost
        /\ faults' = IF edge THEN faults ELSE faults + 1
        /\ Becomes(c, {Append(SubSeq(c, 1, k - 1), call)} \cup Abandoned(c, k, frameLost))
        /\ UNCHANGED <<channel, serves, crumb, stage, verdict, noPath, arrived>>

(***************************************************************************)
(* The dialer.                                                               *)
(***************************************************************************)
\* routeMessage: the first call of a chain.
Routed(rpath) == <<RouteCall(Dialer, <<>>, NoNode, rpath)>>

RelayStart ==
    /\ stage = "idle"
    /\ stage' = IF crumb = <<>> THEN "reach" ELSE "return"
    /\ chains' = IF crumb = <<>> THEN chains ELSE chains \cup {Routed(crumb)}
    /\ UNCHANGED <<channel, serves, crumb, verdict, noPath, arrived, faults>>

\* The lookup's verdict, or a cached one, decides whether the offer is sent.
RelayReachable(ok) ==
    /\ stage = "reach"
    /\ stage' = IF ok THEN "first" ELSE "failed"
    /\ noPath' = ~ok
    /\ chains' = IF ok THEN chains \cup {Routed(<<>>)} ELSE chains
    /\ UNCHANGED <<channel, serves, crumb, verdict, arrived, faults>>

\* "CONFIRMED non-delivery": a terminal that is not the target, or a stop
\* before the send.
Confirmed(end) == end \in {"terminal", "no-live-hop", "no-capable-terminal"}

\* What the dialer does with the verdict of one routeMessage: one retry.
RelayAnswered(end, rest) ==
    /\ verdict' = end
    /\ IF end = "consumed" THEN stage' = "delivered" /\ chains' = rest /\ UNCHANGED noPath
       ELSE IF stage = "return" THEN stage' = "reach" /\ chains' = rest /\ UNCHANGED noPath
       ELSE IF stage = "first" THEN stage' = "second" /\ chains' = rest \cup {Routed(<<>>)} /\ UNCHANGED noPath
       ELSE stage' = "failed" /\ chains' = rest /\ noPath' = Confirmed(end)

\* The verdict of the last call goes back unchanged, while every channel of the
\* chain is there; a chain that nobody waits for just ends.
VerdictBack(c) ==
    LET end == Last1(c).end IN
    /\ Last1(c).st = "done"
    /\ \A k \in 1..(Len(c) - 1) : Adjacent(c[k].at, c[k].next)
    /\ IF c[1].path = <<>> THEN RelayAnswered(end, chains \ {c})
       ELSE Becomes(c, {}) /\ UNCHANGED <<verdict, stage, noPath>>
    /\ UNCHANGED <<channel, serves, crumb, arrived, faults>>

ChannelGone(a, b) ==
    /\ a < b /\ Adjacent(a, b) /\ faults < RouteLost /\ faults' = faults + 1
    /\ channel' = channel \ {{a, b}}
    /\ UNCHANGED <<serves, crumb, chains, stage, verdict, noPath, arrived>>

ChainStep(c) == SelectHop(c) \/ DeliverRouted(c) \/ DeadAfterSelect(c) \/ RouteMsgSent(c) \/ VerdictBack(c)

SrNext ==
    \/ RelayStart
    \/ \E ok \in BOOLEAN : RelayReachable(ok)
    \/ \E c \in chains : ChainStep(c) \/ \E k \in 1..(Len(c) - 1), frameLost \in BOOLEAN : SendThrew(c, k, frameLost)
    \/ \E a, b \in RNode : ChannelGone(a, b)

SrSpec == SrInit /\ [][SrNext]_srVars

(***************************************************************************)
(* Properties.                                                               *)
(***************************************************************************)
Ending == {"consumed", "terminal", "no-capable-terminal", "no-live-hop", "exhausted"}

\* Every variable stays in its type.
SrTypeOK ==
    /\ serves \subseteq RNode /\ crumb \in Seq(RNode) /\ faults \in 0..RouteLost
    /\ \A c \in chains : \A k \in 1..Len(c) :
          /\ c[k].at \in RNode /\ c[k].path \in Seq(RNode) /\ {c[k].next, c[k].via, c[k].nextVia} \subseteq RNode \cup {NoNode}
          /\ c[k].st = IF k < Len(c) THEN "wait" ELSE c[k].st
          /\ c[k].end \in Ending \cup {"none"}
    /\ stage \in {"idle", "return", "reach", "first", "second", "delivered", "failed"}
    /\ verdict \in Ending \cup {"none"} /\ noPath \in BOOLEAN /\ arrived \in BOOLEAN

\* "NO hop forwards onto that path": no walk, nor what a failed request left of
\* one, visits a node twice; the dialer waits for one walk at a time; and a
\* signal reported delivered did arrive.
RelayHonest ==
    /\ \A c \in chains : IsInjective(Append(Last1(c).path, Last1(c).at))
    /\ Cardinality({c \in chains : c[1].path = <<>>}) = (IF stage \in {"return", "first", "second"} THEN 1 ELSE 0)
    /\ stage = "delivered" => arrived

=============================================================================
