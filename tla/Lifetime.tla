------------------------------ MODULE Lifetime -----------------------------
(***************************************************************************)
(* The life of a topic under TOPIC_LIFETIME: a root without a body and       *)
(* without demand ends its generation by notices, the next subscribe forms a *)
(* new one, and a member - a backup of the root, a reader, or both - tells   *)
(* the two apart by the epoch that every frame names.                        *)
(*                                                                           *)
(* One node roots the topic, one is the member.  Custody, the metrics lease  *)
(* and local intent at the root are absent.  A frame is delivered within the *)
(* network's bound D or not at all: a record kept for L + S + D lapses with  *)
(* no frame of its generation, or of an earlier one, under way.              *)
(***************************************************************************)
EXTENDS Integers, FiniteSets

CONSTANTS
    MaxGen,   \* bound: generations formed
    MaxAsk,   \* bound: SUB frames sent
    Rounds    \* TOPIC_TERMINATE_TRIES

ASSUME LifetimeAssumption == {MaxGen, MaxAsk, Rounds} \subseteq Nat \ {0}

VARIABLES
    state,      \* of the root's role: "none", "live" or "dismantling"
    epoch,      \* of the generation, while there is a role
    highWater,  \* _genHighWater: the epoch of the last generation ended, or 0
    holds,      \* the root's cache has a body
    seat,       \* the member's seat: "none", "reader" or "standby"
    replica,    \* the member is in role.replicas
    old,        \* DROP_MS have passed since lastDemandAt
    sends,      \* rounds of notices sent
    sub,        \* the member's mySubscriptions has the topic
    handle,     \* its application holds a Subscription that is not stopped
    told,       \* generations whose end the application was told of
    hasRole,    \* the member has a role
    appointed,  \* the epoch of its appointment, or 0
    copies,     \* its role's cache has a body
    left,       \* the epoch of its LEFT record, or 0
    attached,   \* the epoch its attachment names, or 0
    subAttempts,   \* SUBs of its own that an answer may still commit
    pinned,     \* its upstream is the root
    inAir,        \* frames under way
    gens, asks

memberVars == <<sub, handle, told, hasRole, appointed, copies, left, attached, subAttempts, pinned, asks>>
holderVars == <<state, epoch, highWater, holds, seat, replica, old, sends, gens>>
ltVars == <<holderVars, memberVars, inAir>>

LtInit ==
    /\ state = "none" /\ epoch = 0 /\ highWater = 0 /\ holds = FALSE /\ seat = "none" /\ replica = FALSE
    /\ old = FALSE /\ sends = 0 /\ gens = 0
    /\ sub = FALSE /\ handle = FALSE /\ told = {} /\ hasRole = FALSE /\ appointed = 0 /\ copies = FALSE
    /\ left = 0 /\ attached = 0 /\ subAttempts = {} /\ pinned = FALSE /\ asks = 0 /\ inAir = {}

\* A frame of the generation e, or of an earlier one, is under way.
Names(e) == \E f \in inAir : f.e \in 1..e

---------------------------------------------------------------------------
(* The root.                                                                 *)

\* (mutant) the epoch of a generation that has ended is forgotten
MintedAfresh == 1

\* _knownEpoch, plus one.
Minted == highWater + 1

\* A write or a SUB that ends its walk at a node without the role forms one.
Formed(kind) ==
    /\ state = "none" /\ gens < MaxGen
    /\ state' = "live" /\ epoch' = Minted /\ gens' = gens + 1
    /\ seat' = kind /\ replica' = FALSE /\ sends' = 0
    /\ UNCHANGED highWater

\* A reader stamps the demand; a standby does not.  The reply echoes the nonce.
OnSubAtRoot(f) ==
    /\ f.k = "sub"
    /\ \/ Formed(f.kind) /\ holds' = FALSE /\ old' = FALSE
       \/ /\ state = "live"
          /\ seat' = f.kind /\ old' = (old /\ f.kind # "reader")
          /\ UNCHANGED <<state, epoch, highWater, holds, replica, sends, gens>>
    /\ inAir' = (inAir \ {f}) \cup {[k |-> "deliver", kind |-> "-", n |-> f.n, e |-> epoch']}
    /\ UNCHANGED memberVars

\* A dismantling root grants no seat.
SeatRefused(f) ==
    /\ f.k = "sub" /\ state = "dismantling"
    /\ inAir' = inAir \ {f}
    /\ UNCHANGED <<holderVars, memberVars>>

OnUnsubAtRoot(f) ==
    /\ f.k = "unsub"
    /\ seat' = "none"
    /\ inAir' = inAir \ {f}
    /\ UNCHANGED <<state, epoch, highWater, holds, replica, old, sends, gens, memberVars>>

\* A stamped write is demand, and is fanned out to the seat.
WriteAtRoot ==
    /\ \/ Formed("none")
       \/ state = "live" /\ UNCHANGED <<state, epoch, highWater, seat, replica, sends, gens>>
    /\ holds' = TRUE /\ old' = FALSE
    /\ inAir' = inAir \cup (IF seat' = "none" THEN {} ELSE {[k |-> "deliver", kind |-> "-", n |-> 0, e |-> epoch']})
    /\ UNCHANGED memberVars

BodyGone ==
    /\ holds
    /\ holds' = FALSE
    /\ UNCHANGED <<state, epoch, highWater, seat, replica, old, sends, gens, memberVars, inAir>>

\* The seat was not renewed for DROP_MS.
SeatLapses ==
    /\ seat # "none" /\ state = "live"
    /\ seat' = "none"
    /\ UNCHANGED <<state, epoch, highWater, holds, replica, old, sends, gens, memberVars, inAir>>

DemandAges ==
    /\ state = "live" /\ seat # "reader" /\ ~old
    /\ old' = TRUE
    /\ UNCHANGED <<state, epoch, highWater, holds, seat, replica, sends, gens, memberVars, inAir>>

\* A live root replicates to its backup; the frame names the generation.
ReplicateTo ==
    /\ state = "live"
    /\ replica' = TRUE
    /\ inAir' = inAir \cup {[k |-> "grant", kind |-> IF holds THEN "body" ELSE "-", n |-> 0, e |-> epoch]}
    /\ UNCHANGED <<state, epoch, highWater, holds, seat, old, sends, gens, memberVars>>

Targets == seat # "none" \/ replica

\* One round of notices, or the end of the role.
TerminateStep ==
    IF ~Targets \/ (state = "dismantling" /\ sends >= Rounds)
      THEN /\ state' = "none" /\ highWater' = epoch /\ epoch' = 0
           /\ seat' = "none" /\ replica' = FALSE /\ sends' = 0 /\ old' = FALSE
           /\ UNCHANGED inAir
      ELSE /\ state' = "dismantling" /\ sends' = sends + 1
           /\ inAir' = inAir \cup {[k |-> "notice", kind |-> "-", n |-> 0, e |-> epoch]}
           /\ UNCHANGED <<epoch, highWater, seat, replica, old>>

\* dismantling is installed before the first notice is sent.
TerminationSweep ==
    /\ \/ state = "live" /\ ~holds /\ seat # "reader" /\ old
       \/ state = "dismantling"
    /\ TerminateStep
    /\ UNCHANGED <<holds, gens, memberVars>>

\* _leftPrune, at the root.
HighWaterLapses ==
    /\ highWater # 0 /\ ~Names(highWater)
    /\ highWater' = 0
    /\ UNCHANGED <<state, epoch, holds, seat, replica, old, sends, gens, memberVars, inAir>>

---------------------------------------------------------------------------
(* The member.                                                               *)

\* The declaration of a SUB: a reader before a standby; each has a nonce.
EmitSubscribe(reads) ==
    /\ asks < MaxAsk
    /\ asks' = asks + 1
    /\ subAttempts' = subAttempts \cup {asks + 1}
    /\ inAir' = inAir \cup {[k |-> "sub", kind |-> IF reads THEN "reader" ELSE "standby", n |-> asks + 1, e |-> 0]}

\* The application subscribes; since 'all' forgets what it was told.
AppSub(since) ==
    /\ ~handle
    /\ handle' = TRUE /\ sub' = TRUE
    /\ told' = IF since = "all" THEN {} ELSE told
    /\ pinned' = (pinned /\ since # "all")
    /\ EmitSubscribe(TRUE)
    /\ UNCHANGED <<hasRole, appointed, copies, left, attached, holderVars>>

RenewSub ==
    /\ sub \/ appointed # 0
    /\ EmitSubscribe(sub)
    /\ UNCHANGED <<sub, handle, told, hasRole, appointed, copies, left, attached, pinned, holderVars>>

AppStop ==
    /\ handle
    /\ handle' = FALSE /\ sub' = FALSE /\ told' = {} /\ pinned' = FALSE
    /\ attached' = IF hasRole THEN attached ELSE 0
    /\ subAttempts' = IF hasRole THEN subAttempts ELSE {}
    /\ inAir' = inAir \cup {[k |-> "unsub", kind |-> "-", n |-> 0, e |-> 0]}
    /\ UNCHANGED <<hasRole, appointed, copies, left, asks, holderVars>>

\* What a DELIVER may do to the attachment: the answer to an attempt commits it,
\* fan-out of the pinned root moves it forward, anything else is data.
Decision(f) ==
    IF f.n # 0 THEN (IF f.n \in subAttempts THEN "commit" ELSE "data")
    ELSE IF attached # 0 /\ pinned /\ f.e >= attached THEN "forward" ELSE "data"

OnDeliverAtMember(f) ==
    /\ f.k = "deliver"
    /\ inAir' = inAir \ {f}
    /\ IF Decision(f) = "data"
         THEN UNCHANGED <<attached, subAttempts, pinned>>
         ELSE /\ attached' = f.e /\ pinned' = TRUE
              /\ subAttempts' = IF Decision(f) = "commit" THEN {n \in subAttempts : n > f.n} ELSE subAttempts
    /\ UNCHANGED <<sub, handle, told, hasRole, appointed, copies, left, asks, holderVars>>

\* A grant is refused under a LEFT record of its generation and when it names
\* an older epoch; one that is too old is a frame lost.
GrantRefused(f) == f.e = left \/ f.e < appointed

OnReplicate(f) ==
    /\ f.k = "grant"
    /\ inAir' = inAir \ {f}
    /\ IF GrantRefused(f)
         THEN UNCHANGED <<hasRole, appointed, copies>>
         ELSE hasRole' = TRUE /\ appointed' = f.e /\ copies' = (copies \/ f.kind = "body")
    /\ UNCHANGED <<sub, handle, told, left, attached, subAttempts, pinned, asks, holderVars>>

\* The lease lapses: no REPLICATE of the generation for L.  A body keeps the
\* appointment, for the election.
LeaseLapses ==
    /\ appointed # 0 /\ ~copies
    /\ ~\E f \in inAir : f.k = "grant"
    /\ left' = appointed /\ appointed' = 0
    /\ UNCHANGED <<sub, handle, told, hasRole, copies, attached, subAttempts, pinned, asks, holderVars, inAir>>

LeftLapses ==
    /\ left # 0 /\ ~Names(left)
    /\ left' = 0
    /\ UNCHANGED <<sub, handle, told, hasRole, appointed, copies, attached, subAttempts, pinned, asks, holderVars, inAir>>

CopyExpires ==
    /\ copies
    /\ copies' = FALSE
    /\ UNCHANGED <<sub, handle, told, hasRole, appointed, left, attached, subAttempts, pinned, asks, holderVars, inAir>>

\* The tick's reaper: an empty role without a duty.
ReapRole ==
    /\ hasRole /\ appointed = 0 /\ ~copies /\ ~sub
    /\ hasRole' = FALSE /\ pinned' = FALSE /\ attached' = 0 /\ subAttempts' = {}
    /\ UNCHANGED <<sub, handle, told, appointed, copies, left, asks, holderVars, inAir>>

\* The obligations a notice ends: the appointment it names, and the attachment
\* it names - or, unattached, that of a member with no other parent.
EndsAppointment(f) == hasRole /\ appointed = f.e
EndsAttachment(f) == IF attached # 0 THEN attached = f.e ELSE pinned \/ ~hasRole

\* The kernel's subscription ends; the application is told once per generation.
EndSubscription(e) ==
    /\ sub' = FALSE
    /\ told' = told \cup (IF sub THEN {e} ELSE {})
    /\ handle' = (handle /\ (~sub \/ e \in told))

NoticeIgnored(f) ==
    \/ ~EndsAppointment(f) /\ ~EndsAttachment(f)
    \/ EndsAppointment(f) /\ copies

OnTopicTerminated(f) ==
    /\ f.k = "notice"
    /\ inAir' = inAir \ {f}
    /\ IF NoticeIgnored(f)
         THEN UNCHANGED <<sub, handle, told, hasRole, appointed, attached, subAttempts, pinned>>
         ELSE /\ appointed' = IF EndsAppointment(f) THEN 0 ELSE appointed
              /\ IF EndsAttachment(f) THEN EndSubscription(f.e) ELSE UNCHANGED <<sub, handle, told>>
              /\ hasRole' = (hasRole /\ (appointed' # 0 \/ sub'))
              /\ IF EndsAttachment(f) \/ (hasRole /\ ~hasRole')
                   THEN attached' = 0 /\ subAttempts' = {} /\ pinned' = FALSE
                   ELSE UNCHANGED <<attached, subAttempts, pinned>>
    /\ UNCHANGED <<copies, left, asks, holderVars>>

LoseAir(f) ==
    /\ inAir' = inAir \ {f}
    /\ UNCHANGED <<holderVars, memberVars>>

LtNext ==
    \/ \E f \in inAir :
          \/ OnSubAtRoot(f) \/ SeatRefused(f) \/ OnUnsubAtRoot(f)
          \/ OnDeliverAtMember(f) \/ OnReplicate(f) \/ OnTopicTerminated(f) \/ LoseAir(f)
    \/ WriteAtRoot \/ BodyGone \/ SeatLapses \/ DemandAges \/ ReplicateTo
    \/ TerminationSweep \/ HighWaterLapses
    \/ \E since \in {"all", "now"} : AppSub(since)
    \/ RenewSub \/ AppStop \/ LeaseLapses \/ LeftLapses \/ CopyExpires \/ ReapRole

LtSpec == LtInit /\ [][LtNext]_ltVars

---------------------------------------------------------------------------
(* Properties.                                                               *)

LtTypeOK ==
    /\ state \in {"none", "live", "dismantling"} /\ seat \in {"none", "reader", "standby"}
    /\ {epoch, highWater, appointed, left, attached} \subseteq 0 .. MaxGen
    /\ told \subseteq 1 .. MaxGen /\ subAttempts \subseteq 1 .. MaxAsk
    /\ {holds, replica, old, sub, handle, hasRole, copies, pinned} \subseteq BOOLEAN
    /\ sends \in 0 .. Rounds /\ gens \in 0 .. MaxGen /\ asks \in 0 .. MaxAsk
    /\ inAir \subseteq [k : {"sub", "unsub", "deliver", "grant", "notice"},
                      kind : {"-", "reader", "standby", "body"}, n : 0 .. MaxAsk, e : 0 .. MaxGen]

\* No notice under way names the generation that is live: a late notice of a
\* generation that has ended cannot end a reader of the one that followed it.
GenerationsDistinct == \A f \in inAir : f.k = "notice" /\ state = "live" => f.e # epoch

=============================================================================
