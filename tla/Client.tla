------------------------------- MODULE Client ------------------------------
(***************************************************************************)
(* A peer's own publish, kill, subscriptions and read of one topic, and the  *)
(* retries behind them.  The peer holds no role of the topic; its root is    *)
(* elsewhere, may be replaced by one that holds nothing, and loses frames.   *)
(*                                                                           *)
(* A PUB or a KILL is sent once by the call, again by a burst of timers, and *)
(* again at every tick until the peer sees its own message or MaxTry is      *)
(* reached.  Validation and signing that throws leaves no state behind and   *)
(* is left out.                                                              *)
(***************************************************************************)
EXTENDS Integers, FiniteSets

CONSTANTS
    Handle,    \* Subscription objects the application may hold
    MaxTry,    \* PENDING_PUB_MAX_TRIES
    MaxBurst,  \* the early re-sends of a publish
    MaxKill,   \* bound: calls of kill()
    MaxFresh   \* bound: replacements of the root

NotPending == -1

ASSUME ClientAssumption == {MaxTry, MaxKill, MaxFresh} \subseteq Nat /\ MaxBurst \in Nat \ {0}

VARIABLES
    published,  \* pub() has returned the message's identifier
    handles,    \* _subscriptions of the topic
    resolving,  \* sub() calls that await the topic's id
    reading,    \* mySubscriptions holds the topic
    keys,       \* _appDelivered: the keys of the body and of the kill
    shown,      \* what the application was shown last
    pendPub,    \* tries of the _pendingPub entry
    pendKill,   \* tries of the _pendingKill entry
    burst,      \* early re-sends left; a timer is armed while there are any
    pull,       \* the state of a read
    rootHas,    \* what the root holds of the message
    sent,       \* frames in flight
    kills,      \* calls of kill() so far
    fresh,
    phase       \* "running", "leaving" or "left"

clVars == <<published, handles, resolving, reading, keys, shown, pendPub, pendKill, burst, pull,
            rootHas, sent, kills, fresh, phase>>
subVars == <<handles, resolving, reading>>
appVars == <<keys, shown>>
retryVars == <<pendPub, pendKill, burst>>
rootVars == <<rootHas, fresh>>

ClInit ==
    /\ published = FALSE /\ handles = {} /\ resolving = {} /\ reading = FALSE
    /\ keys = {} /\ shown = "nothing"
    /\ pendPub = NotPending /\ pendKill = NotPending /\ burst = 0 /\ pull = "idle"
    /\ rootHas = "nothing" /\ sent = {} /\ kills = 0 /\ fresh = 0 /\ phase = "running"

Up == phase # "left"

---------------------------------------------------------------------------
(* Publish and kill.                                                         *)

\* A cold publisher re-sends in waves, a first publish once, any other not at all.
EarlyResendPlan == {0, 1, MaxBurst}

PubsubPublish ==
    /\ pendPub' = 0
    /\ burst' \in EarlyResendPlan
    /\ sent' = sent \cup {"pub"}

\* pub(): the message has a sequence number of its own, so it is published once.
Pub ==
    /\ phase = "running" /\ ~published
    /\ published' = TRUE
    /\ PubsubPublish
    /\ UNCHANGED <<subVars, appVars, pendKill, pull, rootVars, kills, phase>>

\* The pump's timer: the pending entry is what keeps it going.
EarlyResend ==
    /\ burst > 0 /\ Up
    /\ burst' = IF pendPub = NotPending THEN 0 ELSE burst - 1
    /\ sent' = IF pendPub = NotPending THEN sent ELSE sent \cup {"pub"}
    /\ UNCHANGED <<published, subVars, appVars, pendPub, pendKill, pull, rootVars, kills, phase>>

PubsubKill ==
    /\ pendKill' = 0
    /\ sent' = sent \cup {"kill"}

Kill ==
    /\ phase = "running" /\ published /\ kills < MaxKill
    /\ kills' = kills + 1
    /\ PubsubKill
    /\ UNCHANGED <<published, subVars, appVars, pendPub, burst, pull, rootVars, phase>>

\* An entry is dropped at its age limit or its last try.
Retried(tries, old) == IF tries = NotPending \/ old \/ tries >= MaxTry THEN NotPending ELSE tries + 1
Resent(tries, frame) == IF tries # NotPending THEN {frame} ELSE {}

\* Part 1c of the tick: both maps, the publishes first.  A kill is younger than
\* the publish it retracts.
RetryTick(aged) ==
    /\ Up /\ {pendPub, pendKill} # {NotPending}
    /\ pendPub' = Retried(pendPub, "pub" \in aged)
    /\ pendKill' = Retried(pendKill, "kill" \in aged)
    /\ sent' = sent \cup Resent(pendPub', "pub") \cup Resent(pendKill', "kill")
    /\ UNCHANGED <<published, subVars, appVars, burst, pull, rootVars, kills, phase>>

---------------------------------------------------------------------------
(* The root, seen from the peer: it answers, is replaced, and loses frames.  *)

\* A tombstone outlives any copy of the body that comes after it.
RootIngest(frame) ==
    /\ frame \in sent
    /\ sent' = sent \ {frame}
    /\ rootHas' = IF frame = "kill" THEN "tomb" ELSE IF rootHas = "nothing" THEN "body" ELSE rootHas
    /\ UNCHANGED <<published, subVars, appVars, retryVars, pull, kills, fresh, phase>>

RootFresh ==
    /\ fresh < MaxFresh
    /\ fresh' = fresh + 1
    /\ rootHas' = "nothing"
    /\ UNCHANGED <<published, subVars, appVars, retryVars, pull, sent, kills, phase>>

RootDelivers ==
    /\ reading /\ rootHas # "nothing" /\ Up
    /\ sent' = sent \cup {IF rootHas = "body" THEN "deliver" ELSE "del"}
    /\ UNCHANGED <<published, subVars, appVars, retryVars, pull, rootVars, kills, phase>>

LoseFrame(frame) ==
    /\ frame \in sent
    /\ sent' = sent \ {frame}
    /\ UNCHANGED <<published, subVars, appVars, retryVars, pull, rootVars, kills, phase>>

---------------------------------------------------------------------------
(* Deliveries to the application.                                            *)

\* (mutant) an echo settles only the entry of its own kind
ConfirmPendingByKind(frame) ==
    /\ pendPub' = IF frame = "deliver" THEN NotPending ELSE pendPub
    /\ pendKill' = IF frame = "del" THEN NotPending ELSE pendKill

\* An echo of either kind settles both entries of the message.
ConfirmPending(frame) == pendPub' = NotPending /\ pendKill' = NotPending

\* The handles of the topic are shown what the kernel hands over.
DispatchDelivery(what) == shown' = IF handles # {} THEN what ELSE shown

\* A body is consumed by a reader only, once; the return for a body already
\* delivered comes before the confirmation.
OnBody ==
    /\ "deliver" \in sent
    /\ sent' = sent \ {"deliver"}
    /\ IF reading /\ "body" \notin keys
         THEN /\ keys' = keys \cup {"body"}
              /\ DispatchDelivery("body")
              /\ ConfirmPending("deliver")
         ELSE UNCHANGED <<appVars, pendPub, pendKill>>
    /\ UNCHANGED <<published, subVars, burst, pull, rootVars, kills, phase>>

\* A retraction is confirmed whether or not the application is told of it, and
\* is told only of a body it was shown.
OnRetraction ==
    /\ "del" \in sent
    /\ sent' = sent \ {"del"}
    /\ ConfirmPending("del")
    /\ keys' = IF reading THEN keys \cup {"kill"} ELSE keys
    /\ IF reading /\ "kill" \notin keys /\ "body" \in keys
         THEN DispatchDelivery("retracted")
         ELSE UNCHANGED shown
    /\ UNCHANGED <<published, subVars, burst, pull, rootVars, kills, phase>>

---------------------------------------------------------------------------
(* Subscriptions.                                                            *)

\* sub() awaits the topic's identifier, then acts without a further await.
Subscribe(h) ==
    /\ phase = "running" /\ h \notin handles \cup resolving
    /\ resolving' = resolving \cup {h}
    /\ UNCHANGED <<published, handles, reading, appVars, retryVars, pull, rootVars, sent, kills, phase>>

ResetConsumption == keys' = {}

\* since 'all' forgets what the application was already given.
ApplySince(since) == IF since = "all" THEN ResetConsumption ELSE UNCHANGED keys

PubsubSubscribe == reading' = TRUE
PubsubUnsubscribe == reading' = FALSE /\ ResetConsumption

Subscribed(h, since) ==
    /\ h \in resolving /\ Up
    /\ resolving' = resolving \ {h}
    /\ handles' = handles \cup {h}
    /\ ApplySince(since)
    /\ PubsubSubscribe
    /\ UNCHANGED <<published, shown, retryVars, pull, rootVars, sent, kills, phase>>

\* The last handle ends the subscription, and with it what was consumed.
Stop(h) ==
    /\ h \in handles
    /\ handles' = handles \ {h}
    /\ IF handles' = {} THEN PubsubUnsubscribe ELSE UNCHANGED <<reading, keys>>
    /\ UNCHANGED <<published, resolving, shown, retryVars, pull, rootVars, sent, kills, phase>>

\* The root ended the topic's generation: every handle is stopped.
Terminated ==
    /\ reading /\ Up
    /\ handles' = {} /\ reading' = FALSE
    /\ UNCHANGED <<published, resolving, appVars, retryVars, pull, rootVars, sent, kills, phase>>

---------------------------------------------------------------------------
(* A read, and leaving.                                                      *)

RequestPull == pull = "idle" /\ pull' = "asked"

Pull ==
    /\ phase = "running"
    /\ RequestPull
    /\ UNCHANGED <<published, subVars, appVars, retryVars, rootVars, sent, kills, phase>>

\* The answer settles the read only while its entry is there.
OnPullResp(answer) ==
    /\ pull = "asked"
    /\ answer \in {"empty", "invalid"} \cup (IF rootHas = "body" THEN {"body"} ELSE {})
    /\ pull' = answer
    /\ UNCHANGED <<published, subVars, appVars, retryVars, rootVars, sent, kills, phase>>

PullExpires ==
    /\ pull = "asked"
    /\ pull' = "timeout"
    /\ UNCHANGED <<published, subVars, appVars, retryVars, rootVars, sent, kills, phase>>

PullReturned ==
    /\ pull \in {"empty", "invalid", "body", "timeout"}
    /\ pull' = "idle"
    /\ UNCHANGED <<published, subVars, appVars, retryVars, rootVars, sent, kills, phase>>

\* leave() drains the kills while it may, then silences the retries.
LeaveCalled ==
    /\ phase = "running"
    /\ phase' = "leaving"
    /\ UNCHANGED <<published, subVars, appVars, retryVars, pull, rootVars, sent, kills>>

LeaveEnds ==
    /\ phase = "leaving"
    /\ phase' = "left"
    /\ pendPub' = NotPending /\ pendKill' = NotPending /\ burst' = 0
    /\ UNCHANGED <<published, subVars, appVars, pull, rootVars, sent, kills>>

ClNext ==
    \/ Pub \/ EarlyResend \/ Kill
    \/ \E aged \in {{}, {"pub"}, {"pub", "kill"}} : RetryTick(aged)
    \/ \E frame \in {"pub", "kill"} : RootIngest(frame)
    \/ \E frame \in sent : LoseFrame(frame)
    \/ RootFresh \/ RootDelivers \/ OnBody \/ OnRetraction
    \/ \E h \in Handle : Subscribe(h) \/ Stop(h) \/ (\E since \in {"all", "now"} : Subscribed(h, since))
    \/ Terminated
    \/ Pull \/ PullExpires \/ PullReturned
    \/ \E answer \in {"empty", "invalid", "body"} : OnPullResp(answer)
    \/ LeaveCalled \/ LeaveEnds

ClSpec == ClInit /\ [][ClNext]_clVars

---------------------------------------------------------------------------
(* Properties.                                                               *)

ClTypeOK ==
    /\ published \in BOOLEAN
    /\ handles \subseteq Handle /\ resolving \subseteq Handle
    /\ reading \in BOOLEAN
    /\ keys \subseteq {"body", "kill"}
    /\ shown \in {"nothing", "body", "retracted"}
    /\ pendPub \in NotPending .. MaxTry /\ pendKill \in NotPending .. MaxTry
    /\ burst \in 0 .. MaxBurst
    /\ pull \in {"idle", "asked", "empty", "invalid", "body", "timeout"}
    /\ rootHas \in {"nothing", "body", "tomb"}
    /\ sent \subseteq {"pub", "kill", "deliver", "del"}
    /\ kills \in 0 .. MaxKill /\ fresh \in 0 .. MaxFresh
    /\ phase \in {"running", "leaving", "left"}

\* Once a message is killed, its publish is retried only while its kill is too:
\* a root that lost its state between the two is never offered the body by a
\* peer that has given up on the retraction.
RetractionOutlivesBody == kills > 0 /\ pendPub # NotPending => pendKill # NotPending
=============================================================================
