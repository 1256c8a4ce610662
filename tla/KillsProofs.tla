----------------------------- MODULE KillsProofs ----------------------------
(***************************************************************************)
(* A killed message stays dead at every node of every tree, whatever comes   *)
(* late, twice or never, for any number of restarts and losses.              *)
(***************************************************************************)
EXTENDS Kills, TLAPS

\* A node knows of a kill by its tombstone and by the key of what it offered the
\* application, both or neither; and where a tombstone stands beside a DELIVER
\* that still awaits, the kill has passed it.
KillsInv ==
    /\ KiTypeOK
    /\ killKeys = tombs
    /\ \A n \in tombs : Awaits("deliver", n) \in waiting => n \in overtaken
    /\ KilledStaysDead

LEMMA KillsInit == KiInit => KillsInv
  BY KillsAssumption DEF KiInit, KillsInv, KiTypeOK, KilledStaysDead, Frames

\* The frames a node sends on are frames to nodes of the tree.
LEMMA SentOn ==
  ASSUME NEW n \in KNode, NEW what \in {"body", "del"}
  PROVE  Fanout(n, what) \cup Replica(n, what)
             \subseteq Frames("deliver", KNode, {"body", "del"}) \cup Frames("union", KNode, {"body", "del"})
  <1>1. Kids[n] \subseteq KNode /\ Cohort \subseteq KNode
    BY KillsAssumption
  <1> QED
    BY <1>1 DEF Fanout, Replica, Frames

\* A body is cached where no tombstone stands, or where the kill has overtaken it.
LEMMA CachePushKeeps ==
  ASSUME KillsInv, NEW n \in KNode, CachePush(n), n \in tombs => n \in overtaken,
         waiting' \subseteq waiting
  PROVE  KillsInv'
  <1>1. /\ cached' = cached \cup {n} /\ app' = [app EXCEPT ![n] = IF @ = "none" THEN "body" ELSE @]
        /\ air' = air \cup (Fanout(n, "body") \cup Replica(n, "body"))
        /\ tombs' = tombs /\ killKeys' = killKeys /\ overtaken' = overtaken /\ breaks' = breaks
    BY DEF CachePush, DeliverToApp
  <1>2. KiTypeOK'
    BY <1>1, SentOn DEF KillsInv, KiTypeOK
  <1>3. KilledStaysDead'
    BY <1>1 DEF KillsInv, KiTypeOK, KilledStaysDead, Hit
  <1> QED
    BY <1>1, <1>2, <1>3 DEF KillsInv

\* A kill leaves no body behind, neither in the cache nor with the application.
LEMMA ApplyKillKeeps ==
  ASSUME KillsInv, NEW n \in KNode, ApplyKill(n), waiting' \subseteq waiting
  PROVE  KillsInv'
  <1>1. /\ killKeys' = killKeys \cup {n} /\ tombs' = tombs \cup {n} /\ breaks' = breaks
        /\ app' = [app EXCEPT ![n] = IF n \notin killKeys /\ @ = "body" THEN "retracted" ELSE @]
        /\ cached' = IF n \in tombs THEN cached ELSE cached \ {n}
        /\ overtaken' = IF Awaits("deliver", n) \in waiting THEN overtaken \cup {n} ELSE overtaken
    BY DEF ApplyKill, DeliverKillToApp
  <1>2. air' = air \/ air' = air \cup (Fanout(n, "del") \cup Replica(n, "del"))
    BY DEF ApplyKill
  <1>3. KiTypeOK'
    BY <1>1, <1>2, SentOn DEF KillsInv, KiTypeOK
  <1>4. KilledStaysDead'
    <2> SUFFICES ASSUME NEW k \in tombs' \ overtaken' PROVE k \notin cached' /\ app'[k] # "body"
      BY DEF KilledStaysDead, Hit
    <2>1. k \notin overtaken /\ app \in [KNode -> {"none", "body", "retracted"}] /\ k \in KNode
      BY <1>1, <1>3 DEF KillsInv, KiTypeOK
    <2>2. CASE k \in tombs
      BY <1>1, <2>1, <2>2 DEF KillsInv, KilledStaysDead, Hit
    <2>3. CASE k = n /\ n \notin tombs
      BY <1>1, <2>1, <2>3 DEF KillsInv
    <2> QED
      BY <1>1, <2>2, <2>3
  <1> QED
    BY <1>1, <1>3, <1>4 DEF KillsInv

\* Steps that change neither what nodes hold nor what applications were given.
LEMMA IgnoredKeeps ==
  ASSUME KillsInv, UNCHANGED <<cached, tombs, app, killKeys, overtaken>>, KiTypeOK',
         \A n \in tombs : Awaits("deliver", n) \in waiting' => Awaits("deliver", n) \in waiting
  PROVE  KillsInv'
  BY DEF KillsInv, KilledStaysDead, Hit

LEMMA KillsStep == KillsInv /\ [KiNext]_kiVars => KillsInv'
  <1> SUFFICES ASSUME KillsInv, [KiNext]_kiVars PROVE KillsInv'
    OBVIOUS
  <1> USE DEF KillsInv
  <1>0. 1 \in KNode /\ \A n \in KNode : Kids[n] \subseteq KNode
    BY KillsAssumption
  <1>1. ASSUME NEW op \in {"pub", "kill"}, WriteArrives(op) PROVE KillsInv'
    BY <1>0, <1>1, IgnoredKeeps DEF WriteArrives, Suspend, Ignored, Awaits, KiTypeOK
  <1>2. CASE IngestPublish
    <2>1. CASE Suppressed(1)
      BY <1>2, <2>1, IgnoredKeeps DEF IngestPublish, Resumes, Ignored, KiTypeOK
    <2>2. CASE ~Suppressed(1)
      BY <1>0, <1>2, <2>2, CachePushKeeps DEF IngestPublish, Resumes, Suppressed
    <2> QED
      BY <2>1, <2>2
  <1>3. CASE OnKill
    BY <1>0, <1>3, ApplyKillKeeps DEF OnKill, Resumes
  <1>4. ASSUME NEW n \in KNode, NEW c \in Kids[n], ReplayTo(n, c) \/ PullUp(n, c) PROVE KillsInv'
    BY <1>0, <1>4, IgnoredKeeps DEF ReplayTo, PullUp, SendSnapshot, HeldItems, HeldBodyOnly, Frames, KiTypeOK
  <1>5. ASSUME NEW n \in KNode, Replicate(n) PROVE KillsInv'
    BY <1>5, IgnoredKeeps DEF Replicate, SendSnapshot, HeldItems, HeldBodyOnly, Frames, KiTypeOK
  <1>6. ASSUME NEW n \in KNode, OnDeliver(n) PROVE KillsInv'
    <2>1. n \notin tombs
      BY <1>6 DEF OnDeliver, Suppressed
    <2>2. CASE CachePush(n) /\ UNCHANGED waiting
      BY <2>1, <2>2, CachePushKeeps
    <2>3. CASE Suspend("deliver", n) /\ Ignored
      BY <2>1, <2>3, IgnoredKeeps DEF Suspend, Ignored, Awaits, KiTypeOK
    <2> QED
      BY <1>6, <2>2, <2>3 DEF OnDeliver
  <1>7. ASSUME NEW n \in KNode, DeriveDone(n) PROVE KillsInv'
    BY <1>7, CachePushKeeps DEF DeriveDone, Resumes
  <1>8. ASSUME NEW n \in KNode, OnUnion(n) PROVE KillsInv'
    BY <1>8, IgnoredKeeps DEF OnUnion, Suspend, Ignored, Awaits, KiTypeOK
  <1>9. ASSUME NEW n \in KNode, IngestStamped(n) PROVE KillsInv'
    <2>1. CASE Suppressed(n)
      BY <1>9, <2>1, IgnoredKeeps DEF IngestStamped, Resumes, Ignored, KiTypeOK
    <2>2. CASE ~Suppressed(n)
      BY <1>9, <2>2, CachePushKeeps DEF IngestStamped, Resumes, Suppressed
    <2> QED
      BY <2>1, <2>2
  <1>10. ASSUME NEW n \in KNode, Restart(n) PROVE KillsInv'
    BY <1>10, KillsAssumption DEF Restart, KiTypeOK, KilledStaysDead, Hit, Awaits
  <1>11. ASSUME NEW f \in air, Lose(f) PROVE KillsInv'
    BY <1>11, KillsAssumption, IgnoredKeeps DEF Lose, KiTypeOK
  <1>12. ASSUME NEW f \in air, OnDel(f) PROVE KillsInv'
    <2>1. f.to \in KNode
      BY DEF KiTypeOK, Frames
    <2> QED
      BY <1>12, <2>1, ApplyKillKeeps DEF OnDel
  <1>13. CASE UNCHANGED kiVars
    BY <1>13 DEF kiVars, KiTypeOK, KilledStaysDead, Hit
  <1> QED
    BY <1>1, <1>2, <1>3, <1>4, <1>5, <1>6, <1>7, <1>8, <1>9, <1>10, <1>11, <1>12, <1>13 DEF KiNext

\* In every tree and with any number of restarts, lost, late and repeated frames,
\* a node that holds the tombstone neither answers with the message nor leaves it
\* with its application, unless the kill overtook a DELIVER that awaited there
\* (_applyKill, _cachePush, _ingestStamped).
THEOREM KilledStaysDeadAlways == KiSpec => []KilledStaysDead
  <1>1. KillsInv => KilledStaysDead
    BY DEF KillsInv
  <1> QED
    BY KillsInit, KillsStep, <1>1, PTL DEF KiSpec

\* A node of the tree holds, awaits and is sent only what the model names.
THEOREM KillTypesAlways == KiSpec => []KiTypeOK
  <1>1. KillsInv => KiTypeOK
    BY DEF KillsInv
  <1> QED
    BY KillsInit, KillsStep, <1>1, PTL DEF KiSpec
=============================================================================
