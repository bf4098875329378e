--------------------------- MODULE VaultDeskProofs ---------------------------
(***************************************************************************)
(* Proofs about VaultDesk for any conversations, calls and waiters: the     *)
(* type of the state, that a handler which waited for the pass is alone     *)
(* with its conversation, that a pass dies with its session, which pass     *)
(* answers a call, and what keeps the vault open.                           *)
(***************************************************************************)
EXTENDS VaultDesk, FiniteSetTheorems, TLAPS

(***************************************************************************)
(* What the type leaves open.  A deferred lock belongs to a locked screen;  *)
(* nobody waits for the running pass and for the queued one; a pass covers  *)
(* what its calls asked for and was asked for before it began; one that has *)
(* seen the vault close is cut.                                             *)
(***************************************************************************)
DeferredIsLocked == pending # NotPending => screen

OnePromise == running # NoPass => running.for \cap queued.for = {}

RunningServes ==
    running # NoPass =>
       /\ running.for \cap running.late = {}
       /\ \A c \in running.for : calls[c].wants \subseteq running.scope

QueuedServes ==
    queued # NoRequest =>
       \A c \in queued.for : queued.all \/ calls[c].wants \subseteq queued.ids

StaleIsCut == running # NoPass /\ running.stale => running.cut

DeskInv ==
    /\ TypeOK /\ AloneMeansAlone /\ DeferredIsLocked
    /\ OnePromise /\ RunningServes /\ QueuedServes /\ StaleIsCut

-------------------------------------------------------------------------------
(* The lock *)

\* Closing, deferring and unlocking leave a state of the lock.
LEMMA LockKeepsType ==
    ASSUME LockTypeOK, DeferredIsLocked, LockStep
    PROVE  LockTypeOK' /\ DeferredIsLocked'
<1> USE DEF LockTypeOK, DeferredIsLocked, Pending, NotPending
<1>1. ASSUME Close, screen' \in BOOLEAN, opening' \in BOOLEAN, UNCHANGED never
      PROVE  LockTypeOK' /\ DeferredIsLocked'
  BY <1>1 DEF Close, Cleared
<1>2. ASSUME NEW p \in Pending, DeferOrClose(p), screen', open, UNCHANGED <<opening, never>>
      PROVE  LockTypeOK' /\ DeferredIsLocked'
  <2>1. screen' \in BOOLEAN /\ opening' \in BOOLEAN
    BY <1>2
  <2>2. CASE Defers(p)
    <3>1. Seen(p) \in Pending
      BY DEF Seen
    <3> QED
      BY <1>2, <2>2, <3>1 DEF DeferOrClose
  <2> QED
    BY <1>1, <1>2, <2>1, <2>2 DEF DeferOrClose
<1>3. CASE BeginUnlock
  BY <1>3 DEF BeginUnlock
<1>4. CASE EndUnlock
  <2>1. CASE open' = open
    BY <1>4, <2>1 DEF EndUnlock
  <2>2. CASE open' = TRUE
    BY <1>4, <2>2 DEF EndUnlock
  <2> QED
    BY <1>4, <2>1, <2>2 DEF EndUnlock
<1>5. CASE Touch
  BY <1>5 DEF Touch
<1>6. CASE CloseNow
  BY <1>1, <1>6 DEF CloseNow
<1>7. CASE LockScreen
  BY <1>2, <1>7 DEF LockScreen, Deferral
<1>8. CASE UnlockScreen
  BY <1>8 DEF UnlockScreen
<1>9. CASE Tick
  BY <1>1, <1>2, <1>9 DEF Tick
<1>10. CASE IdleElapses
  BY <1>10 DEF IdleElapses
<1>11. CASE WaitElapses
  BY <1>11 DEF WaitElapses, Wait
<1>12. CASE GraceElapses
  BY <1>12 DEF GraceElapses
<1>13. ASSUME NEW value \in BOOLEAN, SetAutoLock(value)
       PROVE  LockTypeOK' /\ DeferredIsLocked'
  <2>1. /\ UNCHANGED <<open, opening, screen, waits, pending>>
        /\ never' \in BOOLEAN /\ idle' = FALSE
    BY <1>13 DEF SetAutoLock
  <2> QED
    BY <2>1
<1> QED
  BY <1>3, <1>4, <1>5, <1>6, <1>7, <1>8, <1>9, <1>10, <1>11, <1>12, <1>13 DEF LockStep

\* The pass sees the vault close, and nothing else of the lock.
LEMMA LockStepGood ==
    ASSUME DeskInv, LockNext
    PROVE  DeskInv'
<1> USE DEF DeskInv, TypeOK
<1>1. LockTypeOK' /\ DeferredIsLocked'
  BY LockKeepsType DEF LockNext
<1>2. UNCHANGED <<queued, calls, sending, erasing, owning>>
  BY DEF LockNext, markVars
<1>3. CASE UNCHANGED running
  BY <1>1, <1>2, <1>3
     DEF SyncTypeOK, AloneMeansAlone, Holding, OnePromise, RunningServes,
         QueuedServes, StaleIsCut
<1>4. CASE running # NoPass /\ running' = Aborted
  <2>1. running \in Pass /\ Aborted \in Pass
    BY <1>4 DEF SyncTypeOK, Aborted, Pass
  <2>2. running' # NoPass /\ running'.on = running.on /\ running'.for = running.for
        /\ running'.part = running.part /\ running'.late = running.late
        /\ running'.scope = running.scope /\ running'.cut
    BY <1>4, <2>1 DEF Aborted, Pass, NoPass
  <2>3. SyncTypeOK'
    BY <1>2, <1>4, <2>1, <2>2 DEF SyncTypeOK
  <2> QED
    BY <1>1, <1>2, <1>4, <2>2, <2>3
       DEF AloneMeansAlone, Holding, OnePromise, RunningServes, QueuedServes,
           StaleIsCut
<1> QED
  BY <1>3, <1>4 DEF LockNext, SeesLock

-------------------------------------------------------------------------------
(* The coordinator *)

LEMMA AskGood ==
    ASSUME DeskInv, NEW call \in Call, Ask(call, Wants[call])
    PROVE  DeskInv'
<1> DEFINE scope == Wants[call]
<1> USE DEF DeskInv, TypeOK
<1>1. scope \in Scope
  BY CallsAssumption DEF Scope
<1>2. /\ LockTypeOK' /\ DeferredIsLocked'
      /\ UNCHANGED <<sending, erasing, owning>>
  BY DEF Ask, lockVars, markVars, LockTypeOK, DeferredIsLocked
<1>3. /\ calls[call] = Idle
      /\ calls' = [calls EXCEPT ![call] = [at |-> "waiting", wants |-> scope]]
  BY DEF Ask
<1>4. calls' \in [Call -> [at : {"waiting"}, wants : Scope] \cup {Idle}]
  BY <1>1, <1>3 DEF SyncTypeOK
<1>5. /\ call \notin queued.for
      /\ running # NoPass => call \notin running.for
  BY <1>3 DEF SyncTypeOK, Idle
<1>6. ASSUME running = NoPass, running' = Started(scope, {call}), UNCHANGED queued
      PROVE  DeskInv'
  <2>1. Started(scope, {call}) \in Pass /\ running' # NoPass
    BY <1>1, <1>6 DEF Started, Pass, Scope, NoPass
  <2>2. /\ running'.on = {} /\ running'.for = {call} /\ running'.late = {}
        /\ running'.scope = scope /\ running'.stale = FALSE
    BY <1>6 DEF Started
  <2>3. \A c \in Call :
           calls'[c].at = "waiting" <=> c \in queued'.for \cup {call}
    BY <1>3, <1>4, <1>6 DEF SyncTypeOK
  <2>4. Cardinality(running'.on) <= 1
    BY <2>2, FS_EmptySet
  <2>5. SyncTypeOK'
    BY <1>2, <1>4, <1>6, <2>1, <2>2, <2>3, <2>4 DEF SyncTypeOK
  <2>6. calls'[call].wants = scope /\ \A c \in queued.for : calls'[c] = calls[c]
    BY <1>3, <1>5 DEF SyncTypeOK
  <2>7. RunningServes' /\ QueuedServes'
    BY <1>6, <2>2, <2>6 DEF RunningServes, QueuedServes
  <2> QED
    BY <1>2, <1>5, <1>6, <2>2, <2>5, <2>7
       DEF AloneMeansAlone, Holding, OnePromise, StaleIsCut
<1>7. ASSUME running # NoPass,
             running' = [running EXCEPT !.late = @ \cup {call}],
             NEW old \in Request,
             old = IF queued = NoRequest
                   THEN [all |-> FALSE, ids |-> {}, for |-> {}] ELSE queued,
             queued' = [ all |-> old.all \/ scope = Conversation,
                         ids |-> IF scope = Conversation THEN old.ids ELSE old.ids \cup scope,
                         for |-> old.for \cup {call} ]
      PROVE  DeskInv'
  <2>1. running \in Pass /\ running' \in Pass /\ running' # NoPass
    BY <1>7 DEF SyncTypeOK, Pass, NoPass
  <2>2. /\ running'.on = running.on /\ running'.for = running.for
        /\ running'.late = running.late \cup {call}
        /\ running'.scope = running.scope /\ running'.part = running.part
        /\ running'.stale = running.stale /\ running'.cut = running.cut
    BY <1>7, <2>1 DEF Pass
  <2>3. queued' \in Request /\ queued'.for = queued.for \cup {call}
    BY <1>1, <1>7 DEF Request, Scope, NoRequest
  <2>4. \A c \in Call :
           calls'[c].at = "waiting" <=> c \in queued'.for \cup running'.for
    BY <1>3, <1>4, <1>7, <2>2, <2>3 DEF SyncTypeOK
  <2>5. SyncTypeOK'
    BY <1>2, <1>4, <2>1, <2>2, <2>3, <2>4 DEF SyncTypeOK
  <2>6. calls'[call].wants = scope /\ \A c \in Call \ {call} : calls'[c] = calls[c]
    BY <1>3 DEF SyncTypeOK
  <2>7. RunningServes'
    BY <1>5, <1>7, <2>1, <2>2, <2>6 DEF RunningServes, Pass
  <2>8. ASSUME NEW c \in queued'.for
        PROVE  queued'.all \/ calls'[c].wants \subseteq queued'.ids
    <3>1. CASE c = call
      BY <1>7, <2>6, <3>1 DEF Request
    <3>2. CASE c # call
      <4>1. c \in queued.for /\ c \in Call /\ queued # NoRequest
        BY <1>7, <2>3, <2>8, <3>2 DEF NoRequest, Request
      <4> QED
        BY <1>7, <2>6, <3>2, <4>1 DEF QueuedServes, Request
    <3> QED
      BY <3>1, <3>2
  <2> QED
    BY <1>2, <1>5, <1>7, <2>2, <2>3, <2>5, <2>7, <2>8
       DEF AloneMeansAlone, Holding, OnePromise, QueuedServes, StaleIsCut
<1>8. CASE running = NoPass
  BY <1>6, <1>8 DEF Ask
<1>9. CASE running # NoPass
  <2> DEFINE old == IF queued = NoRequest
                    THEN [all |-> FALSE, ids |-> {}, for |-> {}] ELSE queued
  <2>1. old \in Request
    BY DEF SyncTypeOK, Request
  <2> QED
    BY <1>7, <1>9, <2>1 DEF Ask
<1> QED
  BY <1>8, <1>9

\* The scope of the queued pass covers what its calls asked for.
LEMMA NextScopeCovers ==
    ASSUME NEW q \in Request, NEW want \in Scope, q.all \/ want \subseteq q.ids
    PROVE  NextScope(q) \in Scope /\ want \subseteq NextScope(q)
  BY DEF NextScope, Request, Scope

\* A step inside the pass keeps the promises of the calls.
LEMMA PassGoesOn ==
    ASSUME DeskInv, running # NoPass, running' \in Pass,
           running'.for = running.for, running'.late = running.late,
           running'.scope = running.scope,
           running'.cut = running.cut, running'.stale = running.stale,
           Cardinality(running'.on) <= 1,
           erasing' \in [Conversation -> Stages], owning' \in [Conversation -> Stages],
           UNCHANGED <<lockVars, queued, calls, sending>>,
           AloneMeansAlone'
    PROVE  DeskInv'
<1> USE DEF DeskInv, TypeOK, lockVars
<1>1. running' # NoPass
  BY DEF Pass, NoPass
<1>2. SyncTypeOK'
  BY <1>1 DEF SyncTypeOK
<1>3. LockTypeOK' /\ DeferredIsLocked'
  BY DEF LockTypeOK, DeferredIsLocked
<1> QED
  BY <1>1, <1>2, <1>3 DEF OnePromise, RunningServes, QueuedServes, StaleIsCut

LEMMA EndsGood ==
    ASSUME DeskInv, EndPass
    PROVE  DeskInv'
<1> USE DEF DeskInv, TypeOK
<1>1. /\ LockTypeOK' /\ DeferredIsLocked'
      /\ UNCHANGED <<open, sending, erasing, owning>>
  BY DEF EndPass, lockVars, markVars, LockTypeOK, DeferredIsLocked
<1>2. running # NoPass /\ running \in Pass
  BY DEF EndPass, SyncTypeOK
<1>3. ASSUME NEW set, Answered(set)
      PROVE  /\ calls' \in [Call -> [at : {"waiting"}, wants : Scope] \cup {Idle}]
             /\ \A c \in Call : calls'[c] = IF c \in set THEN Idle ELSE calls[c]
  BY <1>3 DEF Answered, SyncTypeOK
<1>4. NoPass.on = {} /\ Idle.at # "waiting" /\ NoRequest.for = {}
  BY DEF NoPass, Idle, NoRequest
<1>5. CASE queued = NoRequest /\ running' = NoPass /\ Answered(running.for) /\ UNCHANGED queued
  <2>1. ASSUME NEW c \in Call
        PROVE  calls'[c].at = "waiting" <=> c \in queued'.for
    BY <1>2, <1>3, <1>4, <1>5 DEF SyncTypeOK
  <2>2. /\ running' = NoPass /\ queued' = NoRequest
        /\ Cardinality(running'.on) <= 1
    BY <1>4, <1>5, FS_EmptySet
  <2>3. SyncTypeOK'
    BY <1>1, <1>3, <1>5, <2>1, <2>2 DEF SyncTypeOK
  <2>4. AloneMeansAlone'
    BY <1>4, <1>5 DEF AloneMeansAlone, Holding
  <2>5. OnePromise' /\ RunningServes' /\ StaleIsCut'
    BY <1>5 DEF OnePromise, RunningServes, StaleIsCut
  <2>6. QueuedServes'
    BY <1>5 DEF QueuedServes
  <2> QED
    BY <1>1, <2>3, <2>4, <2>5, <2>6
<1>6. CASE queued # NoRequest /\ ~open /\ running' = NoPass /\ queued' = NoRequest
           /\ Answered(running.for \cup queued.for)
  <2>1. ASSUME NEW c \in Call
        PROVE  calls'[c].at = "waiting" <=> c \in queued'.for
    BY <1>2, <1>3, <1>4, <1>6 DEF SyncTypeOK
  <2>2. /\ running' = NoPass /\ queued' = NoRequest
        /\ Cardinality(running'.on) <= 1
    BY <1>4, <1>6, FS_EmptySet
  <2>3. SyncTypeOK'
    BY <1>1, <1>3, <1>6, <2>1, <2>2 DEF SyncTypeOK
  <2>4. AloneMeansAlone'
    BY <1>4, <1>6 DEF AloneMeansAlone, Holding
  <2>5. OnePromise' /\ RunningServes' /\ StaleIsCut'
    BY <1>6 DEF OnePromise, RunningServes, StaleIsCut
  <2>6. QueuedServes'
    BY <1>6 DEF QueuedServes
  <2> QED
    BY <1>1, <2>3, <2>4, <2>5, <2>6
<1>7. CASE queued # NoRequest /\ running' = Started(NextScope(queued), queued.for)
           /\ queued' = NoRequest /\ Answered(running.for)
  <2>1. queued \in Request
    BY <1>7 DEF SyncTypeOK
  <2>2. NextScope(queued) \in Scope
    BY <2>1 DEF NextScope, Request, Scope
  <2>3. running' \in Pass /\ running' # NoPass
    BY <1>7, <2>1, <2>2 DEF Started, Pass, Scope, NoPass, Request
  <2>4. /\ running'.on = {} /\ running'.for = queued.for /\ running'.late = {}
        /\ running'.scope = NextScope(queued) /\ running'.stale = FALSE
    BY <1>7 DEF Started
  <2>5. \A c \in queued.for : c \in Call /\ c \notin running.for
    BY <1>2, <2>1 DEF OnePromise, Request
  <2>6. \A c \in queued.for : calls'[c] = calls[c] /\ calls[c].wants \in Scope
    BY <1>3, <1>7, <2>5, <1>4 DEF SyncTypeOK
  <2>7. \A c \in Call : calls'[c].at = "waiting" <=> c \in queued.for
    BY <1>2, <1>3, <1>4, <1>7, <2>5 DEF SyncTypeOK
  <2>8. SyncTypeOK'
    BY <1>1, <1>3, <1>4, <1>7, <2>3, <2>4, <2>7, FS_EmptySet DEF SyncTypeOK
  <2>9. \A c \in queued.for : calls'[c].wants \subseteq NextScope(queued)
    BY <1>7, <2>1, <2>6, NextScopeCovers DEF QueuedServes
  <2> QED
    BY <1>1, <1>4, <1>7, <2>3, <2>4, <2>8, <2>9
       DEF AloneMeansAlone, Holding, OnePromise, RunningServes, QueuedServes, StaleIsCut
<1> QED
  BY <1>5, <1>6, <1>7 DEF EndPass, Ends

LEMMA PassStepGood ==
    ASSUME DeskInv, PassStep
    PROVE  DeskInv'
<1> USE DEF DeskInv, TypeOK
<1>1. ASSUME NEW c \in Conversation, Take(c)
      PROVE  DeskInv'
  <2>1. running # NoPass /\ running \in Pass
    BY <1>1 DEF Take, SyncTypeOK
  <2>2. CASE Busy(c, running.part)
    BY <1>1, <2>1, <2>2, PassGoesOn
       DEF Take, Pass, SyncTypeOK, markVars, AloneMeansAlone, Holding
  <2>3. CASE ~Busy(c, running.part)
    <3>1. running' = [running EXCEPT !.todo = @ \ {c}, !.on = {c}, !.at = "asking"]
      BY <1>1, <2>3 DEF Take
    <3>2. Cardinality(running'.on) <= 1
      BY <2>1, <3>1, FS_Singleton DEF Pass
    <3>3. AloneMeansAlone'
      BY <1>1, <2>1, <2>3, <3>1 DEF Take, Busy, AloneMeansAlone, Holding, markVars, Pass
    <3>4. /\ running' \in Pass /\ running'.for = running.for
          /\ running'.late = running.late /\ running'.scope = running.scope
          /\ running'.cut = running.cut /\ running'.stale = running.stale
      BY <2>1, <3>1 DEF Pass
    <3>5. UNCHANGED <<lockVars, queued, calls, sending, erasing, owning>>
      BY <1>1 DEF Take, markVars
    <3> QED
      BY <2>1, <3>2, <3>3, <3>4, <3>5, PassGoesOn DEF SyncTypeOK
  <2> QED
    BY <2>2, <2>3
<1>2. ASSUME NEW c \in Conversation, Write(c)
      PROVE  DeskInv'
  <2>1. running # NoPass /\ running \in Pass
    BY <1>2 DEF Write, Holding, SyncTypeOK, NoPass
  <2> QED
    BY <1>2, <2>1, PassGoesOn
       DEF Write, Pass, SyncTypeOK, markVars, AloneMeansAlone, Holding
<1>3. ASSUME NEW c \in Conversation, LetGo(c)
      PROVE  DeskInv'
  <2>1. running # NoPass /\ running \in Pass
    BY <1>3 DEF LetGo, Holding, SyncTypeOK, NoPass
  <2>2. running' \in Pass /\ running'.on = {}
    BY <1>3, <2>1 DEF LetGo, Pass
  <2>3. Cardinality(running'.on) <= 1
    BY <2>2, FS_EmptySet
  <2>4. AloneMeansAlone'
    BY <2>2 DEF AloneMeansAlone, Holding
  <2>5. erasing' \in [Conversation -> Stages] /\ owning' \in [Conversation -> Stages]
    BY <1>3 DEF LetGo, Woken, SyncTypeOK, Stages
  <2> QED
    BY <1>3, <2>1, <2>2, <2>3, <2>4, <2>5, PassGoesOn DEF LetGo, Pass
<1>4. CASE TurnToMedia
  <2>1. running # NoPass /\ running \in Pass
    BY <1>4 DEF TurnToMedia, SyncTypeOK
  <2> QED
    BY <1>4, <2>1, PassGoesOn
       DEF TurnToMedia, Pass, Scope, SyncTypeOK, markVars, AloneMeansAlone, Holding
<1> QED
  BY <1>1, <1>2, <1>3, <1>4, EndsGood DEF PassStep

-------------------------------------------------------------------------------
(* The handlers *)

\* A handler that only marks, or only waits, leaves the rest alone.
LEMMA HandlersGood ==
    ASSUME DeskInv,
           UNCHANGED <<open, opening, screen, never, pending, passVars>>,
           waits' \subseteq Wait, ~open => waits' = {} /\ idle' = FALSE,
           idle' \in BOOLEAN,
           sending' \in [Conversation -> {"no", "asking", "image"}],
           erasing' \in [Conversation -> Stages], owning' \in [Conversation -> Stages],
           AloneMeansAlone'
    PROVE  DeskInv'
<1> USE DEF DeskInv, TypeOK, passVars
<1>1. LockTypeOK' /\ DeferredIsLocked'
  BY DEF LockTypeOK, DeferredIsLocked
<1>2. SyncTypeOK'
  BY DEF SyncTypeOK
<1> QED
  BY <1>1, <1>2 DEF OnePromise, RunningServes, QueuedServes, StaleIsCut

\* What a handler adds to the waits, or takes from them.
LEMMA WaitsStayWaits ==
    ASSUME LockTypeOK, NEW who \in Waiter, NEW kind \in {"reply", "turn-image", "image"}
    PROVE  /\ WithWait(waits, who, kind) \subseteq Wait
           /\ WithWait(waits \ WaitsOf(who), who, kind) \subseteq Wait
           /\ waits \ WaitsOf(who) \subseteq Wait
           /\ ~open => /\ WithWait(waits, who, kind) = {}
                       /\ WithWait(waits \ WaitsOf(who), who, kind) = {}
                       /\ waits \ WaitsOf(who) = {}
           /\ (idle /\ WaitsOf(who) = {}) \in BOOLEAN
           /\ ~open => idle = FALSE
<1>1. ASSUME NEW set \in SUBSET waits
      PROVE  /\ WithWait(set, who, kind) \subseteq Wait
             /\ ~open => WithWait(set, who, kind) = {}
  <2>1. set \subseteq Wait /\ (~open => set = {})
    BY <1>1 DEF LockTypeOK
  <2>2. [by |-> who, kind |-> kind, old |-> FALSE] \in Wait
    BY DEF Wait
  <2> QED
    BY <2>1, <2>2 DEF WithWait
<1>2. waits \ WaitsOf(who) \subseteq waits
  OBVIOUS
<1>3. waits \subseteq Wait /\ (~open => waits = {})
  BY DEF LockTypeOK
<1>4. (idle /\ WaitsOf(who) = {}) \in BOOLEAN
  OBVIOUS
<1>5. ~open => idle = FALSE
  BY DEF LockTypeOK
<1>6. waits \in SUBSET waits /\ waits \ WaitsOf(who) \in SUBSET waits
  OBVIOUS
<1>7. WithWait(waits, who, kind) \subseteq Wait
      /\ (~open => WithWait(waits, who, kind) = {})
  BY <1>1, <1>6
<1>8. WithWait(waits \ WaitsOf(who), who, kind) \subseteq Wait
      /\ (~open => WithWait(waits \ WaitsOf(who), who, kind) = {})
  BY <1>1, <1>6
<1> QED
  BY <1>2, <1>3, <1>4, <1>5, <1>7, <1>8

LEMMA SendsGood ==
    ASSUME DeskInv, NEW c \in Chatting, StartSend(c) \/ SaveReply(c) \/ EndSend(c)
    PROVE  DeskInv'
<1> USE DEF DeskInv, TypeOK, passVars, SyncTypeOK
<1>1. c \in Waiter /\ c \in Conversation
  BY WaitersAssumption
<1>2. CASE StartSend(c)
  BY <1>1, <1>2, WaitsStayWaits, HandlersGood
     DEF StartSend, LockTypeOK, AloneMeansAlone, Holding
<1>3. CASE SaveReply(c)
  <2>1. PICK kind \in {"turn-image", "image"} :
            waits' = WithWait(waits \ WaitsOf(c), c, kind)
    BY <1>3 DEF SaveReply
  <2> QED
    BY <1>1, <1>3, <2>1, WaitsStayWaits, HandlersGood
       DEF SaveReply, Released, AloneMeansAlone, Holding
<1>4. CASE EndSend(c)
  BY <1>1, <1>4, WaitsStayWaits, HandlersGood
     DEF EndSend, Released, AloneMeansAlone, Holding
<1> QED
  BY <1>2, <1>3, <1>4

LEMMA PanelsGood ==
    ASSUME DeskInv, NEW who \in Waiter, StartPanel(who) \/ EndPanel(who)
    PROVE  DeskInv'
<1> USE DEF DeskInv, TypeOK, passVars, SyncTypeOK, markVars
<1>1. CASE StartPanel(who)
  BY <1>1, WaitsStayWaits, HandlersGood
     DEF StartPanel, LockTypeOK, AloneMeansAlone, Holding
<1>2. CASE EndPanel(who)
  BY <1>2, WaitsStayWaits, HandlersGood
     DEF EndPanel, Released, AloneMeansAlone, Holding
<1> QED
  BY <1>1, <1>2

\* A handler that marks waits while the pass holds its conversation.
LEMMA MarksGood ==
    ASSUME DeskInv, NEW c \in Changing,
           BeginErase(c) \/ EndErase(c) \/ BeginOwner(c) \/ EndOwner(c)
    PROVE  DeskInv'
<1> USE DEF DeskInv, TypeOK, lockVars, passVars, SyncTypeOK, LockTypeOK, Stages
<1>1. c \in Conversation
  BY WaitersAssumption
<1>2. CASE BeginErase(c)
  BY <1>1, <1>2, HandlersGood DEF BeginErase, Settling, AloneMeansAlone, Holding
<1>3. CASE EndErase(c)
  BY <1>1, <1>3, HandlersGood DEF EndErase, AloneMeansAlone, Holding
<1>4. CASE BeginOwner(c)
  BY <1>1, <1>4, HandlersGood DEF BeginOwner, Settling, AloneMeansAlone, Holding
<1>5. CASE EndOwner(c)
  BY <1>1, <1>5, HandlersGood DEF EndOwner, AloneMeansAlone, Holding
<1> QED
  BY <1>2, <1>3, <1>4, <1>5

-------------------------------------------------------------------------------
(* The theorems *)

LEMMA DeskInit == Init => DeskInv
<1> SUFFICES ASSUME Init
             PROVE  DeskInv
  OBVIOUS
<1> USE DEF Init, LockInit, SyncInit
<1>1. LockTypeOK /\ DeferredIsLocked
  BY DEF LockTypeOK, DeferredIsLocked
<1>2. NoPass.on = {} /\ NoRequest.for = {} /\ Idle.at # "waiting"
  BY DEF NoPass, NoRequest, Idle
<1>3. SyncTypeOK
  BY <1>2, FS_EmptySet DEF SyncTypeOK, Stages
<1> QED
  BY <1>1, <1>2, <1>3
     DEF DeskInv, TypeOK, AloneMeansAlone, Holding, OnePromise, RunningServes,
         QueuedServes, StaleIsCut

LEMMA DeskStep == DeskInv /\ [Next]_vars => DeskInv'
<1> SUFFICES ASSUME DeskInv, [Next]_vars
             PROVE  DeskInv'
  OBVIOUS
<1>1. CASE Next
  BY <1>1, LockStepGood, AskGood, PassStepGood, SendsGood, PanelsGood, MarksGood
     DEF Next
<1>2. CASE UNCHANGED vars
  BY <1>2
     DEF vars, lockVars, passVars, markVars, DeskInv, TypeOK, LockTypeOK, SyncTypeOK,
         AloneMeansAlone, Holding, DeferredIsLocked, OnePromise, RunningServes,
         QueuedServes, StaleIsCut
<1> QED
  BY <1>1, <1>2

LEMMA DeskInvHolds == Spec => []DeskInv
  BY DeskInit, DeskStep, PTL DEF Spec

\* The lock, the coordinator and the handlers keep the state well formed, the
\* calls that wait included: each waits for one pass.
THEOREM DeskTypeCorrect == Spec => []TypeOK
<1>1. DeskInv => TypeOK
  BY DEF DeskInv
<1> QED
  BY <1>1, DeskInvHolds, PTL

\* A deletion or a change of owner never works beside the pass, whatever the
\* number of conversations and the order in which marks and passes come.
THEOREM WhoWaitedIsAlone == Spec => []AloneMeansAlone
<1>1. DeskInv => AloneMeansAlone
  BY DEF DeskInv
<1> QED
  BY <1>1, DeskInvHolds, PTL

-------------------------------------------------------------------------------
(* What a step may not do *)

\* Only the step that writes moves a pass from asking to writing.
LEMMA OnlyWriteWrites ==
    ASSUME DeskInv, [Next]_vars, running.at = "asking", running'.at = "writing"
    PROVE  \E c \in Conversation : Write(c)
<1> USE DEF DeskInv, TypeOK
<1>1. running # NoPass /\ running \in Pass
  BY DEF SyncTypeOK, NoPass
<1>2. running' # running
  OBVIOUS
<1>3. CASE LockNext
  <2>1. running' = Aborted
    BY <1>2, <1>3 DEF LockNext, SeesLock
  <2> QED
    BY <1>1, <2>1 DEF Aborted, Pass
<1>4. ASSUME NEW call \in Call, Ask(call, Wants[call])
      PROVE  FALSE
  <2>1. running' = [running EXCEPT !.late = @ \cup {call}]
    BY <1>1, <1>4 DEF Ask
  <2> QED
    BY <1>1, <2>1 DEF Pass
<1>5. CASE PassStep
  <2>1. ASSUME NEW c \in Conversation, Take(c) \/ LetGo(c)
        PROVE  FALSE
    BY <1>1, <2>1 DEF Take, LetGo, Pass
  <2>2. CASE TurnToMedia \/ EndPass
    BY <2>2 DEF TurnToMedia, EndPass
  <2> QED
    BY <1>5, <2>1, <2>2 DEF PassStep
<1>6. ASSUME UNCHANGED passVars
      PROVE  FALSE
  BY <1>2, <1>6 DEF passVars
<1> QED
  BY <1>3, <1>4, <1>5, <1>6
     DEF Next, vars, StartSend, SaveReply, EndSend, BeginErase, EndErase, BeginOwner,
         EndOwner, StartPanel, EndPanel

\* However quickly the vault is opened again, a pass from before its lock
\* writes nothing.
THEOREM OldPassesWriteNothing == Spec => PassDiesWithItsSession
<1>1. ASSUME DeskInv, [Next]_vars
      PROVE  running.at = "asking" /\ running'.at = "writing" => ~running.stale
  <2>1. SUFFICES ASSUME running.at = "asking", running'.at = "writing"
                 PROVE  ~running.stale
    OBVIOUS
  <2>2. PICK c \in Conversation : Write(c)
    BY <1>1, <2>1, OnlyWriteWrites
  <2>3. running # NoPass /\ ~running.cut
    BY <2>1, <2>2 DEF Write, Halted, NoPass
  <2> QED
    BY <1>1, <2>3 DEF DeskInv, StaleIsCut
<1> QED
  BY <1>1, DeskInvHolds, PTL DEF Spec, PassDiesWithItsSession

\* Calls are answered where a pass ends and nowhere else.
LEMMA OnlyEndsAnswer ==
    ASSUME DeskInv, [Next]_vars, NEW c \in Call,
           calls[c].at = "waiting", calls'[c] = Idle
    PROVE  EndPass
<1>1. calls'[c] # calls[c] /\ calls \in [Call -> [at : {"waiting"}, wants : Scope] \cup {Idle}]
  BY DEF Idle, DeskInv, TypeOK, SyncTypeOK
<1>2. ASSUME NEW call \in Call, Ask(call, Wants[call])
      PROVE  FALSE
  BY <1>1, <1>2 DEF Ask, Idle
<1>3. ASSUME UNCHANGED calls
      PROVE  FALSE
  BY <1>1, <1>3
<1>4. CASE PassStep
  BY <1>3, <1>4 DEF PassStep, Take, Write, LetGo, TurnToMedia
<1> QED
  BY <1>2, <1>3, <1>4
     DEF Next, vars, passVars, LockNext, StartSend, SaveReply, EndSend, BeginErase,
         EndErase, BeginOwner, EndOwner, StartPanel, EndPanel

\* Whoever asks for a synchronisation gets a pass that began after the call and
\* covers what it asked for, or is refused because the vault is closed.
THEOREM CallsGetALaterPass == Spec => ServedByALaterPass
<1>1. ASSUME DeskInv, [Next]_vars, NEW c \in Call,
             calls[c].at = "waiting", calls'[c] = Idle
      PROVE  \/ /\ c \in running.for \ running.late
                /\ calls[c].wants \subseteq running.scope
             \/ c \in queued.for /\ ~open
  <2>1. EndPass
    BY <1>1, OnlyEndsAnswer
  <2>2. running # NoPass
    BY <2>1 DEF EndPass
  <2>3. c \in running.for \/ (c \in queued.for /\ ~open)
    BY <1>1, <2>1 DEF EndPass, Ends, Answered, Idle
  <2> QED
    BY <1>1, <2>2, <2>3 DEF DeskInv, RunningServes
<1>2. DeskInv /\ [Next]_vars =>
         [\A c \in Call : calls[c].at = "waiting" /\ calls'[c] = Idle =>
             \/ /\ c \in running.for \ running.late
                /\ calls[c].wants \subseteq running.scope
             \/ c \in queued.for /\ ~open]_vars
  BY <1>1
<1> QED
  BY <1>2, DeskInvHolds, PTL DEF Spec, ServedByALaterPass

-------------------------------------------------------------------------------
(* The graces *)

\* Where a lock is deferred or carried out, what the user waits for decides.
LEMMA ClosedOverItsWaits ==
    ASSUME LockTypeOK, NEW p \in Pending, ~Defers(p), NEW w \in waits, Counts(w)
    PROVE  /\ w.kind = "reply" => p.reply = "over"
           /\ w.kind = "turn-image" =>
                 p.image = "over" \/ (p.reply = "over" /\ Active({"reply"}))
<1>1. w.kind = "reply" => Active({"reply"})
  BY DEF Active
<1>2. w.kind = "turn-image" => Active({"turn-image"})
  BY DEF Active
<1> QED
  BY <1>1, <1>2 DEF Defers, Seen, Pending

\* What the user waits for is taken away by the clock or by Win+L only when its
\* grace is over, or, for what has none, under a locked screen.
THEOREM GracesAreKept == Spec => GraceIsKept
<1> DEFINE Due(w) ==
       CASE w.kind = "reply" -> pending.reply = "over"
         [] w.kind = "turn-image" ->
               pending.image = "over" \/ (pending.reply = "over" /\ Active({"reply"}))
         [] w.kind = "image" -> screen'
<1>1. ASSUME DeskInv, Tick \/ LockScreen, open, ~open', NEW w \in waits, Counts(w)
      PROVE  Due(w)
  <2>1. LockTypeOK /\ w \in Wait
    BY <1>1 DEF DeskInv, TypeOK, LockTypeOK
  <2>2. w.kind \in {"reply", "turn-image", "image"}
    BY <2>1 DEF Wait
  <2>3. Active({"reply", "turn-image", "image"})
    BY <1>1, <2>2 DEF Active
  <2>4. CASE Tick /\ pending # NotPending
    <3>1. pending \in Pending /\ ~Defers(pending) /\ screen'
      BY <1>1, <2>1, <2>4
         DEF LockTypeOK, Tick, DeferOrClose, DeskInv, DeferredIsLocked
    <3> QED
      BY <1>1, <2>1, <2>2, <3>1, ClosedOverItsWaits
  <2>5. CASE Tick /\ pending = NotPending
    BY <2>3, <2>5 DEF Tick
  <2>6. CASE LockScreen
    <3>1. Deferral \in Pending /\ ~Defers(Deferral) /\ screen'
      BY <1>1, <2>6 DEF LockScreen, DeferOrClose, Deferral, Pending
    <3>2. Deferral.reply = "within" /\ Deferral.image = "unseen"
      BY DEF Deferral
    <3> QED
      BY <1>1, <2>1, <2>2, <3>1, <3>2, ClosedOverItsWaits
  <2> QED
    BY <1>1, <2>4, <2>5, <2>6
<1>2. DeskInv /\ [Next]_vars =>
         [(Tick \/ LockScreen) /\ open /\ ~open' => \A w \in waits : Counts(w) => Due(w)]_vars
  BY <1>1
<1> QED
  BY <1>2, DeskInvHolds, PTL DEF Spec, GraceIsKept
===============================================================================
