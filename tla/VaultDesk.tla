------------------------------- MODULE VaultDesk -------------------------------
(***************************************************************************)
(* The private half of the desktop: the handlers that send, delete, forget  *)
(* and change the owner of a conversation, between the lock of the vault    *)
(* and the synchronisation coordinator.  Each marks the conversation before *)
(* its first await and takes the mark away however it ends.                 *)
(***************************************************************************)
EXTENDS SyncCoordinator

CONSTANTS
    Chatting,  \* conversations whose user writes in them
    Changing   \* those that are erased or change their owner

ASSUME WaitersAssumption ==
    Chatting \subseteq Waiter /\ Chatting \cup Changing \subseteq Conversation

vars == <<lockVars, passVars, markVars>>

TypeOK == LockTypeOK /\ SyncTypeOK

Init == LockInit /\ SyncInit

-------------------------------------------------------------------------------
(* vaultConversationSend *)

\* the send writes nothing while it waits for its reply
StartSend(c) ==
    /\ open /\ ~screen
    /\ sending[c] = "no" /\ erasing[c] = "no" /\ owning[c] = "no"
    /\ sending' = [sending EXCEPT ![c] = "asking"]
    /\ waits' = WithWait(waits, c, "reply")
    /\ UNCHANGED <<open, opening, screen, never, idle, pending, passVars, erasing, owning>>

\* onReplySaved: the new wait before the old one is released.  Closing the vault
\* cancels no send: if it is open again, the reply is saved
SaveReply(c) ==
    /\ sending[c] = "asking" /\ open
    /\ sending' = [sending EXCEPT ![c] = "image"]
    /\ \E kind \in {"turn-image", "image"} :
          waits' = WithWait(waits \ WaitsOf(c), c, kind)
    /\ Released(c)
    /\ UNCHANGED <<open, opening, screen, never, pending, passVars, erasing, owning>>

\* with its image, with its reply alone, or without it
EndSend(c) ==
    /\ sending[c] # "no"
    /\ sending' = [sending EXCEPT ![c] = "no"]
    /\ waits' = waits \ WaitsOf(c)
    /\ Released(c)
    /\ UNCHANGED <<open, opening, screen, never, pending, passVars, erasing, owning>>

-------------------------------------------------------------------------------
(* whileUserWaits: an image asked for or approved from the panel *)

StartPanel(who) ==
    /\ open /\ ~screen
    /\ WaitsOf(who) = {}
    /\ waits' = WithWait(waits, who, "image")
    /\ UNCHANGED <<open, opening, screen, never, idle, pending, passVars, markVars>>

EndPanel(who) ==
    /\ WaitsOf(who) # {}
    /\ waits' = waits \ WaitsOf(who)
    /\ Released(who)
    /\ UNCHANGED <<open, opening, screen, never, pending, passVars, markVars>>

-------------------------------------------------------------------------------
(* vaultConversationDelete, vaultConversationMemoryForget and
   vaultConversationOwnerSet *)

\* looks at no owner change; neither does an owner change look at it
BeginErase(c) ==
    /\ sending[c] = "no" /\ erasing[c] = "no"
    /\ erasing' = [erasing EXCEPT ![c] = Settling(c)]
    /\ UNCHANGED <<lockVars, passVars, sending, owning>>

EndErase(c) ==
    /\ erasing[c] = "alone"
    /\ erasing' = [erasing EXCEPT ![c] = "no"]
    /\ UNCHANGED <<lockVars, passVars, sending, owning>>

BeginOwner(c) ==
    /\ open
    /\ sending[c] = "no" /\ owning[c] = "no"
    /\ owning' = [owning EXCEPT ![c] = Settling(c)]
    /\ UNCHANGED <<lockVars, passVars, sending, erasing>>

EndOwner(c) ==
    /\ owning[c] = "alone"
    /\ owning' = [owning EXCEPT ![c] = "no"]
    /\ UNCHANGED <<lockVars, passVars, sending, erasing>>

-------------------------------------------------------------------------------
LockNext == LockStep /\ SeesLock /\ UNCHANGED <<queued, calls, markVars>>

Next ==
    \/ LockNext
    \/ \E call \in Call : Ask(call, Wants[call])
    \/ PassStep
    \/ \E c \in Chatting : StartSend(c) \/ SaveReply(c) \/ EndSend(c)
    \/ \E c \in Changing :
          BeginErase(c) \/ EndErase(c) \/ BeginOwner(c) \/ EndOwner(c)
    \/ \E who \in Waiter \ Conversation : StartPanel(who) \/ EndPanel(who)

(***************************************************************************)
(* Time passes, the interval fires, and every await of the pass ends.       *)
(* Nobody has to release a wait or to come back.                            *)
(***************************************************************************)
Fairness ==
    /\ WF_vars(Tick /\ SeesLock /\ UNCHANGED <<queued, calls, markVars>>)
    /\ WF_vars(IdleElapses /\ UNCHANGED <<passVars, markVars>>)
    /\ WF_vars(WaitElapses /\ UNCHANGED <<passVars, markVars>>)
    /\ WF_vars(GraceElapses /\ UNCHANGED <<passVars, markVars>>)
    /\ WF_vars(PassStep)

Spec == Init /\ [][Next]_vars
FairSpec == Spec /\ Fairness

-------------------------------------------------------------------------------
(* Properties *)

\* Who waited for the pass to let go works alone: while a conversation is being
\* erased the pass does not hold it at all, and while its owner changes it does
\* not hold its turns (sync-coordinator.ts: "la pasada no empieza una
\* conversacion que ya tiene uno de esos en curso").
AloneMeansAlone ==
    \A c \in Conversation :
       /\ erasing[c] = "alone" => ~Holding(c)
       /\ owning[c] = "alone" /\ Holding(c) => running.part = "media"

\* A pass dies with the session of the vault it began in: opened again, however
\* quickly, the vault is never written by a pass from before the lock.
PassDiesWithItsSession ==
    [][running.at = "asking" /\ running'.at = "writing" => ~running.stale]_vars

\* A call is answered by a pass that began after it was made and covers what it
\* asked for, or refused because the vault is closed: it never gets the result
\* of a pass that may have gone by its conversation before.
ServedByALaterPass ==
    [][\A c \in Call : calls[c].at = "waiting" /\ calls'[c] = Idle =>
          \/ /\ c \in running.for \ running.late
             /\ calls[c].wants \subseteq running.scope
          \/ c \in queued.for /\ ~open]_vars

\* Neither the clock nor Win+L takes away what the user waits for, except what
\* the graces and the cap of a wait allow.
GraceIsKept ==
    [][(Tick \/ LockScreen) /\ open /\ ~open' =>
          \A w \in waits : Counts(w) =>
             CASE w.kind = "reply" -> pending.reply = "over"
               [] w.kind = "turn-image" ->
                     pending.image = "over" \/ (pending.reply = "over" /\ Active({"reply"}))
               [] w.kind = "image" -> screen']_vars

\* The pass lets everyone go: whoever waits for a conversation gets it, and every
\* call is answered, through locks, failures and other calls.
NobodyWaitsForEver ==
    /\ \A c \in Changing :
          []<>(erasing[c] # "waiting") /\ []<>(owning[c] # "waiting")
    /\ \A call \in Call : []<>(calls[call] = Idle)

\* With Windows locked for good the vault ends up closed, even if a send never
\* ends and its wait is never released; and even if its unlocking ended after
\* Windows was locked, unless there is no limit of inactivity.
ClosesInTheEnd ==
    <>[]screen => <>[](~open \/ (never /\ pending = NotPending))
===============================================================================
