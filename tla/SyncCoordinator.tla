---------------------------- MODULE SyncCoordinator ----------------------------
(***************************************************************************)
(* Which synchronisation pass runs when, and who waits for it: one pass at  *)
(* a time and one more behind it, the conversation the pass holds, and the  *)
(* handlers that wait until it lets go.                                     *)
(*                                                                         *)
(* A pass works through the turns of the conversations in its scope, and    *)
(* then through their media; what it does with each is VaultSync.  Here a   *)
(* conversation is asked about and, if it may, written.                     *)
(***************************************************************************)
EXTENDS VaultLock

CONSTANTS
    Conversation,  \* conversations of this computer
    Call,          \* calls of the synchronisation button
    Wants          \* what each asks for: everything, or one conversation

ASSUME CallsAssumption ==
    Wants \in [Call -> {Conversation} \cup {{c} : c \in Conversation}]

VARIABLES
    running,  \* the pass
    queued,   \* the request behind it
    calls,    \* the promise each call waits for, and what it wants
    sending,  \* sendInFlight: how far the send of each conversation has come
    erasing,  \* erasingInFlight: a deletion, or the memory being forgotten
    owning    \* ownerChangeInFlight

passVars == <<running, queued, calls>>
markVars == <<sending, erasing, owning>>

Scope == SUBSET Conversation

\* on is the conversation it holds; cut is its abort signal; late and stale are
\* history: the calls made since it began, and whether the vault was closed
Pass == [ scope : Scope, for : SUBSET Call, part : {"turns", "media"},
          todo : SUBSET Conversation, on : SUBSET Conversation,
          at : {"working", "asking", "writing"}, cut : BOOLEAN,
          late : SUBSET Call, stale : BOOLEAN ]
NoPass == [at |-> "idle", on |-> {}]

Request == [all : BOOLEAN, ids : SUBSET Conversation, for : SUBSET Call]
NoRequest == [for |-> {}]

Idle == [at |-> "idle", wants |-> {}]

Stages == {"no", "waiting", "alone"}

SyncTypeOK ==
    /\ running \in Pass \cup {NoPass}
    /\ queued \in Request \cup {NoRequest}
    /\ calls \in [Call -> [at : {"waiting"}, wants : Scope] \cup {Idle}]
    /\ sending \in [Conversation -> {"no", "asking", "image"}]
    /\ erasing \in [Conversation -> Stages]
    /\ owning \in [Conversation -> Stages]
    \* one conversation at a time, and every waiting call has its promise
    /\ Cardinality(running.on) <= 1
    /\ \A c \in Call :
          calls[c].at = "waiting" <=>
             c \in queued.for \cup (IF running = NoPass THEN {} ELSE running.for)

SyncInit ==
    /\ running = NoPass
    /\ queued = NoRequest
    /\ calls = [c \in Call |-> Idle]
    /\ sending = [c \in Conversation |-> "no"]
    /\ erasing = [c \in Conversation |-> "no"]
    /\ owning = [c \in Conversation |-> "no"]

Holding(c) == c \in running.on

-------------------------------------------------------------------------------
(* One flight: request, start and execute *)

Started(scope, for) ==
    [ scope |-> scope, for |-> for, part |-> "turns", todo |-> scope, on |-> {},
      at |-> "working", cut |-> FALSE, late |-> {}, stale |-> FALSE ]

\* request.  A call that finds a pass waits for the next one
Ask(call, scope) ==
    /\ open
    /\ calls[call] = Idle
    /\ calls' = [calls EXCEPT ![call] = [at |-> "waiting", wants |-> scope]]
    /\ \/ /\ running = NoPass
          /\ running' = Started(scope, {call})
          /\ UNCHANGED queued
       \/ /\ running # NoPass
          /\ running' = [running EXCEPT !.late = @ \cup {call}]
          /\ LET old == IF queued = NoRequest
                        THEN [all |-> FALSE, ids |-> {}, for |-> {}] ELSE queued
             IN queued' = [ all |-> old.all \/ scope = Conversation,
                            ids |-> IF scope = Conversation THEN old.ids ELSE old.ids \cup scope,
                            for |-> old.for \cup {call} ]
    /\ UNCHANGED <<lockVars, markVars>>

\* fault for mutation runs: the last conversation asked for
NextScopeOfOne(q) == IF q.all THEN Conversation ELSE {CHOOSE c \in q.ids : TRUE}

\* several conversations make a pass of everything
NextScope(q) == IF q.all \/ Cardinality(q.ids) # 1 THEN Conversation ELSE q.ids

Answered(set) == calls' = [c \in Call |-> IF c \in set THEN Idle ELSE calls[c]]

\* the pass ends, however it ends; the next begins, unless the vault is closed
\* and its calls are refused
Ends ==
    \/ /\ queued = NoRequest
       /\ running' = NoPass
       /\ Answered(running.for)
       /\ UNCHANGED queued
    \/ /\ queued # NoRequest /\ open
       /\ running' = Started(NextScope(queued), queued.for)
       /\ queued' = NoRequest
       /\ Answered(running.for)
    \/ /\ queued # NoRequest /\ ~open
       /\ running' = NoPass
       /\ queued' = NoRequest
       /\ Answered(running.for \cup queued.for)

\* the lock's listener aborts the pass
Aborted == [running EXCEPT !.cut = TRUE, !.stale = TRUE]
SeesLock ==
    IF open /\ ~open' /\ running # NoPass THEN running' = Aborted ELSE UNCHANGED running

-------------------------------------------------------------------------------
(* The pass: what it may hold and write *)

\* fault for mutation runs: an owner change does not make a conversation busy
BusyWithoutOwner(c, part) == sending[c] # "no" \/ erasing[c] # "no"

\* isBusy
Busy(c, part) ==
    \/ erasing[c] # "no"
    \/ part = "turns" /\ (sending[c] # "no" \/ owning[c] # "no")

\* fault for mutation runs: only asks whether the vault is open
HaltedIfClosed == ~open

Halted == running.cut \/ ~open

\* fault for mutation runs: wakes one of those who wait
WokenOnce(c) ==
    IF erasing[c] = "waiting"
    THEN erasing' = [erasing EXCEPT ![c] = "alone"] /\ UNCHANGED owning
    ELSE /\ owning' = [owning EXCEPT ![c] = IF @ = "waiting" THEN "alone" ELSE @]
         /\ UNCHANGED erasing

\* hold lets go and wakes everyone who waits
Woken(c) ==
    /\ erasing' = [erasing EXCEPT ![c] = IF @ = "waiting" THEN "alone" ELSE @]
    /\ owning' = [owning EXCEPT ![c] = IF @ = "waiting" THEN "alone" ELSE @]

\* the next conversation: held, unless it is busy
Take(c) ==
    /\ running # NoPass
    /\ running.at = "working" /\ c \in running.todo
    /\ ~Halted
    /\ running' = IF Busy(c, running.part)
                  THEN [running EXCEPT !.todo = @ \ {c}]
                  ELSE [running EXCEPT !.todo = @ \ {c}, !.on = {c}, !.at = "asking"]
    /\ UNCHANGED <<lockVars, queued, calls, markVars>>

\* the gateway has answered; the check and the write have no await between them,
\* but a medium and the sealed state are written in several steps
Write(c) ==
    /\ Holding(c) /\ running.at = "asking"
    /\ ~Halted
    /\ ~Busy(c, running.part)
    /\ running' = [running EXCEPT !.at = "writing"]
    /\ UNCHANGED <<lockVars, queued, calls, markVars>>

\* after the write, or without one: it was busy, it failed, it had nothing to do
LetGo(c) ==
    /\ Holding(c)
    /\ running' = [running EXCEPT !.at = "working", !.on = {}]
    /\ Woken(c)
    /\ UNCHANGED <<lockVars, queued, calls, sending>>

TurnToMedia ==
    /\ running # NoPass
    /\ running.at = "working" /\ running.todo = {} /\ running.part = "turns"
    /\ ~Halted
    /\ running' = [running EXCEPT !.part = "media", !.todo = running.scope]
    /\ UNCHANGED <<lockVars, queued, calls, markVars>>

\* everything done, the vault closed, or an error that stops the whole pass
EndPass ==
    /\ running # NoPass
    /\ running.at = "working"
    /\ Ends
    /\ UNCHANGED <<lockVars, markVars>>

PassStep ==
    \/ \E c \in Conversation : Take(c) \/ Write(c) \/ LetGo(c)
    \/ TurnToMedia \/ EndPass

-------------------------------------------------------------------------------
(* settled *)

Settling(c) == IF Holding(c) THEN "waiting" ELSE "alone"
===============================================================================
