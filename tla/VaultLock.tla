------------------------------- MODULE VaultLock -------------------------------
(***************************************************************************)
(* When the vault of a computer is open: the session of VaultService, the   *)
(* waits of the user that keep it open, and the coordinator that closes it  *)
(* when nobody is there, when Windows is locked, and by a clock.            *)
(*                                                                         *)
(* Time is kept as what has run out.  A period that has begun (idleness, a  *)
(* wait, each of the two graces of a deferred lock) may elapse at any       *)
(* moment, and the clock's turns come in between.                           *)
(***************************************************************************)
EXTENDS Naturals, FiniteSets

CONSTANT Waiter   \* who asks for what the user waits for

VARIABLES
    open,     \* the master key is in memory
    opening,  \* an unlock whose key is being derived
    screen,   \* Windows is locked
    never,    \* autoLockMinutes is 0: no limit of inactivity
    idle,     \* the limit of inactivity has passed
    waits,    \* userWaits
    pending   \* the coordinator's deferred lock

lockVars == <<open, opening, screen, never, idle, waits, pending>>

\* old: longer than MAX_USER_WAIT_MS
Wait == [by : Waiter, kind : {"reply", "turn-image", "image"}, old : BOOLEAN]

\* the grace of the replies, and that of the image of a turn, which only begins
\* when no reply is left
Pending == [reply : {"within", "over"}, image : {"unseen", "within", "over"}]
Deferral == [reply |-> "within", image |-> "unseen"]
NotPending == [reply |-> "none", image |-> "none"]

LockTypeOK ==
    /\ {open, opening, screen, never, idle} \subseteq BOOLEAN
    /\ waits \subseteq Wait
    /\ pending \in Pending \cup {NotPending}
    \* a closed vault keeps neither a wait nor a deferred lock
    /\ ~open => waits = {} /\ pending = NotPending /\ ~idle

LockInit ==
    /\ open = FALSE
    /\ opening = FALSE
    /\ screen = FALSE
    /\ never \in BOOLEAN   \* the setting is in vault.json
    /\ idle = FALSE
    /\ waits = {}
    /\ pending = NotPending

-------------------------------------------------------------------------------
(* VaultService *)

\* fault for mutation runs: the waits stay
ClearedKeepingWaits == UNCHANGED waits

Cleared == waits' = {}

\* lock, and the coordinator's listener of it
Close ==
    /\ open' = FALSE
    /\ idle' = FALSE
    /\ Cleared
    /\ pending' = NotPending

\* adopt happens when the key is derived, whatever has passed since
BeginUnlock ==
    /\ ~open /\ ~opening /\ ~screen
    /\ opening' = TRUE
    /\ UNCHANGED <<open, screen, never, idle, waits, pending>>

EndUnlock ==
    /\ opening
    /\ opening' = FALSE
    /\ open' \in {open, TRUE}
    /\ idle' = FALSE
    /\ UNCHANGED <<screen, never, waits, pending>>

\* touch
Touch ==
    /\ open /\ ~screen
    /\ idle' = FALSE
    /\ UNCHANGED <<open, opening, screen, never, waits, pending>>

\* setAutoLockMinutes, which also touches
SetAutoLock(value) ==
    /\ open /\ ~screen
    /\ never' = value
    /\ idle' = FALSE
    /\ UNCHANGED <<open, opening, screen, waits, pending>>

\* beginUserWait: with the vault closed there is nothing to hold open
WithWait(set, who, kind) ==
    IF open THEN set \cup {[by |-> who, kind |-> kind, old |-> FALSE]} ELSE set

WaitsOf(who) == {w \in waits : w.by = who}

\* releasing a wait counts as activity, if the wait still exists
Released(who) == idle' = (idle /\ WaitsOf(who) = {})

\* fault for mutation runs: a wait holds the vault open without a limit
CountsForEver(w) == TRUE

Counts(w) == ~w.old

\* activeUserWaits
Active(kinds) == {w \in waits : w.kind \in kinds /\ Counts(w)} # {}

\* the manual lock, closing the window, suspending, leaving the account or Luxy
CloseNow ==
    /\ open
    /\ Close
    /\ UNCHANGED <<opening, screen, never>>

-------------------------------------------------------------------------------
(* VaultLockCoordinator *)

\* imageSince is set the first time that only an image is left
Seen(p) ==
    IF ~Active({"reply"}) /\ Active({"turn-image"}) /\ p.image = "unseen"
    THEN [p EXCEPT !.image = "within"]
    ELSE p

\* fault for mutation runs: only a reply defers the lock
DefersForReply(p) == Active({"reply"}) /\ p.reply = "within"

\* stillDeferred
Defers(p) ==
    \/ Active({"reply"}) /\ p.reply = "within"
    \/ ~Active({"reply"}) /\ Active({"turn-image"}) /\ Seen(p).image = "within"

\* with or without the grace, as the waits say
DeferOrClose(p) ==
    \/ /\ Defers(p)
       /\ pending' = Seen(p)
       /\ UNCHANGED <<open, idle, waits>>
    \/ /\ ~Defers(p)
       /\ Close

\* Win+L
LockScreen ==
    /\ ~screen
    /\ screen' = TRUE
    /\ IF open THEN DeferOrClose(Deferral)
       ELSE UNCHANGED <<open, idle, waits, pending>>
    /\ UNCHANGED <<opening, never>>

UnlockScreen ==
    /\ screen
    /\ screen' = FALSE
    /\ pending' = NotPending
    /\ idle' = (idle /\ pending = NotPending)
    /\ UNCHANGED <<open, opening, never, waits>>

\* tick: while a lock is deferred inactivity is not looked at; and tickAutoLock
Tick ==
    /\ open
    /\ \/ pending # NotPending /\ DeferOrClose(pending)
       \/ /\ pending = NotPending
          /\ ~never /\ idle /\ ~Active({"reply", "turn-image", "image"})
          /\ Close
    /\ UNCHANGED <<opening, screen, never>>

-------------------------------------------------------------------------------
(* Time *)

IdleElapses ==
    /\ open /\ ~idle /\ ~never
    /\ idle' = TRUE
    /\ UNCHANGED <<open, opening, screen, never, waits, pending>>

WaitElapses ==
    /\ \E w \in waits : ~w.old /\ waits' = (waits \ {w}) \cup {[w EXCEPT !.old = TRUE]}
    /\ UNCHANGED <<open, opening, screen, never, idle, pending>>

GraceElapses ==
    /\ \/ pending.reply = "within" /\ pending' = [pending EXCEPT !.reply = "over"]
       \/ pending.image = "within" /\ pending' = [pending EXCEPT !.image = "over"]
    /\ UNCHANGED <<open, opening, screen, never, idle, waits>>

LockStep ==
    \/ BeginUnlock \/ EndUnlock \/ Touch \/ CloseNow
    \/ \E value \in BOOLEAN : SetAutoLock(value)
    \/ LockScreen \/ UnlockScreen \/ Tick
    \/ IdleElapses \/ WaitElapses \/ GraceElapses
===============================================================================
