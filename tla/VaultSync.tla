------------------------------- MODULE VaultSync -------------------------------
(***************************************************************************)
(* One private conversation kept in step between several computers by way   *)
(* of the gateway: the desktop's synchronisation pass, the sends and the    *)
(* deletion that run beside it, and the gateway's handler of records/push.  *)
(*                                                                         *)
(* A conversation is a log of sealed turns.  A turn has a sequence and an   *)
(* identifier that nobody repeats; the server holds it under both.  Turns   *)
(* are never opened here: two turns are the same if their identifiers are.  *)
(*                                                                         *)
(* A pass is a chain of steps between its awaits.  What it read before an   *)
(* await (the tombstones, the list, the manifest, the view of the file) is  *)
(* kept in its record, and sends and deletions run in between.  A request   *)
(* to the gateway outlives the pass that sent it.                           *)
(***************************************************************************)
EXTENDS Naturals, FiniteSets, Sequences

CONSTANTS
    Device,      \* computers with the vault of the account
    Creator,     \* the one whose user started the conversation
    Writer,      \* those that are not replicas: a replica cannot write yet
    Deleter,     \* those where the users delete it
    Unfit,       \* turns that cannot travel: too large for a request, or in a
                 \* form that the contract does not have
    BatchSize,   \* turns of a push (pushMaxRecords)
    FetchChunk,  \* turns of a records/fetch
    MaxRounds,   \* rounds of one pass (MAX_ROUNDS)
    MaxTurns,    \* bound: turns ever written, and so sequences
    MaxFaults    \* bound: crashes, passes cut short and requests lost

ASSUME DevicesAssumption ==
    Creator \in Writer /\ Writer \subseteq Device /\ Deleter \subseteq Device
ASSUME SizesAssumption == {BatchSize, FetchChunk, MaxRounds, MaxTurns} \subseteq Nat \ {0}
ASSUME FaultsAssumption == MaxFaults \in Nat
ASSUME UnfitAssumption == Unfit \subseteq Device \X (1..MaxTurns)

VARIABLES
    chat,      \* the conversation has its row in vault_conversations
    server,    \* vault_records of the conversation, by sequence
    pushes,    \* records/push requests the gateway has not finished
    local,     \* the conversation's file on each device, by sequence
    send,      \* the send in flight on each device
    mine,      \* the user's turn of that send, while it has no reply
    tomb,      \* devices whose sync-deleted.json has the conversation
    erasing,   \* how far the deletion on each device has come
    entry,     \* the conversation's entry in the sealed sync state
    pass,      \* the pass of each device
    born,      \* history: of each turn ever written, the turn before it
    retired,   \* history: user's turns taken back for want of a reply
    faults     \* how many faults the environment has spent

gatewayVars == <<chat, server, pushes>>
sendVars == <<send, mine, born, retired>>
eraseVars == <<tomb, erasing>>
vars == <<gatewayVars, local, sendVars, eraseVars, entry, pass, faults>>

Sequence == 0..(MaxTurns - 1)
Turn == Device \X (1..MaxTurns)
None == <<>>

\* the conversation's first turn, which a crash has left without its reply
First == <<Creator, 1>>

\* a log: a turn, or None, at each sequence
Log == [Sequence -> Turn \cup {None}]
Empty == [n \in Sequence |-> None]

Held(log) == {n \in Sequence : log[n] # None}

\* log without the sequences in set, and with those of other
Without(log, set) == [n \in Sequence |-> IF n \in set THEN None ELSE log[n]]
Joined(log, other) == [n \in Sequence |-> IF other[n] # None THEN other[n] ELSE log[n]]

\* the first k turns of log
FirstOf(log, k) ==
    Without(log, {n \in Held(log) : Cardinality({i \in Held(log) : i < n}) >= k})

\* nextSequence: one more than the largest in the file
NextSequence(log) ==
    CHOOSE n \in 0..MaxTurns :
        /\ \A i \in Held(log) : i < n
        /\ n > 0 => n - 1 \in Held(log)

\* lastVaultRecordBefore, baseFor: the last turn before sequence n
Before(log, n) ==
    LET earlier == {i \in Held(log) : i < n}
    IN IF earlier = {} THEN None
       ELSE LET last == CHOOSE i \in earlier : \A k \in earlier : k <= i
            IN <<last, log[last]>>

Start(log) == CHOOSE n \in Held(log) : \A i \in Held(log) : n <= i

(***************************************************************************)
(* A pass.  at is the await it stands at; here says whether the file was    *)
(* there when it began; known, whether the server's list had the            *)
(* conversation; there is what it believes the server has; todo is what it  *)
(* still has to fetch or to push.                                           *)
(***************************************************************************)
Stages == {"idle", "listing", "entering", "manifest", "compare", "fetch",
           "next", "push"}

Pass == [ at : Stages, here : BOOLEAN, known : BOOLEAN,
          there : Log, todo : Log, round : 0..(MaxRounds - 1) ]

NoPass == [ at |-> "idle", here |-> FALSE, known |-> FALSE,
            there |-> Empty, todo |-> Empty, round |-> 0 ]

Push == [ from : Device, base : {None} \cup (Sequence \X Turn), turns : Log,
          step : {"owner", "ensure", "base", "insert", "classify", "explain"},
          seen : Log, client : {"waiting", "gone"} ]

TypeOK ==
    /\ chat \in BOOLEAN
    /\ server \in Log
    /\ pushes \subseteq Push
    /\ local \in [Device -> Log]
    /\ send \in [Device -> {"idle", "started", "asked"}]
    /\ mine \in [Device -> Turn \cup {None}]
    /\ tomb \subseteq Device
    /\ erasing \in [Device -> {"no", "waiting", "buried", "erased"}]
    /\ entry \in [Device -> {"none", "synced", "frozen"}]
    /\ pass \in [Device -> Pass]
    /\ DOMAIN born \subseteq Turn
    /\ retired \subseteq DOMAIN born
    /\ faults \in 0..MaxFaults
    /\ \A d \in Device :
          pass[d].at = "push" <=> \E h \in pushes : h.from = d /\ h.client = "waiting"

Init ==
    /\ chat = FALSE
    /\ server = Empty
    /\ pushes = {}
    /\ local = [d \in Device |-> IF d = Creator THEN [Empty EXCEPT ![0] = First] ELSE Empty]
    /\ send = [d \in Device |-> "idle"]
    /\ mine = [d \in Device |-> None]
    /\ tomb = {}
    /\ erasing = [d \in Device |-> "no"]
    /\ entry = [d \in Device |-> "none"]
    /\ pass = [d \in Device |-> NoPass]
    /\ born = [t \in {First} |-> None]
    /\ retired = {}
    /\ faults = 0

Fault == faults < MaxFaults /\ faults' = faults + 1

\* isBusy(conversation, 'turns')
Busy(d) == send[d] # "idle" \/ erasing[d] # "no"

\* hold: the pass is touching the conversation
Holding(d) == pass[d].at \notin {"idle", "listing", "entering"}

-------------------------------------------------------------------------------
(* Sends: vaultConversationSend and runPrivateTurn *)

\* assertMayWrite
MayWrite(d) == d \in Writer /\ d \notin tomb

\* the screen offers the conversations that have a file here
Shown(d) == Held(local[d]) # {}

StartSend(d) ==
    /\ ~Busy(d)
    /\ MayWrite(d) /\ Shown(d)
    /\ send' = [send EXCEPT ![d] = "started"]
    /\ UNCHANGED <<gatewayVars, local, mine, born, retired, eraseVars, entry, pass, faults>>

\* appendTurn
Appended(d, turn) ==
    LET n == NextSequence(local[d]) IN
    /\ Cardinality(DOMAIN born) < MaxTurns
    /\ local' = [local EXCEPT ![d][n] = turn]
    /\ born' = [t \in DOMAIN born \cup {turn} |->
                   IF t # turn THEN born[t]
                   ELSE IF n = 0 THEN None ELSE local[d][n - 1]]

NewTurn(d) == <<d, 1 + Cardinality({t \in DOMAIN born : t[1] = d})>>

WriteMessage(d) ==
    /\ send[d] = "started" /\ MayWrite(d)
    /\ Appended(d, NewTurn(d))
    /\ send' = [send EXCEPT ![d] = "asked"]
    /\ mine' = [mine EXCEPT ![d] = NewTurn(d)]
    /\ UNCHANGED <<gatewayVars, retired, eraseVars, entry, pass, faults>>

WriteReply(d) ==
    /\ send[d] = "asked" /\ MayWrite(d)
    /\ Appended(d, NewTurn(d))
    /\ send' = [send EXCEPT ![d] = "idle"]
    /\ mine' = [mine EXCEPT ![d] = None]
    /\ UNCHANGED <<gatewayVars, retired, eraseVars, entry, pass, faults>>

\* the send ends without a reply; retireUnansweredTurn takes its turn back,
\* which is the last line of the file
EndSend(d) ==
    /\ send[d] # "idle"
    /\ send' = [send EXCEPT ![d] = "idle"]
    /\ mine' = [mine EXCEPT ![d] = None]
    /\ IF mine[d] = None THEN UNCHANGED <<local, retired>>
       ELSE /\ local' = [local EXCEPT ![d] = Without(@, {NextSequence(@) - 1})]
            /\ retired' = retired \cup {mine[d]}
    /\ UNCHANGED <<gatewayVars, born, eraseVars, entry, pass, faults>>

-------------------------------------------------------------------------------
(* Deleting the conversation on one computer: vaultConversationDelete *)

BeginDelete(d) ==
    /\ d \in Deleter
    /\ ~Busy(d)
    /\ Held(local[d]) # {}
    /\ erasing' = [erasing EXCEPT ![d] = "waiting"]
    /\ UNCHANGED <<gatewayVars, local, sendVars, tomb, entry, pass, faults>>

\* settled, and then the tombstone before anything is deleted
Bury(d) ==
    /\ erasing[d] = "waiting"
    /\ ~Holding(d)
    /\ tomb' = tomb \cup {d}
    /\ erasing' = [erasing EXCEPT ![d] = "buried"]
    /\ UNCHANGED <<gatewayVars, local, sendVars, entry, pass, faults>>

\* after the media, the file
EraseFile(d) ==
    /\ erasing[d] = "buried"
    /\ local' = [local EXCEPT ![d] = Empty]
    /\ erasing' = [erasing EXCEPT ![d] = "erased"]
    /\ UNCHANGED <<gatewayVars, sendVars, tomb, entry, pass, faults>>

\* forgetConversation
EndDelete(d) ==
    /\ erasing[d] = "erased"
    /\ entry' = [entry EXCEPT ![d] = "none"]
    /\ erasing' = [erasing EXCEPT ![d] = "no"]
    /\ UNCHANGED <<gatewayVars, local, sendVars, tomb, pass, faults>>

-------------------------------------------------------------------------------
(* The pass, up to the comparison: runPass, syncConversation, syncRound *)

Goes(d, fields) == pass' = [pass EXCEPT ![d] = fields]

Stops(d) == Goes(d, NoPass)

\* of everything, or of this conversation only, which is then taken as known;
\* a conversation with a tombstone is left out of it
BeginPass(d, mode) ==
    /\ pass[d].at = "idle"
    /\ d \notin tomb
    /\ Goes(d, IF mode = "all"
               THEN [NoPass EXCEPT !.at = "listing", !.here = Held(local[d]) # {}]
               ELSE [NoPass EXCEPT !.at = "entering", !.known = TRUE])
    /\ UNCHANGED <<gatewayVars, local, sendVars, eraseVars, entry, faults>>

\* the union of the conversations here and on the server
Wanted(d) == pass[d].here \/ chat

\* listServerConversations
ReadList(d) ==
    /\ pass[d].at = "listing"
    /\ IF Wanted(d)
       THEN Goes(d, [NoPass EXCEPT !.at = "entering", !.known = chat])
       ELSE Stops(d)
    /\ UNCHANGED <<gatewayVars, local, sendVars, eraseVars, entry, faults>>

Enter(d) ==
    /\ pass[d].at = "entering"
    /\ IF entry[d] = "frozen" \/ Busy(d)
       THEN Stops(d)
       ELSE Goes(d, [NoPass EXCEPT !.at = IF pass[d].known THEN "manifest" ELSE "compare"])
    /\ UNCHANGED <<gatewayVars, local, sendVars, eraseVars, entry, faults>>

\* fetchManifest
ReadManifest(d) ==
    /\ pass[d].at = "manifest"
    /\ Goes(d, [pass[d] EXCEPT !.at = "compare", !.there = server])
    /\ UNCHANGED <<gatewayVars, local, sendVars, eraseVars, entry, faults>>

\* one sequence with two turns, or one turn at two sequences
TwoVersions(log, other) ==
    \E n \in Held(log), i \in Held(other) : (n = i) # (log[n] = other[i])

Freeze(d) == entry' = [entry EXCEPT ![d] = "frozen"] /\ Stops(d)

-------------------------------------------------------------------------------
(* Uploading: upload *)

\* fault for mutation runs: pushes in the middle of a send
UploadsAnyhow(d) == TRUE

MayUpload(d) == ~Busy(d)

\* baseFor
BaseOf(there, turns) == Before(there, Start(turns))

\* pushes the next batch of todo, or ends the pass well
Upload(d, there, todo) ==
    LET batch == FirstOf(todo, BatchSize) IN
    \/ /\ Held(todo) = {}
       /\ entry' = [entry EXCEPT ![d] = "synced"]
       /\ Stops(d)
       /\ UNCHANGED pushes
    \/ /\ Held(todo) # {} /\ ~MayUpload(d)
       /\ Stops(d)
       /\ UNCHANGED <<entry, pushes>>
    \/ /\ Held(todo) # {} /\ MayUpload(d)
       /\ pushes' = pushes \cup
             {[ from |-> d, base |-> BaseOf(there, batch), turns |-> batch,
                step |-> "owner", seen |-> Empty, client |-> "waiting" ]}
       /\ Goes(d, [pass[d] EXCEPT !.at = "push", !.there = there, !.todo = todo])
       /\ UNCHANGED entry

\* fault for mutation runs: nothing goes beyond a turn that cannot travel
ToUploadInOrder(view, there) ==
    Without(view, {n \in Held(view) :
                      there[n] # None \/ \E i \in 0..n : view[i] \in Unfit})

\* what the server has not; a turn that cannot travel is counted and left out
ToUpload(view, there) ==
    Without(view, {n \in Held(view) : there[n] # None \/ view[n] \in Unfit})

\* the file is read again, and from there to the first push nothing intervenes
BeginUpload(d, view) == Upload(d, pass[d].there, ToUpload(view, pass[d].there))

NextBatch(d) ==
    /\ pass[d].at = "next"
    /\ Upload(d, pass[d].there, pass[d].todo)
    /\ UNCHANGED <<chat, server, local, sendVars, eraseVars, faults>>

\* the batch is on the server: stored now, or there already
Confirmed(d, turns) ==
    /\ Goes(d, [pass[d] EXCEPT !.at = "next", !.there = Joined(@, turns),
                               !.todo = Without(@, Held(turns))])
    /\ UNCHANGED entry

\* the server changed: the manifest is read again, a few times
Retry(d) ==
    /\ IF pass[d].round + 1 < MaxRounds
       THEN Goes(d, [pass[d] EXCEPT !.at = "manifest", !.todo = Empty, !.round = @ + 1])
       ELSE Stops(d)
    /\ UNCHANGED entry

Compare(d) ==
    LET there   == pass[d].there
        missing == Without(there, Held(local[d]))
    IN /\ pass[d].at = "compare"
       /\ \/ /\ TwoVersions(local[d], there)
             /\ Freeze(d)
             /\ UNCHANGED pushes
          \/ /\ ~TwoVersions(local[d], there)
             /\ Held(missing) # {}
             /\ Goes(d, [pass[d] EXCEPT !.at = "fetch", !.todo = missing])
             /\ UNCHANGED <<entry, pushes>>
          \/ /\ ~TwoVersions(local[d], there)
             /\ Held(missing) = {}
             /\ BeginUpload(d, local[d])
       /\ UNCHANGED <<chat, server, local, sendVars, eraseVars, faults>>

-------------------------------------------------------------------------------
(* Downloading: download, write and appendRemote *)

\* fault for mutation runs: looks only at the tombstones the pass began with
MayKeepAsListed(d) == send[d] = "idle"

\* checked in the same breath as the write
MayKeep(d) == ~Busy(d) /\ d \notin tomb

\* fault for mutation runs: what came from the server is written over the file
OccupiedNever(d, chunk) == FALSE

\* appendRemote refuses a sequence that another turn has (and a turn it has at
\* another sequence, which OneStory shows is never sent)
Occupied(d, chunk) == Held(chunk) \cap Held(local[d]) # {}

\* the records are those of the manifest, for the server never changes one
Download(d) ==
    LET p     == pass[d]
        chunk == FirstOf(p.todo, FetchChunk)
        rest  == Without(p.todo, Held(chunk))
    IN /\ p.at = "fetch"
       /\ \/ /\ ~MayKeep(d)
             /\ Stops(d)
             /\ UNCHANGED <<local, entry, pushes>>
          \/ /\ MayKeep(d) /\ Occupied(d, chunk)
             /\ Freeze(d)
             /\ UNCHANGED <<local, pushes>>
          \/ /\ MayKeep(d) /\ ~Occupied(d, chunk)
             /\ local' = [local EXCEPT ![d] = Joined(@, chunk)]
             /\ \/ /\ Held(rest) # {}
                   /\ Goes(d, [p EXCEPT !.todo = rest])
                   /\ UNCHANGED <<entry, pushes>>
                \/ /\ Held(rest) = {}
                   /\ BeginUpload(d, local'[d])
       /\ UNCHANGED <<chat, server, sendVars, eraseVars, faults>>

-------------------------------------------------------------------------------
(* The gateway: handleVaultV2RecordsPush *)

Moves(h, step) == pushes' = (pushes \ {h}) \cup {[h EXCEPT !.step = step]}

\* the request is finished; what happens next, if the pass still waits
Replies(h, next) ==
    /\ pushes' = pushes \ {h}
    /\ IF h.client = "waiting" THEN next ELSE UNCHANGED <<pass, entry>>

\* getVaultConversationOwner: a base for a conversation that is not there
FindOwner(h) ==
    /\ h.step = "owner"
    /\ \/ /\ chat /\ Moves(h, "base") /\ UNCHANGED <<pass, entry>>
       \/ /\ ~chat /\ h.base = None /\ Moves(h, "ensure") /\ UNCHANGED <<pass, entry>>
       \/ /\ ~chat /\ h.base # None
          /\ Replies(h, Stops(h.from) /\ UNCHANGED entry)
    /\ UNCHANGED <<chat, server>>

\* ensureVaultConversation; a conversation just made has nothing to check
EnsureChat(h) ==
    /\ h.step = "ensure"
    /\ chat' = TRUE
    /\ Moves(h, IF chat THEN "base" ELSE "insert")
    /\ UNCHANGED <<server, pass, entry>>

\* sameBase
SameBase(h) == Before(server, Start(h.turns)) = h.base

CheckBase(h) ==
    /\ h.step = "base"
    /\ \/ SameBase(h) /\ Moves(h, "insert") /\ UNCHANGED <<pass, entry>>
       \/ ~SameBase(h) /\ Replies(h, Retry(h.from))
    /\ UNCHANGED <<chat, server>>

\* fault for mutation runs: the batch is written over what is there
FitsAnyhow(h) == TRUE

\* unique (conversation_id, sequence) and primary key (record_id)
Fits(h) ==
    /\ Held(h.turns) \cap Held(server) = {}
    /\ \A n \in Held(h.turns), i \in Held(server) : h.turns[n] # server[i]

\* insertVaultRecords: the whole batch or nothing
Insert(h) ==
    /\ h.step = "insert"
    /\ \/ /\ Fits(h)
          /\ server' = Joined(server, h.turns)
          /\ Replies(h, Confirmed(h.from, h.turns))
       \/ /\ ~Fits(h)
          /\ Moves(h, "classify")
          /\ UNCHANGED <<server, pass, entry>>
    /\ UNCHANGED chat

\* classifyVaultRecords looks for the sequences first
Classify(h) ==
    /\ h.step = "classify"
    /\ pushes' = (pushes \ {h}) \cup
          {[h EXCEPT !.step = "explain",
                     !.seen = Without(server, Sequence \ Held(h.turns))]}
    /\ UNCHANGED <<chat, server, pass, entry>>

\* fault for mutation runs: takes a turn that was there already for another one
ConflictsIfTaken(h) == Held(h.seen) # {}

\* and then for the identifiers of the turns it did not find
Conflicts(h) ==
    \E n \in Held(h.turns) :
       IF n \in Held(h.seen) THEN h.seen[n] # h.turns[n]
       ELSE \E i \in Held(server) : server[i] = h.turns[n]

\* the outcomes, and what the pass makes of them
Explain(h) ==
    LET d == h.from IN
    /\ h.step = "explain"
    /\ Replies(h, \/ Conflicts(h) /\ Freeze(d)
                  \/ /\ ~Conflicts(h)
                     /\ IF Held(h.turns) = Held(h.seen)
                        THEN Confirmed(d, h.turns)
                        ELSE Retry(d))
    /\ UNCHANGED <<chat, server>>

PushStep(h) ==
    /\ \/ FindOwner(h) \/ EnsureChat(h) \/ CheckBase(h)
       \/ Insert(h) \/ Classify(h) \/ Explain(h)
    /\ UNCHANGED <<local, sendVars, eraseVars, faults>>

-------------------------------------------------------------------------------
(* Faults *)

\* fault for mutation runs: the answer will still find the next pass
AbandonedLate(d) == pushes

\* nobody waits for the answers of the requests of d any more
Abandoned(d) ==
    {IF h.from = d THEN [h EXCEPT !.client = "gone"] ELSE h : h \in pushes}

\* the network fails, the vault is locked: the pass ends where it stands, and a
\* request it had sent arrives later or never
CutPass(d) ==
    /\ Fault
    /\ pass[d].at # "idle"
    /\ Stops(d)
    /\ pushes' \in { Abandoned(d),
                     {h \in pushes : h.from # d \/ h.client = "gone"} }
    /\ UNCHANGED <<chat, server, local, sendVars, eraseVars, entry>>

\* Studio dies: a user's turn without a reply stays in the file
Crash(d) ==
    /\ Fault
    /\ Busy(d) \/ pass[d].at # "idle"
    /\ Stops(d)
    /\ pushes' = Abandoned(d)
    /\ send' = [send EXCEPT ![d] = "idle"]
    /\ mine' = [mine EXCEPT ![d] = None]
    /\ erasing' = [erasing EXCEPT ![d] = "no"]
    /\ UNCHANGED <<chat, server, local, born, retired, tomb, entry>>

-------------------------------------------------------------------------------
SendStep(d) == WriteMessage(d) \/ WriteReply(d) \/ EndSend(d)

DeleteStep(d) == Bury(d) \/ EraseFile(d) \/ EndDelete(d)

PassStep(d) ==
    \/ ReadList(d) \/ Enter(d) \/ ReadManifest(d) \/ Compare(d)
    \/ Download(d) \/ NextBatch(d)

Next ==
    \/ \E d \in Device : StartSend(d) \/ SendStep(d)
    \/ \E d \in Device : BeginDelete(d) \/ DeleteStep(d)
    \/ \E d \in Device, mode \in {"all", "one"} : BeginPass(d, mode)
    \/ \E d \in Device : PassStep(d) \/ CutPass(d) \/ Crash(d)
    \/ \E h \in pushes : PushStep(h)

(***************************************************************************)
(* Every await ends, in an answer or a time-out; and the computers are      *)
(* synchronised again and again, as the user asks.  Nobody has to send, and *)
(* nothing has to fail.                                                     *)
(***************************************************************************)
Fairness ==
    /\ \A d \in Device : WF_vars(BeginPass(d, "all") \/ PassStep(d))
    /\ WF_vars(\E h \in pushes : PushStep(h))

Spec == Init /\ [][Next]_vars
FairSpec == Spec /\ Fairness

-------------------------------------------------------------------------------
(* Properties *)

\* log is one conversation: each turn follows the turn its writer saw before it,
\* unless that one cannot travel
Story(log) ==
    \A n \in Held(log) :
       IF n = 0 THEN born[log[n]] = None
       ELSE born[log[n]] # None /\ born[log[n]] \in {log[n - 1]} \cup Unfit

\* Neither the server nor any file ever splices two versions of the
\* conversation or keeps one with a gap, but behind a turn that could not travel:
\* the base of a push, the unique keys and appendRemote's refusals are together
\* enough, through late requests, interleaved inserts and downloads cut half way.
OneStory ==
    /\ {server[n] : n \in Held(server)} \cap Unfit = {}
    /\ Story(server)
    /\ \A d \in Device : Story(local[d])

\* A user's turn that waits for its reply, or was taken back for want of one,
\* is never on the server (handlers.ts: "uno del usuario sin respuesta puede
\* retirarse y reutilizar su numero").  It may be in the view a pass has read.
UnansweredStaysHome ==
    \A n \in Held(server) :
       server[n] \notin retired \cup {mine[d] : d \in Device}

\* With one computer that writes, no conversation is ever frozen, however often
\* requests are lost, repeated or late: what a pass finds again on the server
\* is its own ("un duplicate es que ya estaba; un conflict, dos versiones").
FreezingTakesTwoWriters ==
    (\E d \in Device : entry[d] = "frozen") =>
       Cardinality({t[1] : t \in DOMAIN born}) > 1

\* Nothing remote ever replaces a turn of this computer's file, and no line
\* goes but the unanswered turn and a deleted conversation ("nada remoto pisa
\* nada local", conversation-store.ts).
NothingLocalIsLost ==
    [][\A d \in Device : \A n \in Held(local[d]) :
          local'[d][n] # local[d][n] =>
             \/ local[d][n] = mine[d]
             \/ d \in tomb /\ local'[d] = Empty]_vars

\* A conversation deleted on this computer never comes back to it, neither from
\* a pass that had read the tombstones before nor from a send.
DeletedStaysDeleted ==
    [][\A d \in tomb : local[d] = Empty => local'[d] = Empty]_vars

\* Once nobody writes or deletes any more, passes bring every computer to what
\* the server has, and the server to what they have, unless it deleted the
\* conversation or froze it: no lost answer, half download, late push or stale
\* manifest leaves two copies apart in silence, and a turn that cannot travel
\* keeps no other at home.
Copied(d) ==
    \A n \in Sequence :
       server[n] = IF local[d][n] \in Unfit THEN None ELSE local[d][n]

Converges ==
    <>[](\A d \in Device : ~Busy(d)) =>
       <>[](\A d \in Device : d \in tomb \/ entry[d] = "frozen" \/ Copied(d))

\* The server's rows implement a log of which nothing is changed or taken away,
\* and where a gap is left only behind a turn that could not travel.
SharedRows == INSTANCE SharedLog WITH
    Record <- Turn,
    rows <- [n \in Held(server) |-> server[n]],
    stray <- {t \in DOMAIN born : born[t] \in Unfit}
RowsStay == SharedRows!Spec
===============================================================================
