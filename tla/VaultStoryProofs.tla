---------------------------- MODULE VaultStoryProofs ---------------------------
(***************************************************************************)
(* Proofs about what the copies of a conversation hold: that every one is   *)
(* the same story, that an unanswered turn stays at home, that nothing      *)
(* local is lost and that what was deleted stays deleted.                   *)
(***************************************************************************)
EXTENDS VaultSyncProofs

(***************************************************************************)
(* The second layer.  A turn is placed wherever it can still be read from:  *)
(* the server, a file, what a pass has to do, a request.  It has one place, *)
(* below the number of turns ever written; it was not taken back, and it is *)
(* the first turn if it is at 0.                                            *)
(***************************************************************************)
Away(d, n, t) ==
    \/ server[n] = t
    \/ \E e \in Device : pass[e].todo[n] = t
    \/ \E e \in Device : e # d /\ local[e][n] = t
    \/ \E h \in pushes : h.turns[n] = t

Placed(n, t) ==
    \/ server[n] = t
    \/ \E e \in Device : pass[e].todo[n] = t
    \/ \E e \in Device : local[e][n] = t
    \/ \E h \in pushes : h.turns[n] = t

PlacedInv ==
    \A n \in Sequence, t \in Turn : Placed(n, t) =>
        /\ t \in DOMAIN born \ retired
        /\ born[t] = None <=> n = 0
        /\ n < Cardinality(DOMAIN born)
        /\ \A i \in Sequence : Placed(i, t) => n = i

SendInv ==
    \A d \in Device :
        /\ mine[d] # None <=> send[d] = "asked"
        /\ send[d] = "idle" \/ erasing[d] = "no"
        /\ erasing[d] \in {"buried", "erased"} => d \in tomb

\* the unanswered turn is the last line of its file, and nowhere else
MineHome ==
    \A d \in Device : mine[d] # None =>
        /\ \E n \in Held(local[d]) : local[d][n] = mine[d] /\ \A i \in Held(local[d]) : i <= n
        /\ \A n \in Sequence : ~Away(d, n, mine[d])

\* a log of turns that can travel
Fit(log) == \A n \in Held(log) : log[n] \notin Unfit

StoryInv == Fit(server) /\ Story(server) /\ \A d \in Device : Story(local[d])

\* Story, by the turns before as prior gives them
Follows(prior, log, n) ==
    IF n = 0 THEN prior[log[n]] = None
    ELSE prior[log[n]] # None /\ prior[log[n]] \in {log[n - 1]} \cup Unfit
Chain(prior, log) == \A n \in Held(log) : Follows(prior, log, n)

\* each turn of part follows the turn before it, in part or else in base, or one
\* that cannot travel
Linked(prior, part, base, n) ==
    \/ prior[part[n]] \in Unfit
    \/ prior[part[n]] = IF part[n - 1] # None THEN part[n - 1] ELSE base[n - 1]
Links(prior, part, base) == \A n \in Held(part) : n > 0 => Linked(prior, part, base, n)
Continues(part, base) == Links(born, part, base)

\* what a pass believes the server has, it has; what it has to fetch is
\* there and the rest is here; what it has to push continues what is there
ThereIsThere == \A d \in Device : Within(pass[d].there, server) /\ Story(pass[d].there)

PassKnows(d) ==
    /\ pass[d].at \notin {"fetch", "next", "push"} => pass[d].todo = Empty
    /\ pass[d].at = "fetch" =>
          /\ Within(pass[d].todo, pass[d].there)
          /\ d \notin tomb =>
                \A n \in Held(pass[d].there) \ Held(pass[d].todo) :
                    local[d][n] = pass[d].there[n]
    /\ pass[d].at \in {"next", "push"} =>
          /\ Fit(pass[d].todo)
          /\ Continues(pass[d].todo, pass[d].there)
          /\ Apart(pass[d].todo, pass[d].there)

\* a request continues what is on the server, and the pass that waits for it
\* has its turns first in its list
PushKnows(h) ==
    /\ Held(h.turns) # {}
    /\ Fit(h.turns)
    /\ Continues(h.turns, server)
    /\ Within(h.seen, server)
    /\ h.client = "waiting" =>
          /\ Within(h.turns, pass[h.from].todo)
          /\ \A n \in Held(h.turns), i \in Held(pass[h.from].todo) :
                 i < n => i \in Held(h.turns)

StoreInv ==
    /\ Typed
    /\ PlacedInv
    /\ SendInv
    /\ MineHome
    /\ StoryInv
    /\ ThereIsThere
    /\ \A d \in Device : PassKnows(d)
    /\ \A h \in pushes : PushKnows(h)

-------------------------------------------------------------------------------
(* Where the turns of the next state come from *)

Writes(d) == WriteMessage(d) \/ WriteReply(d)

\* The server changes only when a batch that fits is inserted.
LEMMA ServerFrom ==
    ASSUME Next
    PROVE  \/ server' = server
           \/ /\ local' = local /\ born' = born /\ retired' = retired /\ mine' = mine
              /\ \E h \in pushes : Insert(h) /\ Fits(h) /\ server' = Joined(server, h.turns)
<1>1. ASSUME NEW d \in Device,
             \/ StartSend(d) \/ SendStep(d) \/ BeginDelete(d) \/ DeleteStep(d)
             \/ \E mode \in {"all", "one"} : BeginPass(d, mode)
             \/ ReadList(d) \/ Enter(d) \/ ReadManifest(d)
      PROVE  server' = server
  <2>1. CASE StartSend(d) \/ SendStep(d)
    BY <2>1 DEF StartSend, SendStep, WriteMessage, WriteReply, EndSend, gatewayVars
  <2>2. CASE BeginDelete(d) \/ DeleteStep(d)
    BY <2>2 DEF BeginDelete, DeleteStep, Bury, EraseFile, EndDelete, gatewayVars
  <2>3. CASE \/ \E mode \in {"all", "one"} : BeginPass(d, mode)
             \/ ReadList(d) \/ Enter(d) \/ ReadManifest(d)
    BY <2>3 DEF BeginPass, ReadList, Enter, ReadManifest, gatewayVars
  <2> QED
    BY <1>1, <2>1, <2>2, <2>3
<1>2. ASSUME NEW d \in Device,
             Compare(d) \/ NextBatch(d) \/ Download(d) \/ CutPass(d) \/ Crash(d)
      PROVE  server' = server
  BY <1>2 DEF Compare, NextBatch, Download, CutPass, Crash
<1>3. ASSUME NEW h \in pushes, PushStep(h)
      PROVE  \/ server' = server
             \/ /\ local' = local /\ born' = born /\ retired' = retired /\ mine' = mine
                /\ Insert(h) /\ Fits(h) /\ server' = Joined(server, h.turns)
  <2>1. local' = local /\ born' = born /\ retired' = retired /\ mine' = mine
    BY <1>3 DEF PushStep, sendVars
  <2>2. CASE Insert(h)
    BY <2>1, <2>2 DEF Insert
  <2>3. CASE FindOwner(h) \/ EnsureChat(h) \/ CheckBase(h) \/ Classify(h) \/ Explain(h)
    BY <2>3 DEF FindOwner, EnsureChat, CheckBase, Classify, Explain
  <2> QED
    BY <1>3, <2>2, <2>3 DEF PushStep
<1> QED
  BY <1>1, <1>2, <1>3 DEF Next, PassStep

\* What a step may do to the files.
FileWritten(d) ==
    /\ Writes(d)
    /\ local' = [local EXCEPT ![d][NextSequence(local[d])] = NewTurn(d)]
FileRetired(d) ==
    /\ EndSend(d) /\ mine[d] # None
    /\ local' = [local EXCEPT ![d] = Without(local[d], {NextSequence(local[d]) - 1})]
FileErased(d) ==
    /\ EraseFile(d)
    /\ local' = [local EXCEPT ![d] = Empty]
FileFetched(d) ==
    /\ Download(d) /\ pass[d].at = "fetch"
    /\ ~Busy(d) /\ d \notin tomb
    /\ Held(FirstOf(pass[d].todo, FetchChunk)) \cap Held(local[d]) = {}
    /\ local' = [local EXCEPT ![d] = Joined(local[d], FirstOf(pass[d].todo, FetchChunk))]

LEMMA FilesFrom ==
    ASSUME Next
    PROVE  \/ local' = local
           \/ \E d \in Device : FileWritten(d)
           \/ \E d \in Device : FileRetired(d)
           \/ \E d \in Device : FileErased(d)
           \/ \E d \in Device : FileFetched(d)
<1>1. ASSUME NEW d \in Device, StartSend(d) \/ SendStep(d)
      PROVE  local' = local \/ FileWritten(d) \/ FileRetired(d)
  BY <1>1 DEF StartSend, SendStep, WriteMessage, WriteReply, EndSend, Writes, Appended,
              FileWritten, FileRetired
<1>2. ASSUME NEW d \in Device, BeginDelete(d) \/ DeleteStep(d)
      PROVE  local' = local \/ FileErased(d)
  BY <1>2 DEF BeginDelete, DeleteStep, Bury, EraseFile, EndDelete, FileErased
<1>3. ASSUME NEW d \in Device, NEW mode \in {"all", "one"}, BeginPass(d, mode)
      PROVE  local' = local
  BY <1>3 DEF BeginPass
<1>4. ASSUME NEW d \in Device, PassStep(d) \/ CutPass(d) \/ Crash(d)
      PROVE  local' = local \/ FileFetched(d)
  <2>1. CASE Download(d)
    BY <2>1 DEF Download, MayKeep, Occupied, FileFetched
  <2>2. CASE ReadList(d) \/ Enter(d) \/ ReadManifest(d)
    BY <2>2 DEF ReadList, Enter, ReadManifest
  <2>3. CASE Compare(d) \/ NextBatch(d) \/ CutPass(d) \/ Crash(d)
    BY <2>3 DEF Compare, NextBatch, CutPass, Crash
  <2> QED
    BY <1>4, <2>1, <2>2, <2>3 DEF PassStep
<1>5. ASSUME NEW h \in pushes, PushStep(h)
      PROVE  local' = local
  BY <1>5 DEF PushStep
<1> QED
  BY <1>1, <1>2, <1>3, <1>4, <1>5 DEF Next

\* Turns are written, and taken back, only with a change of a file.
LEMMA BornFrom ==
    ASSUME Typed, Next
    PROVE  /\ DOMAIN born \subseteq DOMAIN born'
           /\ \A t \in DOMAIN born : born'[t] = born[t]
           /\ \/ born' = born
              \/ \E d \in Device : Writes(d) /\ DOMAIN born' = DOMAIN born \cup {NewTurn(d)}
           /\ \/ retired' = retired
              \/ \E d \in Device : FileRetired(d) /\ retired' = retired \cup {mine[d]}
<1>1. ASSUME NEW d \in Device, Writes(d)
      PROVE  /\ DOMAIN born' = DOMAIN born \cup {NewTurn(d)}
             /\ \A t \in DOMAIN born : born'[t] = born[t]
             /\ retired' = retired
  <2>1. Appended(d, NewTurn(d)) /\ retired' = retired
    BY <1>1 DEF Writes, WriteMessage, WriteReply
  <2> QED
    BY <2>1, AppendedCounts
<1>2. ASSUME NEW d \in Device, EndSend(d)
      PROVE  /\ born' = born
             /\ retired' = retired \/ (FileRetired(d) /\ retired' = retired \cup {mine[d]})
  BY <1>2 DEF EndSend, FileRetired
<1>3. ASSUME NEW d \in Device, StartSend(d) \/ BeginDelete(d) \/ DeleteStep(d)
      PROVE  born' = born /\ retired' = retired
  BY <1>3 DEF StartSend, BeginDelete, DeleteStep, Bury, EraseFile, EndDelete, sendVars
<1>4. ASSUME NEW d \in Device, \E mode \in {"all", "one"} : BeginPass(d, mode)
      PROVE  born' = born /\ retired' = retired
  BY <1>4 DEF BeginPass, sendVars
<1>5. ASSUME NEW d \in Device, PassStep(d)
      PROVE  born' = born /\ retired' = retired
  BY <1>5 DEF PassStep, ReadList, Enter, ReadManifest, Compare, Download, NextBatch, sendVars
<1>6. ASSUME NEW d \in Device, CutPass(d) \/ Crash(d)
      PROVE  born' = born /\ retired' = retired
  BY <1>6 DEF CutPass, Crash, sendVars
<1>7. ASSUME NEW h \in pushes, PushStep(h)
      PROVE  born' = born /\ retired' = retired
  BY <1>7 DEF PushStep, sendVars
<1> QED
  <2>1. CASE \E d \in Device : StartSend(d) \/ SendStep(d)
    BY <1>1, <1>2, <1>3, <2>1 DEF SendStep, Writes
  <2>2. CASE ~\E d \in Device : StartSend(d) \/ SendStep(d)
    BY <1>3, <1>4, <1>5, <1>6, <1>7, <2>2 DEF Next
  <2> QED
    BY <2>1, <2>2

\* What a pass has to do was to do before, or is on the server, or is here
\* while nobody sends.
LEMMA TodoFrom ==
    ASSUME Typed, ThereIsThere, Next, NEW e \in Device, NEW n \in Sequence
    PROVE  \/ pass'[e].todo[n] \in {None, pass[e].todo[n], server[n]}
           \/ pass'[e].todo[n] = local'[e][n] /\ ~Busy(e)
<1>0. TalkOK /\ pass \in [Device -> Pass] /\ Empty[n] = None
  BY EmptyLog DEF Typed, TalkOK
<1>1. ASSUME pass' = pass
      PROVE  pass'[e].todo[n] = pass[e].todo[n]
  BY <1>1
<1>2. ASSUME NEW d \in Device, NEW q \in Pass, Goes(d, q),
             q.todo \in {Empty, pass[d].todo}
      PROVE  pass'[e].todo[n] \in {None, pass[e].todo[n]}
  <2>1. pass' = [pass EXCEPT ![d] = q]
    BY <1>2 DEF Goes
  <2>2. CASE e = d
    BY <1>0, <1>2, <2>1, <2>2
  <2>3. CASE e # d
    BY <1>0, <2>1, <2>3
  <2> QED
    BY <2>2, <2>3
<1>3. ASSUME NEW d \in Device, Stops(d)
      PROVE  pass'[e].todo[n] \in {None, pass[e].todo[n]}
  BY <1>2, <1>3, NoPassFacts DEF Stops
<1>4. ASSUME NEW d \in Device, d # e, PassStep(d)
      PROVE  pass'[e] = pass[e]
  <2>1. PICK q : pass' = [pass EXCEPT ![d] = q]
    BY <1>4 DEF PassStep, ReadList, Enter, ReadManifest, Compare, Download, NextBatch,
                BeginUpload, Upload, Freeze, Stops, Goes
  <2> QED
    BY <1>0, <1>4, <2>1
<1>5. ASSUME NEW there \in Log, NEW todo \in Log, Upload(e, there, todo)
      PROVE  pass'[e].todo[n] = None \/ (pass'[e].todo[n] = todo[n] /\ ~Busy(e))
  <2> DEFINE q == [pass[e] EXCEPT !.at = "push", !.there = there, !.todo = todo]
  <2>1. CASE Stops(e)
    BY <1>0, <2>1, NoPassFacts DEF Stops, Goes
  <2>2. CASE Goes(e, q) /\ ~Busy(e)
    <3>1. q.todo = todo
      BY <1>0, PassOK DEF Pass
    <3> HIDE DEF q
    <3> QED
      BY <1>0, <2>2, <3>1 DEF Goes
  <2> QED
    BY <1>0, <1>5, <2>1, <2>2, UploadFacts
<1>6. ASSUME NEW d \in Device, StartSend(d) \/ SendStep(d) \/ BeginDelete(d) \/ DeleteStep(d)
      PROVE  pass' = pass
  BY <1>6 DEF StartSend, SendStep, WriteMessage, WriteReply, EndSend,
              BeginDelete, DeleteStep, Bury, EraseFile, EndDelete
<1>7. ASSUME NEW d \in Device, \E mode \in {"all", "one"} : BeginPass(d, mode)
      PROVE  pass'[e].todo[n] \in {None, pass[e].todo[n]}
  <2>1. PICK q \in Pass : Goes(d, q) /\ q.todo \in {Empty, pass[d].todo}
    BY <1>7, ReadersTalk
  <2> QED
    BY <1>2, <2>1
<1>8. ASSUME PassStep(e)
      PROVE  \/ pass'[e].todo[n] \in {None, pass[e].todo[n], server[n]}
             \/ pass'[e].todo[n] = local'[e][n] /\ ~Busy(e)
  <2>0. /\ pass[e] \in Pass /\ pass[e].there \in Log /\ pass[e].todo \in Log
        /\ local[e] \in Log /\ local' \in [Device -> Log]
    BY <1>0, <1>8, PassOK, StepFiles DEF Typed, FilesOK
  <2>1. CASE ReadList(e) \/ Enter(e) \/ ReadManifest(e)
    <3>1. PICK q \in Pass : Goes(e, q) /\ q.todo \in {Empty, pass[e].todo}
      BY <2>1, ReadersTalk
    <3> QED
      BY <1>2, <3>1
  <2>2. CASE Compare(e)
    <3> DEFINE missing == Without(pass[e].there, Held(local[e]))
    <3>1. CASE Stops(e)
      BY <1>3, <3>1
    <3>2. CASE Goes(e, [pass[e] EXCEPT !.at = "fetch", !.todo = missing])
      <4>1. pass'[e].todo = missing
        BY <1>0, <3>2 DEF Goes, Pass
      <4>2. missing[n] \in {None, pass[e].there[n]}
        BY <2>0, WithoutFacts
      <4>3. pass[e].there[n] \in {None, server[n]}
        BY <2>0, LogFacts DEF ThereIsThere, Within
      <4> QED
        BY <4>1, <4>2, <4>3
    <3>3. CASE Upload(e, pass[e].there, ToUpload(local[e], pass[e].there))
      <4>1. PICK todo \in Log : todo = ToUpload(local[e], pass[e].there)
        BY <2>0, ToUploadFacts
      <4>2. todo[n] \in {None, local[e][n]}
        BY <2>0, <4>1, ToUploadFacts
      <4>3. local' = local
        BY <2>2 DEF Compare
      <4>4. Upload(e, pass[e].there, todo)
        BY <3>3, <4>1
      <4> QED
        BY <1>5, <2>0, <4>2, <4>3, <4>4
    <3> QED
      BY <2>2, <3>1, <3>2, <3>3 DEF Compare, Freeze, BeginUpload
  <2>3. CASE Download(e)
    <3> DEFINE rest == Without(pass[e].todo, Held(FirstOf(pass[e].todo, FetchChunk)))
    <3>1. CASE Stops(e)
      BY <1>3, <3>1
    <3>2. CASE Goes(e, [pass[e] EXCEPT !.todo = rest])
      <4>1. pass'[e].todo = rest
        <5> HIDE DEF rest
        <5> QED
          BY <1>0, <3>2 DEF Goes, Pass
      <4>2. rest[n] \in {None, pass[e].todo[n]}
        BY <2>0, WithoutFacts
      <4> QED
        BY <4>1, <4>2
    <3>3. CASE Upload(e, pass[e].there, ToUpload(local'[e], pass[e].there))
      <4>1. PICK todo \in Log : todo = ToUpload(local'[e], pass[e].there)
        BY <2>0, ToUploadFacts
      <4>2. todo[n] \in {None, local'[e][n]}
        BY <2>0, <4>1, ToUploadFacts
      <4>3. Upload(e, pass[e].there, todo)
        BY <3>3, <4>1
      <4> QED
        BY <1>5, <2>0, <4>2, <4>3
    <3> QED
      BY <2>3, <3>1, <3>2, <3>3 DEF Download, Freeze, BeginUpload
  <2>4. CASE NextBatch(e)
    <3>1. Upload(e, pass[e].there, pass[e].todo)
      BY <2>4 DEF NextBatch
    <3> QED
      BY <1>5, <2>0, <3>1
  <2> QED
    BY <1>8, <2>1, <2>2, <2>3, <2>4 DEF PassStep
<1>9. ASSUME NEW d \in Device, CutPass(d) \/ Crash(d)
      PROVE  pass'[e].todo[n] \in {None, pass[e].todo[n]}
  BY <1>3, <1>9 DEF CutPass, Crash
<1>10. ASSUME NEW h \in pushes, PushStep(h)
       PROVE  pass'[e].todo[n] \in {None, pass[e].todo[n]}
  <2>0. h.from \in Device /\ h.turns \in Log
    BY <1>0, PushOK
  <2>1. CASE pass' = pass
    BY <2>1
  <2>2. CASE Stops(h.from)
    BY <1>3, <2>0, <2>2
  <2>3. CASE Retry(h.from)
    <3>1. PICK q \in Pass : Goes(h.from, q) /\ q.todo = Empty
      BY <1>0, <2>0, <2>3, RetryFacts
    <3> QED
      BY <1>2, <2>0, <3>1
  <2>4. CASE Confirmed(h.from, h.turns)
    <3> DEFINE q == [pass[h.from] EXCEPT !.at = "next", !.there = Joined(@, h.turns),
                                         !.todo = Without(@, Held(h.turns))]
    <3>1. Goes(h.from, q) /\ q.todo = Without(pass[h.from].todo, Held(h.turns))
      BY <1>0, <2>0, <2>4, ConfirmedFacts
    <3> HIDE DEF q
    <3>2. pass'[h.from].todo = Without(pass[h.from].todo, Held(h.turns))
      BY <1>0, <2>0, <3>1 DEF Goes
    <3>3. e # h.from => pass'[e] = pass[e]
      BY <1>0, <3>1 DEF Goes
    <3>4. pass[h.from].todo \in Log
      BY <1>0, <2>0, PassOK
    <3>5. pass'[h.from].todo[n] \in {None, pass[h.from].todo[n]}
      BY <3>2, <3>4, WithoutFacts
    <3> QED
      BY <3>3, <3>5
  <2>5. pass' = pass \/ Stops(h.from) \/ Retry(h.from) \/ Confirmed(h.from, h.turns)
    <3>1. CASE FindOwner(h) \/ EnsureChat(h) \/ Classify(h)
      BY <3>1 DEF FindOwner, EnsureChat, Classify, Replies
    <3>2. CASE CheckBase(h) \/ Insert(h)
      BY <3>2 DEF CheckBase, Insert, Replies
    <3>3. CASE Explain(h)
      BY <3>3 DEF Explain, Replies, Freeze
    <3> QED
      BY <1>10, <3>1, <3>2, <3>3 DEF PushStep
  <2> QED
    BY <2>1, <2>2, <2>3, <2>4, <2>5
<1> QED
  <2>1. CASE \E d \in Device : PassStep(d)
    BY <1>4, <1>8, <2>1
  <2>2. CASE ~\E d \in Device : PassStep(d)
    BY <1>1, <1>6, <1>7, <1>9, <1>10, <2>2 DEF Next
  <2> QED
    BY <2>1, <2>2

\* What becomes of the request h.
Heir(h, g) ==
    /\ g.from = h.from /\ g.turns = h.turns
    /\ g.seen = h.seen \/ g.seen = Without(server, Sequence \ Held(h.turns))
    /\ g.client = "waiting" => h.client = "waiting"

\* Every request was there before, and the pass that waits for it has not
\* moved; or a pass at "push" has just sent it, while nobody sends.
LEMMA PushesFrom ==
    ASSUME Typed, Next, NEW g \in pushes'
    PROVE  \/ \E h \in pushes :
                 Heir(h, g) /\ (g.client = "waiting" => pass'[g.from] = pass[g.from])
           \/ /\ g.from \in Device /\ ~Busy(g.from)
              /\ pass'[g.from].at = "push" /\ pass'[g.from] \in Pass
              /\ Held(pass'[g.from].todo) # {}
              /\ g.turns = Batch(pass'[g.from].todo) /\ g.seen = Empty
              /\ local'[g.from] \in Log
              /\ g.client = "waiting"
<1>0. TalkOK /\ pass \in [Device -> Pass] /\ pass' \in [Device -> Pass] /\ local' \in [Device -> Log]
  BY StepTalks, StepFiles DEF Typed, TalkOK, FilesOK
<1>1. \A h \in pushes : Heir(h, h) /\ h \in Push
  BY <1>0, PushOK DEF Heir
<1> DEFINE Goal ==
           \/ \E h \in pushes :
                 Heir(h, g) /\ (g.client = "waiting" => pass'[g.from] = pass[g.from])
           \/ /\ g.from \in Device /\ ~Busy(g.from)
              /\ pass'[g.from].at = "push" /\ pass'[g.from] \in Pass
              /\ Held(pass'[g.from].todo) # {}
              /\ g.turns = Batch(pass'[g.from].todo) /\ g.seen = Empty
              /\ local'[g.from] \in Log
              /\ g.client = "waiting"
<1>2. ASSUME pass' = pass, pushes' = pushes
      PROVE  Goal
  BY <1>1, <1>2
<1>3. ASSUME NEW d \in Device, NEW q, Goes(d, q), pass[d].at # "push", pushes' = pushes
      PROVE  Goal
  <2>1. g \in pushes /\ g.from \in Device
    BY <1>0, <1>3, PushOK
  <2>2. g.client = "waiting" => g.from # d
    BY <1>0, <1>3, <2>1 DEF TalkOK, WaitingPush
  <2>3. pass' = [pass EXCEPT ![d] = q]
    BY <1>3 DEF Goes
  <2>4. g.client = "waiting" => pass'[g.from] = pass[g.from]
    BY <1>0, <2>1, <2>2, <2>3
  <2> QED
    BY <1>1, <2>1, <2>4
<1>4. ASSUME NEW d \in Device, NEW there \in Log, NEW todo \in Log,
             Upload(d, there, todo), pass[d].at # "push"
      PROVE  Goal
  <2> DEFINE q == [pass[d] EXCEPT !.at = "push", !.there = there, !.todo = todo]
  <2>1. CASE Stops(d) /\ pushes' = pushes
    BY <1>3, <1>4, <2>1 DEF Stops
  <2>2. CASE /\ Held(todo) # {} /\ ~Busy(d) /\ Goes(d, q)
             /\ pushes' = pushes \cup {NewPush(d, there, todo)}
    <3>1. q.at = "push" /\ q.todo = todo
      BY <1>0, PassOK DEF Pass
    <3>2. pass' = [pass EXCEPT ![d] = q]
      BY <2>2 DEF Goes
    <3> HIDE DEF q
    <3>3. CASE g = NewPush(d, there, todo)
      <4>1. g.from = d /\ g.turns = Batch(todo) /\ g.seen = Empty /\ g.client = "waiting"
        BY <3>3 DEF NewPush
      <4>2. pass'[d] = q
        BY <1>0, <3>2
      <4> QED
        BY <1>0, <2>2, <3>1, <4>1, <4>2
    <3>4. CASE g \in pushes
      <4>1. g.from \in Device
        BY <1>0, <3>4, PushOK
      <4>2. g.client = "waiting" => g.from # d
        BY <1>0, <1>4, <3>4 DEF TalkOK, WaitingPush
      <4>3. g.client = "waiting" => pass'[g.from] = pass[g.from]
        BY <1>0, <3>2, <4>1, <4>2
      <4> QED
        BY <1>1, <3>4, <4>3
    <3> QED
      BY <2>2, <3>3, <3>4
  <2>3. \/ Stops(d) /\ pushes' = pushes
        \/ /\ Held(todo) # {} /\ ~Busy(d) /\ Goes(d, q)
           /\ pushes' = pushes \cup {NewPush(d, there, todo)}
    BY <1>4 DEF Upload, MayUpload, NewPush, Batch
  <2> HIDE DEF Goal
  <2> QED
    BY <2>1, <2>2, <2>3
<1>5. ASSUME NEW d \in Device, StartSend(d) \/ SendStep(d) \/ BeginDelete(d) \/ DeleteStep(d)
      PROVE  Goal
  <2>1. pass' = pass /\ pushes' = pushes
    BY <1>5 DEF StartSend, SendStep, WriteMessage, WriteReply, EndSend,
                BeginDelete, DeleteStep, Bury, EraseFile, EndDelete, gatewayVars
  <2> QED
    BY <1>2, <2>1
<1>6. ASSUME NEW d \in Device,
             \/ \E mode \in {"all", "one"} : BeginPass(d, mode)
             \/ ReadList(d) \/ Enter(d) \/ ReadManifest(d)
      PROVE  Goal
  <2>1. pushes' = pushes /\ pass[d].at # "push" /\ \E q \in Pass : Goes(d, q)
    BY <1>6, ReadersTalk
  <2> QED
    BY <1>3, <2>1
<1>7. ASSUME NEW d \in Device, Compare(d) \/ Download(d) \/ NextBatch(d)
      PROVE  Goal
  <2>0. /\ pass[d] \in Pass /\ pass[d].there \in Log /\ pass[d].todo \in Log
        /\ local[d] \in Log /\ local'[d] \in Log
    BY <1>0, PassOK DEF Typed, FilesOK
  <2>1. pass[d].at # "push"
    BY <1>7 DEF Compare, Download, NextBatch
  <2>2. CASE pushes' = pushes /\ \E q : Goes(d, q)
    BY <1>3, <2>1, <2>2
  <2>3. CASE Upload(d, pass[d].there, pass[d].todo)
    BY <1>4, <2>0, <2>1, <2>3
  <2>4. CASE Upload(d, pass[d].there, ToUpload(local[d], pass[d].there))
    BY <1>4, <2>0, <2>1, <2>4, ToUploadFacts
  <2>5. CASE Upload(d, pass[d].there, ToUpload(local'[d], pass[d].there))
    <3>1. PICK todo \in Log : todo = ToUpload(local'[d], pass[d].there)
      BY <2>0, ToUploadFacts
    <3>2. Upload(d, pass[d].there, todo)
      BY <2>5, <3>1
    <3> QED
      BY <1>4, <2>0, <2>1, <3>2
  <2>6. Compare(d) => \/ pushes' = pushes /\ \E q : Goes(d, q)
                      \/ Upload(d, pass[d].there, ToUpload(local[d], pass[d].there))
    BY DEF Compare, BeginUpload, Freeze, Stops
  <2>7. Download(d) => \/ pushes' = pushes /\ \E q : Goes(d, q)
                       \/ Upload(d, pass[d].there, ToUpload(local'[d], pass[d].there))
    BY DEF Download, BeginUpload, Freeze, Stops
  <2>8. NextBatch(d) => Upload(d, pass[d].there, pass[d].todo)
    BY DEF NextBatch
  <2> QED
    BY <1>7, <2>2, <2>3, <2>4, <2>5, <2>6, <2>7, <2>8
<1>8. ASSUME NEW d \in Device, CutPass(d) \/ Crash(d)
      PROVE  Goal
  <2>1. /\ pass' = [pass EXCEPT ![d] = NoPass]
        /\ pushes' \in { Abandoned(d), {h \in pushes : h.from # d \/ h.client = "gone"} }
    BY <1>8 DEF CutPass, Crash, Stops, Goes
  <2>2. CASE pushes' = {h \in pushes : h.from # d \/ h.client = "gone"}
    <3>1. g \in pushes /\ (g.client = "waiting" => g.from # d) /\ g.from \in Device
      BY <1>0, <2>2, PushOK
    <3> QED
      BY <1>0, <1>1, <2>1, <3>1
  <2>3. CASE pushes' = Abandoned(d)
    <3>1. PICK h \in pushes : g = IF h.from = d THEN [h EXCEPT !.client = "gone"] ELSE h
      BY <2>3 DEF Abandoned
    <3>2. h \in Push /\ h.from \in Device
      BY <1>0, PushOK
    <3>3. CASE h.from = d
      <4>1. g.from = h.from /\ g.turns = h.turns /\ g.seen = h.seen /\ g.client = "gone"
        BY <3>1, <3>2, <3>3 DEF Push
      <4> QED
        BY <4>1 DEF Heir
    <3>4. CASE h.from # d
      BY <1>0, <1>1, <2>1, <3>1, <3>2, <3>4
    <3> QED
      BY <3>3, <3>4
  <2> QED
    BY <2>1, <2>2, <2>3
<1>9. ASSUME NEW k \in pushes, PushStep(k)
      PROVE  Goal
  <2>0. k \in Push /\ k.from \in Device
    BY <1>0, PushOK
  <2>1. CASE pass' = pass /\ \E step : Moves(k, step)
    <3>1. PICK step : pushes' = (pushes \ {k}) \cup {[k EXCEPT !.step = step]}
      BY <2>1 DEF Moves
    <3>2. CASE g = [k EXCEPT !.step = step]
      <4>1. Heir(k, g)
        BY <2>0, <3>2 DEF Heir, Push
      <4> QED
        BY <2>1, <4>1
    <3> QED
      BY <1>1, <2>1, <3>1, <3>2
  <2>2. CASE Classify(k)
    <3> DEFINE seen == Without(server, Sequence \ Held(k.turns))
    <3>1. pushes' = (pushes \ {k}) \cup {[k EXCEPT !.step = "explain", !.seen = seen]}
      BY <2>2 DEF Classify
    <3>2. CASE g = [k EXCEPT !.step = "explain", !.seen = seen]
      <4>1. g.from = k.from /\ g.turns = k.turns /\ g.seen = seen /\ g.client = k.client
        <5> HIDE DEF seen
        <5> QED
          BY <2>0, <3>2 DEF Push
      <4>2. Heir(k, g)
        BY <4>1 DEF Heir
      <4>3. pass' = pass
        BY <2>2 DEF Classify
      <4> QED
        BY <4>2, <4>3
    <3>3. CASE g \in pushes
      BY <1>1, <2>2, <3>3 DEF Classify
    <3> QED
      BY <3>1, <3>2, <3>3
  <2>3. CASE /\ pushes' = pushes \ {k}
             /\ \/ pass' = pass
                \/ k.client = "waiting" /\ \E q : pass' = [pass EXCEPT ![k.from] = q]
    <3>1. g \in pushes /\ g # k /\ g.from \in Device
      BY <1>0, <2>3, PushOK
    <3>2. CASE pass' = pass
      BY <1>1, <3>1, <3>2
    <3>3. CASE k.client = "waiting" /\ \E q : pass' = [pass EXCEPT ![k.from] = q]
      <4>1. g.client = "waiting" => g.from # k.from
        BY <1>0, <3>1, <3>3 DEF TalkOK, OneWaits
      <4>2. g.client = "waiting" => pass'[g.from] = pass[g.from]
        BY <1>0, <3>1, <3>3, <4>1
      <4> QED
        BY <1>1, <3>1, <4>2
    <3> QED
      BY <2>3, <3>2, <3>3
  <2>4. ASSUME Stops(k.from) \/ Retry(k.from) \/ Confirmed(k.from, k.turns)
        PROVE  \E q : pass' = [pass EXCEPT ![k.from] = q]
    BY <2>4 DEF Stops, Retry, Confirmed, Goes
  <2>5. CASE FindOwner(k) \/ EnsureChat(k)
    BY <2>1, <2>3, <2>4, <2>5 DEF FindOwner, EnsureChat, Replies
  <2>6. CASE CheckBase(k) \/ Insert(k)
    BY <2>1, <2>3, <2>4, <2>6 DEF CheckBase, Insert, Replies
  <2>7. CASE Explain(k)
    BY <2>3, <2>4, <2>7 DEF Explain, Replies, Freeze
  <2> QED
    BY <1>9, <2>2, <2>5, <2>6, <2>7 DEF PushStep
<1> QED
  <2> HIDE DEF Goal
  <2>1. Goal
    BY <1>5, <1>6, <1>7, <1>8, <1>9 DEF Next, PassStep
  <2> QED
    BY <2>1 DEF Goal

-------------------------------------------------------------------------------
(* Places *)

\* A line of a file was there, or was to fetch, or was just written.
LEMMA LocalFrom ==
    ASSUME Typed, Next, NEW e \in Device, NEW n \in Sequence
    PROVE  \/ local'[e][n] \in {None, local[e][n], pass[e].todo[n]}
           \/ Writes(e) /\ n = NextSequence(local[e]) /\ local'[e][n] = NewTurn(e)
<1>0. local \in [Device -> Log] /\ local[e] \in Log /\ pass[e].todo \in Log /\ Empty[n] = None
  BY PassOK, EmptyLog DEF Typed, FilesOK
<1>1. CASE local' = local
  BY <1>1
<1>2. ASSUME NEW d \in Device, FileWritten(d)
      PROVE  \/ local'[e][n] \in {None, local[e][n], pass[e].todo[n]}
             \/ Writes(e) /\ n = NextSequence(local[e]) /\ local'[e][n] = NewTurn(e)
  BY <1>0, <1>2 DEF FileWritten, Log
<1>3. ASSUME NEW d \in Device, FileRetired(d)
      PROVE  local'[e][n] \in {None, local[e][n], pass[e].todo[n]}
  <2>1. local' = [local EXCEPT ![d] = Without(local[d], {NextSequence(local[d]) - 1})]
    BY <1>3 DEF FileRetired
  <2>2. local[d] \in Log
    BY <1>0
  <2>3. Without(local[d], {NextSequence(local[d]) - 1})[n] \in {None, local[d][n]}
    BY <2>2, WithoutFacts
  <2> QED
    BY <1>0, <2>1, <2>3
<1>4. ASSUME NEW d \in Device, FileErased(d)
      PROVE  local'[e][n] \in {None, local[e][n], pass[e].todo[n]}
  BY <1>0, <1>4 DEF FileErased
<1>5. ASSUME NEW d \in Device, FileFetched(d)
      PROVE  local'[e][n] \in {None, local[e][n], pass[e].todo[n]}
  <2>1. local' = [local EXCEPT ![d] = Joined(local[d], FirstOf(pass[d].todo, FetchChunk))]
    BY <1>5 DEF FileFetched
  <2>2. pass[d].todo \in Log /\ local[d] \in Log
    BY <1>0, PassOK DEF Typed
  <2>3. /\ FirstOf(pass[d].todo, FetchChunk) \in Log
        /\ FirstOf(pass[d].todo, FetchChunk)[n] \in {None, pass[d].todo[n]}
    BY <2>2, SizesAssumption, FirstOfFacts
  <2>4. Joined(local[d], FirstOf(pass[d].todo, FetchChunk))[n]
           \in {local[d][n], FirstOf(pass[d].todo, FetchChunk)[n]}
    BY <2>2, <2>3, JoinedFacts
  <2> QED
    BY <1>0, <2>1, <2>3, <2>4
<1> QED
  BY <1>1, <1>2, <1>3, <1>4, <1>5, FilesFrom

\* A turn away from d was there, or it is just leaving d while nobody sends,
\* or another computer has just written it.
LEMMA AwayFrom ==
    ASSUME Typed, ThereIsThere, Next, NEW d \in Device, NEW n \in Sequence, NEW t \in Turn,
           Away(d, n, t)'
    PROVE  \/ Away(d, n, t)
           \/ local'[d][n] = t /\ ~Busy(d)
           \/ \E e \in Device \ {d} :
                 Writes(e) /\ n = NextSequence(local[e]) /\ t = NewTurn(e)
<1> DEFINE Goal ==
           \/ Away(d, n, t)
           \/ local'[d][n] = t /\ ~Busy(d)
           \/ \E e \in Device \ {d} :
                 Writes(e) /\ n = NextSequence(local[e]) /\ t = NewTurn(e)
<1>0. t # None /\ TalkOK /\ server \in Log
  BY NoneIsNoTurn DEF Typed, FilesOK
<1>1. ASSUME server'[n] = t
      PROVE  Goal
  <2>1. CASE server' = server
    BY <1>1, <2>1 DEF Away
  <2>2. ASSUME NEW h \in pushes, server' = Joined(server, h.turns)
        PROVE  Goal
    <3>1. h.turns \in Log
      BY <1>0, PushOK
    <3>2. server'[n] \in {server[n], h.turns[n]}
      BY <1>0, <2>2, <3>1, JoinedFacts
    <3> QED
      BY <1>1, <3>2 DEF Away
  <2> QED
    BY <2>1, <2>2, ServerFrom
<1>2. ASSUME NEW e \in Device, local'[e][n] = t, e # d
      PROVE  Goal
  <2>1. CASE local'[e][n] \in {local[e][n], pass[e].todo[n]}
    BY <1>2, <2>1 DEF Away
  <2>2. CASE Writes(e) /\ n = NextSequence(local[e]) /\ local'[e][n] = NewTurn(e)
    BY <1>2, <2>2
  <2> QED
    BY <1>0, <1>2, <2>1, <2>2, LocalFrom
<1>3. ASSUME NEW e \in Device, pass'[e].todo[n] = t
      PROVE  Goal
  <2>1. CASE pass'[e].todo[n] \in {pass[e].todo[n], server[n]}
    BY <1>3, <2>1 DEF Away
  <2>2. CASE pass'[e].todo[n] = local'[e][n] /\ ~Busy(e)
    BY <1>2, <1>3, <2>2
  <2> QED
    BY <1>0, <1>3, <2>1, <2>2, TodoFrom
<1>4. ASSUME NEW g \in pushes', g.turns[n] = t
      PROVE  Goal
  <2>1. CASE \E h \in pushes : Heir(h, g)
    BY <1>4, <2>1 DEF Heir, Away
  <2>2. CASE /\ g.from \in Device /\ pass'[g.from] \in Pass
             /\ g.turns = Batch(pass'[g.from].todo)
    <3>1. pass'[g.from].todo \in Log
      BY <2>2 DEF Pass
    <3>2. Batch(pass'[g.from].todo)[n] \in {None, pass'[g.from].todo[n]}
      BY <3>1, SizesAssumption, FirstOfFacts DEF Batch
    <3> QED
      BY <1>0, <1>3, <1>4, <2>2, <3>2
  <2> QED
    BY <2>1, <2>2, PushesFrom
<1> QED
  <2> HIDE DEF Goal
  <2>1. Goal
    BY <1>1, <1>2, <1>3, <1>4 DEF Away
  <2> QED
    BY <2>1 DEF Goal

\* A place is the file of a computer, or away from it.
LEMMA PlacedIsHereOrAway ==
    ASSUME NEW d \in Device, NEW n \in Sequence, NEW t \in Turn
    PROVE  /\ Placed(n, t) <=> local[d][n] = t \/ Away(d, n, t)
           /\ Placed(n, t)' <=> local'[d][n] = t \/ Away(d, n, t)'
BY DEF Placed, Away

\* A place was one before, or is that of a new turn.
LEMMA PlacedFrom ==
    ASSUME Typed, ThereIsThere, Next, NEW n \in Sequence, NEW t \in Turn, Placed(n, t)'
    PROVE  \/ Placed(n, t)
           \/ \E e \in Device : Writes(e) /\ n = NextSequence(local[e]) /\ t = NewTurn(e)
<1>0. Creator \in Device /\ t # None
  BY DeviceFacts, NoneIsNoTurn
<1>1. ASSUME local'[Creator][n] = t
      PROVE  \/ Placed(n, t)
             \/ \E e \in Device : Writes(e) /\ n = NextSequence(local[e]) /\ t = NewTurn(e)
  BY <1>0, <1>1, LocalFrom DEF Placed
<1>2. CASE Away(Creator, n, t)'
  BY <1>0, <1>1, <1>2, AwayFrom, PlacedIsHereOrAway
<1> QED
  BY <1>0, <1>1, <1>2, PlacedIsHereOrAway

\* A log of placed turns.
InPlace(log) == \A n \in Held(log) : Placed(n, log[n])

LEMMA PlacedLogs ==
    /\ InPlace(server)
    /\ \A d \in Device : InPlace(local[d]) /\ InPlace(pass[d].todo)
    /\ \A h \in pushes : InPlace(h.turns)
BY DEF InPlace, Placed

LEMMA InPlaceFacts ==
    ASSUME PlacedInv, NEW log \in Log, InPlace(log)
    PROVE  /\ \A n \in Held(log) : /\ n \in Sequence /\ log[n] \in Turn
                                   /\ log[n] \in DOMAIN born \ retired
                                   /\ born[log[n]] = None <=> n = 0
           /\ \A n, i \in Held(log) : log[n] = log[i] => n = i
BY LogFacts DEF PlacedInv, InPlace

\* What the turns of a story follow.
LEMMA StoryFacts ==
    ASSUME PlacedInv, NEW log \in Log, InPlace(log), Story(log),
           NEW n \in Held(log), n > 0
    PROVE  /\ n - 1 \in Sequence /\ born[log[n]] # None
           /\ born[log[n]] \in Unfit \/ (born[log[n]] = log[n - 1] /\ n - 1 \in Held(log))
<1>0. n \in Sequence
  BY LogFacts
<1>1. n \in Nat /\ n # 0 /\ n \in Sequence
  BY <1>0, SequenceFacts
<1>2. n - 1 \in Sequence
  BY <1>1, SequenceFacts
<1>3. born[log[n]] # None /\ born[log[n]] \in {log[n - 1]} \cup Unfit
  BY <1>1 DEF Story
<1> QED
  BY <1>2, <1>3, LogFacts

\* The next line of a file is within the bound as long as a turn may be written.
LEMMA RoomForTurn ==
    ASSUME StoreInv, NEW d \in Device, Cardinality(DOMAIN born) < MaxTurns
    PROVE  /\ NextSequence(local[d]) \in Sequence
           /\ NextSequence(local[d]) <= Cardinality(DOMAIN born)
<1> DEFINE file == local[d]
<1>0. /\ file \in Log /\ PlacedInv /\ InPlace(file)
      /\ Cardinality(DOMAIN born) \in Nat
  BY FS_CardinalityType, PlacedLogs DEF StoreInv, Typed, FilesOK, BornCounted
<1> HIDE DEF file
<1>1. /\ NextSequence(file) \in 0..MaxTurns
      /\ NextSequence(file) > 0 => NextSequence(file) - 1 \in Held(file)
  BY <1>0, NextOfLog
<1>2. NextSequence(file) <= Cardinality(DOMAIN born)
  <2>1. CASE NextSequence(file) = 0
    BY <1>0, <2>1
  <2>2. CASE NextSequence(file) > 0
    <3>1. PICK n \in Sequence : n = NextSequence(file) - 1 /\ n \in Held(file)
      BY <1>0, <1>1, <2>2, LogFacts
    <3>2. n < Cardinality(DOMAIN born)
      BY <1>0, <3>1, LogFacts DEF InPlace, PlacedInv
    <3> QED
      BY <1>0, <1>1, <3>1, <3>2, SequenceFacts
  <2> QED
    BY <1>1, <2>1, <2>2, SequenceFacts
<1>3. NextSequence(file) \in Sequence
  BY <1>0, <1>1, <1>2, SequenceFacts
<1> QED
  BY <1>2, <1>3 DEF file

-------------------------------------------------------------------------------
(* The unanswered turn *)

\* The unanswered turn stays, or it has just been written.
LEMMA MineFrom ==
    ASSUME Typed, Next, NEW d \in Device, mine'[d] # None
    PROVE  \/ mine'[d] = mine[d] /\ ~Writes(d) /\ ~EndSend(d)
           \/ WriteMessage(d) /\ mine'[d] = NewTurn(d)
<1>0. mine \in [Device -> Turn \cup {None}]
  BY DEF Typed, FilesOK
<1>1. ASSUME Writes(d)
      PROVE  WriteMessage(d) /\ mine'[d] = NewTurn(d)
  BY <1>0, <1>1 DEF Writes, WriteMessage, WriteReply
<1>2. ASSUME EndSend(d)
      PROVE  FALSE
  BY <1>0, <1>2 DEF EndSend
<1>3. mine'[d] \in {None, mine[d]} \/ Writes(d)
  <2>1. ASSUME NEW e \in Device, StartSend(e) \/ SendStep(e)
        PROVE  mine'[d] \in {None, mine[d]} \/ Writes(d)
    BY <1>0, <2>1 DEF StartSend, SendStep, WriteMessage, WriteReply, EndSend, Writes
  <2>2. ASSUME NEW e \in Device, BeginDelete(e) \/ DeleteStep(e)
        PROVE  mine' = mine
    BY <2>2 DEF BeginDelete, DeleteStep, Bury, EraseFile, EndDelete, sendVars
  <2>3. ASSUME NEW e \in Device, NEW mode \in {"all", "one"}, BeginPass(e, mode)
        PROVE  mine' = mine
    BY <2>3 DEF BeginPass, sendVars
  <2>4. ASSUME NEW e \in Device, PassStep(e)
        PROVE  mine' = mine
    BY <2>4 DEF PassStep, ReadList, Enter, ReadManifest, Compare, Download, NextBatch, sendVars
  <2>5. ASSUME NEW e \in Device, CutPass(e) \/ Crash(e)
        PROVE  mine'[d] \in {None, mine[d]}
    BY <1>0, <2>5 DEF CutPass, Crash, sendVars
  <2>6. ASSUME NEW h \in pushes, PushStep(h)
        PROVE  mine' = mine
    BY <2>6 DEF PushStep, sendVars
  <2> QED
    BY <2>1, <2>2, <2>3, <2>4, <2>5, <2>6 DEF Next
<1> QED
  BY <1>1, <1>2, <1>3

LEMMA StepSend ==
    ASSUME Typed, SendInv, Next
    PROVE  SendInv'
<1>0. /\ mine \in [Device -> Turn \cup {None}] /\ tomb \subseteq Device
      /\ send \in [Device -> {"idle", "started", "asked"}]
      /\ erasing \in [Device -> {"no", "waiting", "buried", "erased"}]
  BY DEF Typed, FilesOK, FlagsOK
<1>1. ASSUME mine' = mine, send' = send, erasing' = erasing, tomb' = tomb
      PROVE  SendInv'
  BY <1>1 DEF SendInv
<1>2. ASSUME NEW d \in Device, StartSend(d)
      PROVE  SendInv'
  BY <1>0, <1>2 DEF StartSend, Busy, SendInv, eraseVars
<1>3. ASSUME NEW d \in Device, WriteMessage(d)
      PROVE  SendInv'
  <2>1. NewTurn(d) # None
    BY <1>3, AppendedCounts, NoneIsNoTurn DEF WriteMessage
  <2>2. /\ send' = [send EXCEPT ![d] = "asked"] /\ mine' = [mine EXCEPT ![d] = NewTurn(d)]
        /\ erasing' = erasing /\ tomb' = tomb /\ send[d] = "started"
    BY <1>3 DEF WriteMessage, eraseVars
  <2>3. erasing[d] = "no"
    BY <2>2 DEF SendInv
  <2> QED
    BY <1>0, <2>1, <2>2, <2>3 DEF SendInv
<1>4. ASSUME NEW d \in Device, WriteReply(d) \/ EndSend(d)
      PROVE  SendInv'
  BY <1>0, <1>4 DEF WriteReply, EndSend, SendInv, eraseVars
<1>5. ASSUME NEW d \in Device, BeginDelete(d)
      PROVE  SendInv'
  <2>1. /\ erasing' = [erasing EXCEPT ![d] = "waiting"] /\ send[d] = "idle"
        /\ mine' = mine /\ send' = send /\ tomb' = tomb
    BY <1>5 DEF BeginDelete, Busy, sendVars
  <2> QED
    BY <1>0, <2>1 DEF SendInv
<1>6. ASSUME NEW d \in Device, DeleteStep(d)
      PROVE  SendInv'
  <2>1. mine' = mine /\ send' = send
    BY <1>6 DEF DeleteStep, Bury, EraseFile, EndDelete, sendVars
  <2>2. CASE Bury(d)
    <3>1. /\ erasing' = [erasing EXCEPT ![d] = "buried"] /\ tomb' = tomb \cup {d}
          /\ erasing[d] = "waiting"
      BY <2>2 DEF Bury
    <3> QED
      BY <1>0, <2>1, <3>1 DEF SendInv
  <2>3. CASE EraseFile(d)
    <3>1. /\ erasing' = [erasing EXCEPT ![d] = "erased"] /\ tomb' = tomb
          /\ erasing[d] = "buried"
      BY <2>3 DEF EraseFile
    <3> QED
      BY <1>0, <2>1, <3>1 DEF SendInv
  <2>4. CASE EndDelete(d)
    <3>1. erasing' = [erasing EXCEPT ![d] = "no"] /\ tomb' = tomb
      BY <2>4 DEF EndDelete
    <3> QED
      BY <1>0, <2>1, <3>1 DEF SendInv
  <2> QED
    BY <1>6, <2>2, <2>3, <2>4 DEF DeleteStep
<1>7. ASSUME NEW d \in Device, NEW mode \in {"all", "one"}, BeginPass(d, mode)
      PROVE  SendInv'
  BY <1>1, <1>7 DEF BeginPass, sendVars, eraseVars
<1>8. ASSUME NEW d \in Device, PassStep(d)
      PROVE  SendInv'
  <2>1. mine' = mine /\ send' = send /\ erasing' = erasing /\ tomb' = tomb
    BY <1>8 DEF PassStep, ReadList, Enter, ReadManifest, Compare, Download, NextBatch,
                sendVars, eraseVars
  <2> QED
    BY <1>1, <2>1
<1>9. ASSUME NEW d \in Device, CutPass(d)
      PROVE  SendInv'
  BY <1>1, <1>9 DEF CutPass, sendVars, eraseVars
<1>10. ASSUME NEW d \in Device, Crash(d)
       PROVE  SendInv'
  <2>1. /\ send' = [send EXCEPT ![d] = "idle"] /\ mine' = [mine EXCEPT ![d] = None]
        /\ erasing' = [erasing EXCEPT ![d] = "no"] /\ tomb' = tomb
    BY <1>10 DEF Crash
  <2> QED
    BY <1>0, <2>1 DEF SendInv
<1>11. ASSUME NEW h \in pushes, PushStep(h)
       PROVE  SendInv'
  BY <1>1, <1>11 DEF PushStep, sendVars, eraseVars
<1> QED
  BY <1>2, <1>3, <1>4, <1>5, <1>6, <1>7, <1>8, <1>9, <1>10, <1>11 DEF Next, SendStep

\* The file of a computer with an unanswered turn stays as it is, until the
\* reply is written or the send ends.
LEMMA FileWaits ==
    ASSUME StoreInv, Next, NEW d \in Device, mine[d] # None, ~Writes(d), ~EndSend(d)
    PROVE  local'[d] = local[d]
<1>0. /\ send[d] = "asked" /\ erasing[d] = "no"
      /\ local \in [Device -> Log]
  BY DEF StoreInv, SendInv, Typed, FilesOK
<1>1. ASSUME NEW e \in Device, FileWritten(e) \/ FileRetired(e) \/ FileErased(e) \/ FileFetched(e)
      PROVE  local'[d] = local[d]
  <2>1. e # d
    BY <1>0, <1>1 DEF FileWritten, FileRetired, FileErased, EraseFile, FileFetched, Busy
  <2> QED
    BY <1>0, <1>1, <2>1 DEF FileWritten, FileRetired, FileErased, FileFetched
<1> QED
  BY <1>1, FilesFrom

LEMMA StepMine ==
    ASSUME StoreInv, Next
    PROVE  MineHome'
<1>0. Typed /\ ThereIsThere /\ PlacedInv /\ SendInv /\ MineHome
  BY DEF StoreInv
<1> SUFFICES ASSUME NEW d \in Device, mine'[d] # None
             PROVE  /\ \E n \in Held(local'[d]) : /\ local'[d][n] = mine'[d]
                                                  /\ \A i \in Held(local'[d]) : i <= n
                    /\ \A n \in Sequence : ~(Away(d, n, mine[d])')
  BY DEF MineHome
<1>3. local[d] \in Log /\ local \in [Device -> Log] /\ local'[d] \in Log
      /\ mine[d] \in Turn \cup {None}
  BY <1>0, StepFiles DEF Typed, FilesOK
<1>1. CASE mine'[d] = mine[d] /\ ~Writes(d) /\ ~EndSend(d)
  <2>1. local'[d] = local[d]
    BY <1>1, FileWaits
  <2>2. Busy(d) /\ mine[d] \in Turn /\ mine[d] \in DOMAIN born
    BY <1>0, <1>1, <1>3 DEF SendInv, Busy, Typed, FilesOK
  <2>3. \E n \in Held(local[d]) : local[d][n] = mine[d] /\ \A i \in Held(local[d]) : i <= n
    BY <1>0, <1>1 DEF MineHome
  <2>4. ASSUME NEW n \in Sequence, NEW t \in Turn, t = mine[d], Away(d, n, t)'
        PROVE  FALSE
    <3>1. ~Away(d, n, mine[d])
      BY <1>0, <1>1 DEF MineHome
    <3>2. ~Away(d, n, t)
      BY <2>4, <3>1
    <3>3. PICK e \in Device : Writes(e) /\ t = NewTurn(e)
      BY <1>0, <2>2, <2>4, <3>2, AwayFrom
    <3>4. NewTurn(e) \notin DOMAIN born
      BY <1>0, <3>3, AppendedCounts DEF Writes, WriteMessage, WriteReply
    <3> QED
      BY <2>2, <2>4, <3>3, <3>4
  <2>5. PICK t \in Turn : t = mine[d]
    BY <2>2
  <2>6. \A n \in Sequence : ~(Away(d, n, t)')
    BY <2>4, <2>5
  <2>7. \A n \in Sequence : ~(Away(d, n, mine[d])')
    BY <1>1, <2>5, <2>6 DEF Away
  <2> QED
    BY <1>1, <2>1, <2>3, <2>7
<1>2. CASE WriteMessage(d) /\ mine'[d] = NewTurn(d)
  <2> DEFINE n == NextSequence(local[d])
  <2>1. Appended(d, NewTurn(d)) /\ Busy(d)
    BY <1>2 DEF WriteMessage, Busy
  <2>2. NewTurn(d) \in Turn \ DOMAIN born
    BY <1>0, <2>1, AppendedCounts
  <2>3. n \in Sequence
    BY <2>1, RoomForTurn DEF Appended
  <2>4. \A i \in Held(local[d]) : i < n
    BY <1>3, NextOfLog
  <2>5. local' = [local EXCEPT ![d][n] = NewTurn(d)]
    BY <2>1 DEF Appended
  <2> HIDE DEF n
  <2>6. local'[d][n] = NewTurn(d) /\ \A i \in Sequence \ {n} : local'[d][i] = local[d][i]
    BY <1>3, <2>3, <2>5 DEF Log
  <2>7. n \in Held(local'[d]) /\ \A i \in Held(local'[d]) : i <= n
    <3>1. n \in Held(local'[d])
      BY <2>2, <2>3, <2>6, NoneIsNoTurn DEF Held
    <3>2. ASSUME NEW i \in Held(local'[d])
          PROVE  i <= n
      <4>1. i \in Sequence /\ n \in Nat /\ i \in Nat /\ local'[d][i] # None
        BY <2>3, SequenceFacts DEF Held
      <4>2. CASE i = n
        BY <4>1, <4>2
      <4>3. CASE i # n
        <5>1. i \in Held(local[d])
          BY <2>6, <4>1, <4>3 DEF Held
        <5> QED
          BY <2>4, <4>1, <5>1
      <4> QED
        BY <4>2, <4>3
    <3> QED
      BY <3>1, <3>2
  <2>8. ASSUME NEW i \in Sequence, NEW t \in Turn, t = NewTurn(d), Away(d, i, t)'
        PROVE  FALSE
    <3>1. ~Placed(i, t)
      BY <1>0, <2>2, <2>8 DEF PlacedInv
    <3>2. ~Away(d, i, t)
      BY <3>1, PlacedIsHereOrAway
    <3>3. PICK e \in Device \ {d} : Writes(e) /\ t = NewTurn(e)
      BY <1>0, <2>1, <2>8, <3>2, AwayFrom
    <3>4. NewTurn(e)[1] = e /\ NewTurn(d)[1] = d
      BY DEF NewTurn
    <3> QED
      BY <2>8, <3>3, <3>4
  <2>9. PICK t \in Turn : t = NewTurn(d)
    BY <2>2
  <2>10. \A i \in Sequence : ~(Away(d, i, t)')
    BY <2>8, <2>9
  <2>11. \A i \in Sequence : ~(Away(d, i, mine[d])')
    BY <1>2, <2>9, <2>10 DEF Away
  <2> QED
    BY <1>2, <2>6, <2>7, <2>11
<1> QED
  BY <1>0, <1>1, <1>2, MineFrom

-------------------------------------------------------------------------------
(* One place for each turn *)

\* The turn that is taken back leaves its only place.
LEMMA RetiredIsGone ==
    ASSUME StoreInv, Next, NEW d \in Device, FileRetired(d), NEW n \in Sequence,
           NEW t \in Turn, t = mine[d], Placed(n, t)'
    PROVE  FALSE
<1>0. /\ Typed /\ ThereIsThere /\ PlacedInv /\ MineHome /\ local[d] \in Log
      /\ local \in [Device -> Log] /\ mine[d] # None
  BY DEF StoreInv, Typed, FilesOK, FileRetired
<1>1. Busy(d) /\ EndSend(d) /\ send[d] # "idle"
  BY DEF FileRetired, EndSend, Busy
<1>2. \A i \in Sequence : ~Away(d, i, t)
  BY <1>0 DEF MineHome
<1>3. PICK last \in Held(local[d]) :
         local[d][last] = mine[d] /\ \A i \in Held(local[d]) : i <= last
  BY <1>0 DEF MineHome
<1>4. NextSequence(local[d]) - 1 = last
  <2>1. last \in Sequence /\ last \in Nat
    BY <1>0, LogFacts, SequenceFacts
  <2>2. /\ NextSequence(local[d]) \in 0..MaxTurns /\ last < NextSequence(local[d])
        /\ NextSequence(local[d]) > 0 => NextSequence(local[d]) - 1 \in Held(local[d])
    BY <1>0, NextOfLog
  <2>3. NextSequence(local[d]) - 1 <= last
    BY <1>3, <2>1, <2>2, SequenceFacts
  <2> QED
    BY <2>1, <2>2, <2>3, SequenceFacts
<1>5. local'[d] = Without(local[d], {last})
  BY <1>0, <1>4 DEF FileRetired
<1>6. local'[d][n] # t
  <2>1. CASE n = last
    BY <1>0, <1>5, <2>1, WithoutFacts, NoneIsNoTurn
  <2>2. CASE n # last
    <3>1. local[d][n] # t
      <4>1. last \in Sequence /\ Placed(last, t)
        BY <1>0, <1>3, LogFacts DEF Placed
      <4>2. local[d][n] = t => Placed(n, t)
        BY DEF Placed
      <4> QED
        BY <1>0, <2>2, <4>1, <4>2 DEF PlacedInv
    <3> QED
      BY <1>0, <1>5, <2>2, <3>1, WithoutFacts, NoneIsNoTurn
  <2> QED
    BY <2>1, <2>2
<1>7. Away(d, n, t)'
  BY <1>6, PlacedIsHereOrAway
<1>8. PICK e \in Device \ {d} : Writes(e)
  BY <1>0, <1>1, <1>2, <1>7, AwayFrom
<1>9. mine' = [mine EXCEPT ![d] = None] /\ local'[e] = local[e]
  BY <1>0, <1>1, <1>8 DEF EndSend, FileRetired
<1>10. send'[d] = "idle" /\ send'[d] = send[d]
  BY <1>0, <1>1, <1>8 DEF EndSend, Writes, WriteMessage, WriteReply, Typed, FlagsOK
<1> QED
  BY <1>1, <1>10

LEMMA StepPlaced ==
    ASSUME StoreInv, Next
    PROVE  PlacedInv'
<1>0. Typed /\ ThereIsThere /\ PlacedInv /\ BornCounted
  BY DEF StoreInv, Typed, FilesOK
<1>1. ASSUME NEW e \in Device, Writes(e)
      PROVE  /\ NewTurn(e) \in Turn \ DOMAIN born /\ NewTurn(e)[1] = e
             /\ NewTurn(e) \in DOMAIN born' /\ retired' = retired
             /\ born'[NewTurn(e)] = None <=> NextSequence(local[e]) = 0
             /\ NextSequence(local[e]) \in Sequence
             /\ NextSequence(local[e]) < Cardinality(DOMAIN born')
  <2>1. Appended(e, NewTurn(e)) /\ retired' = retired
    BY <1>1 DEF Writes, WriteMessage, WriteReply
  <2>2. /\ NextSequence(local[e]) \in Sequence /\ NextSequence(local[e]) \in Nat
        /\ NextSequence(local[e]) <= Cardinality(DOMAIN born)
    BY <2>1, RoomForTurn, SequenceFacts DEF Appended
  <2>3. local[e] \in Log
    BY <1>0 DEF Typed, FilesOK
  <2>4. NextSequence(local[e]) # 0 =>
           local[e][NextSequence(local[e]) - 1] # None
    BY <2>2, <2>3, NextOfLog, LogFacts, SequenceFacts
  <2>5. NewTurn(e)[1] = e
    BY DEF NewTurn
  <2>6. NewTurn(e) \notin DOMAIN born /\ DOMAIN born' = DOMAIN born \cup {NewTurn(e)}
    BY <1>0, <2>1, AppendedCounts
  <2>7. /\ Cardinality(DOMAIN born) \in Nat
        /\ Cardinality(DOMAIN born') = Cardinality(DOMAIN born) + 1
    BY <1>0, <2>6, FS_CardinalityType, FS_AddElement DEF BornCounted
  <2>8. NextSequence(local[e]) < Cardinality(DOMAIN born')
    BY <2>2, <2>7
  <2> QED
    BY <1>0, <2>1, <2>2, <2>4, <2>5, <2>8, AppendedCounts
<1>2. ASSUME NEW n \in Sequence, NEW t \in Turn, Placed(n, t), Placed(n, t)'
      PROVE  /\ t \in DOMAIN born' \ retired' /\ (born'[t] = None <=> n = 0)
             /\ n < Cardinality(DOMAIN born')
  <2>1. /\ t \in DOMAIN born \ retired /\ (born[t] = None <=> n = 0)
        /\ n < Cardinality(DOMAIN born)
    BY <1>0, <1>2 DEF PlacedInv
  <2>2. t \in DOMAIN born' /\ born'[t] = born[t]
    BY <1>0, <2>1, BornFrom
  <2>3. t \notin retired'
    <3>1. CASE retired' = retired
      BY <2>1, <3>1
    <3>2. ASSUME NEW d \in Device, FileRetired(d), retired' = retired \cup {mine[d]}
          PROVE  t \notin retired'
      BY <1>2, <2>1, <3>2, RetiredIsGone
    <3> QED
      BY <1>0, <3>1, <3>2, BornFrom
  <2>4. n < Cardinality(DOMAIN born')
    <3>1. DOMAIN born \in SUBSET (DOMAIN born') /\ IsFiniteSet(DOMAIN born')
      BY <1>0, BornFrom, StepFiles DEF FilesOK, BornCounted
    <3>2. /\ Cardinality(DOMAIN born) <= Cardinality(DOMAIN born')
          /\ Cardinality(DOMAIN born) \in Nat /\ Cardinality(DOMAIN born') \in Nat
      BY <1>0, <3>1, FS_Subset, FS_CardinalityType DEF BornCounted
    <3>3. n \in Nat
      BY SequenceFacts
    <3> QED
      BY <2>1, <3>2, <3>3
  <2> QED
    BY <2>1, <2>2, <2>3, <2>4
<1>3. ASSUME NEW n \in Sequence, NEW t \in Turn, Placed(n, t)'
      PROVE  /\ t \in DOMAIN born' \ retired' /\ (born'[t] = None <=> n = 0)
             /\ n < Cardinality(DOMAIN born')
  <2>1. CASE Placed(n, t)
    BY <1>2, <1>3, <2>1
  <2>2. CASE \E e \in Device : Writes(e) /\ n = NextSequence(local[e]) /\ t = NewTurn(e)
    <3>1. retired \subseteq DOMAIN born
      BY <1>0 DEF Typed, FilesOK
    <3> QED
      BY <1>1, <2>2, <3>1
  <2> QED
    BY <1>0, <1>3, <2>1, <2>2, PlacedFrom
<1>4. ASSUME NEW n \in Sequence, NEW i \in Sequence, NEW t \in Turn,
             Placed(n, t)', Placed(i, t)'
      PROVE  n = i
  <2>1. Placed(n, t) => t \in DOMAIN born
    BY <1>0 DEF PlacedInv
  <2>2. Placed(i, t) => t \in DOMAIN born
    BY <1>0 DEF PlacedInv
  <2>3. \/ Placed(n, t)
        \/ \E e \in Device : Writes(e) /\ n = NextSequence(local[e]) /\ t = NewTurn(e)
    BY <1>0, <1>4, PlacedFrom
  <2>4. \/ Placed(i, t)
        \/ \E e \in Device : Writes(e) /\ i = NextSequence(local[e]) /\ t = NewTurn(e)
    BY <1>0, <1>4, PlacedFrom
  <2>5. CASE Placed(n, t) /\ Placed(i, t)
    BY <1>0, <2>5 DEF PlacedInv
  <2>6. CASE ~Placed(n, t) /\ ~Placed(i, t)
    <3>1. PICK e \in Device : Writes(e) /\ n = NextSequence(local[e]) /\ t = NewTurn(e)
      BY <2>3, <2>6
    <3>2. PICK f \in Device : Writes(f) /\ i = NextSequence(local[f]) /\ t = NewTurn(f)
      BY <2>4, <2>6
    <3>3. NewTurn(e)[1] = e /\ NewTurn(f)[1] = f
      BY <1>1, <3>1, <3>2
    <3>4. e = f
      BY <3>1, <3>2, <3>3
    <3> QED
      BY <3>1, <3>2, <3>4
  <2> QED
    BY <1>1, <2>1, <2>2, <2>3, <2>4, <2>5, <2>6
<1>5. ASSUME NEW n \in Sequence, NEW t \in Turn, Placed(n, t)'
      PROVE  \A i \in Sequence : Placed(i, t)' => n = i
  BY <1>4, <1>5
<1> QED
  BY <1>3, <1>5 DEF PlacedInv

-------------------------------------------------------------------------------
(* The stories *)

\* The server never loses or changes a turn.
LEMMA ServerGrows ==
    ASSUME Typed, Next
    PROVE  Within(server, server')
<1>0. TalkOK /\ server \in Log
  BY DEF Typed, FilesOK
<1>1. CASE server' = server
  BY <1>1 DEF Within
<1>2. ASSUME NEW h \in pushes, Fits(h), server' = Joined(server, h.turns)
      PROVE  Within(server, server')
  <2>1. h.turns \in Log
    BY <1>0, PushOK
  <2>2. \A n \in Held(server) : n \in Sequence /\ h.turns[n] = None
    BY <1>0, <1>2, <2>1, LogFacts DEF Fits
  <2> QED
    BY <1>0, <1>2, <2>1, <2>2, JoinedFacts DEF Within
<1> QED
  BY <1>1, <1>2, ServerFrom

\* A story of placed turns stays one.
LEMMA StoryStays ==
    ASSUME Typed, PlacedInv, Next, NEW log \in Log, InPlace(log), Story(log)
    PROVE  Chain(born', log)
<1>1. \A n \in Held(log) : log[n] \in DOMAIN born
  BY InPlaceFacts
<1>2. \A n \in Held(log) : born'[log[n]] = born[log[n]]
  BY <1>1, BornFrom
<1> QED
  BY <1>2 DEF Story, Chain, Follows

\* A story and what continues it are a story.
LEMMA JoinedStory ==
    ASSUME PlacedInv, NEW log \in Log, NEW other \in Log, InPlace(log), InPlace(other),
           Story(log), Continues(other, log), Held(other) \cap Held(log) = {}
    PROVE  Story(Joined(log, other))
<1> DEFINE both == Joined(log, other)
<1>0. /\ both \in Log /\ Held(both) = Held(log) \cup Held(other)
      /\ \A i \in Sequence : both[i] = IF other[i] # None THEN other[i] ELSE log[i]
  BY JoinedFacts
<1> HIDE DEF both
<1> SUFFICES ASSUME NEW n \in Held(both)
             PROVE  Follows(born, both, n)
  BY DEF Story, Follows, both
<1>1. n \in Held(log) \cup Held(other) /\ n \in Sequence /\ (n # 0 => n > 0 /\ n - 1 \in Sequence)
  <2>1. n \in Sequence
    BY <1>0, LogFacts
  <2> QED
    BY <1>0, <2>1, SequenceFacts
<1>2. CASE n \in Held(other)
  <2>1. both[n] = other[n]
    BY <1>0, <1>1, <1>2, LogFacts
  <2>2. born[other[n]] = None <=> n = 0
    BY <1>2, InPlaceFacts
  <2>3. n # 0 => Linked(born, other, log, n)
    BY <1>1, <1>2 DEF Continues, Links
  <2> QED
    BY <1>0, <1>1, <2>1, <2>2, <2>3 DEF Follows, Linked
<1>3. CASE n \in Held(log)
  <2>1. both[n] = log[n]
    BY <1>0, <1>1, <1>3, LogFacts
  <2>2. CASE n = 0
    BY <1>3, <2>1, <2>2 DEF Story, Follows
  <2>3. CASE n # 0
    <3>1. /\ born[log[n]] # None
          /\ born[log[n]] \in Unfit \/ (born[log[n]] = log[n - 1] /\ n - 1 \in Held(log))
      BY <1>1, <1>3, <2>3, StoryFacts
    <3>2. n - 1 \in Held(log) => both[n - 1] = log[n - 1]
      BY <1>0, <1>1, <2>3, LogFacts
    <3> QED
      BY <2>1, <2>3, <3>1, <3>2 DEF Follows
  <2> QED
    BY <2>2, <2>3
<1> QED
  BY <1>1, <1>2, <1>3

\* What is within the server is in place.
LEMMA WithinIsInPlace ==
    ASSUME NEW log, Within(log, server)
    PROVE  InPlace(log)
BY DEF Within, InPlace, Placed

\* What a pass keeps continues the file.
LEMMA ChunkContinues ==
    ASSUME StoreInv, NEW d \in Device, pass[d].at = "fetch", d \notin tomb
    PROVE  LET chunk == FirstOf(pass[d].todo, FetchChunk)
           IN chunk \in Log /\ InPlace(chunk) /\ Continues(chunk, local[d])
<1> DEFINE todo == pass[d].todo
<1> DEFINE there == pass[d].there
<1> DEFINE chunk == FirstOf(todo, FetchChunk)
<1>0. /\ todo \in Log /\ there \in Log /\ server \in Log /\ local[d] \in Log
      /\ PlacedInv /\ Story(server) /\ InPlace(server) /\ InPlace(todo)
      /\ Within(there, server) /\ Story(there) /\ Within(todo, there)
      /\ \A n \in Held(there) \ Held(todo) : local[d][n] = there[n]
  BY PassOK, PlacedLogs DEF StoreInv, Typed, FilesOK, ThereIsThere, PassKnows, StoryInv
<1> HIDE DEF there, todo
<1>1. /\ chunk \in Log
      /\ Held(chunk) \subseteq Held(todo)
      /\ \A n \in Held(chunk) : chunk[n] = todo[n]
      /\ \A n \in Held(chunk), i \in Held(todo) : i < n => i \in Held(chunk)
  BY <1>0, SizesAssumption, FirstOfFacts
<1> HIDE DEF chunk
<1>2. InPlace(chunk)
  BY <1>0, <1>1 DEF InPlace
<1>3. ASSUME NEW n \in Held(chunk), n > 0
      PROVE  Linked(born, chunk, local[d], n)
  <2>1. n \in Sequence /\ n - 1 \in Sequence /\ n \in Nat
    BY <1>1, <1>3, LogFacts, SequenceFacts
  <2>2. n \in Held(todo) /\ chunk[n] = todo[n]
    BY <1>1
  <2>3. there[n] = chunk[n] /\ n \in Held(there) /\ InPlace(there)
    BY <1>0, <2>1, <2>2, LogFacts, WithinIsInPlace DEF Within
  <2>5. \/ born[chunk[n]] \in Unfit
        \/ born[chunk[n]] = there[n - 1] /\ n - 1 \in Held(there)
    BY <1>0, <1>3, <2>3, StoryFacts
  <2>6. CASE born[chunk[n]] \in Unfit
    BY <2>6 DEF Linked
  <2>7. CASE born[chunk[n]] = there[n - 1] /\ n - 1 \in Held(todo)
    <3>1. n - 1 \in Held(chunk)
      BY <1>1, <2>1, <2>7
    <3>2. chunk[n - 1] = there[n - 1] /\ chunk[n - 1] # None
      BY <1>0, <1>1, <2>1, <2>7, <3>1, LogFacts DEF Within
    <3> QED
      BY <2>7, <3>2 DEF Linked
  <2>8. CASE born[chunk[n]] = there[n - 1] /\ n - 1 \in Held(there) \ Held(todo)
    <3>1. local[d][n - 1] = there[n - 1]
      BY <1>0, <2>8
    <3>2. chunk[n - 1] = None
      BY <1>1, <2>1, <2>8, LogFacts
    <3> QED
      BY <2>8, <3>1, <3>2 DEF Linked
  <2> QED
    BY <2>5, <2>6, <2>7, <2>8
<1>4. Continues(chunk, local[d])
  BY <1>3 DEF Continues, Links
<1> QED
  BY <1>1, <1>2, <1>4 DEF chunk, todo

\* Every step keeps the story of each file.
LEMMA StepFileStory ==
    ASSUME StoreInv, Next, NEW d \in Device
    PROVE  Chain(born', local'[d])
<1> DEFINE file == local[d]
<1>0. /\ Typed /\ PlacedInv /\ file \in Log /\ Story(file) /\ InPlace(file)
      /\ local \in [Device -> Log]
      /\ \A n \in Held(file) : file[n] \in DOMAIN born /\ file[n] \in Turn
  BY PlacedLogs, InPlaceFacts DEF StoreInv, StoryInv, Typed, FilesOK
<1>1. Chain(born', file)
  BY <1>0, StoryStays
<1>2. ASSUME local'[d] = file
      PROVE  Chain(born', local'[d])
  BY <1>1, <1>2
<1>3. CASE FileWritten(d)
  <2> DEFINE next == NextSequence(file)
  <2>1. Appended(d, NewTurn(d)) /\ local' = [local EXCEPT ![d][next] = NewTurn(d)]
    BY <1>3 DEF FileWritten, Writes, WriteMessage, WriteReply
  <2>2. next \in Sequence
    BY <2>1, RoomForTurn DEF Appended
  <2>3. /\ NewTurn(d) \in Turn \ DOMAIN born
        /\ born'[NewTurn(d)] = IF next = 0 THEN None ELSE file[next - 1]
    BY <1>0, <2>1, AppendedCounts
  <2>4. \A i \in Held(file) : i < next
    BY <1>0, NextOfLog
  <2>5. local'[d] \in Log
    BY <1>0, StepFiles DEF Typed, FilesOK
  <2>8. next # 0 => file[next - 1] # None
    BY <1>0, <2>2, NextOfLog, LogFacts, SequenceFacts
  <2> HIDE DEF next
  <2>6. local'[d][next] = NewTurn(d) /\ \A i \in Sequence \ {next} : local'[d][i] = file[i]
    BY <1>0, <2>1, <2>2 DEF Log
  <2>7. ASSUME NEW n \in Held(local'[d])
        PROVE  Follows(born', local'[d], n)
    <3>1. n \in Sequence /\ n \in Nat /\ next \in Nat /\ (n > 0 => n - 1 \in Sequence)
      BY <2>2, <2>5, LogFacts, SequenceFacts
    <3>2. CASE n = next
      <4>1. n > 0 => local'[d][n - 1] = file[n - 1]
        BY <2>6, <3>1, <3>2
      <4> QED
        BY <2>3, <2>6, <2>8, <3>1, <3>2, <4>1 DEF Follows
    <3>3. CASE n # next
      <4>1. n \in Held(file) /\ local'[d][n] = file[n]
        BY <1>0, <2>5, <2>6, <3>1, <3>3, LogFacts
      <4>2. n < next
        BY <2>4, <4>1
      <4>3. n > 0 => local'[d][n - 1] = file[n - 1]
        BY <2>6, <3>1, <4>2
      <4> QED
        BY <1>1, <3>1, <4>1, <4>3 DEF Chain, Follows
    <3> QED
      BY <3>2, <3>3
  <2> QED
    BY <2>7 DEF Chain
<1>4. CASE FileRetired(d)
  <2> DEFINE last == NextSequence(file) - 1
  <2>1. local'[d] = Without(file, {last})
    BY <1>0, <1>4 DEF FileRetired
  <2>2. /\ \A i \in Held(file) : i < NextSequence(file)
        /\ NextSequence(file) \in 0..MaxTurns
    BY <1>0, NextOfLog
  <2>3. ASSUME NEW n \in Held(local'[d])
        PROVE  Follows(born', local'[d], n)
    <3>1. n \in Held(file) /\ n # last /\ n \in Sequence
      <4> HIDE DEF last
      <4> QED
        BY <1>0, <2>1, WithoutFacts, LogFacts
    <3>2. n \in Nat /\ n < last /\ (n > 0 => n - 1 \in Sequence /\ n - 1 # last)
      BY <2>2, <3>1, SequenceFacts
    <3>3. local'[d][n] = file[n] /\ (n > 0 => local'[d][n - 1] = file[n - 1])
      <4> HIDE DEF last
      <4> QED
        BY <1>0, <2>1, <3>1, <3>2, WithoutFacts
    <3> QED
      BY <1>1, <3>1, <3>2, <3>3 DEF Chain, Follows
  <2> QED
    BY <2>3 DEF Chain
<1>5. CASE FileErased(d)
  <2>1. local'[d] = Empty
    BY <1>0, <1>5 DEF FileErased
  <2> QED
    BY <2>1, EmptyLog DEF Chain
<1>6. CASE FileFetched(d)
  <2> DEFINE chunk == FirstOf(pass[d].todo, FetchChunk)
  <2>1. /\ pass[d].at = "fetch" /\ d \notin tomb /\ Held(chunk) \cap Held(file) = {}
        /\ local'[d] = Joined(file, chunk) /\ born' = born
    BY <1>0, <1>6 DEF FileFetched, Download, sendVars
  <2>2. chunk \in Log /\ InPlace(chunk) /\ Continues(chunk, file)
    BY <2>1, ChunkContinues
  <2> HIDE DEF chunk
  <2>3. Story(Joined(file, chunk))
    BY <1>0, <2>1, <2>2, JoinedStory
  <2> QED
    BY <2>1, <2>3 DEF Story, Chain, Follows
<1>7. \/ local'[d] = file
      \/ FileWritten(d) \/ FileRetired(d) \/ FileErased(d) \/ FileFetched(d)
  <2>1. ASSUME NEW e \in Device, e # d,
               FileWritten(e) \/ FileRetired(e) \/ FileErased(e) \/ FileFetched(e)
        PROVE  local'[d] = file
    BY <1>0, <2>1 DEF FileWritten, FileRetired, FileErased, FileFetched
  <2> QED
    BY <2>1, FilesFrom
<1> QED
  <2> HIDE DEF file
  <2> QED
    BY <1>2, <1>3, <1>4, <1>5, <1>6, <1>7

LEMMA StepStory ==
    ASSUME StoreInv, Next
    PROVE  StoryInv'
<1>0. /\ Typed /\ TalkOK /\ PlacedInv /\ server \in Log /\ Story(server) /\ InPlace(server)
      /\ Fit(server)
  BY PlacedLogs DEF StoreInv, StoryInv, Typed, FilesOK
<1>1. \A d \in Device : Story(local[d])'
  BY StepFileStory DEF Story, Chain, Follows
<1>2. CASE server' = server
  <2>1. Chain(born', server)
    BY <1>0, StoryStays
  <2>2. Story(server)' /\ Fit(server)'
    BY <1>0, <1>2, <2>1 DEF Story, Chain, Follows, Fit
  <2> QED
    BY <1>1, <2>2 DEF StoryInv
<1>3. ASSUME NEW h \in pushes, Fits(h), server' = Joined(server, h.turns), born' = born
      PROVE  StoryInv'
  <2>1. h.turns \in Log /\ InPlace(h.turns) /\ Continues(h.turns, server) /\ Fit(h.turns)
    BY <1>0, PushOK, PlacedLogs DEF StoreInv, PushKnows
  <2>2. Story(Joined(server, h.turns))
    BY <1>0, <1>3, <2>1, JoinedStory DEF Fits
  <2>3. Story(server)'
    BY <1>3, <2>2 DEF Story
  <2>4. Fit(server)'
    BY <1>0, <1>3, <2>1, JoinedFacts, LogFacts DEF Fit
  <2> QED
    BY <1>1, <2>3, <2>4 DEF StoryInv
<1> QED
  BY <1>2, <1>3, ServerFrom

-------------------------------------------------------------------------------
(* What the passes know *)

Knows(d) ==
    /\ Within(pass[d].there, server) /\ Story(pass[d].there)
    /\ PassKnows(d)

LEMMA TombGrows ==
    ASSUME Next
    PROVE  tomb \subseteq tomb'
<1>1. ASSUME NEW d \in Device, StartSend(d) \/ SendStep(d)
      PROVE  tomb' = tomb
  BY <1>1 DEF StartSend, SendStep, WriteMessage, WriteReply, EndSend, eraseVars
<1>2. ASSUME NEW d \in Device, BeginDelete(d) \/ DeleteStep(d)
      PROVE  tomb \subseteq tomb'
  BY <1>2 DEF BeginDelete, DeleteStep, Bury, EraseFile, EndDelete
<1>3. ASSUME NEW d \in Device, NEW mode \in {"all", "one"}, BeginPass(d, mode)
      PROVE  tomb' = tomb
  BY <1>3 DEF BeginPass, eraseVars
<1>4. ASSUME NEW d \in Device, PassStep(d)
      PROVE  tomb' = tomb
  BY <1>4 DEF PassStep, ReadList, Enter, ReadManifest, Compare, Download, NextBatch, eraseVars
<1>5. ASSUME NEW d \in Device, CutPass(d) \/ Crash(d)
      PROVE  tomb' = tomb
  BY <1>5 DEF CutPass, Crash, eraseVars
<1>6. ASSUME NEW h \in pushes, PushStep(h)
      PROVE  tomb' = tomb
  BY <1>6 DEF PushStep, eraseVars
<1> QED
  BY <1>1, <1>2, <1>3, <1>4, <1>5, <1>6 DEF Next

\* A line that the server has too, and that nobody fetches, stays in a file
\* that is not deleted.
LEMMA SharedLineStays ==
    ASSUME StoreInv, Next, NEW d \in Device, d \notin tomb, NEW n \in Held(server),
           local[d][n] = server[n], pass[d].todo[n] = None
    PROVE  local'[d][n] = local[d][n]
<1>0. /\ local[d] \in Log /\ server \in Log /\ local \in [Device -> Log] /\ pass[d].todo \in Log
      /\ n \in Sequence /\ n \in Held(local[d]) /\ server[n] \in Turn
  <2>1. /\ local[d] \in Log /\ server \in Log /\ local \in [Device -> Log] /\ pass[d].todo \in Log
    BY PassOK DEF StoreInv, Typed, FilesOK
  <2> QED
    BY <2>1, LogFacts
<1>1. CASE FileWritten(d)
  <2>1. n # NextSequence(local[d])
    BY <1>0, NextOfLog, SequenceFacts
  <2> QED
    BY <1>0, <1>1, <2>1 DEF FileWritten, Log
<1>2. CASE FileRetired(d)
  <2> DEFINE last == NextSequence(local[d]) - 1
  <2>1. mine[d] # None /\ local'[d] = Without(local[d], {last})
    BY <1>0, <1>2 DEF FileRetired
  <2>2. local[d][n] # mine[d]
    BY <1>0, <2>1 DEF StoreInv, MineHome, Away
  <2>3. PICK i \in Held(local[d]) :
           local[d][i] = mine[d] /\ \A j \in Held(local[d]) : j <= i
    BY <2>1 DEF StoreInv, MineHome
  <2>4. n # last
    <3>1. i \in Nat /\ n \in Nat /\ n <= i /\ n # i
      BY <1>0, <2>2, <2>3, LogFacts, SequenceFacts
    <3>2. i < NextSequence(local[d]) /\ NextSequence(local[d]) \in 0..MaxTurns
      BY <1>0, NextOfLog
    <3> QED
      BY <3>1, <3>2, SequenceFacts
  <2> HIDE DEF last
  <2> QED
    BY <1>0, <2>1, <2>4, WithoutFacts
<1>3. CASE FileErased(d)
  BY <1>3 DEF FileErased, EraseFile, StoreInv, SendInv
<1>4. CASE FileFetched(d)
  <2> DEFINE chunk == FirstOf(pass[d].todo, FetchChunk)
  <2>1. chunk \in Log /\ chunk[n] \in {None, pass[d].todo[n]}
    BY <1>0, SizesAssumption, FirstOfFacts
  <2>2. local'[d] = Joined(local[d], chunk)
    BY <1>0, <1>4 DEF FileFetched
  <2> HIDE DEF chunk
  <2> QED
    BY <1>0, <2>1, <2>2, JoinedFacts
<1>5. \/ local'[d] = local[d]
      \/ FileWritten(d) \/ FileRetired(d) \/ FileErased(d) \/ FileFetched(d)
  <2>1. ASSUME NEW e \in Device, e # d,
               FileWritten(e) \/ FileRetired(e) \/ FileErased(e) \/ FileFetched(e)
        PROVE  local'[d] = local[d]
    BY <1>0, <2>1 DEF FileWritten, FileRetired, FileErased, FileFetched
  <2> QED
    BY <2>1, FilesFrom
<1> QED
  BY <1>1, <1>2, <1>3, <1>4, <1>5

\* What continues a base goes on continuing it.
LEMMA ContinuesStays ==
    ASSUME Typed, PlacedInv, Next, NEW part \in Log, NEW base \in Log, InPlace(part),
           Continues(part, base)
    PROVE  Links(born', part, base)
<1>1. \A n \in Held(part) : part[n] \in DOMAIN born
  BY InPlaceFacts
<1>2. \A n \in Held(part) : born'[part[n]] = born[part[n]]
  BY <1>1, BornFrom
<1> QED
  BY <1>2 DEF Continues, Links, Linked

\* A pass that does not move goes on knowing what it knew.
LEMMA KnowsStays ==
    ASSUME StoreInv, Next, NEW d \in Device, pass'[d] = pass[d]
    PROVE  Knows(d)'
<1> DEFINE there == pass[d].there
<1> DEFINE todo == pass[d].todo
<1>0. /\ Typed /\ PlacedInv /\ there \in Log /\ todo \in Log /\ server \in Log
      /\ Within(there, server) /\ Story(there) /\ InPlace(todo) /\ PassKnows(d)
  BY PassOK, PlacedLogs DEF StoreInv, ThereIsThere, Typed, FilesOK
<1>1. Within(there, server')
  <2>1. Within(server, server')
    BY <1>0, ServerGrows
  <2>2. \A n \in Held(there) : n \in Held(server) /\ server[n] = there[n]
    BY <1>0, LogFacts DEF Within
  <2> QED
    BY <2>1, <2>2 DEF Within
<1>2. ASSUME pass[d].at = "fetch", d \notin tomb', NEW n \in Held(there) \ Held(todo)
      PROVE  local'[d][n] = there[n]
  <2>1. d \notin tomb /\ local[d][n] = there[n]
    BY <1>0, <1>2, TombGrows DEF PassKnows
  <2>2. n \in Held(server) /\ server[n] = there[n] /\ todo[n] = None
    BY <1>0, LogFacts DEF Within
  <2> QED
    BY <2>1, <2>2, SharedLineStays
<1>6. Chain(born', there)
  BY <1>0, StoryStays, WithinIsInPlace
<1>3. ASSUME pass[d].at \in {"next", "push"}
      PROVE  Links(born', todo, there)
  <2>1. Continues(todo, there)
    BY <1>0, <1>3 DEF PassKnows
  <2> QED
    BY <1>0, <1>3, <2>1, ContinuesStays
<1> HIDE DEF there, todo
<1>4. pass'[d].there = there /\ pass'[d].todo = todo /\ pass'[d].at = pass[d].at
  BY DEF there, todo
<1>5. PassKnows(d)'
  <2>1. pass'[d].at \notin {"fetch", "next", "push"} => pass'[d].todo = Empty
    BY <1>0, <1>4 DEF PassKnows, todo
  <2>2. pass'[d].at = "fetch" =>
          /\ Within(pass'[d].todo, pass'[d].there)
          /\ d \notin tomb' =>
                \A n \in Held(pass'[d].there) \ Held(pass'[d].todo) :
                    local'[d][n] = pass'[d].there[n]
    BY <1>0, <1>2, <1>4 DEF PassKnows, there, todo
  <2>3. pass'[d].at \in {"next", "push"} =>
          /\ Fit(pass'[d].todo)
          /\ Links(born', pass'[d].todo, pass'[d].there)
          /\ Apart(pass'[d].todo, pass'[d].there)
    BY <1>0, <1>3, <1>4 DEF PassKnows, there, todo
  <2> QED
    BY <2>1, <2>2, <2>3 DEF PassKnows, Continues
<1> QED
  BY <1>0, <1>1, <1>4, <1>5, <1>6 DEF Knows, Story, Chain, Follows

\* A pass with nothing to fetch nor to push knows what the server has.
LEMMA KnowsNothingElse ==
    ASSUME StoreInv, Next, NEW d \in Device, NEW q \in Pass, pass'[d] = q,
           q.todo = Empty, q.at \notin {"fetch", "next", "push"},
           q.there \in {Empty, server, pass[d].there}
    PROVE  Knows(d)'
<1>0. /\ Typed /\ PlacedInv /\ server \in Log /\ Story(server) /\ q.there \in Log
      /\ Within(pass[d].there, server) /\ Story(pass[d].there)
  BY PassOK, PlacedLogs DEF StoreInv, ThereIsThere, Typed, FilesOK, StoryInv, Pass
<1>1. Within(q.there, server) /\ Story(q.there)
  BY <1>0, EmptyLog DEF Within, Story
<1>4. Chain(born', q.there)
  <2>1. PICK log \in Log : log = q.there
    BY <1>0
  <2> QED
    BY <1>0, <1>1, <2>1, StoryStays, WithinIsInPlace
<1>2. Within(q.there, server')
  <2>1. Within(server, server')
    BY <1>0, ServerGrows
  <2>2. \A n \in Held(q.there) : n \in Held(server) /\ server[n] = q.there[n]
    BY <1>0, <1>1, LogFacts DEF Within
  <2> QED
    BY <2>1, <2>2 DEF Within
<1>3. PassKnows(d)'
  BY DEF PassKnows
<1> QED
  BY <1>1, <1>2, <1>3, <1>4 DEF Knows, Story, Chain, Follows

\* What a pass finds to push continues what is there.
LEMMA ViewContinues ==
    ASSUME PlacedInv, NEW there \in Log, NEW view \in Log, InPlace(view), Story(view),
           \A n \in Held(there) \cap Held(view) : view[n] = there[n]
    PROVE  LET todo == ToUpload(view, there)
           IN todo \in Log /\ Fit(todo) /\ Continues(todo, there) /\ Apart(todo, there)
<1> DEFINE todo == ToUpload(view, there)
<1>1. /\ todo \in Log
      /\ \A n \in Held(todo) :
            /\ n \in Held(view) /\ todo[n] = view[n]
            /\ there[n] = None /\ view[n] \notin Unfit
      /\ \A n \in Held(view) : there[n] = None /\ view[n] \notin Unfit => todo[n] = view[n]
  BY ToUploadFacts
<1> HIDE DEF todo
<1>2. Apart(todo, there) /\ Fit(todo)
  BY <1>1 DEF Apart, Fit
<1>3. ASSUME NEW n \in Held(todo), n > 0
      PROVE  Linked(born, todo, there, n)
  <2>1. /\ n \in Held(view) /\ todo[n] = view[n] /\ n - 1 \in Sequence
        /\ born[view[n]] \in Unfit \/ (born[view[n]] = view[n - 1] /\ n - 1 \in Held(view))
    BY <1>1, <1>3, StoryFacts
  <2>2. CASE born[view[n]] \in Unfit
    BY <2>1, <2>2 DEF Linked
  <2>3. CASE born[view[n]] = view[n - 1] /\ n - 1 \in Held(view) /\ view[n - 1] \notin Unfit
    <3>1. CASE n - 1 \in Held(there)
      <4>1. there[n - 1] = view[n - 1] /\ there[n - 1] # None
        BY <2>1, <2>3, <3>1, LogFacts
      <4>2. todo[n - 1] = None
        BY <1>1, <2>1, <4>1, LogFacts
      <4> QED
        BY <2>1, <2>3, <4>1, <4>2 DEF Linked
    <3>2. CASE n - 1 \notin Held(there)
      <4>1. there[n - 1] = None /\ view[n - 1] # None
        BY <2>1, <2>3, <3>2, LogFacts
      <4>2. todo[n - 1] = view[n - 1]
        BY <1>1, <2>3, <4>1
      <4> QED
        BY <2>1, <2>3, <4>1, <4>2 DEF Linked
    <3> QED
      BY <3>1, <3>2
  <2>4. CASE born[view[n]] \notin Unfit
    BY <2>1, <2>3, <2>4
  <2> QED
    BY <2>2, <2>4
<1>4. Continues(todo, there)
  BY <1>3 DEF Continues, Links
<1> QED
  BY <1>1, <1>2, <1>4 DEF todo

\* An upload leaves a pass that knows what it pushes, or none.
LEMMA UploadKnows ==
    ASSUME StoreInv, Next, NEW d \in Device, NEW there \in Log, NEW todo \in Log,
           Upload(d, there, todo),
           Within(there, server), Story(there), born' = born,
           Fit(todo), Continues(todo, there), Apart(todo, there)
    PROVE  Knows(d)'
<1> DEFINE q == [pass[d] EXCEPT !.at = "push", !.there = there, !.todo = todo]
<1>0. Typed /\ TalkOK /\ pass[d] \in Pass /\ pass \in [Device -> Pass] /\ server \in Log
  BY PassOK DEF StoreInv, Typed, TalkOK, FilesOK
<1>1. CASE Stops(d)
  <2>1. pass'[d] = NoPass
    BY <1>0, <1>1 DEF Stops, Goes
  <2> QED
    BY <2>1, NoPassFacts, KnowsNothingElse
<1>2. CASE Goes(d, q)
  <2>1. q.at = "push" /\ q.there = there /\ q.todo = todo
    BY <1>0 DEF Pass
  <2>2. pass'[d] = q
    BY <1>0, <1>2 DEF Goes
  <2> HIDE DEF q
  <2>3. Within(there, server')
    <3>1. Within(server, server')
      BY <1>0, ServerGrows
    <3>2. \A n \in Held(there) : n \in Held(server) /\ server[n] = there[n]
      BY <1>0, LogFacts DEF Within
    <3> QED
      BY <3>1, <3>2 DEF Within
  <2>4. PassKnows(d)'
    BY <2>1, <2>2 DEF PassKnows, Continues, Links, Linked, Fit
  <2> QED
    BY <2>1, <2>2, <2>3, <2>4 DEF Knows, Story
<1>3. Stops(d) \/ Goes(d, q)
  BY DEF Upload
<1> QED
  BY <1>1, <1>2, <1>3

\* A pass that compares knows what it has to do.
LEMMA CompareKnows ==
    ASSUME StoreInv, Next, NEW d \in Device, Compare(d)
    PROVE  Knows(d)'
<1> DEFINE there == pass[d].there
<1> DEFINE missing == Without(there, Held(local[d]))
<1>0. /\ Typed /\ TalkOK /\ PlacedInv /\ pass[d] \in Pass /\ pass \in [Device -> Pass]
      /\ there \in Log /\ local[d] \in Log /\ server \in Log
      /\ Within(there, server) /\ Story(there) /\ Story(local[d]) /\ InPlace(local[d])
      /\ local' = local /\ born' = born /\ tomb' = tomb /\ server' = server
  BY PassOK, PlacedLogs DEF StoreInv, ThereIsThere, Typed, TalkOK, FilesOK, StoryInv,
                            Compare, sendVars, eraseVars
<1>1. /\ missing \in Log /\ Held(missing) = Held(there) \ Held(local[d])
      /\ \A n \in Sequence : missing[n] = IF n \in Held(local[d]) THEN None ELSE there[n]
  BY <1>0, WithoutFacts
<1>2. CASE Stops(d)
  <2>1. pass'[d] = NoPass
    BY <1>0, <1>2 DEF Stops, Goes
  <2> QED
    BY <2>1, NoPassFacts, KnowsNothingElse
<1>3. ASSUME ~TwoVersions(local[d], there), NEW n \in Held(there) \cap Held(local[d])
      PROVE  local[d][n] = there[n]
  BY <1>3 DEF TwoVersions
<1>4. CASE ~TwoVersions(local[d], there) /\ Goes(d, [pass[d] EXCEPT !.at = "fetch", !.todo = missing])
  <2>1. pass'[d].at = "fetch" /\ pass'[d].there = there /\ pass'[d].todo = missing
    <3> HIDE DEF missing
    <3> QED
      BY <1>0, <1>4 DEF Goes, Pass
  <2> HIDE DEF missing, there
  <2>2. Within(missing, there)
    BY <1>0, <1>1, LogFacts DEF Within
  <2>3. \A n \in Held(there) \ Held(missing) : local'[d][n] = there[n]
    BY <1>0, <1>1, <1>3, <1>4
  <2>4. PassKnows(d)'
    BY <2>1, <2>2, <2>3 DEF PassKnows
  <2> QED
    BY <1>0, <2>1, <2>4 DEF Knows, Story
<1>5. CASE ~TwoVersions(local[d], there) /\ Upload(d, there, ToUpload(local[d], there))
  <2> HIDE DEF there
  <2>1. PICK todo \in Log : todo = ToUpload(local[d], there)
    BY <1>0, ToUploadFacts
  <2>2. \A n \in Held(there) \cap Held(local[d]) : local[d][n] = there[n]
    BY <1>3, <1>5
  <2>3. Fit(todo) /\ Continues(todo, there) /\ Apart(todo, there)
    BY <1>0, <2>1, <2>2, ViewContinues
  <2>4. Upload(d, there, todo)
    BY <1>5, <2>1
  <2> QED
    BY <1>0, <2>3, <2>4, UploadKnows
<1> QED
  BY <1>2, <1>4, <1>5 DEF Compare, Freeze, BeginUpload

\* A pass that fetches knows what it has fetched.
LEMMA DownloadKnows ==
    ASSUME StoreInv, Next, NEW d \in Device, Download(d)
    PROVE  Knows(d)'
<1> DEFINE there == pass[d].there
<1> DEFINE todo == pass[d].todo
<1> DEFINE chunk == FirstOf(todo, FetchChunk)
<1> DEFINE rest == Without(todo, Held(chunk))
<1>0. /\ Typed /\ TalkOK /\ PlacedInv /\ pass[d] \in Pass /\ pass \in [Device -> Pass]
      /\ there \in Log /\ todo \in Log /\ local[d] \in Log /\ server \in Log
      /\ local \in [Device -> Log]
      /\ Within(there, server) /\ Story(there) /\ Story(local[d]) /\ InPlace(local[d])
      /\ InPlace(todo) /\ pass[d].at = "fetch"
      /\ born' = born /\ tomb' = tomb /\ server' = server
  BY PassOK, PlacedLogs DEF StoreInv, ThereIsThere, Typed, TalkOK, FilesOK, StoryInv,
                            Download, sendVars, eraseVars
<1>1. CASE Stops(d)
  <2>1. pass'[d] = NoPass
    BY <1>0, <1>1 DEF Stops, Goes
  <2> QED
    BY <2>1, NoPassFacts, KnowsNothingElse
<1>2. CASE /\ d \notin tomb /\ Held(chunk) \cap Held(local[d]) = {}
           /\ local' = [local EXCEPT ![d] = Joined(local[d], chunk)]
           /\ \/ Goes(d, [pass[d] EXCEPT !.todo = rest])
              \/ Held(rest) = {} /\ Upload(d, there, ToUpload(local'[d], there))
  <2>0. PassKnows(d)
    BY DEF StoreInv
  <2>1. /\ Within(todo, there)
        /\ \A n \in Held(there) \ Held(todo) : local[d][n] = there[n]
    BY <1>0, <1>2, <2>0 DEF PassKnows
  <2>2. /\ chunk \in Log /\ Held(chunk) \subseteq Held(todo)
        /\ \A n \in Held(chunk) : chunk[n] = todo[n]
    BY <1>0, SizesAssumption, FirstOfFacts
  <2>3. Continues(chunk, local[d]) /\ InPlace(chunk)
    BY <1>0, <1>2, ChunkContinues
  <2> HIDE DEF chunk
  <2>4. /\ rest \in Log /\ Held(rest) = Held(todo) \ Held(chunk)
        /\ \A n \in Sequence : rest[n] = IF n \in Held(chunk) THEN None ELSE todo[n]
    BY <1>0, WithoutFacts
  <2>5. PICK view \in Log : view = Joined(local[d], chunk)
    BY <1>0, <2>2, JoinedFacts
  <2>6. /\ \A n \in Sequence : view[n] = IF chunk[n] # None THEN chunk[n] ELSE local[d][n]
        /\ Held(view) = Held(local[d]) \cup Held(chunk)
    BY <1>0, <2>2, <2>5, JoinedFacts
  <2>7. local'[d] = view
    BY <1>0, <1>2, <2>5
  <2> HIDE DEF rest, there, todo
  <2>8. ASSUME NEW n \in Held(there) \ Held(rest)
        PROVE  view[n] = there[n]
    <3>1. n \in Sequence
      BY <1>0, LogFacts
    <3>2. CASE n \in Held(chunk)
      BY <2>1, <2>2, <2>6, <3>1, <3>2, LogFacts DEF Within
    <3>3. CASE n \notin Held(chunk)
      BY <2>1, <2>2, <2>4, <2>6, <3>1, <3>3, LogFacts
    <3> QED
      BY <3>2, <3>3
  <2>9. CASE Goes(d, [pass[d] EXCEPT !.todo = rest])
    <3>1. pass'[d].at = "fetch" /\ pass'[d].there = there /\ pass'[d].todo = rest
      BY <1>0, <2>9 DEF Goes, Pass, there
    <3>2. Within(rest, there)
      BY <1>0, <2>1, <2>4, LogFacts DEF Within
    <3>3. PassKnows(d)'
      BY <2>7, <2>8, <3>1, <3>2 DEF PassKnows
    <3> QED
      BY <1>0, <3>1, <3>3 DEF Knows, Story
  <2>10. CASE Held(rest) = {} /\ Upload(d, there, ToUpload(local'[d], there))
    <3>1. Story(view)
      BY <1>0, <1>2, <2>2, <2>3, <2>5, JoinedStory
    <3>2. InPlace(view)
      <4>1. ASSUME NEW n \in Held(view)
            PROVE  Placed(n, view[n])
        <5>1. n \in Sequence
          BY LogFacts
        <5>2. CASE n \in Held(chunk)
          <6>1. view[n] = chunk[n]
            BY <2>2, <2>6, <5>1, <5>2, LogFacts
          <6> QED
            BY <2>3, <5>2, <6>1 DEF InPlace
        <5>3. CASE n \notin Held(chunk)
          <6>1. view[n] = local[d][n] /\ n \in Held(local[d])
            BY <2>2, <2>6, <5>1, <5>3, LogFacts
          <6> QED
            BY <1>0, <6>1 DEF InPlace
        <5> QED
          BY <5>2, <5>3
      <4> QED
        BY <4>1 DEF InPlace
    <3>3. \A n \in Held(there) \cap Held(view) : view[n] = there[n]
      BY <2>8, <2>10
    <3>4. PICK list \in Log : list = ToUpload(view, there)
      BY <1>0, ToUploadFacts
    <3>5. Fit(list) /\ Continues(list, there) /\ Apart(list, there)
      BY <1>0, <3>1, <3>2, <3>3, <3>4, ViewContinues
    <3>6. Upload(d, there, list)
      BY <2>7, <2>10, <3>4
    <3> QED
      BY <1>0, <3>5, <3>6, UploadKnows
  <2> QED
    BY <1>2, <2>9, <2>10
<1> QED
  BY <1>1, <1>2 DEF Download, Freeze, BeginUpload, MayKeep, Occupied

\* A pass whose batch is on the server knows the rest of its list.
LEMMA ConfirmedKnows ==
    ASSUME StoreInv, Next, NEW h \in pushes, h.client = "waiting",
           Confirmed(h.from, h.turns), born' = born, Within(h.turns, server')
    PROVE  Knows(h.from)'
<1> DEFINE d == h.from
<1> DEFINE there == pass[d].there
<1> DEFINE todo == pass[d].todo
<1> DEFINE q == [pass[d] EXCEPT !.at = "next", !.there = Joined(@, h.turns),
                                !.todo = Without(@, Held(h.turns))]
<1>0. /\ Typed /\ TalkOK /\ PlacedInv /\ d \in Device /\ h.turns \in Log
      /\ pass \in [Device -> Pass]
  BY PushOK DEF StoreInv, Typed, TalkOK
<1>1. /\ there \in Log /\ todo \in Log /\ server \in Log
      /\ Within(there, server) /\ Story(there) /\ InPlace(todo) /\ InPlace(there)
      /\ InPlace(h.turns)
  BY <1>0, PassOK, WithinIsInPlace, PlacedLogs DEF StoreInv, ThereIsThere, Typed, FilesOK
<1>2. /\ Within(h.turns, todo)
      /\ \A n \in Held(h.turns), i \in Held(todo) : i < n => i \in Held(h.turns)
  BY DEF StoreInv, PushKnows
<1>3. pass[d].at = "push"
  BY <1>0 DEF TalkOK, WaitingPush
<1>4. Fit(todo) /\ Continues(todo, there) /\ Apart(todo, there)
  BY <1>0, <1>3 DEF StoreInv, PassKnows
<1>5. Goes(d, q) /\ q.at = "next" /\ q.there = Joined(there, h.turns)
      /\ q.todo = Without(todo, Held(h.turns))
  BY <1>0, ConfirmedFacts
<1> HIDE DEF q
<1>6. pass'[d] = q
  BY <1>0, <1>5 DEF Goes
<1> DEFINE base == Joined(there, h.turns)
<1> DEFINE rest == Without(todo, Held(h.turns))
<1>7. /\ base \in Log /\ Held(base) = Held(there) \cup Held(h.turns)
      /\ \A n \in Sequence : base[n] = IF h.turns[n] # None THEN h.turns[n] ELSE there[n]
  BY <1>0, <1>1, JoinedFacts
<1>8. /\ rest \in Log /\ Held(rest) = Held(todo) \ Held(h.turns)
      /\ \A n \in Sequence : rest[n] = IF n \in Held(h.turns) THEN None ELSE todo[n]
  BY <1>1, WithoutFacts
<1>9. pass'[d].at = "next" /\ pass'[d].there = base /\ pass'[d].todo = rest
  BY <1>5, <1>6
<1> HIDE DEF base, rest, there, todo, d
<1>10. Within(base, server')
  <2>1. Within(server, server')
    BY <1>0, ServerGrows
  <2>2. \A n \in Held(there) : n \in Held(server) /\ server[n] = there[n] /\ n \in Sequence
    BY <1>1, LogFacts DEF Within
  <2>3. \A n \in Held(h.turns) : n \in Sequence /\ h.turns[n] # None
    BY <1>0, LogFacts
  <2>4. \A n \in Sequence : n \notin Held(h.turns) => h.turns[n] = None
    BY <1>0, LogFacts
  <2> QED
    BY <1>7, <2>1, <2>2, <2>3, <2>4 DEF Within
<1>11. \A n \in Held(h.turns) : n \in Held(todo) /\ todo[n] = h.turns[n] /\ n \in Sequence
  BY <1>0, <1>1, <1>2, LogFacts DEF Within
<1>12. ASSUME NEW n \in Held(todo), n > 0
       PROVE  n - 1 \in Sequence /\ n \in Nat /\ Linked(born, todo, there, n)
  <2>1. n \in Sequence
    BY <1>1, LogFacts
  <2>2. n # 0 /\ n - 1 \in Sequence /\ n \in Nat
    BY <1>12, <2>1, SequenceFacts
  <2> QED
    BY <1>4, <1>12, <2>2 DEF Continues, Links
<1>13. Story(base)
  <2>1. ASSUME NEW n \in Held(h.turns), n > 0
        PROVE  Linked(born, h.turns, there, n)
    <3>1. n \in Held(todo) /\ todo[n] = h.turns[n]
      BY <1>11
    <3>2. n - 1 \in Sequence /\ n \in Nat /\ Linked(born, todo, there, n)
      BY <1>12, <2>1, <3>1
    <3>3. CASE todo[n - 1] # None
      <4>1. n - 1 \in Held(h.turns)
        BY <1>1, <1>2, <3>2, <3>3, LogFacts
      <4>2. h.turns[n - 1] = todo[n - 1]
        BY <1>11, <4>1
      <4> QED
        BY <3>1, <3>2, <3>3, <4>2 DEF Linked
    <3>4. CASE todo[n - 1] = None
      <4>1. h.turns[n - 1] = None
        BY <1>0, <1>11, <3>2, <3>4, LogFacts
      <4> QED
        BY <3>1, <3>2, <3>4, <4>1 DEF Linked
    <3> QED
      BY <3>3, <3>4
  <2>2. Continues(h.turns, there)
    BY <2>1 DEF Continues, Links
  <2>3. Held(h.turns) \cap Held(there) = {}
    BY <1>1, <1>4, <1>11, LogFacts DEF Apart
  <2> QED
    BY <1>0, <1>1, <2>2, <2>3, JoinedStory DEF base
<1>14. Apart(rest, base) /\ Fit(rest)
  BY <1>0, <1>1, <1>4, <1>7, <1>8, LogFacts DEF Apart, Fit
<1>15. ASSUME NEW n \in Held(rest), n > 0
       PROVE  Linked(born, rest, base, n)
  <2>1. n \in Held(todo) /\ n \in Sequence /\ rest[n] = todo[n]
    BY <1>1, <1>8, LogFacts
  <2>2. n - 1 \in Sequence /\ Linked(born, todo, there, n)
    BY <1>12, <1>15, <2>1
  <2>3. CASE n - 1 \in Held(h.turns)
    <3>1. rest[n - 1] = None /\ base[n - 1] = h.turns[n - 1] /\ todo[n - 1] = h.turns[n - 1]
          /\ h.turns[n - 1] # None
      BY <1>0, <1>7, <1>8, <1>11, <2>2, <2>3, LogFacts
    <3> QED
      BY <2>1, <2>2, <3>1 DEF Linked
  <2>4. CASE n - 1 \notin Held(h.turns)
    <3>1. rest[n - 1] = todo[n - 1] /\ base[n - 1] = there[n - 1]
      BY <1>0, <1>7, <1>8, <2>2, <2>4, LogFacts
    <3> QED
      BY <2>1, <2>2, <3>1 DEF Linked
  <2> QED
    BY <2>3, <2>4
<1>16. PassKnows(d)'
  BY <1>9, <1>14, <1>15 DEF PassKnows, Continues, Links, Linked, Fit
<1> QED
  BY <1>9, <1>10, <1>13, <1>16 DEF Knows, Story, d

\* A batch that the answer confirms is on the server.
LEMMA ConfirmedIsThere ==
    ASSUME StoreInv, Next, NEW h \in pushes, Insert(h) \/ Explain(h),
           Confirmed(h.from, h.turns), h.client = "waiting", pushes' = pushes \ {h}
    PROVE  Within(h.turns, server') \/ Goes(h.from, NoPass) \/ Retry(h.from)
<1>0. Typed /\ TalkOK /\ h.turns \in Log /\ h.seen \in Log /\ server \in Log /\ h \in Push
  BY PushOK DEF StoreInv, Typed, FilesOK
<1>1. CASE Insert(h)
  <2>1. CASE server' = Joined(server, h.turns)
    BY <1>0, <2>1, JoinedFacts, LogFacts DEF Within
  <2>2. CASE Moves(h, "classify")
    <3>1. [h EXCEPT !.step = "classify"] \in pushes'
      BY <2>2 DEF Moves
    <3>2. h.step = "insert" /\ [h EXCEPT !.step = "classify"].step = "classify"
      BY <1>0, <1>1 DEF Insert, Push
    <3>3. PICK g \in pushes : g = [h EXCEPT !.step = "classify"] /\ g # h
      BY <3>1, <3>2
    <3>4. g.client = "waiting" /\ g.from = h.from
      BY <1>0, <3>3 DEF Push
    <3> QED
      BY <1>0, <3>3, <3>4 DEF TalkOK, OneWaits
  <2> QED
    BY <1>1, <2>1, <2>2 DEF Insert
<1>2. CASE Explain(h)
  <2>1. server' = server
    BY <1>2 DEF Explain
  <2>2. \/ Freeze(h.from) \/ Retry(h.from)
        \/ ~Conflicts(h) /\ Held(h.turns) = Held(h.seen)
    BY <1>2 DEF Explain, Replies
  <2>3. CASE ~Conflicts(h) /\ Held(h.turns) = Held(h.seen)
    <3>1. \A n \in Held(h.turns) : h.seen[n] = h.turns[n] /\ server[n] = h.seen[n]
      BY <2>3 DEF Conflicts, StoreInv, PushKnows, Within
    <3> QED
      BY <2>1, <3>1 DEF Within
  <2> QED
    BY <2>2, <2>3 DEF Freeze, Stops
<1> QED
  BY <1>1, <1>2

LEMMA GatewayKnows ==
    ASSUME StoreInv, Next, NEW h \in pushes, PushStep(h), NEW d \in Device
    PROVE  Knows(d)'
<1>0. /\ Typed /\ TalkOK /\ pass \in [Device -> Pass] /\ h.from \in Device
      /\ h.client \in {"waiting", "gone"} /\ born' = born /\ h.turns \in Log
  BY PushOK DEF StoreInv, Typed, TalkOK, PushStep, sendVars
<1>1. CASE pass'[d] = pass[d]
  BY <1>1, KnowsStays
<1>2. CASE Stops(h.from)
  <2>1. pass' = [pass EXCEPT ![h.from] = NoPass]
    BY <1>2 DEF Stops, Goes
  <2>2. CASE d = h.from
    <3>1. pass'[d] = NoPass
      BY <1>0, <2>1, <2>2
    <3> QED
      BY <3>1, NoPassFacts, KnowsNothingElse
  <2> QED
    BY <1>0, <1>1, <2>1, <2>2
<1>3. CASE Retry(h.from)
  <2>1. PICK q \in Pass : /\ Goes(h.from, q) /\ q.at \in {"idle", "manifest"} /\ q.todo = Empty
                          /\ q.there \in {Empty, pass[h.from].there}
    BY <1>0, <1>3, RetryFacts
  <2>2. pass' = [pass EXCEPT ![h.from] = q]
    BY <2>1 DEF Goes
  <2>3. CASE d = h.from
    <3>1. pass'[d] = q
      BY <1>0, <2>2, <2>3
    <3> QED
      BY <2>1, <2>3, <3>1, KnowsNothingElse
  <2> QED
    BY <1>0, <1>1, <2>2, <2>3
<1>4. CASE /\ Confirmed(h.from, h.turns)
           /\ Insert(h) \/ Explain(h)
           /\ h.client = "waiting" /\ pushes' = pushes \ {h}
  <2>1. CASE d = h.from
    <3>1. Within(h.turns, server') \/ Stops(h.from) \/ Retry(h.from)
      BY <1>4, ConfirmedIsThere DEF Stops
    <3> QED
      BY <1>0, <1>2, <1>3, <1>4, <2>1, <3>1, ConfirmedKnows
  <2>2. CASE d # h.from
    <3>1. pass'[d] = pass[d]
      BY <1>0, <1>4, <2>2 DEF Confirmed, Goes
    <3> QED
      BY <1>1, <3>1
  <2> QED
    BY <2>1, <2>2
<1>5. CASE FindOwner(h) \/ EnsureChat(h) \/ Classify(h)
  <2>1. pass' = pass \/ Stops(h.from)
    BY <1>5 DEF FindOwner, EnsureChat, Classify, Replies
  <2> QED
    BY <1>1, <1>2, <2>1
<1>6. CASE CheckBase(h)
  <2>1. pass' = pass \/ Retry(h.from)
    BY <1>6 DEF CheckBase, Replies
  <2> QED
    BY <1>1, <1>3, <2>1
<1>7. CASE Insert(h) \/ Explain(h)
  <2>1. \/ pass' = pass \/ Stops(h.from) \/ Retry(h.from)
        \/ h.client = "waiting" /\ Confirmed(h.from, h.turns) /\ pushes' = pushes \ {h}
    BY <1>0, <1>7 DEF Insert, Explain, Replies, Freeze
  <2> QED
    BY <1>1, <1>2, <1>3, <1>4, <1>7, <2>1
<1> QED
  BY <1>5, <1>6, <1>7 DEF PushStep

LEMMA StepKnows ==
    ASSUME StoreInv, Next, NEW e \in Device
    PROVE  Knows(e)'
<1>0. /\ Typed /\ TalkOK /\ pass \in [Device -> Pass]
  BY DEF StoreInv, Typed, TalkOK
<1>1. ASSUME pass' = pass
      PROVE  Knows(e)'
  BY <1>1, KnowsStays
<1>2. ASSUME NEW d \in Device, NEW q, pass' = [pass EXCEPT ![d] = q], d # e
      PROVE  Knows(e)'
  <2>1. pass'[e] = pass[e]
    BY <1>0, <1>2
  <2> QED
    BY <2>1, KnowsStays
<1>3. ASSUME NEW d \in Device, StartSend(d) \/ SendStep(d) \/ BeginDelete(d) \/ DeleteStep(d)
      PROVE  pass' = pass
  BY <1>3 DEF StartSend, SendStep, WriteMessage, WriteReply, EndSend,
              BeginDelete, DeleteStep, Bury, EraseFile, EndDelete
<1>4. ASSUME NEW d \in Device,
             \/ \E mode \in {"all", "one"} : BeginPass(d, mode)
             \/ ReadList(d) \/ Enter(d) \/ ReadManifest(d)
      PROVE  Knows(e)'
  <2>1. PICK q \in Pass :
           /\ Goes(d, q)
           /\ q.at \in {"idle", "listing", "entering", "manifest", "compare"}
           /\ q.todo = Empty \/ (q.todo = pass[d].todo /\ pass[d].at = "manifest")
           /\ q.there = Empty \/ (q.there = server /\ pass[d].at = "manifest")
    BY <1>0, <1>4, ReadersTalk
  <2>2. q.todo = Empty
    BY <2>1 DEF StoreInv, PassKnows
  <2>3. pass' = [pass EXCEPT ![d] = q]
    BY <2>1 DEF Goes
  <2>4. CASE d = e
    <3>1. pass'[e] = q
      BY <1>0, <2>3, <2>4
    <3> QED
      BY <2>1, <2>2, <3>1, KnowsNothingElse
  <2> QED
    BY <1>2, <2>3, <2>4
<1>5. ASSUME NEW d \in Device, Compare(d) \/ Download(d) \/ NextBatch(d)
      PROVE  Knows(e)'
  <2>1. \E q : pass' = [pass EXCEPT ![d] = q]
    BY <1>5 DEF Compare, Download, NextBatch, BeginUpload, Upload, Freeze, Stops, Goes
  <2>2. CASE d # e
    BY <1>2, <2>1, <2>2
  <2>3. CASE d = e /\ Compare(d)
    BY <2>3, CompareKnows
  <2>4. CASE d = e /\ Download(d)
    BY <2>4, DownloadKnows
  <2>5. CASE d = e /\ NextBatch(d)
    <3>1. /\ Upload(e, pass[e].there, pass[e].todo) /\ pass[e].at = "next" /\ born' = born
          /\ pass[e].there \in Log /\ pass[e].todo \in Log
          /\ Within(pass[e].there, server) /\ Story(pass[e].there)
      BY <1>0, <2>5, PassOK DEF NextBatch, sendVars, StoreInv, ThereIsThere
    <3>2. /\ Fit(pass[e].todo) /\ Continues(pass[e].todo, pass[e].there)
          /\ Apart(pass[e].todo, pass[e].there)
      BY <3>1 DEF StoreInv, PassKnows
    <3> QED
      BY <3>1, <3>2, UploadKnows
  <2> QED
    BY <1>5, <2>2, <2>3, <2>4, <2>5
<1>6. ASSUME NEW d \in Device, CutPass(d) \/ Crash(d)
      PROVE  Knows(e)'
  <2>1. pass' = [pass EXCEPT ![d] = NoPass]
    BY <1>6 DEF CutPass, Crash, Stops, Goes
  <2>2. CASE d = e
    <3>1. pass'[e] = NoPass
      BY <1>0, <2>1, <2>2
    <3> QED
      BY <3>1, NoPassFacts, KnowsNothingElse
  <2> QED
    BY <1>2, <2>1, <2>2
<1>7. ASSUME NEW h \in pushes, PushStep(h)
      PROVE  Knows(e)'
  BY <1>7, GatewayKnows
<1> QED
  BY <1>1, <1>3, <1>4, <1>5, <1>6, <1>7 DEF Next, PassStep

\* The requests continue what is on the server.
LEMMA StepPushes ==
    ASSUME StoreInv, Next, NEW g \in pushes'
    PROVE  PushKnows(g)'
<1>0. /\ Typed /\ TalkOK /\ PlacedInv /\ server \in Log /\ TalkOK' /\ Within(server, server')
      /\ g \in Push /\ g.turns \in Log /\ g.seen \in Log /\ g.from \in Device /\ server' \in Log
  <2>1. Typed /\ TalkOK /\ TalkOK' /\ server' \in Log /\ server \in Log /\ PlacedInv
    BY StepTalks, StepFiles DEF StoreInv, Typed, FilesOK
  <2>2. g \in Push
    BY <2>1 DEF TalkOK
  <2> QED
    BY <2>1, <2>2, ServerGrows DEF Push
<1>1. ASSUME NEW h \in pushes, Heir(h, g), g.client = "waiting" => pass'[g.from] = pass[g.from]
      PROVE  PushKnows(g)'
  <2>0. /\ PushKnows(h) /\ h.turns \in Log /\ h.seen \in Log /\ InPlace(h.turns)
        /\ g.turns = h.turns /\ g.from = h.from /\ (g.client = "waiting" => h.client = "waiting")
    BY <1>0, <1>1, PushOK, PlacedLogs DEF StoreInv, Heir
  <2>1. ASSUME NEW n \in Held(g.turns), n > 0
        PROVE  Linked(born', g.turns, server', n)
    <3>1. Linked(born', h.turns, server, n)
      BY <1>0, <2>0, <2>1, ContinuesStays DEF PushKnows, Links
    <3>2. n \in Sequence
      BY <2>0, <2>1, LogFacts
    <3>3. n - 1 \in Sequence /\ n # 0
      BY <2>1, <3>2, SequenceFacts
    <3>4. born[h.turns[n]] # None /\ h.turns[n] \in DOMAIN born
      BY <1>0, <2>0, <2>1, <3>3, InPlaceFacts
    <3>5. born'[h.turns[n]] # None
      BY <1>0, <3>4, BornFrom
    <3>6. CASE h.turns[n - 1] = None /\ born'[h.turns[n]] \notin Unfit
      <4>1. server[n - 1] # None
        BY <3>1, <3>5, <3>6 DEF Linked
      <4>2. server'[n - 1] = server[n - 1]
        BY <1>0, <3>3, <4>1, LogFacts DEF Within
      <4> QED
        BY <2>0, <3>1, <3>6, <4>2 DEF Linked
    <3> QED
      BY <2>0, <3>1, <3>6 DEF Linked
  <2>2. Within(g.seen, server')
    <3>1. Within(g.seen, server)
      <4>1. CASE g.seen = h.seen
        BY <2>0, <4>1 DEF PushKnows
      <4>2. CASE g.seen = Without(server, Sequence \ Held(h.turns))
        BY <1>0, <4>2, WithoutFacts, LogFacts DEF Within
      <4> QED
        BY <1>1, <4>1, <4>2 DEF Heir
    <3>2. \A n \in Held(g.seen) : n \in Held(server) /\ server[n] = g.seen[n]
      BY <1>0, <3>1, LogFacts DEF Within
    <3> QED
      BY <1>0, <3>2 DEF Within
  <2>3. g.client = "waiting" =>
           /\ Within(g.turns, pass'[g.from].todo)
           /\ \A n \in Held(g.turns), i \in Held(pass'[g.from].todo) : i < n => i \in Held(g.turns)
    BY <1>1, <2>0 DEF PushKnows
  <2>4. Held(g.turns) # {} /\ Fit(g.turns)
    BY <2>0 DEF PushKnows
  <2> QED
    BY <2>1, <2>2, <2>3, <2>4 DEF PushKnows, Continues, Links, Fit
<1>2. ASSUME pass'[g.from].at = "push", pass'[g.from] \in Pass,
             Held(pass'[g.from].todo) # {}, g.turns = Batch(pass'[g.from].todo), g.seen = Empty
      PROVE  PushKnows(g)'
  <2> DEFINE todo == pass'[g.from].todo
  <2> DEFINE there == pass'[g.from].there
  <2>1. todo \in Log /\ there \in Log
    BY <1>2 DEF Pass
  <2>2. Knows(g.from)'
    BY <1>0, StepKnows
  <2>3. /\ Within(there, server') /\ Fit(todo)
        /\ \A n \in Held(todo) : n > 0 => Linked(born', todo, there, n)
    BY <1>2, <2>2 DEF Knows, PassKnows, Continues, Links, Linked, Fit
  <2>4. PlacedInv' /\ \A n \in Held(todo), t \in Turn : t = todo[n] => Placed(n, t)'
    BY <1>0, StepPlaced DEF Placed
  <2> HIDE DEF todo, there
  <2>5. /\ Held(g.turns) \subseteq Held(todo) /\ Held(g.turns) # {}
        /\ \A n \in Held(g.turns) : g.turns[n] = todo[n]
        /\ \A n \in Held(g.turns), i \in Held(todo) : i < n => i \in Held(g.turns)
    <3>1. BatchSize \in Nat \ {0}
      BY SizesAssumption
    <3>2. g.turns = FirstOf(todo, BatchSize) /\ todo \in Log /\ Held(todo) # {}
      BY <1>2, <2>1 DEF Batch, todo
    <3> QED
      BY <3>1, <3>2, FirstOfFacts
  <2>6. ASSUME NEW n \in Held(g.turns), n > 0
        PROVE  Linked(born', g.turns, server', n)
    <3>1. n \in Sequence /\ n \in Held(todo) /\ g.turns[n] = todo[n] /\ todo[n] \in Turn
      BY <2>1, <2>5, LogFacts
    <3>2. n - 1 \in Sequence /\ n # 0 /\ n - 1 < n
      BY <2>6, <3>1, SequenceFacts
    <3>3. born'[todo[n]] # None
      <4>1. PICK t \in Turn : t = todo[n]
        BY <3>1
      <4>2. Placed(n, t)'
        BY <2>4, <3>1, <4>1 DEF Placed
      <4>3. born'[t] # None
        BY <2>4, <3>1, <3>2, <4>2 DEF PlacedInv
      <4> QED
        BY <4>1, <4>3
    <3>4. Linked(born', todo, there, n)
      BY <2>3, <2>6, <3>1
    <3>7. CASE born'[todo[n]] \in Unfit
      BY <3>1, <3>7 DEF Linked
    <3>5. CASE n - 1 \in Held(todo)
      <4>1. n - 1 \in Held(g.turns)
        BY <2>5, <3>1, <3>2, <3>5
      <4>2. g.turns[n - 1] = todo[n - 1] /\ todo[n - 1] # None
        BY <2>1, <2>5, <3>2, <3>5, <4>1, LogFacts
      <4> QED
        BY <3>1, <3>4, <4>2 DEF Linked
    <3>6. CASE n - 1 \notin Held(todo) /\ born'[todo[n]] \notin Unfit
      <4>1. g.turns[n - 1] = None /\ todo[n - 1] = None
        BY <1>0, <2>1, <2>5, <3>2, <3>6, LogFacts
      <4>2. there[n - 1] # None
        BY <3>3, <3>4, <3>6, <4>1 DEF Linked
      <4>3. server'[n - 1] = there[n - 1]
        BY <2>1, <2>3, <3>2, <4>2, LogFacts DEF Within
      <4> QED
        BY <3>1, <3>4, <4>1, <4>3 DEF Linked
    <3> QED
      BY <3>5, <3>6, <3>7
  <2>7. Within(g.turns, todo) /\ Fit(g.turns)
    BY <2>3, <2>5 DEF Within, Fit
  <2>8. Within(g.seen, server')
    BY <1>2, EmptyLog DEF Within
  <2> QED
    BY <2>5, <2>6, <2>7, <2>8 DEF PushKnows, Continues, Links, Fit, todo
<1> QED
  BY <1>0, <1>1, <1>2, PushesFrom

-------------------------------------------------------------------------------
(* The theorems *)

LEMMA StoreInit == Init => StoreInv
<1> SUFFICES ASSUME Init
             PROVE  StoreInv
  OBVIOUS
<1>1. Typed
  BY SyncInitTyped
<1>2. /\ \A n \in Sequence : Empty[n] = None
      /\ Empty \in Log /\ Held(Empty) = {} /\ First \in Turn /\ First # None
      /\ Creator \in Device /\ 0 \in Sequence
  <2>1. Creator \in Device /\ MaxTurns \in Nat /\ MaxTurns > 0 /\ 0 \in Sequence
    BY DeviceFacts, SequenceFacts
  <2>2. First \in Turn
    BY <2>1 DEF First, Turn
  <2>3. First # None
    BY <2>2, NoneIsNoTurn
  <2> QED
    BY <2>1, <2>2, <2>3, EmptyLog
<1>3. /\ server = Empty /\ pushes = {} /\ retired = {}
      /\ DOMAIN born = {First} /\ born[First] = None
      /\ \A d \in Device : /\ send[d] = "idle" /\ mine[d] = None /\ erasing[d] = "no"
                           /\ pass[d] = NoPass
  BY DEF Init
<1>4. \A d \in Device : pass[d].at = "idle" /\ pass[d].todo = Empty /\ pass[d].there = Empty
  BY <1>3, NoPassFacts
<1>5. \A d \in Device, n \in Sequence :
         local[d][n] = IF d = Creator /\ n = 0 THEN First ELSE None
  BY <1>2 DEF Init, Empty
<1>6. PlacedInv
  <2>1. \A n \in Sequence, t \in Turn : Placed(n, t) => t = First /\ n = 0
    BY <1>2, <1>3, <1>4, <1>5, NoneIsNoTurn DEF Placed
  <2>2. Cardinality(DOMAIN born) = 1
    BY <1>3, FS_Singleton
  <2> QED
    BY <1>3, <2>1, <2>2 DEF PlacedInv
<1>7. SendInv /\ MineHome
  BY <1>3 DEF SendInv, MineHome
<1>8. StoryInv
  <2>1. Story(server) /\ Fit(server)
    BY <1>2, <1>3 DEF Story, Fit
  <2>2. ASSUME NEW d \in Device, NEW n \in Held(local[d])
        PROVE  Follows(born, local[d], n)
    <3>1. n = 0 /\ local[d][n] = First
      BY <1>5 DEF Held
    <3> QED
      BY <1>3, <3>1 DEF Follows
  <2> QED
    BY <2>1, <2>2 DEF StoryInv, Story, Follows
<1>9. ThereIsThere /\ \A d \in Device : PassKnows(d)
  BY <1>2, <1>4 DEF ThereIsThere, Within, Story, PassKnows
<1> QED
  BY <1>1, <1>3, <1>6, <1>7, <1>8, <1>9 DEF StoreInv

LEMMA StoreStep == StoreInv /\ [Next]_vars => StoreInv'
<1> SUFFICES ASSUME StoreInv, [Next]_vars
             PROVE  StoreInv'
  OBVIOUS
<1>1. CASE Next
  <2>1. Typed /\ SendInv
    BY DEF StoreInv
  <2>2. Typed'
    BY <1>1, <2>1, StepTalks, StepFiles, StepFlags, TypedHolds DEF Typed
  <2>3. PlacedInv' /\ SendInv' /\ MineHome' /\ StoryInv'
    BY <1>1, <2>1, StepPlaced, StepSend, StepMine, StepStory
  <2>4. \A d \in Device : Knows(d)'
    BY <1>1, StepKnows
  <2>5. ThereIsThere' /\ \A d \in Device : PassKnows(d)'
    BY <2>4 DEF Knows, ThereIsThere
  <2>6. \A h \in pushes' : PushKnows(h)'
    BY <1>1, StepPushes
  <2> QED
    BY <2>2, <2>3, <2>5, <2>6 DEF StoreInv
<1>2. CASE UNCHANGED vars
  <2>1. Typed'
    BY <1>2, SyncStutterTyped DEF StoreInv
  <2>2. /\ server' = server /\ pushes' = pushes /\ local' = local /\ mine' = mine
        /\ born' = born /\ retired' = retired /\ tomb' = tomb /\ erasing' = erasing
        /\ pass' = pass /\ send' = send
    BY <1>2 DEF vars, gatewayVars, sendVars, eraseVars
  <2>3. PlacedInv' /\ SendInv' /\ MineHome'
    BY <2>2 DEF StoreInv, PlacedInv, Placed, SendInv, MineHome, Away
  <2>4. StoryInv' /\ ThereIsThere'
    BY <2>2 DEF StoreInv, StoryInv, Story, ThereIsThere
  <2>5. \A d \in Device : PassKnows(d)'
    BY <2>2 DEF StoreInv, PassKnows, Continues, Links, Linked
  <2>6. \A h \in pushes' : PushKnows(h)'
    BY <2>2 DEF StoreInv, PushKnows, Continues, Links, Linked
  <2> QED
    BY <2>1, <2>3, <2>4, <2>5, <2>6 DEF StoreInv
<1> QED
  BY <1>1, <1>2

\* Neither the server nor any file ever splices two versions of the
\* conversation or keeps one with a gap, but behind a turn that cannot travel,
\* however the passes, the sends, the deletions, the faults and the requests of
\* all the computers interleave and whichever turns cannot travel.
THEOREM CopiesAreOneStory == Spec => []OneStory
<1>1. StoreInv => OneStory
  <2> SUFFICES ASSUME StoreInv
               PROVE  OneStory
    OBVIOUS
  <2>1. {server[n] : n \in Held(server)} \cap Unfit = {}
    BY DEF StoreInv, StoryInv, Fit
  <2> QED
    BY <2>1 DEF StoreInv, StoryInv, OneStory
<1> QED
  BY <1>1, StoreInit, StoreStep, PTL DEF Spec

\* A turn of the user that waits for its reply, or was taken back for want of
\* one, is never on the server.
THEOREM UnansweredTurnsStayHome == Spec => []UnansweredStaysHome
<1>1. StoreInv => UnansweredStaysHome
  <2> SUFFICES ASSUME StoreInv, NEW n \in Held(server)
               PROVE  server[n] \notin retired \cup {mine[d] : d \in Device}
    BY DEF UnansweredStaysHome
  <2>1. n \in Sequence /\ server[n] \in Turn /\ server[n] # None
    BY LogFacts DEF StoreInv, Typed, FilesOK
  <2>2. server[n] \notin retired
    BY <2>1, PlacedLogs, InPlaceFacts DEF StoreInv, Typed, FilesOK
  <2>3. ASSUME NEW d \in Device, server[n] = mine[d]
        PROVE  FALSE
    BY <2>1, <2>3 DEF StoreInv, MineHome, Away
  <2> QED
    BY <2>2, <2>3
<1> QED
  BY <1>1, StoreInit, StoreStep, PTL DEF Spec

\* Nothing remote replaces a turn of a computer's file, and no line goes but
\* the unanswered turn and a deleted conversation.
THEOREM LocalLinesAreKept == Spec => NothingLocalIsLost
<1> DEFINE Kept == \A d \in Device : \A n \in Held(local[d]) :
          local'[d][n] # local[d][n] =>
             \/ local[d][n] = mine[d]
             \/ d \in tomb /\ local'[d] = Empty
<1>1. StoreInv /\ [Next]_vars => [Kept]_vars
  <2> SUFFICES ASSUME StoreInv, Next, NEW d \in Device, NEW n \in Held(local[d]),
                      local'[d][n] # local[d][n], local[d][n] # mine[d]
               PROVE  d \in tomb /\ local'[d] = Empty
    OBVIOUS
  <2>0. /\ local[d] \in Log /\ local \in [Device -> Log] /\ pass[d].todo \in Log
        /\ n \in Sequence
    <3>1. /\ local[d] \in Log /\ local \in [Device -> Log] /\ pass[d].todo \in Log
      BY PassOK DEF StoreInv, Typed, FilesOK
    <3> QED
      BY <3>1, LogFacts
  <2>1. CASE FileWritten(d)
    <3>1. n # NextSequence(local[d])
      BY <2>0, NextOfLog, SequenceFacts
    <3> QED
      BY <2>0, <2>1, <3>1 DEF FileWritten, Log
  <2>2. CASE FileRetired(d)
    <3> DEFINE last == NextSequence(local[d]) - 1
    <3>1. mine[d] # None /\ local'[d] = Without(local[d], {last})
      BY <2>0, <2>2 DEF FileRetired
    <3>2. PICK i \in Held(local[d]) :
             local[d][i] = mine[d] /\ \A j \in Held(local[d]) : j <= i
      BY <3>1 DEF StoreInv, MineHome
    <3>3. n # last
      <4>1. i \in Nat /\ n \in Nat /\ n <= i /\ n # i
        BY <2>0, <3>2, LogFacts, SequenceFacts
      <4>2. i < NextSequence(local[d]) /\ NextSequence(local[d]) \in 0..MaxTurns
        BY <2>0, NextOfLog
      <4> QED
        BY <4>1, <4>2, SequenceFacts
    <3> HIDE DEF last
    <3> QED
      BY <2>0, <3>1, <3>3, WithoutFacts
  <2>3. CASE FileErased(d)
    BY <2>0, <2>3 DEF FileErased, EraseFile, StoreInv, SendInv
  <2>4. CASE FileFetched(d)
    <3> DEFINE chunk == FirstOf(pass[d].todo, FetchChunk)
    <3>1. chunk \in Log
      BY <2>0, SizesAssumption, FirstOfFacts
    <3>2. local'[d] = Joined(local[d], chunk) /\ Held(chunk) \cap Held(local[d]) = {}
      BY <2>0, <2>4 DEF FileFetched
    <3> HIDE DEF chunk
    <3>3. chunk[n] = None
      BY <2>0, <3>1, <3>2, LogFacts
    <3> QED
      BY <2>0, <3>1, <3>2, <3>3, JoinedFacts
  <2>5. \/ local'[d] = local[d]
        \/ FileWritten(d) \/ FileRetired(d) \/ FileErased(d) \/ FileFetched(d)
    <3>1. ASSUME NEW e \in Device, e # d,
                 FileWritten(e) \/ FileRetired(e) \/ FileErased(e) \/ FileFetched(e)
          PROVE  local'[d] = local[d]
      BY <2>0, <3>1 DEF FileWritten, FileRetired, FileErased, FileFetched
    <3> QED
      BY <3>1, FilesFrom
  <2> QED
    BY <2>1, <2>2, <2>3, <2>4, <2>5
<1> QED
  BY <1>1, StoreInit, StoreStep, PTL DEF Spec, NothingLocalIsLost

\* The file of a deleted conversation stays empty.
LEMMA ErasedStays ==
    ASSUME StoreInv, Next, NEW d \in tomb, local[d] = Empty
    PROVE  local'[d] = Empty
<1>0. d \in Device /\ local \in [Device -> Log] /\ Held(local[d]) = {}
  BY EmptyLog DEF StoreInv, Typed, FilesOK, FlagsOK
<1>1. CASE FileWritten(d)
  BY <1>1 DEF FileWritten, Writes, WriteMessage, WriteReply, MayWrite
<1>2. CASE FileRetired(d)
  BY <1>0, <1>2 DEF FileRetired, StoreInv, MineHome
<1>3. CASE FileErased(d)
  BY <1>0, <1>3 DEF FileErased
<1>4. CASE FileFetched(d)
  BY <1>4 DEF FileFetched
<1>5. \/ local'[d] = local[d]
      \/ FileWritten(d) \/ FileRetired(d) \/ FileErased(d) \/ FileFetched(d)
  <2>1. ASSUME NEW e \in Device, e # d,
               FileWritten(e) \/ FileRetired(e) \/ FileErased(e) \/ FileFetched(e)
        PROVE  local'[d] = local[d]
    BY <1>0, <2>1 DEF FileWritten, FileRetired, FileErased, FileFetched
  <2> QED
    BY <2>1, FilesFrom
<1> QED
  BY <1>1, <1>2, <1>3, <1>4, <1>5

\* A conversation deleted on a computer never comes back to it, neither from a
\* pass that had read the tombstones before nor from a send.
THEOREM DeletedNeverComesBack == Spec => DeletedStaysDeleted
<1> DEFINE Gone == \A d \in tomb : local[d] = Empty => local'[d] = Empty
<1>1. StoreInv /\ [Next]_vars => [Gone]_vars
  BY ErasedStays
<1> QED
  BY <1>1, StoreInit, StoreStep, PTL DEF Spec, DeletedStaysDeleted

-------------------------------------------------------------------------------
(* The refinement: rows that stay, with gaps only in front of stray turns *)

Rows == [n \in Held(server) |-> server[n]]
Stray == {t \in DOMAIN born : born[t] \in Unfit}

\* the server has no turn twice, and a gap only in front of a stray turn
Sound ==
    /\ server \in Log
    /\ \A n, i \in Held(server) : server[n] = server[i] => n = i
    /\ \A n \in Held(server) : n = 0 \/ n - 1 \in Held(server) \/ server[n] \in Stray

LEMMA SoundServer == StoreInv => Sound
<1> SUFFICES ASSUME StoreInv
             PROVE  Sound
  OBVIOUS
<1>1. PlacedInv /\ server \in Log /\ InPlace(server) /\ Story(server)
  BY PlacedLogs DEF StoreInv, StoryInv, Typed, FilesOK
<1>2. ASSUME NEW n \in Held(server), n # 0
      PROVE  n - 1 \in Held(server) \/ server[n] \in Stray
  <2>0. n \in Sequence /\ server[n] \in DOMAIN born
    BY <1>1, <1>2, LogFacts, InPlaceFacts
  <2>1. n \in Sequence /\ n > 0 /\ server[n] \in DOMAIN born
    BY <1>2, <2>0, SequenceFacts
  <2> QED
    BY <1>1, <2>1, StoryFacts DEF Stray
<1> QED
  BY <1>1, <1>2, InPlaceFacts DEF Sound

\* The server's rows implement SharedLog: at first there is none, and a step
\* adds turns of the conversation or leaves the rows as they are.
THEOREM ServerRowsStay == Spec => RowsStay
<1>1. Init => SharedRows!Init
  <2> SUFFICES ASSUME Init
               PROVE  Rows = <<>> /\ Stray = {}
    BY DEF SharedRows!Init, Rows, Stray
  <2>1. Held(server) = {}
    BY EmptyLog DEF Init
  <2>2. None \notin Unfit
    BY UnfitAssumption, NoneIsNoTurn DEF Turn
  <2>3. DOMAIN born = {First} /\ born[First] = None
    BY DEF Init
  <2> QED
    BY <2>1, <2>2, <2>3 DEF Rows, Stray
<1>2. StoreInv /\ Sound /\ Sound' /\ [Next]_vars => SharedRows!Next
  <2> SUFFICES ASSUME StoreInv, Sound, Sound', [Next]_vars
               PROVE  SharedRows!Next
    OBVIOUS
  <2>1. Stray \subseteq Stray'
    <3>1. CASE Next
      BY <3>1, BornFrom DEF StoreInv, Stray
    <3>2. CASE UNCHANGED vars
      BY <3>2 DEF vars, sendVars, Stray
    <3> QED
      BY <3>1, <3>2
  <2>2. CASE server' = server
    <3>1. Rows' = Rows
      BY <2>2 DEF Rows
    <3> QED
      BY <2>1, <3>1 DEF SharedRows!Next, Rows, Stray
  <2>3. CASE server' # server
    <3>1. Within(server, server')
      BY <2>3, ServerGrows DEF StoreInv, vars, gatewayVars
    <3>2. server \in Log /\ server' \in Log
      BY DEF Sound
    <3>3. /\ DOMAIN Rows = Held(server) /\ DOMAIN Rows' = Held(server')
          /\ \A n \in Held(server) : Rows[n] = server[n]
          /\ \A n \in Held(server') : Rows'[n] = server'[n]
      BY DEF Rows
    <3>4. DOMAIN Rows \subseteq DOMAIN Rows' /\ DOMAIN Rows' \subseteq Nat
      <4>1. Held(server) \subseteq Sequence /\ Held(server') \subseteq Sequence
        BY <3>2, LogFacts
      <4>2. \A n \in Held(server) : server'[n] = server[n] /\ server[n] # None
        BY <3>1 DEF Within, Held
      <4>3. Held(server) \subseteq Held(server')
        BY <4>1, <4>2 DEF Held
      <4> QED
        BY <3>3, <4>1, <4>3, SequenceFacts
    <3>5. \A n \in DOMAIN Rows : Rows'[n] = Rows[n]
      BY <3>1, <3>3, <3>4 DEF Within
    <3>6. \A n, i \in DOMAIN Rows' : Rows'[n] = Rows'[i] => n = i
      BY <3>3 DEF Sound
    <3>7. \A n \in DOMAIN Rows' \ DOMAIN Rows :
             Rows'[n] \in Turn /\ (n = 0 \/ n - 1 \in DOMAIN Rows' \/ Rows'[n] \in Stray')
      BY <3>2, <3>3, LogFacts DEF Sound
    <3>8. SharedRows!Extend
      BY <3>4, <3>5, <3>6, <3>7 DEF SharedRows!Extend, Rows, Stray
    <3> QED
      BY <2>1, <3>8 DEF SharedRows!Next, Stray
  <2> QED
    BY <2>2, <2>3
<1>3. StoreInv /\ Sound /\ Sound' /\ [Next]_vars => [SharedRows!Next]_<<Rows, Stray>>
  BY <1>2
<1> QED
  BY <1>1, <1>3, SoundServer, StoreInit, StoreStep, PTL
  DEF Spec, RowsStay, SharedRows!Spec, Rows, Stray
===============================================================================
