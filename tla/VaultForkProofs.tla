---------------------------- MODULE VaultForkProofs ----------------------------
(***************************************************************************)
(* Proof that it takes two computers that write to freeze a conversation.   *)
(* What is shown is about the time before a second one has written: until   *)
(* then every turn anywhere is the creator's, so nobody else has anything   *)
(* to push, and what the creator finds again on the server is its own.      *)
(***************************************************************************)
EXTENDS VaultStoryProofs

\* only the creator has written
Sole == \A t \in DOMAIN born : t[1] = Creator

\* a request begins a conversation, or is about a conversation that is there
ChatInv ==
    ~chat => /\ server = Empty
             /\ \A h \in pushes : h.step \in {"owner", "ensure"}

\* no pass uploads the file of a deleted conversation
TombInv ==
    \A d \in tomb :
        \/ local[d] = Empty
        \/ pass[d].at = "idle"
        \/ erasing[d] = "buried" /\ pass[d].at \in {"listing", "entering"}

\* two turns are never at one sequence
OneAtAPlace ==
    \A n \in Sequence, t, u \in Turn : Placed(n, t) /\ Placed(n, u) => t = u

\* until the creator deletes the conversation its file has every turn there is
WriterHasAll ==
    Creator \notin tomb =>
        \A n \in Sequence, t \in Turn : Placed(n, t) => local[Creator][n] = t

WriterFetchesNothing == pass[Creator].at = "fetch" => Creator \in tomb

\* the others read: they have nothing that the server has not
Reads(d) ==
    /\ send[d] # "asked"
    /\ Within(local[d], server)
    /\ pass[d].at # "next"
    /\ \A h \in pushes : h.from # d
    /\ pass[d].at = "entering" /\ ~pass[d].known => local[d] = Empty
    /\ pass[d].at \in {"compare", "fetch"} => Held(local[d]) \subseteq Held(pass[d].there)
    /\ pass[d].at = "fetch" => Apart(pass[d].todo, local[d])

\* before the turns of part there are none but those of part and base, and
\* those that cannot travel
NoneSkipped(part, base) ==
    \A n \in Held(part), i \in Sequence, t \in Turn \ Unfit :
        i < n /\ Placed(i, t) => part[i] # None \/ base[i] # None

\* as the next step leaves it
NoneSkippedThen(part, base) ==
    \A n \in Held(part), i \in Sequence, t \in Turn \ Unfit :
        i < n /\ Placed(i, t)' => part[i] # None \/ base[i] # None

\* every request, however late, begins where there ends or before
NoneBeyond(there) == \A h \in pushes : NoneSkipped(h.turns, there)

WriterIsAhead ==
    /\ NoneSkipped(server, server)
    /\ NoneBeyond(server)
    /\ pass[Creator].at \in {"compare", "fetch", "next", "push"} =>
          NoneBeyond(pass[Creator].there)
    /\ pass[Creator].at \in {"next", "push"} =>
          NoneSkipped(pass[Creator].todo, pass[Creator].there)
    /\ pass[Creator].at = "entering" /\ ~pass[Creator].known => NoneBeyond(Empty)

\* a request somebody waits for was refused because it is there already
Repeats(h) ==
    h.client = "waiting" =>
        /\ h.step \in {"classify", "explain"} => Held(h.turns) \cap Held(server) # {}
        /\ h.step = "explain" =>
              \A n \in Held(h.turns) \cap Held(server) : h.seen[n] = server[n]

NoneFrozen == \A d \in Device : entry[d] # "frozen"

OneVersion ==
    /\ OneAtAPlace
    /\ WriterHasAll
    /\ WriterFetchesNothing
    /\ \A d \in Device \ {Creator} : Reads(d)
    /\ WriterIsAhead
    /\ \A h \in pushes : Repeats(h)
    /\ NoneFrozen

ForkInv == StoreInv /\ ChatInv /\ TombInv /\ (Sole => OneVersion)

-------------------------------------------------------------------------------
(* Where the next state comes from *)

\* As long as only the creator has written, it is the one that writes.
LEMMA SoleBefore ==
    ASSUME Typed, Next, Sole'
    PROVE  Sole /\ \A e \in Device : Writes(e) => e = Creator
<1>1. Sole
  BY BornFrom DEF Sole
<1>2. ASSUME NEW e \in Device, Writes(e)
      PROVE  e = Creator
  <2>1. Appended(e, NewTurn(e))
    BY <1>2 DEF Writes, WriteMessage, WriteReply
  <2>2. NewTurn(e) \in DOMAIN born'
    BY <2>1, AppendedCounts
  <2>3. NewTurn(e)[1] = e
    BY DEF NewTurn
  <2> QED
    BY <2>2, <2>3 DEF Sole
<1> QED
  BY <1>1, <1>2

\* What a step may do to the pass of d.
Rests(q) ==
    \/ q.at \in {"idle", "listing", "manifest"}
    \/ q.at = "entering" /\ q.known

LEMMA PassFrom ==
    ASSUME Typed, Next, NEW d \in Device
    PROVE  \/ pass'[d] = pass[d]
           \/ Rests(pass'[d])
           \/ /\ pass'[d].at = "entering" /\ ~pass'[d].known /\ ~chat
              /\ local' = local /\ server' = server
           \/ /\ pass'[d].at = "compare"
              /\ local' = local /\ server' = server
              /\ \/ pass'[d].there = server
                 \/ pass[d].at = "entering" /\ ~pass[d].known /\ pass'[d].there = Empty
           \/ /\ pass[d].at = "compare" /\ pass'[d].at = "fetch"
              /\ local' = local /\ pass'[d].there = pass[d].there
              /\ pass'[d].todo = Without(pass[d].there, Held(local[d]))
              /\ Held(pass'[d].todo) # {}
           \/ /\ FileFetched(d) /\ pass'[d].at = "fetch"
              /\ pass'[d].there = pass[d].there
              /\ pass'[d].todo = Without(pass[d].todo, Held(FirstOf(pass[d].todo, FetchChunk)))
           \/ /\ pass'[d].at = "push" /\ pass'[d].there = pass[d].there
              /\ \/ pass[d].at = "next" /\ pass'[d].todo = pass[d].todo
                 \/ /\ pass[d].at = "compare" /\ local' = local
                    /\ pass'[d].todo = ToUpload(local[d], pass[d].there)
                    /\ Held(pass'[d].todo) # {}
                 \/ /\ FileFetched(d)
                    /\ pass'[d].todo = ToUpload(local'[d], pass[d].there)
                    /\ Held(pass'[d].todo) # {}
           \/ /\ pass[d].at = "push" /\ pass'[d].at = "next" /\ local' = local
              /\ \E h \in pushes :
                    /\ h.from = d
                    /\ pass'[d].there = Joined(pass[d].there, h.turns)
                    /\ pass'[d].todo = Without(pass[d].todo, Held(h.turns))
<1> DEFINE Goal ==
           \/ pass'[d] = pass[d]
           \/ Rests(pass'[d])
           \/ /\ pass'[d].at = "entering" /\ ~pass'[d].known /\ ~chat
              /\ local' = local /\ server' = server
           \/ /\ pass'[d].at = "compare"
              /\ local' = local /\ server' = server
              /\ \/ pass'[d].there = server
                 \/ pass[d].at = "entering" /\ ~pass[d].known /\ pass'[d].there = Empty
           \/ /\ pass[d].at = "compare" /\ pass'[d].at = "fetch"
              /\ local' = local /\ pass'[d].there = pass[d].there
              /\ pass'[d].todo = Without(pass[d].there, Held(local[d]))
              /\ Held(pass'[d].todo) # {}
           \/ /\ FileFetched(d) /\ pass'[d].at = "fetch"
              /\ pass'[d].there = pass[d].there
              /\ pass'[d].todo = Without(pass[d].todo, Held(FirstOf(pass[d].todo, FetchChunk)))
           \/ /\ pass'[d].at = "push" /\ pass'[d].there = pass[d].there
              /\ \/ pass[d].at = "next" /\ pass'[d].todo = pass[d].todo
                 \/ /\ pass[d].at = "compare" /\ local' = local
                    /\ pass'[d].todo = ToUpload(local[d], pass[d].there)
                    /\ Held(pass'[d].todo) # {}
                 \/ /\ FileFetched(d)
                    /\ pass'[d].todo = ToUpload(local'[d], pass[d].there)
                    /\ Held(pass'[d].todo) # {}
           \/ /\ pass[d].at = "push" /\ pass'[d].at = "next" /\ local' = local
              /\ \E h \in pushes :
                    /\ h.from = d
                    /\ pass'[d].there = Joined(pass[d].there, h.turns)
                    /\ pass'[d].todo = Without(pass[d].todo, Held(h.turns))
<1>0. /\ TalkOK /\ pass \in [Device -> Pass] /\ local \in [Device -> Log]
      /\ pass[d] \in Pass /\ pass[d].there \in Log /\ pass[d].todo \in Log /\ local[d] \in Log
      /\ local' \in [Device -> Log] /\ server \in Log
  BY PassOK, StepFiles DEF Typed, TalkOK, FilesOK
<1>1. ASSUME NEW q, Goes(d, q)
      PROVE  pass'[d] = q
  BY <1>0, <1>1 DEF Goes
<1>2. ASSUME Stops(d)
      PROVE  Rests(pass'[d])
  BY <1>1, <1>2, NoPassFacts DEF Stops, Rests
<1>3. ASSUME NEW e \in Device, e # d, NEW q, Goes(e, q)
      PROVE  pass'[d] = pass[d]
  BY <1>0, <1>3 DEF Goes
<1>4. ASSUME \E mode \in {"all", "one"} : BeginPass(d, mode)
      PROVE  Rests(pass'[d])
  BY <1>1, <1>4 DEF BeginPass, NoPass, Rests
<1>5. CASE ReadList(d)
  <2>1. CASE Goes(d, [NoPass EXCEPT !.at = "entering", !.known = chat])
    <3>1. pass'[d].at = "entering" /\ pass'[d].known = chat
      BY <1>1, <2>1 DEF NoPass
    <3>2. local' = local /\ server' = server
      BY <1>5 DEF ReadList, gatewayVars
    <3> QED
      BY <3>1, <3>2 DEF Rests
  <2>2. CASE Stops(d)
    BY <1>2, <2>2
  <2> QED
    BY <1>5, <2>1, <2>2 DEF ReadList
<1>6. CASE Enter(d)
  <2>1. CASE Goes(d, [NoPass EXCEPT !.at = IF pass[d].known THEN "manifest" ELSE "compare"])
    <3>1. /\ pass'[d].at = IF pass[d].known THEN "manifest" ELSE "compare"
          /\ pass'[d].there = Empty
      BY <1>1, <2>1 DEF NoPass
    <3>2. local' = local /\ server' = server /\ pass[d].at = "entering"
      BY <1>6 DEF Enter, gatewayVars
    <3> QED
      BY <3>1, <3>2 DEF Rests
  <2>2. CASE Stops(d)
    BY <1>2, <2>2
  <2> QED
    BY <1>6, <2>1, <2>2 DEF Enter
<1>7. CASE ReadManifest(d)
  <2>1. /\ pass'[d] = [pass[d] EXCEPT !.at = "compare", !.there = server]
        /\ local' = local /\ server' = server
    BY <1>1, <1>7 DEF ReadManifest, gatewayVars
  <2>2. pass'[d].at = "compare" /\ pass'[d].there = server
    BY <1>0, <2>1 DEF Pass
  <2> QED
    BY <2>1, <2>2
<1>8. ASSUME NEW there \in Log, NEW todo \in Log, Upload(d, there, todo)
      PROVE  \/ Rests(pass'[d])
             \/ /\ Held(todo) # {}
                /\ pass'[d].at = "push" /\ pass'[d].there = there /\ pass'[d].todo = todo
  <2> DEFINE q == [pass[d] EXCEPT !.at = "push", !.there = there, !.todo = todo]
  <2>1. CASE Stops(d)
    BY <1>2, <2>1
  <2>2. CASE Held(todo) # {} /\ Goes(d, q)
    <3>1. q.at = "push" /\ q.there = there /\ q.todo = todo
      BY <1>0 DEF Pass
    <3> HIDE DEF q
    <3> QED
      BY <1>1, <2>2, <3>1
  <2> QED
    BY <1>8, <2>1, <2>2 DEF Upload
<1>9. CASE Compare(d)
  <2> DEFINE missing == Without(pass[d].there, Held(local[d]))
             surplus == ToUpload(local[d], pass[d].there)
  <2>0. pass[d].at = "compare" /\ local' = local /\ missing \in Log /\ surplus \in Log
    BY <1>0, <1>9, WithoutFacts, ToUploadFacts DEF Compare
  <2>1. CASE Stops(d)
    BY <1>2, <2>1
  <2>2. CASE Held(missing) # {} /\ Goes(d, [pass[d] EXCEPT !.at = "fetch", !.todo = missing])
    <3>1. pass'[d] = [pass[d] EXCEPT !.at = "fetch", !.todo = missing]
      BY <1>1, <2>2
    <3>2. pass'[d].at = "fetch" /\ pass'[d].todo = missing /\ pass'[d].there = pass[d].there
      <4> HIDE DEF missing
      <4> QED
        BY <1>0, <3>1 DEF Pass
    <3> QED
      BY <2>0, <2>2, <3>2
  <2>3. CASE Upload(d, pass[d].there, surplus)
    <3>1. \/ Rests(pass'[d])
          \/ /\ Held(surplus) # {} /\ pass'[d].at = "push"
             /\ pass'[d].there = pass[d].there /\ pass'[d].todo = surplus
      <4> HIDE DEF surplus
      <4> QED
        BY <1>0, <1>8, <2>0, <2>3
    <3> QED
      BY <2>0, <3>1
  <2> QED
    BY <1>9, <2>1, <2>2, <2>3 DEF Compare, Freeze, BeginUpload
<1>10. CASE Download(d)
  <2> DEFINE rest == Without(pass[d].todo, Held(FirstOf(pass[d].todo, FetchChunk)))
  <2>0. pass[d].at = "fetch"
    BY <1>10 DEF Download
  <2>1. CASE Stops(d)
    BY <1>2, <2>1
  <2>2. CASE FileFetched(d) /\ Goes(d, [pass[d] EXCEPT !.todo = rest])
    <3>1. pass'[d] = [pass[d] EXCEPT !.todo = rest]
      BY <1>1, <2>2
    <3>2. pass'[d].at = "fetch" /\ pass'[d].todo = rest /\ pass'[d].there = pass[d].there
      <4> HIDE DEF rest
      <4> QED
        BY <1>0, <2>0, <3>1 DEF Pass
    <3> QED
      BY <2>2, <3>2
  <2>3. CASE FileFetched(d) /\ Upload(d, pass[d].there, ToUpload(local'[d], pass[d].there))
    <3>1. PICK surplus \in Log : surplus = ToUpload(local'[d], pass[d].there)
      BY <1>0, ToUploadFacts
    <3>2. \/ Rests(pass'[d])
          \/ /\ Held(surplus) # {} /\ pass'[d].at = "push"
             /\ pass'[d].there = pass[d].there /\ pass'[d].todo = surplus
      BY <1>0, <1>8, <2>3, <3>1
    <3> QED
      BY <2>3, <3>1, <3>2
  <2>4. \/ Stops(d)
        \/ FileFetched(d) /\ Goes(d, [pass[d] EXCEPT !.todo = rest])
        \/ FileFetched(d) /\ Upload(d, pass[d].there, ToUpload(local'[d], pass[d].there))
    <3>1. Stops(d) \/ FileFetched(d)
      BY <1>10 DEF Download, MayKeep, Occupied, Freeze, FileFetched
    <3>2. \/ Stops(d) \/ Goes(d, [pass[d] EXCEPT !.todo = rest])
          \/ Upload(d, pass[d].there, ToUpload(local'[d], pass[d].there))
      BY <1>10 DEF Download, Freeze, BeginUpload
    <3> QED
      BY <3>1, <3>2
  <2> HIDE DEF Goal
  <2> QED
    BY <2>1, <2>2, <2>3, <2>4 DEF Goal
<1>11. CASE NextBatch(d)
  <2>1. Upload(d, pass[d].there, pass[d].todo) /\ pass[d].at = "next"
    BY <1>11 DEF NextBatch
  <2>2. \/ Rests(pass'[d])
        \/ /\ pass'[d].at = "push" /\ pass'[d].there = pass[d].there
           /\ pass'[d].todo = pass[d].todo
    BY <1>0, <1>8, <2>1
  <2> QED
    BY <2>1, <2>2
<1>12. ASSUME NEW e \in Device, StartSend(e) \/ SendStep(e) \/ BeginDelete(e) \/ DeleteStep(e)
       PROVE  pass'[d] = pass[d]
  BY <1>12 DEF StartSend, SendStep, WriteMessage, WriteReply, EndSend,
               BeginDelete, DeleteStep, Bury, EraseFile, EndDelete
<1>13. ASSUME NEW e \in Device, e # d,
              \/ \E mode \in {"all", "one"} : BeginPass(e, mode)
              \/ PassStep(e) \/ CutPass(e) \/ Crash(e)
       PROVE  pass'[d] = pass[d]
  <2>1. \E q : Goes(e, q)
    BY <1>13 DEF BeginPass, PassStep, ReadList, Enter, ReadManifest, Compare, Download,
                 NextBatch, BeginUpload, Upload, Freeze, Stops, CutPass, Crash
  <2> QED
    BY <1>3, <1>13, <2>1
<1>15. ASSUME NEW h \in pushes, PushStep(h)
       PROVE  Goal
  <2>0. h.from \in Device /\ h.turns \in Log /\ local' = local
    BY <1>0, <1>15, PushOK DEF PushStep
  <2>1. CASE pass' = pass
    BY <2>1
  <2>2. CASE h.from # d /\ \E q : Goes(h.from, q)
    BY <1>3, <2>0, <2>2
  <2>3. CASE h.from = d /\ Stops(d)
    BY <1>2, <2>3
  <2>4. CASE h.from = d /\ Retry(d)
    <3>1. PICK q \in Pass : Goes(d, q) /\ q.at \in {"idle", "manifest"}
      BY <1>0, <2>4, RetryFacts
    <3> QED
      BY <1>1, <3>1 DEF Rests
  <2>5. CASE h.from = d /\ Confirmed(d, h.turns) /\ h.client = "waiting"
    <3>1. pass[d].at = "push"
      BY <1>0, <2>5 DEF TalkOK, WaitingPush
    <3>2. /\ pass'[d].at = "next" /\ pass'[d].there = Joined(pass[d].there, h.turns)
          /\ pass'[d].todo = Without(pass[d].todo, Held(h.turns))
      <4> DEFINE q == [pass[d] EXCEPT !.at = "next", !.there = Joined(@, h.turns),
                                      !.todo = Without(@, Held(h.turns))]
      <4>1. /\ Goes(d, q) /\ q.at = "next" /\ q.there = Joined(pass[d].there, h.turns)
            /\ q.todo = Without(pass[d].todo, Held(h.turns))
        BY <1>0, <2>0, <2>5, ConfirmedFacts
      <4> HIDE DEF q
      <4> QED
        BY <1>1, <4>1
    <3> QED
      BY <2>0, <2>5, <3>1, <3>2
  <2>6. \/ pass' = pass
        \/ /\ h.client = "waiting"
           /\ Stops(h.from) \/ Retry(h.from) \/ Confirmed(h.from, h.turns)
    <3>1. CASE FindOwner(h) \/ EnsureChat(h) \/ Classify(h)
      BY <3>1 DEF FindOwner, EnsureChat, Classify, Replies
    <3>2. CASE CheckBase(h) \/ Insert(h)
      BY <3>2 DEF CheckBase, Insert, Replies
    <3>3. CASE Explain(h)
      BY <3>3 DEF Explain, Replies, Freeze
    <3> QED
      BY <1>15, <3>1, <3>2, <3>3 DEF PushStep
  <2>7. Stops(h.from) \/ Retry(h.from) \/ Confirmed(h.from, h.turns) => \E q : Goes(h.from, q)
    BY DEF Stops, Retry, Confirmed
  <2> HIDE DEF Goal
  <2> QED
    BY <2>1, <2>2, <2>3, <2>4, <2>5, <2>6, <2>7
<1>16. ReadList(d) \/ Enter(d) \/ ReadManifest(d) => Goal
  BY <1>5, <1>6, <1>7
<1>17. Compare(d) \/ Download(d) \/ NextBatch(d) => Goal
  BY <1>9, <1>10, <1>11
<1>18. pass'[d] = pass[d] \/ Rests(pass'[d]) => Goal
  OBVIOUS
<1>19. CutPass(d) \/ Crash(d) => Rests(pass'[d])
  BY <1>2 DEF CutPass, Crash
<1> QED
  <2> HIDE DEF Goal
  <2>1. ASSUME NEW e \in Device,
               \/ StartSend(e) \/ SendStep(e) \/ BeginDelete(e) \/ DeleteStep(e)
               \/ \E mode \in {"all", "one"} : BeginPass(e, mode)
               \/ PassStep(e) \/ CutPass(e) \/ Crash(e)
        PROVE  Goal
    <3>1. CASE e # d
      BY <1>12, <1>13, <1>18, <2>1, <3>1
    <3>2. CASE e = d
      BY <1>4, <1>12, <1>16, <1>17, <1>18, <1>19, <2>1, <3>2 DEF PassStep
    <3> QED
      BY <3>1, <3>2
  <2>2. Goal
    BY <1>15, <2>1 DEF Next
  <2> QED
    BY <2>2 DEF Goal

\* What becomes of the requests that somebody waits for.
LEMMA WaitersFrom ==
    ASSUME Typed, Next, NEW g \in pushes', g.client = "waiting"
    PROVE  \/ g.step \in {"owner", "ensure", "base", "insert"}
           \/ g \in pushes
           \/ /\ server' = server /\ g.step = "classify"
              /\ \E h \in pushes : g.turns = h.turns /\ ~Fits(h)
           \/ /\ server' = server /\ g.step = "explain"
              /\ \E h \in pushes :
                    /\ h.step = "classify" /\ h.client = "waiting" /\ g.turns = h.turns
                    /\ g.seen = Without(server, Sequence \ Held(h.turns))
<1>0. TalkOK
  BY DEF Typed
<1>1. CASE \A k \in pushes : ~PushStep(k)
  <2>1. ASSUME NEW d \in Device, NEW there, NEW todo, Upload(d, there, todo), g \notin pushes
        PROVE  g.step = "owner"
    BY <2>1 DEF Upload
  <2>2. ASSUME NEW d \in Device, CutPass(d) \/ Crash(d)
        PROVE  g \in pushes
    <3>1. CASE pushes' = {h \in pushes : h.from # d \/ h.client = "gone"}
      BY <3>1
    <3>2. CASE pushes' = Abandoned(d)
      <4>1. PICK h \in pushes : g = IF h.from = d THEN [h EXCEPT !.client = "gone"] ELSE h
        BY <3>2 DEF Abandoned
      <4>2. [h EXCEPT !.client = "gone"].client = "gone"
        BY <1>0, PushOK DEF Push
      <4> QED
        BY <1>1, <4>1, <4>2
    <3> QED
      BY <2>2, <3>1, <3>2 DEF CutPass, Crash
  <2>3. ASSUME NEW d \in Device, PassStep(d)
        PROVE  g.step = "owner" \/ g \in pushes
    BY <2>1, <2>3 DEF PassStep, ReadList, Enter, ReadManifest, Compare, Download, NextBatch,
                      BeginUpload, gatewayVars
  <2>4. ASSUME NEW d \in Device, StartSend(d) \/ SendStep(d) \/ BeginDelete(d) \/ DeleteStep(d)
        PROVE  g \in pushes
    BY <2>4 DEF StartSend, SendStep, WriteMessage, WriteReply, EndSend,
                BeginDelete, DeleteStep, Bury, EraseFile, EndDelete, gatewayVars
  <2>5. ASSUME NEW d \in Device, \E mode \in {"all", "one"} : BeginPass(d, mode)
        PROVE  g \in pushes
    BY <2>5 DEF BeginPass, gatewayVars
  <2> QED
    BY <1>1, <2>2, <2>3, <2>4, <2>5 DEF Next
<1>2. ASSUME NEW k \in pushes, PushStep(k), g \notin pushes
      PROVE  \/ g.step \in {"owner", "ensure", "base", "insert"}
             \/ /\ server' = server /\ g.step = "classify"
                /\ \E h \in pushes : g.turns = h.turns /\ ~Fits(h)
             \/ /\ server' = server /\ g.step = "explain"
                /\ \E h \in pushes :
                      /\ h.step = "classify" /\ h.client = "waiting" /\ g.turns = h.turns
                      /\ g.seen = Without(server, Sequence \ Held(h.turns))
  <2>0. k \in Push
    BY <1>0, PushOK
  <2>1. ASSUME NEW step \in {"owner", "ensure", "base", "insert", "classify", "explain"},
               Moves(k, step)
        PROVE  g.step = step /\ g.turns = k.turns
    <3>1. g = [k EXCEPT !.step = step]
      BY <1>2, <2>1 DEF Moves
    <3> QED
      BY <2>0, <3>1 DEF Push
  <2>2. ASSUME NEW next, Replies(k, next)
        PROVE  FALSE
    BY <1>2, <2>2 DEF Replies
  <2>3. CASE FindOwner(k)
    <3>1. Moves(k, "base") \/ Moves(k, "ensure") \/ pushes' = pushes \ {k}
      BY <2>3 DEF FindOwner, Replies
    <3> QED
      BY <1>2, <2>1, <3>1
  <2>4. CASE EnsureChat(k)
    <3>1. Moves(k, "base") \/ Moves(k, "insert")
      BY <2>4 DEF EnsureChat
    <3> QED
      BY <2>1, <3>1
  <2>5. CASE CheckBase(k)
    <3>1. Moves(k, "insert") \/ pushes' = pushes \ {k}
      BY <2>5 DEF CheckBase, Replies
    <3> QED
      BY <1>2, <2>1, <3>1
  <2>6. CASE Insert(k)
    <3>1. (Moves(k, "classify") /\ ~Fits(k) /\ server' = server) \/ pushes' = pushes \ {k}
      BY <2>6 DEF Insert, Replies
    <3> QED
      BY <1>2, <2>1, <3>1
  <2>7. CASE Classify(k)
    <3> DEFINE seen == Without(server, Sequence \ Held(k.turns))
    <3>1. g = [k EXCEPT !.step = "explain", !.seen = seen]
      BY <1>2, <2>7 DEF Classify
    <3>2. g.step = "explain" /\ g.seen = seen /\ g.turns = k.turns /\ g.client = k.client
      <4> HIDE DEF seen
      <4> QED
        BY <2>0, <3>1 DEF Push
    <3>3. server' = server /\ k.step = "classify"
      BY <2>7 DEF Classify
    <3> QED
      BY <3>2, <3>3
  <2>8. CASE Explain(k)
    BY <1>2, <2>8 DEF Explain, Replies
  <2> QED
    BY <1>2, <2>3, <2>4, <2>5, <2>6, <2>7, <2>8 DEF PushStep
<1> QED
  BY <1>1, <1>2

\* A conversation freezes where a pass finds two versions, or is told of them.
LEMMA FrozenFrom ==
    ASSUME Typed, Next, NEW d \in Device, entry'[d] = "frozen", entry[d] # "frozen"
    PROVE  \/ pass[d].at = "compare" /\ TwoVersions(local[d], pass[d].there)
           \/ /\ pass[d].at = "fetch" /\ d \notin tomb
              /\ Held(FirstOf(pass[d].todo, FetchChunk)) \cap Held(local[d]) # {}
           \/ \E h \in pushes : /\ h.step = "explain" /\ h.client = "waiting"
                                /\ h.from = d /\ Conflicts(h)
<1>0. /\ TalkOK /\ entry \in [Device -> {"none", "synced", "frozen"}]
      /\ \A e \in Device : pass[e].there \in Log /\ pass[e].todo \in Log
      /\ local \in [Device -> Log] /\ local' \in [Device -> Log]
  BY PassOK, StepFiles DEF Typed, FilesOK, FlagsOK
<1>1. ASSUME NEW e \in Device, entry' = [entry EXCEPT ![e] = "frozen"]
      PROVE  e = d
  BY <1>0, <1>1
<1>2. ASSUME NEW e \in Device, NEW there \in Log, NEW todo \in Log, Upload(e, there, todo)
      PROVE  FALSE
  BY <1>0, <1>2 DEF Upload
<1>3. ASSUME NEW e \in Device, StartSend(e) \/ SendStep(e) \/ BeginDelete(e) \/ DeleteStep(e)
      PROVE  FALSE
  BY <1>0, <1>3 DEF StartSend, SendStep, WriteMessage, WriteReply, EndSend,
                    BeginDelete, DeleteStep, Bury, EraseFile, EndDelete
<1>4. ASSUME NEW e \in Device, \/ \E mode \in {"all", "one"} : BeginPass(e, mode)
                               \/ ReadList(e) \/ Enter(e) \/ ReadManifest(e)
                               \/ CutPass(e) \/ Crash(e)
      PROVE  FALSE
  BY <1>4 DEF BeginPass, ReadList, Enter, ReadManifest, CutPass, Crash
<1>5. ASSUME NEW e \in Device, Compare(e)
      PROVE  pass[d].at = "compare" /\ TwoVersions(local[d], pass[d].there)
  <2>1. ToUpload(local[e], pass[e].there) \in Log
    BY <1>0, ToUploadFacts
  <2>2. ~Upload(e, pass[e].there, ToUpload(local[e], pass[e].there))
    BY <1>0, <1>2, <2>1
  <2>3. pass[e].at = "compare" /\ TwoVersions(local[e], pass[e].there) /\ Freeze(e)
    BY <1>5, <2>2 DEF Compare, BeginUpload
  <2> QED
    BY <1>1, <2>3 DEF Freeze
<1>6. ASSUME NEW e \in Device, Download(e)
      PROVE  /\ pass[d].at = "fetch" /\ d \notin tomb
             /\ Held(FirstOf(pass[d].todo, FetchChunk)) \cap Held(local[d]) # {}
  <2>1. PICK todo \in Log : todo = ToUpload(local'[e], pass[e].there)
    BY <1>0, ToUploadFacts
  <2>2. ~Upload(e, pass[e].there, todo)
    BY <1>0, <1>2
  <2>3. ~Upload(e, pass[e].there, ToUpload(local'[e], pass[e].there))
    BY <2>1, <2>2
  <2>4. pass[e].at = "fetch" /\ MayKeep(e) /\ Occupied(e, FirstOf(pass[e].todo, FetchChunk))
        /\ Freeze(e)
    BY <1>6, <2>3 DEF Download, BeginUpload
  <2> QED
    BY <1>1, <2>4 DEF Freeze, MayKeep, Occupied
<1>7. ASSUME NEW e \in Device, NextBatch(e)
      PROVE  FALSE
  BY <1>0, <1>2, <1>7 DEF NextBatch
<1>8. ASSUME NEW h \in pushes, PushStep(h)
      PROVE  h.step = "explain" /\ h.client = "waiting" /\ h.from = d /\ Conflicts(h)
  <2>0. h.from \in Device
    BY <1>0, PushOK
  <2>1. ASSUME (Stops(h.from) /\ UNCHANGED entry) \/ Retry(h.from) \/ Confirmed(h.from, h.turns)
        PROVE  FALSE
    BY <2>1 DEF Retry, Confirmed
  <2>2. ~FindOwner(h) /\ ~EnsureChat(h) /\ ~Classify(h)
    BY DEF FindOwner, EnsureChat, Classify, Replies
  <2>3. ~CheckBase(h) /\ ~Insert(h)
    BY <2>1 DEF CheckBase, Insert, Replies
  <2>4. Explain(h)
    BY <1>8, <2>2, <2>3 DEF PushStep
  <2>5. h.step = "explain" /\ h.client = "waiting" /\ Conflicts(h) /\ Freeze(h.from)
    BY <2>1, <2>4 DEF Explain, Replies
  <2> QED
    BY <1>1, <2>0, <2>5 DEF Freeze
<1> QED
  <2>1. ASSUME NEW e \in Device, PassStep(e)
        PROVE  \/ pass[d].at = "compare" /\ TwoVersions(local[d], pass[d].there)
               \/ /\ pass[d].at = "fetch" /\ d \notin tomb
                  /\ Held(FirstOf(pass[d].todo, FetchChunk)) \cap Held(local[d]) # {}
    BY <1>4, <1>5, <1>6, <1>7, <2>1 DEF PassStep
  <2> QED
    BY <1>3, <1>4, <1>8, <2>1 DEF Next

-------------------------------------------------------------------------------
(* What holds whoever writes *)

\* The conversation has its row before anything else is done with it.
LEMMA ChatStep ==
    ASSUME Typed, ChatInv, Next
    PROVE  ChatInv'
<1> SUFFICES ASSUME ~chat'
             PROVE  server' = Empty /\ \A g \in pushes' : g.step \in {"owner", "ensure"}
  BY DEF ChatInv
<1>0. TalkOK
  BY DEF Typed
<1>1. ~chat /\ ~\E k \in pushes : EnsureChat(k)
  <2>1. ASSUME NEW k \in pushes, PushStep(k)
        PROVE  ~chat /\ ~EnsureChat(k)
    <3>1. chat' # TRUE
      OBVIOUS
    <3>2. ~EnsureChat(k)
      BY <3>1 DEF EnsureChat
    <3>3. chat' = chat
      BY <2>1, <3>2 DEF PushStep, FindOwner, CheckBase, Insert, Classify, Explain
    <3> QED
      BY <3>2, <3>3
  <2>2. ASSUME NEW k \in pushes, EnsureChat(k)
        PROVE  FALSE
    BY <2>2 DEF EnsureChat
  <2>3. ASSUME NEW d \in Device,
               \/ StartSend(d) \/ SendStep(d) \/ BeginDelete(d) \/ DeleteStep(d)
               \/ \E mode \in {"all", "one"} : BeginPass(d, mode)
               \/ PassStep(d) \/ CutPass(d) \/ Crash(d)
        PROVE  ~chat
    BY <2>3 DEF StartSend, SendStep, WriteMessage, WriteReply, EndSend,
                BeginDelete, DeleteStep, Bury, EraseFile, EndDelete, BeginPass,
                PassStep, ReadList, Enter, ReadManifest, Compare, Download, NextBatch,
                CutPass, Crash, gatewayVars
  <2> QED
    BY <2>1, <2>2, <2>3 DEF Next
<1>2. server = Empty /\ \A h \in pushes : h.step \in {"owner", "ensure"}
  BY <1>1 DEF ChatInv
<1>3. server' = Empty
  BY <1>2, ServerFrom DEF Insert
<1>4. ASSUME NEW g \in pushes'
      PROVE  g.step \in {"owner", "ensure"}
  <2>1. ASSUME NEW k \in pushes, PushStep(k)
        PROVE  g.step \in {"owner", "ensure"}
    <3>1. FindOwner(k)
      BY <1>1, <1>2, <2>1 DEF PushStep, CheckBase, Insert, Classify, Explain
    <3>2. Moves(k, "ensure") \/ pushes' = pushes \ {k}
      BY <1>1, <3>1 DEF FindOwner, Replies
    <3>3. k \in Push
      BY <1>0, PushOK
    <3>4. [k EXCEPT !.step = "ensure"].step = "ensure"
      BY <3>3 DEF Push
    <3> QED
      BY <1>2, <3>2, <3>4 DEF Moves
  <2>2. ASSUME NEW d \in Device, NEW there, NEW todo, Upload(d, there, todo)
        PROVE  g.step \in {"owner", "ensure"}
    BY <1>2, <2>2 DEF Upload
  <2>3. ASSUME NEW d \in Device, PassStep(d)
        PROVE  g.step \in {"owner", "ensure"}
    BY <1>2, <2>2, <2>3 DEF PassStep, ReadList, Enter, ReadManifest, Compare, Download,
                            NextBatch, BeginUpload, gatewayVars
  <2>4. ASSUME NEW d \in Device, CutPass(d) \/ Crash(d)
        PROVE  g.step \in {"owner", "ensure"}
    <3>1. CASE pushes' = {h \in pushes : h.from # d \/ h.client = "gone"}
      BY <1>2, <3>1
    <3>2. CASE pushes' = Abandoned(d)
      <4>1. PICK h \in pushes : g = IF h.from = d THEN [h EXCEPT !.client = "gone"] ELSE h
        BY <3>2 DEF Abandoned
      <4>2. [h EXCEPT !.client = "gone"].step = h.step
        BY <1>0, PushOK DEF Push
      <4> QED
        BY <1>2, <4>1, <4>2
    <3> QED
      BY <2>4, <3>1, <3>2 DEF CutPass, Crash
  <2>5. ASSUME NEW d \in Device,
               \/ StartSend(d) \/ SendStep(d) \/ BeginDelete(d) \/ DeleteStep(d)
               \/ \E mode \in {"all", "one"} : BeginPass(d, mode)
        PROVE  pushes' = pushes
    BY <2>5 DEF StartSend, SendStep, WriteMessage, WriteReply, EndSend,
                BeginDelete, DeleteStep, Bury, EraseFile, EndDelete, BeginPass, gatewayVars
  <2> QED
    BY <1>2, <2>1, <2>3, <2>4, <2>5 DEF Next
<1> QED
  BY <1>3, <1>4

\* The file of a deleted conversation goes before a pass comes to it.
LEMMA TombStep ==
    ASSUME StoreInv, TombInv, Next
    PROVE  TombInv'
<1> SUFFICES ASSUME NEW d \in tomb', local'[d] # Empty, pass'[d].at # "idle"
             PROVE  erasing'[d] = "buried" /\ pass'[d].at \in {"listing", "entering"}
  BY DEF TombInv
<1>0. /\ Typed /\ TalkOK /\ Typed' /\ d \in Device
      /\ pass \in [Device -> Pass] /\ local \in [Device -> Log]
      /\ erasing \in [Device -> {"no", "waiting", "buried", "erased"}]
  BY StoreStep DEF StoreInv, Typed, TalkOK, FilesOK, FlagsOK
<1> DEFINE Goal == erasing'[d] = "buried" /\ pass'[d].at \in {"listing", "entering"}
<1>1. ASSUME d \notin tomb
      PROVE  Goal
  <2>2. \E e \in Device : Bury(e)
    <3>1. ASSUME NEW e \in Device, StartSend(e) \/ SendStep(e) \/ BeginDelete(e)
          PROVE  tomb' = tomb
      BY <3>1 DEF StartSend, SendStep, WriteMessage, WriteReply, EndSend, BeginDelete, eraseVars
    <3>2. ASSUME NEW e \in Device, DeleteStep(e)
          PROVE  tomb' = tomb \/ Bury(e)
      BY <3>2 DEF DeleteStep, EraseFile, EndDelete
    <3>3. ASSUME NEW e \in Device, \/ \E mode \in {"all", "one"} : BeginPass(e, mode)
                                   \/ PassStep(e) \/ CutPass(e) \/ Crash(e)
          PROVE  tomb' = tomb
      BY <3>3 DEF BeginPass, PassStep, ReadList, Enter, ReadManifest, Compare, Download,
                  NextBatch, CutPass, Crash, eraseVars
    <3>4. ASSUME NEW h \in pushes, PushStep(h)
          PROVE  tomb' = tomb
      BY <3>4 DEF PushStep, eraseVars
    <3> QED
      BY <1>1, <3>1, <3>2, <3>3, <3>4 DEF Next
  <2>3. PICK e \in Device : Bury(e)
    BY <2>2
  <2>4. e = d
    BY <1>1, <2>3 DEF Bury
  <2>5. erasing'[d] = "buried" /\ pass'[d] = pass[d] /\ ~Holding(d)
    BY <1>0, <2>3, <2>4 DEF Bury
  <2> QED
    BY <2>5 DEF Holding
<1>2. ASSUME d \in tomb
      PROVE  Goal
  <2>1. local[d] # Empty
    BY <1>2, ErasedStays
  <2>2. ASSUME NEW e \in Device,
               \/ StartSend(e) \/ SendStep(e) \/ BeginDelete(e) \/ DeleteStep(e)
               \/ \E mode \in {"all", "one"} : BeginPass(e, mode)
               \/ PassStep(e) \/ CutPass(e) \/ Crash(e)
        PROVE  Goal
    <3>1. CASE StartSend(e) \/ SendStep(e)
      <4>1. pass' = pass /\ erasing' = erasing
        BY <3>1 DEF StartSend, SendStep, WriteMessage, WriteReply, EndSend, eraseVars
      <4> QED
        BY <1>2, <2>1, <4>1 DEF TombInv
    <3>2. CASE BeginDelete(e) \/ DeleteStep(e)
      <4>1. pass' = pass
        BY <3>2 DEF BeginDelete, DeleteStep, Bury, EraseFile, EndDelete
      <4>2. erasing[d] = "buried" /\ pass[d].at \in {"listing", "entering"}
        BY <1>2, <2>1, <4>1 DEF TombInv
      <4>3. erasing'[d] = "buried"
        <5>1. CASE EraseFile(e)
          BY <1>0, <4>2, <5>1 DEF EraseFile
        <5>2. CASE BeginDelete(e)
          BY <1>0, <4>2, <5>2 DEF BeginDelete, Busy
        <5>3. CASE Bury(e) \/ EndDelete(e)
          BY <1>0, <4>2, <5>3 DEF Bury, EndDelete
        <5> QED
          BY <3>2, <5>1, <5>2, <5>3 DEF DeleteStep
      <4> QED
        BY <4>1, <4>2, <4>3
    <3>3. CASE e # d /\ \/ \E mode \in {"all", "one"} : BeginPass(e, mode)
                        \/ PassStep(e) \/ CutPass(e) \/ Crash(e)
      <4>1. PICK q : Goes(e, q)
        BY <3>3 DEF BeginPass, PassStep, ReadList, Enter, ReadManifest, Compare, Download,
                    NextBatch, BeginUpload, Upload, Freeze, Stops, CutPass, Crash
      <4>2. pass'[d] = pass[d]
        BY <1>0, <3>3, <4>1 DEF Goes
      <4>3. erasing' = erasing \/ erasing' = [erasing EXCEPT ![e] = "no"]
        BY <3>3 DEF BeginPass, PassStep, ReadList, Enter, ReadManifest, Compare, Download,
                    NextBatch, CutPass, Crash, eraseVars
      <4> QED
        BY <1>0, <1>2, <2>1, <3>3, <4>2, <4>3 DEF TombInv
    <3>4. CASE e = d /\ ((\E mode \in {"all", "one"} : BeginPass(e, mode)) \/ CutPass(e) \/ Crash(e))
      <4>1. ~\E mode \in {"all", "one"} : BeginPass(d, mode)
        BY <1>2 DEF BeginPass
      <4>2. Stops(d)
        BY <3>4, <4>1 DEF CutPass, Crash
      <4> QED
        BY <1>0, <4>2, NoPassFacts DEF Stops, Goes
    <3>5. CASE e = d /\ PassStep(e)
      <4>0. pass[d].at # "idle"
        BY <3>5 DEF PassStep, ReadList, Enter, ReadManifest, Compare, Download, NextBatch
      <4>1. erasing[d] = "buried" /\ pass[d].at \in {"listing", "entering"}
        BY <1>2, <2>1, <4>0 DEF TombInv
      <4>2. ~Stops(d)
        BY <1>0, NoPassFacts DEF Stops, Goes
      <4>3. ReadList(d)
        BY <3>5, <4>1, <4>2 DEF PassStep, Enter, Busy, ReadManifest, Compare, Download, NextBatch
      <4>4. Goes(d, [NoPass EXCEPT !.at = "entering", !.known = chat]) /\ erasing' = erasing
        BY <4>2, <4>3 DEF ReadList, eraseVars
      <4>5. pass'[d].at = "entering"
        BY <1>0, <4>4 DEF Goes, NoPass
      <4> QED
        BY <4>1, <4>4, <4>5
    <3> QED
      BY <2>2, <3>1, <3>2, <3>3, <3>4, <3>5
  <2>3. ASSUME NEW h \in pushes, PushStep(h)
        PROVE  Goal
    <3>0. h.from \in Device /\ erasing' = erasing /\ local' = local
      BY <1>0, <2>3, PushOK DEF PushStep, eraseVars
    <3>1. pass'[d] = pass[d] \/ (h.from = d /\ h.client = "waiting")
      <4>1. pass' = pass \/ (h.client = "waiting" /\ \E q : Goes(h.from, q))
        <5>1. CASE FindOwner(h) \/ EnsureChat(h) \/ Classify(h)
          BY <5>1 DEF FindOwner, EnsureChat, Classify, Replies, Stops
        <5>2. CASE CheckBase(h) \/ Insert(h)
          BY <5>2 DEF CheckBase, Insert, Replies, Retry, Confirmed, Stops
        <5>3. CASE Explain(h)
          BY <5>3 DEF Explain, Replies, Freeze, Retry, Confirmed, Stops
        <5> QED
          BY <2>3, <5>1, <5>2, <5>3 DEF PushStep
      <4> QED
        BY <1>0, <3>0, <4>1 DEF Goes
    <3>2. ~(h.from = d /\ h.client = "waiting")
      BY <1>0, <1>2, <2>1 DEF TalkOK, WaitingPush, TombInv
    <3> QED
      BY <1>2, <2>1, <3>0, <3>1, <3>2 DEF TombInv
  <2> QED
    BY <2>2, <2>3 DEF Next
<1> QED
  BY <1>1, <1>2

\* A step that does not send keeps what the requests hold.
LEMMA OldRequests ==
    ASSUME Typed, Next, NEW g \in pushes', pass'[g.from].at # "push"
    PROVE  \E h \in pushes : g.turns = h.turns
<1> QED
  BY PushesFrom DEF Heir

\* What is written comes behind all there is, so that nothing is skipped later.
LEMMA SkipsNothingLater ==
    ASSUME StoreInv, Next, WriterHasAll, \A e \in Device : Writes(e) => e = Creator,
           NEW part \in Log, InPlace(part), NEW base, NoneSkipped(part, base),
           NEW later, \A n \in Sequence : base[n] # None => later[n] # None
    PROVE  NoneSkippedThen(part, later)
<1> SUFFICES ASSUME NEW n \in Held(part), NEW i \in Sequence, NEW t \in Turn \ Unfit,
                    i < n, Placed(i, t)'
             PROVE  part[i] # None \/ later[i] # None
  BY DEF NoneSkippedThen
<1>0. Typed /\ ThereIsThere /\ local \in [Device -> Log]
  BY DEF StoreInv, Typed, FilesOK
<1>1. CASE Placed(i, t)
  BY <1>1 DEF NoneSkipped
<1>2. ASSUME NEW e \in Device, Writes(e), i = NextSequence(local[e])
      PROVE  FALSE
  <2>1. e = Creator /\ Creator \notin tomb
    BY <1>2 DEF Writes, WriteMessage, WriteReply, MayWrite
  <2>2. n \in Sequence /\ part[n] \in Turn /\ Placed(n, part[n])
    BY LogFacts DEF InPlace
  <2>3. local[Creator] \in Log /\ n \in Held(local[Creator])
    BY <1>0, <2>1, <2>2, NoneIsNoTurn DEF WriterHasAll, Held
  <2>4. n < NextSequence(local[Creator])
    BY <2>3, NextOfLog
  <2>5. n \in Nat /\ i \in Nat
    BY <2>2, SequenceFacts
  <2> QED
    BY <1>2, <2>1, <2>4, <2>5
<1> QED
  BY <1>0, <1>1, <1>2, PlacedFrom

\* The creator's list of what to push skips nothing.
LEMMA ListStep ==
    ASSUME StoreInv, TombInv, WriterIsAhead, WriterHasAll, WriterFetchesNothing, Next,
           \A e \in Device : Writes(e) => e = Creator,
           pass'[Creator].at \in {"next", "push"}
    PROVE  NoneSkipped(pass[Creator].todo, pass[Creator].there)'
<1> DEFINE p == pass[Creator]
           q == pass'[Creator]
<1>0. /\ Typed /\ TalkOK /\ ThereIsThere /\ Creator \in Device
      /\ p.there \in Log /\ p.todo \in Log /\ local[Creator] \in Log /\ InPlace(p.todo)
  BY DeviceFacts, PassOK, PlacedLogs DEF StoreInv, Typed, FilesOK
<1>1. p.at \in {"next", "push"} => NoneSkipped(p.todo, p.there)
  BY DEF WriterIsAhead
<1>2. CASE p.at \in {"next", "push"} /\ q.todo = p.todo /\ q.there = p.there
  <2> HIDE DEF p, q
  <2>1. NoneSkippedThen(p.todo, q.there)
    BY <1>0, <1>1, <1>2, SkipsNothingLater
  <2> QED
    BY <1>2, <2>1 DEF NoneSkipped, NoneSkippedThen, p, q
<1>3. CASE /\ p.at = "push" /\ local' = local
           /\ \E h \in pushes : /\ q.there = Joined(p.there, h.turns)
                               /\ q.todo = Without(p.todo, Held(h.turns))
  <2>1. PICK h \in pushes : /\ q.there = Joined(p.there, h.turns)
                            /\ q.todo = Without(p.todo, Held(h.turns))
    BY <1>3
  <2>2. h.turns \in Log
    BY <1>0, PushOK
  <2> HIDE DEF p, q
  <2>3. \A n \in Sequence : p.there[n] # None => q.there[n] # None
    BY <1>0, <2>1, <2>2, JoinedFacts
  <2>4. NoneSkippedThen(p.todo, q.there)
    BY <1>0, <1>1, <1>3, <2>3, SkipsNothingLater
  <2>5. \A n \in Held(q.todo) : n \in Held(p.todo)
    BY <1>0, <2>1, <2>2, WithoutFacts
  <2>6. \A n \in Sequence : p.todo[n] # None => q.todo[n] # None \/ q.there[n] # None
    BY <1>0, <2>1, <2>2, WithoutFacts, JoinedFacts, LogFacts
  <2> QED
    BY <2>4, <2>5, <2>6 DEF NoneSkipped, NoneSkippedThen, p, q
<1>4. CASE /\ p.at = "compare" /\ local' = local /\ q.there = p.there
           /\ q.todo = ToUpload(local[Creator], p.there) /\ Held(q.todo) # {}
  <2>1. Creator \notin tomb
    <3>1. ASSUME local[Creator] = Empty
          PROVE  FALSE
      <4>1. Held(ToUpload(local[Creator], p.there)) \subseteq Held(local[Creator])
        BY <1>0, ToUploadFacts
      <4> QED
        BY <1>4, <3>1, <4>1, EmptyLog
    <3> QED
      BY <1>4, <3>1 DEF TombInv
  <2> SUFFICES ASSUME NEW n \in Held(q.todo), NEW i \in Sequence, NEW t \in Turn \ Unfit,
                      Placed(i, t)'
               PROVE  q.todo[i] # None \/ q.there[i] # None
    BY DEF NoneSkipped
  <2>2. \A e \in Device : ~Writes(e)
    <3>1. ASSUME NEW e \in Device, Writes(e)
          PROVE  FALSE
      <4>1. pass' = pass
        BY <3>1 DEF Writes, WriteMessage, WriteReply
      <4> QED
        BY <1>4, <4>1
    <3> QED
      BY <3>1
  <2>3. local[Creator][i] = t
    BY <1>0, <2>1, <2>2, PlacedFrom DEF WriterHasAll
  <2>4. i \in Held(local[Creator])
    BY <2>3, NoneIsNoTurn DEF Held
  <2> HIDE DEF p, q
  <2> QED
    BY <1>0, <1>4, <2>3, <2>4, ToUploadFacts, NoneIsNoTurn
<1>5. ~FileFetched(Creator)
  BY DEF FileFetched, WriterFetchesNothing
<1>6. ~Rests(q)
  BY DEF Rests
<1> HIDE DEF p, q
<1>7. \/ q = p
      \/ q.there = p.there /\ p.at = "next" /\ q.todo = p.todo
      \/ /\ p.at = "compare" /\ local' = local /\ q.there = p.there
         /\ q.todo = ToUpload(local[Creator], p.there) /\ Held(q.todo) # {}
      \/ /\ p.at = "push" /\ local' = local
         /\ \E h \in pushes : /\ q.there = Joined(p.there, h.turns)
                             /\ q.todo = Without(p.todo, Held(h.turns))
  BY <1>0, <1>5, <1>6, PassFrom DEF p, q
<1>8. q.at \in {"next", "push"}
  BY DEF q
<1> QED
  BY <1>2, <1>3, <1>4, <1>7, <1>8

\* No request skips a turn that is not in later, if none skipped one that was
\* not in a part of it, and what the pass that sends knows is in it too.
LEMMA BeyondStep ==
    ASSUME StoreInv, Next, WriterHasAll, \A e \in Device : Writes(e) => e = Creator,
           \A g \in pushes' : g.from = Creator,
           NEW there, NoneBeyond(there),
           NEW later, \A n \in Sequence : there[n] # None => later[n] # None,
           pass'[Creator].at = "push" =>
              /\ NoneSkipped(pass[Creator].todo, pass[Creator].there)'
              /\ \A n \in Sequence : pass'[Creator].there[n] # None => later[n] # None
    PROVE  \A g \in pushes' : NoneSkippedThen(g.turns, later)
<1> SUFFICES ASSUME NEW g \in pushes'
             PROVE  NoneSkippedThen(g.turns, later)
  OBVIOUS
<1>0. StoreInv'
  BY StoreStep
<1>1. Typed /\ PushKnows(g)' /\ g.from = Creator
  BY <1>0 DEF StoreInv
<1>2. CASE \E h \in pushes : g.turns = h.turns
  <2>1. PICK h \in pushes : g.turns = h.turns
    BY <1>2
  <2>2. h.turns \in Log /\ InPlace(h.turns) /\ NoneSkipped(h.turns, there)
    BY <1>1, <2>1, PushOK, PlacedLogs DEF NoneBeyond, Typed
  <2>3. NoneSkippedThen(h.turns, later)
    BY <2>2, SkipsNothingLater
  <2> QED
    BY <2>1, <2>3
<1>3. CASE g.client = "waiting" /\ pass'[Creator].at = "push"
  <2>1. /\ Within(g.turns, pass'[Creator].todo)
        /\ \A n \in Held(g.turns), i \in Held(pass'[Creator].todo) : i < n => i \in Held(g.turns)
    BY <1>1, <1>3 DEF PushKnows
  <2>2. \A n \in Held(g.turns) : n \in Held(pass'[Creator].todo)
    BY <2>1 DEF Within, Held
  <2>3. \A n \in Held(g.turns), i \in Sequence :
           i < n /\ pass'[Creator].todo[i] # None => g.turns[i] # None
    BY <2>1 DEF Held
  <2> QED
    BY <1>3, <2>2, <2>3 DEF NoneSkipped, NoneSkippedThen
<1> QED
  BY <1>1, <1>2, <1>3, PushesFrom DEF Heir

\* The creator's pass goes on knowing of every request, and the server goes on
\* having everything up to its last turn that can travel.
LEMMA AheadStep ==
    ASSUME StoreInv, ChatInv, TombInv, Next, WriterIsAhead, WriterHasAll, WriterFetchesNothing,
           \A e \in Device : Writes(e) => e = Creator,
           \A g \in pushes' : g.from = Creator
    PROVE  WriterIsAhead'
<1> DEFINE p == pass[Creator]
           q == pass'[Creator]
<1>0. /\ Typed /\ Typed' /\ TalkOK /\ ThereIsThere' /\ Creator \in Device
      /\ p.there \in Log /\ server \in Log /\ NoneBeyond(server) /\ NoneSkipped(server, server)
      /\ q.there \in Log
  <2>1. StoreInv'
    BY StoreStep
  <2>2. Typed /\ Typed' /\ TalkOK /\ ThereIsThere' /\ Creator \in Device /\ pass' \in [Device -> Pass]
    BY <2>1, DeviceFacts DEF StoreInv, Typed, TalkOK
  <2> QED
    BY <2>2, PassOK DEF Typed, FilesOK, WriterIsAhead, Pass
<1>1. \A n \in Sequence : server[n] # None => server'[n] # None
  BY <1>0, ServerGrows DEF Within, Held
<1>2. \A n \in Sequence : q.there[n] # None => server'[n] # None
  BY <1>0 DEF ThereIsThere, Within, Held
<1>3. q.at \in {"next", "push"} => NoneSkipped(pass[Creator].todo, pass[Creator].there)'
  BY ListStep
<1>4. NoneBeyond(server)'
  <2>1. \A g \in pushes' : NoneSkippedThen(g.turns, server')
    BY <1>0, <1>1, <1>2, <1>3, BeyondStep
  <2> QED
    BY <2>1 DEF NoneBeyond, NoneSkipped, NoneSkippedThen
<1>5. NoneSkipped(server, server)'
  <2>1. InPlace(server) /\ \A h \in pushes : h.turns \in Log /\ InPlace(h.turns)
    BY <1>0, PushOK, PlacedLogs
  <2>3. NoneSkippedThen(server, server')
    BY <1>0, <1>1, <2>1, SkipsNothingLater
  <2>4. CASE server' = server
    BY <2>3, <2>4 DEF NoneSkipped, NoneSkippedThen
  <2>5. CASE \E h \in pushes : server' = Joined(server, h.turns)
    <3>1. PICK h \in pushes : server' = Joined(server, h.turns)
      BY <2>5
    <3>2. NoneSkipped(h.turns, server)
      BY <1>0 DEF NoneBeyond
    <3>3. NoneSkippedThen(h.turns, server')
      BY <1>1, <2>1, <3>2, SkipsNothingLater
    <3>4. Held(server') = Held(server) \cup Held(h.turns)
      BY <1>0, <2>1, <3>1, JoinedFacts
    <3>5. \A n \in Sequence : h.turns[n] # None => server'[n] # None
      BY <1>0, <2>1, <3>4, LogFacts DEF Held
    <3> QED
      BY <1>1, <2>3, <3>3, <3>4, <3>5 DEF NoneSkipped, NoneSkippedThen, Held
  <2> QED
    BY <2>4, <2>5, ServerFrom
<1>6. ASSUME NEW there, NoneBeyond(there), \A n \in Sequence : there[n] # None => q.there[n] # None
      PROVE  NoneBeyond(pass[Creator].there)'
  <2>1. \A g \in pushes' : NoneSkippedThen(g.turns, q.there)
    BY <1>3, <1>6, BeyondStep
  <2> QED
    BY <2>1 DEF NoneBeyond, NoneSkipped, NoneSkippedThen
<1>7. ASSUME q.at \in {"compare", "fetch", "next", "push"}
      PROVE  NoneBeyond(pass[Creator].there)'
  <2>1. p.at \in {"compare", "fetch", "next", "push"} => NoneBeyond(p.there)
    BY DEF WriterIsAhead
  <2>2. CASE q = p
    BY <1>6, <1>7, <2>1, <2>2
  <2>3. CASE q.at = "compare" /\ q.there = server
    BY <1>0, <1>6, <2>3
  <2>4. CASE /\ q.at = "compare" /\ p.at = "entering" /\ ~p.known
             /\ q.there = Empty
    BY <1>6, <2>4 DEF WriterIsAhead
  <2>5. CASE q.there = p.there /\ p.at \in {"compare", "fetch", "next"}
    BY <1>6, <2>1, <2>5
  <2>6. CASE p.at = "push" /\ \E h \in pushes : q.there = Joined(p.there, h.turns)
    <3>1. PICK h \in pushes : q.there = Joined(p.there, h.turns)
      BY <2>6
    <3>2. h.turns \in Log
      BY <1>0, PushOK
    <3>3. \A n \in Sequence : p.there[n] # None => q.there[n] # None
      <4> HIDE DEF p, q
      <4> QED
        BY <1>0, <3>1, <3>2, JoinedFacts
    <3> QED
      BY <1>6, <2>1, <2>6, <3>3
  <2>7. ~Rests(q)
    BY <1>7 DEF Rests
  <2>8. \A d \in Device : FileFetched(d) => pass[d].at = "fetch"
    BY DEF FileFetched
  <2> HIDE DEF p, q
  <2>9. \/ q = p
        \/ q.at = "compare" /\ q.there = server
        \/ /\ q.at = "compare" /\ p.at = "entering" /\ ~p.known
           /\ q.there = Empty
        \/ q.there = p.there /\ p.at \in {"compare", "fetch", "next"}
        \/ p.at = "push" /\ \E h \in pushes : q.there = Joined(p.there, h.turns)
    BY <1>0, <1>7, <2>7, <2>8, PassFrom DEF p, q
  <2> QED
    BY <2>2, <2>3, <2>4, <2>5, <2>6, <2>9
<1>8. ASSUME q.at = "entering", ~q.known
      PROVE  NoneBeyond(Empty)'
  <2>1. NoneBeyond(Empty)
    <3>1. CASE q = p
      BY <1>8, <3>1 DEF WriterIsAhead
    <3>2. CASE ~chat
      BY <1>0, <3>2 DEF ChatInv, WriterIsAhead
    <3>3. ~Rests(q)
      BY <1>8 DEF Rests
    <3> QED
      BY <1>0, <1>8, <3>1, <3>2, <3>3, PassFrom
  <2>2. \A g \in pushes' : NoneSkippedThen(g.turns, Empty)
    BY <1>8, <2>1, BeyondStep
  <2> QED
    BY <2>2 DEF NoneBeyond, NoneSkipped, NoneSkippedThen, Empty
<1> QED
  BY <1>3, <1>4, <1>5, <1>7, <1>8 DEF WriterIsAhead

-------------------------------------------------------------------------------
(* The computers that only read *)

\* A pass that keeps what it fetched, and goes on, has the rest to fetch.
LEMMA FetchedGoesOn ==
    ASSUME Typed, NEW d \in Device, FileFetched(d), pass'[d].at = "fetch"
    PROVE  pass'[d].todo = Without(pass[d].todo, Held(FirstOf(pass[d].todo, FetchChunk)))
<1> DEFINE rest == Without(pass[d].todo, Held(FirstOf(pass[d].todo, FetchChunk)))
<1>0. pass \in [Device -> Pass] /\ pass[d].there \in Log /\ pass[d] \in Pass
  BY PassOK DEF Typed, TalkOK
<1>1. ~Stops(d)
  BY <1>0, NoPassFacts DEF Stops, Goes
<1>2. ASSUME NEW todo, Upload(d, pass[d].there, todo)
      PROVE  FALSE
  <2> DEFINE q == [pass[d] EXCEPT !.at = "push", !.there = pass[d].there, !.todo = todo]
  <2>1. Goes(d, q)
    BY <1>1, <1>2 DEF Upload
  <2>2. q.at = "push"
    BY <1>0 DEF Pass
  <2> HIDE DEF q
  <2> QED
    BY <1>0, <2>1, <2>2 DEF Goes
<1>3. Goes(d, [pass[d] EXCEPT !.todo = rest])
  BY <1>1, <1>2 DEF FileFetched, Download, Freeze, BeginUpload
<1>4. pass'[d] = [pass[d] EXCEPT !.todo = rest]
  BY <1>0, <1>3 DEF Goes
<1> HIDE DEF rest
<1>5. pass'[d].todo = rest
  BY <1>0, <1>4 DEF Pass
<1> QED
  BY <1>5 DEF rest

\* The file of a computer that does not write.
LEMMA ReaderFile ==
    ASSUME StoreInv, Next, NEW d \in Device, Reads(d), ~Writes(d)
    PROVE  /\ local'[d] \in Log
           /\ \/ local'[d] \in {local[d], Empty}
              \/ FileFetched(d) /\ local'[d] = Joined(local[d], FirstOf(pass[d].todo, FetchChunk))
           /\ Within(local'[d], server)
           /\ pass[d].at \in {"compare", "fetch"} => Held(local'[d]) \subseteq Held(pass[d].there)
<1>0. /\ Typed /\ TalkOK /\ SendInv /\ ThereIsThere /\ PassKnows(d)
      /\ local \in [Device -> Log] /\ local[d] \in Log /\ local'[d] \in Log
      /\ pass[d].todo \in Log /\ pass[d].there \in Log
  BY PassOK, StepFiles DEF StoreInv, Typed, FilesOK
<1>1. mine[d] = None
  BY <1>0 DEF SendInv, Reads
<1>2. CASE local'[d] = local[d]
  BY <1>0, <1>2 DEF Reads
<1>3. CASE local'[d] = Empty
  BY <1>0, <1>3, EmptyLog DEF Within
<1>4. CASE FileFetched(d)
  <2> DEFINE chunk == FirstOf(pass[d].todo, FetchChunk)
  <2>1. local'[d] = Joined(local[d], chunk)
    BY <1>0, <1>4 DEF FileFetched
  <2>2. /\ chunk \in Log /\ Held(chunk) \subseteq Held(pass[d].todo)
        /\ \A n \in Held(chunk) : chunk[n] = pass[d].todo[n]
    BY <1>0, FirstOfFacts, SizesAssumption
  <2>3. pass[d].at = "fetch" /\ Within(pass[d].todo, pass[d].there)
    BY <1>0, <1>4 DEF FileFetched, PassKnows
  <2>4. Within(pass[d].there, server)
    BY <1>0 DEF ThereIsThere
  <2>5. Within(local[d], server) /\ Held(local[d]) \subseteq Held(pass[d].there)
    BY <2>3 DEF Reads
  <2> HIDE DEF chunk
  <2>6. \A n \in Held(chunk) : chunk[n] = pass[d].there[n] /\ n \in Held(pass[d].there)
    BY <2>2, <2>3 DEF Within, Held
  <2>7. \A n \in Held(chunk) : chunk[n] = server[n]
    BY <2>4, <2>6 DEF Within
  <2>8. Within(local'[d], server)
    BY <1>0, <2>1, <2>2, <2>5, <2>7, JoinedFacts, LogFacts DEF Within
  <2>9. Held(local'[d]) \subseteq Held(pass[d].there)
    BY <1>0, <2>1, <2>2, <2>5, <2>6, JoinedFacts
  <2> QED
    BY <1>0, <1>4, <2>1, <2>8, <2>9 DEF chunk
<1>5. local'[d] = local[d] \/ local'[d] = Empty \/ FileFetched(d)
  <2>1. ASSUME NEW e \in Device, FileWritten(e)
        PROVE  local'[d] = local[d]
    BY <1>0, <2>1 DEF FileWritten
  <2>2. ASSUME NEW e \in Device, FileRetired(e)
        PROVE  local'[d] = local[d]
    BY <1>0, <1>1, <2>2 DEF FileRetired
  <2>3. ASSUME NEW e \in Device, FileErased(e)
        PROVE  local'[d] = local[d] \/ local'[d] = Empty
    BY <1>0, <2>3 DEF FileErased
  <2>4. ASSUME NEW e \in Device, FileFetched(e)
        PROVE  local'[d] = local[d] \/ FileFetched(d)
    BY <1>0, <2>4 DEF FileFetched
  <2> QED
    BY <2>1, <2>2, <2>3, <2>4, FilesFrom
<1> QED
  BY <1>2, <1>3, <1>4, <1>5

\* A computer that only reads goes on having nothing that the server has not.
LEMMA ReadsStep ==
    ASSUME StoreInv, ChatInv, Next, NEW d \in Device, Reads(d), ~Writes(d)
    PROVE  Reads(d)'
<1> DEFINE p == pass[d]
           q == pass'[d]
<1>0. /\ Typed /\ TalkOK /\ SendInv /\ PassKnows(d)
      /\ local[d] \in Log /\ local'[d] \in Log /\ server \in Log
      /\ p.todo \in Log /\ p.there \in Log
  BY PassOK, StepFiles DEF StoreInv, Typed, FilesOK
<1>1. /\ \/ local'[d] \in {local[d], Empty}
         \/ FileFetched(d) /\ local'[d] = Joined(local[d], FirstOf(p.todo, FetchChunk))
      /\ Within(local'[d], server)
      /\ p.at \in {"compare", "fetch"} => Held(local'[d]) \subseteq Held(p.there)
  BY ReaderFile
<1>2. FileFetched(d) => p.at = "fetch"
  BY DEF FileFetched
<1>3. p.at # "push"
  BY <1>0 DEF TalkOK, WaitingPush, Reads
<1>4. ~chat => local[d] = Empty
  <2>1. ASSUME server = Empty
        PROVE  local[d] = Empty
    BY <1>0, <2>1, EmptyLog, LogFacts DEF Reads, Within
  <2> QED
    BY <2>1 DEF ChatInv
<1>5. q.at \notin {"next", "push"}
  <2> SUFFICES ASSUME q.at \in {"next", "push"}
               PROVE  FALSE
    OBVIOUS
  <2>1. ASSUME p.at \in {"compare", "fetch"}
        PROVE  Held(ToUpload(local'[d], p.there)) = {}
    <3>1. /\ ToUpload(local'[d], p.there) \in Log
          /\ \A n \in Held(ToUpload(local'[d], p.there)) : n \in Held(local'[d]) /\ p.there[n] = None
      BY <1>0, ToUploadFacts
    <3>2. \A n \in Held(local'[d]) : p.there[n] # None
      BY <1>0, <1>1, <2>1, LogFacts
    <3> QED
      BY <3>1, <3>2
  <2>2. q # p /\ ~Rests(q)
    BY <1>3 DEF Reads, Rests
  <2>3. p.at # "next" /\ ~\E h \in pushes : h.from = d
    BY DEF Reads
  <2>4. \/ p.at = "compare" /\ local' = local /\ Held(ToUpload(local[d], p.there)) # {}
        \/ FileFetched(d) /\ Held(ToUpload(local'[d], p.there)) # {}
    <3> HIDE DEF p, q
    <3> QED
      BY <1>0, <2>2, <2>3, PassFrom DEF p, q
  <2> QED
    BY <1>2, <2>1, <2>4
<1>6. ASSUME NEW g \in pushes', g.from = d
      PROVE  FALSE
  <2>1. q.at = "push"
    BY <1>0, <1>6, PushesFrom DEF Heir, Reads
  <2> QED
    BY <1>5, <2>1
<1>7. send'[d] # "asked"
  <2>1. SendInv'
    BY <1>0, StepSend
  <2>2. mine[d] = None
    BY <1>0 DEF SendInv, Reads
  <2>3. mine'[d] = None
    BY <1>0, <2>2, MineFrom DEF Writes
  <2> QED
    BY <2>1, <2>3 DEF SendInv
<1>8. ASSUME q.at = "entering", ~q.known
      PROVE  local'[d] = Empty
  <2>1. CASE q = p
    BY <1>1, <1>2, <1>8, <2>1 DEF Reads
  <2>2. CASE ~chat /\ local' = local
    BY <1>4, <2>2
  <2>3. ~Rests(q)
    BY <1>8 DEF Rests
  <2> HIDE DEF p, q
  <2> QED
    BY <1>0, <1>8, <2>1, <2>2, <2>3, PassFrom DEF p, q
<1>9. ASSUME q.at \in {"compare", "fetch"}
      PROVE  Held(local'[d]) \subseteq Held(q.there)
  <2>1. CASE q = p
    BY <1>1, <1>9, <2>1
  <2>2. CASE q.there = server
    BY <1>0, <1>1, <2>2, LogFacts DEF Within
  <2>3. CASE p.at = "entering" /\ ~p.known
    <3>1. local[d] = Empty
      BY <2>3 DEF Reads
    <3> QED
      BY <1>1, <1>2, <2>3, <3>1, EmptyLog
  <2>4. CASE p.at \in {"compare", "fetch"} /\ q.there = p.there
    BY <1>1, <2>4
  <2>5. ~Rests(q)
    BY <1>9 DEF Rests
  <2> HIDE DEF p, q
  <2>6. \/ q = p \/ q.there = server \/ (p.at = "entering" /\ ~p.known)
        \/ p.at \in {"compare", "fetch"} /\ q.there = p.there
    BY <1>0, <1>2, <1>9, <2>5, PassFrom DEF p, q
  <2> QED
    BY <2>1, <2>2, <2>3, <2>4, <2>6
<1>10. ASSUME q.at = "fetch"
       PROVE  Apart(q.todo, local'[d])
  <2>1. CASE FileFetched(d)
    <3> DEFINE chunk == FirstOf(p.todo, FetchChunk)
    <3>1. q.todo = Without(p.todo, Held(chunk))
      BY <1>0, <1>10, <2>1, FetchedGoesOn
    <3>2. chunk \in Log
      BY <1>0, FirstOfFacts, SizesAssumption
    <3>3. local \in [Device -> Log]
      BY <1>0 DEF Typed, FilesOK
    <3>4. local'[d] = Joined(local[d], chunk)
      BY <2>1, <3>3 DEF FileFetched
    <3>5. Apart(p.todo, local[d])
      BY <1>2, <2>1 DEF Reads
    <3> HIDE DEF chunk, p, q
    <3> QED
      BY <1>0, <3>1, <3>2, <3>4, <3>5, WithoutFacts, JoinedFacts, LogFacts DEF Apart, p
  <2>2. CASE ~FileFetched(d)
    <3>1. CASE q = p
      BY <1>0, <1>1, <1>10, <2>2, <3>1, EmptyLog DEF Reads, Apart, Held
    <3>2. CASE local' = local /\ q.todo = Without(p.there, Held(local[d]))
      BY <1>0, <3>2, WithoutFacts, LogFacts DEF Apart
    <3>3. ~Rests(q)
      BY <1>10 DEF Rests
    <3> HIDE DEF p, q
    <3>4. q = p \/ (local' = local /\ q.todo = Without(p.there, Held(local[d])))
      BY <1>0, <1>10, <2>2, <3>3, PassFrom DEF p, q
    <3> QED
      BY <3>1, <3>2, <3>4
  <2> QED
    BY <2>1, <2>2
<1>11. Within(local'[d], server')
  <2>1. Within(server, server')
    BY <1>0, ServerGrows
  <2> QED
    BY <1>0, <1>1, <2>1, LogFacts DEF Within
<1> QED
  BY <1>5, <1>6, <1>7, <1>8, <1>9, <1>10, <1>11 DEF Reads

-------------------------------------------------------------------------------
(* The creator *)

\* The creator finds nothing to fetch as long as its file has everything.
LEMMA FetchesNothingStep ==
    ASSUME StoreInv, Next, WriterHasAll, WriterFetchesNothing
    PROVE  WriterFetchesNothing'
<1> SUFFICES ASSUME pass'[Creator].at = "fetch", Creator \notin tomb'
             PROVE  FALSE
  BY DEF WriterFetchesNothing
<1>0. /\ Typed /\ ThereIsThere /\ Creator \in Device /\ Creator \notin tomb
      /\ local[Creator] \in Log /\ pass[Creator].there \in Log
  BY DeviceFacts, TombGrows, PassOK DEF StoreInv, Typed, FilesOK
<1>1. pass[Creator].at # "fetch" /\ ~FileFetched(Creator)
  BY <1>0 DEF WriterFetchesNothing, FileFetched
<1>2. ~Rests(pass'[Creator]) /\ pass'[Creator] # pass[Creator]
  BY <1>1 DEF Rests
<1>3. Held(Without(pass[Creator].there, Held(local[Creator]))) # {}
  BY <1>0, <1>1, <1>2, PassFrom
<1>4. PICK n \in Held(pass[Creator].there) : n \notin Held(local[Creator])
  BY <1>0, <1>3, WithoutFacts
<1>5. server[n] = pass[Creator].there[n] /\ n \in Sequence /\ server[n] \in Turn
  BY <1>0, <1>4, LogFacts DEF ThereIsThere, Within
<1>6. Placed(n, server[n])
  BY DEF Placed
<1> QED
  BY <1>0, <1>4, <1>5, <1>6, LogFacts DEF WriterHasAll, Held

\* What the creator writes is in its file, and nothing leaves it that is
\* anywhere else.
LEMMA HasAllStep ==
    ASSUME StoreInv, Next, WriterHasAll, WriterFetchesNothing,
           \A e \in Device : Writes(e) => e = Creator
    PROVE  WriterHasAll'
<1> SUFFICES ASSUME Creator \notin tomb', NEW n \in Sequence, NEW t \in Turn, Placed(n, t)'
             PROVE  local'[Creator][n] = t
  BY DEF WriterHasAll
<1>0. /\ Typed /\ SendInv /\ MineHome /\ ThereIsThere
      /\ Creator \in Device /\ Creator \notin tomb
      /\ local \in [Device -> Log] /\ local[Creator] \in Log
  BY DeviceFacts, TombGrows DEF StoreInv, Typed, FilesOK
<1>1. ASSUME NEW e \in Device, Writes(e), n = NextSequence(local[e]), t = NewTurn(e)
      PROVE  local'[Creator][n] = t
  <2>1. e = Creator /\ Appended(Creator, NewTurn(Creator))
    BY <1>1 DEF Writes, WriteMessage, WriteReply
  <2>2. local' = [local EXCEPT ![Creator][n] = t]
    BY <1>1, <2>1 DEF Appended
  <2> QED
    BY <1>0, <2>2 DEF Log
<1>2. ASSUME Placed(n, t)
      PROVE  local'[Creator][n] = t
  <2>1. local[Creator][n] = t /\ n \in Held(local[Creator])
    BY <1>0, <1>2, NoneIsNoTurn DEF WriterHasAll, Held
  <2>2. ASSUME NEW e \in Device, FileWritten(e)
        PROVE  local'[Creator][n] = t
    <3>1. n # NextSequence(local[Creator])
      BY <1>0, <2>1, NextOfLog, SequenceFacts
    <3>2. local' = [local EXCEPT ![e][NextSequence(local[e])] = NewTurn(e)]
      BY <2>2 DEF FileWritten
    <3> QED
      BY <1>0, <2>1, <3>1, <3>2 DEF Log
  <2>3. ASSUME NEW e \in Device, FileRetired(e)
        PROVE  local'[Creator][n] = t
    <3>1. CASE e # Creator
      BY <1>0, <2>1, <2>3, <3>1 DEF FileRetired
    <3>2. CASE e = Creator
      <4>1. local'[Creator] = Without(local[Creator], {NextSequence(local[Creator]) - 1})
        BY <1>0, <2>3, <3>2 DEF FileRetired
      <4>2. n # NextSequence(local[Creator]) - 1
        <5>1. PICK k \in Held(local[Creator]) :
                  /\ local[Creator][k] = mine[Creator]
                  /\ \A i \in Held(local[Creator]) : i <= k
          BY <1>0, <2>3, <3>2 DEF MineHome, FileRetired
        <5>2. n = NextSequence(local[Creator]) - 1 => n = k
          BY <1>0, <2>1, <5>1, NextOfLog, SequenceFacts, LogFacts
        <5>3. t # mine[Creator]
          BY <1>0, <2>3, <3>2, RetiredIsGone
        <5> QED
          BY <2>1, <5>1, <5>2, <5>3
      <4> QED
        BY <1>0, <2>1, <4>1, <4>2, WithoutFacts
    <3> QED
      BY <3>1, <3>2
  <2>4. ASSUME NEW e \in Device, FileErased(e)
        PROVE  local'[Creator][n] = t
    <3>1. e # Creator
      BY <1>0, <2>4 DEF FileErased, EraseFile, SendInv
    <3> QED
      BY <1>0, <2>1, <2>4, <3>1 DEF FileErased
  <2>5. ASSUME NEW e \in Device, FileFetched(e)
        PROVE  local'[Creator][n] = t
    <3>1. e # Creator
      BY <1>0, <2>5 DEF FileFetched, WriterFetchesNothing
    <3> QED
      BY <1>0, <2>1, <2>5, <3>1 DEF FileFetched
  <2> QED
    BY <2>1, <2>2, <2>3, <2>4, <2>5, FilesFrom
<1> QED
  BY <1>0, <1>1, <1>2, PlacedFrom

\* A sequence has one turn.
LEMMA OneAtAPlaceStep ==
    ASSUME StoreInv, Next, WriterHasAll, WriterFetchesNothing, OneAtAPlace,
           \A e \in Device : Writes(e) => e = Creator
    PROVE  OneAtAPlace'
<1>0. Typed /\ ThereIsThere
  BY DEF StoreInv
<1>1. CASE Creator \notin tomb'
  BY <1>1, HasAllStep DEF WriterHasAll, OneAtAPlace
<1>2. CASE Creator \in tomb'
  <2>1. ASSUME NEW e \in Device, Writes(e)
        PROVE  FALSE
    <3>1. e = Creator
      BY <2>1
    <3>2. e \notin tomb /\ tomb' = tomb
      BY <2>1 DEF Writes, WriteMessage, WriteReply, MayWrite, eraseVars
    <3> QED
      BY <1>2, <3>1, <3>2
  <2>2. \A n \in Sequence, t \in Turn : Placed(n, t)' => Placed(n, t)
    BY <1>0, <2>1, PlacedFrom
  <2> QED
    BY <2>2 DEF OneAtAPlace
<1> QED
  BY <1>1, <1>2

-------------------------------------------------------------------------------
(* The answers *)

\* While an answer that somebody waits for is being found out, nothing else is
\* inserted: a request begins at or before the one refused, where the server
\* has turns already.
LEMMA NothingElseFits ==
    ASSUME StoreInv, WriterIsAhead, \A h \in pushes : h.from = Creator,
           NEW g \in pushes, g.client = "waiting", Held(g.turns) \cap Held(server) # {},
           NEW k \in pushes
    PROVE  ~Fits(k)
<1> DEFINE p == pass[Creator]
<1>0. /\ Typed /\ TalkOK /\ PassKnows(Creator) /\ PushKnows(g) /\ PushKnows(k)
      /\ Creator \in Device /\ g.from = Creator
      /\ g.turns \in Log /\ k.turns \in Log /\ InPlace(g.turns) /\ InPlace(k.turns)
  BY DeviceFacts, PushOK, PlacedLogs DEF StoreInv, Typed
<1>1. p.at = "push"
  BY <1>0 DEF TalkOK, WaitingPush
<1>2. NoneSkipped(k.turns, p.there) /\ Apart(p.todo, p.there) /\ Within(g.turns, p.todo)
  BY <1>0, <1>1 DEF WriterIsAhead, NoneBeyond, PassKnows, PushKnows
<1>3. PICK m \in Held(g.turns) : m \in Held(server)
  OBVIOUS
<1>4. m \in Sequence /\ p.there[m] = None /\ g.turns[m] \in Turn \ Unfit /\ Placed(m, g.turns[m])
  BY <1>0, <1>2, <1>3, LogFacts DEF Within, Apart, Held, InPlace, PushKnows, Fit
<1>5. PICK n \in Held(k.turns) : \A i \in Held(k.turns) : n <= i
  <2>1. Held(k.turns) # {} /\ Held(k.turns) \subseteq Nat
    BY <1>0, SequenceFacts DEF PushKnows, Held
  <2> QED
    BY <2>1, Least
<1>6. /\ n \in Sequence /\ k.turns[n] \in Turn \ Unfit /\ Placed(n, k.turns[n])
      /\ n \in Nat /\ m \in Nat
  BY <1>0, <1>4, <1>5, LogFacts, SequenceFacts DEF InPlace, PushKnows, Fit
<1>7. n <= m
  <2> SUFFICES ASSUME m < n
               PROVE  FALSE
    BY <1>6
  <2>1. k.turns[m] # None
    BY <1>2, <1>4 DEF NoneSkipped
  <2> QED
    BY <1>4, <1>5, <1>6, <2>1 DEF Held
<1>8. server[n] # None
  BY <1>3, <1>6, <1>7 DEF WriterIsAhead, NoneSkipped, Held
<1> QED
  BY <1>5, <1>6, <1>8 DEF Fits, Held

\* A request somebody waits for is refused because it is there already.
LEMMA RepeatsStep ==
    ASSUME StoreInv, Next, WriterIsAhead, \A h \in pushes : h.from = Creator /\ Repeats(h),
           NEW g \in pushes'
    PROVE  Repeats(g)'
<1> SUFFICES ASSUME g.client = "waiting"
             PROVE  /\ g.step \in {"classify", "explain"} => Held(g.turns) \cap Held(server') # {}
                    /\ g.step = "explain" =>
                          \A n \in Held(g.turns) \cap Held(server') : g.seen[n] = server'[n]
  BY DEF Repeats
<1>0. Typed /\ TalkOK /\ PlacedInv /\ server \in Log
  BY DEF StoreInv, Typed, FilesOK
<1>1. CASE g \in pushes
  <2>1. CASE Held(g.turns) \cap Held(server) # {}
    <3>1. server' = server
      BY <1>1, <2>1, NothingElseFits, ServerFrom
    <3> QED
      BY <1>1, <3>1 DEF Repeats
  <2> QED
    BY <1>1, <2>1 DEF Repeats
<1>2. CASE /\ server' = server /\ g.step = "classify"
           /\ \E h \in pushes : g.turns = h.turns /\ ~Fits(h)
  <2>1. PICK h \in pushes : g.turns = h.turns /\ ~Fits(h)
    BY <1>2
  <2>2. ASSUME NEW n \in Held(h.turns), NEW i \in Held(server), h.turns[n] = server[i]
        PROVE  n = i
    BY <1>0, <2>2, PushOK, LogFacts DEF PlacedInv, Placed
  <2> QED
    BY <1>2, <2>1, <2>2 DEF Fits
<1>3. CASE /\ server' = server /\ g.step = "explain"
           /\ \E h \in pushes :
                 /\ h.step = "classify" /\ h.client = "waiting" /\ g.turns = h.turns
                 /\ g.seen = Without(server, Sequence \ Held(h.turns))
  <2>1. PICK h \in pushes : /\ h.step = "classify" /\ h.client = "waiting" /\ g.turns = h.turns
                            /\ g.seen = Without(server, Sequence \ Held(h.turns))
    BY <1>3
  <2>2. Held(h.turns) \cap Held(server) # {}
    BY <2>1 DEF Repeats
  <2>3. \A n \in Held(h.turns) : n \in Sequence /\ g.seen[n] = server[n]
    BY <1>0, <2>1, WithoutFacts DEF Held
  <2> QED
    BY <1>3, <2>1, <2>2, <2>3
<1> QED
  BY <1>0, <1>1, <1>2, <1>3, WaitersFrom

\* Two logs of placed turns are no two versions.
LEMMA OneVersionOnly ==
    ASSUME PlacedInv, OneAtAPlace, NEW log \in Log, InPlace(log), NEW other \in Log, InPlace(other)
    PROVE  ~TwoVersions(log, other)
<1> SUFFICES ASSUME NEW n \in Held(log), NEW i \in Held(other)
             PROVE  (n = i) = (log[n] = other[i])
  BY DEF TwoVersions
<1>1. /\ n \in Sequence /\ i \in Sequence /\ log[n] \in Turn /\ other[i] \in Turn
      /\ Placed(n, log[n]) /\ Placed(i, other[i])
  BY LogFacts DEF InPlace, Held
<1>2. n = i => log[n] = other[i]
  BY <1>1 DEF OneAtAPlace
<1>3. log[n] = other[i] => n = i
  BY <1>1 DEF PlacedInv
<1> QED
  BY <1>2, <1>3

\* With one version nothing is frozen.
LEMMA NoneFrozenStep ==
    ASSUME StoreInv, Next, OneVersion
    PROVE  NoneFrozen'
<1> SUFFICES ASSUME NEW d \in Device, entry'[d] = "frozen"
             PROVE  FALSE
  BY DEF NoneFrozen
<1>0. /\ Typed /\ TalkOK /\ PlacedInv /\ server \in Log /\ OneAtAPlace
      /\ local[d] \in Log /\ pass[d].there \in Log /\ pass[d].todo \in Log
      /\ Within(pass[d].there, server)
      /\ InPlace(server) /\ InPlace(local[d])
  BY PassOK, PlacedLogs DEF StoreInv, Typed, FilesOK, ThereIsThere, OneVersion
<1>1. entry[d] # "frozen"
  BY DEF OneVersion, NoneFrozen
<1>2. ~TwoVersions(local[d], pass[d].there)
  <2>1. InPlace(pass[d].there)
    BY <1>0 DEF InPlace, Within, Held
  <2> QED
    BY <1>0, <2>1, OneVersionOnly
<1>3. ASSUME pass[d].at = "fetch", d \notin tomb
      PROVE  Held(FirstOf(pass[d].todo, FetchChunk)) \cap Held(local[d]) = {}
  <2>1. d # Creator
    BY <1>3 DEF OneVersion, WriterFetchesNothing
  <2>2. Apart(pass[d].todo, local[d])
    BY <1>3, <2>1 DEF OneVersion, Reads
  <2>3. Held(FirstOf(pass[d].todo, FetchChunk)) \subseteq Held(pass[d].todo)
    BY <1>0, FirstOfFacts, SizesAssumption
  <2> QED
    BY <2>2, <2>3 DEF Apart, Held
<1>4. ASSUME NEW h \in pushes, h.step = "explain", h.client = "waiting", Conflicts(h)
      PROVE  FALSE
  <2>0. /\ h.turns \in Log /\ h.seen \in Log /\ InPlace(h.turns)
        /\ Within(h.seen, server)
        /\ \A n \in Held(h.turns) \cap Held(server) : h.seen[n] = server[n]
    BY <1>0, <1>4, PushOK, PlacedLogs DEF StoreInv, PushKnows, OneVersion, Repeats
  <2>1. ~TwoVersions(h.turns, server)
    BY <1>0, <2>0, OneVersionOnly
  <2>2. PICK n \in Held(h.turns) :
            IF n \in Held(h.seen) THEN h.seen[n] # h.turns[n]
            ELSE \E i \in Held(server) : server[i] = h.turns[n]
    BY <1>4 DEF Conflicts
  <2>3. n \in Held(h.seen) => n \in Held(server) /\ server[n] = h.seen[n]
    BY <2>0 DEF Within, Held
  <2>4. n \in Held(h.seen)
    <3>1. ASSUME NEW i \in Held(server), server[i] = h.turns[n]
          PROVE  n \in Held(server)
      BY <2>1, <3>1 DEF TwoVersions
    <3> QED
      BY <1>0, <2>0, <2>2, <3>1, LogFacts
  <2> QED
    BY <2>1, <2>2, <2>3, <2>4 DEF TwoVersions
<1> QED
  BY <1>0, <1>1, <1>2, <1>3, <1>4, FrozenFrom

-------------------------------------------------------------------------------
(* The theorem *)

LEMMA ForkInit == Init => ForkInv
<1> SUFFICES ASSUME Init
             PROVE  ForkInv
  OBVIOUS
<1>1. StoreInv
  BY StoreInit
<1>2. ChatInv
  BY DEF Init, ChatInv
<1>3. /\ \A n \in Sequence : Empty[n] = None
      /\ Held(Empty) = {} /\ Creator \in Device /\ 0 \in Sequence /\ First # None
  <2>1. First \in Turn
    BY DeviceFacts, SequenceFacts DEF First, Turn
  <2> QED
    BY <2>1, DeviceFacts, SequenceFacts, EmptyLog, NoneIsNoTurn
<1>4. /\ server = Empty /\ pushes = {}
      /\ \A d \in Device : /\ pass[d] = NoPass /\ send[d] = "idle" /\ entry[d] = "none"
  BY DEF Init
<1>5. \A d \in Device : pass[d].at = "idle" /\ pass[d].todo = Empty
  BY <1>4, NoPassFacts
<1>6. \A d \in Device, n \in Sequence :
         local[d][n] = IF d = Creator /\ n = 0 THEN First ELSE None
  BY <1>3 DEF Init, Empty
<1>7. \A n \in Sequence, t \in Turn : Placed(n, t) => t = First /\ n = 0
  BY <1>3, <1>4, <1>5, <1>6, NoneIsNoTurn DEF Placed
<1>8. OneAtAPlace /\ WriterHasAll
  BY <1>3, <1>6, <1>7 DEF OneAtAPlace, WriterHasAll
<1>9. WriterFetchesNothing /\ WriterIsAhead /\ NoneFrozen /\ TombInv /\ \A h \in pushes : Repeats(h)
  BY <1>3, <1>4, <1>5 DEF WriterFetchesNothing, WriterIsAhead, NoneBeyond, NoneSkipped,
                          NoneFrozen, Init, TombInv
<1>10. \A d \in Device \ {Creator} : Reads(d)
  BY <1>4, <1>5, <1>6 DEF Reads, Within, Held
<1> QED
  BY <1>1, <1>2, <1>8, <1>9, <1>10 DEF ForkInv, OneVersion

LEMMA ForkStep == ForkInv /\ [Next]_vars => ForkInv'
<1> SUFFICES ASSUME ForkInv, [Next]_vars
             PROVE  ForkInv'
  OBVIOUS
<1>0. StoreInv /\ StoreInv' /\ Typed /\ ChatInv /\ TombInv
  BY StoreStep DEF ForkInv, StoreInv
<1>1. CASE Next
  <2>1. ChatInv' /\ TombInv'
    BY <1>0, <1>1, ChatStep, TombStep
  <2>2. ASSUME Sole'
        PROVE  OneVersion'
    <3>1. Sole /\ \A e \in Device : Writes(e) => e = Creator
      BY <1>0, <1>1, <2>2, SoleBefore
    <3>2. OneVersion
      BY <3>1 DEF ForkInv
    <3>3. /\ OneAtAPlace /\ WriterHasAll /\ WriterFetchesNothing /\ WriterIsAhead
          /\ \A d \in Device \ {Creator} : Reads(d)
          /\ \A h \in pushes : Repeats(h)
      BY <3>2 DEF OneVersion
    <3>4. OneAtAPlace' /\ WriterHasAll' /\ WriterFetchesNothing'
      BY <1>0, <1>1, <3>1, <3>3, OneAtAPlaceStep, HasAllStep, FetchesNothingStep
    <3>5. \A d \in Device \ {Creator} : Reads(d)'
      BY <1>0, <1>1, <3>1, <3>3, ReadsStep
    <3>6. \A h \in pushes : h.from = Creator
      BY <1>0, <3>3, PushOK DEF Typed, Reads
    <3>7. \A g \in pushes' : g.from = Creator
      <4>1. \A g \in pushes' : g.from \in Device
        BY <1>0, <1>1, <3>6, DeviceFacts, PushesFrom DEF Heir
      <4> QED
        BY <3>5, <4>1 DEF Reads
    <3>8. WriterIsAhead'
      BY <1>0, <1>1, <3>1, <3>3, <3>7, AheadStep
    <3>9. \A g \in pushes' : Repeats(g)'
      BY <1>0, <1>1, <3>3, <3>6, RepeatsStep
    <3>10. NoneFrozen'
      BY <1>0, <1>1, <3>2, NoneFrozenStep
    <3> QED
      BY <3>4, <3>5, <3>8, <3>9, <3>10 DEF OneVersion
  <2> QED
    BY <1>0, <2>1, <2>2 DEF ForkInv
<1>2. CASE UNCHANGED vars
  <2>1. /\ chat' = chat /\ server' = server /\ pushes' = pushes /\ local' = local
        /\ born' = born /\ tomb' = tomb /\ pass' = pass /\ send' = send /\ entry' = entry
        /\ erasing' = erasing
    BY <1>2 DEF vars, gatewayVars, sendVars, eraseVars
  <2>2. ChatInv' /\ TombInv' /\ (Sole' => Sole)
    BY <1>0, <2>1 DEF ChatInv, TombInv, Sole
  <2>3. ASSUME OneVersion
        PROVE  OneVersion'
    <3>1. OneAtAPlace' /\ WriterHasAll'
      BY <2>1, <2>3 DEF OneVersion, OneAtAPlace, WriterHasAll, Placed
    <3>2. WriterFetchesNothing' /\ WriterIsAhead' /\ NoneFrozen'
      BY <2>1, <2>3 DEF OneVersion, WriterFetchesNothing, WriterIsAhead, NoneBeyond, NoneSkipped,
                        Placed, NoneFrozen
    <3>3. \A d \in Device \ {Creator} : Reads(d)'
      BY <2>1, <2>3 DEF OneVersion, Reads
    <3>4. \A h \in pushes' : Repeats(h)'
      BY <2>1, <2>3 DEF OneVersion, Repeats
    <3> QED
      BY <3>1, <3>2, <3>3, <3>4 DEF OneVersion
  <2> QED
    BY <1>0, <2>2, <2>3 DEF ForkInv
<1> QED
  BY <1>1, <1>2

\* A conversation is frozen only if two computers have written in it, however
\* often requests are lost, repeated or late: what one that writes alone finds
\* again on the server is its own.
THEOREM FreezingNeedsTwoWriters == Spec => []FreezingTakesTwoWriters
<1>1. ForkInv => FreezingTakesTwoWriters
  <2> SUFFICES ASSUME ForkInv, NEW d \in Device, entry[d] = "frozen"
               PROVE  Cardinality({t[1] : t \in DOMAIN born}) > 1
    BY DEF FreezingTakesTwoWriters
  <2> DEFINE writers == {t[1] : t \in DOMAIN born}
  <2>1. BornCounted
    BY DEF ForkInv, StoreInv, Typed, FilesOK
  <2>2. ~Sole
    BY DEF ForkInv, OneVersion, NoneFrozen
  <2>3. PICK t \in DOMAIN born : t[1] # Creator
    BY <2>2 DEF Sole
  <2>4. Creator \in writers /\ t[1] \in writers
    <3>1. First \in DOMAIN born /\ First[1] = Creator
      BY <2>1 DEF BornCounted, First
    <3> QED
      BY <3>1
  <2>5. IsFiniteSet(writers)
    <3> DEFINE f == [u \in DOMAIN born |-> u[1]]
    <3>1. f \in Surjection(DOMAIN born, writers)
      BY DEF Surjection
    <3>2. IsFiniteSet(DOMAIN born)
      BY <2>1 DEF BornCounted
    <3> HIDE DEF f, writers
    <3> QED
      BY <3>1, <3>2, FS_Surjection
  <2> HIDE DEF writers
  <2>6. /\ IsFiniteSet({Creator}) /\ Cardinality({Creator}) = 1
    BY FS_Singleton
  <2>7. Cardinality({Creator} \cup {t[1]}) = 2
    <3>1. t[1] \notin {Creator}
      BY <2>3
    <3> DEFINE one == {Creator}
    <3> HIDE DEF one
    <3>2. Cardinality(one \cup {t[1]}) = Cardinality(one) + 1
      BY <2>6, <3>1, FS_AddElement DEF one
    <3>3. Cardinality(one) = 1
      BY <2>6 DEF one
    <3>4. Cardinality(one \cup {t[1]}) = 2
      BY <3>2, <3>3
    <3> QED
      BY <3>4 DEF one
  <2>8. {Creator} \cup {t[1]} \in SUBSET writers
    BY <2>4
  <2>9. Cardinality(writers) \in Nat /\ 2 <= Cardinality(writers)
    BY <2>5, <2>7, <2>8, FS_Subset, FS_CardinalityType
  <2> QED
    BY <2>9 DEF writers
<1> QED
  BY <1>1, ForkInit, ForkStep, PTL DEF Spec
===============================================================================
