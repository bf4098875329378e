---------------------------- MODULE VaultSyncProofs ----------------------------
(***************************************************************************)
(* Proofs about the synchronisation of one conversation: what the operators *)
(* on logs return, what a pass and a request look like, and that the state  *)
(* is well typed, for all the devices, sizes and bounds.                    *)
(***************************************************************************)
EXTENDS VaultSync, FiniteSetTheorems, WellFoundedInduction, TLAPS

\* the turns of log are also those of other, at the same sequences
Within(log, other) == \A n \in Held(log) : other[n] = log[n]

\* no sequence of log is taken in other
Apart(log, other) == \A n \in Held(log) : other[n] = None

-------------------------------------------------------------------------------
(* Numbers *)

\* A nonempty set of numbers has a least one.
LEMMA Least ==
    ASSUME NEW set \in SUBSET Nat, set # {}
    PROVE  \E n \in set : \A i \in set : n <= i
<1> DEFINE R == {ss \in Nat \X Nat : ss[1] < ss[2]}
<1>1. IsWellFoundedOn(R, Nat)
  BY NatLessThanWellFounded DEF OpToRel
<1>2. PICK n \in set : \A i \in set : ~(<<i, n>> \in R)
  BY <1>1, WFMin
<1>3. ASSUME NEW i \in set
      PROVE  n <= i
  <2>1. n \in Nat /\ i \in Nat
    OBVIOUS
  <2>2. ~(<<i, n>> \in R)
    BY <1>2
  <2>3. ~(i < n)
    BY <2>1, <2>2
  <2> QED
    BY <2>1, <2>3
<1> QED
  BY <1>3

\* A nonempty set of numbers with a bound has a greatest one.
LEMMA Greatest ==
    ASSUME NEW bound \in Nat, NEW set \in SUBSET (0..bound), set # {}
    PROVE  \E n \in set : \A i \in set : i <= n
<1> DEFINE up == {k \in Nat : \A i \in set : i <= k}
<1>1. bound \in up
  OBVIOUS
<1>2. PICK k \in up : \A i \in up : k <= i
  BY <1>1, Least
<1>3. k \in set
  <2>1. CASE k = 0
    <3>1. PICK i \in set : TRUE
      OBVIOUS
    <3>2. i \in Nat /\ i <= k
      BY <1>2
    <3> QED
      BY <2>1, <3>2
  <2>2. CASE k # 0 /\ k \notin set
    <3>1. k - 1 \in up
      BY <2>2
    <3> QED
      BY <1>2, <3>1
  <2> QED
    BY <2>1, <2>2
<1> QED
  BY <1>2, <1>3

\* The sequences are the numbers below MaxTurns.
LEMMA SequenceFacts ==
    /\ MaxTurns \in Nat /\ MaxTurns > 0
    /\ Sequence \subseteq Nat /\ 0 \in Sequence
    /\ \A n \in Nat : n \in Sequence <=> n < MaxTurns
    /\ \A n \in Sequence : n > 0 => n - 1 \in Sequence
    /\ IsFiniteSet(Sequence) /\ Cardinality(Sequence) = MaxTurns
<1>1. MaxTurns \in Nat /\ MaxTurns > 0
  BY SizesAssumption
<1>2. 0 \in Int /\ MaxTurns - 1 \in Int
  BY <1>1
<1>3. /\ IsFiniteSet(0..(MaxTurns - 1))
      /\ Cardinality(0..(MaxTurns - 1)) = IF 0 > MaxTurns - 1 THEN 0 ELSE MaxTurns - 1 - 0 + 1
  BY <1>2, FS_Interval
<1> QED
  BY <1>1, <1>3 DEF Sequence

\* None is no turn.
LEMMA NoneIsNoTurn == None \notin Turn
BY DEF None, Turn

-------------------------------------------------------------------------------
(* Logs *)

\* What a log holds.
LEMMA LogFacts ==
    ASSUME NEW log \in Log
    PROVE  /\ \A n \in Sequence : log[n] \in Turn \cup {None}
           /\ Held(log) \subseteq Sequence
           /\ \A n \in Sequence : n \in Held(log) <=> log[n] # None
           /\ \A n \in Held(log) : log[n] \in Turn
BY NoneIsNoTurn DEF Log, Held

\* Two logs that hold the same are one.
LEMMA SameLog ==
    ASSUME NEW log \in Log, NEW other \in Log,
           \A n \in Sequence : log[n] = other[n]
    PROVE  log = other
BY DEF Log

\* The empty log.
LEMMA EmptyLog ==
    /\ Empty \in Log /\ Held(Empty) = {}
    /\ \A n \in Sequence : Empty[n] = None
    /\ \A log \in Log : Held(log) = {} => log = Empty
BY SameLog DEF Empty, Log, Held

\* What Without keeps.
LEMMA WithoutFacts ==
    ASSUME NEW log \in Log, NEW set
    PROVE  /\ Without(log, set) \in Log
           /\ \A n \in Sequence : Without(log, set)[n] = IF n \in set THEN None ELSE log[n]
           /\ Held(Without(log, set)) = Held(log) \ set
BY DEF Without, Log, Held

\* What Joined keeps.
LEMMA JoinedFacts ==
    ASSUME NEW log \in Log, NEW other \in Log
    PROVE  /\ Joined(log, other) \in Log
           /\ \A n \in Sequence :
                 Joined(log, other)[n] = IF other[n] # None THEN other[n] ELSE log[n]
           /\ Held(Joined(log, other)) = Held(log) \cup Held(other)
BY DEF Joined, Log, Held

\* FirstOf keeps the turns up to one of them, and at least one if there is any.
LEMMA FirstOfFacts ==
    ASSUME NEW log \in Log, NEW k \in Nat \ {0}
    PROVE  /\ FirstOf(log, k) \in Log
           /\ Held(FirstOf(log, k)) \subseteq Held(log)
           /\ \A n \in Held(FirstOf(log, k)) : FirstOf(log, k)[n] = log[n]
           /\ \A n \in Sequence : FirstOf(log, k)[n] \in {None, log[n]}
           /\ \A n \in Held(FirstOf(log, k)), i \in Held(log) :
                 i < n => i \in Held(FirstOf(log, k))
           /\ Held(log) # {} => Held(FirstOf(log, k)) # {}
<1> DEFINE below(n) == {i \in Held(log) : i < n}
<1> DEFINE late == {n \in Held(log) : Cardinality(below(n)) >= k}
<1>1. FirstOf(log, k) = Without(log, late)
  BY DEF FirstOf
<1>2. /\ FirstOf(log, k) \in Log
      /\ Held(FirstOf(log, k)) = Held(log) \ late
      /\ \A n \in Sequence : FirstOf(log, k)[n] = IF n \in late THEN None ELSE log[n]
  <2> HIDE DEF late
  <2> QED
    BY <1>1, WithoutFacts
<1>3. Held(log) \subseteq Sequence /\ Held(log) \subseteq Nat
  BY LogFacts, SequenceFacts
<1>4. ASSUME NEW n \in Held(log)
      PROVE  IsFiniteSet(below(n)) /\ Cardinality(below(n)) \in Nat
  <2>1. below(n) \in SUBSET Sequence
    BY <1>3
  <2>2. IsFiniteSet(below(n))
    <3> HIDE DEF below
    <3> QED
      BY <2>1, SequenceFacts, FS_Subset
  <2> QED
    <3> HIDE DEF below
    <3> QED
      BY <2>2, FS_CardinalityType
<1>5. ASSUME NEW n \in Held(log) \ late, NEW i \in Held(log), i < n
      PROVE  i \notin late
  <2>1. n \in Nat /\ i \in Nat
    BY <1>3
  <2>2. below(i) \in SUBSET below(n)
    BY <1>3, <1>5, <2>1
  <2>3. Cardinality(below(i)) <= Cardinality(below(n))
    <3>1. IsFiniteSet(below(n))
      BY <1>4
    <3> HIDE DEF below
    <3> QED
      BY <2>2, <3>1, FS_Subset
  <2>4. ~(Cardinality(below(n)) >= k)
    BY <1>5
  <2>5. Cardinality(below(n)) \in Nat /\ Cardinality(below(i)) \in Nat
    BY <1>4
  <2>6. ~(Cardinality(below(i)) >= k)
    <3> HIDE DEF below
    <3> QED
      BY <2>3, <2>4, <2>5
  <2> QED
    BY <2>6
<1>6. ASSUME Held(log) # {}
      PROVE  Held(log) \ late # {}
  <2>1. PICK n \in Held(log) : \A i \in Held(log) : n <= i
    BY <1>3, <1>6, Least
  <2>2. below(n) = {}
    BY <1>3, <2>1
  <2>3. Cardinality(below(n)) = 0
    BY <2>2, FS_EmptySet
  <2>4. n \notin late
    BY <2>3
  <2> QED
    BY <2>4
<1>7. \A n \in Held(log) \ late, i \in Held(log) : i < n => i \in Held(log) \ late
  BY <1>5
<1> QED
  <2> HIDE DEF late
  <2> QED
    BY <1>2, <1>3, <1>6, <1>7

\* What an upload has to push: what the server has not and can travel.
LEMMA ToUploadFacts ==
    ASSUME NEW view \in Log, NEW there \in Log
    PROVE  /\ ToUpload(view, there) \in Log
           /\ \A n \in Sequence : ToUpload(view, there)[n] \in {None, view[n]}
           /\ \A n \in Held(ToUpload(view, there)) :
                 /\ n \in Held(view) /\ ToUpload(view, there)[n] = view[n]
                 /\ there[n] = None /\ view[n] \notin Unfit
           /\ \A n \in Held(view) :
                 there[n] = None /\ view[n] \notin Unfit => ToUpload(view, there)[n] = view[n]
<1> DEFINE left == {n \in Held(view) : there[n] # None \/ view[n] \in Unfit}
<1>1. ToUpload(view, there) = Without(view, left)
  BY DEF ToUpload
<1>2. /\ ToUpload(view, there) \in Log
      /\ \A n \in Sequence : ToUpload(view, there)[n] = IF n \in left THEN None ELSE view[n]
      /\ Held(ToUpload(view, there)) = Held(view) \ left
  <2> HIDE DEF left
  <2> QED
    BY <1>1, WithoutFacts
<1>3. Held(view) \subseteq Sequence
  BY LogFacts
<1> QED
  BY <1>2, <1>3

\* nextSequence is one more than the last of the log.
LEMMA NextOfLog ==
    ASSUME NEW log \in Log
    PROVE  /\ NextSequence(log) \in 0..MaxTurns
           /\ \A i \in Held(log) : i < NextSequence(log)
           /\ NextSequence(log) > 0 => NextSequence(log) - 1 \in Held(log)
<1>1. Held(log) \in SUBSET (0..(MaxTurns - 1)) /\ MaxTurns - 1 \in Nat
  BY LogFacts, SequenceFacts DEF Sequence
<1>2. \E n \in 0..MaxTurns : (\A i \in Held(log) : i < n) /\ (n > 0 => n - 1 \in Held(log))
  <2>1. CASE Held(log) = {}
    BY <2>1, SequenceFacts
  <2>2. CASE Held(log) # {}
    <3>1. PICK n \in Held(log) : \A i \in Held(log) : i <= n
      BY <1>1, <2>2, Greatest
    <3>2. PICK m \in 0..MaxTurns : m = n + 1
      BY <1>1, SequenceFacts
    <3>3. m - 1 = n /\ \A i \in Held(log) : i < m
      BY <1>1, <3>1, <3>2
    <3> QED
      BY <3>3
  <2> QED
    BY <2>1, <2>2
<1> QED
  BY <1>2 DEF NextSequence

\* Before is None or a sequence with its turn.
LEMMA BeforeFacts ==
    ASSUME NEW log \in Log, NEW n
    PROVE  Before(log, n) \in {None} \cup (Sequence \X Turn)
<1> DEFINE earlier == {i \in Held(log) : i < n}
<1>1. CASE earlier = {}
  BY <1>1 DEF Before
<1>2. CASE earlier # {}
  <2> DEFINE last == CHOOSE i \in earlier : \A j \in earlier : j <= i
  <2>1. earlier \in SUBSET (0..(MaxTurns - 1)) /\ MaxTurns - 1 \in Nat
    BY LogFacts, SequenceFacts DEF Sequence
  <2>2. \E i \in earlier : \A j \in earlier : j <= i
    <3> HIDE DEF earlier
    <3> QED
      BY <1>2, <2>1, Greatest
  <2>3. last \in earlier
    <3> HIDE DEF earlier
    <3> QED
      BY <2>2
  <2>4. last \in Sequence /\ log[last] \in Turn
    BY <2>3, LogFacts
  <2>5. Before(log, n) = <<last, log[last]>>
    BY <1>2 DEF Before
  <2> QED
    <3> HIDE DEF last
    <3> QED
      BY <2>4, <2>5
<1> QED
  BY <1>1, <1>2

-------------------------------------------------------------------------------
(***************************************************************************)
(* The first layer: types.  A pass at "push" has the one request it waits   *)
(* for, and the turns ever written are counted, each computer's from 1.     *)
(***************************************************************************)
WaitingPush ==
    \A d \in Device :
        pass[d].at = "push" <=> \E h \in pushes : h.from = d /\ h.client = "waiting"

OneWaits ==
    \A g, h \in pushes :
        g.client = "waiting" /\ h.client = "waiting" /\ g.from = h.from => g = h

TalkOK ==
    /\ pushes \subseteq Push
    /\ pass \in [Device -> Pass]
    /\ WaitingPush
    /\ OneWaits

BornCounted ==
    /\ DOMAIN born \subseteq Turn
    /\ IsFiniteSet(DOMAIN born) /\ Cardinality(DOMAIN born) <= MaxTurns
    /\ \A t \in DOMAIN born : t[2] <= Cardinality({u \in DOMAIN born : u[1] = t[1]})
    /\ First \in DOMAIN born
    /\ \A t \in DOMAIN born : born[t] \in Turn \cup {None}

FilesOK ==
    /\ server \in Log
    /\ local \in [Device -> Log]
    /\ BornCounted
    /\ mine \in [Device -> Turn \cup {None}]
    /\ \A d \in Device : mine[d] # None => mine[d] \in DOMAIN born
    /\ retired \subseteq DOMAIN born

FlagsOK ==
    /\ chat \in BOOLEAN
    /\ send \in [Device -> {"idle", "started", "asked"}]
    /\ tomb \subseteq Device
    /\ erasing \in [Device -> {"no", "waiting", "buried", "erased"}]
    /\ entry \in [Device -> {"none", "synced", "frozen"}]
    /\ faults \in 0..MaxFaults

Typed == TalkOK /\ FilesOK /\ FlagsOK

\* Typed is TypeOK and more.
LEMMA TypedIsTypeOK == Typed => TypeOK
BY DEF Typed, TalkOK, WaitingPush, FilesOK, BornCounted, FlagsOK, TypeOK

LEMMA TypedHolds == TalkOK /\ FilesOK /\ FlagsOK => Typed
BY DEF Typed

LEMMA DeviceFacts == Creator \in Device /\ Writer \subseteq Device /\ Deleter \subseteq Device
BY DevicesAssumption

\* The pass that does nothing.
LEMMA NoPassFacts ==
    /\ NoPass \in Pass
    /\ NoPass.at = "idle" /\ NoPass.there = Empty /\ NoPass.todo = Empty
BY EmptyLog, SizesAssumption DEF NoPass, Pass, Stages

LEMMA SyncInitTyped == Init => Typed
<1> SUFFICES ASSUME Init
             PROVE  Typed
  OBVIOUS
<1>1. TalkOK
  BY NoPassFacts DEF Init, TalkOK, WaitingPush, OneWaits
<1>2. First \in Turn /\ First[1] = Creator /\ First[2] = 1
  BY DeviceFacts, SizesAssumption DEF First, Turn
<1>3. DOMAIN born = {First} /\ born[First] = None
  BY DEF Init
<1>4. IsFiniteSet(DOMAIN born) /\ Cardinality(DOMAIN born) = 1
  BY <1>3, FS_Singleton
<1>5. {u \in DOMAIN born : u[1] = First[1]} = {First}
  BY <1>3
<1>6. Cardinality({u \in DOMAIN born : u[1] = First[1]}) = 1
  BY <1>5, FS_Singleton
<1>7. BornCounted
  BY <1>2, <1>3, <1>4, <1>6, SizesAssumption DEF BornCounted
<1>8. [Empty EXCEPT ![0] = First] \in Log
  BY <1>2, EmptyLog, SequenceFacts DEF Log
<1>9. FilesOK
  BY <1>3, <1>7, <1>8, EmptyLog DEF Init, FilesOK
<1>10. FlagsOK
  <2>1. chat \in BOOLEAN
    BY DEF Init
  <2>2. tomb \subseteq Device /\ faults \in 0..MaxFaults
    BY FaultsAssumption DEF Init
  <2>3. /\ send \in [Device -> {"idle", "started", "asked"}]
        /\ erasing \in [Device -> {"no", "waiting", "buried", "erased"}]
        /\ entry \in [Device -> {"none", "synced", "frozen"}]
    BY DEF Init
  <2> QED
    BY <2>1, <2>2, <2>3 DEF FlagsOK
<1> QED
  BY <1>1, <1>9, <1>10, TypedHolds

-------------------------------------------------------------------------------
(* New turns *)

\* A new turn is a turn that nobody has written.
LEMMA NewTurnFacts ==
    ASSUME BornCounted, Cardinality(DOMAIN born) < MaxTurns, NEW d \in Device
    PROVE  /\ NewTurn(d) \in Turn \ DOMAIN born
           /\ NewTurn(d)[1] = d
           /\ NewTurn(d)[2] = 1 + Cardinality({u \in DOMAIN born : u[1] = d})
           /\ Cardinality({u \in DOMAIN born : u[1] = d}) \in Nat
<1> DEFINE own == {u \in DOMAIN born : u[1] = d}
<1>1. IsFiniteSet(own) /\ Cardinality(own) <= Cardinality(DOMAIN born)
  BY FS_Subset DEF BornCounted
<1>2. Cardinality(own) \in Nat /\ Cardinality(DOMAIN born) \in Nat
  <2>1. IsFiniteSet(DOMAIN born)
    BY DEF BornCounted
  <2> HIDE DEF own
  <2> QED
    BY <1>1, <2>1, FS_CardinalityType
<1>3. NewTurn(d) = <<d, 1 + Cardinality(own)>>
  BY DEF NewTurn
<1>4. 1 + Cardinality(own) \in 1..MaxTurns
  <2> HIDE DEF own
  <2> QED
    BY <1>1, <1>2, SequenceFacts
<1>5. NewTurn(d) \in Turn /\ NewTurn(d)[1] = d /\ NewTurn(d)[2] = 1 + Cardinality(own)
  <2> HIDE DEF own
  <2> QED
    BY <1>3, <1>4 DEF Turn
<1>6. ASSUME NewTurn(d) \in DOMAIN born
      PROVE  FALSE
  <2>1. NewTurn(d)[2] <= Cardinality({u \in DOMAIN born : u[1] = NewTurn(d)[1]})
    BY <1>6 DEF BornCounted
  <2>2. NewTurn(d)[2] <= Cardinality(own)
    BY <1>5, <2>1
  <2> HIDE DEF own
  <2> QED
    BY <1>2, <1>5, <2>2
<1> QED
  BY <1>2, <1>5, <1>6

\* Writing a new turn keeps the count.
LEMMA AppendedCounts ==
    ASSUME Typed, NEW d \in Device, Appended(d, NewTurn(d))
    PROVE  /\ BornCounted'
           /\ DOMAIN born' = DOMAIN born \cup {NewTurn(d)}
           /\ \A t \in DOMAIN born : born'[t] = born[t]
           /\ born'[NewTurn(d)] = IF NextSequence(local[d]) = 0 THEN None
                                  ELSE local[d][NextSequence(local[d]) - 1]
           /\ NewTurn(d) \in Turn \ DOMAIN born
           /\ local' \in [Device -> Log]
<1> DEFINE new == NewTurn(d)
<1> DEFINE n == NextSequence(local[d])
<1>1. BornCounted /\ local \in [Device -> Log] /\ local[d] \in Log
  BY DEF Typed, FilesOK
<1>2. Cardinality(DOMAIN born) < MaxTurns
  BY DEF Appended
<1>3. /\ new \in Turn \ DOMAIN born /\ new[1] = d
      /\ new[2] = 1 + Cardinality({u \in DOMAIN born : u[1] = d})
      /\ Cardinality({u \in DOMAIN born : u[1] = d}) \in Nat
  BY <1>1, <1>2, NewTurnFacts
<1>4. local' = [local EXCEPT ![d][n] = new]
  BY DEF Appended
<1>5. born' = [t \in DOMAIN born \cup {new} |->
                  IF t # new THEN born[t] ELSE IF n = 0 THEN None ELSE local[d][n - 1]]
  BY DEF Appended
<1> HIDE DEF new
<1>6. n \in 0..MaxTurns /\ (n > 0 => n - 1 \in Held(local[d]))
  BY <1>1, NextOfLog
<1>7. (IF n = 0 THEN None ELSE local[d][n - 1]) \in Turn \cup {None}
  BY <1>1, <1>6, LogFacts, SequenceFacts
<1> HIDE DEF n
<1>8. DOMAIN born' = DOMAIN born \cup {new}
  BY <1>5
<1>9. /\ \A t \in DOMAIN born : born'[t] = born[t]
      /\ born'[new] = IF n = 0 THEN None ELSE local[d][n - 1]
  BY <1>3, <1>5
<1>10. local' \in [Device -> Log]
  BY <1>1, <1>3, <1>4 DEF Log
<1>11. BornCounted'
  <2>1. DOMAIN born' \subseteq Turn
    BY <1>1, <1>3, <1>8 DEF BornCounted
  <2>2. IsFiniteSet(DOMAIN born) /\ Cardinality(DOMAIN born) \in Nat
    BY <1>1, FS_CardinalityType DEF BornCounted
  <2>3. IsFiniteSet(DOMAIN born') /\ Cardinality(DOMAIN born') = Cardinality(DOMAIN born) + 1
    BY <1>3, <1>8, <2>2, FS_AddElement
  <2>4. Cardinality(DOMAIN born') <= MaxTurns
    BY <1>2, <2>2, <2>3, SequenceFacts
  <2>5. ASSUME NEW t \in DOMAIN born'
        PROVE  t[2] <= Cardinality({u \in DOMAIN born' : u[1] = t[1]})
    <3> DEFINE own == {u \in DOMAIN born : u[1] = t[1]}
    <3>1. CASE t[1] = d
      <4>1. {u \in DOMAIN born' : u[1] = t[1]} = own \cup {new}
        BY <1>3, <1>8, <3>1
      <4>2. IsFiniteSet(own) /\ Cardinality(own) \in Nat
        <5>1. IsFiniteSet(own)
          BY <2>2, FS_Subset
        <5> QED
          BY <1>3, <3>1, <5>1
      <4>3. Cardinality({u \in DOMAIN born' : u[1] = t[1]}) = Cardinality(own) + 1
        <5>1. new \notin own
          BY <1>3
        <5> HIDE DEF own
        <5> QED
          BY <4>1, <4>2, <5>1, FS_AddElement
      <4>4. CASE t = new
        BY <1>3, <3>1, <4>2, <4>3, <4>4
      <4>5. CASE t \in DOMAIN born
        <5>1. t[2] <= Cardinality(own)
          BY <1>1, <4>5 DEF BornCounted
        <5>2. t[2] \in Nat
          BY <2>1, <2>5 DEF Turn
        <5> HIDE DEF own
        <5> QED
          BY <4>2, <4>3, <5>1, <5>2
      <4> QED
        BY <1>8, <4>4, <4>5
    <3>2. CASE t[1] # d
      <4>1. {u \in DOMAIN born' : u[1] = t[1]} = own /\ t \in DOMAIN born
        BY <1>3, <1>8, <3>2
      <4>2. t[2] <= Cardinality(own)
        BY <1>1, <4>1 DEF BornCounted
      <4> QED
        BY <4>1, <4>2
    <3> QED
      BY <3>1, <3>2
  <2>6. First \in DOMAIN born'
    BY <1>1, <1>8 DEF BornCounted
  <2>7. \A t \in DOMAIN born' : born'[t] \in Turn \cup {None}
    BY <1>1, <1>7, <1>8, <1>9 DEF BornCounted
  <2> QED
    BY <2>1, <2>3, <2>4, <2>5, <2>6, <2>7 DEF BornCounted
<1> QED
  BY <1>3, <1>8, <1>9, <1>10, <1>11 DEF new, n

-------------------------------------------------------------------------------
(* Passes and requests *)

\* A pass that waits for no request goes on without one.
LEMMA PassGoesOn ==
    ASSUME TalkOK, NEW d \in Device, NEW q \in Pass,
           pass[d].at # "push", q.at # "push",
           Goes(d, q), pushes' = pushes
    PROVE  TalkOK'
<1>1. pass' = [pass EXCEPT ![d] = q] /\ pass \in [Device -> Pass]
  BY DEF TalkOK, Goes
<1>2. pass' \in [Device -> Pass]
  BY <1>1
<1>3. WaitingPush'
  BY <1>1 DEF TalkOK, WaitingPush
<1> QED
  BY <1>2, <1>3 DEF TalkOK, OneWaits

\* A pass sends a request and waits for it.
LEMMA PassSends ==
    ASSUME TalkOK, NEW d \in Device, NEW q \in Pass, NEW h \in Push,
           pass[d].at # "push", q.at = "push",
           h.from = d, h.client = "waiting",
           Goes(d, q), pushes' = pushes \cup {h}
    PROVE  TalkOK'
<1>1. pass' = [pass EXCEPT ![d] = q] /\ pass \in [Device -> Pass]
  BY DEF TalkOK, Goes
<1>2. pass' \in [Device -> Pass] /\ pushes' \subseteq Push
  BY <1>1 DEF TalkOK
<1>3. WaitingPush'
  BY <1>1 DEF TalkOK, WaitingPush
<1>4. \A g \in pushes : g.client = "waiting" => g.from # d
  BY DEF TalkOK, WaitingPush
<1>5. OneWaits'
  BY <1>4 DEF TalkOK, OneWaits
<1> QED
  BY <1>2, <1>3, <1>5 DEF TalkOK

\* A request goes on at the gateway.
LEMMA PushGoesOn ==
    ASSUME TalkOK, NEW h \in pushes, NEW g \in Push,
           g.from = h.from, g.client = h.client,
           pushes' = (pushes \ {h}) \cup {g}, pass' = pass
    PROVE  TalkOK'
<1>1. WaitingPush'
  <2>1. ASSUME NEW d \in Device
        PROVE  (\E k \in pushes : k.from = d /\ k.client = "waiting")
                  <=> (\E k \in pushes' : k.from = d /\ k.client = "waiting")
    OBVIOUS
  <2> QED
    BY <2>1 DEF TalkOK, WaitingPush
<1>2. OneWaits'
  BY DEF TalkOK, OneWaits
<1> QED
  BY <1>1, <1>2 DEF TalkOK

\* A request is answered: the pass goes on, if it still waits.
LEMMA PushAnswered ==
    ASSUME TalkOK, NEW h \in pushes, pushes' = pushes \ {h},
           \/ h.client = "gone" /\ pass' = pass
           \/ h.client = "waiting" /\ \E q \in Pass : q.at # "push" /\ Goes(h.from, q)
    PROVE  TalkOK'
<1>1. h \in Push /\ h.from \in Device /\ pass \in [Device -> Pass]
  BY DEF TalkOK, Push
<1>2. CASE h.client = "gone" /\ pass' = pass
  <2>1. WaitingPush'
    BY <1>2 DEF TalkOK, WaitingPush
  <2> QED
    BY <1>2, <2>1 DEF TalkOK, OneWaits
<1>3. CASE h.client = "waiting" /\ \E q \in Pass : q.at # "push" /\ Goes(h.from, q)
  <2>1. PICK q \in Pass : q.at # "push" /\ Goes(h.from, q)
    BY <1>3
  <2>2. pass' = [pass EXCEPT ![h.from] = q]
    BY <2>1 DEF Goes
  <2>3. pass' \in [Device -> Pass]
    BY <1>1, <2>2
  <2>4. ASSUME NEW d \in Device
        PROVE  pass'[d].at = "push" <=> \E k \in pushes' : k.from = d /\ k.client = "waiting"
    <3>1. CASE d = h.from
      <4>1. \A k \in pushes' : ~(k.from = d /\ k.client = "waiting")
        BY <1>3, <3>1 DEF TalkOK, OneWaits
      <4>2. pass'[d].at # "push"
        BY <1>1, <2>1, <2>2, <3>1
      <4> QED
        BY <4>1, <4>2
    <3>2. CASE d # h.from
      <4>1. pass'[d] = pass[d]
        BY <1>1, <2>2, <3>2
      <4>2. pass[d].at = "push" <=> \E k \in pushes : k.from = d /\ k.client = "waiting"
        BY DEF TalkOK, WaitingPush
      <4> QED
        BY <3>2, <4>1, <4>2
    <3> QED
      BY <3>1, <3>2
  <2>5. WaitingPush'
    BY <2>4 DEF WaitingPush
  <2> QED
    BY <2>3, <2>5 DEF TalkOK, OneWaits
<1> QED
  BY <1>2, <1>3

\* A pass ends where it stands; nobody waits for its request any more.
LEMMA PassLeaves ==
    ASSUME TalkOK, NEW d \in Device, Stops(d),
           pushes' \in { Abandoned(d), {h \in pushes : h.from # d \/ h.client = "gone"} }
    PROVE  TalkOK'
<1>1. pass' = [pass EXCEPT ![d] = NoPass] /\ pass \in [Device -> Pass]
  BY DEF TalkOK, Stops, Goes
<1>2. pass' \in [Device -> Pass]
  BY <1>1, NoPassFacts
<1>3. ASSUME NEW h \in pushes
      PROVE  /\ [h EXCEPT !.client = "gone"] \in Push
             /\ [h EXCEPT !.client = "gone"].client = "gone"
             /\ [h EXCEPT !.client = "gone"].from = h.from
  <2>1. h \in Push
    BY DEF TalkOK
  <2> QED
    BY <2>1 DEF Push
<1>4. \A g \in pushes' : /\ g \in Push
                         /\ g.client = "waiting" => g \in pushes /\ g.from # d
  <2>1. \A g \in pushes : g \in Push
    BY DEF TalkOK
  <2>2. CASE pushes' = Abandoned(d)
    BY <1>3, <2>1, <2>2 DEF Abandoned
  <2>3. CASE pushes' = {h \in pushes : h.from # d \/ h.client = "gone"}
    BY <2>1, <2>3
  <2> QED
    BY <2>2, <2>3
<1>5. \A g \in pushes : g.from # d => g \in pushes'
  <2>1. CASE pushes' = Abandoned(d)
    BY <2>1 DEF Abandoned
  <2>2. CASE pushes' = {h \in pushes : h.from # d \/ h.client = "gone"}
    BY <2>2
  <2> QED
    BY <2>1, <2>2
<1>6. ASSUME NEW e \in Device
      PROVE  pass'[e].at = "push" <=> \E k \in pushes' : k.from = e /\ k.client = "waiting"
  <2>1. CASE e = d
    <3>1. pass'[e].at # "push"
      BY <1>1, <2>1, NoPassFacts
    <3> QED
      BY <1>4, <2>1, <3>1
  <2>2. CASE e # d
    <3>1. pass'[e] = pass[e]
      BY <1>1, <2>2
    <3>2. pass[e].at = "push" <=> \E k \in pushes : k.from = e /\ k.client = "waiting"
      BY DEF TalkOK, WaitingPush
    <3> QED
      BY <1>4, <1>5, <2>2, <3>1, <3>2
  <2> QED
    BY <2>1, <2>2
<1>7. WaitingPush'
  BY <1>6 DEF WaitingPush
<1>8. OneWaits'
  BY <1>4 DEF TalkOK, OneWaits
<1>9. pushes' \subseteq Push
  BY <1>4
<1> QED
  BY <1>2, <1>7, <1>8, <1>9 DEF TalkOK

\* The request that Upload sends.
Batch(todo) == FirstOf(todo, BatchSize)
NewPush(d, there, todo) ==
    [ from |-> d, base |-> BaseOf(there, Batch(todo)), turns |-> Batch(todo),
      step |-> "owner", seen |-> Empty, client |-> "waiting" ]

\* The passes that the steps make of a pass.
LEMMA PassFields ==
    ASSUME NEW p \in Pass, NEW at \in Stages, NEW there \in Log, NEW todo \in Log
    PROVE  LET q == [p EXCEPT !.at = at, !.there = there, !.todo = todo]
           IN /\ q \in Pass /\ q.at = at /\ q.there = there /\ q.todo = todo
              /\ q.here = p.here /\ q.known = p.known /\ q.round = p.round
BY DEF Pass

\* What Upload does.
LEMMA UploadFacts ==
    ASSUME TalkOK, NEW d \in Device, NEW there \in Log, NEW todo \in Log,
           Upload(d, there, todo)
    PROVE  LET q == [pass[d] EXCEPT !.at = "push", !.there = there, !.todo = todo]
           IN /\ \/ /\ Stops(d) /\ pushes' = pushes
                    /\ \/ entry' = entry
                       \/ Held(todo) = {} /\ entry' = [entry EXCEPT ![d] = "synced"]
                 \/ /\ Held(todo) # {} /\ ~Busy(d) /\ entry' = entry
                    /\ Goes(d, q) /\ pushes' = pushes \cup {NewPush(d, there, todo)}
              /\ NewPush(d, there, todo) \in Push
              /\ NewPush(d, there, todo).turns = Batch(todo)
              /\ q \in Pass /\ q.at = "push" /\ q.there = there /\ q.todo = todo
<1>1. BatchSize \in Nat \ {0}
  BY SizesAssumption
<1>2. Batch(todo) \in Log
  BY <1>1, FirstOfFacts DEF Batch
<1>3. BaseOf(there, Batch(todo)) \in {None} \cup (Sequence \X Turn)
  BY BeforeFacts DEF BaseOf
<1>4. NewPush(d, there, todo) \in Push /\ NewPush(d, there, todo).turns = Batch(todo)
  <2> DEFINE Base == {None} \cup (Sequence \X Turn)
  <2>1. PICK base \in Base : base = BaseOf(there, Batch(todo))
    BY <1>3
  <2>2. NewPush(d, there, todo) = [ from |-> d, base |-> base, turns |-> Batch(todo),
              step |-> "owner", seen |-> Empty, client |-> "waiting" ]
    BY <2>1 DEF NewPush
  <2>3. Push = [ from : Device, base : Base, turns : Log,
          step : {"owner", "ensure", "base", "insert", "classify", "explain"},
          seen : Log, client : {"waiting", "gone"} ]
    BY DEF Push
  <2> HIDE DEF Base
  <2> QED
    BY <1>2, <2>2, <2>3, EmptyLog
<1>5. pass[d] \in Pass /\ "push" \in Stages
  BY DEF TalkOK, Stages
<1> DEFINE q == [pass[d] EXCEPT !.at = "push", !.there = there, !.todo = todo]
<1>6. q \in Pass /\ q.at = "push" /\ q.there = there /\ q.todo = todo
  BY <1>5 DEF Pass
<1>7. \/ /\ Stops(d) /\ pushes' = pushes
         /\ \/ entry' = entry
            \/ Held(todo) = {} /\ entry' = [entry EXCEPT ![d] = "synced"]
      \/ /\ Held(todo) # {} /\ ~Busy(d) /\ entry' = entry
         /\ Goes(d, q) /\ pushes' = pushes \cup {NewPush(d, there, todo)}
  BY DEF Upload, MayUpload, NewPush, Batch
<1> QED
  BY <1>4, <1>6, <1>7

LEMMA UploadTalks ==
    ASSUME TalkOK, NEW d \in Device, NEW there \in Log, NEW todo \in Log,
           pass[d].at # "push", Upload(d, there, todo)
    PROVE  TalkOK'
<1> DEFINE q == [pass[d] EXCEPT !.at = "push", !.there = there, !.todo = todo]
<1>1. CASE Stops(d) /\ pushes' = pushes
  BY <1>1, NoPassFacts, PassGoesOn DEF Stops
<1>2. CASE Goes(d, q) /\ pushes' = pushes \cup {NewPush(d, there, todo)}
  <2>1. NewPush(d, there, todo) \in Push
    BY UploadFacts
  <2>4. q \in Pass /\ q.at = "push"
    <3>1. pass[d] \in Pass
      BY DEF TalkOK
    <3> QED
      BY <3>1 DEF Pass, Stages
  <2>2. NewPush(d, there, todo).from = d /\ NewPush(d, there, todo).client = "waiting"
    BY DEF NewPush
  <2>3. pushes' = pushes \cup {NewPush(d, there, todo)} /\ Goes(d, q)
    BY <1>2
  <2> HIDE DEF q
  <2> QED
    BY <2>1, <2>4, <2>2, <2>3, PassSends
<1> QED
  BY <1>1, <1>2, UploadFacts

\* The passes that Confirmed and Retry make.
LEMMA ConfirmedFacts ==
    ASSUME TalkOK, NEW d \in Device, NEW turns \in Log
    PROVE  LET q == [pass[d] EXCEPT !.at = "next", !.there = Joined(@, turns),
                                    !.todo = Without(@, Held(turns))]
           IN /\ Confirmed(d, turns) => Goes(d, q) /\ entry' = entry
              /\ q \in Pass /\ q.at = "next" /\ q.there = Joined(pass[d].there, turns)
              /\ q.todo = Without(pass[d].todo, Held(turns))
<1>1. pass[d] \in Pass /\ "next" \in Stages
  BY DEF TalkOK, Stages
<1>2. pass[d].there \in Log /\ pass[d].todo \in Log
  BY <1>1 DEF Pass
<1>3. Joined(pass[d].there, turns) \in Log /\ Without(pass[d].todo, Held(turns)) \in Log
  BY <1>2, JoinedFacts, WithoutFacts
<1> DEFINE p == pass[d]
<1> DEFINE there == Joined(p.there, turns)
<1> DEFINE todo == Without(p.todo, Held(turns))
<1> DEFINE q == [p EXCEPT !.at = "next", !.there = there, !.todo = todo]
<1>4. q \in Pass /\ q.at = "next" /\ q.there = there /\ q.todo = todo
  <2> HIDE DEF p, there, todo
  <2> QED
    BY <1>1, <1>3 DEF Pass, p, there, todo
<1>5. [pass[d] EXCEPT !.at = "next", !.there = Joined(@, turns),
                      !.todo = Without(@, Held(turns))] = q
  OBVIOUS
<1>6. Confirmed(d, turns) => Goes(d, q) /\ entry' = entry
  BY DEF Confirmed
<1> HIDE DEF q
<1> QED
  BY <1>4, <1>5, <1>6

LEMMA RetryFacts ==
    ASSUME TalkOK, NEW d \in Device, Retry(d)
    PROVE  /\ entry' = entry
           /\ \E q \in Pass : /\ Goes(d, q)
                              /\ q.at \in {"idle", "manifest"} /\ q.todo = Empty
                              /\ q.at = "idle" => q = NoPass
                              /\ q.there \in {Empty, pass[d].there}
<1>1. pass[d] \in Pass /\ MaxRounds \in Nat
  BY SizesAssumption DEF TalkOK
<1>2. CASE Stops(d)
  BY <1>2, NoPassFacts DEF Retry, Stops
<1>3. CASE pass[d].round + 1 < MaxRounds
  <2> DEFINE q == [pass[d] EXCEPT !.at = "manifest", !.todo = Empty, !.round = @ + 1]
  <2>1. pass[d].round \in 0..(MaxRounds - 1)
    BY <1>1 DEF Pass
  <2>2. pass[d].round + 1 \in 0..(MaxRounds - 1)
    BY <1>1, <1>3, <2>1
  <2>3. q \in Pass /\ q.at = "manifest" /\ q.todo = Empty /\ q.there = pass[d].there
    BY <1>1, <2>2, EmptyLog DEF Pass, Stages
  <2>4. Goes(d, q)
    BY <1>3 DEF Retry
  <2> HIDE DEF q
  <2> QED
    BY <2>3, <2>4 DEF Retry
<1> QED
  BY <1>2, <1>3 DEF Retry

\* The types of a pass and of a request.
LEMMA PassOK ==
    ASSUME TalkOK, NEW d \in Device
    PROVE  pass[d] \in Pass /\ pass[d].there \in Log /\ pass[d].todo \in Log
BY DEF TalkOK, Pass

LEMMA PushOK ==
    ASSUME TalkOK, NEW h \in pushes
    PROVE  /\ h \in Push /\ h.from \in Device /\ h.turns \in Log /\ h.seen \in Log
           /\ h.client \in {"waiting", "gone"}
BY DEF TalkOK, Push

LEMMA StageNames ==
    {"idle", "listing", "entering", "manifest", "compare", "fetch", "next", "push"} = Stages
BY DEF Stages

\* The passes begin, and read the list and the manifest.
LEMMA ReadersTalk ==
    ASSUME Typed, NEW d \in Device,
           \/ \E mode \in {"all", "one"} : BeginPass(d, mode)
           \/ ReadList(d) \/ Enter(d) \/ ReadManifest(d)
    PROVE  /\ TalkOK'
           /\ pushes' = pushes /\ pass[d].at # "push"
           /\ \E q \in Pass : /\ Goes(d, q)
                              /\ q.at \in {"idle", "listing", "entering", "manifest", "compare"}
                              /\ q.todo = Empty \/ (q.todo = pass[d].todo /\ pass[d].at = "manifest")
                              /\ q.there = Empty \/ (q.there = server /\ pass[d].at = "manifest")
<1>0. TalkOK /\ pass[d] \in Pass /\ server \in Log /\ chat \in BOOLEAN
  BY PassOK DEF Typed, FilesOK, FlagsOK
<1> DEFINE Read(q) ==
        /\ Goes(d, q)
        /\ q.at \in {"idle", "listing", "entering", "manifest", "compare"}
        /\ q.todo = Empty \/ (q.todo = pass[d].todo /\ pass[d].at = "manifest")
        /\ q.there = Empty \/ (q.there = server /\ pass[d].at = "manifest")
<1>1. ASSUME NEW mode \in {"all", "one"}, BeginPass(d, mode)
      PROVE  \E q \in Pass : Read(q)
  <2>1. CASE mode = "all"
    <3>1. PICK b \in BOOLEAN : b = (Held(local[d]) # {})
      OBVIOUS
    <3> DEFINE q == [NoPass EXCEPT !.at = "listing", !.here = b]
    <3>2. q \in Pass /\ q.at = "listing" /\ q.there = Empty /\ q.todo = Empty
      BY NoPassFacts, StageNames DEF NoPass, Pass
    <3>3. Goes(d, q)
      BY <1>1, <2>1, <3>1 DEF BeginPass
    <3> HIDE DEF q
    <3> QED
      BY <3>2, <3>3
  <2>2. CASE mode = "one"
    <3> DEFINE q == [NoPass EXCEPT !.at = "entering", !.known = TRUE]
    <3>2. q \in Pass /\ q.at = "entering" /\ q.there = Empty /\ q.todo = Empty
      BY NoPassFacts, StageNames DEF NoPass, Pass
    <3>3. Goes(d, q)
      BY <1>1, <2>2 DEF BeginPass
    <3> HIDE DEF q
    <3> QED
      BY <3>2, <3>3
  <2> QED
    BY <2>1, <2>2
<1>2. ASSUME ReadList(d)
      PROVE  \E q \in Pass : Read(q)
  <2>1. CASE Stops(d)
    BY <2>1, NoPassFacts DEF Stops
  <2>2. CASE ~Stops(d)
    <3> DEFINE q == [NoPass EXCEPT !.at = "entering", !.known = chat]
    <3>2. q \in Pass /\ q.at = "entering" /\ q.there = Empty /\ q.todo = Empty
      BY <1>0, NoPassFacts, StageNames DEF NoPass, Pass
    <3>3. Goes(d, q)
      BY <1>2, <2>2 DEF ReadList
    <3> HIDE DEF q
    <3> QED
      BY <3>2, <3>3
  <2> QED
    BY <2>1, <2>2
<1>3. ASSUME Enter(d)
      PROVE  \E q \in Pass : Read(q)
  <2>1. CASE Stops(d)
    BY <2>1, NoPassFacts DEF Stops
  <2>2. CASE ~Stops(d)
    <3> DEFINE at == IF pass[d].known THEN "manifest" ELSE "compare"
    <3> DEFINE q == [NoPass EXCEPT !.at = at]
    <3>1. at \in {"manifest", "compare"} /\ at \in Stages
      BY StageNames
    <3>2. Goes(d, q)
      BY <1>3, <2>2 DEF Enter
    <3> HIDE DEF at
    <3>3. q \in Pass /\ q.at = at /\ q.there = Empty /\ q.todo = Empty
      BY <3>1, NoPassFacts DEF NoPass, Pass
    <3> HIDE DEF q
    <3> QED
      BY <3>1, <3>2, <3>3
  <2> QED
    BY <2>1, <2>2
<1>4. ASSUME ReadManifest(d)
      PROVE  \E q \in Pass : Read(q)
  <2> DEFINE q == [pass[d] EXCEPT !.at = "compare", !.there = server]
  <2>1. q \in Pass /\ q.at = "compare" /\ q.there = server /\ q.todo = pass[d].todo
    BY <1>0, StageNames DEF Pass
  <2>2. Goes(d, q) /\ pass[d].at = "manifest"
    BY <1>4 DEF ReadManifest
  <2> HIDE DEF q
  <2> QED
    BY <2>1, <2>2
<1>5. PICK q \in Pass : Read(q)
  BY <1>1, <1>2, <1>3, <1>4
<1>6. pushes' = pushes /\ pass[d].at # "push"
  BY DEF BeginPass, ReadList, Enter, ReadManifest, gatewayVars
<1>7. TalkOK'
  BY <1>0, <1>5, <1>6, PassGoesOn
<1> QED
  BY <1>5, <1>6, <1>7

\* The comparison: what a pass has to do.
LEMMA CompareTalks ==
    ASSUME Typed, NEW d \in Device, Compare(d)
    PROVE  TalkOK'
<1> DEFINE there == pass[d].there
<1> DEFINE missing == Without(there, Held(local[d]))
<1>0. TalkOK /\ pass[d] \in Pass /\ there \in Log /\ local[d] \in Log
  BY PassOK DEF Typed, FilesOK
<1>1. missing \in Log /\ ToUpload(local[d], there) \in Log
  BY <1>0, WithoutFacts, ToUploadFacts
<1>2. pass[d].at # "push"
  BY DEF Compare
<1>3. CASE Freeze(d) /\ pushes' = pushes
  BY <1>0, <1>2, <1>3, NoPassFacts, PassGoesOn DEF Freeze, Stops
<1>4. CASE Goes(d, [pass[d] EXCEPT !.at = "fetch", !.todo = missing]) /\ pushes' = pushes
  <2> DEFINE q == [pass[d] EXCEPT !.at = "fetch", !.todo = missing]
  <2>1. q \in Pass /\ q.at = "fetch"
    BY <1>0, <1>1, StageNames DEF Pass
  <2>2. Goes(d, q)
    BY <1>4
  <2> HIDE DEF q
  <2> QED
    BY <1>0, <1>2, <1>4, <2>1, <2>2, PassGoesOn
<1>5. CASE Upload(d, there, ToUpload(local[d], there))
  <2> HIDE DEF there
  <2> QED
    BY <1>0, <1>1, <1>2, <1>5, UploadTalks
<1> QED
  BY <1>3, <1>4, <1>5 DEF Compare, BeginUpload

LEMMA DownloadTalks ==
    ASSUME Typed, NEW d \in Device, Download(d)
    PROVE  TalkOK' /\ local' \in [Device -> Log]
<1> DEFINE there == pass[d].there
<1> DEFINE todo == pass[d].todo
<1> DEFINE chunk == FirstOf(todo, FetchChunk)
<1> DEFINE rest == Without(todo, Held(chunk))
<1>0. /\ TalkOK /\ pass[d] \in Pass /\ there \in Log /\ todo \in Log
      /\ local \in [Device -> Log] /\ local[d] \in Log
  BY PassOK DEF Typed, FilesOK
<1>1. chunk \in Log
  BY <1>0, SizesAssumption, FirstOfFacts
<1>2. rest \in Log /\ Joined(local[d], chunk) \in Log
  <2> HIDE DEF chunk, todo
  <2> QED
    BY <1>0, <1>1, WithoutFacts, JoinedFacts
<1>3. pass[d].at # "push"
  BY DEF Download
<1>4. CASE Stops(d) /\ pushes' = pushes /\ local' = local
  BY <1>0, <1>3, <1>4, NoPassFacts, PassGoesOn DEF Stops
<1>5. CASE Freeze(d) /\ pushes' = pushes /\ local' = local
  BY <1>0, <1>3, <1>5, NoPassFacts, PassGoesOn DEF Freeze, Stops
<1>6. CASE local' = [local EXCEPT ![d] = Joined(local[d], chunk)]
  <2>1. local' \in [Device -> Log] /\ local'[d] \in Log
    <3> HIDE DEF chunk
    <3> QED
      BY <1>0, <1>2, <1>6
  <2>2. CASE Goes(d, [pass[d] EXCEPT !.todo = rest]) /\ pushes' = pushes
    <3> DEFINE q == [pass[d] EXCEPT !.todo = rest]
    <3>1. q \in Pass /\ q.at = pass[d].at
      <4> HIDE DEF rest
      <4> QED
        BY <1>0, <1>2 DEF Pass
    <3>2. Goes(d, q)
      BY <2>2
    <3> HIDE DEF q
    <3> QED
      BY <1>0, <1>3, <2>1, <2>2, <3>1, <3>2, PassGoesOn
  <2>3. CASE Upload(d, there, ToUpload(local'[d], there))
    <3>1. PICK log \in Log : log = ToUpload(local'[d], there)
      BY <1>0, <2>1, ToUploadFacts
    <3>2. Upload(d, there, log)
      BY <2>3, <3>1
    <3> HIDE DEF there
    <3> QED
      BY <1>0, <1>3, <2>1, <3>2, UploadTalks
  <2> QED
    BY <1>4, <1>5, <1>6, <2>1, <2>2, <2>3 DEF Download, BeginUpload
<1> QED
  BY <1>4, <1>5, <1>6 DEF Download

\* The gateway's steps.
LEMMA MovedPush ==
    ASSUME NEW h \in Push,
           NEW step \in {"owner", "ensure", "base", "insert", "classify", "explain"},
           NEW seen \in Log
    PROVE  /\ LET g == [h EXCEPT !.step = step]
              IN /\ g \in Push /\ g.from = h.from /\ g.client = h.client
                 /\ g.turns = h.turns /\ g.seen = h.seen /\ g.step = step
           /\ LET g == [h EXCEPT !.step = step, !.seen = seen]
              IN /\ g \in Push /\ g.from = h.from /\ g.client = h.client
                 /\ g.turns = h.turns /\ g.seen = seen /\ g.step = step
BY DEF Push

LEMMA MovesTalks ==
    ASSUME TalkOK, NEW h \in pushes,
           NEW step \in {"owner", "ensure", "base", "insert", "classify", "explain"},
           Moves(h, step), pass' = pass
    PROVE  TalkOK'
<1>1. h \in Push
  BY PushOK
<1> DEFINE g == [h EXCEPT !.step = step]
<1>2. g \in Push /\ g.from = h.from /\ g.client = h.client
  BY <1>1 DEF Push
<1>3. pushes' = (pushes \ {h}) \cup {g}
  BY DEF Moves
<1> HIDE DEF g
<1> QED
  BY <1>2, <1>3, PushGoesOn

LEMMA GatewayTalks ==
    ASSUME Typed, NEW h \in pushes, PushStep(h)
    PROVE  TalkOK'
<1>0. /\ TalkOK /\ h \in Push /\ h.from \in Device /\ h.turns \in Log /\ h.seen \in Log
      /\ h.client \in {"waiting", "gone"} /\ server \in Log
  BY PushOK DEF Typed, FilesOK
<1>1. ASSUME Replies(h, Confirmed(h.from, h.turns))
      PROVE  TalkOK'
  <2>1. pushes' = pushes \ {h}
    BY <1>1 DEF Replies
  <2>2. CASE h.client = "gone"
    BY <1>0, <1>1, <2>1, <2>2, PushAnswered DEF Replies
  <2>3. CASE h.client = "waiting"
    <3> DEFINE q == [pass[h.from] EXCEPT !.at = "next", !.there = Joined(@, h.turns),
                                         !.todo = Without(@, Held(h.turns))]
    <3>1. Goes(h.from, q) /\ q \in Pass /\ q.at = "next"
      BY <1>0, <1>1, <2>3, ConfirmedFacts DEF Replies
    <3> HIDE DEF q
    <3> QED
      BY <1>0, <2>1, <2>3, <3>1, PushAnswered
  <2> QED
    BY <1>0, <2>2, <2>3
<1>2. ASSUME Replies(h, Retry(h.from))
      PROVE  TalkOK'
  <2>1. pushes' = pushes \ {h}
    BY <1>2 DEF Replies
  <2>2. CASE h.client = "gone"
    BY <1>0, <1>2, <2>1, <2>2, PushAnswered DEF Replies
  <2>3. CASE h.client = "waiting"
    <3>1. PICK q \in Pass : Goes(h.from, q) /\ q.at \in {"idle", "manifest"}
      BY <1>0, <1>2, <2>3, RetryFacts DEF Replies
    <3> QED
      BY <1>0, <2>1, <2>3, <3>1, PushAnswered
  <2> QED
    BY <1>0, <2>2, <2>3
<1>3. ASSUME pushes' = pushes \ {h},
             IF h.client = "waiting" THEN Stops(h.from) ELSE pass' = pass
      PROVE  TalkOK'
  BY <1>0, <1>3, NoPassFacts, PushAnswered DEF Stops
<1>4. CASE FindOwner(h)
  <2>1. CASE Moves(h, "base") /\ pass' = pass
    BY <1>0, <2>1, MovesTalks
  <2>2. CASE Moves(h, "ensure") /\ pass' = pass
    BY <1>0, <2>2, MovesTalks
  <2>3. CASE Replies(h, Stops(h.from) /\ UNCHANGED entry)
    BY <1>3, <2>3 DEF Replies
  <2> QED
    BY <1>4, <2>1, <2>2, <2>3 DEF FindOwner
<1>5. CASE EnsureChat(h)
  <2>1. PICK step \in {"base", "insert"} : Moves(h, step) /\ pass' = pass
    BY <1>5 DEF EnsureChat
  <2> QED
    BY <1>0, <2>1, MovesTalks
<1>6. CASE CheckBase(h)
  <2>1. CASE Moves(h, "insert") /\ pass' = pass
    BY <1>0, <2>1, MovesTalks
  <2> QED
    BY <1>2, <1>6, <2>1 DEF CheckBase
<1>7. CASE Insert(h)
  <2>1. CASE Moves(h, "classify") /\ pass' = pass
    BY <1>0, <2>1, MovesTalks
  <2> QED
    BY <1>1, <1>7, <2>1 DEF Insert
<1>8. CASE Classify(h)
  <2> DEFINE seen == Without(server, Sequence \ Held(h.turns))
  <2> DEFINE g == [h EXCEPT !.step = "explain", !.seen = seen]
  <2>1. seen \in Log
    BY <1>0, WithoutFacts
  <2>2. pushes' = (pushes \ {h}) \cup {g} /\ pass' = pass
    BY <1>8 DEF Classify
  <2>3. g \in Push /\ g.from = h.from /\ g.client = h.client
    <3> HIDE DEF seen
    <3> QED
      BY <1>0, <2>1 DEF Push
  <2> HIDE DEF g
  <2> QED
    BY <1>0, <2>2, <2>3, PushGoesOn
<1>9. CASE Explain(h)
  <2>1. pushes' = pushes \ {h}
    BY <1>9 DEF Explain, Replies
  <2>2. CASE h.client = "gone"
    <3>1. pass' = pass
      BY <1>9, <2>2 DEF Explain, Replies
    <3> QED
      BY <1>0, <2>1, <2>2, <3>1, PushAnswered
  <2>3. CASE h.client = "waiting"
    <3>1. \/ Freeze(h.from)
          \/ Confirmed(h.from, h.turns)
          \/ Retry(h.from)
      BY <1>9, <2>3 DEF Explain, Replies
    <3>2. CASE Freeze(h.from)
      BY <1>3, <2>1, <2>3, <3>2 DEF Freeze
    <3>3. CASE Confirmed(h.from, h.turns)
      BY <1>1, <2>1, <2>3, <3>3 DEF Replies
    <3>4. CASE Retry(h.from)
      BY <1>2, <2>1, <2>3, <3>4 DEF Replies
    <3> QED
      BY <3>1, <3>2, <3>3, <3>4
  <2> QED
    BY <1>0, <2>2, <2>3
<1> QED
  BY <1>4, <1>5, <1>6, <1>7, <1>8, <1>9 DEF PushStep

\* Every step keeps the passes and their requests together.
LEMMA StepTalks ==
    ASSUME Typed, Next
    PROVE  TalkOK'
<1>0. TalkOK
  BY DEF Typed
<1>1. ASSUME pass' = pass, pushes' = pushes
      PROVE  TalkOK'
  BY <1>0, <1>1 DEF TalkOK, WaitingPush, OneWaits
<1>2. ASSUME NEW d \in Device, StartSend(d) \/ SendStep(d)
      PROVE  TalkOK'
  BY <1>1, <1>2 DEF StartSend, SendStep, WriteMessage, WriteReply, EndSend, gatewayVars
<1>3. ASSUME NEW d \in Device, BeginDelete(d) \/ DeleteStep(d)
      PROVE  TalkOK'
  BY <1>1, <1>3 DEF BeginDelete, DeleteStep, Bury, EraseFile, EndDelete, gatewayVars
<1>4. ASSUME NEW d \in Device, NEW mode \in {"all", "one"}, BeginPass(d, mode)
      PROVE  TalkOK'
  BY <1>4, ReadersTalk
<1>5. ASSUME NEW d \in Device, PassStep(d)
      PROVE  TalkOK'
  <2>1. CASE ReadList(d) \/ Enter(d) \/ ReadManifest(d)
    BY <2>1, ReadersTalk
  <2>2. CASE Compare(d)
    BY <2>2, CompareTalks
  <2>3. CASE Download(d)
    BY <2>3, DownloadTalks
  <2>4. CASE NextBatch(d)
    <3>1. pass[d].at # "push" /\ Upload(d, pass[d].there, pass[d].todo)
      BY <2>4 DEF NextBatch
    <3> QED
      BY <1>0, <3>1, PassOK, UploadTalks
  <2> QED
    BY <1>5, <2>1, <2>2, <2>3, <2>4 DEF PassStep
<1>6. ASSUME NEW d \in Device, CutPass(d) \/ Crash(d)
      PROVE  TalkOK'
  <2>1. Stops(d) /\ pushes' \in { Abandoned(d),
                                  {h \in pushes : h.from # d \/ h.client = "gone"} }
    BY <1>6 DEF CutPass, Crash
  <2> QED
    BY <1>0, <2>1, PassLeaves
<1>7. ASSUME NEW h \in pushes, PushStep(h)
      PROVE  TalkOK'
  BY <1>7, GatewayTalks
<1> QED
  BY <1>2, <1>3, <1>4, <1>5, <1>6, <1>7 DEF Next

-------------------------------------------------------------------------------
(* The files and the flags *)

\* The files, the turns ever written and the turns taken back change only so.
LEMMA FilesStay ==
    ASSUME FilesOK, local' = local, server' = server, born' = born,
           retired' = retired,
           mine' \in [Device -> Turn \cup {None}],
           \A d \in Device : mine'[d] # None => mine'[d] \in DOMAIN born
    PROVE  FilesOK'
BY DEF FilesOK, BornCounted

\* A send writes a turn.
LEMMA WriteFiles ==
    ASSUME Typed, NEW d \in Device, WriteMessage(d) \/ WriteReply(d)
    PROVE  FilesOK'
<1>1. /\ Appended(d, NewTurn(d)) /\ server' = server /\ retired' = retired
      /\ \/ mine' = [mine EXCEPT ![d] = NewTurn(d)]
         \/ mine' = [mine EXCEPT ![d] = None]
  BY DEF WriteMessage, WriteReply, gatewayVars
<1>2. /\ BornCounted' /\ DOMAIN born' = DOMAIN born \cup {NewTurn(d)}
      /\ NewTurn(d) \in Turn /\ local' \in [Device -> Log]
  BY <1>1, AppendedCounts
<1>3. FilesOK
  BY DEF Typed
<1>4. /\ mine' \in [Device -> Turn \cup {None}]
      /\ \A e \in Device : mine'[e] # None => mine'[e] \in DOMAIN born'
  BY <1>1, <1>2, <1>3 DEF FilesOK
<1> QED
  BY <1>1, <1>2, <1>3, <1>4 DEF FilesOK

LEMMA StepFiles ==
    ASSUME Typed, Next
    PROVE  FilesOK'
<1>0. FilesOK /\ TalkOK
  BY DEF Typed
<1>1. ASSUME local' = local, server' = server, born' = born, retired' = retired,
             mine' = mine
      PROVE  FilesOK'
  BY <1>0, <1>1 DEF FilesOK, BornCounted
<1>2. ASSUME NEW d \in Device, StartSend(d) \/ SendStep(d)
      PROVE  FilesOK'
  <2>1. CASE StartSend(d)
    BY <1>1, <2>1 DEF StartSend, gatewayVars
  <2>2. CASE WriteMessage(d) \/ WriteReply(d)
    BY <2>2, WriteFiles
  <2>3. CASE EndSend(d)
    <3>1. mine' = [mine EXCEPT ![d] = None] /\ server' = server /\ born' = born
      BY <2>3 DEF EndSend, gatewayVars
    <3>2. /\ mine' \in [Device -> Turn \cup {None}]
          /\ \A e \in Device : mine'[e] # None => mine'[e] \in DOMAIN born
      BY <1>0, <3>1 DEF FilesOK
    <3>3. CASE mine[d] = None
      BY <1>0, <2>3, <3>1, <3>2, <3>3, FilesStay DEF EndSend
    <3>4. CASE mine[d] # None
      <4>1. local' = [local EXCEPT ![d] = Without(@, {NextSequence(@) - 1})]
        BY <2>3, <3>4 DEF EndSend
      <4>2. Without(local[d], {NextSequence(local[d]) - 1}) \in Log
        BY <1>0, WithoutFacts DEF FilesOK
      <4>3. local' \in [Device -> Log]
        BY <1>0, <4>1, <4>2 DEF FilesOK
      <4>4. retired' = retired \cup {mine[d]}
        BY <2>3, <3>4 DEF EndSend
      <4>5. retired' \subseteq DOMAIN born
        BY <1>0, <3>4, <4>4 DEF FilesOK
      <4> QED
        BY <1>0, <3>1, <3>2, <4>3, <4>5 DEF FilesOK, BornCounted
    <3> QED
      BY <3>3, <3>4
  <2> QED
    BY <1>2, <2>1, <2>2, <2>3 DEF SendStep
<1>3. ASSUME NEW d \in Device, BeginDelete(d) \/ DeleteStep(d)
      PROVE  FilesOK'
  <2>1. CASE BeginDelete(d) \/ Bury(d) \/ EndDelete(d)
    BY <1>1, <2>1 DEF BeginDelete, Bury, EndDelete, gatewayVars, sendVars
  <2>2. CASE EraseFile(d)
    <3>1. /\ local' = [local EXCEPT ![d] = Empty] /\ server' = server
          /\ mine' = mine /\ born' = born /\ retired' = retired
      BY <2>2 DEF EraseFile, gatewayVars, sendVars
    <3>2. local' \in [Device -> Log]
      BY <1>0, <3>1, EmptyLog DEF FilesOK
    <3> QED
      BY <1>0, <3>1, <3>2 DEF FilesOK, BornCounted
  <2> QED
    BY <1>3, <2>1, <2>2 DEF DeleteStep
<1>4. ASSUME NEW d \in Device, NEW mode \in {"all", "one"}, BeginPass(d, mode)
      PROVE  FilesOK'
  BY <1>1, <1>4 DEF BeginPass, gatewayVars, sendVars
<1>5. ASSUME NEW d \in Device, PassStep(d)
      PROVE  FilesOK'
  <2>1. CASE ReadList(d) \/ Enter(d) \/ ReadManifest(d)
    BY <1>1, <2>1 DEF ReadList, Enter, ReadManifest, gatewayVars, sendVars
  <2>2. CASE Compare(d) \/ NextBatch(d)
    BY <1>1, <2>2 DEF Compare, NextBatch, sendVars
  <2>3. CASE Download(d)
    <3>1. local' \in [Device -> Log]
      BY <2>3, DownloadTalks
    <3>2. server' = server /\ mine' = mine /\ born' = born /\ retired' = retired
      BY <2>3 DEF Download, sendVars
    <3> QED
      BY <1>0, <3>1, <3>2 DEF FilesOK, BornCounted
  <2> QED
    BY <1>5, <2>1, <2>2, <2>3 DEF PassStep
<1>6. ASSUME NEW d \in Device, CutPass(d) \/ Crash(d)
      PROVE  FilesOK'
  <2>1. /\ local' = local /\ server' = server /\ born' = born /\ retired' = retired
        /\ mine' = mine \/ mine' = [mine EXCEPT ![d] = None]
    BY <1>6 DEF CutPass, Crash, sendVars
  <2>2. /\ mine' \in [Device -> Turn \cup {None}]
        /\ \A e \in Device : mine'[e] # None => mine'[e] \in DOMAIN born
    BY <1>0, <2>1 DEF FilesOK
  <2> QED
    BY <1>0, <2>1, <2>2, FilesStay
<1>7. ASSUME NEW h \in pushes, PushStep(h)
      PROVE  FilesOK'
  <2>1. local' = local /\ mine' = mine /\ born' = born /\ retired' = retired
    BY <1>7 DEF PushStep, sendVars
  <2>2. server' = server \/ server' = Joined(server, h.turns)
    BY <1>7 DEF PushStep, FindOwner, EnsureChat, CheckBase, Insert, Classify, Explain
  <2>3. server' \in Log
    BY <1>0, <2>2, PushOK, JoinedFacts DEF FilesOK
  <2> QED
    BY <1>0, <2>1, <2>3 DEF FilesOK, BornCounted
<1> QED
  BY <1>2, <1>3, <1>4, <1>5, <1>6, <1>7 DEF Next

\* What a step of the gateway does to the entry of the device that asked.
LEMMA GatewayEntry ==
    ASSUME Typed, NEW h \in pushes, PushStep(h)
    PROVE  entry' = entry \/ (entry' = [entry EXCEPT ![h.from] = "frozen"] /\ h.step = "explain")
<1>1. TalkOK /\ h.from \in Device /\ h.turns \in Log
  BY PushOK DEF Typed
<1>2. Confirmed(h.from, h.turns) => entry' = entry
  BY DEF Confirmed
<1>3. Retry(h.from) => entry' = entry
  BY DEF Retry
<1>4. CASE FindOwner(h) \/ EnsureChat(h) \/ Classify(h)
  BY <1>4 DEF FindOwner, EnsureChat, Classify, Replies
<1>5. CASE CheckBase(h) \/ Insert(h)
  BY <1>2, <1>3, <1>5 DEF CheckBase, Insert, Replies
<1>6. CASE Explain(h)
  BY <1>2, <1>3, <1>6 DEF Explain, Replies, Freeze
<1> QED
  BY <1>4, <1>5, <1>6 DEF PushStep

LEMMA StepFlags ==
    ASSUME Typed, Next
    PROVE  FlagsOK'
<1>0. FlagsOK /\ TalkOK /\ FilesOK
  BY DEF Typed
<1>1. ASSUME chat' = chat, faults' = faults, NEW d \in Device,
             \/ send' = send
             \/ \E s \in {"idle", "started", "asked"} : send' = [send EXCEPT ![d] = s],
             tomb' = tomb \/ tomb' = tomb \cup {d},
             \/ erasing' = erasing
             \/ \E s \in {"no", "waiting", "buried", "erased"} :
                   erasing' = [erasing EXCEPT ![d] = s],
             \/ entry' = entry
             \/ \E s \in {"none", "synced", "frozen"} : entry' = [entry EXCEPT ![d] = s]
      PROVE  FlagsOK'
  <2>1. send' \in [Device -> {"idle", "started", "asked"}]
    BY <1>0, <1>1 DEF FlagsOK
  <2>2. erasing' \in [Device -> {"no", "waiting", "buried", "erased"}]
    BY <1>0, <1>1 DEF FlagsOK
  <2>3. entry' \in [Device -> {"none", "synced", "frozen"}]
    BY <1>0, <1>1 DEF FlagsOK
  <2>4. chat' \in BOOLEAN /\ faults' \in 0..MaxFaults /\ tomb' \subseteq Device
    BY <1>0, <1>1 DEF FlagsOK
  <2> QED
    BY <2>1, <2>2, <2>3, <2>4 DEF FlagsOK
<1>2. ASSUME NEW d \in Device, StartSend(d) \/ SendStep(d)
      PROVE  FlagsOK'
  <2>1. /\ \E s \in {"idle", "started", "asked"} : send' = [send EXCEPT ![d] = s]
        /\ chat' = chat /\ faults' = faults /\ tomb' = tomb /\ erasing' = erasing
        /\ entry' = entry
    BY <1>2 DEF StartSend, SendStep, WriteMessage, WriteReply, EndSend, gatewayVars, eraseVars
  <2> QED
    BY <1>1, <2>1
<1>3. ASSUME NEW d \in Device, BeginDelete(d) \/ DeleteStep(d)
      PROVE  FlagsOK'
  <2>1. /\ \E s \in {"no", "waiting", "buried", "erased"} : erasing' = [erasing EXCEPT ![d] = s]
        /\ chat' = chat /\ faults' = faults /\ send' = send
        /\ tomb' = tomb \/ tomb' = tomb \cup {d}
        /\ entry' = entry \/ entry' = [entry EXCEPT ![d] = "none"]
    BY <1>3 DEF BeginDelete, DeleteStep, Bury, EraseFile, EndDelete, gatewayVars, sendVars
  <2> QED
    BY <1>1, <2>1
<1>4. ASSUME NEW d \in Device, NEW mode \in {"all", "one"}, BeginPass(d, mode)
      PROVE  FlagsOK'
  BY <1>1, <1>4 DEF BeginPass, gatewayVars, sendVars, eraseVars
<1>5. ASSUME NEW d \in Device, PassStep(d)
      PROVE  FlagsOK'
  <2>1. CASE ReadList(d) \/ Enter(d) \/ ReadManifest(d)
    BY <1>1, <2>1 DEF ReadList, Enter, ReadManifest, gatewayVars, sendVars, eraseVars
  <2>2. CASE Compare(d) \/ NextBatch(d) \/ Download(d)
    <3>1. chat' = chat /\ faults' = faults /\ send' = send /\ tomb' = tomb /\ erasing' = erasing
      BY <2>2 DEF Compare, NextBatch, Download, sendVars, eraseVars
    <3>2. entry' = entry \/ \E s \in {"synced", "frozen"} : entry' = [entry EXCEPT ![d] = s]
      BY <2>2 DEF Compare, NextBatch, Download, BeginUpload, Upload, Freeze
    <3> QED
      BY <1>1, <3>1, <3>2
  <2> QED
    BY <1>5, <2>1, <2>2 DEF PassStep
<1>6. ASSUME NEW d \in Device, CutPass(d) \/ Crash(d)
      PROVE  FlagsOK'
  <2>1. faults' \in 0..MaxFaults
    BY <1>0, <1>6, FaultsAssumption DEF CutPass, Crash, Fault, FlagsOK
  <2>2. chat' = chat /\ entry' = entry /\ tomb' = tomb
    BY <1>6 DEF CutPass, Crash, eraseVars
  <2>3. send' = send \/ send' = [send EXCEPT ![d] = "idle"]
    BY <1>6 DEF CutPass, Crash, sendVars
  <2>4. erasing' = erasing \/ erasing' = [erasing EXCEPT ![d] = "no"]
    BY <1>6 DEF CutPass, Crash, eraseVars
  <2>5. /\ send' \in [Device -> {"idle", "started", "asked"}]
        /\ erasing' \in [Device -> {"no", "waiting", "buried", "erased"}]
    BY <1>0, <2>3, <2>4 DEF FlagsOK
  <2> QED
    BY <1>0, <2>1, <2>2, <2>5 DEF FlagsOK
<1>7. ASSUME NEW h \in pushes, PushStep(h)
      PROVE  FlagsOK'
  <2>1. send' = send /\ tomb' = tomb /\ erasing' = erasing /\ faults' = faults
    BY <1>7 DEF PushStep, sendVars, eraseVars
  <2>2. chat' \in BOOLEAN
    BY <1>0, <1>7 DEF PushStep, FindOwner, EnsureChat, CheckBase, Insert, Classify, Explain, FlagsOK
  <2>3. entry' \in [Device -> {"none", "synced", "frozen"}]
    BY <1>0, <1>7, GatewayEntry, PushOK DEF FlagsOK
  <2> QED
    BY <1>0, <2>1, <2>2, <2>3 DEF FlagsOK
<1> QED
  BY <1>2, <1>3, <1>4, <1>5, <1>6, <1>7 DEF Next

\* Nothing at all keeps everything.
LEMMA SyncStutterTyped == Typed /\ UNCHANGED vars => Typed'
BY DEF Typed, TalkOK, WaitingPush, OneWaits, FilesOK, BornCounted, FlagsOK,
       vars, gatewayVars, sendVars, eraseVars

\* The state is well typed: a pass at "push" has a request that waits for it
\* and no other does, the turns ever written are no more than MaxTurns, and no
\* step puts anything but a turn at a sequence.
THEOREM SyncTypeCorrect == Spec => []TypeOK
<1>1. Init => Typed
  BY SyncInitTyped
<1>2. Typed /\ [Next]_vars => Typed'
  BY StepTalks, StepFiles, StepFlags, SyncStutterTyped, TypedHolds DEF Typed
<1>3. Typed => TypeOK
  BY TypedIsTypeOK
<1> QED
  BY <1>1, <1>2, <1>3, PTL DEF Spec
===============================================================================
