---------------------------- MODULE AnswerProofs ----------------------------
(***************************************************************************)
(* What is proved of the parts of MCServices that answer clients (the      *)
(* caches, the figures of progress, the pages of the knowledge graph), for *)
(* the specification that the model checker runs.                          *)
(***************************************************************************)
EXTENDS MCServices, SelectionProofs, SequenceTheorems

---------------------------------------------------------------------------
(* The composition.                                                        *)

\* A step takes each part by a step of its own, or leaves it alone.
LEMMA OneAnswerMoves ==
  ASSUME [ServicesNext]_ServicesVars
  PROVE  /\ Cache!Next \/ UNCHANGED CacheVars
         /\ Graph!Next \/ UNCHANGED GraphVars
         /\ Progress!Next \/ UNCHANGED ProgressVars
         /\ Results!Next \/ UNCHANGED ResultVars
         /\ Redis!Next \/ UNCHANGED RedisVars
         /\ Loader!Next \/ UNCHANGED LoaderVars
         /\ Large!Next \/ UNCHANGED LargeVars
  <1>1. CASE UNCHANGED ServicesVars
    BY <1>1, Zenon DEF ServicesVars
  <1>2. CASE ServicesNext
    <2>1. Cache!Next \/ UNCHANGED CacheVars
      BY <1>2, Zenon DEF ServicesNext, Others
    <2>2. Graph!Next \/ UNCHANGED GraphVars
      BY <1>2, Zenon DEF ServicesNext, Others
    <2>3. Progress!Next \/ UNCHANGED ProgressVars
      BY <1>2, Zenon DEF ServicesNext, Others
    <2>4. Results!Next \/ UNCHANGED ResultVars
      BY <1>2, Zenon DEF ServicesNext, Others
    <2>5. Redis!Next \/ UNCHANGED RedisVars
      BY <1>2, Zenon DEF ServicesNext, Others
    <2>6. Loader!Next \/ UNCHANGED LoaderVars
      BY <1>2, Zenon DEF ServicesNext, Others
    <2>7. Large!Next \/ UNCHANGED LargeVars
      BY <1>2, Zenon DEF ServicesNext, Others
    <2>8. QED
      BY <2>1, <2>2, <2>3, <2>4, <2>5, <2>6, <2>7, Zenon
  <1>3. QED
    BY <1>1, <1>2, Zenon

---------------------------------------------------------------------------
(* The caches of results.                                                  *)

\* What was read, and where an asker stands.
Readings == [read : Nat, clears : Nat]
Askings ==
  {Results!Rested}
    \cup [at : {"connection", "loader"}, topic : Topics \cup Entities, asked : Nat]
    \cup [at : {"loaded"}, topic : Topics \cup Entities, asked : Nat, result : Readings]

\* A frame that is cached was read after the last clearing; what an asker has read was
\* read after it asked.
FramesCurrent ==
  \A t \in Topics : frames[t] # NoResult => frames[t].read <= hour /\ frames[t].clears = clears
RepliesPast == \A e \in Entities : replies[e] # NoResult => replies[e] <= hour
AskedBefore ==
  \A a \in Askers :
    /\ asking[a].at # "rest" => asking[a].asked <= clears
    /\ asking[a].at = "loaded" => asking[a].asked <= asking[a].result.clears

ResultInv ==
  /\ hour \in 0..MaxHour /\ clears \in 0..MaxClears
  /\ frames \in [Topics -> Readings \cup {NoResult}]
  /\ replies \in [Entities -> Nat \cup {NoResult}]
  /\ asking \in [Askers -> Askings]
  /\ FramesCurrent /\ RepliesPast /\ AskedBefore
  /\ Results!ResultsFresh

LEMMA ResultNumbers ==
  FrameTtl \in Nat \ {0} /\ EntityTtl \in Nat \ {0} /\ MaxHour \in Nat /\ MaxClears \in Nat
  BY ServicesAssumption, Zenon DEF ServicesAssumption, Results!ResultAssumption

LEMMA ResultInit == Results!Init => ResultInv
  <1>1. SUFFICES ASSUME Results!Init PROVE ResultInv
    OBVIOUS
  <1>2. Results!Rested \in Askings /\ Results!Rested.at = "rest"
    BY DEF Askings, Results!Rested
  <1>3. /\ hour = 0 /\ clears = 0
        /\ frames = [t \in Topics |-> NoResult]
        /\ replies = [e \in Entities |-> NoResult]
        /\ asking = [a \in Askers |-> Results!Rested]
        /\ reply = NoResult
    BY <1>1, Zenon DEF Results!Init
  <1>4. hour \in 0..MaxHour /\ clears \in 0..MaxClears
    BY <1>3, ResultNumbers
  <1>5. FramesCurrent /\ RepliesPast
    BY <1>3 DEF FramesCurrent, RepliesPast
  <1>6. AskedBefore
    BY <1>2, <1>3 DEF AskedBefore
  <1>7. Results!ResultsFresh
    BY <1>3, Zenon DEF Results!ResultsFresh
  <1>8. /\ frames \in [Topics -> Readings \cup {NoResult}]
        /\ replies \in [Entities -> Nat \cup {NoResult}]
        /\ asking \in [Askers -> Askings]
    BY <1>2, <1>3
  <1>9. QED
    BY <1>4, <1>5, <1>6, <1>7, <1>8, Zenon DEF ResultInv

\* An asker is given a result, or an error.
LEMMA DoneKeeps ==
  ASSUME ResultInv, NEW a \in Askers, NEW r, Results!Done(a, r), clears' = clears
  PROVE  /\ asking' \in [Askers -> Askings]
         /\ AskedBefore'
         /\ reply' = r
  <1>1. /\ asking' = [asking EXCEPT ![a] = Results!Rested]
        /\ reply' = r /\ clears' = clears
    BY Zenon DEF Results!Done
  <1>2. Results!Rested \in Askings /\ Results!Rested.at = "rest"
    BY DEF Askings, Results!Rested
  <1>3. asking \in [Askers -> Askings] /\ AskedBefore
    BY Zenon DEF ResultInv
  <1>4. asking' \in [Askers -> Askings]
    BY <1>1, <1>2, <1>3
  <1>5. \A o \in Askers : asking'[o] = asking[o] \/ asking'[o].at = "rest"
    BY <1>1, <1>2, <1>3
  <1>6. AskedBefore'
    BY <1>1, <1>3, <1>5 DEF AskedBefore
  <1>7. QED
    BY <1>1, <1>4, <1>6

\* What is stored in the frames is there, is what was there, or was just read.
LEMMA FramesKeep ==
  ASSUME ResultInv, clears' = clears, hour' = hour,
         frames' \in [Topics -> Readings \cup {NoResult}],
         \A t \in Topics : frames'[t] \in {frames[t], NoResult, Results!Reading}
  PROVE  FramesCurrent'
  <1>1. Results!Reading.read = hour /\ Results!Reading.clears = clears
    BY DEF Results!Reading
  <1>2. hour \in Nat /\ FramesCurrent
    BY ResultNumbers DEF ResultInv
  <1>3. ASSUME NEW t \in Topics, frames'[t] # NoResult
        PROVE  frames'[t].read <= hour' /\ frames'[t].clears = clears'
    <2>1. CASE frames'[t] = frames[t]
      BY <1>2, <1>3, <2>1 DEF FramesCurrent
    <2>2. CASE frames'[t] = Results!Reading
      BY <1>1, <1>2, <2>2
    <2>3. QED
      BY <1>3, <2>1, <2>2
  <1>4. QED
    BY <1>3, Zenon DEF FramesCurrent

LEMMA ResultStep ==
  ASSUME ResultInv, Results!Next
  PROVE  ResultInv'
  <1> DEFINE Typed == /\ frames \in [Topics -> Readings \cup {NoResult}]
                      /\ replies \in [Entities -> Nat \cup {NoResult}]
                      /\ asking \in [Askers -> Askings]
             Timed == hour \in 0..MaxHour /\ clears \in 0..MaxClears
  <1>1. /\ Typed /\ Timed /\ FramesCurrent /\ RepliesPast /\ AskedBefore /\ Results!ResultsFresh
        /\ hour \in Nat /\ clears \in Nat
    BY ResultNumbers DEF ResultInv
  <1>2. Results!Reading \in Readings /\ Results!Reading.read = hour /\ Results!Reading.clears = clears
    BY <1>1 DEF Readings, Results!Reading
  <1>3. Typed' /\ Timed' /\ FramesCurrent' /\ RepliesPast' /\ AskedBefore' /\ Results!ResultsFresh'
          => ResultInv'
    BY Zenon DEF ResultInv
  <1>4. UNCHANGED reply => Results!ResultsFresh'
    BY <1>1, Zenon DEF Results!ResultsFresh
  <1>5. reply' = NoResult => Results!ResultsFresh'
    BY Zenon DEF Results!ResultsFresh
  <1>6. UNCHANGED <<hour, replies>> => RepliesPast'
    BY <1>1, Zenon DEF RepliesPast
  <1>7. UNCHANGED <<hour, clears, frames>> => FramesCurrent'
    BY <1>1, Zenon DEF FramesCurrent
  <1>8. UNCHANGED <<hour, clears>> => Timed'
    BY <1>1, Zenon
  <1>10. ASSUME NEW a \in Askers, NEW t \in Topics, Results!FrameHit(a, t) PROVE ResultInv'
    <2> DEFINE r == Results!Result(TRUE, frames[t], clears)
    <2>1. /\ Results!FreshFrame(t) /\ Results!Done(a, r)
          /\ UNCHANGED <<hour, clears, frames, replies>>
      BY <1>10, Zenon DEF Results!FrameHit
    <2>2. asking' \in [Askers -> Askings] /\ AskedBefore' /\ reply' = r
      BY <2>1, DoneKeeps, Zenon
    <2>3. frames[t] # NoResult /\ hour - frames[t].read < FrameTtl /\ frames[t].clears = clears
      BY <1>1, <2>1 DEF Results!FreshFrame, Results!Cached, FramesCurrent
    <2>4. r.frame = TRUE /\ r.age = hour - frames[t].read /\ r.old = (frames[t].clears < clears)
      BY DEF Results!Result
    <2> HIDE DEF r
    <2>5. ~r.old /\ r.age < FrameTtl
      <3>1. ~(frames[t].clears < clears) /\ r.age < FrameTtl
        BY <1>1, <2>3, <2>4
      <3>2. QED
        BY <2>4, <3>1, Zenon
    <2>6. Results!ResultsFresh'
      BY <2>2, <2>5, Zenon DEF Results!ResultsFresh
    <2>7. Typed'
      BY <1>1, <2>1, <2>2, Zenon
    <2>8. QED
      BY <1>3, <1>6, <1>7, <1>8, <2>1, <2>2, <2>6, <2>7, Zenon
  <1>11. ASSUME NEW a \in Askers, NEW t \in Topics, Results!FrameMiss(a, t) PROVE ResultInv'
    <2> DEFINE q == [at |-> "connection", topic |-> t, asked |-> clears]
    <2>1. /\ frames' = [frames EXCEPT ![t] = NoResult]
          /\ asking' = [asking EXCEPT ![a] = q]
          /\ UNCHANGED <<hour, clears, replies, reply>>
      BY <1>11, Zenon DEF Results!FrameMiss
    <2>2. q \in Askings /\ q.at = "connection" /\ q.asked = clears
      BY <1>1 DEF Askings
    <2> HIDE DEF q
    <2>3. Typed'
      BY <1>1, <2>1, <2>2
    <2>4. \A u \in Topics : frames'[u] \in {frames[u], NoResult, Results!Reading}
      BY <1>1, <2>1
    <2>5. FramesCurrent'
      BY <2>1, <2>3, <2>4, FramesKeep
    <2>6. \A o \in Askers : asking'[o] = asking[o] \/ asking'[o] = q
      BY <1>1, <2>1
    <2>7. AskedBefore'
      BY <1>1, <2>1, <2>2, <2>6 DEF AskedBefore
    <2>8. QED
      BY <1>3, <1>4, <1>6, <1>8, <2>1, <2>3, <2>5, <2>7, Zenon
  <1>12. ASSUME NEW a \in Askers, Results!ReadFile(a) PROVE ResultInv'
    <2> DEFINE topic == asking[a].topic
               r == Results!Result(TRUE, Results!Reading, asking[a].asked)
               new == [frames EXCEPT ![topic] = Results!Reading]
    <2>1. /\ asking[a].at = "connection"
          /\ frames' = Results!Stored(topic) /\ Results!Done(a, r)
          /\ UNCHANGED <<hour, clears, replies>>
      BY <1>12, Zenon DEF Results!ReadFile
    <2>2. asking' \in [Askers -> Askings] /\ AskedBefore' /\ reply' = r
      BY <2>1, DoneKeeps, Zenon
    <2>3. asking[a].asked <= clears /\ asking[a].asked \in Nat
      <3>1. asking[a] \in Askings /\ asking[a].at = "connection"
        BY <1>1, <2>1
      <3>2. asking[a].asked \in Nat
        BY <3>1 DEF Askings, Results!Rested
      <3>3. QED
        BY <1>1, <3>1, <3>2 DEF AskedBefore
    <2>4. r.frame = TRUE /\ r.age = hour - hour /\ r.old = (clears < asking[a].asked)
      BY <1>2 DEF Results!Result
    <2> HIDE DEF r
    <2>5. ~r.old /\ r.age < FrameTtl
      <3>1. ~(clears < asking[a].asked) /\ r.age < FrameTtl
        BY <1>1, <2>3, <2>4, ResultNumbers
      <3>2. QED
        BY <2>4, <3>1, Zenon
    <2>6. Results!ResultsFresh'
      BY <2>2, <2>5, Zenon DEF Results!ResultsFresh
    <2>7. new \in [Topics -> Readings \cup {NoResult}] /\ \A u \in Topics : new[u] \in {frames[u], Results!Reading}
      BY <1>1, <1>2
    <2>8. \/ frames' = new
          \/ frames' = [u \in Topics |-> IF Results!Cached(new, u) /\ hour - new[u].read > FrameTtl
                                           THEN NoResult ELSE new[u]]
      BY <2>1, Zenon DEF Results!Stored
    <2> HIDE DEF new
    <2>9. /\ frames' \in [Topics -> Readings \cup {NoResult}]
          /\ \A u \in Topics : frames'[u] \in {frames[u], NoResult, Results!Reading}
      <3>1. CASE frames' = new
        BY <2>7, <3>1
      <3>2. CASE frames' = [u \in Topics |-> IF Results!Cached(new, u) /\ hour - new[u].read > FrameTtl
                                               THEN NoResult ELSE new[u]]
        BY <2>7, <3>2
      <3>3. QED
        BY <2>8, <3>1, <3>2
    <2>10. Typed'
      BY <1>1, <2>1, <2>2, <2>9, Zenon
    <2>11. FramesCurrent'
      BY <2>1, <2>9, FramesKeep
    <2>12. QED
      BY <1>3, <1>6, <1>8, <2>1, <2>2, <2>6, <2>10, <2>11, Zenon
  <1>13. ASSUME NEW a \in Askers, NEW e \in Entities, Results!QueryFails(a) \/ Results!EntityHit(a, e)
         PROVE  ResultInv'
    <2>1. Results!Done(a, NoResult) /\ UNCHANGED <<hour, clears, frames, replies>>
      BY <1>13, Zenon DEF Results!QueryFails, Results!EntityHit
    <2>2. asking' \in [Askers -> Askings] /\ AskedBefore' /\ reply' = NoResult
      BY <2>1, DoneKeeps, Zenon
    <2>3. Typed'
      BY <1>1, <2>1, <2>2, Zenon
    <2>4. QED
      BY <1>3, <1>5, <1>6, <1>7, <1>8, <2>1, <2>2, <2>3, Zenon
  <1>14. ASSUME NEW a \in Askers, Results!QueryFails(a) PROVE ResultInv'
    <2>1. Results!Done(a, NoResult) /\ UNCHANGED <<hour, clears, frames, replies>>
      BY <1>14, Zenon DEF Results!QueryFails
    <2>2. asking' \in [Askers -> Askings] /\ AskedBefore' /\ reply' = NoResult
      BY <2>1, DoneKeeps, Zenon
    <2>3. Typed'
      BY <1>1, <2>1, <2>2, Zenon
    <2>4. QED
      BY <1>3, <1>5, <1>6, <1>7, <1>8, <2>1, <2>2, <2>3, Zenon
  <1>15. ASSUME NEW a \in Askers, NEW e \in Entities, Results!EntityMiss(a, e) PROVE ResultInv'
    <2> DEFINE q == [at |-> "loader", topic |-> e, asked |-> clears]
    <2>1. asking' = [asking EXCEPT ![a] = q] /\ UNCHANGED <<hour, clears, frames, replies, reply>>
      BY <1>15, Zenon DEF Results!EntityMiss
    <2>2. q \in Askings /\ q.at = "loader" /\ q.asked = clears
      BY <1>1 DEF Askings
    <2> HIDE DEF q
    <2>3. Typed'
      BY <1>1, <2>1, <2>2
    <2>4. \A o \in Askers : asking'[o] = asking[o] \/ asking'[o] = q
      BY <1>1, <2>1
    <2>5. AskedBefore'
      BY <1>1, <2>1, <2>2, <2>4 DEF AskedBefore
    <2>6. QED
      BY <1>3, <1>4, <1>6, <1>7, <1>8, <2>1, <2>3, <2>5, Zenon
  <1>16. ASSUME NEW a \in Askers, Results!Load(a) PROVE ResultInv'
    <2> DEFINE q == [at |-> "loaded", topic |-> asking[a].topic, asked |-> asking[a].asked,
                     result |-> Results!Reading]
    <2>1. /\ asking[a].at = "loader" /\ asking' = [asking EXCEPT ![a] = q]
          /\ UNCHANGED <<hour, clears, frames, replies, reply>>
      BY <1>16, Zenon DEF Results!Load
    <2>2. asking[a].asked <= clears /\ asking[a].asked \in Nat /\ asking[a].topic \in Topics \cup Entities
      <3>1. asking[a] \in Askings /\ asking[a].at = "loader"
        BY <1>1, <2>1
      <3>2. asking[a].asked \in Nat /\ asking[a].topic \in Topics \cup Entities
        BY <3>1 DEF Askings, Results!Rested
      <3>3. QED
        BY <1>1, <3>1, <3>2 DEF AskedBefore
    <2>3. /\ q \in Askings /\ q.at = "loaded" /\ q.asked <= clears
          /\ q.asked <= q.result.clears
      BY <1>1, <1>2, <2>2 DEF Askings
    <2> HIDE DEF q
    <2>4. Typed'
      BY <1>1, <2>1, <2>3
    <2>5. \A o \in Askers : asking'[o] = asking[o] \/ asking'[o] = q
      BY <1>1, <2>1
    <2>6. AskedBefore'
      BY <1>1, <2>1, <2>3, <2>5 DEF AskedBefore
    <2>7. QED
      BY <1>3, <1>4, <1>6, <1>7, <1>8, <2>1, <2>4, <2>6, Zenon
  <1>17. ASSUME NEW a \in Askers, NEW found \in BOOLEAN, Results!Resume(a, found) PROVE ResultInv'
    <2> DEFINE r == IF found THEN Results!Result(FALSE, asking[a].result, asking[a].asked) ELSE NoResult
    <2>1. /\ asking[a].at = "loaded"
          /\ replies' = IF found THEN [replies EXCEPT ![asking[a].topic] = hour] ELSE replies
          /\ Results!Done(a, r)
          /\ UNCHANGED <<hour, clears, frames>>
      BY <1>17, Zenon DEF Results!Resume
    <2>2. asking' \in [Askers -> Askings] /\ AskedBefore' /\ reply' = r
      BY <2>1, DoneKeeps, Zenon
    <2>3. /\ asking[a].asked \in Nat /\ asking[a].result.clears \in Nat
          /\ asking[a].asked <= asking[a].result.clears
      <3>1. asking[a] \in Askings /\ asking[a].at = "loaded"
        BY <1>1, <2>1
      <3>2. asking[a].asked \in Nat /\ asking[a].result \in Readings
        BY <3>1 DEF Askings, Results!Rested
      <3>3. QED
        BY <1>1, <3>1, <3>2 DEF AskedBefore, Readings
    <2>4. Results!ResultsFresh'
      <3>1. CASE found
        <4> DEFINE s == Results!Result(FALSE, asking[a].result, asking[a].asked)
        <4>1. s.frame = FALSE /\ s.old = (asking[a].result.clears < asking[a].asked)
          BY DEF Results!Result
        <4>2. ~(asking[a].result.clears < asking[a].asked)
          BY <2>3
        <4>3. ~s.old /\ ~s.frame
          BY <4>1, <4>2, Zenon
        <4>4. reply' = s
          BY <2>2, <3>1, Zenon
        <4>5. QED
          BY <4>3, <4>4, Zenon DEF Results!ResultsFresh
      <3>2. QED
        BY <1>5, <2>2, <3>1, Zenon
    <2>5. replies' \in [Entities -> Nat \cup {NoResult}] /\ RepliesPast'
      <3>1. replies' \in [Entities -> Nat \cup {NoResult}]
        BY <1>1, <2>1
      <3>2. \A e \in Entities : replies'[e] = replies[e] \/ replies'[e] = hour
        BY <1>1, <2>1
      <3>3. QED
        BY <1>1, <2>1, <3>1, <3>2 DEF RepliesPast
    <2>6. Typed'
      BY <1>1, <2>1, <2>2, <2>5, Zenon
    <2>7. QED
      BY <1>3, <1>7, <1>8, <2>1, <2>2, <2>4, <2>5, <2>6, Zenon
  <1>18. CASE Results!Clear
    <2>1. /\ clears < MaxClears /\ clears' = clears + 1
          /\ replies' = [e \in Entities |-> NoResult] /\ frames' = [t \in Topics |-> NoResult]
          /\ UNCHANGED <<hour, asking, reply>>
      BY <1>18, Zenon DEF Results!Clear
    <2>2. Timed'
      BY <1>1, <2>1, ResultNumbers
    <2>3. Typed' /\ FramesCurrent' /\ RepliesPast'
      BY <1>1, <2>1 DEF FramesCurrent, RepliesPast
    <2>4. AskedBefore'
      <3>1. ASSUME NEW a \in Askers, asking[a].at # "rest" PROVE asking[a].asked <= clears'
        <4>1. asking[a] \in Askings
          BY <1>1
        <4>2. asking[a].asked \in Nat
          BY <3>1, <4>1 DEF Askings, Results!Rested
        <4>3. asking[a].asked <= clears
          BY <1>1, <3>1, Zenon DEF AskedBefore
        <4>4. QED
          BY <1>1, <2>1, <4>2, <4>3
      <3>2. QED
        BY <1>1, <2>1, <3>1 DEF AskedBefore
    <2>5. QED
      BY <1>3, <1>4, <2>1, <2>2, <2>3, <2>4, Zenon
  <1>19. CASE Results!Pass
    <2>1. hour < MaxHour /\ hour' = hour + 1 /\ UNCHANGED <<clears, frames, replies, asking, reply>>
      BY <1>19, Zenon DEF Results!Pass
    <2>2. Timed'
      BY <1>1, <2>1, ResultNumbers
    <2>3. Typed' /\ AskedBefore'
      BY <1>1, <2>1, Zenon DEF AskedBefore
    <2>4. FramesCurrent'
      <3>1. ASSUME NEW t \in Topics, frames[t] # NoResult PROVE frames[t].read \in Nat
        BY <1>1, <3>1 DEF Readings
      <3>2. QED
        BY <1>1, <2>1, <3>1 DEF FramesCurrent
    <2>5. RepliesPast'
      <3>1. ASSUME NEW e \in Entities, replies[e] # NoResult PROVE replies[e] \in Nat
        BY <1>1, <3>1
      <3>2. QED
        BY <1>1, <2>1, <3>1 DEF RepliesPast
    <2>6. QED
      BY <1>3, <1>4, <2>1, <2>2, <2>3, <2>4, <2>5, Zenon
  <1>20. QED
    BY <1>10, <1>11, <1>12, <1>13, <1>14, <1>15, <1>16, <1>17, <1>18, <1>19, Zenon DEF Results!Next

\* What the result caches keep, whoever asks, reads and clears in between.
THEOREM ResultInvariant == ServicesSpec => []ResultInv
  <1>1. ServicesInit => ResultInv
    BY ResultInit, Zenon DEF ServicesInit
  <1>2. ResultInv /\ [ServicesNext]_ServicesVars => ResultInv'
    <2> SUFFICES ASSUME ResultInv, [ServicesNext]_ServicesVars PROVE ResultInv'
      OBVIOUS
    <2>1. CASE Results!Next
      BY <2>1, ResultStep
    <2>2. CASE UNCHANGED ResultVars
      BY <2>2 DEF ResultVars, ResultInv, FramesCurrent, RepliesPast, AskedBefore,
                  Results!ResultsFresh
    <2>3. QED
      BY <2>1, <2>2, OneAnswerMoves, Zenon
  <1>3. QED
    BY <1>1, <1>2, PTL DEF ServicesSpec

---------------------------------------------------------------------------
(* The distributed cache.                                                  *)

\* The namespaces an invalidation has left, and those it has passed.
Lefts == {Redis!Invalidated, <<"relationships", "communities">>, <<"communities">>, <<>>}
Passed(left) == {s \in Redis!Namespaces : \A n \in DOMAIN left : left[n] # s}

Works == [id : Ids, left : Lefts, found : (SUBSET Redis!CacheKeys) \cup {Nothing}, began : Nat, clean : BOOLEAN]
Ends == [id : Ids, began : Nat, clean : BOOLEAN]

\* Nothing of the workspace is left in the namespaces that was stored before.
Emptied(values, spaces, id, began) ==
  \A k \in Redis!CacheKeys :
    k[1] \in spaces /\ k[2] = id /\ values[k] # Nothing => values[k] > began

\* An invalidation of which no command failed has emptied the namespaces it passed, and
\* knows the keys that are to go from the one it is at.
WorkSound(i) ==
  work[i] # Nothing =>
    /\ work[i].began <= sets
    /\ work[i].found # Nothing => work[i].left # <<>>
    /\ work[i].clean = TRUE => Emptied(server, Passed(work[i].left), work[i].id, work[i].began)
    /\ work[i].clean = TRUE /\ work[i].found # Nothing =>
         \A k \in Redis!CacheKeys :
           k[1] = Head(work[i].left) /\ k[2] = work[i].id /\ server[k] # Nothing /\ k \notin work[i].found
             => server[k] > work[i].began

FinishedSound ==
  finished # Nothing =>
    /\ finished.began <= sets
    /\ finished.clean = TRUE => Emptied(server, Redis!Namespaces, finished.id, finished.began)

Stored == \A k \in Redis!CacheKeys : server[k] # Nothing => server[k] >= 1 /\ server[k] <= sets

RedisInv ==
  /\ linked \in BOOLEAN /\ sets \in 0..MaxSets
  /\ server \in [Redis!CacheKeys -> Nat \cup {Nothing}]
  /\ work \in [Invalidators -> Works \cup {Nothing}]
  /\ finished \in Ends \cup {Nothing}
  /\ Stored /\ FinishedSound
  /\ \A i \in Invalidators : WorkSound(i)

LEMMA SpacesPass ==
  /\ Redis!Invalidated \in Lefts /\ Passed(Redis!Invalidated) = {} /\ Passed(<<>>) = Redis!Namespaces
  /\ \A left \in Lefts : left # <<>> =>
       /\ Tail(left) \in Lefts
       /\ Head(left) \in Redis!Namespaces
       /\ Passed(Tail(left)) = Passed(left) \cup {Head(left)}
  <1>1. Redis!Invalidated \in Lefts /\ Passed(Redis!Invalidated) = {} /\ Passed(<<>>) = Redis!Namespaces
    BY DEF Lefts, Passed, Redis!Invalidated, Redis!Namespaces
  <1>2. ASSUME NEW left \in Lefts, left # <<>>
        PROVE  /\ Tail(left) \in Lefts
               /\ Head(left) \in Redis!Namespaces
               /\ Passed(Tail(left)) = Passed(left) \cup {Head(left)}
    <2>1. CASE left = Redis!Invalidated
      BY <2>1 DEF Lefts, Passed, Redis!Invalidated, Redis!Namespaces
    <2>2. CASE left = <<"relationships", "communities">>
      BY <2>2 DEF Lefts, Passed, Redis!Invalidated, Redis!Namespaces
    <2>3. CASE left = <<"communities">>
      BY <2>3 DEF Lefts, Passed, Redis!Invalidated, Redis!Namespaces
    <2>4. QED
      BY <1>2, <2>1, <2>2, <2>3 DEF Lefts
  <1>3. QED
    BY <1>1, <1>2

\* Keys that are taken away, and newer values, leave what was emptied empty.
LEMMA StaysEmptied ==
  ASSUME NEW spaces, NEW id, NEW began \in Nat, Emptied(server, spaces, id, began),
         sets \in Nat, began <= sets, NEW values,
         \A k \in Redis!CacheKeys : values[k] \in {server[k], Nothing, sets + 1}
  PROVE  Emptied(values, spaces, id, began)
  BY DEF Emptied

LEMMA RedisInit == Redis!Init => RedisInv
  <1>1. SUFFICES ASSUME Redis!Init PROVE RedisInv
    OBVIOUS
  <1>2. /\ linked = FALSE /\ sets = 0 /\ finished = Nothing
        /\ server = [k \in Redis!CacheKeys |-> Nothing]
        /\ work = [i \in Invalidators |-> Nothing]
    BY <1>1, Zenon DEF Redis!Init
  <1>3. MaxSets \in Nat
    BY ServicesAssumption, Zenon DEF ServicesAssumption, Redis!RedisAssumption
  <1>4. Stored /\ FinishedSound /\ \A i \in Invalidators : WorkSound(i)
    BY <1>2 DEF Stored, FinishedSound, WorkSound
  <1>5. /\ linked \in BOOLEAN /\ sets \in 0..MaxSets
        /\ server \in [Redis!CacheKeys -> Nat \cup {Nothing}]
        /\ work \in [Invalidators -> Works \cup {Nothing}]
        /\ finished \in Ends \cup {Nothing}
    <2>1. linked = FALSE /\ sets = 0
      BY <1>2, Zenon
    <2>2. finished \in Ends \cup {Nothing}
      BY <1>2, Zenon
    <2>3. server \in [Redis!CacheKeys -> Nat \cup {Nothing}]
      BY <1>2, Zenon
    <2>4. work \in [Invalidators -> Works \cup {Nothing}]
      BY <1>2, Zenon
    <2>5. sets \in 0..MaxSets
      BY <1>3, <2>1
    <2>6. linked \in BOOLEAN
      BY <2>1, Zenon
    <2>7. QED
      BY <2>2, <2>3, <2>4, <2>5, <2>6, Zenon
  <1>6. QED
    BY <1>4, <1>5, Zenon DEF RedisInv

\* What an invalidation that stands still can rely on while others come in between.
LEMMA OthersWork ==
  ASSUME RedisInv, sets' >= sets, sets' \in Nat,
         \A k \in Redis!CacheKeys : server'[k] \in {server[k], Nothing, sets + 1}
  PROVE  /\ \A i \in Invalidators : work'[i] = work[i] => WorkSound(i)'
         /\ finished' = finished => FinishedSound'
  <1>1. /\ sets \in Nat /\ work \in [Invalidators -> Works \cup {Nothing}] /\ finished \in Ends \cup {Nothing}
        /\ FinishedSound /\ \A i \in Invalidators : WorkSound(i)
    BY DEF RedisInv
  <1>2. ASSUME NEW i \in Invalidators, work'[i] = work[i], work[i] # Nothing PROVE WorkSound(i)'
    <2>0. PICK w : w = work[i]
      OBVIOUS
    <2>1. w \in Works /\ w.began \in Nat
      BY <1>1, <1>2, <2>0 DEF Works
    <2>2. /\ w.began <= sets
          /\ w.found # Nothing => w.left # <<>>
          /\ w.clean = TRUE => Emptied(server, Passed(w.left), w.id, w.began)
          /\ w.clean = TRUE /\ w.found # Nothing =>
               \A k \in Redis!CacheKeys :
                 k[1] = Head(w.left) /\ k[2] = w.id /\ server[k] # Nothing /\ k \notin w.found
                   => server[k] > w.began
      BY <1>1, <1>2, <2>0 DEF WorkSound
    <2>3. work'[i] = w
      BY <1>2, <2>0
    <2>4. w.began <= sets'
      BY <1>1, <2>1, <2>2
    <2>5. w.clean = TRUE => Emptied(server', Passed(w.left), w.id, w.began)
      BY <1>1, <2>1, <2>2, StaysEmptied
    <2>6. w.clean = TRUE /\ w.found # Nothing =>
            \A k \in Redis!CacheKeys :
              k[1] = Head(w.left) /\ k[2] = w.id /\ server'[k] # Nothing /\ k \notin w.found
                => server'[k] > w.began
      BY <1>1, <2>1, <2>2
    <2>7. QED
      BY <2>2, <2>3, <2>4, <2>5, <2>6 DEF WorkSound
  <1>3. ASSUME NEW i \in Invalidators, work'[i] = work[i] PROVE WorkSound(i)'
    BY <1>2, <1>3, Zenon DEF WorkSound
  <1>4. ASSUME finished' = finished PROVE FinishedSound'
    <2>1. CASE finished = Nothing
      BY <1>4, <2>1, Zenon DEF FinishedSound
    <2>2. CASE finished # Nothing
      <3>1. finished.began \in Nat
        BY <1>1, <2>2 DEF Ends
      <3>2. finished.began <= sets /\ (finished.clean = TRUE => Emptied(server, Redis!Namespaces, finished.id, finished.began))
        BY <1>1, <2>2, Zenon DEF FinishedSound
      <3>3. finished.clean = TRUE => Emptied(server', Redis!Namespaces, finished.id, finished.began)
        BY <1>1, <3>1, <3>2, StaysEmptied
      <3>4. finished.began <= sets'
        BY <1>1, <3>1, <3>2
      <3>5. QED
        BY <1>4, <3>3, <3>4 DEF FinishedSound
    <2>3. QED
      BY <2>1, <2>2
  <1>5. QED
    BY <1>3, <1>4

\* On to the next namespace, which leaves this one empty unless a command failed.
LEMMA OnwardKeeps ==
  ASSUME RedisInv, NEW i \in Invalidators, NEW worked \in BOOLEAN, Redis!Onward(i, worked),
         work[i] # Nothing, work[i].left # <<>>, UNCHANGED sets,
         \A k \in Redis!CacheKeys : server'[k] \in {server[k], Nothing},
         worked /\ work[i].clean = TRUE => Emptied(server', {Head(work[i].left)}, work[i].id, work[i].began)
  PROVE  /\ work' \in [Invalidators -> Works \cup {Nothing}]
         /\ WorkSound(i)'
         /\ \A j \in Invalidators : j # i => work'[j] = work[j]
  <1> DEFINE w == work[i]
             new == [id |-> w.id, left |-> Tail(w.left), found |-> Nothing, began |-> w.began,
                     clean |-> w.clean /\ worked]
  <1>1. /\ sets \in Nat /\ work \in [Invalidators -> Works \cup {Nothing}] /\ WorkSound(i)
    BY DEF RedisInv
  <1>2. work' = [work EXCEPT ![i] = new]
    BY Zenon DEF Redis!Onward
  <1>3. w \in Works
    BY <1>1
  <1>4. /\ w.id \in Ids /\ w.left \in Lefts /\ w.began \in Nat /\ w.clean \in BOOLEAN
    BY <1>3 DEF Works
  <1>5. /\ w.began <= sets
        /\ w.clean = TRUE => Emptied(server, Passed(w.left), w.id, w.began)
    BY <1>1, Zenon DEF WorkSound
  <1>6. Tail(w.left) \in Lefts /\ Passed(Tail(w.left)) = Passed(w.left) \cup {Head(w.left)}
    BY <1>4, SpacesPass
  <1>7. (w.clean /\ worked) \in BOOLEAN
    BY <1>4
  <1>8. new \in Works
    BY <1>4, <1>6, <1>7 DEF Works
  <1>9. new.id = w.id /\ new.left = Tail(w.left) /\ new.found = Nothing /\ new.began = w.began
    OBVIOUS
  <1>10. new.clean = TRUE => w.clean = TRUE /\ worked = TRUE
    BY <1>4, Zenon
  <1> HIDE DEF new
  <1>11. new.clean = TRUE => Emptied(server', Passed(new.left), new.id, new.began)
    <2>1. SUFFICES ASSUME new.clean = TRUE PROVE Emptied(server', Passed(new.left), new.id, new.began)
      OBVIOUS
    <2>2. Emptied(server', Passed(w.left), w.id, w.began)
      BY <1>1, <1>4, <1>5, <1>10, <2>1, StaysEmptied
    <2>3. Emptied(server', {Head(w.left)}, w.id, w.began)
      BY <1>10, <2>1
    <2>4. QED
      BY <1>6, <1>9, <2>2, <2>3 DEF Emptied
  <1>12. work'[i] = new /\ \A j \in Invalidators : j # i => work'[j] = work[j]
    BY <1>1, <1>2
  <1>13. WorkSound(i)'
    BY <1>5, <1>9, <1>11, <1>12 DEF WorkSound
  <1>14. QED
    BY <1>1, <1>2, <1>8, <1>12, <1>13

LEMMA RedisStep ==
  ASSUME RedisInv, Redis!Next
  PROVE  RedisInv'
  <1>1. /\ linked \in BOOLEAN /\ sets \in 0..MaxSets /\ sets \in Nat
        /\ server \in [Redis!CacheKeys -> Nat \cup {Nothing}]
        /\ work \in [Invalidators -> Works \cup {Nothing}]
        /\ finished \in Ends \cup {Nothing}
        /\ Stored /\ FinishedSound
        /\ \A i \in Invalidators : WorkSound(i)
    BY DEF RedisInv
  <1>2. UNCHANGED server => \A k \in Redis!CacheKeys : server'[k] \in {server[k], Nothing, sets + 1}
    OBVIOUS
  <1>3. UNCHANGED <<sets, server>> => Stored'
    BY <1>1, Zenon DEF Stored
  <1>4. UNCHANGED sets => sets' >= sets /\ sets' \in Nat /\ sets' \in 0..MaxSets
    BY <1>1
  <1>5. ASSUME UNCHANGED <<server, sets, work, finished>>, linked' \in BOOLEAN PROVE RedisInv'
    <2>1. FinishedSound' /\ \A i \in Invalidators : WorkSound(i)'
      BY <1>2, <1>4, <1>5, OthersWork, Zenon
    <2>2. QED
      BY <1>1, <1>3, <1>4, <1>5, <2>1, Zenon DEF RedisInv
  <1>6. CASE Redis!Connect \/ Redis!Disconnect
    BY <1>5, <1>6, Zenon DEF Redis!Connect, Redis!Disconnect
  <1>7. ASSUME NEW k \in Redis!CacheKeys, Redis!Set(k) \/ Redis!Remove(k) PROVE RedisInv'
    <2>1. UNCHANGED <<linked, work, finished>>
      BY <1>7, Zenon DEF Redis!Set, Redis!Remove
    <2>2. \/ sets < MaxSets /\ sets' = sets + 1 /\ server' = [server EXCEPT ![k] = sets + 1]
          \/ sets' = sets /\ server' = [server EXCEPT ![k] = Nothing]
      BY <1>7, Zenon DEF Redis!Set, Redis!Remove
    <2>3. /\ sets' >= sets /\ sets' \in Nat /\ sets' \in 0..MaxSets
          /\ server' \in [Redis!CacheKeys -> Nat \cup {Nothing}]
          /\ \A o \in Redis!CacheKeys : server'[o] \in {server[o], Nothing, sets + 1}
      <3>1. MaxSets \in Nat
        BY ServicesAssumption, Zenon DEF ServicesAssumption, Redis!RedisAssumption
      <3>2. sets' >= sets /\ sets' \in Nat /\ sets' \in 0..MaxSets
        BY <1>1, <2>2, <3>1
      <3>3. server' = [server EXCEPT ![k] = sets + 1] \/ server' = [server EXCEPT ![k] = Nothing]
        BY <2>2
      <3>4. sets + 1 \in Nat
        BY <1>1
      <3>5. server' \in [Redis!CacheKeys -> Nat \cup {Nothing}]
        BY <1>1, <3>3, <3>4
      <3>6. \A o \in Redis!CacheKeys : server'[o] \in {server[o], Nothing, sets + 1}
        BY <1>1, <3>3
      <3>7. QED
        BY <3>2, <3>5, <3>6
    <2>4. Stored'
      BY <1>1, <2>2 DEF Stored
    <2>5. FinishedSound' /\ \A i \in Invalidators : WorkSound(i)'
      BY <2>1, <2>3, OthersWork, Zenon
    <2>6. QED
      BY <1>1, <2>1, <2>3, <2>4, <2>5, Zenon DEF RedisInv
  <1>8. ASSUME NEW i \in Invalidators, NEW id \in Ids, Redis!Begin(i, id) PROVE RedisInv'
    <2> DEFINE new == [id |-> id, left |-> Redis!Invalidated, found |-> Nothing, began |-> sets, clean |-> TRUE]
    <2>1. work' = [work EXCEPT ![i] = new] /\ UNCHANGED <<linked, server, sets, finished>>
      BY <1>8, Zenon DEF Redis!Begin
    <2>2. new \in Works
      BY <1>1, SpacesPass DEF Works
    <2>3. new.found = Nothing /\ new.began = sets /\ new.left = Redis!Invalidated
      OBVIOUS
    <2> HIDE DEF new
    <2>4. work' \in [Invalidators -> Works \cup {Nothing}] /\ work'[i] = new
      BY <1>1, <2>1, <2>2
    <2>5. \A j \in Invalidators : j # i => work'[j] = work[j]
      BY <1>1, <2>1
    <2>6. Emptied(server', Passed(new.left), new.id, new.began)
      BY <2>3, SpacesPass DEF Emptied
    <2>7. WorkSound(i)'
      BY <1>1, <2>1, <2>3, <2>4, <2>6 DEF WorkSound
    <2>8. FinishedSound' /\ \A j \in Invalidators : j # i => WorkSound(j)'
      BY <1>2, <1>4, <2>1, <2>5, OthersWork, Zenon
    <2>9. QED
      BY <1>1, <1>3, <1>4, <2>1, <2>4, <2>7, <2>8, Zenon DEF RedisInv
  <1>9. ASSUME NEW i \in Invalidators, NEW worked \in BOOLEAN, Redis!Onward(i, worked),
               work[i] # Nothing, work[i].left # <<>>, UNCHANGED <<linked, sets, finished>>,
               server' \in [Redis!CacheKeys -> Nat \cup {Nothing}],
               \A k \in Redis!CacheKeys : server'[k] \in {server[k], Nothing},
               worked /\ work[i].clean = TRUE => Emptied(server', {Head(work[i].left)}, work[i].id, work[i].began)
        PROVE  RedisInv'
    <2>1. /\ work' \in [Invalidators -> Works \cup {Nothing}]
          /\ WorkSound(i)'
          /\ \A j \in Invalidators : j # i => work'[j] = work[j]
      BY <1>9, OnwardKeeps, Zenon
    <2>2. \A k \in Redis!CacheKeys : server'[k] \in {server[k], Nothing, sets + 1}
      BY <1>9
    <2>3. FinishedSound' /\ \A j \in Invalidators : j # i => WorkSound(j)'
      BY <1>4, <1>9, <2>1, <2>2, OthersWork, Zenon
    <2>4. Stored'
      BY <1>1, <1>9 DEF Stored
    <2>5. QED
      BY <1>1, <1>4, <1>9, <2>1, <2>3, <2>4, Zenon DEF RedisInv
  <1>10. ASSUME NEW i \in Invalidators, Redis!FindKeys(i) PROVE RedisInv'
    <2> DEFINE found == Redis!Matching(Head(work[i].left), work[i].id)
    <2>1. /\ work[i] # Nothing /\ work[i].left # <<>> /\ UNCHANGED <<linked, server, sets, finished>>
          /\ \/ found = {} /\ Redis!Onward(i, TRUE)
             \/ work' = [work EXCEPT ![i].found = found]
      BY <1>10, Zenon DEF Redis!FindKeys, Redis!Working
    <2>2. work[i] \in Works
      BY <1>1, <2>1
    <2>3. /\ found \subseteq Redis!CacheKeys
          /\ \A k \in Redis!CacheKeys :
               k[1] = Head(work[i].left) /\ k[2] = work[i].id /\ server[k] # Nothing => k \in found
      BY DEF Redis!Matching
    <2> HIDE DEF found
    <2>4. CASE found = {} /\ Redis!Onward(i, TRUE)
      <3>1. Emptied(server', {Head(work[i].left)}, work[i].id, work[i].began)
        BY <2>1, <2>3, <2>4 DEF Emptied
      <3>2. QED
        BY <1>1, <1>9, <2>1, <2>4, <3>1
    <2>5. CASE work' = [work EXCEPT ![i].found = found]
      <3> DEFINE new == [work[i] EXCEPT !.found = found]
      <3>1. /\ new \in Works /\ new.found = found /\ new.left = work[i].left /\ new.began = work[i].began
            /\ new.clean = work[i].clean /\ new.id = work[i].id
        BY <2>2, <2>3 DEF Works
      <3>2. work' = [work EXCEPT ![i] = new]
        BY <2>5
      <3> HIDE DEF new
      <3>3. work' \in [Invalidators -> Works \cup {Nothing}] /\ work'[i] = new
        BY <1>1, <3>1, <3>2
      <3>4. \A j \in Invalidators : j # i => work'[j] = work[j]
        BY <1>1, <3>2
      <3>5. FinishedSound' /\ \A j \in Invalidators : j # i => WorkSound(j)'
        BY <1>2, <1>4, <2>1, <3>4, OthersWork, Zenon
      <3>6. new.began <= sets /\ (new.clean = TRUE => Emptied(server, Passed(new.left), new.id, new.began))
        BY <1>1, <2>1, <3>1 DEF WorkSound
      <3>7. new.clean = TRUE => Emptied(server', Passed(new.left), new.id, new.began)
        BY <2>1, <3>6 DEF Emptied
      <3>8. WorkSound(i)'
        BY <2>1, <2>3, <3>1, <3>3, <3>6, <3>7 DEF WorkSound
      <3>9. QED
        BY <1>1, <1>3, <1>4, <2>1, <3>3, <3>5, <3>8, Zenon DEF RedisInv
    <2>6. QED
      BY <2>1, <2>4, <2>5
  <1>11. ASSUME NEW i \in Invalidators, Redis!DeleteFound(i) PROVE RedisInv'
    <2>1. /\ work[i] # Nothing /\ work[i].found # Nothing /\ Redis!Onward(i, TRUE)
          /\ UNCHANGED <<linked, sets, finished>>
          /\ server' = [k \in Redis!CacheKeys |-> IF k \in work[i].found THEN Nothing ELSE server[k]]
      BY <1>11, Zenon DEF Redis!DeleteFound, Redis!Working
    <2>2. work[i].left # <<>>
      BY <1>1, <2>1, Zenon DEF WorkSound
    <2>3. /\ server' \in [Redis!CacheKeys -> Nat \cup {Nothing}]
          /\ \A k \in Redis!CacheKeys : server'[k] \in {server[k], Nothing}
      BY <1>1, <2>1
    <2>4. work[i].clean = TRUE => Emptied(server', {Head(work[i].left)}, work[i].id, work[i].began)
      <3>1. ASSUME work[i].clean = TRUE
            PROVE  \A k \in Redis!CacheKeys :
                     k[1] = Head(work[i].left) /\ k[2] = work[i].id /\ server[k] # Nothing
                       /\ k \notin work[i].found => server[k] > work[i].began
        BY <1>1, <2>1, <3>1, Zenon DEF WorkSound
      <3>2. QED
        BY <2>1, <3>1 DEF Emptied
    <2>5. QED
      BY <1>9, <2>1, <2>2, <2>3, <2>4
  <1>12. ASSUME NEW i \in Invalidators, Redis!SpaceFails(i) PROVE RedisInv'
    <2>1. /\ work[i] # Nothing /\ work[i].left # <<>> /\ Redis!Onward(i, FALSE)
          /\ UNCHANGED <<linked, server, sets, finished>>
      BY <1>12, Zenon DEF Redis!SpaceFails, Redis!Working
    <2>2. QED
      BY <1>1, <1>9, <2>1
  <1>13. ASSUME NEW i \in Invalidators, Redis!End(i) PROVE RedisInv'
    <2>1. /\ work[i] # Nothing /\ work[i].left = <<>>
          /\ finished' = [id |-> work[i].id, began |-> work[i].began, clean |-> work[i].clean]
          /\ work' = [work EXCEPT ![i] = Nothing]
          /\ UNCHANGED <<linked, server, sets>>
      BY <1>13, Zenon DEF Redis!End, Redis!Working
    <2>2. work[i] \in Works
      BY <1>1, <2>1
    <2>3. /\ finished' \in Ends /\ finished'.id = work[i].id /\ finished'.began = work[i].began
          /\ finished'.clean = work[i].clean
      BY <2>1, <2>2 DEF Works, Ends
    <2>4. /\ work[i].began <= sets
          /\ work[i].clean = TRUE => Emptied(server, Passed(work[i].left), work[i].id, work[i].began)
      BY <1>1, <2>1, Zenon DEF WorkSound
    <2>5. work[i].clean = TRUE => Emptied(server, Redis!Namespaces, work[i].id, work[i].began)
      BY <2>1, <2>4, SpacesPass
    <2>6. work[i].clean = TRUE => Emptied(server', Redis!Namespaces, work[i].id, work[i].began)
      BY <2>1, <2>5 DEF Emptied
    <2>7. FinishedSound'
      BY <2>1, <2>3, <2>4, <2>6 DEF FinishedSound
    <2>8. work' \in [Invalidators -> Works \cup {Nothing}] /\ work'[i] = Nothing
      BY <1>1, <2>1
    <2>9. \A j \in Invalidators : j # i => work'[j] = work[j]
      BY <1>1, <2>1
    <2>10. \A j \in Invalidators : j # i => WorkSound(j)'
      BY <1>2, <1>4, <2>1, <2>9, OthersWork, Zenon
    <2>11. WorkSound(i)'
      BY <2>8, Zenon DEF WorkSound
    <2>12. QED
      BY <1>1, <1>3, <1>4, <2>1, <2>3, <2>7, <2>8, <2>10, <2>11, Zenon DEF RedisInv
  <1>14. QED
    BY <1>6, <1>7, <1>8, <1>10, <1>11, <1>12, <1>13, Zenon DEF Redis!Next

\* The property, from the invariant.
LEMMA RedisSound == RedisInv => Redis!InvalidationHolds
  <1>1. SUFFICES ASSUME RedisInv, finished # Nothing, finished.clean,
                        NEW k \in Redis!CacheKeys, k[2] = finished.id, server[k] # Nothing
                 PROVE  server[k] > finished.began
    BY Zenon DEF Redis!InvalidationHolds
  <1>2. finished \in Ends /\ FinishedSound
    BY <1>1, Zenon DEF RedisInv
  <1>3. PICK c \in BOOLEAN : c = finished.clean
    BY <1>2 DEF Ends
  <1>4. finished.clean = TRUE
    BY <1>1, <1>3
  <1>5. k[1] \in Redis!Namespaces
    BY <1>1 DEF Redis!CacheKeys
  <1>6. QED
    BY <1>1, <1>2, <1>4, <1>5 DEF FinishedSound, Emptied

\* What the distributed cache keeps, whatever command fails and whoever stores meanwhile.
THEOREM RedisInvariant == ServicesSpec => []RedisInv
  <1>1. ServicesInit => RedisInv
    BY RedisInit, Zenon DEF ServicesInit
  <1>2. RedisInv /\ [ServicesNext]_ServicesVars => RedisInv'
    <2> SUFFICES ASSUME RedisInv, [ServicesNext]_ServicesVars PROVE RedisInv'
      OBVIOUS
    <2>1. CASE Redis!Next
      BY <2>1, RedisStep
    <2>2. CASE UNCHANGED RedisVars
      BY <2>2 DEF RedisVars, RedisInv, WorkSound, FinishedSound, Stored, Emptied
    <2>3. QED
      BY <2>1, <2>2, OneAnswerMoves, Zenon
  <1>3. QED
    BY <1>1, <1>2, PTL DEF ServicesSpec

---------------------------------------------------------------------------
(* The cache manager.                                                      *)

LEMMA CacheNumbers ==
  /\ MaxEntries \in Nat \ {0} /\ MaxMemory \in Nat \ {0}
  /\ DefaultTtl \in Nat \ {0} /\ MaxClock \in Nat /\ NoEntry \notin Cache!Entry
  BY ServicesAssumption, Zenon DEF Cache!CacheAssumption

NoRepeats(s) == \A m, n \in 1..Len(s) : s[m] = s[n] => m = n
Members(s) == {s[m] : m \in 1..Len(s)}
UsedInOrder(e, s) == \A m, n \in 1..Len(s) : m < n => e[s[m]].used <= e[s[n]].used

\* A list without some of its members.
Rest(s, S) == Selected(s, {n \in 1..Len(s) : s[n] \notin S})

LEMMA RestOf ==
  ASSUME NEW Q, NEW s \in Seq(Q), NEW S
  PROVE  /\ Rest(s, S) \in Seq(Q)
         /\ \A n \in 1..Len(Rest(s, S)) :
              \E k \in 1..Len(s) : Rest(s, S)[n] = s[k] /\ s[k] \notin S
         /\ \A k \in 1..Len(s) : s[k] \notin S => \E n \in 1..Len(Rest(s, S)) : Rest(s, S)[n] = s[k]
         /\ \A n, m \in 1..Len(Rest(s, S)) : n < m =>
              \E k, l \in 1..Len(s) : k < l /\ Rest(s, S)[n] = s[k] /\ Rest(s, S)[m] = s[l]
  <1> DEFINE K == {n \in 1..Len(s) : s[n] \notin S}
             c == Cardinality(K)
             r == Rest(s, S)
  <1>1. Len(s) \in Nat /\ \A k \in 1..Len(s) : s[k] \in Q
    OBVIOUS
  <1>2. K \subseteq Nat /\ IsFiniteSet(K)
    <2>1. IsFiniteSet(1..Len(s))
      BY <1>1, FS_Interval
    <2>2. K \in SUBSET (1..Len(s))
      OBVIOUS
    <2>3. IsFiniteSet(K)
      BY <2>1, <2>2, FS_Subset, Zenon
    <2>4. QED
      BY <1>1, <2>3
  <1>3. r = [n \in 1..c |-> s[Place(K, n)]]
    BY Zenon DEF Rest, Selected
  <1>4. \A k \in K : k \in 1..Len(s) /\ s[k] \notin S
    OBVIOUS
  <1>5. \A k \in 1..Len(s) : s[k] \notin S => k \in K
    OBVIOUS
  <1> HIDE DEF K
  <1>6. /\ c \in Nat
        /\ \A n \in 1..c : Place(K, n) \in K
        /\ \A k \in K : \E n \in 1..c : Place(K, n) = k
    BY <1>2, PlacesOnce, Zenon
  <1>7. \A n, m \in 1..c : n < m => Place(K, n) < Place(K, m)
    BY <1>2, PlacesUpwards
  <1> HIDE DEF c, r
  <1>8. r \in Seq(Q) /\ Len(r) = c
    BY <1>1, <1>3, <1>4, <1>6
  <1>9. \A n \in 1..c : r[n] = s[Place(K, n)]
    BY <1>3
  <1>10. \A n \in 1..Len(r) : \E k \in 1..Len(s) : r[n] = s[k] /\ s[k] \notin S
    BY <1>4, <1>6, <1>8, <1>9
  <1>11. \A k \in 1..Len(s) : s[k] \notin S => \E n \in 1..Len(r) : r[n] = s[k]
    BY <1>5, <1>6, <1>8, <1>9
  <1>12. \A n, m \in 1..Len(r) : n < m => \E k, l \in 1..Len(s) : k < l /\ r[n] = s[k] /\ r[m] = s[l]
    <2> SUFFICES ASSUME NEW n \in 1..Len(r), NEW m \in 1..Len(r), n < m
                 PROVE  \E k, l \in 1..Len(s) : k < l /\ r[n] = s[k] /\ r[m] = s[l]
      OBVIOUS
    <2>1. n \in 1..c /\ m \in 1..c
      BY <1>8, Zenon
    <2>2. Place(K, n) \in 1..Len(s) /\ Place(K, m) \in 1..Len(s)
      BY <1>4, <1>6, <2>1, Zenon
    <2>3. Place(K, n) < Place(K, m) /\ r[n] = s[Place(K, n)] /\ r[m] = s[Place(K, m)]
      BY <1>7, <1>9, <2>1, Zenon
    <2>4. QED
      BY <2>2, <2>3, Zenon
  <1>13. QED
    BY <1>8, <1>10, <1>11, <1>12, Zenon DEF r

\* The list of the cache is one such.
LEMMA UnlistedIsRest ==
  ASSUME order \in Seq(Items), NEW S
  PROVE  Cache!Unlisted(S) = Rest(order, S)
  <1>1. \A T, n : Cache!Place(T, n) = Place(T, n)
    BY Zenon DEF Cache!Place, Place, Cache!Cardinality, Cardinality
  <1>2. \A T : Cache!Cardinality(T) = Cardinality(T)
    BY Zenon DEF Cache!Cardinality, Cardinality
  <1>3. \A T : Cache!Selected(order, T) = Selected(order, T)
    BY <1>1, <1>2, Zenon DEF Cache!Selected, Selected
  <1>4. DOMAIN order = 1..Len(order)
    OBVIOUS
  <1>5. QED
    BY <1>3, <1>4, Zenon DEF Cache!Unlisted, Rest

\* What is kept of a list without repetitions.
LEMMA RestKeeps ==
  ASSUME NEW s \in Seq(Items), NEW S, NoRepeats(s)
  PROVE  /\ Rest(s, S) \in Seq(Items)
         /\ NoRepeats(Rest(s, S))
         /\ Members(Rest(s, S)) = Members(s) \ S
  <1> DEFINE r == Rest(s, S)
  <1>1. /\ r \in Seq(Items)
        /\ \A n \in 1..Len(r) : \E k \in 1..Len(s) : r[n] = s[k] /\ s[k] \notin S
        /\ \A k \in 1..Len(s) : s[k] \notin S => \E n \in 1..Len(r) : r[n] = s[k]
        /\ \A n, m \in 1..Len(r) : n < m => \E k, l \in 1..Len(s) : k < l /\ r[n] = s[k] /\ r[m] = s[l]
    BY RestOf
  <1> HIDE DEF r
  <1>2. NoRepeats(r)
    <2>1. SUFFICES ASSUME NEW m \in 1..Len(r), NEW n \in 1..Len(r), r[m] = r[n], m # n PROVE FALSE
      BY DEF NoRepeats
    <2>2. \A a, b \in 1..Len(r) : a < b => r[a] # r[b]
      <3>1. SUFFICES ASSUME NEW a \in 1..Len(r), NEW b \in 1..Len(r), a < b PROVE r[a] # r[b]
        OBVIOUS
      <3>2. PICK k, l \in 1..Len(s) : k < l /\ r[a] = s[k] /\ r[b] = s[l]
        BY <1>1, <3>1
      <3>3. k # l /\ Len(s) \in Nat
        BY <3>2
      <3>4. QED
        BY <3>2, <3>3 DEF NoRepeats
    <2>3. Len(r) \in Nat
      BY <1>1
    <2>4. m < n \/ n < m
      BY <2>1, <2>3
    <2>5. QED
      BY <2>1, <2>2, <2>4
  <1>3. Members(r) = Members(s) \ S
    <2>1. ASSUME NEW x \in Members(r) PROVE x \in Members(s) \ S
      <3>1. PICK n \in 1..Len(r) : x = r[n]
        BY <2>1, Zenon DEF Members
      <3>2. PICK k \in 1..Len(s) : r[n] = s[k] /\ s[k] \notin S
        BY <1>1, Zenon
      <3>3. QED
        BY <3>1, <3>2, Zenon DEF Members
    <2>2. ASSUME NEW x \in Members(s) \ S PROVE x \in Members(r)
      <3>1. PICK k \in 1..Len(s) : x = s[k]
        BY <2>2, Zenon DEF Members
      <3>2. PICK n \in 1..Len(r) : r[n] = s[k]
        BY <1>1, <2>2, <3>1, Zenon
      <3>3. QED
        BY <3>1, <3>2, Zenon DEF Members
    <2>3. QED
      BY <2>1, <2>2, Zenon
  <1>4. QED
    BY <1>1, <1>2, <1>3, Zenon DEF r

\* An item put at the end of what is kept.
LEMMA PutLast ==
  ASSUME NEW s \in Seq(Items), NEW i \in Items, NoRepeats(s), i \notin Members(s)
  PROVE  /\ Append(s, i) \in Seq(Items)
         /\ NoRepeats(Append(s, i))
         /\ Members(Append(s, i)) = Members(s) \cup {i}
  <1> DEFINE a == Append(s, i)
  <1>1. /\ a \in Seq(Items) /\ Len(a) = Len(s) + 1 /\ a[Len(s) + 1] = i /\ Len(s) \in Nat
        /\ \A n \in 1..Len(s) : a[n] = s[n]
    OBVIOUS
  <1>2. \A n \in 1..Len(s) : s[n] # i
    BY Zenon DEF Members
  <1> HIDE DEF a
  <1>3. \A n \in 1..Len(a) : n \in 1..Len(s) \/ n = Len(s) + 1
    BY <1>1
  <1>4. NoRepeats(a)
    <2>1. SUFFICES ASSUME NEW m \in 1..Len(a), NEW n \in 1..Len(a), a[m] = a[n] PROVE m = n
      BY DEF NoRepeats
    <2>2. CASE m \in 1..Len(s) /\ n \in 1..Len(s)
      BY <1>1, <2>1, <2>2 DEF NoRepeats
    <2>3. CASE m = Len(s) + 1 /\ n = Len(s) + 1
      BY <2>3
    <2>4. CASE m = Len(s) + 1 /\ n \in 1..Len(s)
      BY <1>1, <1>2, <2>1, <2>4
    <2>5. CASE n = Len(s) + 1 /\ m \in 1..Len(s)
      BY <1>1, <1>2, <2>1, <2>5
    <2>6. QED
      BY <1>3, <2>2, <2>3, <2>4, <2>5
  <1>5. Members(a) = Members(s) \cup {i}
    <2>1. \A n \in 1..Len(s) : n \in 1..Len(a)
      BY <1>1
    <2>2. Len(s) + 1 \in 1..Len(a)
      BY <1>1
    <2>3. ASSUME NEW x \in Members(a) PROVE x \in Members(s) \cup {i}
      BY <1>1, <1>3, <2>3 DEF Members
    <2>4. ASSUME NEW x \in Members(s) \cup {i} PROVE x \in Members(a)
      <3>1. CASE x = i
        BY <1>1, <2>2, <3>1 DEF Members
      <3>2. CASE x \in Members(s)
        BY <1>1, <2>1, <3>2 DEF Members
      <3>3. QED
        BY <2>4, <3>1, <3>2
    <2>5. QED
      BY <2>3, <2>4
  <1>6. QED
    BY <1>1, <1>4, <1>5, Zenon DEF a

\* The units of memory that some entries take.
Units(e, S) == {u \in S \X (1..MaxMemory) : u[2] <= e[u[1]].size}

CachedIn(e) == {i \in Items : e[i] # NoEntry}

\* The list and the entries agree.
Agree(e, s) ==
  /\ s \in Seq(Items) /\ NoRepeats(s)
  /\ Members(s) = CachedIn(e)
  /\ UsedInOrder(e, s)

\* The entries are within the limits.
Within(e) ==
  /\ Cardinality(CachedIn(e)) <= MaxEntries
  /\ Cardinality(Units(e, CachedIn(e))) <= MaxMemory

CacheInv ==
  /\ clock \in 0..MaxClock
  /\ entries \in [Items -> Cache!Entry \cup {NoEntry}]
  /\ \A i \in CachedIn(entries) : entries[i].used <= clock
  /\ Agree(entries, order)
  /\ Within(entries)

\* A list without repetitions is as long as it has members, which are finitely many.
LEMMA MembersCounted ==
  ASSUME NEW s \in Seq(Items), NoRepeats(s)
  PROVE  IsFiniteSet(Members(s)) /\ Cardinality(Members(s)) = Len(s)
  <1> DEFINE f == [n \in 1..Len(s) |-> s[n]]
  <1>1. Len(s) \in Nat
    OBVIOUS
  <1>2. IsFiniteSet(1..Len(s)) /\ Cardinality(1..Len(s)) = Len(s)
    <2>1. 1 \in Int /\ Len(s) \in Int
      BY <1>1
    <2>2. IsFiniteSet(1..Len(s)) /\ Cardinality(1..Len(s)) = IF 1 > Len(s) THEN 0 ELSE Len(s) - 1 + 1
      BY <2>1, FS_Interval, Zenon
    <2>3. QED
      BY <1>1, <2>2
  <1>3. f \in Bijection(1..Len(s), Members(s))
    <2>1. f \in [1..Len(s) -> Members(s)]
      BY Zenon DEF Members
    <2>2. \A m, n \in 1..Len(s) : f[m] = f[n] => m = n
      BY Zenon DEF NoRepeats
    <2>3. \A x \in Members(s) : \E n \in 1..Len(s) : f[n] = x
      BY Zenon DEF Members
    <2> HIDE DEF f
    <2>4. QED
      BY <2>1, <2>2, <2>3, Zenon DEF Bijection, Injection, Surjection, IsInjective
  <1>4. ExistsBijection(1..Len(s), Members(s))
    BY <1>3, Zenon DEF ExistsBijection
  <1>5. QED
    BY <1>2, <1>4, FS_Bijection, Zenon

\* More entries take more memory.
LEMMA UnitsGrow ==
  ASSUME NEW e, NEW T, IsFiniteSet(T), NEW S \in SUBSET T
  PROVE  /\ IsFiniteSet(Units(e, T)) /\ IsFiniteSet(Units(e, S))
         /\ Cardinality(Units(e, S)) <= Cardinality(Units(e, T))
         /\ IsFiniteSet(S) /\ Cardinality(S) <= Cardinality(T)
         /\ Cardinality(Units(e, S)) \in Nat /\ Cardinality(Units(e, T)) \in Nat
         /\ Cardinality(S) \in Nat /\ Cardinality(T) \in Nat
  <1>1. MaxMemory \in Nat
    BY CacheNumbers
  <1>2. IsFiniteSet(1..MaxMemory)
    BY <1>1, FS_Interval
  <1>3. IsFiniteSet(T \X (1..MaxMemory))
    BY <1>2, FS_Product, Zenon
  <1>4. Units(e, T) \in SUBSET (T \X (1..MaxMemory))
    BY DEF Units
  <1>5. IsFiniteSet(Units(e, T))
    BY <1>3, <1>4, FS_Subset, Zenon
  <1>6. Units(e, S) \in SUBSET Units(e, T)
    BY DEF Units
  <1>7. IsFiniteSet(Units(e, S)) /\ Cardinality(Units(e, S)) <= Cardinality(Units(e, T))
    BY <1>5, <1>6, FS_Subset, Zenon
  <1>8. IsFiniteSet(S) /\ Cardinality(S) <= Cardinality(T)
    BY FS_Subset, Zenon
  <1>9. QED
    BY <1>5, <1>7, <1>8, FS_CardinalityType, Zenon

\* The same sizes take the same memory.
LEMMA UnitsSame ==
  ASSUME NEW e, NEW g, NEW S, \A i \in S : g[i].size = e[i].size
  PROVE  Units(g, S) = Units(e, S)
  <1>1. ASSUME NEW u \in S \X (1..MaxMemory) PROVE g[u[1]].size = e[u[1]].size
    BY <1>1
  <1>2. QED
    BY <1>1, Zenon DEF Units

\* One entry more takes its size.
LEMMA UnitsMore ==
  ASSUME NEW e, NEW S, IsFiniteSet(S), NEW i, i \notin S, e[i].size \in 1..MaxMemory
  PROVE  Cardinality(Units(e, S \cup {i})) = Cardinality(Units(e, S)) + e[i].size
  <1> DEFINE z == e[i].size
             one == {i} \X (1..z)
  <1>1. MaxMemory \in Nat
    BY CacheNumbers
  <1>2. Units(e, S \cup {i}) = Units(e, S) \cup one
    <2>1. ASSUME NEW u \in Units(e, S \cup {i}) PROVE u \in Units(e, S) \cup one
      <3>1. u \in (S \cup {i}) \X (1..MaxMemory) /\ u[2] <= e[u[1]].size
        BY <2>1 DEF Units
      <3>2. PICK x \in S \cup {i}, y \in 1..MaxMemory : u = <<x, y>>
        BY <3>1
      <3>3. CASE x \in S
        BY <3>1, <3>2, <3>3 DEF Units
      <3>4. CASE x = i
        <4>1. y <= z
          BY <3>1, <3>2, <3>4
        <4>2. y \in 1..z
          BY <1>1, <4>1
        <4>3. QED
          BY <3>2, <3>4, <4>2
      <3>5. QED
        BY <3>3, <3>4
    <2>2. ASSUME NEW u \in one PROVE u \in Units(e, S \cup {i})
      <3>1. PICK y \in 1..z : u = <<i, y>>
        BY <2>2
      <3>2. y \in 1..MaxMemory /\ y <= z
        BY <1>1, <3>1
      <3>3. QED
        BY <3>1, <3>2 DEF Units
    <2>3. Units(e, S) \subseteq Units(e, S \cup {i})
      BY DEF Units
    <2>4. QED
      BY <2>1, <2>2, <2>3, Zenon
  <1>3. Units(e, S) \cap one = {}
    BY DEF Units
  <1>4. IsFiniteSet(Units(e, S)) /\ Cardinality(Units(e, S)) \in Nat
    BY UnitsGrow
  <1>5. IsFiniteSet(one) /\ Cardinality(one) = z
    <2>1. 1 \in Int /\ z \in Int /\ z >= 1
      BY <1>1
    <2>2. IsFiniteSet(1..z) /\ Cardinality(1..z) = IF 1 > z THEN 0 ELSE z - 1 + 1
      BY <2>1, FS_Interval, Zenon
    <2>3. Cardinality(1..z) = z
      BY <2>1, <2>2
    <2>4. IsFiniteSet({i}) /\ Cardinality({i}) = 1
      BY FS_Singleton, Zenon
    <2>5. IsFiniteSet(one) /\ Cardinality(one) = Cardinality({i}) * Cardinality(1..z)
      BY <2>2, <2>4, FS_Product, Zenon
    <2>6. QED
      BY <2>1, <2>3, <2>4, <2>5
  <1> HIDE DEF one
  <1>6. Cardinality(Units(e, S) \cup one)
          = Cardinality(Units(e, S)) + Cardinality(one) - Cardinality(Units(e, S) \cap one)
    BY <1>4, <1>5, FS_Union, Zenon
  <1>7. Cardinality({}) = 0
    BY FS_EmptySet, Zenon
  <1>8. z \in Nat
    BY <1>1
  <1> HIDE DEF z
  <1>9. Cardinality(Units(e, S \cup {i})) = Cardinality(Units(e, S)) + z
    <2>1. Cardinality(Units(e, S \cup {i})) = Cardinality(Units(e, S)) + z - 0
      BY <1>2, <1>3, <1>5, <1>6, <1>7, Zenon
    <2>2. QED
      BY <1>4, <1>8, <2>1
  <1>10. QED
    BY <1>9, Zenon DEF z

\* The operators of the module in these words.
LEMMA CacheWords ==
  /\ Cache!Cached = CachedIn(entries)
  /\ \A S : Cache!SizeOf(S) = Cardinality(Units(entries, S))
  <1>1. \A S : Cache!Cardinality(S) = Cardinality(S)
    BY Zenon DEF Cache!Cardinality, Cardinality
  <1>2. \A S : Cache!SizeOf(S) = Cardinality(Units(entries, S))
    BY <1>1, Zenon DEF Cache!SizeOf, Units
  <1>3. QED
    BY <1>2, Zenon DEF Cache!Cached, CachedIn

LEMMA CacheInit == Cache!Init => CacheInv
  <1> SUFFICES ASSUME Cache!Init PROVE CacheInv
    OBVIOUS
  <1>1. MaxClock \in Nat /\ MaxEntries \in Nat /\ MaxMemory \in Nat
    BY CacheNumbers
  <1>2. clock = 0 /\ entries = [i \in Items |-> NoEntry] /\ order = <<>>
    BY Zenon DEF Cache!Init
  <1>3. CachedIn(entries) = {}
    BY <1>2 DEF CachedIn
  <1>4. Cardinality({}) = 0
    BY FS_EmptySet, Zenon
  <1>5. Units(entries, {}) = {}
    BY DEF Units
  <1>6. Within(entries)
    BY <1>1, <1>3, <1>4, <1>5 DEF Within
  <1>7. order \in Seq(Items) /\ Len(order) = 0
    BY <1>2
  <1>8. Agree(entries, order)
    BY <1>3, <1>7 DEF Agree, NoRepeats, Members, UsedInOrder
  <1>9. entries \in [Items -> Cache!Entry \cup {NoEntry}] /\ clock \in 0..MaxClock
    BY <1>1, <1>2
  <1>10. QED
    BY <1>3, <1>6, <1>8, <1>9, Zenon DEF CacheInv

\* What a cached entry is.
LEMMA CachedEntry ==
  ASSUME CacheInv, NEW i \in CachedIn(entries)
  PROVE  /\ i \in Items /\ entries[i] \in Cache!Entry
         /\ entries[i].used \in Nat /\ entries[i].size \in 1..MaxMemory
         /\ entries[i].used <= clock
  <1>1. i \in Items /\ entries[i] # NoEntry
    BY Zenon DEF CachedIn
  <1>2. entries \in [Items -> Cache!Entry \cup {NoEntry}]
    BY Zenon DEF CacheInv
  <1>3. entries[i] \in Cache!Entry
    BY <1>1, <1>2
  <1>4. MaxClock \in Nat
    BY CacheNumbers
  <1>5. entries[i].used \in 0..MaxClock /\ entries[i].size \in 1..MaxMemory
    BY <1>3 DEF Cache!Entry
  <1>6. entries[i].used \in Nat
    BY <1>4, <1>5
  <1>7. entries[i].used <= clock
    BY Zenon DEF CacheInv
  <1>8. QED
    BY <1>1, <1>3, <1>5, <1>6, <1>7

\* What is kept of the list is in the order of use still, when its entries are unchanged.
LEMMA RestInOrder ==
  ASSUME NEW s \in Seq(Items), NEW S, NEW e, NEW g, UsedInOrder(e, s),
         \A j \in Members(s) : j \notin S => g[j] = e[j]
  PROVE  UsedInOrder(g, Rest(s, S))
  <1> DEFINE r == Rest(s, S)
  <1>1. /\ \A n, m \in 1..Len(r) : n < m => \E k, l \in 1..Len(s) : k < l /\ r[n] = s[k] /\ r[m] = s[l]
        /\ \A n \in 1..Len(r) : \E k \in 1..Len(s) : r[n] = s[k] /\ s[k] \notin S
    BY RestOf
  <1> HIDE DEF r
  <1>2. \A n \in 1..Len(r) : g[r[n]] = e[r[n]]
    <2>1. ASSUME NEW n \in 1..Len(r) PROVE r[n] \in Members(s) /\ r[n] \notin S
      BY <1>1, Zenon DEF Members
    <2>2. QED
      BY <2>1, Zenon
  <1>3. ASSUME NEW m \in 1..Len(r), NEW n \in 1..Len(r), m < n
        PROVE  g[r[m]].used <= g[r[n]].used
    <2>1. PICK k, l \in 1..Len(s) : k < l /\ r[m] = s[k] /\ r[n] = s[l]
      BY <1>1, <1>3
    <2>2. e[s[k]].used <= e[s[l]].used
      BY <2>1, Zenon DEF UsedInOrder
    <2>3. e[r[m]].used <= e[r[n]].used
      BY <2>1, <2>2
    <2>4. QED
      BY <1>2, <2>3
  <1>4. UsedInOrder(g, r)
    BY <1>3, Zenon DEF UsedInOrder
  <1>5. QED
    BY <1>4, Zenon DEF r

\* Some entries are removed.
LEMMA CacheWithout ==
  ASSUME CacheInv, NEW S, Cache!Without(S), clock' = clock
  PROVE  CacheInv'
  <1> DEFINE C == CachedIn(entries)
             D == CachedIn(entries')
             r == Rest(order, S)
  <1>1. /\ clock \in 0..MaxClock /\ entries \in [Items -> Cache!Entry \cup {NoEntry}]
        /\ order \in Seq(Items) /\ NoRepeats(order) /\ Members(order) = C /\ UsedInOrder(entries, order)
        /\ Cardinality(C) <= MaxEntries /\ Cardinality(Units(entries, C)) <= MaxMemory
    BY Zenon DEF CacheInv, Agree, Within
  <1>2. entries' = [i \in Items |-> IF i \in S THEN NoEntry ELSE entries[i]]
    BY Zenon DEF Cache!Without
  <1>3. order' = r
    BY <1>1, UnlistedIsRest, Zenon DEF Cache!Without
  <1>4. D = C \ S
    BY <1>2 DEF CachedIn
  <1>5. \A i \in D : entries'[i] = entries[i]
    BY <1>2, <1>4 DEF CachedIn
  <1>6. entries' \in [Items -> Cache!Entry \cup {NoEntry}]
    BY <1>1, <1>2
  <1>7. r \in Seq(Items) /\ NoRepeats(r) /\ Members(r) = C \ S
    BY <1>1, RestKeeps, Zenon
  <1>8. UsedInOrder(entries', r)
    <2>1. \A j \in Members(order) : j \notin S => entries'[j] = entries[j]
      BY <1>1, <1>4, <1>5
    <2>2. QED
      BY <1>1, <2>1, RestInOrder
  <1>9. Agree(entries', order')
    BY <1>3, <1>4, <1>7, <1>8, Zenon DEF Agree
  <1>10. IsFiniteSet(C) /\ C \ S \in SUBSET C
    <2>1. IsFiniteSet(C)
      BY <1>1, MembersCounted, Zenon
    <2>2. QED
      BY <2>1
  <1>11. Within(entries')
    <2>1. /\ Cardinality(Units(entries, C \ S)) <= Cardinality(Units(entries, C))
          /\ Cardinality(C \ S) <= Cardinality(C)
          /\ Cardinality(Units(entries, C \ S)) \in Nat /\ Cardinality(Units(entries, C)) \in Nat
          /\ Cardinality(C \ S) \in Nat /\ Cardinality(C) \in Nat
      BY <1>10, UnitsGrow, Zenon
    <2>2. Units(entries', D) = Units(entries, D)
      <3>1. \A i \in D : entries'[i].size = entries[i].size
        BY <1>5, Zenon
      <3>2. QED
        BY <3>1, UnitsSame, Zenon
    <2>3. MaxEntries \in Nat /\ MaxMemory \in Nat
      BY CacheNumbers
    <2> HIDE DEF C, D
    <2>4. Cardinality(C \ S) <= MaxEntries /\ Cardinality(Units(entries, C \ S)) <= MaxMemory
      BY <1>1, <2>1, <2>3
    <2>5. Cardinality(D) <= MaxEntries /\ Cardinality(Units(entries', D)) <= MaxMemory
      BY <1>4, <2>2, <2>4, Zenon
    <2>6. QED
      BY <2>5, Zenon DEF Within, D
  <1>12. \A i \in D : entries'[i].used <= clock'
    <2>1. \A i \in C : entries[i].used <= clock
      BY Zenon DEF CacheInv
    <2>2. QED
      BY <1>4, <1>5, <2>1
  <1>13. clock' \in 0..MaxClock
    BY <1>1
  <1>14. QED
    BY <1>6, <1>9, <1>11, <1>12, <1>13, Zenon DEF CacheInv

\* An entry is used or stored: some are removed and it comes last.
LEMMA CachePut ==
  ASSUME CacheInv, NEW i \in Items, NEW S, i \in S,
         order' = Append(Rest(order, S), i), clock' = clock,
         entries' \in [Items -> Cache!Entry \cup {NoEntry}],
         entries'[i] # NoEntry, entries'[i].used = clock,
         \A j \in Items : j \notin S => entries'[j] = entries[j],
         \A j \in Items : j \in S /\ j # i => entries'[j] = NoEntry
  PROVE  /\ Agree(entries', order')
         /\ CachedIn(entries') = (CachedIn(entries) \ S) \cup {i}
         /\ \A j \in CachedIn(entries') : entries'[j].used <= clock'
         /\ \A j \in CachedIn(entries) \ S : entries'[j] = entries[j]
  <1> DEFINE C == CachedIn(entries)
             D == CachedIn(entries')
             r == Rest(order, S)
             a == Append(r, i)
  <1>1. /\ clock \in 0..MaxClock /\ order \in Seq(Items) /\ NoRepeats(order)
        /\ Members(order) = C /\ UsedInOrder(entries, order)
        /\ \A j \in C : entries[j].used <= clock
    BY Zenon DEF CacheInv, Agree
  <1>2. D = (C \ S) \cup {i}
    BY DEF CachedIn
  <1>3. \A j \in C \ S : entries'[j] = entries[j]
    BY Zenon DEF CachedIn
  <1>4. r \in Seq(Items) /\ NoRepeats(r) /\ Members(r) = C \ S
    BY <1>1, RestKeeps, Zenon
  <1>5. i \notin Members(r)
    BY <1>4
  <1>6. a \in Seq(Items) /\ NoRepeats(a) /\ Members(a) = Members(r) \cup {i}
    BY <1>4, <1>5, PutLast
  <1>7. UsedInOrder(entries', r)
    <2>1. \A j \in Members(order) : j \notin S => entries'[j] = entries[j]
      BY <1>1, <1>3
    <2>2. QED
      BY <1>1, <2>1, RestInOrder
  <1>8. /\ Len(a) = Len(r) + 1 /\ a[Len(r) + 1] = i /\ Len(r) \in Nat
        /\ \A n \in 1..Len(r) : a[n] = r[n]
    BY <1>4
  <1>9. \A n \in 1..Len(r) : entries'[r[n]].used <= clock
    <2>1. ASSUME NEW n \in 1..Len(r) PROVE r[n] \in C \ S
      BY <1>4, Zenon DEF Members
    <2>2. QED
      BY <1>1, <1>3, <2>1
  <1>10. order' = a
    OBVIOUS
  <1>11. \A j \in D : entries'[j].used <= clock'
    <2>1. ASSUME NEW j \in D PROVE entries'[j].used <= clock'
      <3>1. CASE j = i
        <4>1. clock \in Nat
          BY <1>1, CacheNumbers
        <4>2. entries'[j].used = clock /\ clock' = clock
          BY <3>1
        <4>3. QED
          BY <4>1, <4>2
      <3>2. CASE j \in C \ S
        BY <1>1, <1>3, <3>2
      <3>3. QED
        BY <1>2, <2>1, <3>1, <3>2
    <2>2. QED
      BY <2>1, Zenon
  <1> HIDE DEF C, D, r, a
  <1>12. UsedInOrder(entries', a)
    <2>1. SUFFICES ASSUME NEW m \in 1..Len(a), NEW n \in 1..Len(a), m < n
                   PROVE  entries'[a[m]].used <= entries'[a[n]].used
      BY DEF UsedInOrder
    <2>2. m \in 1..Len(r) /\ a[m] = r[m]
      BY <1>8, <2>1
    <2>3. CASE n \in 1..Len(r)
      <3>1. a[n] = r[n]
        BY <1>8, <2>3
      <3>2. entries'[r[m]].used <= entries'[r[n]].used
        BY <1>7, <2>1, <2>2, <2>3, Zenon DEF UsedInOrder
      <3>3. QED
        BY <2>2, <3>1, <3>2
    <2>4. CASE n = Len(r) + 1
      <3>1. a[n] = i
        BY <1>8, <2>4
      <3>2. entries'[r[m]].used <= clock
        BY <1>9, <2>2
      <3>3. QED
        BY <2>2, <3>1, <3>2
    <2>5. QED
      BY <1>8, <2>1, <2>3, <2>4, SMTT(60)
  <1>13. Members(a) = D
    BY <1>2, <1>4, <1>6
  <1>14. Agree(entries', order')
    BY <1>6, <1>10, <1>12, <1>13, Zenon DEF Agree, D
  <1>15. QED
    BY <1>2, <1>3, <1>11, <1>14, Zenon DEF C, D

LEMMA CacheHit ==
  ASSUME CacheInv, NEW i \in Items, Cache!Hit(i)
  PROVE  CacheInv'
  <1> DEFINE C == CachedIn(entries)
             D == CachedIn(entries')
  <1>1. /\ clock \in 0..MaxClock /\ entries \in [Items -> Cache!Entry \cup {NoEntry}]
        /\ order \in Seq(Items)
        /\ Cardinality(C) <= MaxEntries /\ Cardinality(Units(entries, C)) <= MaxMemory
    BY Zenon DEF CacheInv, Agree, Within
  <1>2. /\ i \in C /\ clock' = clock
        /\ entries' = [entries EXCEPT ![i].used = clock]
        /\ order' = Append(Cache!Unlisted({i}), i)
    BY CacheWords, Zenon DEF Cache!Hit
  <1>3. order' = Append(Rest(order, {i}), i)
    BY <1>1, <1>2, UnlistedIsRest, Zenon
  <1>4. entries[i] \in Cache!Entry
    BY <1>2, CachedEntry
  <1>5. entries' = [entries EXCEPT ![i] = [entries[i] EXCEPT !.used = clock]]
    BY <1>2
  <1>6. [entries[i] EXCEPT !.used = clock] \in Cache!Entry
    <2> DEFINE c == 0..MaxClock
               z == 1..MaxMemory
               e == entries[i]
    <2>1. e \in [created : c, used : c, ttl : Nat, size : z] /\ clock \in c
      BY <1>1, <1>4, Zenon DEF Cache!Entry
    <2> HIDE DEF c, z, e
    <2>2. [e EXCEPT !.used = clock] \in [created : c, used : c, ttl : Nat, size : z]
      BY <2>1
    <2>3. QED
      BY <2>2, Zenon DEF Cache!Entry, c, z, e
  <1>7. /\ entries'[i] = [entries[i] EXCEPT !.used = clock]
        /\ \A j \in Items : j # i => entries'[j] = entries[j]
        /\ entries' \in [Items -> Cache!Entry \cup {NoEntry}]
    BY <1>1, <1>5, <1>6
  <1>8. entries'[i].used = clock /\ entries'[i].size = entries[i].size
    BY <1>4, <1>7 DEF Cache!Entry
  <1>9. entries'[i] # NoEntry
    BY <1>6, <1>7, CacheNumbers
  <1>10. /\ Agree(entries', order') /\ D = (C \ {i}) \cup {i}
         /\ \A j \in D : entries'[j].used <= clock'
    <2>1. /\ \A j \in Items : j \notin {i} => entries'[j] = entries[j]
          /\ \A j \in Items : j \in {i} /\ j # i => entries'[j] = NoEntry
          /\ i \in {i}
      BY <1>7
    <2>2. QED
      BY <1>2, <1>3, <1>7, <1>8, <1>9, <2>1, CachePut, Zenon
  <1>11. D = C
    BY <1>2, <1>10
  <1>12. \A j \in C : entries'[j].size = entries[j].size
    <2>1. \A j \in C : j \in Items
      BY DEF CachedIn
    <2>2. QED
      BY <1>7, <1>8, <2>1
  <1>13. Units(entries', C) = Units(entries, C)
    BY <1>12, UnitsSame, Zenon
  <1>14. Within(entries')
    BY <1>1, <1>11, <1>13, Zenon DEF Within
  <1>15. QED
    BY <1>1, <1>2, <1>7, <1>10, <1>14, Zenon DEF CacheInv

\* The oldest of the others go one by one, and when all have gone there is room.
LEMMA RoomIsMade ==
  ASSUME CacheInv, NEW i \in Items, NEW z \in 1..MaxMemory
  PROVE  \E n \in 0..Len(Rest(order, {i})) :
           /\ Cache!Evicted(i, z) = Cache!Out(i, n)
           /\ Cache!Fits(i, n, z)
           /\ i \notin Cache!Evicted(i, z)
  <1> DEFINE r == Rest(order, {i})
             N == {n \in 0..Len(r) : Cache!Fits(i, n, z)}
             C == CachedIn(entries)
  <1>1. order \in Seq(Items) /\ NoRepeats(order) /\ Members(order) = C
    BY Zenon DEF CacheInv, Agree
  <1>2. Cache!Others(i) = r
    BY <1>1, UnlistedIsRest, Zenon DEF Cache!Others
  <1>3. r \in Seq(Items) /\ Members(r) = C \ {i} /\ Len(r) \in Nat
    <2>1. r \in Seq(Items) /\ Members(r) = C \ {i}
      BY <1>1, RestKeeps, Zenon
    <2>2. QED
      BY <2>1
  <1>4. \A n : Cache!Out(i, n) = {r[m] : m \in 1..n}
    BY <1>2, Zenon DEF Cache!Out
  <1>5. Cache!Left(i, Len(r)) = {}
    <2>1. Cache!Out(i, Len(r)) = C \ {i}
      BY <1>3, <1>4, Zenon DEF Members
    <2>2. Cache!Left(i, Len(r)) = C \ ({i} \cup (C \ {i}))
      BY <2>1, CacheWords, Zenon DEF Cache!Left
    <2>3. QED
      BY <2>2
  <1>6. Cache!Fits(i, Len(r), z)
    <2>1. Cardinality({}) = 0
      BY FS_EmptySet, Zenon
    <2>2. Units(entries, {}) = {}
      BY DEF Units
    <2>3. Cache!SizeOf({}) = 0 /\ Cache!Cardinality({}) = 0
      <3>1. Cache!Cardinality({}) = Cardinality({})
        BY Zenon DEF Cache!Cardinality, Cardinality
      <3>2. QED
        BY <2>1, <2>2, <3>1, CacheWords, Zenon
    <2>4. 0 < MaxEntries /\ 0 + z <= MaxMemory
      BY CacheNumbers
    <2>5. QED
      BY <1>5, <2>3, <2>4, Zenon DEF Cache!Fits
  <1>7. N \in SUBSET Nat /\ N # {} /\ \A n \in N : n \in 0..Len(r) /\ Cache!Fits(i, n, z)
    <2>1. Len(r) \in N
      <3>1. Len(r) \in 0..Len(r)
        BY <1>3
      <3>2. QED
        BY <1>6, <3>1, Zenon
    <2>2. \A n \in N : n \in 0..Len(r) /\ Cache!Fits(i, n, z)
      BY Zenon
    <2> HIDE DEF N
    <2>3. N \in SUBSET Nat
      BY <1>3, <2>2
    <2>4. QED
      BY <2>1, <2>2, <2>3, Zenon
  <1>8. \A n \in 0..Len(r) : n \notin N => ~Cache!Fits(i, n, z)
    OBVIOUS
  <1> HIDE DEF N
  <1>9. PICK k \in N : \A n \in N : k <= n
    BY <1>7, LeastNatural, Zenon
  <1> DEFINE P(n) == Cache!Fits(i, n, z) /\ \A m \in 0..(n - 1) : ~Cache!Fits(i, m, z)
             b == CHOOSE n \in 0..Len(r) : P(n)
  <1>10. k \in 0..Len(r) /\ P(k)
    <2>1. k \in 0..Len(r) /\ Cache!Fits(i, k, z)
      BY <1>7
    <2>2. ASSUME NEW m \in 0..(k - 1) PROVE ~Cache!Fits(i, m, z)
      <3>1. m \in 0..Len(r) /\ ~(k <= m)
        BY <1>3, <2>1
      <3>2. m \notin N
        BY <1>9, <3>1, Zenon
      <3>3. QED
        BY <1>8, <3>1, <3>2, Zenon
    <2>3. QED
      BY <2>1, <2>2, Zenon
  <1>11. b \in 0..Len(r) /\ P(b)
    BY <1>10, Zenon
  <1>12. Cache!Evicted(i, z) = Cache!Out(i, b)
    BY <1>2, Zenon DEF Cache!Evicted
  <1>13. Cache!Fits(i, b, z)
    BY <1>11, Zenon
  <1> HIDE DEF P, b
  <1>14. i \notin Cache!Out(i, b)
    <2>1. ASSUME NEW m \in 1..b PROVE r[m] # i
      <3>1. b \in 0..Len(r)
        BY <1>11, Zenon
      <3>2. m \in 1..Len(r)
        BY <1>3, <3>1
      <3>3. r[m] \in Members(r)
        BY <3>2, Zenon DEF Members
      <3>4. QED
        BY <1>3, <3>3
    <2>2. QED
      BY <1>4, <2>1, ZenonT(60)
  <1>15. QED
    BY <1>11, <1>12, <1>13, <1>14, Zenon

LEMMA CacheSet ==
  ASSUME CacheInv, NEW i \in Items, NEW z \in 1..MaxMemory, NEW ttl \in 0..1, Cache!Set(i, z, ttl)
  PROVE  CacheInv'
  <1> DEFINE C == CachedIn(entries)
             D == CachedIn(entries')
             Ev == Cache!Evicted(i, z)
             S == {i} \cup Ev
             t == IF ttl = 0 THEN DefaultTtl ELSE ttl
             L == C \ S
  <1>1. /\ clock \in 0..MaxClock /\ entries \in [Items -> Cache!Entry \cup {NoEntry}]
        /\ order \in Seq(Items) /\ NoRepeats(order) /\ Members(order) = C
    BY Zenon DEF CacheInv, Agree
  <1>2. PICK n \in 0..Len(Rest(order, {i})) :
          Ev = Cache!Out(i, n) /\ Cache!Fits(i, n, z) /\ i \notin Ev
    BY RoomIsMade, Zenon
  <1>3. L = Cache!Left(i, n)
    BY <1>2, CacheWords, Zenon DEF Cache!Left
  <1>4. Cardinality(L) < MaxEntries /\ Cardinality(Units(entries, L)) + z <= MaxMemory
    <2>1. Cache!Cardinality(L) = Cardinality(L)
      BY Zenon DEF Cache!Cardinality, Cardinality
    <2>2. Cache!Cardinality(L) < MaxEntries /\ Cache!SizeOf(L) + z <= MaxMemory
      BY <1>2, <1>3, Zenon DEF Cache!Fits
    <2>3. Cache!SizeOf(L) = Cardinality(Units(entries, L))
      BY CacheWords, Zenon
    <2>4. QED
      BY <2>1, <2>2, <2>3, Zenon
  <1> DEFINE new == [created |-> clock, used |-> clock, ttl |-> t, size |-> z]
  <1>5. /\ clock' = clock
        /\ entries' = [j \in Items |-> IF j = i THEN new ELSE IF j \in Ev THEN NoEntry ELSE entries[j]]
        /\ order' = Append(Cache!Unlisted(S), i)
    BY Zenon DEF Cache!Set, Cache!Listed
  <1>6. order' = Append(Rest(order, S), i)
    BY <1>1, <1>5, UnlistedIsRest, Zenon
  <1>7. new \in Cache!Entry /\ new.used = clock /\ new.size = z
    <2>1. t \in Nat
      BY CacheNumbers
    <2> DEFINE c == 0..MaxClock
               w == 1..MaxMemory
    <2>2. clock \in c /\ z \in w
      BY <1>1
    <2> HIDE DEF c, w, t
    <2>3. new \in [created : c, used : c, ttl : Nat, size : w]
      BY <2>1, <2>2
    <2>4. new.used = clock /\ new.size = z
      OBVIOUS
    <2>5. QED
      BY <2>3, <2>4, Zenon DEF Cache!Entry, c, w
  <1> HIDE DEF new, t
  <1>8. /\ entries'[i] = new
        /\ \A j \in Items : j \in S /\ j # i => entries'[j] = NoEntry
        /\ \A j \in Items : j \notin S => entries'[j] = entries[j]
        /\ entries' \in [Items -> Cache!Entry \cup {NoEntry}]
    BY <1>1, <1>5, <1>7
  <1>9. entries'[i] # NoEntry /\ entries'[i].used = clock /\ entries'[i].size = z
    BY <1>7, <1>8, CacheNumbers
  <1>10. /\ Agree(entries', order') /\ D = L \cup {i}
         /\ \A j \in D : entries'[j].used <= clock'
         /\ \A j \in L : entries'[j] = entries[j]
    <2>1. i \in S
      OBVIOUS
    <2>2. QED
      BY <1>5, <1>6, <1>8, <1>9, <2>1, CachePut, ZenonT(60)
  <1>11. IsFiniteSet(L) /\ i \notin L
    <2>1. IsFiniteSet(C) /\ L \in SUBSET C
      BY <1>1, MembersCounted
    <2>2. IsFiniteSet(L)
      BY <2>1, FS_Subset, Zenon
    <2>3. QED
      BY <2>2
  <1>12. Within(entries')
    <2>1. Units(entries', L) = Units(entries, L)
      BY <1>10, UnitsSame
    <2>2. entries'[i].size \in 1..MaxMemory
      BY <1>9
    <2>3. Cardinality(Units(entries', L \cup {i})) = Cardinality(Units(entries', L)) + entries'[i].size
      BY <1>11, <2>2, UnitsMore, Zenon
    <2>4. Cardinality(L \cup {i}) = Cardinality(L) + 1 /\ Cardinality(L) \in Nat
      <3>1. Cardinality(L \cup {i}) = IF i \in L THEN Cardinality(L) ELSE Cardinality(L) + 1
        BY <1>11, FS_AddElement, Zenon
      <3>2. Cardinality(L) \in Nat
        BY <1>11, FS_CardinalityType, Zenon
      <3>3. QED
        BY <1>11, <3>1, <3>2
    <2>5. MaxEntries \in Nat /\ MaxMemory \in Nat
      BY CacheNumbers
    <2> HIDE DEF L, D
    <2>6. Cardinality(D) <= MaxEntries
      <3>1. Cardinality(L) + 1 <= MaxEntries
        BY <1>4, <2>4, <2>5
      <3>2. QED
        BY <1>10, <2>4, <3>1, Zenon
    <2>7. Cardinality(Units(entries', D)) <= MaxMemory
      BY <1>4, <1>9, <1>10, <2>1, <2>3, Zenon
    <2>8. QED
      BY <2>6, <2>7, Zenon DEF Within, D
  <1>13. QED
    BY <1>1, <1>5, <1>8, <1>10, <1>12, Zenon DEF CacheInv

LEMMA CacheTick ==
  ASSUME CacheInv, Cache!Tick
  PROVE  CacheInv'
  <1>1. clock < MaxClock /\ clock' = clock + 1 /\ entries' = entries /\ order' = order
    BY Zenon DEF Cache!Tick
  <1>2. clock \in 0..MaxClock /\ MaxClock \in Nat
    BY CacheNumbers, Zenon DEF CacheInv
  <1>3. clock' \in 0..MaxClock
    BY <1>1, <1>2
  <1>4. \A j \in CachedIn(entries) : entries[j].used <= clock'
    <2>1. ASSUME NEW j \in CachedIn(entries) PROVE entries[j].used <= clock'
      <3>1. entries[j].used \in Nat /\ entries[j].used <= clock
        BY CachedEntry
      <3>2. QED
        BY <1>1, <1>2, <3>1
    <2>2. QED
      BY <2>1, Zenon
  <1>5. QED
    BY <1>1, <1>3, <1>4, Zenon DEF CacheInv

LEMMA CacheStep ==
  ASSUME CacheInv, Cache!Next
  PROVE  CacheInv'
  <1>1. ASSUME NEW i \in Items, Cache!Hit(i) PROVE CacheInv'
    BY <1>1, CacheHit
  <1>2. ASSUME NEW i \in Items, Cache!GetExpired(i) PROVE CacheInv'
    <2>1. Cache!Without({i}) /\ clock' = clock
      BY <1>2, Zenon DEF Cache!GetExpired
    <2>2. QED
      BY <2>1, CacheWithout, Zenon
  <1>3. ASSUME NEW i \in Items, Cache!Delete(i) PROVE CacheInv'
    <2>1. Cache!Without({i}) /\ clock' = clock
      BY <1>3, Zenon DEF Cache!Delete
    <2>2. QED
      BY <2>1, CacheWithout, Zenon
  <1>4. ASSUME NEW i \in Items, NEW z \in 1..MaxMemory, NEW t \in 0..1, Cache!Set(i, z, t) PROVE CacheInv'
    BY <1>4, CacheSet
  <1>5. ASSUME Cache!CleanupExpired PROVE CacheInv'
    <2>1. Cache!Without({i \in Cache!Cached : Cache!Expired(i)}) /\ clock' = clock
      BY <1>5, Zenon DEF Cache!CleanupExpired
    <2>2. QED
      BY <2>1, CacheWithout, Zenon
  <1>6. ASSUME NEW S \in SUBSET Items, Cache!ClearNamespace(S) PROVE CacheInv'
    <2>1. Cache!Without(S) /\ clock' = clock
      BY <1>6, Zenon DEF Cache!ClearNamespace
    <2>2. QED
      BY <2>1, CacheWithout, Zenon
  <1>7. QED
    BY <1>1, <1>2, <1>3, <1>4, <1>5, <1>6, CacheTick, Zenon DEF Cache!Next

LEMMA CacheSame ==
  ASSUME CacheInv, UNCHANGED CacheVars
  PROVE  CacheInv'
  <1>1. clock' = clock /\ entries' = entries /\ order' = order
    BY Zenon DEF CacheVars
  <1>2. QED
    BY <1>1, Zenon DEF CacheInv

\* The list and the entries of the cache agree at every moment, within the limits.
THEOREM CacheInvariant == ServicesSpec => []CacheInv
  <1>1. ServicesInit => CacheInv
    BY CacheInit, Zenon DEF ServicesInit
  <1>2. CacheInv /\ [ServicesNext]_ServicesVars => CacheInv'
    BY OneAnswerMoves, CacheStep, CacheSame, Zenon
  <1>3. QED
    BY <1>1, <1>2, PTL DEF ServicesSpec

\* What the invariant says in the words of the module.
LEMMA CacheAgrees ==
  ASSUME CacheInv
  PROVE  Cache!TypeOK /\ Cache!OrderAgrees /\ Cache!WithinBounds
  <1> DEFINE C == CachedIn(entries)
  <1>1. /\ clock \in 0..MaxClock /\ entries \in [Items -> Cache!Entry \cup {NoEntry}]
        /\ order \in Seq(Items) /\ NoRepeats(order) /\ Members(order) = C /\ UsedInOrder(entries, order)
        /\ Cardinality(C) <= MaxEntries /\ Cardinality(Units(entries, C)) <= MaxMemory
    BY Zenon DEF CacheInv, Agree, Within
  <1>2. DOMAIN order = 1..Len(order)
    BY <1>1
  <1>3. Cache!Cardinality(C) = Cardinality(C)
    BY Zenon DEF Cache!Cardinality, Cardinality
  <1>4. Cache!TypeOK
    BY <1>1, Zenon DEF Cache!TypeOK
  <1>5. Cache!ToSet(order) = C
    BY <1>1, <1>2, Zenon DEF Cache!ToSet, Members
  <1>6. Len(order) = Cardinality(C)
    BY <1>1, MembersCounted, Zenon
  <1>7. \A m, n \in DOMAIN order : m < n => entries[order[m]].used <= entries[order[n]].used
    BY <1>1, <1>2, Zenon DEF UsedInOrder
  <1>8. Cache!OrderAgrees
    BY <1>3, <1>5, <1>6, <1>7, CacheWords, Zenon DEF Cache!OrderAgrees
  <1>9. Cache!WithinBounds
    BY <1>1, <1>3, CacheWords, Zenon DEF Cache!WithinBounds
  <1>10. QED
    BY <1>4, <1>8, <1>9, Zenon

\* The list of the cache manager has every entry once, the least recently used first, and
\* the entries keep within both limits; nobody is given a result that is out of date or was
\* cleared; and an invalidation of the Redis cache leaves nothing older than itself.
THEOREM CachesAreSound == ServicesSpec => []CachesSound
  <1>1. CacheInv => Cache!OrderAgrees /\ Cache!WithinBounds
    BY CacheAgrees, Zenon
  <1>2. ResultInv => Results!ResultsFresh
    BY Zenon DEF ResultInv
  <1>3. RedisInv => Redis!InvalidationHolds
    BY RedisSound, Zenon
  <1>4. CacheInv /\ ResultInv /\ RedisInv => CachesSound
    BY <1>1, <1>2, <1>3, Zenon DEF CachesSound
  <1>5. QED
    BY <1>4, CacheInvariant, ResultInvariant, RedisInvariant, PTL

---------------------------------------------------------------------------
(* The progress of indexing.                                               *)

LEMMA ProgressNumbers ==
  /\ Files \in 0..6 /\ MaxRetries \in Nat
  /\ Progress!Stages = 1..8 /\ Progress!Unit = 120 /\ Progress!Whole = 12000
  /\ \A j \in 1..8 : Progress!Weight[j] \in Nat
  <1>1. Files \in 0..6 /\ MaxRetries \in Nat
    BY ServicesAssumption DEF Progress!ProgressAssumption
  <1>2. Progress!Stages = 1..8
    BY DEF Progress!Stages, Progress!Weight
  <1>3. Progress!Unit = 120 /\ Progress!Whole = 12000
    BY DEF Progress!Unit, Progress!Whole
  <1>4. \A j \in 1..8 : Progress!Weight[j] \in Nat
    <2>1. \A j \in 1..8 : j = 1 \/ j = 2 \/ j = 3 \/ j = 4 \/ j = 5 \/ j = 6 \/ j = 7 \/ j = 8
      OBVIOUS
    <2>2. QED
      BY <2>1 DEF Progress!Weight
  <1>5. QED
    BY <1>1, <1>2, <1>3, <1>4

\* What the single stages are worth.
Share(S, j) == IF j \in S THEN Progress!Weight[j] * Progress!Unit ELSE 0

LEMMA Shares ==
  ASSUME NEW S
  PROVE  /\ Progress!WorthOf(S) = Share(S, 1) + Share(S, 2) + Share(S, 3) + Share(S, 4)
                                  + Share(S, 5) + Share(S, 6) + Share(S, 7) + Share(S, 8)
         /\ \A j \in 1..8 : Share(S, j) \in Nat
         /\ Progress!WorthOf(S) \in Nat
  <1>1. Progress!WorthOf(S) = Share(S, 1) + Share(S, 2) + Share(S, 3) + Share(S, 4)
                              + Share(S, 5) + Share(S, 6) + Share(S, 7) + Share(S, 8)
    BY Zenon DEF Progress!WorthOf, Share
  <1>2. ASSUME NEW j \in 1..8 PROVE Share(S, j) \in Nat
    <2>1. Progress!Weight[j] \in Nat /\ Progress!Unit = 120
      BY ProgressNumbers
    <2>2. QED
      BY <2>1 DEF Share
  <1>3. QED
    BY <1>1, <1>2

LEMMA WorthGrows ==
  ASSUME NEW S, NEW T, S \subseteq T
  PROVE  Progress!WorthOf(S) <= Progress!WorthOf(T)
  <1>1. ASSUME NEW j \in 1..8 PROVE Share(S, j) <= Share(T, j)
    <2>1. Progress!Weight[j] \in Nat /\ Progress!Unit = 120
      BY ProgressNumbers
    <2>2. QED
      BY <2>1 DEF Share
  <1>2. QED
    BY <1>1, Shares

\* One stage more.
LEMMA WorthOfNext ==
  ASSUME NEW k \in 1..7
  PROVE  Progress!WorthOf(1..k) = Progress!WorthOf(1..(k - 1)) + Progress!Weight[k] * Progress!Unit
  <1>1. /\ \A j \in 1..8 : j # k => (j \in 1..k <=> j \in 1..(k - 1))
        /\ k \in 1..k /\ k \notin 1..(k - 1)
    OBVIOUS
  <1>2. \A j \in 1..8 : j # k => Share(1..k, j) = Share(1..(k - 1), j)
    BY <1>1, Zenon DEF Share
  <1>3. Share(1..k, k) = Progress!Weight[k] * Progress!Unit /\ Share(1..(k - 1), k) = 0
    BY <1>1, Zenon DEF Share
  <1>4. Progress!Weight[k] * Progress!Unit \in Nat
    BY ProgressNumbers
  <1> DEFINE a(j) == Share(1..k, j)
             b(j) == Share(1..(k - 1), j)
             w == Progress!Weight[k] * Progress!Unit
  <1>5. /\ Progress!WorthOf(1..k) = a(1) + a(2) + a(3) + a(4) + a(5) + a(6) + a(7) + a(8)
        /\ Progress!WorthOf(1..(k - 1)) = b(1) + b(2) + b(3) + b(4) + b(5) + b(6) + b(7) + b(8)
        /\ \A j \in 1..8 : b(j) \in Nat
    BY Shares
  <1>6. (\A j \in 1..8 : j # k => a(j) = b(j)) /\ a(k) = w /\ b(k) = 0 /\ w \in Nat
    BY <1>2, <1>3, <1>4
  <1> HIDE DEF a, b, w
  <1>7. /\ b(1) \in Nat /\ b(2) \in Nat /\ b(3) \in Nat /\ b(4) \in Nat
        /\ b(5) \in Nat /\ b(6) \in Nat /\ b(7) \in Nat /\ b(8) \in Nat
    BY <1>5
  <1>8. /\ 1 # k => a(1) = b(1)
        /\ 2 # k => a(2) = b(2)
        /\ 3 # k => a(3) = b(3)
        /\ 4 # k => a(4) = b(4)
        /\ 5 # k => a(5) = b(5)
        /\ 6 # k => a(6) = b(6)
        /\ 7 # k => a(7) = b(7)
        /\ a(8) = b(8)
    BY <1>6
  <1>9. Progress!WorthOf(1..k) = Progress!WorthOf(1..(k - 1)) + w
    <2>1. CASE k = 1
      <3>1. a(1) = w /\ b(1) = 0
        BY <1>6, <2>1, Zenon
      <3>2. QED
        BY <1>5, <1>6, <1>7, <1>8, <2>1, <3>1
    <2>2. CASE k = 2
      <3>1. a(2) = w /\ b(2) = 0
        BY <1>6, <2>2, Zenon
      <3>2. QED
        BY <1>5, <1>6, <1>7, <1>8, <2>2, <3>1
    <2>3. CASE k = 3
      <3>1. a(3) = w /\ b(3) = 0
        BY <1>6, <2>3, Zenon
      <3>2. QED
        BY <1>5, <1>6, <1>7, <1>8, <2>3, <3>1
    <2>4. CASE k = 4
      <3>1. a(4) = w /\ b(4) = 0
        BY <1>6, <2>4, Zenon
      <3>2. QED
        BY <1>5, <1>6, <1>7, <1>8, <2>4, <3>1
    <2>5. CASE k = 5
      <3>1. a(5) = w /\ b(5) = 0
        BY <1>6, <2>5, Zenon
      <3>2. QED
        BY <1>5, <1>6, <1>7, <1>8, <2>5, <3>1
    <2>6. CASE k = 6
      <3>1. a(6) = w /\ b(6) = 0
        BY <1>6, <2>6, Zenon
      <3>2. QED
        BY <1>5, <1>6, <1>7, <1>8, <2>6, <3>1
    <2>7. CASE k = 7
      <3>1. a(7) = w /\ b(7) = 0
        BY <1>6, <2>7, Zenon
      <3>2. QED
        BY <1>5, <1>6, <1>7, <1>8, <2>7, <3>1
    <2>8. QED
      BY <2>1, <2>2, <2>3, <2>4, <2>5, <2>6, <2>7
  <1>10. QED
    BY <1>9, Zenon DEF w

\* The whole of a stage is what its steps are worth together.
LEMMA WorthOfSteps ==
  ASSUME NEW k \in 1..7, Progress!Steps[k] > 0, NEW n \in 0..Progress!Steps[k]
  PROVE  /\ Progress!Steps[k] \in Nat /\ Progress!Steps[k] <= 10
         /\ Progress!Worth(k, n) \in Nat
         /\ Progress!Worth(k, n) <= Progress!Weight[k] * Progress!Unit
         /\ Progress!Worth(k, 0) = 0
  <1>1. Files \in 0..6
    BY ProgressNumbers
  <1>2. CASE k = 1
    BY <1>2 DEF Progress!Worth, Progress!Steps, Progress!Weight, Progress!Unit
  <1>3. CASE k = 2
    <2>1. Progress!Steps[k] = Files /\ Progress!Weight[k] = 25
      BY <1>3 DEF Progress!Steps, Progress!Weight
    <2>2. Files = 1 \/ Files = 2 \/ Files = 3 \/ Files = 4 \/ Files = 5 \/ Files = 6
      BY <1>1, <2>1
    <2>3. QED
      BY <2>1, <2>2 DEF Progress!Worth, Progress!Unit
  <1>4. CASE k = 3
    BY <1>4 DEF Progress!Worth, Progress!Steps, Progress!Weight, Progress!Unit
  <1>5. CASE k = 4
    BY <1>5 DEF Progress!Worth, Progress!Steps, Progress!Weight, Progress!Unit
  <1>6. CASE k = 5
    BY <1>6 DEF Progress!Worth, Progress!Steps, Progress!Weight, Progress!Unit
  <1>7. CASE k = 6
    BY <1>7 DEF Progress!Worth, Progress!Steps, Progress!Weight, Progress!Unit
  <1>8. CASE k = 7
    BY <1>8 DEF Progress!Worth, Progress!Steps, Progress!Weight, Progress!Unit
  <1>9. QED
    BY <1>2, <1>3, <1>4, <1>5, <1>6, <1>7, <1>8

\* What is done at a step of a stage.
DoneAt(k, n) == Progress!WorthOf(1..(k - 1)) + Progress!Worth(k, n)

\* The figure claims no more, and never the whole.
LEMMA FigureFair ==
  ASSUME NEW k \in 1..7, Progress!Steps[k] > 0, NEW n \in 0..Progress!Steps[k]
  PROVE  /\ Progress!Overall(k, n) \in 0..(Progress!Whole - 1)
         /\ Progress!Overall(k, n) <= DoneAt(k, n)
         /\ DoneAt(k, n) \in Nat
         /\ DoneAt(k, n) <= Progress!WorthOf(1..k)
  <1> DEFINE S == {j \in 1..(k - 1) : Progress!Place[j] < Progress!Place[k]}
  <1>1. S \subseteq 1..(k - 1) /\ 1..k \subseteq 1..7
    OBVIOUS
  <1>2. Progress!Overall(k, n) = Progress!WorthOf(S) + Progress!Worth(k, n)
    BY DEF Progress!Overall
  <1> HIDE DEF S
  <1>3. Progress!WorthOf(S) <= Progress!WorthOf(1..(k - 1)) /\ Progress!WorthOf(1..k) <= Progress!WorthOf(1..7)
    BY <1>1, WorthGrows
  <1>4. Progress!WorthOf(S) \in Nat /\ Progress!WorthOf(1..(k - 1)) \in Nat /\ Progress!WorthOf(1..k) \in Nat
    BY Shares
  <1>5. Progress!Worth(k, n) \in Nat /\ Progress!Worth(k, n) <= Progress!Weight[k] * Progress!Unit
    BY WorthOfSteps
  <1>6. Progress!WorthOf(1..k) = Progress!WorthOf(1..(k - 1)) + Progress!Weight[k] * Progress!Unit
    BY WorthOfNext
  <1>7. Progress!Weight[k] * Progress!Unit \in Nat
    BY ProgressNumbers
  <1>8. Progress!WorthOf(1..7) = 11760
    BY DEF Progress!WorthOf, Progress!Weight, Progress!Unit
  <1>9. Progress!Whole = 12000
    BY ProgressNumbers
  <1> DEFINE w == Progress!Weight[k] * Progress!Unit
  <1>10. /\ Progress!Worth(k, n) <= w /\ w \in Nat
         /\ Progress!WorthOf(1..k) = Progress!WorthOf(1..(k - 1)) + w
    BY <1>5, <1>6, <1>7
  <1> HIDE DEF w
  <1>11. DoneAt(k, n) = Progress!WorthOf(1..(k - 1)) + Progress!Worth(k, n)
    BY DEF DoneAt
  <1>12. DoneAt(k, n) \in Nat /\ DoneAt(k, n) <= Progress!WorthOf(1..k)
    BY <1>4, <1>5, <1>10, <1>11
  <1>13. Progress!Overall(k, n) <= DoneAt(k, n)
    BY <1>2, <1>3, <1>4, <1>5, <1>11
  <1>14. Progress!Overall(k, n) \in Nat
    BY <1>2, <1>4, <1>5
  <1>15. Progress!Overall(k, n) <= 11999
    BY <1>3, <1>4, <1>8, <1>12, <1>13, <1>14
  <1>16. Progress!Overall(k, n) \in 0..(Progress!Whole - 1)
    <2> DEFINE v == Progress!Overall(k, n)
               u == Progress!Whole
    <2>1. v \in Nat /\ v <= 11999 /\ u = 12000
      BY <1>9, <1>14, <1>15, SMT
    <2> HIDE DEF u, v
    <2>2. v \in 0..(u - 1)
      BY <2>1, SMTT(60)
    <2>3. QED
      BY <2>2, Zenon DEF u, v
  <1>17. QED
    BY <1>12, <1>13, <1>16, Zenon

\* The next stage that has steps.
LEMMA NextStage ==
  ASSUME NEW k \in 1..6
  PROVE  /\ Progress!After(k) \in (k + 1)..7 /\ Progress!Steps[Progress!After(k)] > 0
         /\ Progress!After(k) \in 2..7
  <1> DEFINE S == {j \in Progress!Stages : j > k /\ Progress!Steps[j] > 0}
  <1>1. S \in SUBSET Nat /\ 7 \in S
    <2>1. Progress!Stages = 1..8 /\ Progress!Steps[7] = 3
      BY ProgressNumbers DEF Progress!Steps
    <2>2. QED
      BY <2>1
  <1>2. Progress!After(k) = CHOOSE x \in S : \A y \in S : x <= y
    BY Zenon DEF Progress!After, Progress!Min
  <1>3. \A j \in S : j > k /\ Progress!Steps[j] > 0
    OBVIOUS
  <1> HIDE DEF S
  <1>4. \E x \in S : \A y \in S : x <= y
    BY <1>1, LeastNatural
  <1>5. Progress!After(k) \in S /\ \A y \in S : Progress!After(k) <= y
    BY <1>2, <1>4, Zenon
  <1>6. Progress!After(k) \in Nat /\ Progress!After(k) > k /\ Progress!After(k) <= 7
    BY <1>1, <1>3, <1>5
  <1>7. QED
    BY <1>3, <1>5, <1>6

\* The stage after has begun: all of the one before counts.
LEMMA StageEnds ==
  ASSUME NEW k \in 1..6, Progress!Steps[k] > 0, NEW n \in 0..Progress!Steps[k]
  PROVE  Progress!Overall(k, n) <= DoneAt(Progress!After(k), 0)
  <1> DEFINE m == Progress!After(k)
  <1>1. m \in (k + 1)..7 /\ m \in 1..7 /\ Progress!Steps[m] > 0
    BY NextStage
  <1>2. Progress!Overall(k, n) <= DoneAt(k, n) /\ DoneAt(k, n) <= Progress!WorthOf(1..k)
    <2>1. k \in 1..7
      OBVIOUS
    <2>2. QED
      BY <2>1, FigureFair
  <1>3. Progress!Overall(k, n) \in Nat /\ DoneAt(k, n) \in Nat
    <2>1. k \in 1..7
      OBVIOUS
    <2>2. Progress!Overall(k, n) \in 0..(Progress!Whole - 1) /\ DoneAt(k, n) \in Nat
      BY <2>1, FigureFair
    <2>3. QED
      BY <2>2
  <1> HIDE DEF m
  <1>4. 1..k \subseteq 1..(m - 1)
    BY <1>1
  <1>5. Progress!WorthOf(1..k) <= Progress!WorthOf(1..(m - 1))
    BY <1>4, WorthGrows
  <1>6. Progress!WorthOf(1..k) \in Nat /\ Progress!WorthOf(1..(m - 1)) \in Nat
    BY Shares
  <1>7. Progress!Steps[m] \in Nat
    BY <1>1, ProgressNumbers DEF Progress!Steps
  <1>8. 0 \in 0..Progress!Steps[m]
    BY <1>1, <1>7
  <1>9. Progress!Worth(m, 0) = 0
    BY <1>1, <1>8, WorthOfSteps
  <1>10. DoneAt(m, 0) = Progress!WorthOf(1..(m - 1)) + 0
    BY <1>9, Zenon DEF DoneAt
  <1>11. Progress!Overall(k, n) <= DoneAt(m, 0)
    BY <1>2, <1>3, <1>5, <1>6, <1>10
  <1>12. QED
    BY <1>11, Zenon DEF m

Statuses == {"queued", "running", "completed", "failed", "cancelled"}

\* A completed job shows the whole, and what shows the whole stands behind its last step.
WholeFair(j) ==
  /\ j.status = "completed" => j.overall = Progress!Whole
  /\ j.overall = Progress!Whole => j.status \in {"completed", "cancelled"} /\ j.stage = 8 /\ j.step = 1

JobFair(j) ==
  /\ j \in [status : Statuses, retries : 0..MaxRetries, stage : 1..8, step : 0..10, overall : 0..Progress!Whole]
  /\ WholeFair(j)

\* A job whose task has not begun waits or was cancelled, and does not show the whole yet.
FreshFair ==
  /\ fresh \in BOOLEAN
  /\ fresh => job.status \in {"queued", "cancelled"} /\ job.overall # Progress!Whole

\* Between two reports the task stands in a stage that has steps, and has not done its
\* last one.
Underway(j) ==
  /\ j.stage \in 1..7 /\ Progress!Steps[j.stage] > 0
  /\ j.stage = 1 => j.step = 1
  /\ j.stage # 1 => j.step < Progress!Steps[j.stage]
  /\ j.overall <= DoneAt(j.stage, j.step)

ProgressInv ==
  /\ JobFair(job) /\ JobFair(saved)
  /\ job.status = "running" => Underway(job)
  /\ FreshFair

LEMMA ProgressInit == Progress!Init => ProgressInv
  <1>1. MaxRetries \in Nat /\ Progress!Whole \in Nat /\ Progress!Whole # 0
    BY ProgressNumbers
  <1>2. Progress!Init => JobFair(job) /\ JobFair(saved) /\ job.status # "running"
    BY <1>1 DEF Progress!Init, JobFair, WholeFair, Statuses
  <1>3. Progress!Init => FreshFair
    BY Zenon DEF Progress!Init, FreshFair
  <1>4. QED
    BY <1>2, <1>3, Zenon DEF ProgressInv

\* The figures of a stage.
LEMMA FigureRange ==
  ASSUME NEW k \in 1..7, Progress!Steps[k] > 0, NEW n \in 0..Progress!Steps[k]
  PROVE  Progress!Overall(k, n) \in 0..Progress!Whole /\ Progress!Overall(k, n) # Progress!Whole
  <1>1. Progress!Overall(k, n) \in 0..(Progress!Whole - 1)
    BY FigureFair
  <1>2. Progress!Whole \in Nat
    BY ProgressNumbers, SMT
  <1> DEFINE v == Progress!Overall(k, n)
             u == Progress!Whole
  <1>3. v \in 0..(u - 1) /\ u \in Nat
    BY <1>1, <1>2, Zenon
  <1> HIDE DEF u, v
  <1>4. v \in 0..u /\ v # u
    BY <1>3
  <1>5. QED
    BY <1>4, Zenon DEF u, v

LEMMA ProgressStep ==
  ASSUME ProgressInv, Progress!Next
  PROVE  ProgressInv'
  <1>1. JobFair(job) /\ JobFair(saved) /\ (job.status = "running" => Underway(job)) /\ FreshFair
    BY Zenon DEF ProgressInv
  <1> DEFINE Tries == 0..MaxRetries
             O == 0..Progress!Whole
             G == 1..8
             P == 0..10
             Jobs == [status : Statuses, retries : Tries, stage : G, step : P, overall : O]
  <1>2. /\ job \in Jobs /\ saved \in Jobs
        /\ WholeFair(job) /\ WholeFair(saved)
    BY <1>1, Zenon DEF JobFair
  <1>0. job \in Jobs /\ saved \in Jobs
    BY <1>2
  <1>3. MaxRetries \in Nat /\ Progress!Whole \in Nat
    BY ProgressNumbers
  <1>a. /\ \A j \in 1..8 : j \in G
        /\ \A j \in 0..10 : j \in P
        /\ {"queued", "running", "completed", "failed", "cancelled"} \subseteq Statuses
        /\ Progress!Whole \in O
        /\ job.stage \in 1..8 /\ job.step \in 0..10 /\ job.overall \in Nat
    BY <1>0, <1>3 DEF Statuses
  <1> HIDE DEF O, Tries, G, P
  <1>4. CASE Progress!Begin
    <2>f. FreshFair'
      BY <1>4, Zenon DEF Progress!Begin, FreshFair
    <2>1. /\ Progress!Steps[1] > 0 /\ 1 \in 0..Progress!Steps[1] /\ 1 \in 1..7
      BY DEF Progress!Steps
    <2> DEFINE v == Progress!Overall(1, 1)
    <2>2. v \in O /\ v # Progress!Whole
      BY <2>1, FigureRange DEF O
    <2>3. v <= DoneAt(1, 1)
      BY <2>1, FigureFair
    <2>4. job' = [job EXCEPT !.status = "running", !.stage = 1, !.step = 1, !.overall = v] /\ saved' = saved
      BY <1>4, Zenon DEF Progress!Begin
    <2> HIDE DEF v
    <2>5. JobFair(job')
      <3>0. "running" \in Statuses /\ 1 \in G /\ 1 \in P
        BY <1>a, <2>2, <2>4
      <3>1. job' \in Jobs
        BY <1>0, <2>2, <2>4, <3>0
      <3>2. WholeFair(job')
        BY <1>2, <2>2, <2>4 DEF WholeFair
      <3>3. QED
        BY <3>1, <3>2, Zenon DEF JobFair, O, Tries, G, P
    <2>6. job'.stage = 1 /\ job'.step = 1 /\ job'.overall = v
      BY <1>2, <2>4
    <2>7. Underway(job')
      BY <2>1, <2>3, <2>6 DEF Underway
    <2>8. QED
      BY <1>1, <2>4, <2>5, <2>7, <2>f, Zenon DEF ProgressInv
  <1>5. CASE Progress!BeginFails
    <2>f. FreshFair'
      BY <1>5, Zenon DEF Progress!BeginFails, FreshFair
    <2>1. job' = [job EXCEPT !.status = "failed", !.stage = 1, !.step = 0] /\ saved' = job' /\ fresh
      BY <1>5, Zenon DEF Progress!BeginFails
    <2>a. job.overall # Progress!Whole
      BY <1>1, <2>1 DEF FreshFair
    <2>2. JobFair(job') /\ job'.status = "failed"
      <3>0. "failed" \in Statuses /\ 1 \in G /\ 0 \in P
        BY <1>a, <2>1
      <3>1. job' \in Jobs
        BY <1>0, <2>1, <3>0
      <3>2. WholeFair(job') /\ job'.status = "failed"
        BY <1>0, <2>1, <2>a DEF WholeFair
      <3>3. QED
        BY <3>1, <3>2, Zenon DEF JobFair, O, Tries, G, P
    <2>3. QED
      BY <2>1, <2>2, <2>f, Zenon DEF ProgressInv
  <1>6. CASE Progress!Enter
    <2>f. FreshFair'
      BY <1>1, <1>6, Zenon DEF Progress!Enter, FreshFair
    <2>1. job.status = "running" /\ job.stage = 1 /\ saved' = saved
          /\ job' = [job EXCEPT !.stage = Progress!After(1), !.step = 0]
      BY <1>6, Zenon DEF Progress!Enter
    <2>2. job.step = 1 /\ job.overall <= DoneAt(1, 1)
      BY <1>1, <2>1 DEF Underway
    <2> DEFINE m == Progress!After(1)
    <2>3. m \in 2..7 /\ Progress!Steps[m] > 0
      BY NextStage
    <2>4. Progress!Steps[1] > 0 /\ 1 \in 0..Progress!Steps[1] /\ 0 \in 0..Progress!Steps[1]
      BY DEF Progress!Steps
    <2>5. 1 \in 1..7 /\ 1 \in 1..6
      OBVIOUS
    <2>6. DoneAt(1, 1) <= DoneAt(m, 0)
      <3>1. DoneAt(1, 1) <= Progress!WorthOf(1..1) /\ DoneAt(1, 1) \in Nat
        BY <2>4, <2>5, FigureFair
      <3>2. 1..1 \subseteq 1..(m - 1)
        BY <2>3
      <3>3. Progress!WorthOf(1..1) <= Progress!WorthOf(1..(m - 1))
        BY <3>2, WorthGrows
      <3>4. Progress!WorthOf(1..1) \in Nat /\ Progress!WorthOf(1..(m - 1)) \in Nat
        BY Shares
      <3> HIDE DEF m
      <3>5. Progress!Steps[m] \in Nat
        BY <2>3, ProgressNumbers DEF Progress!Steps
      <3>6. 0 \in 0..Progress!Steps[m] /\ m \in 1..7
        BY <2>3, <3>5
      <3>7. Progress!Worth(m, 0) = 0
        BY <2>3, <3>6, WorthOfSteps
      <3>8. DoneAt(m, 0) = Progress!WorthOf(1..(m - 1)) + 0
        BY <3>7, Zenon DEF DoneAt
      <3>9. QED
        BY <3>1, <3>3, <3>4, <3>8
    <2>7. DoneAt(1, 1) \in Nat /\ DoneAt(m, 0) \in Nat
      <3>1. DoneAt(1, 1) \in Nat
        BY <2>4, <2>5, FigureFair
      <3> HIDE DEF m
      <3>2. Progress!Steps[m] \in Nat
        BY <2>3, ProgressNumbers DEF Progress!Steps
      <3>3. 0 \in 0..Progress!Steps[m] /\ m \in 1..7
        BY <2>3, <3>2
      <3>4. DoneAt(m, 0) \in Nat
        BY <2>3, <3>3, FigureFair
      <3>5. QED
        BY <3>1, <3>4
    <2>8. job' = [job EXCEPT !.stage = m, !.step = 0]
      BY <2>1
    <2> HIDE DEF m
    <2>9. JobFair(job')
      <3>0. m \in G /\ 0 \in P
        BY <1>a, <2>3, <2>8
      <3>1. job' \in Jobs
        BY <1>0, <2>3, <2>8, <3>0
      <3>2. WholeFair(job')
        BY <1>2, <2>1, <2>3, <2>8 DEF WholeFair
      <3>3. QED
        BY <3>1, <3>2, Zenon DEF JobFair, O, Tries, G, P
    <2>10. job'.stage = m /\ job'.step = 0 /\ job'.overall = job.overall /\ job.overall \in Nat
      BY <1>2, <1>a, <2>8
    <2>11. job'.overall <= DoneAt(m, 0)
      BY <2>2, <2>6, <2>7, <2>10
    <2>12. Underway(job')
      BY <2>3, <2>10, <2>11 DEF Underway
    <2>13. QED
      BY <1>1, <2>1, <2>9, <2>12, <2>f, Zenon DEF ProgressInv
  <1>7. CASE Progress!Step
    <2>f. FreshFair'
      BY <1>1, <1>7, Zenon DEF Progress!Step, FreshFair
    <2> DEFINE k == job.stage
               n == job.step + 1
               m == Progress!After(k)
               v == Progress!Overall(k, n)
    <2>1. job.status = "running" /\ k \in 2..6 /\ saved' = saved
      BY <1>7, Zenon DEF Progress!Step
    <2>2. job' = [job EXCEPT !.stage = IF n = Progress!Steps[k] THEN m ELSE k,
                             !.step = IF n = Progress!Steps[k] THEN 0 ELSE n,
                             !.overall = v]
      BY <1>7 DEF Progress!Step
    <2>3. Progress!Steps[k] > 0 /\ job.step < Progress!Steps[k] /\ job.step \in 0..10
      BY <1>1, <1>a, <2>1 DEF Underway
    <2>4. Progress!Steps[k] \in 0..10
      BY <2>1, ProgressNumbers DEF Progress!Steps
    <2>5. k \in 1..6 /\ k \in 1..7 /\ n \in 0..Progress!Steps[k] /\ n \in 1..10
      BY <2>1, <2>3, <2>4
    <2>6. v \in O /\ v # Progress!Whole
      BY <2>3, <2>5, FigureRange DEF O
    <2>7. m \in 2..7 /\ Progress!Steps[m] > 0
      BY <2>5, NextStage
    <2>8. CASE n = Progress!Steps[k]
      <3>1. v <= DoneAt(m, 0)
        BY <2>3, <2>5, StageEnds
      <3>2. job' = [job EXCEPT !.stage = m, !.step = 0, !.overall = v]
        BY <2>2, <2>8
      <3> HIDE DEF k, n, m, v
      <3>3. JobFair(job')
        <4>0. m \in G /\ 0 \in P
          BY <1>a, <2>1, <2>6, <2>7, <3>2
        <4>1. job' \in Jobs
          BY <1>0, <2>1, <2>6, <2>7, <3>2, <4>0
        <4>2. WholeFair(job')
          BY <1>2, <2>1, <2>6, <2>7, <3>2 DEF WholeFair
        <4>3. QED
          BY <4>1, <4>2, Zenon DEF JobFair, O, Tries, G, P
      <3>4. job'.stage = m /\ job'.step = 0 /\ job'.overall = v
        BY <1>2, <3>2
      <3>5. Underway(job')
        BY <2>7, <3>1, <3>4 DEF Underway
      <3>6. QED
        BY <1>1, <2>1, <3>3, <3>5, <2>f, Zenon DEF ProgressInv
    <2>9. CASE n # Progress!Steps[k]
      <3>1. v <= DoneAt(k, n)
        BY <2>3, <2>5, FigureFair
      <3>2. job' = [job EXCEPT !.stage = k, !.step = n, !.overall = v]
        BY <2>2, <2>9
      <3>3. n < Progress!Steps[k] /\ k # 1
        BY <2>1, <2>4, <2>5, <2>9
      <3> HIDE DEF k, n, m, v
      <3>4. JobFair(job')
        <4>0. k \in G /\ n \in P
          BY <1>a, <2>1, <2>5, <2>6, <3>2
        <4>1. job' \in Jobs
          BY <1>0, <2>1, <2>5, <2>6, <3>2, <4>0
        <4>2. WholeFair(job')
          BY <1>2, <2>1, <2>5, <2>6, <3>2 DEF WholeFair
        <4>3. QED
          BY <4>1, <4>2, Zenon DEF JobFair, O, Tries, G, P
      <3>5. job'.stage = k /\ job'.step = n /\ job'.overall = v
        BY <1>2, <3>2
      <3>6. Underway(job')
        BY <2>3, <2>5, <3>1, <3>3, <3>5 DEF Underway
      <3>7. QED
        BY <1>1, <2>1, <3>4, <3>6, <2>f, Zenon DEF ProgressInv
    <2>10. QED
      BY <2>8, <2>9
  <1>8. CASE Progress!IndexStep
    <2>f. FreshFair'
      BY <1>1, <1>8, Zenon DEF Progress!IndexStep, FreshFair
    <2>1. job.status = "running" /\ job.stage = 7
      BY <1>8, Zenon DEF Progress!IndexStep
    <2>2. Progress!Steps[7] = 3 /\ Progress!Steps[7] > 0
      BY DEF Progress!Steps
    <2>3. job.step \in 0..10 /\ job.step < 3
      BY <1>1, <1>a, <2>1, <2>2 DEF Underway
    <2>4. CASE job.step + 1 < 3
      <3> DEFINE n == job.step + 1
                 v == Progress!Overall(7, n)
      <3>1. job' = [job EXCEPT !.step = n, !.overall = v] /\ saved' = saved
        BY <1>8, <2>2, <2>4 DEF Progress!IndexStep
      <3>2. n \in 0..Progress!Steps[7] /\ 7 \in 1..7 /\ n \in 0..10 /\ n < 3
        BY <2>2, <2>3, <2>4
      <3>3. v \in O /\ v # Progress!Whole
        BY <2>2, <3>2, FigureRange DEF O
      <3>4. v <= DoneAt(7, n)
        BY <2>2, <3>2, FigureFair
      <3> HIDE DEF n, v
      <3>5. JobFair(job')
        <4>0. n \in P
          BY <1>a, <2>1, <3>1, <3>2, <3>3
        <4>1. job' \in Jobs
          BY <1>0, <2>1, <3>1, <3>2, <3>3, <4>0
        <4>2. WholeFair(job')
          BY <1>2, <2>1, <3>1, <3>2, <3>3 DEF WholeFair
        <4>3. QED
          BY <4>1, <4>2, Zenon DEF JobFair, O, Tries, G, P
      <3>6. job'.stage = 7 /\ job'.step = n /\ job'.overall = v
        BY <1>2, <2>1, <3>1
      <3>7. Underway(job')
        BY <2>2, <3>2, <3>4, <3>6 DEF Underway
      <3>8. QED
        BY <1>1, <3>1, <3>5, <3>7, <2>f, Zenon DEF ProgressInv
    <2>5. CASE ~(job.step + 1 < 3)
      <3>1. job' = [job EXCEPT !.status = "completed", !.stage = 8, !.step = 1, !.overall = Progress!Whole]
            /\ saved' = job'
        BY <1>3, <1>8, <2>2, <2>5 DEF Progress!IndexStep
      <3>2. JobFair(job') /\ job'.status = "completed"
        <4>0. "completed" \in Statuses /\ 8 \in G /\ 1 \in P /\ Progress!Whole \in O
          BY <1>a, <3>1
        <4>1. job' \in Jobs
          BY <1>0, <3>1, <4>0
        <4>2. WholeFair(job') /\ job'.status = "completed"
          BY <1>2, <3>1 DEF WholeFair
        <4>3. QED
          BY <4>1, <4>2, Zenon DEF JobFair, O, Tries, G, P
      <3>3. QED
        BY <3>1, <3>2, <2>f, Zenon DEF ProgressInv
    <2>6. QED
      BY <2>4, <2>5
  <1>9. CASE Progress!SummaryFails
    <2>f. FreshFair'
      BY <1>1, <1>9, Zenon DEF Progress!SummaryFails, FreshFair
    <2> DEFINE v == Progress!Overall(7, Progress!Steps[7])
    <2>1. job' = [job EXCEPT !.status = "failed", !.stage = 8, !.step = 0, !.overall = v] /\ saved' = job'
          /\ job.status = "running"
      BY <1>9, Zenon DEF Progress!SummaryFails
    <2>2. Progress!Steps[7] > 0 /\ Progress!Steps[7] \in 0..Progress!Steps[7] /\ 7 \in 1..7
      BY DEF Progress!Steps
    <2>3. v \in O /\ v # Progress!Whole
      BY <2>2, FigureRange DEF O
    <2> HIDE DEF v
    <2>4. JobFair(job') /\ job'.status = "failed"
      <3>0. "failed" \in Statuses /\ 8 \in G /\ 0 \in P
        BY <1>a, <2>1, <2>3
      <3>1. job' \in Jobs
        BY <1>0, <2>1, <2>3, <3>0
      <3>2. WholeFair(job') /\ job'.status = "failed"
        BY <1>2, <2>1, <2>3 DEF WholeFair
      <3>3. QED
        BY <3>1, <3>2, Zenon DEF JobFair, O, Tries, G, P
    <2>5. QED
      BY <2>1, <2>4, <2>f, Zenon DEF ProgressInv
  <1>10. CASE Progress!Cancel
    <2>f. FreshFair'
      <3>1. job'.status = "cancelled" /\ job'.overall = job.overall /\ fresh' = fresh
        BY <1>0, <1>10 DEF Progress!Cancel
      <3>2. QED
        BY <1>1, <3>1, Zenon DEF FreshFair
    <2>1. job' = [job EXCEPT !.status = "cancelled"] /\ saved' = job'
      BY <1>10, Zenon DEF Progress!Cancel
    <2>2. JobFair(job') /\ job'.status = "cancelled"
      <3>0. "cancelled" \in Statuses
        BY <1>a, <2>1
      <3>1. job' \in Jobs
        BY <1>0, <2>1, <3>0
      <3>2. WholeFair(job') /\ job'.status = "cancelled"
        BY <1>2, <2>1 DEF WholeFair
      <3>3. QED
        BY <3>1, <3>2, Zenon DEF JobFair, O, Tries, G, P
    <2>3. QED
      BY <2>1, <2>2, <2>f, Zenon DEF ProgressInv
  <1>11. CASE Progress!Retry
    <2>f. FreshFair'
      BY <1>1, <1>11, Zenon DEF Progress!Retry, FreshFair
    <2>1. job' = [job EXCEPT !.status = "queued", !.retries = job.retries + 1] /\ saved' = job'
          /\ job.status = "failed" /\ job.retries < MaxRetries
      BY <1>11 DEF Progress!Retry
    <2>2. JobFair(job') /\ job'.status = "queued"
      <3>0. "queued" \in Statuses /\ job.retries + 1 \in Tries
        <4>1. job.retries \in 0..MaxRetries
          BY <1>0 DEF Tries
        <4>2. QED
          BY <1>a, <1>3, <2>1, <4>1 DEF Tries
      <3>1. job' \in Jobs
        BY <1>0, <2>1, <3>0
      <3>2. WholeFair(job') /\ job'.status = "queued"
        BY <1>2, <1>3, <2>1 DEF WholeFair
      <3>3. QED
        BY <3>1, <3>2, Zenon DEF JobFair, O, Tries, G, P
    <2>3. QED
      BY <2>1, <2>2, <2>f, Zenon DEF ProgressInv
  <1>12. CASE Progress!Save
    BY <1>1, <1>12, Zenon DEF Progress!Save, ProgressInv, FreshFair
  <1>13. CASE Progress!Restart
    <2>f. FreshFair'
      BY <1>13, Zenon DEF Progress!Restart, FreshFair
    <2>1. job' = [saved EXCEPT !.status = IF saved.status = "running" THEN "queued" ELSE saved.status]
          /\ saved' = saved
      BY <1>13 DEF Progress!Restart
    <2>2. JobFair(job') /\ job'.status # "running"
      <3>0. "queued" \in Statuses
        BY <1>a, <2>1
      <3>1. job' \in Jobs
        BY <1>0, <2>1, <3>0
      <3>2. WholeFair(job') /\ job'.status # "running"
        BY <1>2, <2>1 DEF WholeFair
      <3>3. QED
        BY <3>1, <3>2, Zenon DEF JobFair, O, Tries, G, P
    <2>3. QED
      BY <1>1, <2>1, <2>2, <2>f, Zenon DEF ProgressInv
  <1>14. CASE Progress!StartTask
    <2>1. job' = job /\ saved' = saved /\ job.status = "queued" /\ fresh' = TRUE
      BY <1>14, Zenon DEF Progress!StartTask
    <2>2. job.overall # Progress!Whole
      BY <1>2, <2>1 DEF WholeFair
    <2>3. FreshFair'
      BY <2>1, <2>2, Zenon DEF FreshFair
    <2>4. QED
      BY <1>1, <2>1, <2>3, Zenon DEF ProgressInv
  <1>15. CASE Progress!Stop
    <2>f. FreshFair'
      BY <1>15, Zenon DEF Progress!Stop, FreshFair
    <2>1. job' = [job EXCEPT !.status = "cancelled"] /\ saved' = job'
      BY <1>15, Zenon DEF Progress!Stop
    <2>2. JobFair(job') /\ job'.status = "cancelled"
      <3>0. "cancelled" \in Statuses
        BY <1>a, <2>1
      <3>1. job' \in Jobs
        BY <1>0, <2>1, <3>0
      <3>2. WholeFair(job') /\ job'.status = "cancelled"
        BY <1>2, <2>1 DEF WholeFair
      <3>3. QED
        BY <3>1, <3>2, Zenon DEF JobFair, O, Tries, G, P
    <2>3. QED
      BY <2>1, <2>2, <2>f, Zenon DEF ProgressInv
  <1>16. QED
    BY <1>4, <1>5, <1>6, <1>7, <1>8, <1>9, <1>10, <1>11, <1>12, <1>13, <1>14, <1>15, Zenon DEF Progress!Next

LEMMA ProgressSame ==
  ASSUME ProgressInv, UNCHANGED ProgressVars
  PROVE  ProgressInv'
  BY Zenon DEF ProgressInv, FreshFair, ProgressVars

\* The figures are fair at every moment.
THEOREM ProgressInvariant == ServicesSpec => []ProgressInv
  <1>1. ServicesInit => ProgressInv
    BY ProgressInit, Zenon DEF ServicesInit
  <1>2. ProgressInv /\ [ServicesNext]_ServicesVars => ProgressInv'
    BY OneAnswerMoves, ProgressStep, ProgressSame, Zenon
  <1>3. QED
    BY <1>1, <1>2, PTL DEF ServicesSpec

\* What the invariant says of the figure that clients see.
LEMMA FairFigures ==
  ASSUME ProgressInv
  PROVE  NeverOverstated
  <1>2. WholeFair(job)
    BY Zenon DEF ProgressInv, JobFair
  <1>3. job.status = "running" => job.overall <= DoneAt(job.stage, job.step)
    BY Zenon DEF ProgressInv, Underway
  <1>4. Progress!Done = DoneAt(job.stage, job.step)
    BY Zenon DEF Progress!Done, DoneAt
  <1>5. job.status = "running" => job.overall <= Progress!Done
    BY <1>3, <1>4
  <1>6. DoneAt(8, 1) = Progress!Whole
    <2>1. Progress!WorthOf(1..7) = 11760
      BY DEF Progress!WorthOf, Progress!Weight, Progress!Unit
    <2>2. Progress!Worth(8, 1) = 240
      BY DEF Progress!Worth, Progress!Steps, Progress!Weight, Progress!Unit
    <2>3. 1..(8 - 1) = 1..7
      OBVIOUS
    <2>4. DoneAt(8, 1) = Progress!WorthOf(1..7) + Progress!Worth(8, 1)
      BY <2>3, Zenon DEF DoneAt
    <2>5. Progress!Whole = 12000
      BY ProgressNumbers
    <2>6. QED
      BY <2>1, <2>2, <2>4, <2>5
  <1>7. job.overall = Progress!Whole => Progress!Done = Progress!Whole
    BY <1>2, <1>4, <1>6, Zenon DEF WholeFair
  <1>8. QED
    BY <1>2, <1>5, <1>7, Zenon DEF WholeFair, NeverOverstated, Progress!NeverOverstated

\* While the task of a job runs, its figure never claims more than is done; a completed job
\* shows the whole, and the whole is shown only of work that is done, though the job may
\* have been cancelled since, whatever the number of files, the attempts, the
\* cancellations, the crashes and the saves.
THEOREM FiguresNeverOverstate == ServicesSpec => []NeverOverstated
  <1>1. ProgressInv => NeverOverstated
    BY FairFigures
  <1>2. QED
    BY <1>1, ProgressInvariant, PTL

---------------------------------------------------------------------------
(* The clients that page through the knowledge graph.                      *)

\* The rows of the tables.
Rows == UNION {Graph!ToSet(t) : t \in EntityTables \cup RelationTables}

\* The rows of a table after one and up to another.
Between(table, m, n) == {table[i] : i \in (m + 1)..n}

\* The client of the REST route, as long as nobody writes, has the rows before its offset.
RestGoes ==
  rest.since = writes =>
    IF rest.over THEN rest.seen = entities
    ELSE rest.offset <= Len(entities) /\ rest.seen = SubSeq(entities, 1, rest.offset)

\* The one of the GraphQL field has one row more, as soon as it has any, and each page
\* has cost it a row that it had.
ConnectionGoes ==
  graphql.since = writes =>
    IF graphql.over THEN /\ Graph!ToSet(graphql.seen) = Graph!ToSet(relations)
                         /\ Len(graphql.seen) + 1 = Len(relations) + graphql.pages
    ELSE /\ Len(graphql.seen) = graphql.offset + graphql.pages
         /\ graphql.pages = 0 => graphql.offset = 0
         /\ graphql.pages > 0 =>
              /\ graphql.offset + 1 < Len(relations)
              /\ Graph!ToSet(graphql.seen) = Between(relations, 0, graphql.offset + 1)

GraphInv ==
  /\ Graph!TypeOK
  /\ rest.since <= writes /\ graphql.since <= writes
  /\ RestGoes /\ ConnectionGoes

LEMMA GraphNumbers ==
  1..Size \subseteq Nat \ {0} /\ MaxPages \in Nat /\ MaxWrites \in Nat
  BY ServicesAssumption, Zenon DEF ServicesAssumption, Graph!GraphAssumption

LEMMA TablesAreRows ==
  ASSUME NEW t \in EntityTables \cup RelationTables
  PROVE  t \in Seq(Rows)
  <1>1. t \in Seq(Graph!ToSet(t))
    BY ServicesAssumption, Zenon DEF ServicesAssumption, Graph!GraphAssumption
  <1>2. Graph!ToSet(t) \subseteq Rows
    BY Zenon DEF Rows
  <1> HIDE DEF Rows
  <1>3. QED
    BY <1>1, <1>2, SeqMonotonic, Zenon

\* A client is a record; its fields.
LEMMA ClientIs ==
  Graph!Client = [size : 1..Size, offset : Nat, seen : Seq(Rows), pages : 0..MaxPages,
                  over : BOOLEAN, since : 0..MaxWrites]
  BY Zenon DEF Graph!Client, Rows

\* A page is the rows from the offset on, as many as it has room for or as there are.
LEMMA PageIs ==
  ASSUME NEW S, NEW table \in Seq(S), NEW offset \in Nat, NEW size \in Nat \ {0}
  PROVE  /\ offset + size <= Len(table) =>
              Graph!Page(table, offset, size) = SubSeq(table, offset + 1, offset + size)
         /\ offset + size >= Len(table) =>
              Graph!Page(table, offset, size) = SubSeq(table, offset + 1, Len(table))
  <1>1. Len(table) \in Nat
    BY LenProperties
  <1>2. ASSUME NEW m \in Nat, NEW n \in Nat, m <= n
        PROVE  Graph!Min({m, n}) = m /\ Graph!Min({n, m}) = m
    <2>1. \A x \in {m, n} : m <= x
      BY <1>2
    <2>2. \A x \in {m, n} : (\A y \in {m, n} : x <= y) => x = m
      BY <1>2
    <2>3. {n, m} = {m, n}
      OBVIOUS
    <2>4. QED
      BY <2>1, <2>2, <2>3 DEF Graph!Min
  <1>3. QED
    BY <1>1, <1>2 DEF Graph!Page

\* The rows of a part of a table.
LEMMA PartRows ==
  ASSUME NEW S, NEW table \in Seq(S), NEW m \in Nat, NEW n \in m..Len(table)
  PROVE  /\ SubSeq(table, m + 1, n) \in Seq(S)
         /\ Len(SubSeq(table, m + 1, n)) = n - m
         /\ Graph!ToSet(SubSeq(table, m + 1, n)) = Between(table, m, n)
  <1>1. Len(table) \in Nat /\ \A i \in (m + 1)..n : table[i] \in S
    BY LenProperties, ElementOfSeq
  <1> DEFINE p == SubSeq(table, m + 1, n)
  <1>2. /\ p \in Seq(S)
        /\ Len(p) = IF m + 1 <= n THEN n - (m + 1) + 1 ELSE 0
        /\ \A i \in 1..(n - (m + 1) + 1) : p[i] = table[m + 1 + i - 1]
    BY <1>1, SubSeqProperties
  <1> HIDE DEF p
  <1>3. Len(p) = n - m /\ DOMAIN p = 1..(n - m) /\ \A i \in 1..(n - m) : p[i] = table[m + i]
    BY <1>1, <1>2, LenProperties
  <1>4. ASSUME NEW i \in (m + 1)..n PROVE i - m \in 1..(n - m) /\ p[i - m] = table[i]
    BY <1>1, <1>3
  <1>5. Graph!ToSet(p) = {p[i] : i \in 1..(n - m)}
    BY <1>3, Zenon DEF Graph!ToSet
  <1>6. Graph!ToSet(p) \subseteq Between(table, m, n)
    <2>1. ASSUME NEW i \in 1..(n - m) PROVE \E j \in (m + 1)..n : p[i] = table[j]
      <3>1. m + i \in (m + 1)..n
        BY <1>1
      <3>2. QED
        BY <1>3, <3>1
    <2>2. QED
      BY <1>5, <2>1 DEF Between
  <1>7. Between(table, m, n) \subseteq Graph!ToSet(p)
    <2>1. ASSUME NEW j \in (m + 1)..n PROVE \E i \in 1..(n - m) : p[i] = table[j]
      BY <1>4
    <2>2. QED
      BY <1>5, <2>1 DEF Between
  <1>8. QED
    BY <1>2, <1>3, <1>6, <1>7 DEF p

LEMMA RowsOfBoth ==
  ASSUME NEW S, NEW s \in Seq(S), NEW t \in Seq(S)
  PROVE  Graph!ToSet(s \o t) = Graph!ToSet(s) \cup Graph!ToSet(t)
  <1>1. Range(s \o t) = Range(s) \cup Range(t)
    BY RangeConcatenation
  <1>2. \A u : Graph!ToSet(u) = Range(u)
    BY Zenon DEF Graph!ToSet, Range
  <1>3. QED
    BY <1>1, <1>2, Zenon

LEMMA GraphStarts ==
  ASSUME NEW c, NEW size \in 1..Size, writes \in 0..MaxWrites, c = Graph!Start(size)
  PROVE  /\ c \in Graph!Client /\ c.since = writes /\ ~c.over /\ c.offset = 0 /\ c.pages = 0
         /\ c.seen = <<>>
  <1> DEFINE Of == 0..MaxPages
             Since == 0..MaxWrites
             Sizes == 1..Size
  <1>1. c = [size |-> size, offset |-> 0, seen |-> <<>>, pages |-> 0, over |-> FALSE, since |-> writes]
    BY Zenon DEF Graph!Start
  <1>2. 0 \in Of /\ writes \in Since /\ size \in Sizes /\ 0 \in Nat /\ <<>> \in Seq(Rows)
    BY GraphNumbers, EmptySeq
  <1>3. Graph!Client = [size : Sizes, offset : Nat, seen : Seq(Rows), pages : Of, over : BOOLEAN, since : Since]
    BY ClientIs, Zenon
  <1> HIDE DEF Of, Since, Sizes, Rows
  <1>4. c \in Graph!Client
    BY <1>1, <1>2, <1>3
  <1>5. QED
    BY <1>1, <1>4

\* What holds of both clients when they begin.
LEMMA GraphInit == Graph!Init => GraphInv
  <1> SUFFICES ASSUME Graph!Init PROVE GraphInv
    OBVIOUS
  <1>1. writes = 0 /\ entities \in EntityTables /\ relations \in RelationTables
    BY Zenon DEF Graph!Init
  <1>2. PICK size \in 1..Size : rest = Graph!Start(size)
    BY Zenon DEF Graph!Init
  <1>3. PICK other \in 1..Size : graphql = Graph!Start(other)
    BY Zenon DEF Graph!Init
  <1>4. writes \in 0..MaxWrites
    BY <1>1, GraphNumbers
  <1>5. /\ rest \in Graph!Client /\ rest.since = writes /\ ~rest.over /\ rest.offset = 0
        /\ rest.seen = <<>>
    BY <1>2, <1>4, GraphStarts, Zenon
  <1>6. /\ graphql \in Graph!Client /\ graphql.since = writes /\ ~graphql.over
        /\ graphql.offset = 0 /\ graphql.pages = 0 /\ graphql.seen = <<>>
    BY <1>3, <1>4, GraphStarts, Zenon
  <1>7. Graph!TypeOK
    BY <1>1, <1>4, <1>5, <1>6, Zenon DEF Graph!TypeOK
  <1>8. RestGoes
    <2>1. Len(entities) \in Nat
      BY <1>1, TablesAreRows, LenProperties
    <2>2. SubSeq(entities, 1, 0) = <<>>
      BY SubSeqEmpty
    <2>3. QED
      BY <1>5, <2>1, <2>2 DEF RestGoes
  <1>9. ConnectionGoes
    BY <1>6, EmptySeq DEF ConnectionGoes
  <1>10. QED
    BY <1>1, <1>5, <1>6, <1>7, <1>8, <1>9 DEF GraphInv


\* A client reads a page more.
Reading(c, page, offset, over) ==
  [c EXCEPT !.seen = c.seen \o page, !.pages = c.pages + 1, !.offset = offset, !.over = over]

LEMMA ReadOn ==
  ASSUME NEW c \in Graph!Client, NEW page \in Seq(Rows), NEW offset \in Nat, NEW over \in BOOLEAN,
         c.pages < MaxPages
  PROVE  /\ Reading(c, page, offset, over) \in Graph!Client
         /\ Reading(c, page, offset, over).since = c.since
         /\ Reading(c, page, offset, over).seen = c.seen \o page
         /\ Reading(c, page, offset, over).pages = c.pages + 1
         /\ Reading(c, page, offset, over).offset = offset
         /\ Reading(c, page, offset, over).over = over
  <1> DEFINE Of == 0..MaxPages
             Since == 0..MaxWrites
             Sizes == 1..Size
             d == Reading(c, page, offset, over)
  <1>1. Graph!Client = [size : Sizes, offset : Nat, seen : Seq(Rows), pages : Of, over : BOOLEAN, since : Since]
    BY ClientIs, Zenon
  <1>2. c.pages \in Of /\ c.seen \in Seq(Rows)
    BY <1>1
  <1>3. c.pages + 1 \in Of
    BY <1>2, GraphNumbers
  <1>4. c.seen \o page \in Seq(Rows)
    BY <1>2, ConcatProperties, Zenon
  <1> DEFINE long == c.seen \o page
             more == c.pages + 1
  <1>5. d = [c EXCEPT !.seen = long, !.pages = more, !.offset = offset, !.over = over]
    BY DEF Reading
  <1>6. long \in Seq(Rows) /\ more \in Of
    BY <1>3, <1>4
  <1> HIDE DEF Of, Since, Sizes, long, more, d
  <1>7. /\ d \in Graph!Client /\ d.since = c.since /\ d.seen = long
        /\ d.pages = more /\ d.offset = offset /\ d.over = over
    BY <1>1, <1>5, <1>6
  <1>8. QED
    BY <1>7 DEF long, more, d

\* The fields of the clients, and the tables, as sequences.
LEMMA GraphTyped ==
  ASSUME GraphInv
  PROVE  /\ entities \in Seq(Rows) /\ Len(entities) \in Nat
         /\ relations \in Seq(Rows) /\ Len(relations) \in Nat
         /\ rest \in Graph!Client /\ graphql \in Graph!Client
         /\ rest.size \in Nat \ {0} /\ rest.offset \in Nat /\ rest.seen \in Seq(Rows)
         /\ graphql.size \in Nat \ {0} /\ graphql.offset \in Nat /\ graphql.seen \in Seq(Rows)
         /\ graphql.pages \in Nat /\ Len(graphql.seen) \in Nat
         /\ writes \in Nat /\ rest.since \in Nat /\ graphql.since \in Nat
  <1>1. /\ entities \in EntityTables /\ relations \in RelationTables
        /\ rest \in Graph!Client /\ graphql \in Graph!Client /\ writes \in 0..MaxWrites
    BY Zenon DEF GraphInv, Graph!TypeOK
  <1>2. entities \in Seq(Rows) /\ relations \in Seq(Rows)
    BY <1>1, TablesAreRows, Zenon
  <1> HIDE DEF Rows
  <1>3. ASSUME NEW c \in Graph!Client
        PROVE  c.size \in Nat \ {0} /\ c.offset \in Nat /\ c.seen \in Seq(Rows) /\ c.pages \in Nat
                 /\ c.since \in Nat
    BY ClientIs, GraphNumbers
  <1>4. QED
    BY <1>1, <1>2, <1>3, LenProperties

LEMMA RestPageKeeps ==
  ASSUME GraphInv, Graph!RestPage
  PROVE  GraphInv'
  <1> HIDE DEF Rows
  <1> DEFINE page == Graph!Page(entities, rest.offset, rest.size)
             reach == rest.offset + rest.size
             end == reach >= Len(entities)
  <1>1. /\ ~rest.over /\ rest.pages < MaxPages
        /\ rest' = Reading(rest, page, reach, end)
        /\ entities' = entities /\ relations' = relations /\ graphql' = graphql /\ writes' = writes
    BY DEF Graph!RestPage, Graph!GetEntities, Reading
  <1>2. /\ entities \in Seq(Rows) /\ Len(entities) \in Nat /\ rest \in Graph!Client
        /\ rest.size \in Nat \ {0} /\ rest.offset \in Nat /\ rest.seen \in Seq(Rows)
    BY GraphTyped, Zenon
  <1>3. reach \in Nat /\ rest.offset <= reach /\ end \in BOOLEAN
    BY <1>2
  <1>4. /\ reach <= Len(entities) => page = SubSeq(entities, rest.offset + 1, reach)
        /\ reach >= Len(entities) => page = SubSeq(entities, rest.offset + 1, Len(entities))
    BY <1>2, PageIs, Zenon
  <1> HIDE DEF page, reach, end
  <1>5. page \in Seq(Rows)
    <2>1. CASE reach <= Len(entities)
      <3>1. page = SubSeq(entities, rest.offset + 1, reach) /\ reach \in rest.offset..Len(entities)
        BY <1>2, <1>3, <1>4, <2>1
      <3>2. QED
        BY <1>2, <3>1, PartRows, Zenon
    <2>2. CASE reach > Len(entities) /\ rest.offset <= Len(entities)
      <3>1. /\ page = SubSeq(entities, rest.offset + 1, Len(entities))
            /\ Len(entities) \in rest.offset..Len(entities)
        BY <1>2, <1>3, <1>4, <2>2
      <3>2. QED
        BY <1>2, <3>1, PartRows, Zenon
    <2>3. CASE reach > Len(entities) /\ rest.offset > Len(entities)
      <3>1. page = <<>>
        BY <1>2, <1>3, <1>4, <2>3, SubSeqEmpty
      <3>2. QED
        BY <3>1, EmptySeq
    <2>4. QED
      BY <1>2, <1>3, <2>1, <2>2, <2>3
  <1>6. /\ rest' \in Graph!Client /\ rest'.since = rest.since /\ rest'.seen = rest.seen \o page
        /\ rest'.offset = reach /\ rest'.over = end
        <2>1. /\ rest \in Graph!Client /\ page \in Seq(Rows) /\ reach \in Nat /\ end \in BOOLEAN
          /\ rest.pages < MaxPages
      BY <1>1, <1>2, <1>3, <1>5, Zenon
    <2> DEFINE d == Reading(rest, page, reach, end)
    <2>2. d \in Graph!Client /\ d.since = rest.since /\ d.seen = rest.seen \o page /\ d.offset = reach
      BY <2>1, ReadOn, ZenonT(60)
    <2>3. d.over = end
      BY <2>1, ReadOn, SMT
    <2>4. QED
      BY <1>1, <2>2, <2>3, Zenon
  <1>7. RestGoes'
    <2> SUFFICES ASSUME rest'.since = writes'
                 PROVE  IF rest'.over THEN rest'.seen = entities'
                        ELSE rest'.offset <= Len(entities') /\ rest'.seen = SubSeq(entities', 1, rest'.offset)
      BY Zenon DEF RestGoes
    <2>1. rest.offset <= Len(entities) /\ rest.seen = SubSeq(entities, 1, rest.offset)
      BY <1>1, <1>6 DEF GraphInv, RestGoes
    <2>2. ASSUME NEW n \in rest.offset..Len(entities)
          PROVE  SubSeq(entities, 1, rest.offset) \o SubSeq(entities, rest.offset + 1, n) = SubSeq(entities, 1, n)
      <3>1. /\ 1 \in 1..Len(entities) + 1 /\ rest.offset \in 1 - 1..Len(entities)
        BY <1>2, <2>1
      <3>2. QED
        BY <1>2, <3>1, <2>2, ConcatAdjacentSubSeq, Zenon
    <2>3. CASE reach >= Len(entities)
      <3>1. Len(entities) \in rest.offset..Len(entities)
        BY <1>2, <2>1
      <3>2. page = SubSeq(entities, rest.offset + 1, Len(entities))
        BY <1>4, <2>3, Zenon
      <3>3. rest'.seen = SubSeq(entities, 1, Len(entities))
        BY <1>6, <2>1, <2>2, <3>1, <3>2, Zenon
      <3>4. rest'.seen = entities /\ rest'.over
        BY <1>2, <1>6, <2>3, <3>3, SubSeqFull, Zenon DEF end
      <3>5. QED
        BY <1>1, <3>4, Zenon
    <2>4. CASE reach < Len(entities)
      <3>1. reach \in rest.offset..Len(entities) /\ reach <= Len(entities)
        BY <1>2, <1>3, <2>4
      <3>2. rest'.seen = SubSeq(entities, 1, reach)
        BY <1>4, <1>6, <2>1, <2>2, <3>1, Zenon
      <3>3. QED
        <4>1. ~end
          BY <1>2, <1>3, <2>4 DEF end
        <4>2. QED
          BY <1>1, <1>6, <3>1, <3>2, <4>1, Zenon
    <2>5. QED
      BY <1>2, <1>3, <2>3, <2>4
  <1>8. ConnectionGoes'
    BY <1>1, Zenon DEF GraphInv, ConnectionGoes
  <1>9. Graph!TypeOK'
    BY <1>1, <1>6, Zenon DEF GraphInv, Graph!TypeOK
  <1>10. QED
    BY <1>1, <1>6, <1>7, <1>8, <1>9, Zenon DEF GraphInv

LEMMA ConnectionPageKeeps ==
  ASSUME GraphInv, Graph!ConnectionPage
  PROVE  GraphInv'
  <1> HIDE DEF Rows
  <1> DEFINE page == Graph!Page(relations, graphql.offset, graphql.size)
             reach == graphql.offset + graphql.size
             next == IF page = <<>> THEN graphql.offset ELSE graphql.offset + Len(page) - 1
             end == ~(reach < Len(relations))
  <1>1. /\ ~graphql.over /\ graphql.pages < MaxPages
        /\ graphql' = Reading(graphql, page, next, end)
        /\ entities' = entities /\ relations' = relations /\ rest' = rest /\ writes' = writes
    BY DEF Graph!ConnectionPage, Graph!Relationships, Graph!HasNext, Reading
  <1>2. /\ relations \in Seq(Rows) /\ Len(relations) \in Nat /\ graphql \in Graph!Client
        /\ graphql.size \in Nat \ {0} /\ graphql.offset \in Nat /\ graphql.seen \in Seq(Rows)
        /\ graphql.pages \in Nat /\ Len(graphql.seen) \in Nat
    BY GraphTyped, Zenon
  <1>3. reach \in Nat /\ graphql.offset < reach /\ end \in BOOLEAN
    BY <1>2
  <1>4. /\ reach <= Len(relations) => page = SubSeq(relations, graphql.offset + 1, reach)
        /\ reach >= Len(relations) => page = SubSeq(relations, graphql.offset + 1, Len(relations))
    BY <1>2, PageIs, Zenon
  <1> HIDE DEF page, reach, next, end
  <1>5. reach < Len(relations) =>
          /\ page \in Seq(Rows) /\ Len(page) = graphql.size
          /\ Graph!ToSet(page) = Between(relations, graphql.offset, reach)
    <2> SUFFICES ASSUME reach < Len(relations)
                 PROVE  /\ page \in Seq(Rows) /\ Len(page) = graphql.size
                        /\ Graph!ToSet(page) = Between(relations, graphql.offset, reach)
      OBVIOUS
    <2>1. /\ page = SubSeq(relations, graphql.offset + 1, reach)
          /\ reach \in graphql.offset..Len(relations)
      BY <1>2, <1>3, <1>4
    <2>2. reach - graphql.offset = graphql.size
      BY <1>2, <1>3 DEF reach
    <2>3. relations \in Seq(Rows) /\ graphql.offset \in Nat
      BY <1>2, Zenon
    <2>4. QED
      BY <2>1, <2>2, <2>3, PartRows, ZenonT(30)
  <1>6. reach >= Len(relations) /\ graphql.offset <= Len(relations) =>
          /\ page \in Seq(Rows) /\ Len(page) = Len(relations) - graphql.offset
          /\ Graph!ToSet(page) = Between(relations, graphql.offset, Len(relations))
    <2> SUFFICES ASSUME reach >= Len(relations), graphql.offset <= Len(relations)
                 PROVE  /\ page \in Seq(Rows) /\ Len(page) = Len(relations) - graphql.offset
                        /\ Graph!ToSet(page) = Between(relations, graphql.offset, Len(relations))
      OBVIOUS
    <2>1. /\ page = SubSeq(relations, graphql.offset + 1, Len(relations))
          /\ Len(relations) \in graphql.offset..Len(relations)
      BY <1>2, <1>3, <1>4
    <2>2. QED
      <3>1. /\ relations \in Seq(Rows) /\ graphql.offset \in Nat
        BY <1>2, Zenon
      <3>2. QED
        BY <2>1, <3>1, PartRows, ZenonT(30)
  <1>7. graphql.offset > Len(relations) => page = <<>>
    BY <1>2, <1>3, <1>4, SubSeqEmpty
  <1>8. page \in Seq(Rows) /\ Len(page) \in Nat /\ (page # <<>> => Len(page) > 0)
    <2>1. page \in Seq(Rows)
      <3>1. \/ reach < Len(relations)
            \/ reach >= Len(relations) /\ graphql.offset <= Len(relations)
            \/ graphql.offset > Len(relations)
        BY <1>2, <1>3
      <3>2. QED
        BY <3>1, <1>5, <1>6, <1>7, EmptySeq, Zenon
    <2>2. QED
      BY <2>1, EmptySeq, LenProperties
  <1>9. next \in Nat
    BY <1>2, <1>8 DEF next
  <1>10. /\ graphql' \in Graph!Client /\ graphql'.since = graphql.since
         /\ graphql'.seen = graphql.seen \o page /\ graphql'.pages = graphql.pages + 1
         /\ graphql'.offset = next /\ graphql'.over = end
    <2>1. /\ graphql \in Graph!Client /\ page \in Seq(Rows) /\ next \in Nat /\ end \in BOOLEAN
          /\ graphql.pages < MaxPages
      BY <1>1, <1>2, <1>3, <1>8, <1>9, Zenon
    <2> DEFINE d == Reading(graphql, page, next, end)
    <2>2. d \in Graph!Client /\ d.since = graphql.since /\ d.seen = graphql.seen \o page
      BY <2>1, ReadOn, ZenonT(60)
    <2>3. d.pages = graphql.pages + 1 /\ d.offset = next
      BY <2>1, ReadOn
    <2>4. d.over = end
      BY <2>1, ReadOn, SMT
    <2>5. QED
      BY <1>1, <2>2, <2>3, <2>4, Zenon
  <1>11. /\ Len(graphql'.seen) = Len(graphql.seen) + Len(page)
         /\ Graph!ToSet(graphql'.seen) = Graph!ToSet(graphql.seen) \cup Graph!ToSet(page)
    <2>1. /\ Len(graphql.seen \o page) = Len(graphql.seen) + Len(page)
          /\ Graph!ToSet(graphql.seen \o page) = Graph!ToSet(graphql.seen) \cup Graph!ToSet(page)
      <3>1. graphql.seen \in Seq(Rows) /\ page \in Seq(Rows)
        BY <1>2, <1>8, Zenon
      <3>2. QED
        BY <3>1, ConcatProperties, RowsOfBoth
    <2>2. QED
      BY <1>10, <2>1, Zenon
  <1>12. ConnectionGoes'
    <2> SUFFICES ASSUME graphql'.since = writes' PROVE ConnectionGoes'
      BY Zenon DEF ConnectionGoes
    <2>1. /\ Len(graphql.seen) = graphql.offset + graphql.pages
          /\ graphql.pages = 0 => graphql.offset = 0
          /\ graphql.pages > 0 => /\ graphql.offset + 1 < Len(relations)
                                  /\ Graph!ToSet(graphql.seen) = Between(relations, 0, graphql.offset + 1)
      BY <1>1, <1>10 DEF GraphInv, ConnectionGoes
    <2>2. graphql.offset <= Len(relations)
      BY <1>2, <2>1
    <2>3. ASSUME NEW m \in graphql.offset..Len(relations), Graph!ToSet(page) = Between(relations, graphql.offset, m),
                 m > graphql.offset \/ graphql.pages = 0
          PROVE  Graph!ToSet(graphql'.seen) = Between(relations, 0, m)
      <3>1. CASE graphql.pages = 0
        <4>1. Graph!ToSet(graphql.seen) = {}
          <5>1. Len(graphql.seen) = 0
            BY <2>1, <3>1
          <5>2. DOMAIN graphql.seen = 1..Len(graphql.seen)
            BY <1>2, LenProperties, Zenon
          <5>3. DOMAIN graphql.seen = {}
            BY <5>1, <5>2
          <5>4. QED
            BY <5>3, Zenon DEF Graph!ToSet
        <4>2. Between(relations, graphql.offset, m) = Between(relations, 0, m)
          <5>1. (graphql.offset + 1)..m = (0 + 1)..m
            BY <2>1, <3>1
          <5>2. QED
            BY <5>1, Zenon DEF Between
        <4>3. QED
          BY <1>11, <2>3, <4>1, <4>2
      <3>2. CASE graphql.pages > 0
        <4>1. m > graphql.offset
          BY <1>2, <2>3, <3>2
        <4>2. (0 + 1)..m = ((0 + 1)..(graphql.offset + 1)) \cup ((graphql.offset + 1)..m)
          BY <1>2, <4>1
        <4>3. Between(relations, 0, graphql.offset + 1) \cup Between(relations, graphql.offset, m) = Between(relations, 0, m)
          BY <4>2, Zenon DEF Between
        <4>4. QED
          BY <1>11, <2>1, <2>3, <3>2, <4>3
      <3>3. QED
        BY <1>2, <3>1, <3>2
    <2>4. CASE reach < Len(relations)
      <3>1. /\ Len(page) = graphql.size /\ Graph!ToSet(page) = Between(relations, graphql.offset, reach)
            /\ reach \in graphql.offset..Len(relations) /\ reach > graphql.offset
        BY <1>2, <1>3, <1>5, <2>4
      <3>2. next = graphql.offset + graphql.size - 1 /\ next + 1 = reach
        <4>1. page # <<>>
          BY <1>2, <3>1, EmptySeq
        <4>2. QED
          BY <1>2, <3>1, <4>1 DEF next, reach
      <3>3. Graph!ToSet(graphql'.seen) = Between(relations, 0, next + 1)
        BY <2>3, <3>1, <3>2
      <3>4. Len(graphql'.seen) = next + (graphql.pages + 1)
        <4>1. Len(graphql'.seen) = graphql.offset + graphql.pages + graphql.size
          BY <1>11, <2>1, <3>1, Zenon
        <4>2. graphql.offset \in Nat /\ graphql.pages \in Nat /\ graphql.size \in Nat
          BY <1>2
        <4>3. ASSUME NEW o \in Nat, NEW k \in Nat, NEW z \in Nat, NEW n, n = o + z - 1
              PROVE  o + k + z = n + (k + 1)
          BY <4>3
        <4>4. graphql.offset + graphql.pages + graphql.size = next + (graphql.pages + 1)
          <5> HIDE DEF next
          <5>1. QED
            BY <3>2, <4>2, <4>3
        <4>5. QED
          BY <4>1, <4>4, Zenon
      <3>5. next + 1 < Len(relations) /\ graphql.pages + 1 # 0
        BY <1>2, <2>4, <3>2
      <3>6. ~graphql'.over
        BY <1>10, <2>4 DEF end
      <3>7. QED
        BY <1>1, <1>10, <3>3, <3>4, <3>5, <3>6, Zenon DEF ConnectionGoes
    <2>5. CASE reach >= Len(relations)
      <3>1. /\ Len(page) = Len(relations) - graphql.offset /\ Graph!ToSet(page) = Between(relations, graphql.offset, Len(relations))
        BY <1>6, <2>2, <2>5
      <3>2. Len(relations) \in graphql.offset..Len(relations) /\ (Len(relations) > graphql.offset \/ graphql.pages = 0)
        BY <1>2, <2>1, <2>2
      <3>3. Graph!ToSet(graphql'.seen) = Between(relations, 0, Len(relations))
        BY <2>3, <3>1, <3>2
      <3>4. Between(relations, 0, Len(relations)) = Graph!ToSet(relations)
        <4>1. DOMAIN relations = 1..Len(relations)
          BY <1>2, LenProperties
        <4>2. DOMAIN relations = (0 + 1)..Len(relations)
          BY <4>1
        <4>3. QED
          BY <4>2, Zenon DEF Between, Graph!ToSet
      <3>5. Len(graphql'.seen) + 1 = Len(relations) + (graphql.pages + 1)
        BY <1>2, <1>11, <2>1, <3>1, SMTT(60)
      <3>6. graphql'.over
        <4>1. end
          BY <1>2, <1>3, <2>5 DEF end
        <4>2. QED
          BY <1>10, <4>1, Zenon
      <3>7. QED
        BY <1>1, <1>10, <3>3, <3>4, <3>5, <3>6, Zenon DEF ConnectionGoes
    <2>6. QED
      BY <1>2, <1>3, <2>4, <2>5
  <1>13. RestGoes'
    BY <1>1, Zenon DEF GraphInv, RestGoes
  <1>14. Graph!TypeOK'
    BY <1>1, <1>10, Zenon DEF GraphInv, Graph!TypeOK
  <1>15. QED
    BY <1>1, <1>10, <1>12, <1>13, <1>14, Zenon DEF GraphInv

LEMMA WriteKeeps ==
  ASSUME GraphInv, Graph!WriteEntities \/ Graph!WriteRelations
  PROVE  GraphInv'
  <1>1. /\ writes < MaxWrites /\ writes' = writes + 1
        /\ entities' \in EntityTables /\ relations' \in RelationTables
        /\ rest' = rest /\ graphql' = graphql
    BY Zenon DEF GraphInv, Graph!TypeOK, Graph!WriteEntities, Graph!WriteRelations
  <1>2. /\ writes \in 0..MaxWrites /\ rest.since \in Nat /\ graphql.since \in Nat
        /\ rest.since <= writes /\ graphql.since <= writes
        /\ rest \in Graph!Client /\ graphql \in Graph!Client
    BY GraphTyped, Zenon DEF GraphInv, Graph!TypeOK
  <1>3. /\ writes' \in 0..MaxWrites /\ rest'.since < writes' /\ graphql'.since < writes'
    BY <1>1, <1>2, GraphNumbers
  <1>4. rest'.since <= writes' /\ graphql'.since <= writes' /\ rest'.since # writes' /\ graphql'.since # writes'
    BY <1>1, <1>2, <1>3, GraphNumbers
  <1>5. RestGoes' /\ ConnectionGoes'
    BY <1>4, Zenon DEF RestGoes, ConnectionGoes
  <1>6. Graph!TypeOK'
    BY <1>1, <1>2, <1>3, Zenon DEF Graph!TypeOK
  <1>7. QED
    BY <1>4, <1>5, <1>6, Zenon DEF GraphInv

LEMMA BeginKeeps ==
  ASSUME GraphInv, Graph!BeginAgain
  PROVE  GraphInv'
  <1>1. PICK size \in 1..Size :
          \/ rest' = Graph!Start(size) /\ graphql' = graphql
          \/ graphql' = Graph!Start(size) /\ rest' = rest
    BY Zenon DEF Graph!BeginAgain
  <1>2. entities' = entities /\ relations' = relations /\ writes' = writes
    BY Zenon DEF Graph!BeginAgain
  <1>3. /\ writes \in 0..MaxWrites /\ writes \in Nat /\ Len(entities) \in Nat
        /\ rest \in Graph!Client /\ graphql \in Graph!Client
        /\ entities \in EntityTables /\ relations \in RelationTables
    BY GraphTyped, Zenon DEF GraphInv, Graph!TypeOK
  <1>4. rest' = Graph!Start(size) =>
          /\ rest' \in Graph!Client /\ rest'.since = writes /\ ~rest'.over /\ rest'.offset = 0
          /\ rest'.seen = <<>>
    BY <1>3, GraphStarts, Zenon
  <1>5. graphql' = Graph!Start(size) =>
          /\ graphql' \in Graph!Client /\ graphql'.since = writes /\ ~graphql'.over
          /\ graphql'.offset = 0 /\ graphql'.pages = 0 /\ graphql'.seen = <<>>
    BY <1>3, GraphStarts, Zenon
  <1>6. RestGoes'
    <2>1. CASE rest' = rest
      BY <1>2, <2>1, Zenon DEF GraphInv, RestGoes
    <2>2. CASE rest' = Graph!Start(size)
      <3>1. SubSeq(entities, 1, 0) = <<>>
        BY SubSeqEmpty
      <3>2. /\ ~rest'.over /\ rest'.offset <= Len(entities')
            /\ rest'.seen = SubSeq(entities', 1, rest'.offset)
        <4>1. Len(entities') >= 0 /\ rest'.offset = 0 /\ rest'.seen = <<>> /\ ~rest'.over
          BY <1>2, <1>3, <1>4, <2>2
        <4>2. SubSeq(entities', 1, rest'.offset) = <<>>
          BY <1>2, <3>1, <4>1, Zenon
        <4>3. rest'.offset <= Len(entities')
          BY <4>1, <1>2, <1>3
        <4>4. QED
          BY <4>1, <4>2, <4>3, Zenon
      <3>3. QED
        BY <3>2, Zenon DEF RestGoes
    <2>3. QED
      BY <1>1, <2>1, <2>2
  <1>7. ConnectionGoes'
    <2>1. CASE graphql' = graphql
      BY <1>2, <2>1, Zenon DEF GraphInv, ConnectionGoes
    <2>2. CASE graphql' = Graph!Start(size)
      <3>1. Len(graphql'.seen) = 0
        BY <1>5, <2>2, EmptySeq
      <3>2. /\ ~graphql'.over /\ graphql'.offset = 0 /\ graphql'.pages = 0
            /\ Len(graphql'.seen) = graphql'.offset + graphql'.pages /\ ~(graphql'.pages > 0)
        BY <1>5, <2>2, <3>1
      <3>3. QED
        BY <3>2, Zenon DEF ConnectionGoes
    <2>3. QED
      BY <1>1, <2>1, <2>2
  <1>8. /\ rest' \in Graph!Client /\ graphql' \in Graph!Client
        /\ rest'.since <= writes' /\ graphql'.since <= writes'
    BY <1>1, <1>2, <1>3, <1>4, <1>5 DEF GraphInv
  <1>9. Graph!TypeOK'
    BY <1>2, <1>3, <1>8, Zenon DEF Graph!TypeOK
  <1>10. QED
    BY <1>6, <1>7, <1>8, <1>9, Zenon DEF GraphInv

LEMMA GraphStep ==
  ASSUME GraphInv, Graph!Next
  PROVE  GraphInv'
  BY RestPageKeeps, ConnectionPageKeeps, WriteKeeps, BeginKeeps, Zenon DEF Graph!Next

LEMMA GraphSame ==
  ASSUME GraphInv, UNCHANGED GraphVars
  PROVE  GraphInv'
  BY Zenon DEF GraphVars, GraphInv, Graph!TypeOK, RestGoes, ConnectionGoes

\* What the invariant says of a client that has come to the end.
LEMMA PagesAreComplete == GraphInv => Graph!PagesComplete
  BY Zenon DEF GraphInv, RestGoes, ConnectionGoes, Graph!PagesComplete

\* What holds of the clients that page through the tables.
THEOREM GraphInvariant == ServicesSpec => []GraphInv
  <1>1. ServicesInit => GraphInv
    BY GraphInit, Zenon DEF ServicesInit
  <1>2. GraphInv /\ [ServicesNext]_ServicesVars => GraphInv'
    BY OneAnswerMoves, GraphStep, GraphSame, Zenon
  <1>3. QED
    BY <1>1, <1>2, PTL DEF ServicesSpec

\* A client that pages to the end of a table that nobody writes meanwhile has every row:
\* of the route query_entities once and in order, of the field relationships with one row
\* again for each page after the first.
THEOREM PagesAreWhole == ServicesSpec => []PagesComplete
  <1>1. GraphInv => PagesComplete
    BY PagesAreComplete, Zenon DEF PagesComplete
  <1>2. QED
    BY <1>1, GraphInvariant, PTL

---------------------------------------------------------------------------
(* The batches of the loader, and the types of these parts.                *)

\* The loads of a batch have the keys they were made for.
KeysOf(b) == \A n \in DOMAIN b : key[b[n]] \in Keys

LoaderInv ==
  /\ Loader!TypeOK
  /\ KeysOf(batch) /\ \A b \in inflight : KeysOf(b)

LEMMA LoaderInit == Loader!Init => LoaderInv
  <1> SUFFICES ASSUME Loader!Init PROVE LoaderInv
    OBVIOUS
  <1>1. /\ key = [l \in Loads |-> NoKey] /\ on = [l \in Loads |-> NoLoad]
        /\ future = [l \in Loads |-> "none"] /\ cache = {} /\ batch = <<>> /\ ticking = FALSE
        /\ inflight = {} /\ answered = {}
    BY Zenon DEF Loader!Init
  <1>2. /\ key \in [Loads -> Keys \cup {NoKey}] /\ on \in [Loads -> Loads \cup {NoLoad}]
        /\ future \in [Loads -> {"none", "pending", "result", "error", "cancelled"}]
    BY <1>1
  <1>3. batch \in Seq(Loads) /\ DOMAIN batch = {}
    BY <1>1, EmptySeq
  <1>5. ticking = (batch # <<>>)
    BY <1>1, Zenon
  <1>4. QED
    BY <1>1, <1>2, <1>3, <1>5 DEF LoaderInv, Loader!TypeOK, KeysOf

\* A key that a load was made for stays with it.
LEMMA KeysStay ==
  ASSUME NEW b \in Seq(Loads), KeysOf(b),
         key \in [Loads -> Keys \cup {NoKey}],
         key' = key \/ \E l \in Loads, k \in Keys : key' = [key EXCEPT ![l] = k]
  PROVE  KeysOf(b)'
  <1>1. ASSUME NEW n \in DOMAIN b PROVE key'[b[n]] \in Keys
    <2>1. b[n] \in Loads /\ key[b[n]] \in Keys
      BY LenProperties, ElementOfSeq DEF KeysOf
    <2>2. QED
      BY <2>1
  <1>2. QED
    BY <1>1 DEF KeysOf

\* A load is made, or takes part in one.
LEMMA LoadKeeps ==
  ASSUME LoaderInv, NEW l \in Loads, NEW k \in Keys,
         Loader!Hit(l, k) \/ Loader!Join(l, k) \/ Loader!Enqueue(l, k)
  PROVE  LoaderInv'
  <1> DEFINE States == {"none", "pending", "result", "error", "cancelled"}
             Ons == Loads \cup {NoLoad}
             Known == Keys \cup {NoKey}
  <1>1. /\ key \in [Loads -> Known] /\ on \in [Loads -> Ons] /\ future \in [Loads -> States]
        /\ cache \subseteq Keys /\ batch \in Seq(Loads) /\ ticking = (batch # <<>>)
        /\ inflight \subseteq Seq(Loads) /\ answered \subseteq Seq(Loads)
        /\ KeysOf(batch) /\ \A b \in inflight : KeysOf(b)
    BY DEF LoaderInv, Loader!TypeOK
  <1>2. /\ key' = [key EXCEPT ![l] = k] /\ cache' = cache /\ inflight' = inflight /\ answered' = answered
        /\ \/ on' = on \/ \E first \in Loader!Batched(k) : on' = [on EXCEPT ![l] = first]
           \/ on' = [on EXCEPT ![l] = l]
        /\ future' = future \/ future' = [future EXCEPT ![l] = "pending"]
        /\ \/ batch' = batch /\ ticking' = ticking
           \/ batch' = Append(batch, l) /\ ticking' = TRUE
    BY Zenon DEF Loader!Hit, Loader!Join, Loader!Enqueue
  <1>3. Loader!Batched(k) \subseteq Loads
    <2>1. Loader!ToSet(batch) \subseteq Loads
      BY <1>1, LenProperties, ElementOfSeq DEF Loader!ToSet
    <2>2. QED
      BY <2>1 DEF Loader!Batched
  <1>4. key' \in [Loads -> Known] /\ on' \in [Loads -> Ons]
    BY <1>1, <1>2, <1>3
  <1>5. future' \in [Loads -> States]
    BY <1>1, <1>2
  <1>6. /\ batch' \in Seq(Loads) /\ ticking' = (batch' # <<>>)
    <2>1. Append(batch, l) \in Seq(Loads) /\ Append(batch, l) # <<>>
      BY <1>1, AppendProperties
    <2>2. QED
      BY <1>1, <1>2, <2>1
  <1>7. KeysOf(batch)' /\ \A b \in inflight' : KeysOf(b)'
    <2>1. ASSUME NEW b \in Seq(Loads), KeysOf(b) PROVE KeysOf(b)'
      BY <1>1, <1>2, <2>1, KeysStay, Zenon
    <2>2. \A b \in inflight' : KeysOf(b)'
      BY <1>1, <1>2, <2>1
    <2>3. \A n \in DOMAIN batch : key'[batch[n]] \in Keys
      BY <1>1, <2>1 DEF KeysOf
    <2>4. CASE batch' = batch
      BY <2>2, <2>3, <2>4 DEF KeysOf
    <2>5. CASE batch' = Append(batch, l)
      <3>1. /\ Len(batch) \in Nat /\ DOMAIN batch = 1..Len(batch)
            /\ DOMAIN batch' = 1..Len(batch) + 1
            /\ \A n \in 1..Len(batch) : batch'[n] = batch[n]
            /\ batch'[Len(batch) + 1] = l
        BY <1>1, <1>6, <2>5, AppendProperties, LenProperties
      <3>2. key'[l] = k
        BY <1>1, <1>2
      <3>3. \A n \in DOMAIN batch' : key'[batch'[n]] \in Keys
        BY <2>3, <3>1, <3>2
      <3>4. QED
        BY <2>2, <3>3 DEF KeysOf
    <2>6. QED
      BY <1>2, <2>4, <2>5
  <1>8. QED
    BY <1>1, <1>2, <1>4, <1>5, <1>6, <1>7 DEF LoaderInv, Loader!TypeOK

LEMMA LoaderStep ==
  ASSUME LoaderInv, Loader!Next
  PROVE  LoaderInv'
  <1> DEFINE States == {"none", "pending", "result", "error", "cancelled"}
             Ons == Loads \cup {NoLoad}
             Known == Keys \cup {NoKey}
  <1>1. /\ key \in [Loads -> Known] /\ on \in [Loads -> Ons] /\ future \in [Loads -> States]
        /\ cache \subseteq Keys /\ batch \in Seq(Loads) /\ ticking = (batch # <<>>)
        /\ inflight \subseteq Seq(Loads) /\ answered \subseteq Seq(Loads)
        /\ KeysOf(batch) /\ \A b \in inflight : KeysOf(b)
    BY DEF LoaderInv, Loader!TypeOK
  <1>2. ASSUME NEW l \in Loads, NEW k \in Keys,
               Loader!Hit(l, k) \/ Loader!Join(l, k) \/ Loader!Enqueue(l, k)
        PROVE  LoaderInv'
    BY <1>2, LoadKeeps, Zenon
  <1>3. ASSUME key' = key, on' = on, future' \in [Loads -> States], cache' \subseteq Keys,
               batch' \in Seq(Loads), ticking' = (batch' # <<>>),
               inflight' \subseteq Seq(Loads), answered' \subseteq Seq(Loads),
               batch' = batch \/ batch' = <<>>, inflight' \subseteq inflight \cup {batch}
        PROVE  LoaderInv'
    <2>1. \A b : KeysOf(b)' <=> KeysOf(b)
      BY <1>3, Zenon DEF KeysOf
    <2>2. KeysOf(<<>>)
      <3>1. DOMAIN <<>> = {}
        OBVIOUS
      <3>2. QED
        BY <3>1 DEF KeysOf
    <2>3. \A b \in inflight' : KeysOf(b)'
      BY <1>1, <1>3, <2>1
    <2>4. \A n \in DOMAIN batch' : key'[batch'[n]] \in Keys
      BY <1>1, <1>3, <2>2 DEF KeysOf
    <2>5. KeysOf(batch)'
      BY <2>4, Zenon DEF KeysOf
    <2>6. Loader!TypeOK'
      BY <1>1, <1>3, Zenon DEF Loader!TypeOK
    <2>7. QED
      BY <2>3, <2>5, <2>6, Zenon DEF LoaderInv
  <1> DEFINE Same == key' = key /\ on' = on /\ batch' = batch /\ ticking' = ticking
  <1>4. ASSUME NEW l \in Loads, Loader!Cancel(l) PROVE LoaderInv'
    <2>1. /\ Same /\ cache' = cache /\ inflight' = inflight /\ answered' = answered
          /\ future' = [future EXCEPT ![on[l]] = "cancelled"]
      BY <1>4, Zenon DEF Loader!Cancel
    <2>2. future' \in [Loads -> States]
      BY <1>1, <2>1
    <2>3. QED
      BY <1>1, <1>3, <2>1, <2>2
  <1>5. CASE Loader!Dispatch
    <2>1. /\ key' = key /\ on' = on /\ future' = future /\ cache' = cache /\ answered' = answered
          /\ inflight' = inflight \cup {batch} /\ batch' = <<>> /\ ticking' = FALSE
      BY <1>5, Zenon DEF Loader!Dispatch
    <2>2. batch' \in Seq(Loads) /\ inflight' \subseteq Seq(Loads)
      BY <1>1, <2>1, EmptySeq
    <2>3. ticking' = (batch' # <<>>)
      BY <2>1, Zenon
    <2>4. QED
      BY <1>1, <1>3, <2>1, <2>2, <2>3
  <1>6. ASSUME NEW b \in inflight, NEW state1 \in {"result", "error"}, Loader!Settle(b, state1)
        PROVE  future' \in [Loads -> States] /\ inflight' \subseteq inflight /\ answered' \subseteq Seq(Loads)
    <2>1. /\ future' = [l \in Loads |-> IF \E n \in 1..(Loader!Break(b) - 1) : b[n] = l THEN state1 ELSE future[l]]
          /\ inflight' = inflight \ {b} /\ answered' = answered \cup {b}
      BY <1>6, Zenon DEF Loader!Settle
    <2>2. \A l \in Loads : state1 \in States /\ future[l] \in States
      BY <1>1
    <2> DEFINE Set(l) == \E n \in 1..(Loader!Break(b) - 1) : b[n] = l
    <2> HIDE DEF Set, States
    <2>3. future' = [l \in Loads |-> IF Set(l) THEN state1 ELSE future[l]]
      BY <2>1 DEF Set
    <2>4. future' \in [Loads -> States]
      BY <2>2, <2>3
    <2>5. QED
      BY <1>1, <2>1, <2>4
  <1>7. ASSUME NEW b \in inflight, Loader!Answer(b) PROVE LoaderInv'
    <2>1. /\ Loader!Settle(b, "result") /\ Same
          /\ cache' = cache \cup {key[b[n]] : n \in {m \in DOMAIN b : m <= Loader!Break(b)}}
      BY <1>7, Zenon DEF Loader!Answer
    <2>2. future' \in [Loads -> States] /\ inflight' \subseteq inflight /\ answered' \subseteq Seq(Loads)
      BY <1>6, <2>1
    <2>3. \A n \in DOMAIN b : key[b[n]] \in Keys
      BY <1>1, Zenon DEF KeysOf
    <2>4. cache' \subseteq Keys
      BY <1>1, <2>1, <2>3
    <2>5. QED
      BY <1>1, <1>3, <2>1, <2>2, <2>4
  <1>8. ASSUME NEW b \in inflight, Loader!Fail(b) PROVE LoaderInv'
    <2>1. Loader!Settle(b, "error") /\ Same /\ cache' = cache
      BY <1>8, Zenon DEF Loader!Fail
    <2>2. future' \in [Loads -> States] /\ inflight' \subseteq inflight /\ answered' \subseteq Seq(Loads)
      BY <1>6, <2>1
    <2>3. QED
      BY <1>1, <1>3, <2>1, <2>2
  <1>9. ASSUME NEW S, Loader!Clear(S) PROVE LoaderInv'
    <2>1. Same /\ cache' = cache \ S /\ future' = future /\ inflight' = inflight /\ answered' = answered
      BY <1>9, Zenon DEF Loader!Clear
    <2>2. QED
      BY <1>1, <1>3, <2>1
  <1>10. QED
    BY <1>2, <1>4, <1>5, <1>7, <1>8, <1>9, Zenon DEF Loader!Next

LEMMA LoaderSame ==
  ASSUME LoaderInv, UNCHANGED LoaderVars
  PROVE  LoaderInv'
  BY Zenon DEF LoaderVars, LoaderInv, Loader!TypeOK, KeysOf

LEMMA LargeTyped ==
  /\ Large!Init => Large!TypeOK
  /\ Large!TypeOK /\ (Large!Next \/ UNCHANGED LargeVars) => Large!TypeOK'
  <1>1. ASSUME Large!Init PROVE Large!TypeOK
    <2>1. rows = <<>> /\ short = FALSE
      BY <1>1, Zenon DEF Large!Init
    <2>2. rows \in Seq(Values) /\ Len(rows) = 0
      BY <2>1, EmptySeq
    <2>3. Len(rows) <= MaxRows
      BY <2>2, ServicesAssumption DEF Large!LargeAssumption
    <2>4. short \in BOOLEAN
      BY <2>1, Zenon
    <2>5. QED
      BY <2>2, <2>3, <2>4, Zenon DEF Large!TypeOK
  <1>2. ASSUME Large!TypeOK, Large!Next \/ UNCHANGED LargeVars PROVE Large!TypeOK'
    <2>1. CASE UNCHANGED LargeVars
      BY <1>2, <2>1, Zenon DEF LargeVars, Large!TypeOK
    <2>2. CASE Large!MemoryChanges
      BY <1>2, <2>2 DEF Large!MemoryChanges, Large!TypeOK
    <2>3. ASSUME NEW v \in Values, Large!Grow(v) PROVE Large!TypeOK'
      <3>1. /\ rows \in Seq(Values) /\ Len(rows) < MaxRows /\ short \in BOOLEAN
            /\ rows' = Append(rows, v) /\ short' = short
        BY <1>2, <2>3 DEF Large!TypeOK, Large!Grow
      <3>2. rows' \in Seq(Values) /\ Len(rows') = Len(rows) + 1 /\ Len(rows) \in Nat
        BY <3>1, AppendProperties, LenProperties
      <3>3. Len(rows') <= MaxRows
        BY <3>1, <3>2, ServicesAssumption DEF Large!LargeAssumption
      <3>4. QED
        BY <3>1, <3>2, <3>3, Zenon DEF Large!TypeOK
    <2>4. QED
      BY <1>2, <2>1, <2>2, <2>3 DEF Large!Next
  <1>3. QED
    BY <1>1, <1>2

LEMMA ProgressTyped == ProgressInv => Progress!TypeOK
  <1>1. Progress!Stages = 1..8
    BY DEF Progress!Stages, Progress!Weight
  <1>2. Progress!Job = [status : Statuses, retries : 0..MaxRetries, stage : 1..8, step : 0..10,
                        overall : 0..Progress!Whole]
    BY <1>1, Zenon DEF Progress!Job, Statuses
  <1>3. QED
    BY <1>2, Zenon DEF ProgressInv, JobFair, FreshFair, Progress!TypeOK

LEMMA ResultsTyped == ResultInv => Results!TypeOK
  <1> SUFFICES ASSUME ResultInv PROVE Results!TypeOK
    OBVIOUS
  <1>1. /\ hour \in 0..MaxHour /\ clears \in 0..MaxClears
        /\ replies \in [Entities -> Nat \cup {NoResult}] /\ asking \in [Askers -> Askings]
        /\ FramesCurrent /\ RepliesPast
    BY Zenon DEF ResultInv
  <1>2. \A t \in Topics : Results!Cached(frames, t) => frames[t].read <= hour /\ frames[t].clears = clears
    BY <1>1, Zenon DEF FramesCurrent, Results!Cached
  <1>3. \A e \in Entities : Results!Cached(replies, e) => replies[e] \in 0..hour
    <2>1. \A e \in Entities : replies[e] # NoResult => replies[e] \in Nat /\ replies[e] <= hour
      BY <1>1 DEF RepliesPast
    <2>2. QED
      BY <1>1, <2>1, ResultNumbers DEF Results!Cached
  <1>4. \A a \in Askers : asking[a].at \in {"rest", "connection", "loader", "loaded"}
    <2>1. Results!Rested.at = "rest"
      BY DEF Results!Rested
    <2>2. \A x \in Askings : x.at \in {"rest", "connection", "loader", "loaded"}
      BY <2>1 DEF Askings
    <2>3. QED
      BY <1>1, <2>2
  <1>5. QED
    BY <1>1, <1>2, <1>3, <1>4, Zenon DEF Results!TypeOK

LEMMA RedisTyped == RedisInv => Redis!TypeOK
  <1> SUFFICES ASSUME RedisInv PROVE Redis!TypeOK
    OBVIOUS
  <1>1. /\ linked \in BOOLEAN /\ sets \in 0..MaxSets
        /\ server \in [Redis!CacheKeys -> Nat \cup {Nothing}]
        /\ work \in [Invalidators -> Works \cup {Nothing}]
        /\ Stored /\ \A i \in Invalidators : WorkSound(i)
    BY Zenon DEF RedisInv
  <1>2. \A k \in Redis!CacheKeys : server[k] # Nothing => server[k] \in 1..sets
    BY <1>1 DEF Stored
  <1>3. \A i \in Invalidators : Redis!Working(i) => work[i].id \in Ids /\ work[i].began <= sets
    BY <1>1 DEF Redis!Working, WorkSound, Works
  <1>4. QED
    BY <1>1, <1>2, <1>3, Zenon DEF Redis!TypeOK

\* The types of these parts.
AnswerTypesOK ==
  /\ Loader!TypeOK /\ Cache!TypeOK /\ Graph!TypeOK /\ Progress!TypeOK
  /\ Results!TypeOK /\ Redis!TypeOK /\ Large!TypeOK

LEMMA AnswersTyped == ServicesSpec => []AnswerTypesOK
  <1>1. ServicesInit => LoaderInv /\ Large!TypeOK
    BY LoaderInit, LargeTyped, Zenon DEF ServicesInit
  <1>2. LoaderInv /\ Large!TypeOK /\ [ServicesNext]_ServicesVars => LoaderInv' /\ Large!TypeOK'
    BY OneAnswerMoves, LoaderStep, LoaderSame, LargeTyped, Zenon
  <1>3. LoaderInv /\ Large!TypeOK /\ CacheInv /\ GraphInv /\ ProgressInv /\ ResultInv /\ RedisInv => AnswerTypesOK
    BY CacheAgrees, ProgressTyped, ResultsTyped, RedisTyped, Zenon DEF AnswerTypesOK, LoaderInv, GraphInv
  <1>4. QED
    BY <1>1, <1>2, <1>3, CacheInvariant, GraphInvariant, ProgressInvariant, ResultInvariant,
       RedisInvariant, PTL DEF ServicesSpec

=============================================================================
