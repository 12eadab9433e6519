------------------------- MODULE TrafficRecorderProofs -------------------------
(***************************************************************************)
(* Proofs about TrafficRecorder for any queue size, replay limit, sample   *)
(* and number of events, write errors and restarts.                        *)
(***************************************************************************)
EXTENDS TrafficRecorder, TLAPS

Elements(s) == {s[i] : i \in 1 .. Len(s)}
Increasing(s) == \A i, j \in 1 .. Len(s) : i < j => s[i] < s[j]
AllBelow(s, n) == \A i \in 1 .. Len(s) : s[i] < n
Numbers == Nat \ {0}
Replays == [on : BOOLEAN, builtin : BOOLEAN, loaded : Nat, sent : Nat, ok : Nat]

\* What the writer has still to write is numbered in order, and every number
\* has been given out.
InOrder ==
  /\ Increasing(queue) /\ AllBelow(queue, accepted + 1)
  /\ Increasing(file) /\ AllBelow(file, accepted + 1)
  /\ hand <= accepted
  /\ hand # 0 => AllBelow(file, hand) /\ \A j \in 1 .. Len(queue) : hand < queue[j]
  /\ \A i \in 1 .. Len(file), j \in 1 .. Len(queue) : file[i] < queue[j]

-----------------------------------------------------------------------------
(* Sequences of event numbers *)

\* What appending a number does to a sequence.
LEMMA AppendFacts ==
  ASSUME NEW s \in Seq(Numbers), NEW n \in Numbers
  PROVE  /\ Append(s, n) \in Seq(Numbers) /\ Len(Append(s, n)) = Len(s) + 1
         /\ \A i \in 1 .. Len(s) : Append(s, n)[i] = s[i]
         /\ Append(s, n)[Len(s) + 1] = n
         /\ \A i \in 1 .. Len(s) + 1 : i \in 1 .. Len(s) \/ i = Len(s) + 1
         /\ Elements(Append(s, n)) = Elements(s) \union {n}
<1>1. /\ Append(s, n) \in Seq(Numbers) /\ Len(Append(s, n)) = Len(s) + 1 /\ Len(s) \in Nat
      /\ \A i \in 1 .. Len(s) : Append(s, n)[i] = s[i]
      /\ Append(s, n)[Len(s) + 1] = n
  OBVIOUS
<1>2. 1 .. (Len(s) + 1) = (1 .. Len(s)) \union {Len(s) + 1}
  BY <1>1
<1>3. Elements(Append(s, n)) = Elements(s) \union {n}
  <2> DEFINE t == Append(s, n)
  <2>1. ASSUME NEW x \in Elements(t) PROVE x \in Elements(s) \union {n}
    BY <1>1, <1>2 DEF Elements
  <2>2. ASSUME NEW x \in Elements(s) PROVE x \in Elements(t)
    BY <1>1, <1>2 DEF Elements
  <2>3. n \in Elements(t)
    BY <1>1, <1>2 DEF Elements
  <2> QED
    BY <2>1, <2>2, <2>3
<1> QED
  BY <1>1, <1>2, <1>3

\* A sequence goes on increasing when something larger is appended.
LEMMA AppendIncreases ==
  ASSUME NEW s \in Seq(Numbers), NEW n \in Numbers, Increasing(s), AllBelow(s, n)
  PROVE  Increasing(Append(s, n)) /\ \A m \in Nat : n < m => AllBelow(Append(s, n), m)
<1> DEFINE t == Append(s, n)
<1>1. /\ Len(s) \in Nat /\ Len(t) = Len(s) + 1
      /\ \A i \in 1 .. Len(s) : t[i] = s[i] /\ s[i] \in Nat
      /\ t[Len(s) + 1] = n /\ n \in Nat
  BY AppendFacts DEF Numbers
<1>2. \A i \in 1 .. Len(t) : i \in 1 .. Len(s) \/ i = Len(s) + 1
  BY <1>1
<1> HIDE DEF t
<1>3. Increasing(t)
  <2> SUFFICES ASSUME NEW i \in 1 .. Len(t), NEW j \in 1 .. Len(t), i < j PROVE t[i] < t[j]
    BY DEF Increasing
  <2>1. i \in 1 .. Len(s)
    BY <1>1
  <2>2. CASE j \in 1 .. Len(s)
    BY <1>1, <2>1, <2>2 DEF Increasing
  <2>3. CASE j = Len(s) + 1
    BY <1>1, <2>1, <2>3 DEF AllBelow
  <2> QED
    BY <1>2, <2>2, <2>3
<1>4. ASSUME NEW m \in Nat, n < m PROVE AllBelow(t, m)
  <2> SUFFICES ASSUME NEW i \in 1 .. Len(t) PROVE t[i] < m
    BY DEF AllBelow
  <2>1. CASE i \in 1 .. Len(s)
    BY <1>1, <1>4, <2>1 DEF AllBelow
  <2>2. CASE i = Len(s) + 1
    BY <1>1, <1>4, <2>2
  <2> QED
    BY <1>2, <2>1, <2>2
<1> QED
  BY <1>3, <1>4 DEF t

\* What taking the first number does to a sequence.
LEMMA HeadTailFacts ==
  ASSUME NEW s \in Seq(Numbers), s # <<>>
  PROVE  /\ Head(s) \in Numbers /\ Head(s) = s[1]
         /\ Tail(s) \in Seq(Numbers) /\ Len(Tail(s)) = Len(s) - 1
         /\ Len(s) \in Nat /\ Len(s) > 0
         /\ \A i \in 1 .. Len(s) - 1 : Tail(s)[i] = s[i + 1]
         /\ Elements(s) = Elements(Tail(s)) \union {Head(s)}
<1>1. /\ Head(s) \in Numbers /\ Head(s) = s[1]
      /\ Tail(s) \in Seq(Numbers) /\ Len(Tail(s)) = Len(s) - 1
      /\ Len(s) \in Nat /\ Len(s) > 0
      /\ \A i \in 1 .. Len(s) - 1 : Tail(s)[i] = s[i + 1]
  OBVIOUS
<1>2. Elements(s) = Elements(Tail(s)) \union {Head(s)}
  <2>1. ASSUME NEW x \in Elements(s) PROVE x \in Elements(Tail(s)) \union {Head(s)}
    <3>1. PICK i \in 1 .. Len(s) : x = s[i]
      BY DEF Elements
    <3>2. CASE i = 1
      BY <1>1, <3>1, <3>2
    <3>3. CASE i # 1
      <4>1. i - 1 \in 1 .. Len(s) - 1 /\ Tail(s)[i - 1] = s[i]
        BY <1>1, <3>1, <3>3
      <4> QED
        BY <1>1, <3>1, <4>1 DEF Elements
    <3> QED
      BY <3>2, <3>3
  <2>2. ASSUME NEW x \in Elements(Tail(s)) PROVE x \in Elements(s)
    <3>1. PICK i \in 1 .. Len(s) - 1 : x = s[i + 1]
      BY <1>1 DEF Elements
    <3> QED
      BY <1>1, <3>1 DEF Elements
  <2>3. Head(s) \in Elements(s)
    BY <1>1 DEF Elements
  <2> QED
    BY <2>1, <2>2, <2>3
<1> QED
  BY <1>1, <1>2

-----------------------------------------------------------------------------
(* The record of a replay *)

\* A line is sent.
LEMMA SendFacts ==
  ASSUME NEW r \in Replays, NEW sends,
         LET n == IF sends THEN 1 ELSE 0
         IN  replay' = [r EXCEPT !.loaded = @ + 1, !.sent = @ + 1, !.ok = @ + n]
  PROVE  /\ replay' \in Replays
         /\ replay'.builtin = r.builtin /\ replay'.loaded = r.loaded + 1
         /\ replay'.sent = r.sent + 1 /\ replay'.ok <= r.ok + 1
<1> DEFINE n == IF sends THEN 1 ELSE 0
           a == [r EXCEPT !.loaded = @ + 1]
           b == [a EXCEPT !.sent = @ + 1]
<1>0. n \in {0, 1}
  OBVIOUS
<1> HIDE DEF n
<1>1. a \in Replays /\ a.builtin = r.builtin /\ a.loaded = r.loaded + 1 /\ a.sent = r.sent /\ a.ok = r.ok
  BY DEF Replays
<1> HIDE DEF a
<1>2. b \in Replays /\ b.builtin = r.builtin /\ b.loaded = r.loaded + 1 /\ b.sent = r.sent + 1
      /\ b.ok = r.ok
  BY <1>1 DEF Replays
<1> HIDE DEF b
<1>3. /\ [b EXCEPT !.ok = @ + n] \in Replays
      /\ [b EXCEPT !.ok = @ + n].builtin = r.builtin /\ [b EXCEPT !.ok = @ + n].loaded = r.loaded + 1
      /\ [b EXCEPT !.ok = @ + n].sent = r.sent + 1 /\ [b EXCEPT !.ok = @ + n].ok <= r.ok + 1
  BY <1>0, <1>2 DEF Replays
<1>4. replay' = [b EXCEPT !.ok = @ + n]
  BY DEF a, b, n
<1> QED
  BY <1>3, <1>4

\* A line past the limit is only counted.
LEMMA SkipFacts ==
  ASSUME NEW r \in Replays, replay' = [r EXCEPT !.loaded = @ + 1]
  PROVE  /\ replay' \in Replays /\ replay'.loaded = r.loaded + 1
         /\ replay'.sent = r.sent /\ replay'.ok = r.ok /\ replay'.builtin = r.builtin
  BY DEF Replays

\* The replay ends.
LEMMA EndFacts ==
  ASSUME NEW r \in Replays, replay' = [r EXCEPT !.on = FALSE]
  PROVE  /\ replay' \in Replays /\ replay'.loaded = r.loaded
         /\ replay'.sent = r.sent /\ replay'.ok = r.ok /\ replay'.builtin = r.builtin
  BY DEF Replays

-----------------------------------------------------------------------------
\* The queue never grows beyond its maximum, and queue, file and counters keep
\* their types.
THEOREM TrafficTypes == TrafficSpec => []TrafficTypeOK
<1> USE TrafficAssumption
<1> DEFINE Counts == /\ queue \in Seq(Nat \ {0}) /\ Len(queue) <= MaxQueue
                     /\ hand \in Nat /\ file \in Seq(Nat \ {0})
                     /\ accepted \in Nat /\ offered \in Nat /\ lost \subseteq Nat /\ faults \in Nat
           Flags == alive \in BOOLEAN /\ replay \in Replays
<1>0. TrafficTypeOK <=> Counts /\ Flags
  BY Zenon DEF TrafficTypeOK, Replays
<1> HIDE DEF Flags
<1>1. TrafficInit => TrafficTypeOK
  <2>1. TrafficInit => Counts
    BY DEF TrafficInit
  <2>2. TrafficInit => Flags
    BY DEF TrafficInit, NewReplay, Flags, Replays
  <2> QED
    BY <1>0, <2>1, <2>2
<1>2. TrafficTypeOK /\ [TrafficNext]_trafficVars => Counts'
  <2> SUFFICES ASSUME Counts, [TrafficNext]_trafficVars PROVE Counts'
    BY <1>0
  <2>1. ASSUME NEW response \in Responses, Enqueue(response)
        PROVE  /\ queue' \in Seq(Nat \ {0}) /\ Len(queue') <= MaxQueue
               /\ accepted' \in Nat /\ offered' \in Nat
    <3>1. CASE UNCHANGED <<queue, accepted, offered>>
      BY <3>1
    <3>2. CASE offered' = offered + 1 /\ UNCHANGED <<queue, accepted>>
      BY <3>2
    <3>3. CASE /\ offered' = offered + 1 /\ Len(queue) < MaxQueue
               /\ queue' = Append(queue, accepted + 1) /\ accepted' = accepted + 1
      BY <3>3
    <3> QED
      BY <2>1, <3>1, <3>2, <3>3 DEF Enqueue
  <2>2. ASSUME NEW response \in Responses, Record(response) \/ ReplaySend(response) PROVE Counts'
    BY <2>1, <2>2 DEF Record, ReplaySend
  <2>3. CASE StartReplay \/ ReplaySkip \/ ReplayEnd
    BY <2>3 DEF StartReplay, ReplaySkip, ReplayEnd
  <2>4. CASE WriterGet
    <3>1. hand' \in Nat /\ queue' \in Seq(Nat \ {0}) /\ Len(queue') <= MaxQueue
      BY <2>4, HeadTailFacts DEF WriterGet, Numbers
    <3> QED
      BY <2>4, <3>1 DEF WriterGet
  <2>5. CASE WriterWrite
    BY <2>5 DEF WriterWrite
  <2>6. CASE WriterFail
    BY <2>6 DEF WriterFail
  <2>7. CASE ProcessRestart
    <3>1. \A i \in 1 .. Len(queue) : queue[i] \in Nat
      OBVIOUS
    <3>2. lost' \subseteq Nat
      BY <2>7, <3>1 DEF ProcessRestart
    <3> QED
      BY <2>7, <3>2 DEF ProcessRestart
  <2>8. CASE UNCHANGED trafficVars
    BY <2>8 DEF trafficVars
  <2> QED
    BY <2>2, <2>3, <2>4, <2>5, <2>6, <2>7, <2>8 DEF TrafficNext
<1>3. TrafficTypeOK /\ [TrafficNext]_trafficVars => Flags'
  <2> SUFFICES ASSUME Flags, [TrafficNext]_trafficVars PROVE Flags'
    BY <1>0
  <2>1. ASSUME NEW response \in Responses, ReplaySend(response) PROVE replay' \in Replays
    BY <2>1, SendFacts DEF ReplaySend, Flags
  <2>2. StartReplay => replay' \in Replays
    BY DEF StartReplay, NewReplay, Replays
  <2>3. ReplaySkip \/ ReplayEnd => replay' \in Replays
    BY SkipFacts, EndFacts DEF ReplaySkip, ReplayEnd, Flags
  <2> QED
    BY <2>1, <2>2, <2>3, Zenon DEF TrafficNext, trafficVars, Flags, Record, ReplaySend, StartReplay,
       ReplaySkip, ReplayEnd, WriterGet, WriterWrite, WriterFail, ProcessRestart
<1>4. TrafficTypeOK /\ [TrafficNext]_trafficVars => TrafficTypeOK'
  <2>1. TrafficTypeOK' <=> Counts' /\ Flags'
    BY Zenon DEF TrafficTypeOK, Flags, Replays
  <2> QED
    BY <1>2, <1>3, <2>1
<1> QED
  BY <1>1, <1>4, PTL DEF TrafficSpec

\* The file of traffic.py holds each event once and in order, however often the
\* writer dies and the process restarts.
THEOREM RecordedInOrder == TrafficSpec => []FileInOrder
<1> USE TrafficAssumption DEF Numbers
<1>1. TrafficInit => InOrder
  BY DEF TrafficInit, InOrder, Increasing, AllBelow
<1>2. TrafficTypeOK /\ InOrder /\ [TrafficNext]_trafficVars => InOrder'
  <2> SUFFICES ASSUME TrafficTypeOK, InOrder, [TrafficNext]_trafficVars PROVE InOrder'
    OBVIOUS
  <2>0. /\ queue \in Seq(Numbers) /\ file \in Seq(Numbers) /\ hand \in Nat /\ accepted \in Nat
        /\ Len(queue) \in Nat /\ Len(file) \in Nat
        /\ \A i \in 1 .. Len(queue) : queue[i] \in Nat
        /\ \A i \in 1 .. Len(file) : file[i] \in Nat
    BY DEF TrafficTypeOK
  <2> USE DEF InOrder, Increasing, AllBelow
  <2>1. ASSUME NEW response \in Responses, Enqueue(response), UNCHANGED <<hand, file>> PROVE InOrder'
    <3>1. CASE UNCHANGED <<queue, accepted>>
      BY <2>1, <3>1
    <3>2. CASE queue' = Append(queue, accepted + 1) /\ accepted' = accepted + 1
      <4>1. /\ Len(queue') = Len(queue) + 1
            /\ \A i \in 1 .. Len(queue) : queue'[i] = queue[i]
            /\ queue'[Len(queue) + 1] = accepted + 1
        BY <2>0, <3>2, AppendFacts
      <4>2. \A i \in 1 .. Len(queue') : i \in 1 .. Len(queue) \/ i = Len(queue) + 1
        BY <2>0, <4>1, AppendFacts
      <4>3. Increasing(queue)' /\ AllBelow(queue, accepted + 1)'
        <5> HIDE DEF Increasing, AllBelow
        <5>1. accepted + 1 \in Numbers /\ accepted + 2 \in Nat /\ accepted + 1 < accepted + 2
          BY <2>0
        <5>2. Increasing(Append(queue, accepted + 1)) /\ AllBelow(Append(queue, accepted + 1), accepted + 2)
          BY <2>0, <5>1, AppendIncreases
        <5>3. accepted' + 1 = accepted + 2
          BY <2>0, <3>2
        <5> QED
          BY <3>2, <5>2, <5>3
      <4>4. Increasing(file)' /\ AllBelow(file, accepted + 1)' /\ hand' <= accepted'
        BY <2>0, <2>1, <3>2
      <4>5. hand' # 0 => AllBelow(file, hand)'
        BY <2>1
      <4>6. hand' # 0 => \A j \in 1 .. Len(queue') : hand' < queue'[j]
        <5> SUFFICES ASSUME hand # 0, NEW j \in 1 .. Len(queue') PROVE hand < queue'[j]
          BY <2>1
        <5>1. CASE j \in 1 .. Len(queue)
          BY <4>1, <5>1
        <5>2. CASE j = Len(queue) + 1
          BY <2>0, <4>1, <5>2
        <5> QED
          BY <4>2, <5>1, <5>2
      <4>7. \A i \in 1 .. Len(file'), j \in 1 .. Len(queue') : file'[i] < queue'[j]
        <5> SUFFICES ASSUME NEW i \in 1 .. Len(file), NEW j \in 1 .. Len(queue')
                     PROVE  file[i] < queue'[j]
          BY <2>1
        <5> QED
          BY <2>0, <4>1, <4>2
      <4> QED
        BY <4>3, <4>4, <4>5, <4>6, <4>7
    <3> QED
      BY <2>1, <3>1, <3>2 DEF Enqueue
  <2>2. ASSUME NEW response \in Responses, Record(response) \/ ReplaySend(response) PROVE InOrder'
    BY <2>1, <2>2 DEF Record, ReplaySend
  <2>3. CASE StartReplay \/ ReplaySkip \/ ReplayEnd
    BY <2>3 DEF StartReplay, ReplaySkip, ReplayEnd
  <2>4. CASE WriterGet
    <3>1. /\ hand' = queue[1] /\ Len(queue') = Len(queue) - 1 /\ Len(queue) > 0
          /\ \A i \in 1 .. Len(queue) - 1 : queue'[i] = queue[i + 1]
      BY <2>0, <2>4, HeadTailFacts DEF WriterGet
    <3>2. \A i \in 1 .. Len(queue') : i + 1 \in 1 .. Len(queue) /\ queue'[i] = queue[i + 1] /\ 1 < i + 1
      BY <2>0, <3>1
    <3>3. 1 \in 1 .. Len(queue)
      BY <2>0, <3>1
    <3>4. Increasing(queue)' /\ AllBelow(queue, accepted + 1)'
      BY <2>0, <2>4, <3>2 DEF WriterGet
    <3>5. Increasing(file)' /\ AllBelow(file, accepted + 1)' /\ hand' <= accepted'
      BY <2>0, <2>4, <3>1, <3>3 DEF WriterGet
    <3>6. AllBelow(file, hand)'
      BY <2>4, <3>1, <3>3 DEF WriterGet
    <3>7. \A j \in 1 .. Len(queue') : hand' < queue'[j]
      BY <3>1, <3>2, <3>3
    <3>8. \A i \in 1 .. Len(file'), j \in 1 .. Len(queue') : file'[i] < queue'[j]
      BY <2>4, <3>2 DEF WriterGet
    <3> QED
      BY <3>4, <3>5, <3>6, <3>7, <3>8
  <2>5. CASE WriterWrite
    <3>1. hand \in Numbers
      BY <2>0, <2>5 DEF WriterWrite
    <3>2. /\ Len(file') = Len(file) + 1
          /\ \A i \in 1 .. Len(file) : file'[i] = file[i]
          /\ file'[Len(file) + 1] = hand
      BY <2>0, <2>5, <3>1, AppendFacts DEF WriterWrite
    <3>3. \A i \in 1 .. Len(file') : i \in 1 .. Len(file) \/ i = Len(file) + 1
      BY <2>0, <3>1, <3>2, AppendFacts
    <3>4. Increasing(queue)' /\ AllBelow(queue, accepted + 1)' /\ hand' = 0 /\ hand' <= accepted'
      BY <2>0, <2>5 DEF WriterWrite
    <3>5. Increasing(file)' /\ AllBelow(file, accepted + 1)'
      <4> HIDE DEF Increasing, AllBelow
      <4>1. accepted + 1 \in Nat /\ hand < accepted + 1
        BY <2>0
      <4>2. Increasing(Append(file, hand)) /\ AllBelow(Append(file, hand), accepted + 1)
        BY <2>0, <3>1, <2>5, <4>1, AppendIncreases DEF WriterWrite
      <4> QED
        BY <2>5, <4>2 DEF WriterWrite
    <3>6. \A i \in 1 .. Len(file'), j \in 1 .. Len(queue') : file'[i] < queue'[j]
      BY <2>5, <3>1, <3>2, <3>3 DEF WriterWrite
    <3> QED
      BY <3>4, <3>5, <3>6
  <2>6. CASE WriterFail
    BY <2>0, <2>6 DEF WriterFail
  <2>7. CASE ProcessRestart
    BY <2>0, <2>7 DEF ProcessRestart
  <2>8. CASE UNCHANGED trafficVars
    BY <2>8 DEF trafficVars
  <2> QED
    BY <2>2, <2>3, <2>4, <2>5, <2>6, <2>7, <2>8 DEF TrafficNext
<1>3. InOrder => FileInOrder
  BY DEF InOrder, Increasing, AllBelow, FileInOrder
<1> QED
  BY <1>1, <1>2, <1>3, TrafficTypes, PTL DEF TrafficSpec

\* Every event the queue accepted is queued, in the writer's hand, in the file, or
\* was lost with a dead writer or a restart; without one nothing is lost.
THEOREM NothingIsMissing == TrafficSpec => []NothingMissing
<1> USE TrafficAssumption DEF Numbers
<1>1. TrafficInit => NothingMissing
  BY DEF TrafficInit, NothingMissing, Queued, Filed
<1>2. TrafficTypeOK /\ NothingMissing /\ [TrafficNext]_trafficVars => NothingMissing'
  <2> SUFFICES ASSUME TrafficTypeOK, NothingMissing, [TrafficNext]_trafficVars PROVE NothingMissing'
    OBVIOUS
  <2>0. Queued = Elements(queue) /\ Filed = Elements(file) /\ Queued' = Elements(queue')
        /\ Filed' = Elements(file')
    BY DEF Queued, Filed, Elements
  <2> USE <2>0 DEF TrafficTypeOK, NothingMissing
  <2>1. ASSUME NEW response \in Responses, Enqueue(response), UNCHANGED <<hand, file, lost, faults>>
        PROVE  NothingMissing'
    <3>1. CASE UNCHANGED <<queue, accepted>>
      BY <2>1, <3>1
    <3>2. CASE queue' = Append(queue, accepted + 1) /\ accepted' = accepted + 1
      <4>1. Elements(queue') = Elements(queue) \union {accepted + 1}
        BY <3>2, AppendFacts
      <4>2. 1 .. accepted' = (1 .. accepted) \union {accepted + 1}
        BY <3>2
      <4> QED
        BY <2>1, <4>1, <4>2
    <3> QED
      BY <2>1, <3>1, <3>2 DEF Enqueue
  <2>2. ASSUME NEW response \in Responses, Record(response) \/ ReplaySend(response)
        PROVE  NothingMissing'
    BY <2>1, <2>2 DEF Record, ReplaySend
  <2>3. CASE StartReplay \/ ReplaySkip \/ ReplayEnd
    BY <2>3 DEF StartReplay, ReplaySkip, ReplayEnd
  <2>4. CASE WriterGet
    <3>1. Elements(queue) = Elements(queue') \union {hand'} /\ hand' # 0
      BY <2>4, HeadTailFacts DEF WriterGet
    <3> QED
      BY <2>4, <3>1 DEF WriterGet
  <2>5. CASE WriterWrite
    <3>1. Elements(file') = Elements(file) \union {hand}
      BY <2>5, AppendFacts DEF WriterWrite
    <3> QED
      BY <2>5, <3>1 DEF WriterWrite
  <2>6. CASE WriterFail
    BY <2>6 DEF WriterFail
  <2>7. CASE ProcessRestart
    <3>1. Elements(queue') = {} /\ lost' = lost \union Elements(queue) \union ({hand} \ {0})
      BY <2>7 DEF ProcessRestart, Elements
    <3> QED
      BY <2>7, <3>1 DEF ProcessRestart
  <2>8. CASE UNCHANGED trafficVars
    BY <2>8 DEF trafficVars
  <2> QED
    BY <2>2, <2>3, <2>4, <2>5, <2>6, <2>7, <2>8 DEF TrafficNext
<1> QED
  BY <1>1, <1>2, TrafficTypes, PTL DEF TrafficSpec

\* A replay into the service that records it sends the lines in order and stops
\* at its limit, however fast the file it reads grows (replay_traffic.py:199).
THEOREM ReplayStaysBounded == TrafficSpec => []ReplayBounded
<1> USE TrafficAssumption
<1>1. TrafficInit => ReplayBounded
  BY DEF TrafficInit, NewReplay, ReplayBounded, Lines
<1>2. TrafficTypeOK /\ ReplayBounded /\ [TrafficNext]_trafficVars => ReplayBounded'
  <2> SUFFICES ASSUME TrafficTypeOK, ReplayBounded, [TrafficNext]_trafficVars PROVE ReplayBounded'
    OBVIOUS
  <2> USE DEF TrafficTypeOK, ReplayBounded, Lines
  <2>1. ASSUME NEW response \in Responses, Record(response) PROVE ReplayBounded'
    BY <2>1 DEF Record
  <2>2. ASSUME NEW response \in Responses, ReplaySend(response) PROVE ReplayBounded'
    BY <2>2 DEF ReplaySend
  <2>3. CASE StartReplay
    BY <2>3 DEF StartReplay, NewReplay
  <2>4. CASE ReplaySkip \/ ReplayEnd
    <3>1. replay \in Replays
      BY Zenon DEF Replays
    <3>2. CASE ReplaySkip
      <4>1. /\ replay'.loaded = replay.loaded + 1 /\ replay'.sent = replay.sent
            /\ replay'.ok = replay.ok /\ replay'.builtin = replay.builtin
        BY <3>1, <3>2, SkipFacts DEF ReplaySkip
      <4> QED
        BY <3>2, <4>1 DEF ReplaySkip
    <3>3. CASE ReplayEnd
      <4>1. /\ replay'.loaded = replay.loaded /\ replay'.sent = replay.sent
            /\ replay'.ok = replay.ok /\ replay'.builtin = replay.builtin
        BY <3>1, <3>3, EndFacts DEF ReplayEnd
      <4> QED
        BY <3>3, <4>1 DEF ReplayEnd
    <3> QED
      BY <2>4, <3>2, <3>3
  <2>5. CASE WriterWrite
    <3>1. Len(file') = Len(file) + 1 /\ Len(file) \in Nat
      BY <2>5, AppendFacts DEF WriterWrite, Numbers
    <3> QED
      BY <2>5, <3>1 DEF WriterWrite
  <2>6. CASE WriterGet \/ WriterFail \/ ProcessRestart
    BY <2>6 DEF WriterGet, WriterFail, ProcessRestart
  <2>7. CASE UNCHANGED trafficVars
    BY <2>7 DEF trafficVars
  <2> QED
    BY <2>1, <2>2, <2>3, <2>4, <2>5, <2>6, <2>7 DEF TrafficNext
<1> QED
  BY <1>1, <1>2, TrafficTypes, PTL DEF TrafficSpec
=============================================================================
