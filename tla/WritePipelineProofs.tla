------------------------ MODULE WritePipelineProofs ------------------------
(***************************************************************************)
(* Proofs about WritePipeline, for any users, writes, length of the        *)
(* pipeline, and all bounds.                                               *)
(***************************************************************************)
EXTENDS WritePipeline, SequenceTheorems, WellFoundedInduction, TLAPS

---------------------------------------------------------------------------
(* Lemmas about queues.                                                    *)

\* Ids grow along a list of batches.
Increasing(q) ==
    \A i, j \in 1..Len(q) : i < j => q[i].id < q[j].id

\* p is the beginning of q.
Begins(p, q) ==
    Len(p) <= Len(q) /\ \A i \in 1..Len(p) : p[i] = q[i]

\* What a sequence without its head holds.
LEMMA TailOf ==
    ASSUME NEW S, NEW s \in Seq(S), s # <<>>
    PROVE  /\ Len(s) \in Nat /\ Len(s) >= 1
           /\ Head(s) \in S /\ Head(s) = s[1]
           /\ Tail(s) \in Seq(S) /\ Len(Tail(s)) = Len(s) - 1
           /\ \A i \in 1..Len(s) - 1 : Tail(s)[i] = s[i + 1]
BY HeadTailProperties, EmptySeq

\* The batches of a list.
LEMMA BatchesOf ==
    ASSUME NEW q \in Seq(Batch)
    PROVE  /\ Len(q) \in Nat
           /\ \A i \in 1..Len(q) : /\ q[i] \in Batch
                                   /\ q[i].id \in Nat /\ q[i].id >= 1
                                   /\ q[i].write \in Write
<1>1. Len(q) \in Nat /\ \A i \in 1..Len(q) : q[i] \in Batch
    BY LenProperties
<1> QED
    BY <1>1 DEF Batch

\* Three lists of batches in a row.
LEMMA Regrouped ==
    ASSUME NEW p \in Seq(Batch), NEW q \in Seq(Batch), NEW r \in Seq(Batch)
    PROVE  (p \o q) \o r = p \o (q \o r)
<1> DEFINE B == Batch
<1> HIDE DEF B
<1>1. \A x, y, z \in Seq(B) : (x \o y) \o z = x \o (y \o z)
    BY ConcatAssociative, SMTT(30)
<1> QED
    BY <1>1 DEF B

\* A segment of a sequence.
LEMMA SegmentOf ==
    ASSUME NEW S, NEW s \in Seq(S), NEW m \in Nat, NEW n \in Nat,
           m >= 1, m <= n + 1, n <= Len(s)
    PROVE  /\ SubSeq(s, m, n) \in Seq(S)
           /\ Len(SubSeq(s, m, n)) = n - m + 1
           /\ \A i \in 1..n - m + 1 : SubSeq(s, m, n)[i] = s[m + i - 1]
<1>1. Len(s) \in Nat /\ \A i \in 1..Len(s) : s[i] \in S
    BY LenProperties
<1>2. \A i \in m..n : s[i] \in S
    BY <1>1
<1>3. /\ SubSeq(s, m, n) \in Seq(S)
      /\ Len(SubSeq(s, m, n)) = IF m <= n THEN n - m + 1 ELSE 0
      /\ \A i \in 1..n - m + 1 : SubSeq(s, m, n)[i] = s[m + i - 1]
    BY <1>2, SubSeqProperties
<1> QED
    BY <1>3

\* The row of the first batch is the first row.
LEMMA RemoveFirst ==
    ASSUME NEW q \in Seq(Batch), q # <<>>, Increasing(q)
    PROVE  RemoveMutationBatch(q, q[1].id) = Tail(q)
<1> DEFINE k == CHOOSE i \in 1..Len(q) : q[i].id = q[1].id
<1>1. Len(q) \in Nat /\ 1 \in 1..Len(q) /\ \A i \in 1..Len(q) : q[i].id \in Nat
    BY TailOf, BatchesOf
<1>2. k \in 1..Len(q) /\ q[k].id = q[1].id
    BY <1>1
<1>3. k = 1
    BY <1>1, <1>2 DEF Increasing
<1>4. SubSeq(q, 1, 0) = <<>>
    BY SubSeqEmpty
<1>5. RemoveMutationBatch(q, q[1].id) = SubSeq(q, 1, 1 - 1) \o SubSeq(q, 1 + 1, Len(q))
    BY <1>3 DEF RemoveMutationBatch
<1>6. RemoveMutationBatch(q, q[1].id) = <<>> \o SubSeq(q, 2, Len(q))
    BY <1>4, <1>5
<1>7. Tail(q) \in Seq(Batch) /\ Tail(q) = SubSeq(q, 2, Len(q))
    BY TailOf, TailIsSubSeq
<1> QED
    BY <1>6, <1>7, ConcatEmptySeq

\* Behind the last batch of the pipeline comes the rest of the queue.
LEMMA AfterPipeline ==
    ASSUME NEW p \in Seq(Batch), NEW q \in Seq(Batch), Increasing(q),
           Begins(p, q)
    PROVE  BatchesAfter(q, IF p = <<>> THEN BatchIdUnknown ELSE p[Len(p)].id)
               = SubSeq(q, Len(p) + 1, Len(q))
<1> DEFINE last == IF p = <<>> THEN BatchIdUnknown ELSE p[Len(p)].id
           Splits(n) == \A i \in 1..Len(q) : q[i].id <= last <=> i <= n
           k == CHOOSE n \in 0..Len(q) : Splits(n)
<1>1. /\ Len(p) \in Nat /\ Len(q) \in Nat /\ Len(p) <= Len(q)
      /\ \A i \in 1..Len(q) : q[i].id \in Nat /\ q[i].id >= 1
    BY BatchesOf DEF Begins
<1>2. Splits(Len(p))
    <2>1. CASE p = <<>>
        BY <1>1, <2>1, EmptySeq DEF BatchIdUnknown
    <2>2. CASE p # <<>>
        <3>1. Len(p) \in 1..Len(q) /\ last = q[Len(p)].id
            BY <1>1, <2>2, EmptySeq DEF Begins
        <3>2. SUFFICES ASSUME NEW i \in 1..Len(q)
                       PROVE  q[i].id <= q[Len(p)].id <=> i <= Len(p)
            BY <3>1
        <3> QED
            BY <1>1, <3>1 DEF Increasing
    <2> QED
        BY <2>1, <2>2
<1>3. k \in 0..Len(q) /\ Splits(k)
    <2>1. Len(p) \in 0..Len(q)
        BY <1>1
    <2> HIDE DEF Splits, last
    <2>2. \E n \in 0..Len(q) : Splits(n)
        BY <1>2, <2>1
    <2> QED
        BY <2>2
<1>4. k = Len(p)
    <2>1. ASSUME k < Len(p) PROVE FALSE
        <3>1. k + 1 \in 1..Len(q) /\ k + 1 <= Len(p) /\ ~(k + 1 <= k)
            BY <1>1, <1>3, <2>1
        <3> QED
            BY <1>2, <1>3, <3>1
    <2>2. ASSUME k > Len(p) PROVE FALSE
        <3>1. k \in 1..Len(q) /\ ~(k <= Len(p)) /\ k <= k
            BY <1>1, <1>3, <2>2
        <3> QED
            BY <1>2, <1>3, <3>1
    <2> QED
        BY <1>1, <1>3, <2>1, <2>2
<1> QED
    BY <1>4 DEF BatchesAfter

\* FillWritePipeline makes of a beginning of the queue the longest one that
\* the pipeline may hold.
LEMMA PipelineFilled ==
    ASSUME NEW e \in BOOLEAN, NEW p \in Seq(Batch), NEW q \in Seq(Batch),
           Increasing(q), Begins(p, q), Len(p) <= MaxPending
    PROVE  /\ Added(e, p, q) \in Seq(Batch)
           /\ p \o Added(e, p, q) \in Seq(Batch)
           /\ Begins(p \o Added(e, p, q), q)
           /\ Len(p \o Added(e, p, q)) <= MaxPending
           /\ e /\ Len(p \o Added(e, p, q)) < MaxPending =>
                  Len(p \o Added(e, p, q)) = Len(q)
           /\ ~e => Added(e, p, q) = <<>> /\ p \o Added(e, p, q) = p
<1> DEFINE rest == SubSeq(q, Len(p) + 1, Len(q))
           room == MaxPending - Len(p)
           n == IF Len(rest) < room THEN Len(rest) ELSE room
           more == SubSeq(rest, 1, n)
<1>1. /\ Len(p) \in Nat /\ Len(q) \in Nat /\ Len(p) <= Len(q)
      /\ MaxPending \in Nat
    BY LenProperties, PipelineAssumption DEF Begins
<1>2. /\ rest \in Seq(Batch) /\ Len(rest) = Len(q) - Len(p)
      /\ \A i \in 1..Len(q) - Len(p) : rest[i] = q[Len(p) + i]
    <2> DEFINE m == Len(p) + 1
    <2>1. m \in Nat /\ m >= 1 /\ m <= Len(q) + 1
        BY <1>1
    <2> HIDE DEF m
    <2>2. /\ SubSeq(q, m, Len(q)) \in Seq(Batch)
          /\ Len(SubSeq(q, m, Len(q))) = Len(q) - m + 1
          /\ \A i \in 1..Len(q) - m + 1 : SubSeq(q, m, Len(q))[i] = q[m + i - 1]
        BY <1>1, <2>1, SegmentOf
    <2>3. Len(q) - m + 1 = Len(q) - Len(p)
        BY <1>1 DEF m
    <2>4. \A i \in 1..Len(q) - Len(p) : m + i - 1 = Len(p) + i
        BY <1>1 DEF m
    <2> QED
        BY <2>2, <2>3, <2>4 DEF m
<1>3. n \in Nat /\ n <= Len(rest) /\ n <= room /\ (n = Len(rest) \/ n = room)
    BY <1>1, <1>2
<1> HIDE DEF n, rest
<1>4. /\ more \in Seq(Batch) /\ Len(more) = n
      /\ \A i \in 1..n : more[i] = rest[i]
    <2>1. /\ more \in Seq(Batch) /\ Len(more) = n - 1 + 1
          /\ \A i \in 1..n - 1 + 1 : more[i] = rest[1 + i - 1]
        BY <1>2, <1>3, SegmentOf
    <2> QED
        BY <1>3, <2>1
<1> HIDE DEF more
<1>5. CASE e
    <2>1. Added(e, p, q) = more
        BY <1>5, AfterPipeline DEF Added, more, n, rest
    <2>2. /\ p \o more \in Seq(Batch) /\ Len(p \o more) = Len(p) + n
          /\ \A i \in 1..Len(p) + n : (p \o more)[i] =
                 IF i <= Len(p) THEN p[i] ELSE more[i - Len(p)]
        BY <1>4, ConcatProperties
    <2>3. Len(p) + n <= Len(q) /\ Len(p) + n <= MaxPending
        BY <1>1, <1>2, <1>3
    <2>4. \A i \in 1..Len(p) + n : (p \o more)[i] = q[i]
        <3>1. SUFFICES ASSUME NEW i \in 1..Len(p) + n PROVE (p \o more)[i] = q[i]
            OBVIOUS
        <3>2. CASE i <= Len(p)
            <4>1. i \in 1..Len(p) /\ (p \o more)[i] = p[i]
                BY <1>1, <1>3, <2>2, <3>2
            <4> QED
                BY <4>1 DEF Begins
        <3>3. CASE i > Len(p)
            <4>1. i - Len(p) \in 1..n /\ i - Len(p) \in 1..Len(q) - Len(p)
                  /\ Len(p) + (i - Len(p)) = i /\ ~(i <= Len(p))
                BY <1>1, <1>2, <1>3, <3>3
            <4> QED
                BY <1>2, <1>4, <2>2, <4>1
        <3>4. i <= Len(p) \/ i > Len(p)
            BY <1>1, <1>3
        <3> QED
            BY <3>2, <3>3, <3>4
    <2>5. Len(p) + n < MaxPending => Len(p) + n = Len(q)
        BY <1>1, <1>2, <1>3
    <2> QED
        BY <1>4, <1>5, <2>1, <2>2, <2>3, <2>4, <2>5 DEF Begins
<1>6. CASE ~e
    <2>1. Added(e, p, q) = <<>>
        BY <1>6 DEF Added
    <2>2. <<>> \in Seq(Batch) /\ p \o <<>> = p
        BY EmptySeq, ConcatEmptySeq
    <2> QED
        BY <1>6, <2>1, <2>2
<1> QED
    BY <1>5, <1>6

\* A set of numbers with a bound has a largest one.
LEMMA HasLargest ==
    ASSUME NEW T \in SUBSET Nat, T # {}, NEW b \in Nat, \A n \in T : n <= b
    PROVE  \E n \in T : \A m \in T : m <= n
<1> DEFINE D == {b - n : n \in T}
<1>1. D \subseteq Nat /\ D # {}
    <2>1. \A n \in T : b - n \in Nat
        OBVIOUS
    <2> QED
        BY <2>1
<1>2. PICK x \in D : \A y \in D : ~ (<<y, x>> \in OpToRel(<, Nat))
    BY <1>1, NatLessThanWellFounded, WFMin
<1>3. \A y \in D : x <= y
    <2> HIDE DEF D
    <2>1. SUFFICES ASSUME NEW y \in D, y < x PROVE FALSE
        <3>1. x \in Nat /\ \A y \in D : y \in Nat
            BY <1>1
        <3> QED
            BY <3>1
    <2>2. <<y, x>> \in Nat \X Nat /\ <<y, x>>[1] < <<y, x>>[2]
        BY <1>1, <2>1
    <2>3. <<y, x>> \in {ss \in Nat \X Nat : ss[1] < ss[2]}
        BY <2>2
    <2> QED
        BY <1>2, <2>3 DEF OpToRel
<1>4. PICK n \in T : x = b - n
    OBVIOUS
<1>5. \A m \in T : m <= n
    BY <1>3, <1>4
<1> QED
    BY <1>5

---------------------------------------------------------------------------
(* Lemmas about the stream.                                                *)

\* A stream that asks for a token exactly while it is starting.
StreamGood(s) ==
    /\ s \in StreamType
    /\ s.asked \subseteq 0..s.closes
    /\ s.closes \in s.asked <=> s.state = "Starting"

\* The fields of a stream.
LEMMA StreamFields ==
    ASSUME NEW s \in StreamType
    PROVE  /\ s.state \in StreamState /\ s.closes \in Nat
           /\ s.asked \in SUBSET Nat /\ s.idle \in BOOLEAN
           /\ s = [state |-> s.state, closes |-> s.closes, asked |-> s.asked,
                   idle |-> s.idle]
BY DEF StreamType

\* A stream that is closed has a close count of its own.
LEMMA FailGood ==
    ASSUME NEW s \in StreamType, s.asked \subseteq 0..s.closes
    PROVE  /\ StreamGood(Fail(s)) /\ Fail(s).state = "Error" /\ ~Fail(s).idle
           /\ StreamGood(InhibitBackoff(Fail(s)))
           /\ InhibitBackoff(Fail(s)).state = "Initial"
           /\ ~InhibitBackoff(Fail(s)).idle
<1> DEFINE n == s.closes + 1
<1>1. s.closes \in Nat /\ s.asked \in SUBSET Nat
    BY StreamFields
<1>2. n \in Nat /\ s.asked \subseteq 0..n /\ n \notin s.asked
    BY <1>1
<1> HIDE DEF n
<1>3. /\ Fail(s) \in StreamType /\ Fail(s).state = "Error"
      /\ Fail(s).closes = n /\ Fail(s).asked = s.asked
      /\ Fail(s).idle = FALSE
    BY <1>1, <1>2 DEF Fail, StreamType, StreamState, n
<1>4. /\ InhibitBackoff(Fail(s)) \in StreamType
      /\ InhibitBackoff(Fail(s)).state = "Initial"
      /\ InhibitBackoff(Fail(s)).closes = n
      /\ InhibitBackoff(Fail(s)).asked = s.asked
      /\ InhibitBackoff(Fail(s)).idle = FALSE
    BY <1>3 DEF InhibitBackoff, StreamType, StreamState
<1> QED
    BY <1>2, <1>3, <1>4 DEF StreamGood

LEMMA StopGood ==
    ASSUME NEW s, StreamGood(s), s.idle => IsOpen(s)
    PROVE  /\ StreamGood(Stop(s)) /\ ~IsStarted(Stop(s)) /\ ~Stop(s).idle
           /\ StreamGood(InhibitBackoff(Stop(s)))
           /\ InhibitBackoff(Stop(s)).state = "Initial"
           /\ ~InhibitBackoff(Stop(s)).idle
<1>1. /\ s \in StreamType /\ s.closes \in Nat /\ s.asked \in SUBSET Nat
      /\ s.asked \subseteq 0..s.closes /\ s.state \in StreamState
      /\ s.idle \in BOOLEAN
    BY StreamFields DEF StreamGood
<1>2. CASE IsStarted(s)
    <2> DEFINE n == s.closes + 1
               t == Stop(s)
    <2>1. n \in Nat /\ s.asked \subseteq 0..n /\ n \notin s.asked
        BY <1>1
    <2> HIDE DEF n
    <2>2. /\ t \in StreamType /\ t.state = "Initial"
          /\ t.closes = n /\ t.asked = s.asked
          /\ t.idle = FALSE
        BY <1>1, <1>2, <2>1 DEF Stop, StreamType, StreamState, n
    <2> HIDE DEF t
    <2>3. /\ InhibitBackoff(t) \in StreamType
          /\ InhibitBackoff(t).state = "Initial"
          /\ InhibitBackoff(t).closes = n
          /\ InhibitBackoff(t).asked = s.asked
          /\ InhibitBackoff(t).idle = FALSE
        BY <2>2 DEF InhibitBackoff, StreamType, StreamState
    <2>4. /\ StreamGood(t) /\ ~IsStarted(t) /\ ~t.idle
          /\ StreamGood(InhibitBackoff(t))
        BY <2>1, <2>2, <2>3 DEF StreamGood, IsStarted
    <2> QED
        BY <2>3, <2>4 DEF t
<1>3. CASE ~IsStarted(s)
    <2>1. Stop(s) = s /\ s.idle = FALSE /\ s.closes \notin s.asked
        BY <1>1, <1>3 DEF Stop, IsOpen, IsStarted, StreamGood
    <2>2. /\ InhibitBackoff(s) \in StreamType
          /\ InhibitBackoff(s).state = "Initial"
          /\ InhibitBackoff(s).closes = s.closes
          /\ InhibitBackoff(s).asked = s.asked
          /\ InhibitBackoff(s).idle = FALSE
        BY <1>1, <2>1 DEF InhibitBackoff, StreamType, StreamState
    <2> QED
        BY <1>1, <1>3, <2>1, <2>2 DEF StreamGood
<1> QED
    BY <1>2, <1>3

\* Starting a stream that is not started, or was in its backoff.
LEMMA StartGood ==
    ASSUME NEW s, StreamGood(s), ~IsStarted(s)
    PROVE  /\ StreamGood(Start(s)) /\ IsStarted(Start(s)) /\ ~IsOpen(Start(s))
           /\ Start(s).idle = s.idle
<1>1. /\ s \in StreamType /\ s.closes \in Nat /\ s.asked \in SUBSET Nat
      /\ s.asked \subseteq 0..s.closes /\ s.state \in StreamState
      /\ s.idle \in BOOLEAN /\ s.closes \notin s.asked
    BY StreamFields DEF StreamGood, IsStarted
<1>2. CASE s.state = "Error"
    <2>1. /\ Start(s) \in StreamType /\ Start(s).state = "Backoff"
          /\ Start(s).closes = s.closes /\ Start(s).asked = s.asked
          /\ Start(s).idle = s.idle
        BY <1>1, <1>2 DEF Start, StreamType, StreamState
    <2> QED
        BY <1>1, <2>1 DEF StreamGood, IsStarted, IsOpen
<1>3. CASE s.state # "Error"
    <2> DEFINE A == s.asked \cup {s.closes}
    <2>1. A \in SUBSET Nat /\ A \subseteq 0..s.closes /\ s.closes \in A
        BY <1>1
    <2> HIDE DEF A
    <2>2. /\ Start(s) \in StreamType /\ Start(s).state = "Starting"
          /\ Start(s).closes = s.closes /\ Start(s).asked = A
          /\ Start(s).idle = s.idle
        BY <1>1, <1>3, <2>1 DEF Start, StreamType, StreamState, A
    <2> QED
        BY <1>1, <2>1, <2>2 DEF StreamGood, IsStarted, IsOpen
<1> QED
    BY <1>2, <1>3

\* A stream is started if the pipeline needs it and the network is on.
LEMMA NeededGood ==
    ASSUME NEW s, StreamGood(s), NEW e \in BOOLEAN, NEW p, IsStarted(s) => e,
           p # <<>> => e
    PROVE  /\ StreamGood(Needed(e, p, s))
           /\ IsStarted(Needed(e, p, s)) => e
           /\ p # <<>> => IsStarted(Needed(e, p, s))
           /\ IsStarted(Needed(e, p, s)) => IsStarted(s) \/ p # <<>>
           /\ IsOpen(Needed(e, p, s)) <=> IsOpen(s)
           /\ Needed(e, p, s).idle = s.idle
<1>1. CASE ShouldStartWriteStream(e, p, s)
    <2>1. Needed(e, p, s) = Start(s) /\ ~IsStarted(s) /\ ~IsOpen(s) /\ e
        BY <1>1 DEF Needed, ShouldStartWriteStream, IsStarted, IsOpen
    <2> QED
        BY <1>1, <2>1, StartGood DEF ShouldStartWriteStream
<1>2. CASE ~ShouldStartWriteStream(e, p, s)
    BY <1>2 DEF Needed, ShouldStartWriteStream
<1> QED
    BY <1>1, <1>2

\* The idle timer is no concern of the state.
LEMMA IdleGood ==
    ASSUME NEW s, StreamGood(s)
    PROVE  /\ StreamGood(MarkIdle(s)) /\ MarkIdle(s).state = s.state
           /\ MarkIdle(s).idle => s.idle \/ IsOpen(s)
           /\ StreamGood(CancelIdleCheck(s))
           /\ CancelIdleCheck(s).state = s.state /\ ~CancelIdleCheck(s).idle
BY DEF StreamGood, MarkIdle, CancelIdleCheck, StreamType

\* What FillWritePipeline does to the pipeline, the wire and the stream.
Fills(e, p, q, s, h, w) ==
    /\ pipeline' \in Seq(Batch) /\ wire' \in Seq(Batch)
    /\ Begins(pipeline', q) /\ Len(pipeline') <= MaxPending
    /\ IF e THEN Len(pipeline') < MaxPending => Len(pipeline') = Len(q)
       ELSE pipeline' = <<>>
    /\ \E more \in Seq(Batch) :
           /\ pipeline' = p \o more
           /\ wire' = IF IsOpen(s) /\ h THEN w \o more ELSE w
    /\ StreamGood(stream')
    /\ IsStarted(stream') => e
    /\ pipeline' # <<>> => IsStarted(stream')
    /\ IsStarted(stream') => IsStarted(s) \/ pipeline' # <<>>
    /\ IsOpen(stream') <=> IsOpen(s)
    /\ stream'.idle => IsOpen(s) /\ ((s.idle /\ p # <<>>) \/ pipeline' = <<>>)

LEMMA Filled ==
    ASSUME NEW e \in BOOLEAN, NEW p \in Seq(Batch), NEW q \in Seq(Batch),
           NEW s, NEW h \in BOOLEAN, NEW w \in Seq(Batch),
           Increasing(q), Begins(p, q), Len(p) <= MaxPending,
           StreamGood(s), e \/ p = <<>>, IsStarted(s) => e,
           s.idle => IsOpen(s) /\ h,
           FillWritePipeline(e, p, q, s, h, w)
    PROVE  Fills(e, p, q, s, h, w)
<1> DEFINE more == Added(e, p, q)
           r == p \o more
           sends == IsOpen(s) /\ h /\ more # <<>>
           timed == IF sends THEN CancelIdleCheck(s)
                    ELSE IF e /\ r = <<>> THEN MarkIdle(s) ELSE s
<1>1. /\ pipeline' = r
      /\ wire' = IF sends THEN w \o more ELSE w
      /\ stream' = Needed(e, r, timed)
    BY DEF FillWritePipeline
<1>2. /\ more \in Seq(Batch) /\ r \in Seq(Batch)
      /\ Begins(r, q) /\ Len(r) <= MaxPending
      /\ e /\ Len(r) < MaxPending => Len(r) = Len(q)
      /\ ~e => more = <<>> /\ r = p
    BY PipelineFilled
<1>3. more = <<>> => w \o more = w /\ r = p
    BY ConcatEmptySeq
<1>4. w \o more \in Seq(Batch)
    BY <1>2, ConcatProperties
<1> HIDE DEF more, r
<1>5. wire' = IF IsOpen(s) /\ h THEN w \o more ELSE w
    BY <1>1, <1>3
<1>6. /\ StreamGood(timed) /\ timed.state = s.state
      /\ timed.idle => s.idle \/ IsOpen(s)
      /\ timed.idle => IsOpen(s) /\ ((s.idle /\ p # <<>>) \/ r = <<>>)
    <2>1. CASE sends
        BY <2>1, IdleGood
    <2>2. CASE ~sends /\ e /\ r = <<>>
        BY <2>2, IdleGood
    <2>3. CASE ~sends /\ ~(e /\ r = <<>>)
        <3>1. timed = s
            BY <2>3
        <3>2. s.idle => more = <<>> /\ e
            BY <2>3 DEF IsOpen, IsStarted
        <3> QED
            BY <1>3, <3>1, <3>2, <2>3
    <2> QED
        BY <2>1, <2>2, <2>3
<1>7. (IsStarted(timed) <=> IsStarted(s)) /\ (IsOpen(timed) <=> IsOpen(s))
    BY <1>6 DEF IsStarted, IsOpen
<1> HIDE DEF timed
<1>8. r # <<>> => e
    BY <1>2
<1>9. /\ StreamGood(Needed(e, r, timed))
      /\ IsStarted(Needed(e, r, timed)) => e
      /\ r # <<>> => IsStarted(Needed(e, r, timed))
      /\ IsStarted(Needed(e, r, timed)) => IsStarted(timed) \/ r # <<>>
      /\ IsOpen(Needed(e, r, timed)) <=> IsOpen(timed)
      /\ Needed(e, r, timed).idle = timed.idle
    BY <1>6, <1>7, <1>8, NeededGood
<1>10. IF e THEN Len(r) < MaxPending => Len(r) = Len(q) ELSE r = <<>>
    BY <1>2
<1>11. pipeline' = p \o more
    BY <1>1 DEF r
<1> QED
    BY <1>1, <1>2, <1>4, <1>5, <1>6, <1>7, <1>9, <1>10, <1>11 DEF Fills

---------------------------------------------------------------------------
(* Lemmas about the table: the queues, the callbacks, what was issued.     *)

TableOK == IdsIncrease /\ QueuesHoldIssued /\ CallbacksKept

\* What the type invariant says of the table.
LEMMA TableTypes ==
    ASSUME TypeOK
    PROVE  /\ user \in User /\ next \in Nat /\ next >= 1
           /\ \A u \in User : /\ queue[u] \in Seq(Batch)
                              /\ issued[u] \in Seq(Write)
                              /\ Len(queue[u]) \in Nat
                              /\ Len(issued[u]) \in Nat
                              /\ \A i \in 1..Len(queue[u]) :
                                     /\ queue[u][i] \in Batch
                                     /\ queue[u][i].id \in Nat
                                     /\ queue[u][i].write \in Write
                              /\ \A i \in 1..Len(issued[u]) :
                                     issued[u][i] \in Write
<1>1. /\ user \in User /\ next \in Nat /\ next >= 1
      /\ \A u \in User : queue[u] \in Seq(Batch) /\ issued[u] \in Seq(Write)
    BY DEF TypeOK
<1>2. \A u \in User : /\ Len(issued[u]) \in Nat
                      /\ \A i \in 1..Len(issued[u]) : issued[u][i] \in Write
    BY <1>1, LenProperties
<1>3. \A u \in User : /\ Len(queue[u]) \in Nat
                      /\ \A i \in 1..Len(queue[u]) :
                             /\ queue[u][i] \in Batch
                             /\ queue[u][i].id \in Nat
                             /\ queue[u][i].write \in Write
    BY <1>1, BatchesOf
<1> QED
    BY <1>1, <1>2, <1>3

\* The queues are in order.
LEMMA QueuesIncrease ==
    ASSUME IdsIncrease
    PROVE  \A u \in User : Increasing(queue[u])
BY DEF IdsIncrease, Increasing

\* Where a queued write stands among those that were issued.
LEMMA QueuedIssued ==
    ASSUME TypeOK, QueuesHoldIssued, NEW u \in User,
           NEW i \in 1..Len(queue[u])
    PROVE  /\ Gone(u) \in Nat /\ Gone(u) + i \in 1..Len(issued[u])
           /\ queue[u][i].write = issued[u][Gone(u) + i]
           /\ queue[u][i].write \in Elements(issued[u])
           /\ queue[u][i].write \in Issued
           /\ queue[u][i].write \in Pending
<1>1. /\ Len(queue[u]) \in Nat /\ Len(issued[u]) \in Nat
      /\ Len(queue[u]) <= Len(issued[u])
    BY TableTypes DEF QueuesHoldIssued
<1>2. Gone(u) \in Nat /\ Gone(u) + i \in 1..Len(issued[u])
    <2>1. Gone(u) = Len(issued[u]) - Len(queue[u])
        BY DEF Gone
    <2>2. i \in Nat /\ i >= 1 /\ i <= Len(queue[u])
        BY <1>1
    <2>3. Gone(u) \in Nat
        BY <1>1, <2>1
    <2>4. Gone(u) + i >= 1 /\ Gone(u) + i <= Len(issued[u])
        BY <1>1, <2>1, <2>2
    <2> QED
        BY <1>1, <2>2, <2>3, <2>4
<1>3. queue[u][i].write = issued[u][Gone(u) + i]
    BY DEF QueuesHoldIssued
<1>4. queue[u][i].write \in Elements(issued[u])
    BY <1>2, <1>3 DEF Elements
<1>5. queue[u][i].write \in Issued
    BY <1>4 DEF Issued
<1>6. queue[u][i].write \in Pending
    BY DEF Pending, Writes
<1> QED
    BY <1>2, <1>3, <1>4, <1>5, <1>6

LEMMA GoneNat ==
    ASSUME TypeOK, QueuesHoldIssued, NEW u \in User
    PROVE  Gone(u) \in Nat
<1>1. /\ Len(queue[u]) \in Nat /\ Len(issued[u]) \in Nat
      /\ Len(queue[u]) <= Len(issued[u])
    BY TableTypes DEF QueuesHoldIssued
<1>2. Gone(u) = Len(issued[u]) - Len(queue[u])
    BY DEF Gone
<1> QED
    BY <1>1, <1>2

\* No write is queued twice.
LEMMA QueuedOnce ==
    ASSUME TypeOK, QueuesHoldIssued, NEW u \in User, NEW v \in User,
           NEW i \in 1..Len(queue[u]), NEW j \in 1..Len(queue[v]),
           queue[u][i].write = queue[v][j].write
    PROVE  u = v /\ i = j
<1>1. /\ queue[u][i].write \in Elements(issued[u])
      /\ queue[v][j].write \in Elements(issued[v])
    BY QueuedIssued
<1>2. u = v
    BY <1>1 DEF QueuesHoldIssued
<1>3. /\ Gone(u) \in Nat /\ Gone(u) + i \in 1..Len(issued[u])
      /\ queue[u][i].write = issued[u][Gone(u) + i]
    BY QueuedIssued
<1>4. /\ Gone(v) + j \in 1..Len(issued[v])
      /\ queue[v][j].write = issued[v][Gone(v) + j]
    BY QueuedIssued
<1>5. Gone(u) + i = Gone(u) + j
    BY <1>2, <1>3, <1>4 DEF QueuesHoldIssued
<1> QED
    BY <1>2, <1>3, <1>5

\* Membership in what is pending and what was issued.
LEMMA PendingIs ==
    ASSUME NEW w
    PROVE  w \in Pending <=>
               \E u \in User : \E i \in 1..Len(queue[u]) : queue[u][i].write = w
BY DEF Pending, Writes

LEMMA IssuedIs ==
    ASSUME NEW w
    PROVE  w \in Issued <=>
               \E u \in User : \E i \in 1..Len(issued[u]) : issued[u][i] = w
BY DEF Issued, Elements

LEMMA PendingIssued ==
    ASSUME TypeOK, QueuesHoldIssued
    PROVE  Pending \subseteq Issued /\ Issued \subseteq Write
<1>1. ASSUME NEW w \in Pending PROVE w \in Issued
    <2>1. PICK u \in User : \E i \in 1..Len(queue[u]) : queue[u][i].write = w
        BY PendingIs
    <2> QED
        BY <2>1, QueuedIssued
<1>2. ASSUME NEW w \in Issued PROVE w \in Write
    BY IssuedIs, TableTypes
<1> QED
    BY <1>1, <1>2

\* A new write.
Issues(w) ==
    /\ w \notin Issued
    /\ queue' = [queue EXCEPT ![user] = Append(@, [id |-> next, write |-> w])]
    /\ next' = next + 1
    /\ callbacks' = [callbacks EXCEPT ![user] =
                         IF \E b \in @ : b.id = next THEN @
                         ELSE @ \cup {[id |-> next, write |-> w]}]
    /\ issued' = [issued EXCEPT ![user] = Append(@, w)]
    /\ orphans' = orphans

\* What a new write does to the lists.
LEMMA IssuesLists ==
    ASSUME TypeOK, NEW w \in Write, Issues(w)
    PROVE  LET b == [id |-> next, write |-> w]
               q == queue[user]
           IN  /\ b \in Batch
               /\ \A u \in User \ {user} : /\ queue'[u] = queue[u]
                                           /\ issued'[u] = issued[u]
                                           /\ callbacks'[u] = callbacks[u]
               /\ queue'[user] = Append(q, b)
               /\ Len(queue'[user]) = Len(q) + 1
               /\ \A i \in 1..Len(q) : queue'[user][i] = q[i]
               /\ queue'[user][Len(q) + 1] = b
               /\ Len(issued'[user]) = Len(issued[user]) + 1
               /\ \A i \in 1..Len(issued[user]) : issued'[user][i] = issued[user][i]
               /\ issued'[user][Len(issued[user]) + 1] = w
               /\ queue' \in [User -> Seq(Batch)]
               /\ issued' \in [User -> Seq(Write)]
               /\ next' \in Nat \ {0}
               /\ next' = next + 1
<1> DEFINE b == [id |-> next, write |-> w]
           q == queue[user]
<1>1. /\ user \in User /\ next \in Nat \ {0} /\ q \in Seq(Batch)
      /\ issued[user] \in Seq(Write) /\ queue \in [User -> Seq(Batch)]
      /\ issued \in [User -> Seq(Write)] /\ callbacks \in [User -> SUBSET Batch]
    BY DEF TypeOK
<1>2. b \in Batch
    BY <1>1 DEF Batch
<1>3. /\ queue' = [queue EXCEPT ![user] = Append(q, b)]
      /\ issued' = [issued EXCEPT ![user] = Append(issued[user], w)]
      /\ next' = next + 1
    BY DEF Issues
<1>4. \A u \in User \ {user} : callbacks'[u] = callbacks[u]
    BY <1>1 DEF Issues
<1> HIDE DEF b, q
<1>5. /\ Append(q, b) \in Seq(Batch)
      /\ Len(Append(q, b)) = Len(q) + 1
      /\ \A i \in 1..Len(q) : Append(q, b)[i] = q[i]
      /\ Append(q, b)[Len(q) + 1] = b
    BY <1>1, <1>2, AppendProperties
<1>6. /\ Append(issued[user], w) \in Seq(Write)
      /\ Len(Append(issued[user], w)) = Len(issued[user]) + 1
      /\ \A i \in 1..Len(issued[user]) : Append(issued[user], w)[i] = issued[user][i]
      /\ Append(issued[user], w)[Len(issued[user]) + 1] = w
    BY <1>1, AppendProperties
<1>7. queue'[user] = Append(q, b) /\ issued'[user] = Append(issued[user], w)
    BY <1>1, <1>3
<1>8. \A u \in User \ {user} : queue'[u] = queue[u] /\ issued'[u] = issued[u]
    BY <1>1, <1>3
<1>9. queue' \in [User -> Seq(Batch)] /\ issued' \in [User -> Seq(Write)]
    BY <1>1, <1>3, <1>5, <1>6
<1>10. next' \in Nat \ {0}
    BY <1>1, <1>3
<1> QED
    BY <1>2, <1>3, <1>4, <1>5, <1>6, <1>7, <1>8, <1>9, <1>10 DEF b, q

\* A new write is issued and pending, and leaves the others where they are.
LEMMA IssuesSets ==
    ASSUME TypeOK, NEW w \in Write, Issues(w)
    PROVE  /\ \A x : x \in Issued' <=> x \in Issued \/ x = w
           /\ \A x : x \in Pending' <=> x \in Pending \/ x = w
           /\ \A u \in User : Gone(u)' = Gone(u)
           /\ \A u \in User : \A x :
                  x \in Elements(issued[u])' <=>
                      x \in Elements(issued[u]) \/ (u = user /\ x = w)
<1>1. /\ user \in User
      /\ \A u \in User : Len(queue[u]) \in Nat /\ Len(issued[u]) \in Nat
    BY TableTypes
<1>2. \A u \in User \ {user} : queue'[u] = queue[u] /\ issued'[u] = issued[u]
    BY IssuesLists
<1>3. /\ Len(queue'[user]) = Len(queue[user]) + 1
      /\ \A i \in 1..Len(queue[user]) : queue'[user][i] = queue[user][i]
      /\ queue'[user][Len(queue[user]) + 1] = [id |-> next, write |-> w]
    BY IssuesLists
<1>4. /\ Len(issued'[user]) = Len(issued[user]) + 1
      /\ \A i \in 1..Len(issued[user]) : issued'[user][i] = issued[user][i]
      /\ issued'[user][Len(issued[user]) + 1] = w
    BY IssuesLists
<1>5. \A u \in User : Gone(u)' = Gone(u)
    <2>1. SUFFICES ASSUME NEW u \in User
                   PROVE  Len(issued'[u]) - Len(queue'[u]) =
                          Len(issued[u]) - Len(queue[u])
        BY DEF Gone
    <2>2. CASE u # user
        BY <1>2, <2>2
    <2>3. CASE u = user
        <3>1. \A m, n \in Nat : (m + 1) - (n + 1) = m - n
            OBVIOUS
        <3>2. /\ Len(issued[user]) \in Nat /\ Len(queue[user]) \in Nat
              /\ Len(issued'[user]) = Len(issued[user]) + 1
              /\ Len(queue'[user]) = Len(queue[user]) + 1
            BY <1>1, <1>3, <1>4
        <3> QED
            BY <2>3, <3>1, <3>2
    <2> QED
        BY <2>2, <2>3
<1>6. \A u \in User : \A x :
          (\E i \in 1..Len(issued'[u]) : issued'[u][i] = x) <=>
          (\E i \in 1..Len(issued[u]) : issued[u][i] = x) \/ (u = user /\ x = w)
    <2> DEFINE Before(u, x) == \E i \in 1..Len(issued[u]) : issued[u][i] = x
               After(u, x) == \E i \in 1..Len(issued'[u]) : issued'[u][i] = x
    <2>1. ASSUME NEW u \in User \ {user}, NEW x
          PROVE  After(u, x) <=> Before(u, x)
        BY <1>2
    <2>2. ASSUME NEW x
          PROVE  After(user, x) <=> Before(user, x) \/ x = w
        <3>1. 1..Len(issued'[user]) = 1..Len(issued[user]) \cup {Len(issued[user]) + 1}
            BY <1>1, <1>4
        <3> QED
            BY <1>4, <3>1
    <2> HIDE DEF Before, After
    <2>3. \A u \in User : \A x :
              After(u, x) <=> Before(u, x) \/ (u = user /\ x = w)
        BY <2>1, <2>2
    <2> QED
        BY <2>3 DEF Before, After
<1>7. \A u \in User : \A x :
          (\E i \in 1..Len(queue'[u]) : queue'[u][i].write = x) <=>
          (\E i \in 1..Len(queue[u]) : queue[u][i].write = x) \/ (u = user /\ x = w)
    <2> DEFINE Before(u, x) == \E i \in 1..Len(queue[u]) : queue[u][i].write = x
               After(u, x) == \E i \in 1..Len(queue'[u]) : queue'[u][i].write = x
    <2>1. ASSUME NEW u \in User \ {user}, NEW x
          PROVE  After(u, x) <=> Before(u, x)
        BY <1>2
    <2>2. ASSUME NEW x
          PROVE  After(user, x) <=> Before(user, x) \/ x = w
        <3>1. 1..Len(queue'[user]) = 1..Len(queue[user]) \cup {Len(queue[user]) + 1}
            BY <1>1, <1>3
        <3>2. queue'[user][Len(queue[user]) + 1].write = w
            BY <1>3
        <3>3. \A i \in 1..Len(queue[user]) :
                  queue'[user][i].write = queue[user][i].write
            BY <1>3
        <3> QED
            BY <3>1, <3>2, <3>3
    <2> HIDE DEF Before, After
    <2>3. \A u \in User : \A x :
              After(u, x) <=> Before(u, x) \/ (u = user /\ x = w)
        BY <2>1, <2>2
    <2> QED
        BY <2>3 DEF Before, After
<1>8. \A x : x \in Issued' <=>
                 \E u \in User : \E i \in 1..Len(issued'[u]) : issued'[u][i] = x
    BY DEF Issued, Elements
<1>9. \A x : x \in Pending' <=>
                 \E u \in User : \E i \in 1..Len(queue'[u]) : queue'[u][i].write = x
    BY DEF Pending, Writes
<1>10. \A x : x \in Issued' <=> x \in Issued \/ x = w
    <2>1. SUFFICES ASSUME NEW x PROVE x \in Issued' <=> x \in Issued \/ x = w
        OBVIOUS
    <2>2. x \in Issued <=>
              \E u \in User : \E i \in 1..Len(issued[u]) : issued[u][i] = x
        BY IssuedIs
    <2> DEFINE Before(u) == \E i \in 1..Len(issued[u]) : issued[u][i] = x
               After(u) == \E i \in 1..Len(issued'[u]) : issued'[u][i] = x
    <2>3. \A u \in User : After(u) <=> Before(u) \/ (u = user /\ x = w)
        BY <1>6
    <2>4. x \in Issued' <=> \E u \in User : After(u)
        BY <1>8
    <2>5. x \in Issued <=> \E u \in User : Before(u)
        BY <2>2
    <2> HIDE DEF Before, After
    <2> QED
        BY <1>1, <2>3, <2>4, <2>5
<1>11. \A x : x \in Pending' <=> x \in Pending \/ x = w
    <2>1. SUFFICES ASSUME NEW x PROVE x \in Pending' <=> x \in Pending \/ x = w
        OBVIOUS
    <2>2. x \in Pending <=>
              \E u \in User : \E i \in 1..Len(queue[u]) : queue[u][i].write = x
        BY PendingIs
    <2> DEFINE Before(u) == \E i \in 1..Len(queue[u]) : queue[u][i].write = x
               After(u) == \E i \in 1..Len(queue'[u]) : queue'[u][i].write = x
    <2>3. x \in Pending <=> \E u \in User : Before(u)
        BY <2>2
    <2>4. x \in Pending' <=> \E u \in User : After(u)
        BY <1>9
    <2>5. \A u \in User : After(u) <=> Before(u) \/ (u = user /\ x = w)
        BY <1>7
    <2> HIDE DEF Before, After
    <2> QED
        BY <1>1, <2>3, <2>4, <2>5
<1>12. \A u \in User : \A x :
           x \in Elements(issued[u])' <=>
               x \in Elements(issued[u]) \/ (u = user /\ x = w)
    BY <1>6 DEF Elements
<1> QED
    BY <1>5, <1>10, <1>11, <1>12

LEMMA IssuesKeep ==
    ASSUME TypeOK, TableOK, NEW w \in Write, Issues(w)
    PROVE  TableOK' /\ callbacks' \in [User -> SUBSET Batch]
<1> DEFINE b == [id |-> next, write |-> w]
           q == queue[user]
<1>1. /\ user \in User /\ next \in Nat /\ next >= 1
      /\ \A u \in User : Len(queue[u]) \in Nat /\ Len(issued[u]) \in Nat
      /\ \A u \in User : \A i \in 1..Len(queue[u]) :
             queue[u][i] \in Batch /\ queue[u][i].id \in Nat
      /\ callbacks \in [User -> SUBSET Batch]
    BY TableTypes DEF TypeOK
<1>2. /\ b \in Batch
      /\ \A u \in User \ {user} : /\ queue'[u] = queue[u]
                                  /\ issued'[u] = issued[u]
                                  /\ callbacks'[u] = callbacks[u]
      /\ Len(queue'[user]) = Len(q) + 1
      /\ \A i \in 1..Len(q) : queue'[user][i] = q[i]
      /\ queue'[user][Len(q) + 1] = b
      /\ Len(issued'[user]) = Len(issued[user]) + 1
      /\ \A i \in 1..Len(issued[user]) : issued'[user][i] = issued[user][i]
      /\ issued'[user][Len(issued[user]) + 1] = w
      /\ next' = next + 1
    BY IssuesLists
<1>3. /\ IdsIncrease /\ QueuesHoldIssued /\ CallbacksKept
    BY DEF TableOK
<1>4. b.id = next /\ b.write = w
    OBVIOUS
<1>5. callbacks' = [callbacks EXCEPT ![user] =
                        IF \E c \in callbacks[user] : c.id = next
                        THEN callbacks[user] ELSE callbacks[user] \cup {b}]
    BY DEF Issues
<1> HIDE DEF b
<1>6. ~ \E c \in callbacks[user] : c.id = next
    <2>1. SUFFICES ASSUME NEW c \in callbacks[user], c.id = next PROVE FALSE
        OBVIOUS
    <2>2. PICK i \in 1..Len(queue[user]) : c = queue[user][i]
        BY <1>1, <1>3 DEF QueuesHoldIssued, Elements
    <2> QED
        BY <1>1, <1>3, <2>1, <2>2 DEF IdsIncrease
<1>7. callbacks'[user] = callbacks[user] \cup {b}
    BY <1>1, <1>5, <1>6
<1>8. callbacks' \in [User -> SUBSET Batch]
    BY <1>1, <1>2, <1>5, <1>6
<1>9. 1..Len(q) + 1 = 1..Len(q) \cup {Len(q) + 1}
    BY <1>1
<1>10. IdsIncrease'
    <2>1. SUFFICES ASSUME NEW u \in User, NEW i \in 1..Len(queue'[u]),
                          NEW j \in 1..Len(queue'[u])
                   PROVE  /\ queue'[u][i].id < next'
                          /\ i < j => queue'[u][i].id < queue'[u][j].id
        BY DEF IdsIncrease
    <2>2. CASE u # user
        <3>1. queue'[u] = queue[u]
            BY <1>2, <2>2
        <3>2. /\ queue[u][i].id < next
              /\ i < j => queue[u][i].id < queue[u][j].id
            BY <1>3, <2>1, <3>1 DEF IdsIncrease
        <3>3. queue[u][i].id \in Nat /\ next \in Nat /\ next' = next + 1
            BY <1>1, <1>2, <2>1, <3>1, TableTypes
        <3>4. \A m, n \in Nat : m < n => m < n + 1
            OBVIOUS
        <3> QED
            BY <3>1, <3>2, <3>3, <3>4
    <2>3. CASE u = user
        <3>1. /\ i \in 1..Len(q) \/ i = Len(q) + 1
              /\ j \in 1..Len(q) \/ j = Len(q) + 1
            BY <1>2, <1>9, <2>3
        <3>2. /\ \A k \in 1..Len(q) : q[k].id < next /\ q[k].id \in Nat
              /\ \A k, m \in 1..Len(q) : k < m => q[k].id < q[m].id
            BY <1>1, <1>3 DEF IdsIncrease
        <3>3. queue'[user][i].id < next'
            <4>1. CASE i \in 1..Len(q)
                <5>1. queue'[user][i] = q[i]
                    BY <1>2, <4>1
                <5> QED
                    BY <1>1, <1>2, <3>2, <4>1, <5>1
            <4>2. CASE i = Len(q) + 1
                BY <1>1, <1>2, <1>4, <4>2
            <4> QED
                BY <3>1, <4>1, <4>2
        <3>4. ASSUME i < j PROVE queue'[user][i].id < queue'[user][j].id
            <4>1. i \in 1..Len(q)
                BY <1>1, <3>1, <3>4
            <4>2. queue'[user][i] = q[i]
                BY <1>2, <4>1
            <4>3. CASE j \in 1..Len(q)
                <5>1. queue'[user][j] = q[j]
                    BY <1>2, <4>3
                <5> QED
                    BY <3>2, <3>4, <4>1, <4>2, <4>3, <5>1
            <4>4. CASE j = Len(q) + 1
                BY <1>2, <1>4, <3>2, <4>1, <4>2, <4>4
            <4> QED
                BY <3>1, <4>3, <4>4
        <3> QED
            BY <2>3, <3>3, <3>4
    <2> QED
        BY <2>2, <2>3
<1>11. QueuesHoldIssued'
    <2>1. \A u \in User : Gone(u)' = Gone(u)
        BY IssuesSets
    <2>2. ASSUME NEW u \in User
          PROVE  /\ Len(queue'[u]) <= Len(issued'[u])
                 /\ \A i \in 1..Len(queue'[u]) :
                        queue'[u][i].write = issued'[u][Gone(u) + i]
                 /\ \A i, j \in 1..Len(issued'[u]) :
                        issued'[u][i] = issued'[u][j] => i = j
                 /\ callbacks'[u] \subseteq Elements(queue'[u])
        <3>1. CASE u # user
            <4>1. /\ queue'[u] = queue[u] /\ issued'[u] = issued[u]
                  /\ callbacks'[u] = callbacks[u]
                BY <1>2, <3>1
            <4>2. /\ Len(queue[u]) <= Len(issued[u])
                  /\ \A i \in 1..Len(queue[u]) :
                         queue[u][i].write = issued[u][Gone(u) + i]
                  /\ \A i, j \in 1..Len(issued[u]) :
                         issued[u][i] = issued[u][j] => i = j
                  /\ callbacks[u] \subseteq Elements(queue[u])
                BY <1>3 DEF QueuesHoldIssued
            <4> QED
                BY <4>1, <4>2
        <3>2. CASE u = user
            <4>1. Len(queue[user]) <= Len(issued[user])
                BY <1>1, <1>3 DEF QueuesHoldIssued
            <4>2. Gone(user) + (Len(q) + 1) = Len(issued[user]) + 1
                <5>1. Gone(user) = Len(issued[user]) - Len(queue[user])
                    BY DEF Gone
                <5>2. Len(issued[user]) \in Nat /\ Len(queue[user]) \in Nat
                    BY <1>1
                <5>3. \A m, n \in Nat : (m - n) + (n + 1) = m + 1
                    OBVIOUS
                <5> QED
                    BY <5>1, <5>2, <5>3
            <4>3. \A i \in 1..Len(q) + 1 :
                      queue'[user][i].write = issued'[user][Gone(user) + i]
                <5>1. SUFFICES ASSUME NEW i \in 1..Len(q)
                               PROVE  queue'[user][i].write =
                                      issued'[user][Gone(user) + i]
                    BY <1>2, <1>4, <1>9, <4>2
                <5>2. /\ Gone(user) + i \in 1..Len(issued[user])
                      /\ queue[user][i].write = issued[user][Gone(user) + i]
                    BY <1>1, <1>3, QueuedIssued
                <5> QED
                    BY <1>2, <5>2
            <4>4. \A i, j \in 1..Len(issued'[user]) :
                      issued'[user][i] = issued'[user][j] => i = j
                <5>1. \A i \in 1..Len(issued[user]) : issued[user][i] # w
                    BY <1>1, IssuedIs DEF Issues
                <5>2. 1..Len(issued'[user]) =
                          1..Len(issued[user]) \cup {Len(issued[user]) + 1}
                    BY <1>1, <1>2
                <5>3. \A i, j \in 1..Len(issued[user]) :
                          issued[user][i] = issued[user][j] => i = j
                    BY <1>1, <1>3 DEF QueuesHoldIssued
                <5> QED
                    BY <1>2, <5>1, <5>2, <5>3
            <4>5. callbacks'[user] \subseteq Elements(queue'[user])
                <5>1. callbacks[user] \subseteq Elements(queue[user])
                    BY <1>1, <1>3 DEF QueuesHoldIssued
                <5>2. \A c \in Elements(queue[user]) : c \in Elements(queue'[user])
                    <6>1. SUFFICES ASSUME NEW i \in 1..Len(q)
                                   PROVE  q[i] \in Elements(queue'[user])
                        BY DEF Elements
                    <6>2. i \in 1..Len(queue'[user]) /\ queue'[user][i] = q[i]
                        BY <1>2, <1>9
                    <6> QED
                        BY <6>2 DEF Elements
                <5>3. b \in Elements(queue'[user])
                    <6>1. Len(q) + 1 \in 1..Len(queue'[user])
                        BY <1>2, <1>9
                    <6> QED
                        BY <1>2, <6>1 DEF Elements
                <5> QED
                    BY <1>7, <5>1, <5>2, <5>3
            <4>6. Len(queue'[user]) <= Len(issued'[user])
                BY <1>1, <1>2, <4>1
            <4> QED
                BY <1>2, <3>2, <4>3, <4>4, <4>5, <4>6
        <3> QED
            BY <3>1, <3>2
    <2>3. ASSUME NEW u \in User, NEW v \in User, u # v
          PROVE  Elements(issued'[u]) \cap Elements(issued'[v]) = {}
        <3>1. \A x : x \in Elements(issued'[u]) <=>
                         x \in Elements(issued[u]) \/ (u = user /\ x = w)
            BY IssuesSets
        <3>2. \A x : x \in Elements(issued'[v]) <=>
                         x \in Elements(issued[v]) \/ (v = user /\ x = w)
            BY IssuesSets
        <3>3. /\ Elements(issued[u]) \cap Elements(issued[v]) = {}
              /\ w \notin Elements(issued[u]) /\ w \notin Elements(issued[v])
            BY <1>3, <2>3 DEF QueuesHoldIssued, Issues, Issued
        <3> QED
            BY <2>3, <3>1, <3>2, <3>3
    <2>4. \A u \in User : \A i \in 1..Len(queue'[u]) :
              queue'[u][i].write = issued'[u][Gone(u)' + i]
        BY <2>1, <2>2
    <2> QED
        BY <2>2, <2>3, <2>4 DEF QueuesHoldIssued
<1>12. CallbacksKept'
    <2>1. SUFFICES ASSUME NEW u \in User, NEW c \in Elements(queue'[u])
                   PROVE  c \in callbacks'[u] \/ c.write \in orphans
        BY DEF CallbacksKept, Issues
    <2>2. CASE u # user
        BY <1>2, <1>3, <2>2 DEF CallbacksKept
    <2>3. CASE u = user
        <3>1. c = b \/ c \in Elements(queue[user])
            <4>1. PICK i \in 1..Len(queue'[user]) : c = queue'[user][i]
                BY <2>3 DEF Elements
            <4>2. i \in 1..Len(q) \/ i = Len(q) + 1
                BY <1>2, <1>9
            <4>3. i \in 1..Len(q) => c \in Elements(queue[user])
                BY <1>2, <4>1 DEF Elements
            <4> QED
                BY <1>2, <4>1, <4>2, <4>3
        <3> QED
            BY <1>1, <1>3, <1>7, <2>3, <3>1 DEF CallbacksKept
    <2> QED
        BY <2>2, <2>3
<1> QED
    BY <1>8, <1>10, <1>11, <1>12 DEF TableOK

\* The first batch of the user's queue, when a write ends.
First == queue[user][1]

Ends ==
    /\ queue[user] # <<>>
    /\ queue' = [queue EXCEPT ![user] = Tail(queue[user])]
    /\ callbacks' = [callbacks EXCEPT ![user] = callbacks[user] \ {First}]
    /\ user' = user
    /\ next' = next
    /\ issued' = issued
    /\ orphans' = orphans

\* EndWrite, for the first batch of the pipeline: its row and its callback go.
LEMMA EndWriteEnds ==
    ASSUME TypeOK, TableOK, queue[user] # <<>>, NEW answer,
           EndWrite(First.id, answer), issued' = issued, orphans' = orphans
    PROVE  /\ Ends
           /\ told' = [w \in Write |->
                           IF First \in callbacks[user] /\ w = First.write
                           THEN answer ELSE told[w]]
           /\ waiters' = {x \in waiters : x.id # First.id}
           /\ released' = released \cup
                              {x.for : x \in {y \in waiters : y.id = First.id}}
<1>1. /\ user \in User /\ queue[user] \in Seq(Batch) /\ Increasing(queue[user])
      /\ Len(queue[user]) \in Nat /\ 1 \in 1..Len(queue[user])
      /\ queue \in [User -> Seq(Batch)]
      /\ \A i \in 1..Len(queue[user]) : queue[user][i].id \in Nat
      /\ callbacks[user] \subseteq Elements(queue[user])
    BY TableTypes, QueuesIncrease, TailOf DEF TableOK, QueuesHoldIssued, TypeOK
<1>2. RemoveMutationBatch(queue[user], First.id) = Tail(queue[user])
    BY <1>1, RemoveFirst DEF First
<1>3. queue' = [queue EXCEPT ![user] = Tail(queue[user])]
    <2>1. queue' = [queue EXCEPT ![user] =
                        RemoveMutationBatch(queue[user], First.id)]
        BY DEF EndWrite
    <2> QED
        BY <1>2, <2>1
<1> DEFINE found == {b \in callbacks[user] : b.id = First.id}
<1>4. \A b : b \in found <=> b = First /\ First \in callbacks[user]
    <2>1. SUFFICES ASSUME NEW b \in callbacks[user], b.id = First.id
                   PROVE  b = First
        OBVIOUS
    <2>2. PICK i \in 1..Len(queue[user]) : b = queue[user][i]
        BY <1>1 DEF Elements
    <2>3. i = 1
        BY <1>1, <2>1, <2>2 DEF Increasing, First
    <2> QED
        BY <2>2, <2>3 DEF First
<1>5. /\ callbacks' = [callbacks EXCEPT ![user] = callbacks[user] \ found]
      /\ told' = [w \in Write |-> IF \E b \in found : b.write = w
                                  THEN answer ELSE told[w]]
      /\ waiters' = {x \in waiters : x.id # First.id}
      /\ released' = released \cup
                         {x.for : x \in {y \in waiters : y.id = First.id}}
      /\ user' = user /\ next' = next
    BY DEF EndWrite, NotifyUser, TriggerPendingWriteCallbacks
<1> HIDE DEF found
<1>6. callbacks[user] \ found = callbacks[user] \ {First}
    BY <1>4
<1>7. told' = [w \in Write |->
                   IF First \in callbacks[user] /\ w = First.write
                   THEN answer ELSE told[w]]
    <2>1. \A w \in Write : (\E b \in found : b.write = w) <=>
                               First \in callbacks[user] /\ w = First.write
        BY <1>4
    <2> QED
        BY <1>5, <2>1
<1>8. Ends
    BY <1>3, <1>5, <1>6 DEF Ends
<1> QED
    BY <1>5, <1>7, <1>8

LEMMA EndsLists ==
    ASSUME TypeOK, Ends
    PROVE  /\ \A u \in User \ {user} : /\ queue'[u] = queue[u]
                                       /\ callbacks'[u] = callbacks[u]
           /\ Len(queue[user]) >= 1 /\ Len(queue[user]) \in Nat
           /\ queue'[user] = Tail(queue[user])
           /\ Len(queue'[user]) = Len(queue[user]) - 1
           /\ \A i \in 1..Len(queue[user]) - 1 :
                  queue'[user][i] = queue[user][i + 1]
           /\ callbacks'[user] = callbacks[user] \ {First}
           /\ queue' \in [User -> Seq(Batch)]
           /\ callbacks' \in [User -> SUBSET Batch]
           /\ First \in Batch /\ First.write \in Write
           /\ First = Head(queue[user])
<1>1. /\ user \in User /\ queue[user] \in Seq(Batch) /\ queue[user] # <<>>
      /\ queue \in [User -> Seq(Batch)] /\ callbacks \in [User -> SUBSET Batch]
    BY DEF TypeOK, Ends
<1>2. /\ Len(queue[user]) \in Nat /\ Len(queue[user]) >= 1
      /\ Head(queue[user]) \in Batch /\ Head(queue[user]) = First
      /\ Tail(queue[user]) \in Seq(Batch)
      /\ Len(Tail(queue[user])) = Len(queue[user]) - 1
      /\ \A i \in 1..Len(queue[user]) - 1 :
             Tail(queue[user])[i] = queue[user][i + 1]
    BY <1>1, TailOf DEF First
<1>3. /\ queue' = [queue EXCEPT ![user] = Tail(queue[user])]
      /\ callbacks' = [callbacks EXCEPT ![user] = callbacks[user] \ {First}]
    BY DEF Ends
<1>4. /\ \A u \in User \ {user} : /\ queue'[u] = queue[u]
                                  /\ callbacks'[u] = callbacks[u]
      /\ queue'[user] = Tail(queue[user])
      /\ callbacks'[user] = callbacks[user] \ {First}
    BY <1>1, <1>3
<1>5. queue' \in [User -> Seq(Batch)] /\ callbacks' \in [User -> SUBSET Batch]
    BY <1>1, <1>2, <1>3
<1>6. First.write \in Write
    BY <1>2 DEF Batch
<1> QED
    BY <1>2, <1>4, <1>5, <1>6

\* The first batch has left the queue, and nothing else.
LEMMA EndsSets ==
    ASSUME TypeOK, TableOK, Ends
    PROVE  /\ \A x : x \in Pending' <=> x \in Pending /\ x # First.write
           /\ Gone(user)' = Gone(user) + 1
           /\ \A u \in User \ {user} : Gone(u)' = Gone(u)
           /\ Issued' = Issued
<1>1. /\ user \in User /\ issued' = issued /\ user' = user
      /\ \A u \in User : Len(queue[u]) \in Nat /\ Len(issued[u]) \in Nat
    BY TableTypes DEF Ends
<1>2. /\ \A u \in User \ {user} : queue'[u] = queue[u]
      /\ Len(queue[user]) >= 1
      /\ Len(queue'[user]) = Len(queue[user]) - 1
      /\ \A i \in 1..Len(queue[user]) - 1 : queue'[user][i] = queue[user][i + 1]
    BY EndsLists
<1>3. Gone(user)' = Gone(user) + 1
    <2>1. \A m, n \in Nat : m - (n - 1) = (m - n) + 1
        OBVIOUS
    <2>2. /\ Gone(user)' = Len(issued[user]) - (Len(queue[user]) - 1)
          /\ Gone(user) = Len(issued[user]) - Len(queue[user])
        BY <1>1, <1>2 DEF Gone
    <2> QED
        BY <1>1, <2>1, <2>2
<1>4. \A u \in User \ {user} : Gone(u)' = Gone(u)
    BY <1>1, <1>2 DEF Gone
<1>5. Issued' = Issued
    BY <1>1 DEF Issued, Elements
<1>6. ASSUME NEW x PROVE x \in Pending' <=> x \in Pending /\ x # First.write
    <2> DEFINE Before(u) == \E i \in 1..Len(queue[u]) : queue[u][i].write = x
               After(u) == \E i \in 1..Len(queue'[u]) : queue'[u][i].write = x
    <2>1. x \in Pending <=> \E u \in User : Before(u)
        BY PendingIs
    <2>2. x \in Pending' <=> \E u \in User : After(u)
        BY DEF Pending, Writes
    <2>3. \A u \in User \ {user} : After(u) <=> Before(u)
        BY <1>2
    <2>4. /\ 1 \in 1..Len(queue[user])
          /\ \A i \in 1..Len(queue[user]) - 1 : i + 1 \in 1..Len(queue[user])
          /\ \A i \in 1..Len(queue[user]) :
                 i # 1 => /\ i - 1 \in 1..Len(queue[user]) - 1
                          /\ (i - 1) + 1 = i
        BY <1>1, <1>2
    <2>5. After(user) <=> \E i \in 1..Len(queue[user]) :
                              i # 1 /\ queue[user][i].write = x
        <3>1. ASSUME NEW i \in 1..Len(queue'[user]), queue'[user][i].write = x
              PROVE  \E j \in 1..Len(queue[user]) :
                         j # 1 /\ queue[user][j].write = x
            <4>1. i \in 1..Len(queue[user]) - 1
                BY <1>2
            <4>2. i + 1 \in 1..Len(queue[user]) /\ i + 1 # 1
                BY <1>1, <2>4, <4>1
            <4> QED
                BY <1>2, <3>1, <4>1, <4>2
        <3>2. ASSUME NEW i \in 1..Len(queue[user]), i # 1,
                     queue[user][i].write = x
              PROVE  \E j \in 1..Len(queue'[user]) : queue'[user][j].write = x
            <4>1. i - 1 \in 1..Len(queue'[user]) /\ queue'[user][i - 1] = queue[user][i]
                BY <1>2, <2>4, <3>2
            <4> QED
                BY <3>2, <4>1
        <3> QED
            BY <3>1, <3>2
    <2>6. \A u \in User : \A i \in 1..Len(queue[u]) :
              queue[u][i].write = First.write <=> u = user /\ i = 1
        <3>1. ASSUME NEW u \in User, NEW i \in 1..Len(queue[u]),
                     queue[u][i].write = First.write
              PROVE  u = user /\ i = 1
            BY <1>1, <2>4, <3>1, QueuedOnce DEF TableOK, First
        <3> QED
            BY <3>1 DEF First
    <2>7. CASE x = First.write
        <3>1. \A u \in User : ~After(u)
            <4>1. \A u \in User \ {user} : ~Before(u)
                BY <2>6, <2>7
            <4>2. ~After(user)
                BY <1>1, <2>5, <2>6, <2>7
            <4> HIDE DEF Before, After
            <4> QED
                BY <2>3, <4>1, <4>2
        <3> HIDE DEF After
        <3> QED
            BY <2>2, <2>7, <3>1
    <2>8. CASE x # First.write
        <3>1. After(user) <=> Before(user)
            BY <2>4, <2>5, <2>8 DEF First
        <3> HIDE DEF Before, After
        <3> QED
            BY <1>1, <2>1, <2>2, <2>3, <2>8, <3>1
    <2> QED
        BY <2>7, <2>8
<1> QED
    BY <1>3, <1>4, <1>5, <1>6

LEMMA EndsKeep ==
    ASSUME TypeOK, TableOK, Ends
    PROVE  TableOK'
<1>1. /\ user \in User /\ issued' = issued /\ user' = user /\ next' = next
      /\ orphans' = orphans
      /\ \A u \in User : Len(queue[u]) \in Nat /\ Len(issued[u]) \in Nat
    BY TableTypes DEF Ends
<1>2. /\ \A u \in User \ {user} : queue'[u] = queue[u] /\ callbacks'[u] = callbacks[u]
      /\ Len(queue[user]) >= 1
      /\ Len(queue'[user]) = Len(queue[user]) - 1
      /\ \A i \in 1..Len(queue[user]) - 1 : queue'[user][i] = queue[user][i + 1]
      /\ callbacks'[user] = callbacks[user] \ {First}
    BY EndsLists
<1>3. IdsIncrease /\ QueuesHoldIssued /\ CallbacksKept
    BY DEF TableOK
<1>4. /\ 1 \in 1..Len(queue[user])
      /\ \A i \in 1..Len(queue[user]) - 1 : i + 1 \in 1..Len(queue[user])
      /\ \A i \in 1..Len(queue[user]) :
             i # 1 => i - 1 \in 1..Len(queue[user]) - 1 /\ (i - 1) + 1 = i
    BY <1>1, <1>2
<1>5. IdsIncrease'
    <2>1. SUFFICES ASSUME NEW u \in User, NEW i \in 1..Len(queue'[u]),
                          NEW j \in 1..Len(queue'[u])
                   PROVE  /\ queue'[u][i].id < next
                          /\ i < j => queue'[u][i].id < queue'[u][j].id
        BY <1>1 DEF IdsIncrease
    <2>2. CASE u # user
        BY <1>2, <1>3, <2>2 DEF IdsIncrease
    <2>3. CASE u = user
        <3>1. /\ i \in 1..Len(queue[user]) - 1 /\ j \in 1..Len(queue[user]) - 1
            BY <1>2, <2>3
        <3>2. /\ queue'[user][i] = queue[user][i + 1]
              /\ queue'[user][j] = queue[user][j + 1]
              /\ i + 1 \in 1..Len(queue[user]) /\ j + 1 \in 1..Len(queue[user])
              /\ i < j => i + 1 < j + 1
            BY <1>1, <1>2, <1>4, <3>1
        <3> QED
            BY <1>1, <1>3, <2>3, <3>2 DEF IdsIncrease
    <2> QED
        BY <2>2, <2>3
<1>6. QueuesHoldIssued'
    <2>1. /\ Gone(user)' = Gone(user) + 1
          /\ \A u \in User \ {user} : Gone(u)' = Gone(u)
        BY EndsSets
    <2>2. ASSUME NEW u \in User
          PROVE  /\ Len(queue'[u]) <= Len(issued[u])
                 /\ \A i \in 1..Len(queue'[u]) :
                        queue'[u][i].write = issued[u][Gone(u)' + i]
                 /\ callbacks'[u] \subseteq Elements(queue'[u])
        <3>1. CASE u # user
            BY <1>2, <1>3, <2>1, <3>1 DEF QueuesHoldIssued
        <3>2. CASE u = user
            <4>1. Len(queue'[user]) <= Len(issued[user])
                <5>1. Len(queue[user]) <= Len(issued[user])
                    BY <1>1, <1>3 DEF QueuesHoldIssued
                <5> QED
                    BY <1>1, <1>2, <5>1
            <4>2. ASSUME NEW i \in 1..Len(queue'[user])
                  PROVE  queue'[user][i].write = issued[user][(Gone(user) + 1) + i]
                <5>1. i \in 1..Len(queue[user]) - 1 /\ i + 1 \in 1..Len(queue[user])
                    BY <1>2, <1>4
                <5>2. queue[user][i + 1].write = issued[user][Gone(user) + (i + 1)]
                    BY <1>1, <1>3, <5>1 DEF QueuesHoldIssued
                <5>3. Gone(user) + (i + 1) = (Gone(user) + 1) + i
                    <6>1. Gone(user) \in Nat
                        BY <1>1, <1>3, GoneNat
                    <6>2. i \in Nat
                        BY <1>1, <5>1
                    <6> QED
                        BY <6>1, <6>2
                <5> QED
                    BY <1>2, <5>1, <5>2, <5>3
            <4>3. callbacks'[user] \subseteq Elements(queue'[user])
                <5>1. SUFFICES ASSUME NEW c \in callbacks[user], c # First
                               PROVE  c \in Elements(queue'[user])
                    BY <1>2
                <5>2. PICK i \in 1..Len(queue[user]) : c = queue[user][i]
                    BY <1>1, <1>3 DEF QueuesHoldIssued, Elements
                <5>3. i # 1
                    BY <5>1, <5>2 DEF First
                <5>4. /\ i - 1 \in 1..Len(queue'[user])
                      /\ queue'[user][i - 1] = queue[user][i]
                    BY <1>2, <1>4, <5>3
                <5> QED
                    BY <5>2, <5>4 DEF Elements
            <4>4. Gone(u)' = Gone(user) + 1
                BY <1>1, <2>1, <3>2 DEF Gone
            <4> QED
                BY <3>2, <4>1, <4>2, <4>3, <4>4
        <3> QED
            BY <3>1, <3>2
    <2>3. /\ \A u \in User : \A i, j \in 1..Len(issued[u]) :
                 issued[u][i] = issued[u][j] => i = j
          /\ \A u, v \in User :
                 u # v => Elements(issued[u]) \cap Elements(issued[v]) = {}
        BY <1>3 DEF QueuesHoldIssued
    <2> QED
        BY <1>1, <2>2, <2>3 DEF QueuesHoldIssued
<1>7. CallbacksKept'
    <2>1. SUFFICES ASSUME NEW u \in User, NEW i \in 1..Len(queue'[u])
                   PROVE  \/ queue'[u][i] \in callbacks'[u]
                          \/ queue'[u][i].write \in orphans
        BY <1>1 DEF CallbacksKept, Elements
    <2>2. CASE u # user
        BY <1>2, <1>3, <2>2 DEF CallbacksKept, Elements
    <2>3. CASE u = user
        <3>1. i \in 1..Len(queue[user]) - 1 /\ i + 1 \in 1..Len(queue[user])
            BY <1>2, <1>4, <2>3
        <3>2. queue'[user][i] = queue[user][i + 1]
            BY <1>2, <3>1
        <3>3. queue[user][i + 1] # First
            <4>1. i + 1 # 1
                BY <1>1, <3>1
            <4> QED
                BY <1>1, <1>3, <1>4, <3>1, <4>1, QueuedOnce DEF First
        <3>4. \/ queue[user][i + 1] \in callbacks[user]
              \/ queue[user][i + 1].write \in orphans
            BY <1>1, <1>3, <3>1 DEF CallbacksKept, Elements
        <3> QED
            BY <1>2, <2>3, <3>2, <3>3, <3>4
    <2> QED
        BY <2>2, <2>3
<1> QED
    BY <1>5, <1>6, <1>7 DEF TableOK

\* The id read from the table is larger than every one in it.
LEMMA NextIdFresh ==
    ASSUME TypeOK, IdsIncrease
    PROVE  /\ LoadNextBatchId(queue) \in Nat \ {0}
           /\ \A u \in User : \A i \in 1..Len(queue[u]) :
                  queue[u][i].id < LoadNextBatchId(queue)
<1> DEFINE T == LastRows(queue) \cup {0}
           n == CHOOSE m \in T : \A k \in LastRows(queue) : k <= m
<1>1. /\ next \in Nat
      /\ \A u \in User : /\ queue[u] \in Seq(Batch) /\ Len(queue[u]) \in Nat
                         /\ queue[u] # <<>> => Len(queue[u]) \in 1..Len(queue[u])
                         /\ \A i \in 1..Len(queue[u]) :
                                queue[u][i].id \in Nat /\ queue[u][i].id < next
    BY TableTypes, TailOf DEF IdsIncrease
<1>2. \A m \in LastRows(queue) : m \in Nat /\ m <= next
    <2>1. ASSUME NEW u \in {v \in User : queue[v] # <<>>}
          PROVE  /\ queue[u][Len(queue[u])].id \in Nat
                 /\ queue[u][Len(queue[u])].id <= next
        <3>1. u \in User /\ Len(queue[u]) \in 1..Len(queue[u])
            BY <1>1
        <3>2. queue[u][Len(queue[u])].id \in Nat /\ queue[u][Len(queue[u])].id < next
            BY <1>1, <3>1
        <3> QED
            BY <1>1, <3>2
    <2> QED
        BY <2>1 DEF LastRows
<1>3. \E m \in T : \A k \in T : k <= m
    <2>1. T \in SUBSET Nat /\ T # {} /\ \A k \in T : k <= next
        BY <1>1, <1>2
    <2> HIDE DEF T
    <2> QED
        BY <1>1, <2>1, HasLargest
<1>4. \E m \in T : \A k \in LastRows(queue) : k <= m
    BY <1>3
<1>5. n \in T /\ \A k \in LastRows(queue) : k <= n
    BY <1>4
<1>6. n \in Nat
    BY <1>2, <1>5
<1>7. LoadNextBatchId(queue) = 1 + n
    BY DEF LoadNextBatchId
<1> HIDE DEF n, T
<1>8. ASSUME NEW u \in User, NEW i \in 1..Len(queue[u])
      PROVE  queue[u][i].id < 1 + n
    <2>1. queue[u] # <<>>
        BY <1>1, EmptySeq
    <2>2. queue[u][Len(queue[u])].id \in LastRows(queue)
        BY <2>1 DEF LastRows
    <2>3. /\ Len(queue[u]) \in 1..Len(queue[u])
          /\ queue[u][i].id \in Nat /\ queue[u][Len(queue[u])].id \in Nat
        BY <1>1, <2>1
    <2>4. queue[u][i].id <= queue[u][Len(queue[u])].id
        <3>1. i = Len(queue[u]) \/ i < Len(queue[u])
            BY <1>1
        <3>2. i < Len(queue[u]) => queue[u][i].id < queue[u][Len(queue[u])].id
            BY <2>3 DEF IdsIncrease
        <3> QED
            BY <2>3, <3>1, <3>2
    <2>5. queue[u][Len(queue[u])].id <= n
        BY <1>5, <2>2
    <2> QED
        BY <1>6, <2>3, <2>4, <2>5
<1> QED
    BY <1>6, <1>7, <1>8

---------------------------------------------------------------------------
(* Lemmas about what the server committed.                                 *)

\* The part of LastCommitNewest about one user and one commit.
CommitNewest(u, i) ==
    \/ Crossed(u)
    \/ log[i] \notin Elements(issued[u])
    \/ \E j \in 1..Len(log) : j > i /\ log[j] \in Elements(issued[u])
    \/ \A k \in 1..Gone(u) :
           \/ issued[u][k] \in refused
           \/ \E m \in k..Len(issued[u]) : issued[u][m] = log[i]

LEMMA CommitsAre ==
    LastCommitNewest <=> \A u \in User : \A i \in 1..Len(log) : CommitNewest(u, i)
BY DEF LastCommitNewest, CommitNewest

\* A new write has not been committed.
LEMMA CommitIssues ==
    ASSUME TypeOK, TableOK, OnlyIssued, LastCommitNewest, NEW w \in Write,
           Issues(w), UNCHANGED <<log, crossed, refused>>
    PROVE  LastCommitNewest'
<1>1. SUFFICES ASSUME NEW u \in User, NEW i \in 1..Len(log)
               PROVE  CommitNewest(u, i)'
    BY DEF LastCommitNewest, CommitNewest
<1>2. CommitNewest(u, i)
    BY CommitsAre
<1>3. \A x : x \in Elements(issued[u])' <=>
                 x \in Elements(issued[u]) \/ (u = user /\ x = w)
    BY IssuesSets
<1>4. log[i] # w
    BY DEF OnlyIssued, Elements, Issues
<1>8. CASE Crossed(u)
    <2>1. Crossed(u)'
        BY <1>3, <1>8 DEF Crossed
    <2> QED
        BY <2>1 DEF CommitNewest
<1>5. CASE log[i] \notin Elements(issued[u])
    BY <1>3, <1>4, <1>5 DEF CommitNewest
<1>6. CASE \E j \in 1..Len(log) : j > i /\ log[j] \in Elements(issued[u])
    BY <1>3, <1>6 DEF CommitNewest
<1>7. CASE \A k \in 1..Gone(u) :
               \/ issued[u][k] \in refused
               \/ \E m \in k..Len(issued[u]) : issued[u][m] = log[i]
    <2>1. /\ user \in User /\ Len(issued[u]) \in Nat /\ Len(queue[u]) \in Nat
          /\ Gone(u) \in Nat /\ Gone(u) <= Len(issued[u])
        <3>1. /\ user \in User /\ Len(issued[u]) \in Nat /\ Len(queue[u]) \in Nat
              /\ Gone(u) \in Nat
            BY TableTypes, GoneNat DEF TableOK
        <3>2. Gone(u) = Len(issued[u]) - Len(queue[u])
            BY DEF Gone
        <3>3. \A m, n \in Nat : m - n <= m
            OBVIOUS
        <3> QED
            BY <3>1, <3>2, <3>3
    <2>2. /\ \A k \in 1..Len(issued[u]) : issued'[u][k] = issued[u][k]
          /\ Len(issued'[u]) >= Len(issued[u]) /\ Len(issued'[u]) \in Nat
        <3>1. CASE u # user
            <4>1. issued'[u] = issued[u]
                BY <3>1, IssuesLists
            <4> QED
                BY <2>1, <4>1
        <3>2. CASE u = user
            <4>1. /\ \A k \in 1..Len(issued[user]) : issued'[user][k] = issued[user][k]
                  /\ Len(issued'[user]) = Len(issued[user]) + 1
                BY IssuesLists
            <4> QED
                BY <2>1, <3>2, <4>1
        <3> QED
            BY <3>1, <3>2
    <2>3. ASSUME NEW k \in 1..Gone(u)
          PROVE  \/ issued'[u][k] \in refused
                 \/ \E m \in k..Len(issued'[u]) : issued'[u][m] = log[i]
        <3>1. k \in 1..Len(issued[u]) /\ issued'[u][k] = issued[u][k]
            BY <2>1, <2>2
        <3>2. CASE issued[u][k] \in refused
            BY <3>1, <3>2
        <3>3. ASSUME NEW m \in k..Len(issued[u]), issued[u][m] = log[i]
              PROVE  \E n \in k..Len(issued'[u]) : issued'[u][n] = log[i]
            <4>1. m \in 1..Len(issued[u]) /\ m \in k..Len(issued'[u])
                BY <2>1, <2>2, <3>1
            <4> QED
                BY <2>2, <3>3, <4>1
        <3> QED
            BY <1>7, <3>2, <3>3
    <2>4. Gone(u)' = Gone(u)
        BY IssuesSets
    <2>5. \A k \in 1..Gone(u)' :
              \/ issued'[u][k] \in refused'
              \/ \E m \in k..Len(issued'[u]) : issued'[u][m] = log'[i]
        BY <2>3, <2>4
    <2> QED
        BY <2>5 DEF CommitNewest
<1> QED
    BY <1>2, <1>5, <1>6, <1>7, <1>8 DEF CommitNewest

\* A commit of a queued write is the newest of its user.
LEMMA CommitAppends ==
    ASSUME TypeOK, TableOK, LastCommitNewest, NEW w \in Pending,
           log' = Append(log, w), UNCHANGED <<queue, issued, crossed, refused>>
    PROVE  LastCommitNewest'
<1>1. PICK v \in User : \E n \in 1..Len(queue[v]) : queue[v][n].write = w
    BY PendingIs
<1>2. PICK n \in 1..Len(queue[v]) : queue[v][n].write = w
    BY <1>1
<1>3. /\ Gone(v) \in Nat /\ Gone(v) + n \in 1..Len(issued[v])
      /\ issued[v][Gone(v) + n] = w /\ w \in Elements(issued[v])
      /\ w \in Write /\ Len(queue[v]) \in Nat /\ n \in Nat
      /\ log \in Seq(Write) /\ Len(log) \in Nat
    <2>1. w \in Write /\ log \in Seq(Write) /\ Len(log) \in Nat
          /\ Len(queue[v]) \in Nat
        BY <1>2, TableTypes, LenProperties DEF TypeOK
    <2>2. /\ Gone(v) \in Nat /\ Gone(v) + n \in 1..Len(issued[v])
          /\ queue[v][n].write = issued[v][Gone(v) + n]
          /\ queue[v][n].write \in Elements(issued[v])
        BY QueuedIssued DEF TableOK
    <2> QED
        BY <1>2, <2>1, <2>2
<1>4. /\ Len(log') = Len(log) + 1 /\ log'[Len(log) + 1] = w
      /\ \A i \in 1..Len(log) : log'[i] = log[i]
    BY <1>3, AppendProperties
<1>5. /\ issued' = issued /\ refused' = refused
      /\ \A u \in User : Gone(u)' = Gone(u) /\ (Crossed(u) => Crossed(u)')
    BY DEF Gone, Crossed, Elements
<1>6. SUFFICES ASSUME NEW u \in User, NEW i \in 1..Len(log')
               PROVE  CommitNewest(u, i)'
    BY DEF LastCommitNewest, CommitNewest
<1>7. CASE u # v
    <2>1. w \notin Elements(issued[u])
        BY <1>3, <1>7 DEF TableOK, QueuesHoldIssued
    <2>2. CASE i = Len(log) + 1
        BY <1>4, <1>5, <2>1, <2>2 DEF CommitNewest
    <2>3. CASE i # Len(log) + 1
        <3>1. i \in 1..Len(log)
            BY <1>3, <1>4, <2>3
        <3>2. CommitNewest(u, i) /\ log'[i] = log[i]
            BY <1>4, <3>1, CommitsAre
        <3>3. \A j \in 1..Len(log) : j \in 1..Len(log') /\ log'[j] = log[j]
            BY <1>3, <1>4
        <3> QED
            BY <1>5, <3>2, <3>3 DEF CommitNewest
    <2> QED
        BY <2>2, <2>3
<1>8. CASE u = v
    <2>1. CASE i = Len(log) + 1
        <3>1. \A k \in 1..Gone(v) : Gone(v) + n \in k..Len(issued[v])
            BY <1>3
        <3>2. log'[i] = w
            BY <1>4, <2>1
        <3>3. \A k \in 1..Gone(v) : \E m \in k..Len(issued[v]) : issued[v][m] = w
            BY <1>3, <3>1
        <3> QED
            BY <1>5, <1>8, <3>2, <3>3 DEF CommitNewest
    <2>2. CASE i # Len(log) + 1
        <3>1. /\ Len(log) + 1 \in 1..Len(log') /\ Len(log) + 1 > i
              /\ log'[Len(log) + 1] \in Elements(issued[v])
            BY <1>3, <1>4, <2>2
        <3> QED
            BY <1>5, <1>8, <3>1 DEF CommitNewest
    <2> QED
        BY <2>1, <2>2
<1> QED
    BY <1>7, <1>8

\* So is a commit of a stray request, but for its own user.
LEMMA CommitStray ==
    ASSUME TypeOK, LastCommitNewest, NEW w \in Write, log' = Append(log, w),
           crossed' = crossed \cup {w}, UNCHANGED <<queue, issued, refused>>
    PROVE  LastCommitNewest'
<1>1. log \in Seq(Write) /\ Len(log) \in Nat
    BY LenProperties DEF TypeOK
<1>2. /\ Len(log') = Len(log) + 1 /\ log'[Len(log) + 1] = w
      /\ \A i \in 1..Len(log) : log'[i] = log[i]
    BY <1>1, AppendProperties
<1>3. /\ issued' = issued /\ refused' = refused
      /\ \A u \in User : Gone(u)' = Gone(u) /\ (Crossed(u) => Crossed(u)')
    BY DEF Gone, Crossed, Elements
<1>4. SUFFICES ASSUME NEW u \in User, NEW i \in 1..Len(log')
               PROVE  CommitNewest(u, i)'
    BY DEF LastCommitNewest, CommitNewest
<1>5. CASE w \in Elements(issued[u])
    <2>1. Crossed(u)'
        BY <1>3, <1>5 DEF Crossed, Elements
    <2> QED
        BY <2>1 DEF CommitNewest
<1>6. CASE w \notin Elements(issued[u])
    <2>1. CASE i = Len(log) + 1
        BY <1>2, <1>3, <1>6, <2>1 DEF CommitNewest
    <2>2. CASE i # Len(log) + 1
        <3>1. i \in 1..Len(log)
            BY <1>1, <1>2, <2>2
        <3>2. CommitNewest(u, i) /\ log'[i] = log[i]
            BY <1>2, <3>1, CommitsAre
        <3>3. \A j \in 1..Len(log) : j \in 1..Len(log') /\ log'[j] = log[j]
            BY <1>1, <1>2
        <3> QED
            BY <1>3, <3>2, <3>3 DEF CommitNewest
    <2> QED
        BY <2>1, <2>2
<1> QED
    BY <1>5, <1>6

\* The last commit of the user is of a queued write.
LastQueued ==
    \E n \in 1..Len(queue[user]) : LastCommitIs(user, queue[user][n].write)

\* A write that ends was refused, or the user's last commit is not older.
LEMMA CommitEnds ==
    ASSUME TypeOK, TableOK, LastCommitNewest, Ends,
           UNCHANGED <<log, crossed, refused>>,
           First.write \in refused \/ Crossed(user) \/ LastQueued
    PROVE  LastCommitNewest'
<1>1. /\ user \in User /\ user' = user /\ issued' = issued
      /\ log \in Seq(Write) /\ Len(log) \in Nat
      /\ Len(queue[user]) \in Nat /\ 1 \in 1..Len(queue[user])
      /\ Gone(user) \in Nat
    BY TableTypes, TailOf, LenProperties, GoneNat DEF TypeOK, Ends, TableOK
<1>2. /\ Gone(user)' = Gone(user) + 1
      /\ \A u \in User \ {user} : Gone(u)' = Gone(u)
      /\ \A u \in User : Crossed(u) => Crossed(u)'
    <2>1. \A u \in User : Crossed(u) => Crossed(u)'
        BY <1>1 DEF Crossed, Elements
    <2> QED
        BY <2>1, EndsSets
<1>3. SUFFICES ASSUME NEW u \in User, NEW i \in 1..Len(log)
               PROVE  CommitNewest(u, i)'
    BY DEF LastCommitNewest, CommitNewest
<1>4. CommitNewest(u, i)
    BY CommitsAre
<1>5. CASE u # user
    <2>1. Gone(u)' = Gone(u)
        BY <1>2, <1>5
    <2> QED
        BY <1>1, <1>2, <1>4, <2>1 DEF CommitNewest
<1>6. CASE u = user /\ First.write \in refused
    <2>1. issued[user][Gone(user) + 1] \in refused
        BY <1>1, <1>6, QueuedIssued DEF First, TableOK
    <2>2. 1..Gone(user) + 1 = 1..Gone(user) \cup {Gone(user) + 1}
        BY <1>1
    <2>3. Gone(u)' = Gone(user) + 1 /\ Gone(u) = Gone(user)
        BY <1>1, <1>2, <1>6 DEF Gone
    <2> QED
        BY <1>1, <1>2, <1>4, <1>6, <2>1, <2>2, <2>3 DEF CommitNewest
<1>7. ASSUME u = user, LastQueued
      PROVE  CommitNewest(u, i)'
    <2>1. PICK n \in 1..Len(queue[user]) :
                   LastCommitIs(user, queue[user][n].write)
        BY <1>7 DEF LastQueued
    <2>2. PICK l \in 1..Len(log) :
              /\ log[l] = queue[user][n].write
              /\ \A j \in 1..Len(log) :
                     j > l => log[j] \notin Elements(issued[user])
        BY <2>1 DEF LastCommitIs
    <2>3. /\ Gone(user) + n \in 1..Len(issued[user])
          /\ log[l] = issued[user][Gone(user) + n]
          /\ log[l] \in Elements(issued[user])
        BY <1>1, <2>2, QueuedIssued DEF TableOK
    <2>4. CASE i < l
        BY <1>1, <1>7, <2>3, <2>4 DEF CommitNewest
    <2>5. CASE i > l
        <3>1. log'[i] \notin Elements(issued[u])
            BY <1>7, <2>2, <2>5
        <3> QED
            BY <1>1, <3>1 DEF CommitNewest
    <2>6. CASE i = l
        <3>1. \A k \in 1..Gone(user) + 1 : Gone(user) + n \in k..Len(issued[user])
            <4>1. Len(issued[user]) \in Nat
                BY <1>1, TableTypes
            <4> QED
                BY <1>1, <2>3, <4>1
        <3>2. \A k \in 1..Gone(user) + 1 : \E m \in k..Len(issued[user]) :
                  issued[user][m] = log[i]
            BY <2>3, <2>6, <3>1
        <3>3. \A k \in 1..Gone(user)' : \E m \in k..Len(issued[user]) :
                  issued[user][m] = log[i]
            BY <1>2, <3>2
        <3>4. Gone(u)' = Gone(user)'
            BY <1>1, <1>7 DEF Gone
        <3> QED
            BY <1>1, <1>7, <3>3, <3>4 DEF CommitNewest
    <2>7. i \in Nat /\ l \in Nat
        BY <1>1
    <2> QED
        BY <2>4, <2>5, <2>6, <2>7
<1>8. CASE u = user /\ Crossed(user)
    BY <1>2, <1>8 DEF CommitNewest
<1> QED
    BY <1>5, <1>6, <1>7, <1>8

LEMMA CommitSame ==
    ASSUME LastCommitNewest, UNCHANGED <<queue, issued, log, crossed>>,
           refused \subseteq refused'
    PROVE  LastCommitNewest'
<1>1. SUFFICES ASSUME NEW u \in User, NEW i \in 1..Len(log)
               PROVE  CommitNewest(u, i)'
    BY DEF LastCommitNewest, CommitNewest
<1>2. CommitNewest(u, i) /\ Gone(u)' = Gone(u) /\ (Crossed(u) => Crossed(u)')
    BY CommitsAre DEF Gone, Crossed, Elements
<1> QED
    BY <1>2 DEF CommitNewest

---------------------------------------------------------------------------
(* Lemmas about waitForPendingWrites.                                      *)

WaitsOK == WaitsKeyed /\ WaitsTruthful

\* A new write is not waited for.
LEMMA WaitsIssues ==
    ASSUME TypeOK, TableOK, WaitsOK, NEW w \in Write, Issues(w),
           UNCHANGED <<user, waiters, released>>
    PROVE  WaitsOK'
<1>1. /\ \A x : x \in Issued' <=> x \in Issued \/ x = w
      /\ \A x : x \in Pending' <=> x \in Pending \/ x = w
      /\ w \notin Issued /\ user \in User
    BY IssuesSets, TableTypes DEF Issues
<1>2. WaitsTruthful'
    <2>1. SUFFICES ASSUME NEW r \in released, NEW x \in r, x \in Pending'
                   PROVE  FALSE
        BY DEF WaitsTruthful
    <2>2. x \in Issued
        BY DEF WaitsOK, WaitsKeyed
    <2> QED
        BY <1>1, <2>1, <2>2 DEF WaitsOK, WaitsTruthful
<1>3. \A u \in User : \A i \in 1..Len(queue'[u]) :
          \/ i \in 1..Len(queue[u]) /\ queue'[u][i] = queue[u][i]
          \/ queue'[u][i].write = w
    <2>1. \A u \in User : Len(queue[u]) \in Nat
        BY TableTypes
    <2>2. /\ \A u \in User \ {user} : queue'[u] = queue[u]
          /\ Len(queue'[user]) = Len(queue[user]) + 1
          /\ \A i \in 1..Len(queue[user]) : queue'[user][i] = queue[user][i]
          /\ queue'[user][Len(queue[user]) + 1] = [id |-> next, write |-> w]
        BY IssuesLists
    <2>3. \A i \in 1..Len(queue[user]) + 1 :
              i \in 1..Len(queue[user]) \/ i = Len(queue[user]) + 1
        BY <1>1, <2>1
    <2> QED
        BY <1>1, <2>2, <2>3
<1>4. ASSUME NEW x \in waiters
      PROVE  /\ x.for \subseteq Issued'
             /\ \E i \in 1..Len(queue'[user]) : queue'[user][i].id = x.id
             /\ \A u \in User : \A i \in 1..Len(queue'[u]) :
                    queue'[u][i].write \in x.for =>
                        u = user /\ queue'[u][i].id <= x.id
    <2>1. /\ x.for \subseteq Issued
          /\ \E i \in 1..Len(queue[user]) : queue[user][i].id = x.id
          /\ \A u \in User : \A i \in 1..Len(queue[u]) :
                 queue[u][i].write \in x.for => u = user /\ queue[u][i].id <= x.id
        BY DEF WaitsOK, WaitsKeyed
    <2>2. \E i \in 1..Len(queue'[user]) : queue'[user][i].id = x.id
        <3>1. PICK i \in 1..Len(queue[user]) : queue[user][i].id = x.id
            BY <2>1
        <3>2. Len(queue[user]) \in Nat /\ Len(queue'[user]) = Len(queue[user]) + 1
              /\ queue'[user][i] = queue[user][i]
            BY <1>1, TableTypes, IssuesLists
        <3>3. i \in 1..Len(queue'[user])
            BY <3>2
        <3> QED
            BY <3>1, <3>2, <3>3
    <2>3. ASSUME NEW u \in User, NEW i \in 1..Len(queue'[u]),
                 queue'[u][i].write \in x.for
          PROVE  u = user /\ queue'[u][i].id <= x.id
        <3>1. queue'[u][i].write # w
            BY <1>1, <2>1, <2>3
        <3>2. i \in 1..Len(queue[u]) /\ queue'[u][i] = queue[u][i]
            BY <1>3, <3>1
        <3> QED
            BY <2>1, <2>3, <3>2
    <2>4. x.for \subseteq Issued'
        BY <1>1, <2>1
    <2> QED
        BY <2>2, <2>3, <2>4
<1>5. \A r \in released : r \subseteq Issued'
    BY <1>1 DEF WaitsOK, WaitsKeyed
<1>6. WaitsKeyed'
    BY <1>4, <1>5 DEF WaitsKeyed
<1> QED
    BY <1>2, <1>6 DEF WaitsOK

\* The waits for the batch that ends have nothing else to wait for.
LEMMA WaitsEnds ==
    ASSUME TypeOK, TableOK, WaitsOK, Ends,
           waiters' = {x \in waiters : x.id # First.id},
           released' = released \cup
                           {x.for : x \in {y \in waiters : y.id = First.id}}
    PROVE  WaitsOK'
<1>1. /\ user \in User /\ user' = user /\ Issued' = Issued
      /\ Len(queue[user]) \in Nat /\ 1 \in 1..Len(queue[user])
      /\ \A i \in 1..Len(queue[user]) : queue[user][i].id \in Nat
      /\ \A x : x \in Pending' <=> x \in Pending /\ x # First.write
    BY TableTypes, TailOf, EndsSets DEF Ends
<1>2. /\ \A u \in User \ {user} : queue'[u] = queue[u]
      /\ Len(queue'[user]) = Len(queue[user]) - 1
      /\ \A i \in 1..Len(queue[user]) - 1 : queue'[user][i] = queue[user][i + 1]
    BY EndsLists
<1>3. \A x \in waiters :
          /\ x.for \subseteq Issued
          /\ \E i \in 1..Len(queue[user]) : queue[user][i].id = x.id
          /\ \A u \in User : \A i \in 1..Len(queue[u]) :
                 queue[u][i].write \in x.for => u = user /\ queue[u][i].id <= x.id
    BY DEF WaitsOK, WaitsKeyed
<1>4. ASSUME NEW x \in waiters, x.id = First.id PROVE x.for \cap Pending' = {}
    <2>1. SUFFICES ASSUME NEW w \in x.for, w \in Pending' PROVE FALSE
        OBVIOUS
    <2>2. w \in Pending /\ w # First.write
        BY <1>1, <2>1
    <2>3. PICK u \in User : \E i \in 1..Len(queue[u]) : queue[u][i].write = w
        BY <2>2, PendingIs
    <2>4. PICK i \in 1..Len(queue[u]) : queue[u][i].write = w
        BY <2>3
    <2>5. u = user /\ queue[u][i].id <= First.id
        BY <1>3, <1>4, <2>4
    <2>6. i \in 1..Len(queue[user]) /\ queue[user][i].write = w
          /\ queue[user][i].id <= First.id
        BY <2>4, <2>5
    <2>7. i = 1
        <3>1. 1 < i => queue[user][1].id < queue[user][i].id
            BY <1>1, <2>6 DEF TableOK, IdsIncrease
        <3>2. First.id \in Nat /\ queue[user][i].id \in Nat
            BY <1>1, <2>6 DEF First
        <3> QED
            BY <1>1, <2>6, <3>1, <3>2 DEF First
    <2> QED
        BY <2>2, <2>6, <2>7 DEF First
<1>5. WaitsTruthful'
    <2>1. \A r \in released : r \cap Pending' = {}
        BY <1>1 DEF WaitsOK, WaitsTruthful
    <2>2. \A r \in released' :
              r \in released \/ \E x \in waiters : x.id = First.id /\ r = x.for
        OBVIOUS
    <2> QED
        BY <1>4, <2>1, <2>2 DEF WaitsTruthful
<1>6. \A r \in released' : r \subseteq Issued'
    <2>1. \A r \in released : r \subseteq Issued
        BY DEF WaitsOK, WaitsKeyed
    <2>2. \A r \in released' :
              r \in released \/ \E x \in waiters : x.id = First.id /\ r = x.for
        OBVIOUS
    <2> QED
        BY <1>1, <1>3, <2>1, <2>2
<1>7. \A u \in User : \A i \in 1..Len(queue'[u]) :
          \E j \in 1..Len(queue[u]) : queue'[u][i] = queue[u][j]
    <2>1. ASSUME NEW i \in 1..Len(queue'[user])
          PROVE  \E j \in 1..Len(queue[user]) : queue'[user][i] = queue[user][j]
        <3>1. i \in 1..Len(queue[user]) - 1 /\ i + 1 \in 1..Len(queue[user])
            BY <1>1, <1>2
        <3> QED
            BY <1>2, <3>1
    <2> QED
        BY <1>2, <2>1
<1>8. ASSUME NEW x \in waiters, x.id # First.id
      PROVE  /\ \E i \in 1..Len(queue'[user]) : queue'[user][i].id = x.id
             /\ \A u \in User : \A i \in 1..Len(queue'[u]) :
                    queue'[u][i].write \in x.for =>
                        u = user /\ queue'[u][i].id <= x.id
    <2>1. PICK i \in 1..Len(queue[user]) : queue[user][i].id = x.id
        BY <1>3
    <2>2. i # 1
        BY <1>8, <2>1 DEF First
    <2>3. i - 1 \in 1..Len(queue'[user]) /\ queue'[user][i - 1] = queue[user][i]
        <3>1. i - 1 \in 1..Len(queue[user]) - 1 /\ (i - 1) + 1 = i
            BY <1>1, <2>2
        <3> QED
            BY <1>2, <3>1
    <2>4. \E n \in 1..Len(queue'[user]) : queue'[user][n].id = x.id
        BY <2>1, <2>3
    <2>5. \A u \in User : \A n \in 1..Len(queue[u]) :
              queue[u][n].write \in x.for => u = user /\ queue[u][n].id <= x.id
        BY <1>3
    <2>6. \A u \in User : \A n \in 1..Len(queue'[u]) :
              queue'[u][n].write \in x.for => u = user /\ queue'[u][n].id <= x.id
        <3>1. SUFFICES ASSUME NEW u \in User, NEW n \in 1..Len(queue'[u]),
                              queue'[u][n].write \in x.for
                       PROVE  u = user /\ queue'[u][n].id <= x.id
            OBVIOUS
        <3>2. PICK j \in 1..Len(queue[u]) : queue'[u][n] = queue[u][j]
            BY <1>7
        <3> QED
            BY <2>5, <3>1, <3>2
    <2> QED
        BY <2>4, <2>6
<1>9. WaitsKeyed'
    BY <1>1, <1>3, <1>6, <1>8 DEF WaitsKeyed
<1> QED
    BY <1>5, <1>9 DEF WaitsOK

\* Waits that are cancelled, or left alone.
LEMMA WaitsSame ==
    ASSUME WaitsOK, UNCHANGED <<queue, issued, released>>,
           waiters' = {} \/ (waiters' = waiters /\ user' = user)
    PROVE  WaitsOK'
<1>1. Issued' = Issued /\ Pending' = Pending
    BY DEF Issued, Pending, Elements, Writes
<1> QED
    BY <1>1 DEF WaitsOK, WaitsKeyed, WaitsTruthful

---------------------------------------------------------------------------
(* Lemmas about the pipeline, the stream and the connection.               *)

RemoteOK == PipelineIsPrefix /\ StreamServesPipeline /\ WireMatchesPipeline

RemoteTypes ==
    /\ enabled \in BOOLEAN /\ handshake \in BOOLEAN /\ reading \in BOOLEAN
    /\ pipeline \in Seq(Batch) /\ stream \in StreamType
    /\ greeting \in {"none", "sent", "answered"}
    /\ wire \in Seq(Batch) /\ acks \in Seq(Batch) /\ late \in Seq(Batch)
    /\ stray \in SUBSET Write
    /\ final \in Status \cup {NoStatus}

LEMMA RemoteTyped == TypeOK => RemoteTypes
BY DEF TypeOK, RemoteTypes

LEMMA RemoteFacts ==
    ASSUME TypeOK, RemoteOK
    PROVE  /\ StreamGood(stream)
           /\ Begins(pipeline, queue[user]) /\ Len(pipeline) <= MaxPending
           /\ enabled \/ pipeline = <<>>
           /\ IsStarted(stream) => enabled
           /\ stream.idle => IsOpen(stream) /\ handshake /\ pipeline = <<>>
BY DEF TypeOK, RemoteOK, StreamGood, StreamServesPipeline, PipelineIsPrefix, Begins

\* Concatenations that are not empty.
LEMMA ConcatNotEmpty ==
    ASSUME NEW S, NEW s \in Seq(S), NEW t \in Seq(S), s # <<>>
    PROVE  s \o t # <<>> /\ Head(s \o t) = Head(s) /\ Tail(s \o t) = Tail(s) \o t
<1>1. /\ s \o t \in Seq(S) /\ Len(s \o t) = Len(s) + Len(t)
      /\ \A i \in 1 .. Len(s) + Len(t) : (s \o t)[i] =
                    IF i <= Len(s) THEN s[i] ELSE t[i - Len(s)]
    BY ConcatProperties
<1>2. Len(s) \in Nat /\ Len(s) >= 1 /\ Len(t) \in Nat /\ Head(s) = s[1]
      /\ Tail(s) \in Seq(S) /\ Len(Tail(s)) = Len(s) - 1
      /\ \A i \in 1..Len(s) - 1 : Tail(s)[i] = s[i + 1]
    BY TailOf, LenProperties
<1>3. s \o t # <<>>
    BY <1>1, <1>2, EmptySeq
<1>4. /\ Head(s \o t) = (s \o t)[1]
      /\ Tail(s \o t) \in Seq(S) /\ Len(Tail(s \o t)) = Len(s \o t) - 1
      /\ \A i \in 1..Len(s \o t) - 1 : Tail(s \o t)[i] = (s \o t)[i + 1]
    BY <1>1, <1>3, TailOf
<1>5. Head(s \o t) = Head(s)
    <2>1. 1 \in 1..Len(s) + Len(t) /\ 1 <= Len(s)
        BY <1>2
    <2> QED
        BY <1>1, <1>2, <1>4, <2>1
<1>6. /\ Tail(s) \o t \in Seq(S) /\ Len(Tail(s) \o t) = (Len(s) - 1) + Len(t)
      /\ \A i \in 1 .. (Len(s) - 1) + Len(t) : (Tail(s) \o t)[i] =
                    IF i <= Len(s) - 1 THEN Tail(s)[i] ELSE t[i - (Len(s) - 1)]
    BY <1>2, ConcatProperties
<1>7. Len(Tail(s \o t)) = Len(Tail(s) \o t)
    BY <1>1, <1>2, <1>4, <1>6
<1>8. ASSUME NEW i \in 1..Len(Tail(s \o t))
      PROVE  Tail(s \o t)[i] = (Tail(s) \o t)[i]
    <2>1. /\ i \in 1 .. (Len(s) - 1) + Len(t) /\ i + 1 \in 1..Len(s) + Len(t)
          /\ i \in 1..Len(s \o t) - 1
          /\ i \in Nat /\ (i + 1) - Len(s) = i - (Len(s) - 1)
          /\ (i + 1 <= Len(s) <=> i <= Len(s) - 1)
        BY <1>1, <1>2, <1>4
    <2>2. Tail(s \o t)[i] = IF i + 1 <= Len(s) THEN s[i + 1] ELSE t[(i + 1) - Len(s)]
        BY <1>1, <1>4, <2>1
    <2>3. (Tail(s) \o t)[i] =
              IF i <= Len(s) - 1 THEN Tail(s)[i] ELSE t[i - (Len(s) - 1)]
        BY <1>6, <2>1
    <2>4. i <= Len(s) - 1 => Tail(s)[i] = s[i + 1]
        BY <1>2, <2>1
    <2> QED
        BY <2>1, <2>2, <2>3, <2>4
<1>9. Tail(s \o t) = Tail(s) \o t
    BY <1>4, <1>6, <1>7, <1>8, SeqEqual
<1> QED
    BY <1>3, <1>5, <1>9

\* The first batch of the pipeline is the first of the queue.
LEMMA PipelineFirst ==
    ASSUME TypeOK, RemoteOK, pipeline # <<>>
    PROVE  /\ queue[user] # <<>> /\ Head(pipeline) = First
           /\ Begins(Tail(pipeline), Tail(queue[user]))
           /\ Tail(pipeline) \in Seq(Batch) /\ Tail(queue[user]) \in Seq(Batch)
           /\ Len(Tail(pipeline)) <= MaxPending
<1>1. /\ pipeline \in Seq(Batch) /\ queue[user] \in Seq(Batch)
      /\ Begins(pipeline, queue[user]) /\ Len(pipeline) <= MaxPending
      /\ Len(queue[user]) \in Nat /\ MaxPending \in Nat
    BY TableTypes, RemoteTyped, RemoteFacts, PipelineAssumption DEF RemoteTypes
<1>2. /\ Len(pipeline) \in Nat /\ Len(pipeline) >= 1 /\ Head(pipeline) = pipeline[1]
      /\ Tail(pipeline) \in Seq(Batch) /\ Len(Tail(pipeline)) = Len(pipeline) - 1
      /\ \A i \in 1..Len(pipeline) - 1 : Tail(pipeline)[i] = pipeline[i + 1]
    BY <1>1, TailOf
<1>3. queue[user] # <<>>
    BY <1>1, <1>2, EmptySeq DEF Begins
<1>4. /\ Tail(queue[user]) \in Seq(Batch)
      /\ Len(Tail(queue[user])) = Len(queue[user]) - 1
      /\ \A i \in 1..Len(queue[user]) - 1 : Tail(queue[user])[i] = queue[user][i + 1]
    BY <1>1, <1>3, TailOf
<1>5. Head(pipeline) = First
    BY <1>1, <1>2 DEF Begins, First
<1>6. Begins(Tail(pipeline), Tail(queue[user]))
    <2>1. Len(Tail(pipeline)) <= Len(Tail(queue[user]))
        BY <1>1, <1>2, <1>4 DEF Begins
    <2>2. ASSUME NEW i \in 1..Len(Tail(pipeline))
          PROVE  Tail(pipeline)[i] = Tail(queue[user])[i]
        <3>1. /\ i \in 1..Len(pipeline) - 1 /\ i \in 1..Len(queue[user]) - 1
              /\ i + 1 \in 1..Len(pipeline)
            BY <1>1, <1>2, <1>4, <2>1
        <3> QED
            BY <1>1, <1>2, <1>4, <3>1 DEF Begins
    <2> QED
        BY <2>1, <2>2 DEF Begins
<1>7. Len(Tail(pipeline)) <= MaxPending
    BY <1>1, <1>2
<1> QED
    BY <1>2, <1>3, <1>4, <1>5, <1>6, <1>7

\* The pipeline is a prefix of the queue after it was filled.
LEMMA PrefixFrom ==
    ASSUME Begins(pipeline', queue'[user']), Len(pipeline') <= MaxPending,
           IF enabled' THEN Len(pipeline') < MaxPending =>
                                Len(pipeline') = Len(queue'[user'])
           ELSE pipeline' = <<>>
    PROVE  PipelineIsPrefix'
BY DEF PipelineIsPrefix, Begins

\* Once the connection is closed.
LEMMA RemoteClosed ==
    ASSUME PipelineIsPrefix', StreamGood(stream'), ~IsOpen(stream'),
           ~stream'.idle, IsStarted(stream') => enabled' /\ pipeline' # <<>>,
           pipeline' # <<>> => IsStarted(stream'),
           Disconnected, wire' = <<>>
    PROVE  RemoteOK'
BY DEF RemoteOK, StreamServesPipeline, WireMatchesPipeline, StreamGood,
       Disconnected, IsOpen, IsStarted, NoStatus

LEMMA DisconnectedTypes ==
    ASSUME TypeOK, Disconnected
    PROVE  /\ handshake' \in BOOLEAN /\ greeting' \in {"none", "sent", "answered"}
           /\ acks' \in Seq(Batch) /\ final' \in Status \cup {NoStatus}
           /\ reading' \in BOOLEAN /\ late' \in Seq(Batch)
           /\ stray' \in SUBSET Write
<1>1. wire \in Seq(Batch) /\ late \in Seq(Batch) /\ late \o wire \in Seq(Batch)
    BY RemoteTyped, ConcatProperties DEF RemoteTypes
<1>2. <<>> \in Seq(Batch) /\ stray \in SUBSET Write
    BY EmptySeq, RemoteTyped DEF RemoteTypes
<1> QED
    BY <1>1, <1>2 DEF Disconnected

\* The pipeline is filled while the connection lasts: what is added goes to
\* the wire as well, if the handshake is done.
LEMMA RemoteFilled ==
    ASSUME TypeOK, RemoteOK,
           NEW e \in BOOLEAN, enabled => e, enabled' = e,
           NEW p \in Seq(Batch), NEW q \in Seq(Batch), NEW a \in Seq(Batch),
           Increasing(q), Begins(p, q), Len(p) <= MaxPending, e \/ p = <<>>,
           stream.idle => p = <<>>,
           handshake => p = a \o wire,
           ~handshake => p = pipeline /\ a = <<>>,
           FillWritePipeline(e, p, q, stream, handshake, wire),
           q = queue'[user'], acks' = a,
           UNCHANGED <<handshake, greeting, final>>
    PROVE  /\ RemoteOK'
           /\ pipeline' \in Seq(Batch) /\ stream' \in StreamType
           /\ wire' \in Seq(Batch)
           /\ \E more \in Seq(Batch) :
                  wire' = IF handshake THEN wire \o more ELSE wire
<1>1. /\ handshake \in BOOLEAN /\ wire \in Seq(Batch) /\ StreamGood(stream)
      /\ IsStarted(stream) => enabled
      /\ stream.idle => IsOpen(stream) /\ handshake
    BY RemoteTyped, RemoteFacts DEF RemoteTypes
<1>2. Fills(e, p, q, stream, handshake, wire)
    BY <1>1, Filled
<1>3. PICK more \in Seq(Batch) :
          /\ pipeline' = p \o more
          /\ wire' = IF IsOpen(stream) /\ handshake THEN wire \o more ELSE wire
    BY <1>2 DEF Fills
<1>4. /\ handshake => IsOpen(stream) /\ greeting = "none"
      /\ ~handshake => wire = <<>> /\ acks = <<>>
      /\ greeting # "none" => IsOpen(stream)
      /\ IsOpen(stream) /\ ~handshake => greeting # "none"
      /\ final # NoStatus => IF handshake THEN wire # <<>> ELSE greeting = "sent"
      /\ IsStarted(stream) /\ ~handshake => pipeline # <<>>
    BY DEF RemoteOK, WireMatchesPipeline, StreamServesPipeline
<1>5. wire' = IF handshake THEN wire \o more ELSE wire
    BY <1>3, <1>4
<1>6. PipelineIsPrefix'
    BY <1>2, PrefixFrom DEF Fills
<1>7. p # <<>> => pipeline' # <<>>
    BY <1>3, ConcatNotEmpty
<1>8. StreamServesPipeline'
    <2>1. IsStarted(stream') /\ ~handshake => pipeline' # <<>>
        BY <1>2, <1>4, <1>7 DEF Fills
    <2>2. stream'.idle => IsOpen(stream') /\ handshake /\ pipeline' = <<>>
        <3>1. IsOpen(stream) => IsStarted(stream)
            BY DEF IsOpen, IsStarted
        <3> QED
            BY <1>2, <1>4, <1>7, <3>1 DEF Fills
    <2> QED
        BY <1>2, <2>1, <2>2 DEF Fills, StreamServesPipeline, StreamGood
<1>9. WireMatchesPipeline'
    <2>1. handshake => pipeline' = acks' \o wire'
        <3>0. wire \in Seq(Batch) /\ more \in Seq(Batch)
            BY <1>1
        <3>1. (a \o wire) \o more = a \o (wire \o more)
            BY <3>0, Regrouped, Zenon
        <3> QED
            BY <1>3, <1>5, <3>1
    <2>2. wire # <<>> => wire' # <<>>
        BY <1>1, <1>5, ConcatNotEmpty
    <2> QED
        BY <1>2, <1>4, <1>5, <2>1, <2>2 DEF Fills, WireMatchesPipeline
<1>10. stream' \in StreamType
    BY <1>2 DEF Fills, StreamGood
<1> QED
    BY <1>2, <1>5, <1>6, <1>8, <1>9, <1>10 DEF Fills, RemoteOK

\* The pipeline is filled after the connection was closed.
LEMMA RemoteRefilled ==
    ASSUME NEW e \in BOOLEAN, enabled' = e,
           NEW p \in Seq(Batch), NEW q \in Seq(Batch),
           Increasing(q), Begins(p, q), Len(p) <= MaxPending, e \/ p = <<>>,
           NEW s, StreamGood(s), ~IsStarted(s), ~s.idle, NEW h \in BOOLEAN,
           FillWritePipeline(e, p, q, s, h, <<>>),
           q = queue'[user'], Disconnected
    PROVE  /\ RemoteOK'
           /\ pipeline' \in Seq(Batch) /\ stream' \in StreamType
           /\ wire' = <<>>
<1>1. <<>> \in Seq(Batch) /\ ~IsOpen(s)
    BY EmptySeq DEF IsStarted, IsOpen
<1>2. Fills(e, p, q, s, h, <<>>)
    BY <1>1, Filled
<1>3. PipelineIsPrefix'
    BY <1>2, PrefixFrom DEF Fills
<1>4. wire' = <<>>
    BY <1>1, <1>2 DEF Fills
<1>5. RemoteOK'
    BY <1>1, <1>2, <1>3, <1>4, RemoteClosed DEF Fills
<1> QED
    BY <1>2, <1>4, <1>5 DEF Fills, StreamGood

\* The connection fails, and the stream is started again if it is needed.
LEMMA RemoteFails ==
    ASSUME TypeOK, RemoteOK,
           NEW s \in StreamType, s.asked \subseteq 0..s.closes,
           stream' = Needed(enabled, pipeline, Fail(s)),
           wire' = <<>>, Disconnected, UNCHANGED <<enabled, user, queue, pipeline>>
    PROVE  RemoteOK' /\ stream' \in StreamType
<1>1. /\ StreamGood(Fail(s)) /\ ~IsStarted(Fail(s)) /\ ~IsOpen(Fail(s))
      /\ ~Fail(s).idle
    BY FailGood DEF IsStarted, IsOpen
<1>2. enabled \in BOOLEAN /\ (pipeline # <<>> => enabled)
    BY RemoteTyped, RemoteFacts DEF RemoteTypes
<1>3. /\ StreamGood(stream')
      /\ IsStarted(stream') => enabled
      /\ pipeline # <<>> => IsStarted(stream')
      /\ IsStarted(stream') => IsStarted(Fail(s)) \/ pipeline # <<>>
      /\ IsOpen(stream') <=> IsOpen(Fail(s))
      /\ stream'.idle = Fail(s).idle
    BY <1>1, <1>2, NeededGood
<1>4. PipelineIsPrefix'
    BY DEF RemoteOK, PipelineIsPrefix
<1>5. RemoteOK'
    BY <1>1, <1>3, <1>4, RemoteClosed
<1> QED
    BY <1>3, <1>5 DEF StreamGood

\* The stream is stopped, with an empty pipeline.
LEMMA RemoteStops ==
    ASSUME TypeOK, RemoteOK, stream' = Stop(stream), wire' = <<>>, Disconnected,
           PipelineIsPrefix', pipeline' = <<>>
    PROVE  RemoteOK' /\ stream' \in StreamType
<1>1. StreamGood(stream') /\ ~IsStarted(stream') /\ ~stream'.idle
    BY RemoteFacts, StopGood
<1>2. ~IsOpen(stream')
    BY <1>1 DEF IsOpen, IsStarted
<1>3. RemoteOK'
    BY <1>1, <1>2, RemoteClosed
<1> QED
    BY <1>1, <1>3 DEF StreamGood

\* A request is taken from the wire and answered.
LEMMA AckMoves ==
    ASSUME NEW S, NEW s \in Seq(S), NEW t \in Seq(S), t # <<>>
    PROVE  Append(s, Head(t)) \o Tail(t) = s \o t
<1>1. /\ Head(t) \in S /\ Tail(t) \in Seq(S) /\ Len(Tail(t)) = Len(t) - 1
      /\ Len(t) \in Nat /\ Len(t) >= 1 /\ Len(s) \in Nat /\ Head(t) = t[1]
      /\ \A i \in 1..Len(t) - 1 : Tail(t)[i] = t[i + 1]
    BY TailOf, LenProperties
<1> DEFINE b == Append(s, Head(t))
<1>2. /\ b \in Seq(S) /\ Len(b) = Len(s) + 1
      /\ \A i \in 1..Len(s) : b[i] = s[i]
      /\ b[Len(s) + 1] = t[1]
    BY <1>1, AppendProperties
<1> HIDE DEF b
<1>3. /\ b \o Tail(t) \in Seq(S)
      /\ Len(b \o Tail(t)) = (Len(s) + 1) + (Len(t) - 1)
      /\ \A i \in 1 .. (Len(s) + 1) + (Len(t) - 1) : (b \o Tail(t))[i] =
             IF i <= Len(s) + 1 THEN b[i] ELSE Tail(t)[i - (Len(s) + 1)]
    <2>1. /\ b \o Tail(t) \in Seq(S)
          /\ Len(b \o Tail(t)) = Len(b) + Len(Tail(t))
          /\ \A i \in 1 .. Len(b) + Len(Tail(t)) : (b \o Tail(t))[i] =
                 IF i <= Len(b) THEN b[i] ELSE Tail(t)[i - Len(b)]
        BY <1>1, <1>2, ConcatProperties
    <2> QED
        BY <1>1, <1>2, <2>1
<1>4. /\ s \o t \in Seq(S) /\ Len(s \o t) = Len(s) + Len(t)
      /\ \A i \in 1 .. Len(s) + Len(t) : (s \o t)[i] =
             IF i <= Len(s) THEN s[i] ELSE t[i - Len(s)]
    BY ConcatProperties
<1>5. Len(b \o Tail(t)) = Len(s \o t)
    BY <1>1, <1>3, <1>4
<1>6. ASSUME NEW i \in 1..Len(b \o Tail(t)) PROVE (b \o Tail(t))[i] = (s \o t)[i]
    <2>1. /\ i \in 1..(Len(s) + 1) + (Len(t) - 1) /\ i \in 1..Len(s) + Len(t)
          /\ i \in Nat
        BY <1>1, <1>3, <1>4, <1>5
    <2>2. CASE i <= Len(s)
        <3>1. i \in 1..Len(s) /\ i <= Len(s) + 1
            BY <1>1, <2>1, <2>2
        <3> QED
            BY <1>2, <1>3, <1>4, <2>1, <2>2, <3>1
    <2>3. CASE i = Len(s) + 1
        <3>1. i <= Len(s) + 1 /\ ~(i <= Len(s)) /\ i - Len(s) = 1
            BY <1>1, <2>3
        <3> QED
            BY <1>2, <1>3, <1>4, <2>1, <2>3, <3>1
    <2>4. CASE i > Len(s) + 1
        <3>1. /\ ~(i <= Len(s) + 1) /\ ~(i <= Len(s))
              /\ i - (Len(s) + 1) \in 1..Len(t) - 1
              /\ (i - (Len(s) + 1)) + 1 = i - Len(s)
            BY <1>1, <2>1, <2>4
        <3> QED
            BY <1>1, <1>3, <1>4, <2>1, <3>1
    <2>5. i <= Len(s) \/ i = Len(s) + 1 \/ i > Len(s) + 1
        BY <1>1, <2>1
    <2> QED
        BY <2>2, <2>3, <2>4, <2>5
<1> QED
    BY <1>3, <1>4, <1>5, <1>6, SeqEqual DEF b

\* Steps that keep the pipeline.
LEMMA RemoteArrives ==
    ASSUME TypeOK, RemoteOK, NEW c, CredentialsArrive(c)
    PROVE  RemoteOK' /\ stream' \in StreamType
<1>1. /\ StreamGood(stream) /\ stream \in StreamType /\ stream.closes \in Nat
      /\ stream.asked \in SUBSET Nat /\ stream.asked \subseteq 0..stream.closes
      /\ stream.state \in StreamState /\ stream.idle \in BOOLEAN
      /\ c \in stream.asked
      /\ stream.closes \in stream.asked <=> stream.state = "Starting"
    BY RemoteFacts, StreamFields DEF StreamGood, CredentialsArrive
<1> DEFINE A == stream.asked \ {c}
<1>2. A \in SUBSET Nat /\ A \subseteq 0..stream.closes
    BY <1>1
<1>3. CASE Current(stream, c)
    <2>1. /\ stream.state = "Starting" /\ stream.closes \notin A
        BY <1>1, <1>3 DEF Current
    <2> HIDE DEF A
    <2>2. /\ stream' \in StreamType /\ stream'.state = "Open"
          /\ stream'.closes = stream.closes /\ stream'.asked = A
          /\ stream'.idle = FALSE /\ greeting' = "sent"
        BY <1>1, <1>2, <1>3 DEF CredentialsArrive, OnStreamStart, Answered,
               StreamType, StreamState, A
    <2>3. PipelineIsPrefix'
        BY DEF RemoteOK, PipelineIsPrefix, CredentialsArrive, store
    <2>4. IsStarted(stream) /\ ~IsOpen(stream) /\ ~handshake /\ pipeline # <<>>
          /\ enabled /\ wire = <<>> /\ acks = <<>> /\ final = NoStatus
        BY <2>1 DEF IsStarted, IsOpen, RemoteOK, StreamServesPipeline,
                    WireMatchesPipeline
    <2>5. UNCHANGED <<pipeline, handshake, enabled, wire, acks, final>>
        BY DEF CredentialsArrive
    <2>6. StreamServesPipeline'
        BY <1>2, <2>1, <2>2, <2>4, <2>5 DEF StreamServesPipeline, IsStarted, IsOpen
    <2>7. WireMatchesPipeline'
        BY <2>2, <2>4, <2>5 DEF WireMatchesPipeline, IsOpen
    <2> QED
        BY <2>2, <2>3, <2>6, <2>7 DEF RemoteOK
<1>4. CASE ~Current(stream, c)
    <2>1. stream.closes \in A <=> stream.closes \in stream.asked
        BY <1>4 DEF Current
    <2> HIDE DEF A
    <2>2. /\ stream' \in StreamType /\ stream'.state = stream.state
          /\ stream'.closes = stream.closes /\ stream'.asked = A
          /\ stream'.idle = stream.idle /\ greeting' = greeting
        BY <1>1, <1>2, <1>4 DEF CredentialsArrive, Answered, StreamType, A
    <2>3. PipelineIsPrefix'
        BY DEF RemoteOK, PipelineIsPrefix, CredentialsArrive, store
    <2>4. UNCHANGED <<pipeline, handshake, enabled, wire, acks, final>>
        BY DEF CredentialsArrive
    <2>5. (IsOpen(stream') <=> IsOpen(stream)) /\ (IsStarted(stream') <=> IsStarted(stream))
        BY <2>2 DEF IsOpen, IsStarted
    <2>6. StreamServesPipeline'
        BY <1>1, <1>2, <2>1, <2>2, <2>4, <2>5 DEF RemoteOK, StreamServesPipeline
    <2>7. WireMatchesPipeline'
        BY <2>2, <2>4, <2>5 DEF RemoteOK, WireMatchesPipeline
    <2> QED
        BY <2>2, <2>3, <2>6, <2>7 DEF RemoteOK
<1> QED
    BY <1>3, <1>4

LEMMA RemoteBackoff ==
    ASSUME TypeOK, RemoteOK, BackoffEnds
    PROVE  RemoteOK' /\ stream' \in StreamType
<1> DEFINE s == [stream EXCEPT !.state = "Initial"]
<1>1. StreamGood(stream) /\ stream.state = "Backoff"
    BY RemoteFacts DEF BackoffEnds
<1>2. StreamGood(s) /\ ~IsStarted(s) /\ s.idle = stream.idle
    BY <1>1 DEF StreamGood, StreamType, StreamState, IsStarted
<1> HIDE DEF s
<1>3. stream' = Start(s)
    BY DEF BackoffEnds, BackoffElapsed, s
<1>4. /\ StreamGood(stream') /\ IsStarted(stream') /\ ~IsOpen(stream')
      /\ stream'.idle = s.idle
    BY <1>2, <1>3, StartGood
<1>5. /\ IsStarted(stream) /\ ~IsOpen(stream) /\ ~stream.idle
    BY <1>1, RemoteFacts DEF IsStarted, IsOpen
<1>6. /\ PipelineIsPrefix'
      /\ UNCHANGED <<pipeline, handshake, enabled, wire, acks, final, greeting>>
    BY DEF RemoteOK, PipelineIsPrefix, BackoffEnds, store, connection
<1>7. StreamServesPipeline'
    BY <1>2, <1>4, <1>5, <1>6 DEF RemoteOK, StreamServesPipeline, StreamGood
<1>8. WireMatchesPipeline'
    BY <1>4, <1>5, <1>6 DEF RemoteOK, WireMatchesPipeline
<1> QED
    BY <1>4, <1>6, <1>7, <1>8 DEF RemoteOK, StreamGood

LEMMA RemoteGreeted ==
    ASSUME TypeOK, RemoteOK, HandshakeComplete
    PROVE  RemoteOK' /\ stream' \in StreamType
<1>1. /\ ~handshake /\ IsOpen(stream) /\ acks = <<>> /\ final = NoStatus
      /\ pipeline # <<>> /\ enabled /\ greeting = "answered"
    BY DEF RemoteOK, WireMatchesPipeline, StreamServesPipeline,
           HandshakeComplete, IsOpen, IsStarted
<1>2. StreamGood(stream) /\ pipeline \in Seq(Batch)
    BY RemoteFacts, RemoteTyped DEF RemoteTypes
<1>3. /\ stream' = CancelIdleCheck(stream) /\ wire' = pipeline /\ handshake' = TRUE
      /\ greeting' = "none" /\ UNCHANGED <<pipeline, acks, final, enabled, queue, user>>
    BY <1>1 DEF HandshakeComplete, store
<1>4. StreamGood(stream') /\ stream'.state = stream.state /\ ~stream'.idle
    BY <1>2, <1>3, IdleGood
<1>5. IsOpen(stream') /\ IsStarted(stream')
    BY <1>1, <1>4 DEF IsOpen, IsStarted
<1>6. PipelineIsPrefix'
    BY <1>3 DEF RemoteOK, PipelineIsPrefix
<1>7. StreamServesPipeline'
    BY <1>1, <1>3, <1>4, <1>5 DEF StreamServesPipeline, StreamGood
<1>8. <<>> \o pipeline = pipeline
    BY <1>2, ConcatEmptySeq
<1>9. WireMatchesPipeline'
    BY <1>1, <1>3, <1>5, <1>8 DEF WireMatchesPipeline
<1> QED
    BY <1>4, <1>6, <1>7, <1>9 DEF RemoteOK, StreamGood

\* Steps of the server.
LEMMA RemoteServer ==
    ASSUME TypeOK, RemoteOK,
           \/ ServerGreets
           \/ ServerCommits
           \/ ServerRefuses
           \/ \E status \in Status : ServerAborts(status)
           \/ LateCommit
    PROVE  RemoteOK'
<1>1. /\ PipelineIsPrefix' /\ StreamServesPipeline'
      /\ UNCHANGED <<stream, handshake, pipeline>>
    <2>1. UNCHANGED <<stream, handshake, pipeline, enabled, queue, user>>
        BY DEF ServerGreets, ServerCommits, ServerRefuses, ServerAborts,
               LateCommit, store
    <2> QED
        BY <2>1 DEF RemoteOK, PipelineIsPrefix, StreamServesPipeline
<1>2. WireMatchesPipeline
    BY DEF RemoteOK
<1>3. ASSUME ServerGreets PROVE WireMatchesPipeline'
    BY <1>1, <1>2, <1>3 DEF WireMatchesPipeline, ServerGreets
<1>4. ASSUME ServerCommits PROVE WireMatchesPipeline'
    <2>1. acks \in Seq(Batch) /\ wire \in Seq(Batch) /\ wire # <<>>
        BY <1>4, RemoteTyped DEF RemoteTypes, ServerCommits
    <2>2. acks' \o wire' = acks \o wire
        BY <1>4, <2>1, AckMoves DEF ServerCommits
    <2>3. handshake /\ final = NoStatus /\ UNCHANGED <<final, greeting>>
        BY <1>2, <1>4, <2>1 DEF WireMatchesPipeline, ServerCommits
    <2> QED
        BY <1>1, <1>2, <2>2, <2>3 DEF WireMatchesPipeline
<1>5. ASSUME ServerRefuses PROVE WireMatchesPipeline'
    BY <1>1, <1>2, <1>5 DEF WireMatchesPipeline, ServerRefuses, NoStatus
<1>6. ASSUME \E status \in Status : ServerAborts(status) PROVE WireMatchesPipeline'
    BY <1>1, <1>2, <1>6 DEF WireMatchesPipeline, ServerAborts
<1>7. ASSUME LateCommit PROVE WireMatchesPipeline'
    BY <1>1, <1>2, <1>7 DEF WireMatchesPipeline, LateCommit
<1> QED
    BY <1>1, <1>3, <1>4, <1>5, <1>6, <1>7 DEF RemoteOK

---------------------------------------------------------------------------
(* The inductive invariant, by parts, and the steps that keep it.          *)

ServerOK == OnlyIssued /\ ServerKnows /\ LateStillQueued /\ LastCommitNewest

PromisesOK == NoWriteLost /\ AnswersTrue

IInv == TypeOK /\ TableOK /\ RemoteOK /\ ServerOK /\ WaitsOK /\ PromisesOK

\* The assertions of the code follow from the other parts.
LEMMA AssertionsFollow ==
    ASSUME TypeOK, RemoteOK
    PROVE  AssertionsHold
<1>1. acks # <<>> => pipeline # <<>>
    <2>1. acks \in Seq(Batch) /\ wire \in Seq(Batch)
        BY RemoteTyped DEF RemoteTypes
    <2> QED
        BY <2>1, ConcatNotEmpty DEF RemoteOK, WireMatchesPipeline
<1>2. ASSUME pipeline # <<>>
      PROVE  \E i \in 1..Len(queue[user]) : queue[user][i].id = Head(pipeline).id
    <2>1. queue[user] # <<>> /\ Head(pipeline) = queue[user][1]
        BY <1>2, PipelineFirst DEF First
    <2>2. 1 \in 1..Len(queue[user])
        BY <2>1, TableTypes, TailOf
    <2> QED
        BY <2>1, <2>2
<1>3. stream.idle => IsStarted(stream) /\ pipeline = <<>>
    BY DEF RemoteOK, StreamServesPipeline, IsOpen, IsStarted
<1>4. stream.closes \in stream.asked => stream.state = "Starting" /\ ~handshake
    BY DEF RemoteOK, StreamServesPipeline, WireMatchesPipeline, IsOpen
<1> QED
    BY <1>1, <1>2, <1>3, <1>4 DEF AssertionsHold

LEMMA TableSame ==
    ASSUME TableOK, UNCHANGED <<queue, next, callbacks, issued, orphans>>
    PROVE  TableOK'
<1>1. IdsIncrease'
    BY DEF TableOK, IdsIncrease
<1>2. \A u \in User : Gone(u)' = Gone(u)
    BY DEF Gone
<1>3. QueuesHoldIssued'
    <2>1. queue' = queue /\ issued' = issued /\ callbacks' = callbacks
        OBVIOUS
    <2>2. /\ \A u \in User :
                 /\ Len(queue'[u]) <= Len(issued'[u])
                 /\ \A i \in 1..Len(queue'[u]) :
                        queue'[u][i].write = issued'[u][Gone(u)' + i]
                 /\ \A i, j \in 1..Len(issued'[u]) :
                        issued'[u][i] = issued'[u][j] => i = j
                 /\ callbacks'[u] \subseteq Elements(queue'[u])
          /\ \A u, v \in User :
                 u # v => Elements(issued'[u]) \cap Elements(issued'[v]) = {}
        BY <1>2, <2>1 DEF TableOK, QueuesHoldIssued
    <2> QED
        BY <2>2 DEF QueuesHoldIssued, Elements
<1>4. CallbacksKept'
    BY DEF TableOK, CallbacksKept, Elements
<1> QED
    BY <1>1, <1>3, <1>4 DEF TableOK

LEMMA OnlySame ==
    ASSUME OnlyIssued, UNCHANGED <<issued, log, told>>
    PROVE  OnlyIssued'
BY DEF OnlyIssued, Issued, Elements

LEMMA PromisesSame ==
    ASSUME PromisesOK, UNCHANGED <<queue, issued, told>>,
           Elements(log) \subseteq Elements(log'), refused \subseteq refused',
           dropped \subseteq dropped', orphans \subseteq orphans'
    PROVE  PromisesOK'
<1>1. Issued' = Issued /\ Pending' = Pending
    BY DEF Issued, Pending, Elements, Writes
<1>2. Elements(log)' = Elements(log')
    BY DEF Elements
<1> HIDE DEF Issued, Pending, Elements
<1>3. NoWriteLost'
    BY <1>1, <1>2 DEF PromisesOK, NoWriteLost
<1>4. AnswersTrue'
    BY <1>1, <1>2 DEF PromisesOK, AnswersTrue
<1> QED
    BY <1>3, <1>4 DEF PromisesOK

\* A step that concerns the connection only.
Quiet ==
    /\ UNCHANGED <<user, queue, next, callbacks, waiters, told, released, log,
                   crossed, issued, orphans>>
    /\ refused \subseteq refused' /\ refused' \in SUBSET Write
    /\ dropped \subseteq dropped' /\ dropped' \in SUBSET Write
    /\ faults' \in Nat

LEMMA QuietTypes ==
    ASSUME TypeOK, Quiet, RemoteTypes'
    PROVE  TypeOK'
BY DEF TypeOK, Quiet, RemoteTypes

LEMMA QuietStep ==
    ASSUME IInv, Quiet, RemoteTypes', RemoteOK', ServerKnows', LateStillQueued'
    PROVE  IInv'
<1>1. TypeOK'
    BY QuietTypes DEF IInv
<1>2. /\ UNCHANGED <<queue, next, callbacks, issued, orphans>>
      /\ UNCHANGED <<user, released, waiters, log, crossed, told>>
      /\ refused \subseteq refused' /\ dropped \subseteq dropped'
    BY DEF Quiet
<1>3. TableOK'
    BY <1>2, TableSame DEF IInv
<1>4. OnlyIssued'
    BY <1>2, OnlySame DEF IInv, ServerOK
<1>5. LastCommitNewest'
    BY <1>2, CommitSame DEF IInv, ServerOK
<1>6. WaitsOK'
    BY <1>2, WaitsSame DEF IInv
<1>7. PromisesOK'
    BY <1>2, PromisesSame DEF IInv
<1> QED
    BY <1>1, <1>3, <1>4, <1>5, <1>6, <1>7 DEF IInv, ServerOK

\* The elements of lists of batches.
LEMMA WritesConcat ==
    ASSUME NEW s \in Seq(Batch), NEW t \in Seq(Batch)
    PROVE  Writes(s \o t) = Writes(s) \cup Writes(t)
<1>1. /\ Len(s) \in Nat /\ Len(t) \in Nat /\ Len(s \o t) = Len(s) + Len(t)
      /\ \A i \in 1 .. Len(s) + Len(t) : (s \o t)[i] =
             IF i <= Len(s) THEN s[i] ELSE t[i - Len(s)]
    BY LenProperties, ConcatProperties
<1>2. ASSUME NEW i \in 1..Len(s) + Len(t)
      PROVE  (s \o t)[i].write \in Writes(s) \cup Writes(t)
    <2>1. CASE i <= Len(s)
        <3>1. i \in 1..Len(s) /\ (s \o t)[i] = s[i]
            BY <1>1, <2>1
        <3> QED
            BY <3>1 DEF Writes
    <2>2. CASE ~(i <= Len(s))
        <3>1. i - Len(s) \in 1..Len(t) /\ (s \o t)[i] = t[i - Len(s)]
            BY <1>1, <2>2
        <3> QED
            BY <3>1 DEF Writes
    <2> QED
        BY <2>1, <2>2
<1>3. ASSUME NEW i \in 1..Len(s) PROVE s[i].write \in Writes(s \o t)
    <2>1. i \in 1..Len(s \o t) /\ (s \o t)[i] = s[i]
        BY <1>1
    <2> QED
        BY <2>1 DEF Writes
<1>4. ASSUME NEW i \in 1..Len(t) PROVE t[i].write \in Writes(s \o t)
    <2>1. /\ i + Len(s) \in 1..Len(s) + Len(t) /\ ~(i + Len(s) <= Len(s))
          /\ (i + Len(s)) - Len(s) = i
        BY <1>1
    <2>2. i + Len(s) \in 1..Len(s \o t) /\ (s \o t)[i + Len(s)] = t[i]
        BY <1>1, <2>1
    <2> QED
        BY <2>2 DEF Writes
<1>5. Writes(s \o t) \subseteq Writes(s) \cup Writes(t)
    <2>1. SUFFICES ASSUME NEW x \in Writes(s \o t)
                   PROVE  x \in Writes(s) \cup Writes(t)
        OBVIOUS
    <2>2. PICK i \in 1..Len(s \o t) : x = (s \o t)[i].write
        BY DEF Writes
    <2> QED
        BY <1>1, <1>2, <2>2
<1>6. Writes(s) \subseteq Writes(s \o t)
    BY <1>3 DEF Writes
<1>7. Writes(t) \subseteq Writes(s \o t)
    BY <1>4 DEF Writes
<1> QED
    BY <1>5, <1>6, <1>7

\* Whatever is in the pipeline, on the wire or answered is queued.
LEMMA PipelinePending ==
    ASSUME TypeOK, RemoteOK
    PROVE  /\ Writes(pipeline) \subseteq Pending
           /\ Writes(wire) \subseteq Pending /\ Writes(acks) \subseteq Pending
<1>1. /\ pipeline \in Seq(Batch) /\ acks \in Seq(Batch) /\ wire \in Seq(Batch)
      /\ Begins(pipeline, queue[user]) /\ user \in User
      /\ Len(queue[user]) \in Nat /\ Len(pipeline) \in Nat
    BY RemoteTyped, RemoteFacts, TableTypes, BatchesOf DEF RemoteTypes
<1>2. Writes(pipeline) \subseteq Pending
    <2>1. SUFFICES ASSUME NEW i \in 1..Len(pipeline)
                   PROVE  pipeline[i].write \in Pending
        BY DEF Writes
    <2>2. i \in 1..Len(queue[user]) /\ pipeline[i] = queue[user][i]
        BY <1>1 DEF Begins
    <2> QED
        BY <1>1, <2>2, PendingIs
<1>3. CASE handshake
    <2>1. pipeline = acks \o wire
        BY <1>3 DEF RemoteOK, WireMatchesPipeline
    <2>2. Writes(pipeline) = Writes(acks) \cup Writes(wire)
        BY <1>1, <2>1, WritesConcat
    <2> QED
        BY <1>2, <2>2
<1>4. CASE ~handshake
    <2>1. wire = <<>> /\ acks = <<>>
        BY <1>4 DEF RemoteOK, WireMatchesPipeline
    <2>2. Writes(<<>>) = {}
        BY DEF Writes
    <2> QED
        BY <1>2, <2>1, <2>2
<1> QED
    BY <1>3, <1>4

\* After the connection was closed, with the queues as they were.
LEMMA ClosedServer ==
    ASSUME TypeOK, RemoteOK, ServerOK, Disconnected, UNCHANGED <<queue, issued>>
    PROVE  ServerKnows' /\ LateStillQueued'
<1>1. wire \in Seq(Batch) /\ late \in Seq(Batch)
    BY RemoteTyped DEF RemoteTypes
<1>2. Pending' = Pending /\ Issued' = Issued
    BY DEF Pending, Writes, Issued, Elements
<1>3. Writes(late) \subseteq Pending /\ Writes(wire) \subseteq Pending
    BY PipelinePending DEF ServerOK, LateStillQueued
<1>4. Writes(late \o wire) \subseteq Pending
    BY <1>1, <1>3, WritesConcat
<1>5. Writes(late') \subseteq Pending'
    BY <1>2, <1>3, <1>4 DEF Disconnected
<1>6. Writes(late)' = Writes(late')
    BY DEF Writes
<1>7. LateStillQueued'
    BY <1>2, <1>5, <1>6 DEF LateStillQueued, Disconnected, ServerOK
<1>8. ServerKnows'
    <2>1. acks' = <<>> /\ final' = NoStatus
        BY DEF Disconnected
    <2>2. Writes(acks)' = {}
        BY <2>1 DEF Writes
    <2> QED
        BY <2>1, <2>2 DEF ServerKnows, NoStatus
<1> QED
    BY <1>7, <1>8

---------------------------------------------------------------------------
(* One lemma for each action.                                              *)

\* A step that closes the connection and leaves the table alone.
LEMMA QuietClosed ==
    ASSUME IInv, Quiet, Disconnected, RemoteOK', wire' = <<>>,
           enabled' \in BOOLEAN, pipeline' \in Seq(Batch), stream' \in StreamType
    PROVE  IInv'
<1>1. RemoteTypes'
    <2>1. wire' \in Seq(Batch)
        BY EmptySeq
    <2> QED
        BY <2>1, DisconnectedTypes DEF RemoteTypes, IInv
<1>2. ServerKnows' /\ LateStillQueued'
    BY ClosedServer DEF IInv, Quiet
<1> QED
    BY <1>1, <1>2, QuietStep

\* What the server knows, if nothing is heard of it.
LEMMA KnownSame ==
    ASSUME UNCHANGED <<log, crossed, user, issued>>
    PROVE  /\ Crossed(user)' <=> Crossed(user)
           /\ \A w : LastCommitIs(user, w)' <=> LastCommitIs(user, w)
BY DEF Crossed, LastCommitIs, Elements

LEMMA KnowsSame ==
    ASSUME ServerKnows,
           UNCHANGED <<acks, log, crossed, user, issued, final, handshake, wire,
                       refused>>
    PROVE  ServerKnows'
<1>1. Writes(acks)' = Writes(acks) /\ Elements(log)' = Elements(log)
    BY DEF Writes, Elements
<1>2. /\ Crossed(user)' <=> Crossed(user)
      /\ \A w : LastCommitIs(user, w)' <=> LastCommitIs(user, w)
    BY KnownSame
<1> QED
    BY <1>1, <1>2 DEF ServerKnows

LEMMA LateSame ==
    ASSUME LateStillQueued, UNCHANGED <<late, stray, queue, issued, handshake>>,
           greeting' = "answered" => greeting = "answered"
    PROVE  LateStillQueued'
<1>1. Writes(late)' = Writes(late) /\ Pending' = Pending /\ Issued' = Issued
    BY DEF Writes, Pending, Issued, Elements
<1> QED
    BY <1>1 DEF LateStillQueued

LEMMA StepCredentialsArrive ==
    ASSUME IInv, NEW c, CredentialsArrive(c)
    PROVE  IInv'
<1>1. Quiet
    BY DEF CredentialsArrive, Quiet, store, engine, server, IInv, TypeOK
<1>2. RemoteOK' /\ stream' \in StreamType
    BY RemoteArrives DEF IInv
<1>3. RemoteTypes'
    BY <1>2, RemoteTyped DEF RemoteTypes, IInv, CredentialsArrive
<1>4. UNCHANGED <<acks, log, crossed, user, issued, final, handshake, wire,
                  refused, late, stray, queue>>
      /\ (greeting' = "answered" => greeting = "answered")
    BY DEF CredentialsArrive, server, store
<1>5. ServerKnows'
    BY <1>4, KnowsSame DEF IInv, ServerOK
<1>6. LateStillQueued'
    BY <1>4, LateSame DEF IInv, ServerOK
<1> QED
    BY <1>1, <1>2, <1>3, <1>5, <1>6, QuietStep

LEMMA StepCredentialsFail ==
    ASSUME IInv, NEW c, CredentialsFail(c)
    PROVE  IInv'
<1> DEFINE s == Answered(stream, c)
<1>1. Quiet
    BY DEF CredentialsFail, Quiet, store, engine, server, IInv, TypeOK
<1>2. /\ stream \in StreamType /\ stream.asked \subseteq 0..stream.closes
      /\ enabled \in BOOLEAN /\ pipeline \in Seq(Batch)
    BY RemoteFacts, RemoteTyped DEF IInv, StreamGood, RemoteTypes
<1>3. s \in StreamType /\ s.asked \subseteq 0..s.closes
    BY <1>2 DEF Answered, StreamType
<1> HIDE DEF s
<1>4. /\ stream' = Needed(enabled, pipeline, Fail(s))
      /\ wire' = <<>> /\ Disconnected /\ UNCHANGED <<enabled, user, queue, pipeline>>
    BY DEF CredentialsFail, store, s
<1>5. RemoteOK' /\ stream' \in StreamType
    BY <1>3, <1>4, RemoteFails DEF IInv
<1> QED
    BY <1>1, <1>2, <1>4, <1>5, QuietClosed

LEMMA StepHandshakeComplete ==
    ASSUME IInv, HandshakeComplete
    PROVE  IInv'
<1>1. Quiet
    BY DEF HandshakeComplete, Quiet, store, engine, server, IInv, TypeOK
<1>2. RemoteOK' /\ stream' \in StreamType
    BY RemoteGreeted DEF IInv
<1>3. RemoteTypes'
    BY <1>2, RemoteTyped DEF RemoteTypes, IInv, HandshakeComplete
<1>4. /\ acks = <<>> /\ final = NoStatus /\ late = <<>>
      /\ UNCHANGED <<acks, final, late, stray, queue, issued>>
      /\ stray \subseteq Issued
    BY DEF HandshakeComplete, store, IInv, RemoteOK, WireMatchesPipeline,
           ServerOK, LateStillQueued
<1>5. Writes(<<>>) = {}
    BY DEF Writes
<1>6. ServerKnows'
    <2>1. Writes(acks)' = {}
        BY <1>4 DEF Writes
    <2> QED
        BY <1>4, <2>1 DEF ServerKnows, NoStatus
<1>7. LateStillQueued'
    <2>1. Writes(late)' = {} /\ late' = <<>>
        BY <1>4 DEF Writes
    <2>2. stray' \subseteq Issued'
        BY <1>4 DEF Issued, Elements
    <2> QED
        BY <2>1, <2>2 DEF LateStillQueued
<1> QED
    BY <1>1, <1>2, <1>3, <1>6, <1>7, QuietStep

LEMMA StepBackoffEnds ==
    ASSUME IInv, BackoffEnds
    PROVE  IInv'
<1>1. Quiet
    BY DEF BackoffEnds, Quiet, store, engine, server, IInv, TypeOK
<1>2. RemoteOK' /\ stream' \in StreamType
    BY RemoteBackoff DEF IInv
<1>3. RemoteTypes'
    BY <1>2, RemoteTyped DEF RemoteTypes, IInv, BackoffEnds, connection
<1>4. UNCHANGED <<acks, log, crossed, user, issued, final, handshake, wire,
                  refused, late, stray, queue, greeting>>
    BY DEF BackoffEnds, server, store, connection
<1>5. ServerKnows'
    BY <1>4, KnowsSame DEF IInv, ServerOK
<1>6. LateStillQueued'
    BY <1>4, LateSame DEF IInv, ServerOK
<1> QED
    BY <1>1, <1>2, <1>3, <1>5, <1>6, QuietStep

LEMMA StepIdleElapsed ==
    ASSUME IInv, IdleElapsed
    PROVE  IInv'
<1>1. Quiet
    BY DEF IdleElapsed, Quiet, store, engine, server, IInv, TypeOK
<1>2. /\ pipeline = <<>> /\ enabled \in BOOLEAN /\ pipeline \in Seq(Batch)
    BY RemoteFacts, RemoteTyped DEF IInv, IdleElapsed, RemoteTypes
<1>3. /\ stream' = Stop(stream) /\ wire' = <<>> /\ Disconnected
      /\ UNCHANGED <<enabled, user, queue, pipeline>>
    BY DEF IdleElapsed, store
<1>4. PipelineIsPrefix'
    BY <1>3 DEF IInv, RemoteOK, PipelineIsPrefix
<1>5. RemoteOK' /\ stream' \in StreamType
    BY <1>2, <1>3, <1>4, RemoteStops DEF IInv
<1> QED
    BY <1>1, <1>2, <1>3, <1>5, QuietClosed

LEMMA StepDisableNetwork ==
    ASSUME IInv, DisableNetwork
    PROVE  IInv'
<1>1. Quiet
    BY DEF DisableNetwork, Quiet, store, engine, server, IInv, TypeOK
<1>2. /\ stream' = Stop(stream) /\ wire' = <<>> /\ Disconnected
      /\ enabled' = FALSE /\ pipeline' = <<>> /\ UNCHANGED <<user, queue>>
    BY DEF DisableNetwork, store
<1>3. /\ pipeline' \in Seq(Batch) /\ Len(pipeline') = 0
      /\ user \in User /\ Len(queue[user]) \in Nat /\ MaxPending \in Nat
    BY <1>2, EmptySeq, TableTypes, PipelineAssumption DEF IInv
<1>4. PipelineIsPrefix'
    BY <1>2, <1>3 DEF PipelineIsPrefix
<1>5. RemoteOK' /\ stream' \in StreamType
    BY <1>2, <1>4, RemoteStops DEF IInv
<1> QED
    BY <1>1, <1>2, <1>3, <1>5, QuietClosed

\* The whole queue of a user is refilled from nothing.
LEMMA FromNothing ==
    ASSUME TypeOK, TableOK, NEW u \in User
    PROVE  /\ <<>> \in Seq(Batch) /\ queue[u] \in Seq(Batch)
           /\ Increasing(queue[u]) /\ Begins(<<>>, queue[u])
           /\ Len(<<>>) <= MaxPending
<1>1. /\ <<>> \in Seq(Batch) /\ Len(<<>>) = 0 /\ queue[u] \in Seq(Batch)
      /\ Len(queue[u]) \in Nat /\ MaxPending \in Nat
    BY EmptySeq, TableTypes, PipelineAssumption
<1>2. Increasing(queue[u])
    BY QueuesIncrease DEF TableOK
<1> QED
    BY <1>1, <1>2 DEF Begins

LEMMA RemoteRestarts ==
    ASSUME IInv, NEW u \in User, RestartNetwork(queue[u]), enabled,
           u = user', UNCHANGED <<queue, enabled>>
    PROVE  /\ RemoteOK' /\ Disconnected /\ wire' = <<>>
           /\ pipeline' \in Seq(Batch) /\ stream' \in StreamType
           /\ enabled' \in BOOLEAN
<1> DEFINE s == InhibitBackoff(Stop(stream))
<1>1. StreamGood(s) /\ s.state = "Initial" /\ ~s.idle
    BY RemoteFacts, StopGood DEF IInv
<1>2. ~IsStarted(s)
    BY <1>1 DEF IsStarted
<1>3. FillWritePipeline(TRUE, <<>>, queue[u], s, FALSE, <<>>) /\ Disconnected
    BY DEF RestartNetwork
<1> HIDE DEF s
<1>4. enabled' = TRUE /\ queue[u] = queue'[user']
    BY RemoteTyped DEF IInv, RemoteTypes
<1>5. /\ <<>> \in Seq(Batch) /\ queue[u] \in Seq(Batch)
      /\ Increasing(queue[u]) /\ Begins(<<>>, queue[u])
      /\ Len(<<>>) <= MaxPending
    BY FromNothing DEF IInv
<1>6. TRUE \in BOOLEAN /\ FALSE \in BOOLEAN
    OBVIOUS
<1>7. /\ RemoteOK' /\ pipeline' \in Seq(Batch) /\ stream' \in StreamType
      /\ wire' = <<>>
    BY <1>1, <1>2, <1>3, <1>4, <1>5, <1>6, RemoteRefilled
<1> QED
    BY <1>3, <1>4, <1>7

LEMMA StepConnectivityChange ==
    ASSUME IInv, ConnectivityChange
    PROVE  IInv'
<1>1. Quiet
    BY DEF ConnectivityChange, Quiet, store, engine, server, IInv, TypeOK
<1>2. /\ user \in User /\ RestartNetwork(queue[user]) /\ enabled
      /\ UNCHANGED <<user, queue, enabled>>
    BY TableTypes DEF ConnectivityChange, store, IInv
<1>3. /\ RemoteOK' /\ Disconnected /\ wire' = <<>>
      /\ pipeline' \in Seq(Batch) /\ stream' \in StreamType
      /\ enabled' \in BOOLEAN
    BY <1>2, RemoteRestarts
<1> QED
    BY <1>1, <1>3, QuietClosed

LEMMA StepEnableNetwork ==
    ASSUME IInv, EnableNetwork
    PROVE  IInv'
<1>1. Quiet
    BY DEF EnableNetwork, Quiet, store, engine, server, IInv, TypeOK
<1>2. /\ user \in User /\ enabled = FALSE /\ enabled' = TRUE
      /\ FillWritePipeline(TRUE, pipeline, queue[user], stream, handshake, wire)
      /\ UNCHANGED <<user, queue, handshake, greeting, acks, final, reading,
                     late, stray, issued, log, refused>>
      /\ handshake \in BOOLEAN /\ wire \in Seq(Batch) /\ acks \in Seq(Batch)
    BY TableTypes, RemoteTyped DEF EnableNetwork, store, server, IInv, RemoteTypes
<1>3. pipeline = <<>> /\ ~handshake /\ wire = <<>> /\ acks = <<>>
    BY <1>2 DEF IInv, RemoteOK, PipelineIsPrefix, WireMatchesPipeline,
                StreamServesPipeline, IsOpen, IsStarted
<1>4. /\ <<>> \in Seq(Batch) /\ queue[user] \in Seq(Batch)
      /\ Increasing(queue[user]) /\ Begins(<<>>, queue[user])
      /\ Len(<<>>) <= MaxPending
    BY <1>2, FromNothing DEF IInv
<1>5. /\ FillWritePipeline(TRUE, <<>>, queue[user], stream, handshake, wire)
      /\ queue[user] = queue'[user'] /\ acks' = <<>> /\ TRUE \in BOOLEAN
      /\ ~handshake => <<>> = pipeline
    BY <1>2, <1>3
<1>6. /\ RemoteOK'
      /\ pipeline' \in Seq(Batch) /\ stream' \in StreamType
      /\ wire' \in Seq(Batch)
      /\ \E more \in Seq(Batch) :
             wire' = IF handshake THEN wire \o more ELSE wire
    BY <1>2, <1>3, <1>4, <1>5, RemoteFilled DEF IInv
<1>7. RemoteTypes'
    BY <1>2, <1>6, RemoteTyped DEF RemoteTypes, IInv
<1>8. ServerKnows'
    <2>1. Writes(acks)' = {}
        BY <1>2, <1>3 DEF Writes
    <2> QED
        BY <1>2, <1>3, <2>1 DEF ServerKnows
<1>9. LateStillQueued'
    BY <1>2, LateSame DEF IInv, ServerOK
<1> QED
    BY <1>1, <1>6, <1>7, <1>8, <1>9, QuietStep

\* The head of the wire stays where it is when something is added.
LEMMA WireHead ==
    ASSUME TypeOK, RemoteOK, ServerKnows, UNCHANGED <<log, final, handshake, refused>>,
           \E more \in Seq(Batch) : wire' = IF handshake THEN wire \o more ELSE wire
    PROVE  final' = "denied" /\ handshake' => Head(wire').write \in refused'
<1>1. SUFFICES ASSUME final = "denied", handshake
               PROVE  Head(wire').write \in refused
    OBVIOUS
<1>2. wire \in Seq(Batch) /\ wire # <<>> /\ Head(wire).write \in refused
    BY <1>1, RemoteTyped DEF RemoteTypes, RemoteOK, WireMatchesPipeline,
                             ServerKnows, NoStatus
<1>3. PICK more \in Seq(Batch) : wire' = wire \o more
    BY <1>1
<1> QED
    BY <1>2, <1>3, ConcatNotEmpty

LEMMA StepWriteMutations ==
    ASSUME IInv, NEW w \in Write, WriteMutations(w)
    PROVE  IInv'
<1>1. /\ TypeOK /\ TableOK /\ RemoteOK /\ OnlyIssued /\ ServerKnows
      /\ LateStillQueued /\ LastCommitNewest /\ WaitsOK /\ PromisesOK
    BY DEF IInv, ServerOK
<1>2. Issues(w) /\ user' = user
    BY DEF WriteMutations, Issues
<1>3. /\ FillWritePipeline(enabled, pipeline, queue'[user], stream, handshake, wire)
      /\ UNCHANGED <<user, waiters, told, released, enabled, handshake, greeting,
                     acks, final, reading, late, stray, log, crossed, refused,
                     dropped, orphans, faults>>
    BY DEF WriteMutations, server
<1>4. TableOK' /\ callbacks' \in [User -> SUBSET Batch]
    BY <1>1, <1>2, IssuesKeep
<1>5. /\ queue' \in [User -> Seq(Batch)] /\ issued' \in [User -> Seq(Write)]
      /\ next' \in Nat \ {0} /\ user \in User
      /\ Len(queue[user]) \in Nat /\ Len(queue'[user]) = Len(queue[user]) + 1
      /\ \A i \in 1..Len(queue[user]) : queue'[user][i] = queue[user][i]
    BY <1>1, <1>2, IssuesLists, TableTypes
<1>6. /\ RemoteOK' /\ pipeline' \in Seq(Batch) /\ stream' \in StreamType
      /\ wire' \in Seq(Batch)
      /\ \E more \in Seq(Batch) :
             wire' = IF handshake THEN wire \o more ELSE wire
    <2> DEFINE q == queue'[user]
    <2>1. /\ enabled \in BOOLEAN /\ pipeline \in Seq(Batch) /\ acks \in Seq(Batch)
          /\ q \in Seq(Batch) /\ Len(pipeline) \in Nat
        BY <1>1, <1>5, RemoteTyped, BatchesOf DEF RemoteTypes
    <2>2. /\ Begins(pipeline, queue[user]) /\ Len(pipeline) <= MaxPending
          /\ enabled \/ pipeline = <<>>
          /\ stream.idle => pipeline = <<>>
        BY <1>1, RemoteFacts
    <2>3. Begins(pipeline, q)
        <3>1. Len(pipeline) <= Len(q)
            BY <1>5, <2>1, <2>2 DEF Begins
        <3>2. ASSUME NEW i \in 1..Len(pipeline) PROVE pipeline[i] = q[i]
            <4>1. i \in 1..Len(queue[user])
                BY <1>5, <2>1, <2>2 DEF Begins
            <4> QED
                BY <1>5, <2>2, <4>1 DEF Begins
        <3> QED
            BY <3>1, <3>2 DEF Begins
    <2>4. Increasing(q)
        BY <1>4, <1>5 DEF TableOK, IdsIncrease, Increasing
    <2>5. /\ handshake => pipeline = acks \o wire
          /\ ~handshake => acks = <<>>
        BY <1>1 DEF RemoteOK, WireMatchesPipeline
    <2>6. q = queue'[user'] /\ acks' = acks /\ enabled' = enabled
          /\ UNCHANGED <<handshake, greeting, final>>
        BY <1>3
    <2>7. FillWritePipeline(enabled, pipeline, q, stream, handshake, wire)
        BY <1>3
    <2> HIDE DEF q
    <2> QED
        BY <1>1, <2>1, <2>2, <2>3, <2>4, <2>5, <2>6, <2>7, RemoteFilled
<1>7. TypeOK'
    BY <1>1, <1>3, <1>4, <1>5, <1>6 DEF TypeOK
<1>8. /\ \A x : x \in Issued' <=> x \in Issued \/ x = w
      /\ \A x : x \in Pending' <=> x \in Pending \/ x = w
      /\ w \notin Issued
    BY <1>1, <1>2, IssuesSets DEF Issues
<1>9. Elements(log)' = Elements(log) /\ Writes(acks)' = Writes(acks)
      /\ Writes(late)' = Writes(late)
    BY <1>3 DEF Elements, Writes
<1>10. OnlyIssued'
    BY <1>1, <1>3, <1>8, <1>9 DEF OnlyIssued
<1>11. ServerKnows'
    <2>1. final' = "denied" /\ handshake' => Head(wire').write \in refused'
        BY <1>1, <1>3, <1>6, WireHead
    <2>2. \A x : x \in Elements(issued[user])' <=>
                     x \in Elements(issued[user]) \/ x = w
        BY <1>1, <1>2, <1>5, IssuesSets
    <2>3. Crossed(user) => Crossed(user)'
        BY <1>3, <2>2 DEF Crossed
    <2>4. ASSUME NEW x, LastCommitIs(user, x) PROVE LastCommitIs(user, x)'
        <3>1. \A j \in 1..Len(log) : log[j] # w
            BY <1>1, <1>8 DEF OnlyIssued, Elements
        <3> QED
            BY <1>3, <2>2, <2>4, <3>1 DEF LastCommitIs
    <2> QED
        BY <1>1, <1>3, <1>9, <2>1, <2>3, <2>4 DEF ServerKnows
<1>12. LateStillQueued'
    BY <1>1, <1>3, <1>8, <1>9 DEF LateStillQueued
<1>13. LastCommitNewest'
    BY <1>1, <1>2, <1>3, CommitIssues
<1>14. WaitsOK'
    BY <1>1, <1>2, <1>3, WaitsIssues
<1>15. PromisesOK'
    <2>1. NoWriteLost'
        BY <1>1, <1>3, <1>8, <1>9 DEF PromisesOK, NoWriteLost
    <2>2. told[w] = "none"
        BY <1>1, <1>8 DEF OnlyIssued
    <2>3. AnswersTrue'
        BY <1>1, <1>3, <1>8, <1>9, <2>2 DEF PromisesOK, AnswersTrue
    <2> QED
        BY <2>1, <2>3 DEF PromisesOK
<1> QED
    BY <1>4, <1>6, <1>7, <1>10, <1>11, <1>12, <1>13, <1>14, <1>15 DEF IInv, ServerOK

LEMMA StepRegister ==
    ASSUME IInv, RegisterPendingWritesCallback
    PROVE  IInv'
<1>1. /\ TypeOK /\ TableOK /\ RemoteOK /\ OnlyIssued /\ ServerKnows
      /\ LateStillQueued /\ LastCommitNewest /\ WaitsOK /\ PromisesOK
    BY DEF IInv, ServerOK
<1>2. UNCHANGED <<user, queue, next, callbacks, told, enabled, pipeline, stream,
                  handshake, greeting, wire, acks, final, reading, late, stray,
                  log, crossed, refused, dropped, issued, orphans, faults>>
    BY DEF RegisterPendingWritesCallback, store, connection, server
<1>3. /\ user \in User /\ queue[user] \in Seq(Batch) /\ Len(queue[user]) \in Nat
      /\ \A i \in 1..Len(queue[user]) : queue[user][i].id \in Nat
                                        /\ queue[user][i].write \in Write
    BY <1>1, TableTypes
<1> DEFINE q == queue[user]
           x == [id |-> q[Len(q)].id, for |-> Writes(q)]
<1>4. \/ released' = released \cup {{}} /\ waiters' = waiters
      \/ q # <<>> /\ waiters' = waiters \cup {x} /\ released' = released
    BY DEF RegisterPendingWritesCallback
<1>5. /\ released \in SUBSET SUBSET Write
      /\ waiters \in SUBSET [id : Nat, for : SUBSET Write]
    BY <1>1 DEF TypeOK
<1>6. q # <<>> => Len(q) \in 1..Len(q)
    BY <1>3, TailOf
<1>7. q # <<>> => x \in [id : Nat, for : SUBSET Write]
    BY <1>3, <1>6 DEF Writes
<1>8. x.id = q[Len(q)].id /\ x.for = Writes(q)
    OBVIOUS
<1> HIDE DEF x
<1>9. /\ released' \in SUBSET SUBSET Write
      /\ waiters' \in SUBSET [id : Nat, for : SUBSET Write]
    BY <1>4, <1>5, <1>7
<1>10. TypeOK'
    BY <1>1, <1>2, <1>9 DEF TypeOK
<1>11. Issued' = Issued /\ Pending' = Pending
    BY <1>2 DEF Issued, Pending, Elements, Writes
<1>12. WaitsKeyed'
    <2>1. ASSUME q # <<>>
          PROVE  /\ x.for \subseteq Issued
                 /\ \E i \in 1..Len(q) : q[i].id = x.id
                 /\ \A u \in User : \A i \in 1..Len(queue[u]) :
                        queue[u][i].write \in x.for =>
                            u = user /\ queue[u][i].id <= x.id
        <3>1. x.for \subseteq Issued
            BY <1>1, <1>3, <1>8, QueuedIssued DEF Writes, TableOK
        <3>2. \E i \in 1..Len(q) : q[i].id = x.id
            BY <1>6, <1>8, <2>1
        <3>3. ASSUME NEW u \in User, NEW i \in 1..Len(queue[u]),
                     queue[u][i].write \in x.for
              PROVE  u = user /\ queue[u][i].id <= x.id
            <4>1. PICK j \in 1..Len(q) : queue[u][i].write = q[j].write
                BY <1>8, <3>3 DEF Writes
            <4>2. u = user /\ i = j
                BY <1>1, <1>3, <4>1, QueuedOnce DEF TableOK
            <4>3. j = Len(q) \/ j < Len(q)
                BY <1>3
            <4>4. j < Len(q) => q[j].id < q[Len(q)].id
                BY <1>1, <1>3, <1>6, <2>1 DEF TableOK, IdsIncrease
            <4>5. q[j].id \in Nat /\ q[Len(q)].id \in Nat
                BY <1>3, <1>6, <2>1
            <4>6. q[j].id <= q[Len(q)].id
                BY <4>3, <4>4, <4>5
            <4> QED
                BY <1>8, <4>2, <4>6
        <3> QED
            BY <3>1, <3>2, <3>3
    <2>2. WaitsKeyed
        BY <1>1 DEF WaitsOK
    <2>3. \A r \in released' : r \subseteq Issued
        BY <1>4, <2>2 DEF WaitsKeyed
    <2>4. \A y \in waiters' : y \in waiters \/ (q # <<>> /\ y = x)
        BY <1>4
    <2>5. \A y \in waiters' :
              /\ y.for \subseteq Issued
              /\ \E i \in 1..Len(queue[user]) : queue[user][i].id = y.id
              /\ \A u \in User : \A i \in 1..Len(queue[u]) :
                     queue[u][i].write \in y.for => u = user /\ queue[u][i].id <= y.id
        BY <2>1, <2>2, <2>4 DEF WaitsKeyed
    <2> QED
        BY <1>2, <1>11, <2>3, <2>5 DEF WaitsKeyed
<1>13. WaitsTruthful'
    BY <1>1, <1>4, <1>11 DEF WaitsOK, WaitsTruthful
<1>14. TableOK'
    BY <1>1, <1>2, TableSame
<1>15. RemoteOK'
    BY <1>1, <1>2 DEF RemoteOK, PipelineIsPrefix, StreamServesPipeline,
                      WireMatchesPipeline
<1>16. OnlyIssued' /\ ServerKnows' /\ LateStillQueued' /\ LastCommitNewest'
    BY <1>1, <1>2, OnlySame, KnowsSame, LateSame, CommitSame
<1>17. PromisesOK'
    BY <1>1, <1>2, PromisesSame
<1> QED
    BY <1>10, <1>12, <1>13, <1>14, <1>15, <1>16, <1>17 DEF IInv, ServerOK, WaitsOK

---------------------------------------------------------------------------
(* Steps of the server.                                                    *)

LEMMA StepServerGreets ==
    ASSUME IInv, ServerGreets
    PROVE  IInv'
<1>1. Quiet
    BY DEF ServerGreets, Quiet, store, engine, server, IInv, TypeOK
<1>2. RemoteOK'
    BY RemoteServer DEF IInv
<1>3. Writes(late) \subseteq Issued /\ stray \subseteq Issued
      /\ \A x \in Issued : x \in Write
    BY PendingIssued DEF IInv, TableOK, ServerOK, LateStillQueued
<1>6. RemoteTypes'
    <2>1. stray' \in SUBSET Write
        BY <1>3 DEF ServerGreets
    <2> QED
        BY <2>1, EmptySeq, RemoteTyped DEF RemoteTypes, IInv, ServerGreets
<1>4. ServerKnows'
    BY KnowsSame DEF IInv, ServerOK, ServerGreets, server, store
<1>5. LateStillQueued'
    <2>1. late' = <<>> /\ Writes(late)' = {}
        BY DEF ServerGreets, Writes
    <2>2. stray' \subseteq Issued'
        BY <1>3 DEF ServerGreets, Issued, Elements
    <2> QED
        BY <2>1, <2>2 DEF LateStillQueued
<1> QED
    BY <1>1, <1>2, <1>4, <1>5, <1>6, QuietStep

LEMMA StepServerRefuses ==
    ASSUME IInv, ServerRefuses
    PROVE  IInv'
<1>1. wire \in Seq(Batch) /\ wire # <<>>
    BY RemoteTyped DEF RemoteTypes, IInv, ServerRefuses
<1>2. Head(wire).write \in Write
    BY <1>1, TailOf, BatchesOf
<1>3. Quiet
    BY <1>2 DEF ServerRefuses, Quiet, store, engine, IInv, TypeOK
<1>4. RemoteOK'
    BY RemoteServer DEF IInv
<1>5. RemoteTypes'
    BY RemoteTyped DEF RemoteTypes, IInv, ServerRefuses, Status
<1>6. ServerKnows'
    <2>1. /\ Writes(acks)' = Writes(acks) /\ Elements(log)' = Elements(log)
          /\ Head(wire').write \in refused'
          /\ UNCHANGED <<log, acks, crossed, user, issued>>
        BY DEF ServerRefuses, Writes, Elements, store
    <2> QED
        BY <2>1, KnownSame DEF ServerKnows, IInv, ServerOK
<1>7. LateStillQueued'
    BY LateSame DEF IInv, ServerOK, ServerRefuses, store
<1> QED
    BY <1>3, <1>4, <1>5, <1>6, <1>7, QuietStep

LEMMA StepServerAborts ==
    ASSUME IInv, NEW status \in Status, ServerAborts(status)
    PROVE  IInv'
<1>1. Quiet
    BY DEF ServerAborts, Quiet, store, engine, server, IInv, TypeOK
<1>2. RemoteOK'
    BY RemoteServer DEF IInv
<1>3. RemoteTypes'
    BY RemoteTyped DEF RemoteTypes, IInv, ServerAborts
<1>4. ServerKnows'
    <2>1. /\ Writes(acks)' = Writes(acks) /\ Elements(log)' = Elements(log)
          /\ UNCHANGED <<log, acks, handshake, crossed, user, issued>>
        BY DEF ServerAborts, Writes, Elements, server, store
    <2>2. ~(final' = "denied" /\ handshake')
        BY DEF ServerAborts, IInv, RemoteOK, WireMatchesPipeline
    <2> QED
        BY <2>1, <2>2, KnownSame DEF ServerKnows, IInv, ServerOK
<1>5. LateStillQueued'
    BY LateSame DEF IInv, ServerOK, ServerAborts, store
<1> QED
    BY <1>1, <1>2, <1>3, <1>4, <1>5, QuietStep

\* A write that is queued is committed.
LEMMA Committed ==
    ASSUME IInv, NEW w \in Pending, log' = Append(log, w), RemoteOK',
           RemoteTypes', ServerKnows', LateStillQueued',
           UNCHANGED <<user, queue, next, callbacks, waiters, told, released,
                       crossed, refused, dropped, issued, orphans, faults>>
    PROVE  IInv'
<1>1. /\ TypeOK /\ TableOK /\ OnlyIssued /\ LastCommitNewest /\ WaitsOK
      /\ PromisesOK /\ log \in Seq(Write) /\ Len(log) \in Nat
    BY LenProperties DEF IInv, ServerOK, TypeOK
<1>2. w \in Issued /\ w \in Write
    BY <1>1, PendingIssued DEF TableOK
<1>3. /\ log' \in Seq(Write) /\ Len(log') = Len(log) + 1
      /\ \A i \in 1..Len(log) : log'[i] = log[i]
      /\ log'[Len(log) + 1] = w
    BY <1>1, <1>2, AppendProperties
<1>4. Elements(log') = Elements(log) \cup {w}
    <2>1. 1..Len(log') = 1..Len(log) \cup {Len(log) + 1}
        BY <1>1, <1>3
    <2> QED
        BY <1>3, <2>1 DEF Elements
<1>5. TypeOK'
    BY <1>1, <1>3 DEF TypeOK, RemoteTypes
<1>6. OnlyIssued'
    <2>1. Issued' = Issued /\ Elements(log)' = Elements(log')
        BY DEF Issued, Elements
    <2> QED
        BY <1>1, <1>2, <1>4, <2>1 DEF OnlyIssued
<1>7. LastCommitNewest'
    BY <1>1, CommitAppends
<1>8. TableOK' /\ WaitsOK'
    BY <1>1, TableSame, WaitsSame
<1>9. PromisesOK'
    BY <1>1, <1>4, PromisesSame
<1> QED
    BY <1>5, <1>6, <1>7, <1>8, <1>9 DEF IInv, ServerOK

LEMMA StepServerCommits ==
    ASSUME IInv, ServerCommits
    PROVE  IInv'
<1>1. /\ wire \in Seq(Batch) /\ wire # <<>> /\ acks \in Seq(Batch)
      /\ TypeOK /\ RemoteOK /\ ServerKnows /\ LateStillQueued
      /\ log \in Seq(Write)
    BY RemoteTyped DEF RemoteTypes, IInv, ServerOK, ServerCommits, TypeOK
<1> DEFINE b == Head(wire)
<1>2. b \in Batch /\ b = wire[1] /\ Tail(wire) \in Seq(Batch) /\ Len(wire) >= 1
      /\ Len(wire) \in Nat
    BY <1>1, TailOf
<1>3. b.write \in Pending /\ b.write \in Write
    <2>1. b.write \in Writes(wire)
        <3>1. 1 \in 1..Len(wire)
            BY <1>2
        <3> QED
            BY <1>2, <3>1 DEF Writes
    <2> QED
        BY <1>1, <1>2, <2>1, PipelinePending DEF Batch
<1>4. /\ log' = Append(log, b.write) /\ wire' = Tail(wire) /\ acks' = Append(acks, b)
      /\ final = NoStatus
      /\ UNCHANGED <<user, queue, next, callbacks, waiters, told, released,
                     enabled, pipeline, stream, handshake, greeting, final,
                     reading, late, stray, crossed, refused, dropped, issued,
                     orphans, faults>>
    BY DEF ServerCommits, store, engine
<1> HIDE DEF b
<1>5. /\ acks' \in Seq(Batch) /\ Len(acks') = Len(acks) + 1 /\ Len(acks) \in Nat
      /\ \A i \in 1..Len(acks) : acks'[i] = acks[i]
      /\ acks'[Len(acks) + 1] = b
    BY <1>1, <1>2, <1>4, AppendProperties, LenProperties
<1>6. /\ log' \in Seq(Write) /\ Len(log') = Len(log) + 1 /\ Len(log) \in Nat
      /\ \A i \in 1..Len(log) : log'[i] = log[i]
      /\ log'[Len(log) + 1] = b.write /\ log' # <<>>
    <2> DEFINE x == b.write
    <2>1. x \in Write /\ log' = Append(log, x) /\ log \in Seq(Write)
        BY <1>1, <1>3, <1>4
    <2> HIDE DEF x
    <2>2. /\ log' \in Seq(Write) /\ log' # <<>> /\ Len(log') = Len(log) + 1
          /\ \A i \in 1..Len(log) : log'[i] = log[i]
          /\ log'[Len(log) + 1] = x
        BY <2>1, AppendProperties
    <2>3. Len(log) \in Nat
        BY <2>1, LenProperties
    <2> QED
        BY <2>2, <2>3 DEF x
<1>7. ServerKnows'
    <2>1. /\ \A x \in Elements(log) : x \in Elements(log')
          /\ b.write \in Elements(log')
        <3>1. 1..Len(log') = 1..Len(log) \cup {Len(log) + 1}
            BY <1>6
        <3> QED
            BY <1>6, <3>1 DEF Elements
    <2>2. \A x \in Writes(acks') : x \in Writes(acks) \/ x = b.write
        <3>1. 1..Len(acks') = 1..Len(acks) \cup {Len(acks) + 1}
            BY <1>5
        <3> QED
            BY <1>5, <3>1 DEF Writes
    <2>3. Writes(acks') \subseteq Elements(log')
        BY <1>1, <2>1, <2>2 DEF ServerKnows
    <2>4. Writes(acks)' = Writes(acks') /\ Elements(log)' = Elements(log')
        BY DEF Writes, Elements
    <2>5. LastCommitIs(user, acks[Len(acks)].write)'
        <3>1. log'[Len(log')] = acks'[Len(acks')].write
            BY <1>5, <1>6
        <3>2. Len(log') \in 1..Len(log') /\ \A j \in 1..Len(log') : ~(j > Len(log'))
            BY <1>6
        <3> QED
            BY <3>1, <3>2 DEF LastCommitIs
    <2> QED
        BY <1>4, <1>6, <2>3, <2>4, <2>5 DEF ServerKnows, NoStatus
<1>8. LateStillQueued'
    BY <1>1, <1>4, LateSame
<1>9. RemoteOK'
    BY <1>1, RemoteServer
<1>10. RemoteTypes'
    BY <1>1, <1>2, <1>4, <1>5, RemoteTyped DEF RemoteTypes
<1> QED
    BY <1>3, <1>4, <1>7, <1>8, <1>9, <1>10, Committed

LEMMA StepLateCommit ==
    ASSUME IInv, LateCommit
    PROVE  IInv'
<1>1. /\ late \in Seq(Batch) /\ late # <<>>
      /\ TypeOK /\ RemoteOK /\ ServerKnows /\ LateStillQueued
    BY RemoteTyped DEF RemoteTypes, IInv, ServerOK, LateCommit
<1>2. /\ Head(late) = late[1] /\ Tail(late) \in Seq(Batch) /\ Len(late) >= 1
      /\ Len(late) \in Nat /\ Len(Tail(late)) = Len(late) - 1
      /\ \A i \in 1..Len(late) - 1 : Tail(late)[i] = late[i + 1]
    BY <1>1, TailOf
<1>3. Head(late).write \in Pending
    <2>1. 1 \in 1..Len(late)
        BY <1>2
    <2>2. Head(late).write \in Writes(late)
        BY <1>2, <2>1 DEF Writes
    <2> QED
        BY <1>1, <2>2 DEF LateStillQueued
<1>4. /\ log' = Append(log, Head(late).write) /\ late' = Tail(late)
      /\ UNCHANGED <<user, queue, next, callbacks, waiters, told, released,
                     enabled, pipeline, stream, handshake, greeting, wire, acks,
                     final, reading, stray, crossed, refused, dropped, issued,
                     orphans, faults>>
    BY DEF LateCommit, store, engine
<1>5. ~handshake /\ acks = <<>> /\ greeting # "answered"
    BY <1>1 DEF LateStillQueued, RemoteOK, WireMatchesPipeline
<1>6. ServerKnows'
    <2>1. Writes(acks)' = {}
        BY <1>4, <1>5 DEF Writes
    <2> QED
        BY <1>4, <1>5, <2>1 DEF ServerKnows
<1>7. LateStillQueued'
    <2>1. Pending' = Pending /\ Issued' = Issued
        BY <1>4 DEF Pending, Writes, Issued, Elements
    <2>2. ASSUME NEW i \in 1..Len(Tail(late)) PROVE Tail(late)[i].write \in Writes(late)
        <3>1. i \in 1..Len(late) - 1 /\ i + 1 \in 1..Len(late)
            BY <1>2
        <3> QED
            BY <1>2, <3>1 DEF Writes
    <2>3. Writes(late)' \subseteq Writes(late)
        BY <1>4, <2>2 DEF Writes
    <2> QED
        BY <1>1, <1>4, <1>5, <2>1, <2>3 DEF LateStillQueued
<1>8. RemoteOK'
    BY <1>1, RemoteServer
<1>9. RemoteTypes'
    BY <1>1, <1>2, <1>4, RemoteTyped DEF RemoteTypes
<1> QED
    BY <1>3, <1>4, <1>6, <1>7, <1>8, <1>9, Committed

LEMMA StepStrayCommit ==
    ASSUME IInv, NEW w \in stray, StrayCommit(w)
    PROVE  IInv'
<1>1. /\ TypeOK /\ TableOK /\ RemoteOK /\ OnlyIssued /\ ServerKnows
      /\ LateStillQueued /\ LastCommitNewest /\ WaitsOK /\ PromisesOK
      /\ log \in Seq(Write) /\ Len(log) \in Nat
      /\ w \in Write /\ w \in Issued /\ crossed \in SUBSET Write
    BY LenProperties DEF IInv, ServerOK, TypeOK, LateStillQueued
<1>2. /\ log' = Append(log, w) /\ stray' = stray \ {w}
      /\ crossed' = crossed \cup {w}
      /\ UNCHANGED <<user, queue, next, callbacks, waiters, told, released,
                     enabled, pipeline, stream, handshake, greeting, wire, acks,
                     final, reading, late, refused, dropped, issued, orphans,
                     faults>>
    BY DEF StrayCommit, store, engine
<1>3. /\ log' \in Seq(Write) /\ Len(log') = Len(log) + 1
      /\ \A i \in 1..Len(log) : log'[i] = log[i]
      /\ log'[Len(log) + 1] = w
    BY <1>1, <1>2, AppendProperties
<1>4. Elements(log') = Elements(log) \cup {w} /\ Elements(log)' = Elements(log')
      /\ 1..Len(log') = 1..Len(log) \cup {Len(log) + 1}
    <2>1. 1..Len(log') = 1..Len(log) \cup {Len(log) + 1}
        BY <1>1, <1>3
    <2> QED
        BY <1>3, <2>1 DEF Elements
<1>5. Issued' = Issued /\ Pending' = Pending /\ Writes(acks)' = Writes(acks)
      /\ Writes(late)' = Writes(late)
      /\ Elements(issued[user])' = Elements(issued[user])
    BY <1>2 DEF Issued, Pending, Elements, Writes
<1>6. RemoteTypes'
    BY <1>1, <1>2, RemoteTyped DEF RemoteTypes
<1>7. TypeOK'
    BY <1>1, <1>2, <1>3, <1>6 DEF TypeOK, RemoteTypes
<1>8. TableOK' /\ WaitsOK'
    BY <1>1, <1>2, TableSame, WaitsSame
<1>9. RemoteOK'
    BY <1>1, <1>2 DEF RemoteOK, PipelineIsPrefix, StreamServesPipeline,
                      WireMatchesPipeline
<1>10. OnlyIssued' /\ LateStillQueued'
    BY <1>1, <1>2, <1>4, <1>5 DEF OnlyIssued, LateStillQueued
<1>11. LastCommitNewest'
    BY <1>1, <1>2, CommitStray
<1>12. PromisesOK'
    BY <1>1, <1>2, <1>4, PromisesSame
<1>13. ServerKnows'
    <2>1. Writes(acks)' \subseteq Elements(log)'
        BY <1>1, <1>4, <1>5 DEF ServerKnows
    <2>2. w \in Elements(issued[user]) \/ Crossed(user) => Crossed(user)'
        BY <1>2, <1>5 DEF Crossed
    <2>3. ASSUME NEW x, LastCommitIs(user, x), w \notin Elements(issued[user])
          PROVE  LastCommitIs(user, x)'
        <3>1. PICK i \in 1..Len(log) :
                  /\ log[i] = x
                  /\ \A j \in 1..Len(log) :
                         j > i => log[j] \notin Elements(issued[user])
            BY <2>3 DEF LastCommitIs
        <3>2. i \in 1..Len(log') /\ log'[i] = x
            BY <1>3, <1>4, <3>1
        <3>3. \A j \in 1..Len(log') :
                  j > i => log'[j] \notin Elements(issued[user])'
            BY <1>3, <1>4, <1>5, <2>3, <3>1
        <3> QED
            BY <3>2, <3>3 DEF LastCommitIs
    <2>4. acks' # <<>> =>
              Crossed(user)' \/ LastCommitIs(user, acks[Len(acks)].write)'
        BY <1>1, <1>2, <2>2, <2>3 DEF ServerKnows
    <2> QED
        BY <1>1, <1>2, <2>1, <2>4 DEF ServerKnows
<1> QED
    BY <1>7, <1>8, <1>9, <1>10, <1>11, <1>12, <1>13 DEF IInv, ServerOK

\* What a write that ends leaves: its row, its callback and its waits are gone,
\* and the app is told what the server did, if it still waits to be told.
EndsWith(answer) ==
    /\ Ends
    /\ told' = [w \in Write |->
                    IF First \in callbacks[user] /\ w = First.write
                    THEN answer ELSE told[w]]
    /\ waiters' = {x \in waiters : x.id # First.id}
    /\ released' = released \cup
                       {x.for : x \in {y \in waiters : y.id = First.id}}
    /\ UNCHANGED <<log, crossed, refused>>
    /\ dropped \subseteq dropped' /\ dropped' \in SUBSET Write
    /\ faults' \in Nat

\* Why the write that ends may end.
Justified(answer) ==
    /\ First.write \in Elements(log) \cup refused
    /\ answer = "ok" => First.write \in Elements(log)
    /\ answer = "error" => First.write \in refused \cup dropped'
    /\ First.write \in refused \/ Crossed(user) \/ LastQueued

LEMMA WriteEnds ==
    ASSUME IInv, NEW answer \in {"ok", "error"}, EndsWith(answer),
           Justified(answer), RemoteOK', RemoteTypes', ServerKnows',
           LateStillQueued'
    PROVE  IInv'
<1>1. /\ TypeOK /\ TableOK /\ OnlyIssued /\ LastCommitNewest /\ WaitsOK
      /\ PromisesOK
    BY DEF IInv, ServerOK
<1>2. /\ Ends /\ UNCHANGED <<log, crossed, refused, user, next, issued, orphans>>
      /\ told' = [w \in Write |->
                      IF First \in callbacks[user] /\ w = First.write
                      THEN answer ELSE told[w]]
      /\ waiters' = {x \in waiters : x.id # First.id}
      /\ released' = released \cup
                         {x.for : x \in {y \in waiters : y.id = First.id}}
      /\ dropped \subseteq dropped' /\ dropped' \in SUBSET Write
      /\ faults' \in Nat
    BY DEF EndsWith, Ends
<1>3. TableOK'
    BY <1>1, <1>2, EndsKeep
<1>4. /\ queue' \in [User -> Seq(Batch)] /\ callbacks' \in [User -> SUBSET Batch]
      /\ user \in User /\ 1 \in 1..Len(queue[user]) /\ First.write \in Write
    BY <1>1, <1>2, EndsLists, TableTypes
<1>5. TypeOK'
    <2>1. /\ user' \in User /\ next' \in Nat \ {0}
          /\ issued' \in [User -> Seq(Write)] /\ log' \in Seq(Write)
          /\ crossed' \in SUBSET Write
          /\ refused' \in SUBSET Write /\ orphans' \in SUBSET Write
        BY <1>1, <1>2 DEF TypeOK
    <2>2. waiters' \in SUBSET [id : Nat, for : SUBSET Write]
        BY <1>1, <1>2 DEF TypeOK
    <2>3. released' \in SUBSET SUBSET Write
        <3>1. \A x \in waiters : x.for \in SUBSET Write
            BY <1>1 DEF TypeOK
        <3>2. released \in SUBSET SUBSET Write
            BY <1>1 DEF TypeOK
        <3> QED
            BY <1>2, <3>1, <3>2
    <2>4. told' \in [Write -> {"none", "ok", "error"}]
        BY <1>1, <1>2 DEF TypeOK
    <2> QED
        BY <1>2, <1>4, <2>1, <2>2, <2>3, <2>4 DEF TypeOK, RemoteTypes
<1>6. /\ Issued' = Issued /\ Elements(log)' = Elements(log)
      /\ \A x : x \in Pending' <=> x \in Pending /\ x # First.write
    BY <1>1, <1>2, EndsSets DEF Elements
<1>7. First.write \in Issued /\ First \in Elements(queue[user])
    <2>1. First = queue[user][1]
        BY DEF First
    <2> QED
        BY <1>1, <1>4, <2>1, QueuedIssued DEF TableOK, Elements
<1>8. \A w \in Issued : w \in Write
    BY <1>1, PendingIssued DEF TableOK
<1>9. OnlyIssued'
    BY <1>1, <1>2, <1>6, <1>7 DEF OnlyIssued
<1>10. LastCommitNewest'
    BY <1>1, <1>2, CommitEnds DEF Justified
<1>11. WaitsOK'
    BY <1>1, <1>2, WaitsEnds
<1>12. NoWriteLost'
    BY <1>1, <1>2, <1>6 DEF PromisesOK, NoWriteLost, Justified
<1>13. AnswersTrue'
    <2>1. SUFFICES ASSUME NEW w \in Issued
                   PROVE  \/ told'[w] = "ok" /\ w \in Elements(log)
                          \/ told'[w] = "error" /\ w \in refused \cup dropped'
                          \/ told'[w] = "none" /\ w \in Pending' \cup orphans
        BY <1>2, <1>6 DEF AnswersTrue
    <2>2. \/ told[w] = "ok" /\ w \in Elements(log)
          \/ told[w] = "error" /\ w \in refused \cup dropped
          \/ told[w] = "none" /\ w \in Pending \cup orphans
        BY <1>1 DEF PromisesOK, AnswersTrue
    <2>3. CASE w # First.write
        <3>1. told'[w] = told[w] /\ (w \in Pending => w \in Pending')
            BY <1>2, <1>6, <1>8, <2>3
        <3> QED
            BY <1>2, <2>2, <3>1
    <2>4. CASE w = First.write /\ First \in callbacks[user]
        <3>1. told'[w] = answer
            BY <1>2, <1>8, <2>4
        <3> QED
            BY <2>4, <3>1 DEF Justified
    <2>5. CASE w = First.write /\ First \notin callbacks[user]
        <3>1. told'[w] = told[w]
            BY <1>2, <1>8, <2>5
        <3>2. w \in orphans
            BY <1>1, <1>4, <1>7, <2>5 DEF TableOK, CallbacksKept
        <3> QED
            BY <1>2, <2>2, <3>1, <3>2
    <2> QED
        BY <2>3, <2>4, <2>5
<1> QED
    BY <1>3, <1>5, <1>9, <1>10, <1>11, <1>12, <1>13 DEF IInv, ServerOK, PromisesOK

\* The responses that are on their way are about the first writes of the queue.
LEMMA AcksFirst ==
    ASSUME IInv, acks # <<>>
    PROVE  /\ handshake /\ pipeline # <<>> /\ Head(acks) = First
           /\ pipeline = acks \o wire /\ Tail(pipeline) = Tail(acks) \o wire
           /\ First.write \in Elements(log)
           /\ Crossed(user) \/ LastQueued
<1>1. TypeOK /\ RemoteOK /\ ServerKnows /\ acks \in Seq(Batch) /\ wire \in Seq(Batch)
      /\ pipeline \in Seq(Batch)
    BY RemoteTyped DEF IInv, ServerOK, RemoteTypes
<1>2. handshake /\ pipeline = acks \o wire
    BY <1>1 DEF RemoteOK, WireMatchesPipeline
<1>3. pipeline # <<>> /\ Head(pipeline) = Head(acks) /\ Tail(pipeline) = Tail(acks) \o wire
    BY <1>1, <1>2, ConcatNotEmpty
<1>4. Head(pipeline) = First
    BY <1>1, <1>3, PipelineFirst
<1>5. /\ Len(acks) \in Nat /\ Len(acks) >= 1 /\ Head(acks) = acks[1]
      /\ Len(wire) \in Nat /\ Len(pipeline) = Len(acks) + Len(wire)
    BY <1>1, <1>2, TailOf, LenProperties, ConcatProperties
<1>6. First.write \in Elements(log)
    <2>1. 1 \in 1..Len(acks)
        BY <1>5
    <2>2. acks[1].write \in Writes(acks)
        BY <2>1 DEF Writes
    <2> QED
        BY <1>1, <1>3, <1>4, <1>5, <2>2 DEF ServerKnows
<1>7. Len(acks) \in 1..Len(queue[user]) /\ acks[Len(acks)] = queue[user][Len(acks)]
    <2>1. Begins(pipeline, queue[user]) /\ Len(queue[user]) \in Nat
        BY <1>1, RemoteFacts, TableTypes
    <2>2. Len(acks) \in 1..Len(acks) + Len(wire) /\ Len(acks) \in 1..Len(pipeline)
          /\ Len(acks) \in 1..Len(queue[user])
        BY <1>5, <2>1 DEF Begins
    <2>3. pipeline[Len(acks)] = acks[Len(acks)]
        <3>1. \A i \in 1 .. Len(acks) + Len(wire) : (acks \o wire)[i] =
                    IF i <= Len(acks) THEN acks[i] ELSE wire[i - Len(acks)]
            BY <1>1, ConcatProperties
        <3> QED
            BY <1>2, <1>5, <2>2, <3>1
    <2> QED
        BY <2>1, <2>2, <2>3 DEF Begins
<1> QED
    BY <1>1, <1>2, <1>3, <1>4, <1>6, <1>7 DEF ServerKnows, LastQueued

\* What is left of the responses after the first one is read.
LEMMA AcksLeft ==
    ASSUME IInv, acks # <<>>, acks' = Tail(acks), log' = log
    PROVE  /\ Writes(acks)' \subseteq Elements(log)
           /\ acks' # <<>> =>
                  Crossed(user) \/ LastCommitIs(user, acks'[Len(acks')].write)
<1>1. /\ Len(acks) \in Nat /\ Len(acks) >= 1 /\ Len(acks') = Len(acks) - 1
      /\ acks' \in Seq(Batch)
      /\ \A i \in 1..Len(acks) - 1 : acks'[i] = acks[i + 1]
    BY RemoteTyped, TailOf DEF IInv, RemoteTypes
<1>2. /\ Writes(acks) \subseteq Elements(log)
      /\ Crossed(user) \/ LastCommitIs(user, acks[Len(acks)].write)
    BY DEF IInv, ServerOK, ServerKnows
<1>3. ASSUME NEW i \in 1..Len(acks') PROVE acks'[i].write \in Elements(log)
    <2>1. i \in 1..Len(acks) - 1 /\ i + 1 \in 1..Len(acks)
        BY <1>1
    <2>2. acks[i + 1].write \in Writes(acks)
        BY <2>1 DEF Writes
    <2> QED
        BY <1>1, <1>2, <2>1, <2>2
<1>4. Writes(acks)' \subseteq Elements(log)
    BY <1>3 DEF Writes
<1>5. ASSUME acks' # <<>> PROVE acks'[Len(acks')] = acks[Len(acks)]
    <2>1. Len(acks') # 0 /\ Len(acks') \in Nat
        BY <1>1, <1>5, EmptySeq
    <2>2. Len(acks') \in 1..Len(acks) - 1 /\ Len(acks') + 1 = Len(acks)
        BY <1>1, <2>1
    <2> QED
        BY <1>1, <2>2
<1> QED
    BY <1>2, <1>4, <1>5

LEMMA StepMutationResult ==
    ASSUME IInv, MutationResult
    PROVE  IInv'
<1>1. /\ TypeOK /\ TableOK /\ RemoteOK /\ ServerKnows /\ LateStillQueued
      /\ acks # <<>> /\ dropped \in SUBSET Write /\ faults \in Nat
    BY DEF IInv, ServerOK, MutationResult, TypeOK
<1>2. /\ handshake /\ pipeline # <<>> /\ Head(acks) = First
      /\ pipeline = acks \o wire /\ Tail(pipeline) = Tail(acks) \o wire
      /\ First.write \in Elements(log)
      /\ Crossed(user) \/ LastQueued
    BY <1>1, AcksFirst
<1>3. /\ queue[user] # <<>> /\ Head(pipeline) = First
      /\ Begins(Tail(pipeline), Tail(queue[user]))
      /\ Tail(pipeline) \in Seq(Batch) /\ Tail(queue[user]) \in Seq(Batch)
      /\ Len(Tail(pipeline)) <= MaxPending
    BY <1>1, <1>2, PipelineFirst
<1>4. /\ EndWrite(First.id, "ok")
      /\ FillWritePipeline(enabled, Tail(pipeline), queue'[user], stream,
                           handshake, wire)
      /\ acks' = Tail(acks) /\ reading' = (final # NoStatus)
      /\ UNCHANGED <<enabled, handshake, greeting, final, late, stray, log,
                     crossed, refused, dropped, issued, orphans, faults>>
    BY <1>3 DEF MutationResult, server
<1>5. EndsWith("ok")
    BY <1>1, <1>3, <1>4, EndWriteEnds DEF EndsWith
<1>6. Justified("ok")
    BY <1>2 DEF Justified
<1>7. /\ Ends /\ queue'[user] = Tail(queue[user]) /\ user' = user
      /\ user \in User /\ TableOK'
      /\ queue' \in [User -> Seq(Batch)]
    BY <1>1, <1>5, EndsLists, EndsKeep, TableTypes DEF EndsWith, Ends
<1>8. /\ RemoteOK' /\ pipeline' \in Seq(Batch) /\ stream' \in StreamType
      /\ wire' \in Seq(Batch)
      /\ \E more \in Seq(Batch) :
             wire' = IF handshake THEN wire \o more ELSE wire
    <2> DEFINE q == queue'[user]
               p == Tail(pipeline)
               a == Tail(acks)
    <2>1. /\ enabled \in BOOLEAN /\ acks \in Seq(Batch) /\ a \in Seq(Batch)
          /\ q \in Seq(Batch) /\ p \in Seq(Batch)
        BY <1>1, <1>3, <1>7, RemoteTyped, TailOf DEF RemoteTypes
    <2>2. /\ enabled \/ pipeline = <<>>
          /\ stream.idle => pipeline = <<>>
        BY <1>1, RemoteFacts
    <2>3. enabled \/ p = <<>>
        BY <1>2, <2>2
    <2>4. stream.idle => p = <<>>
        BY <1>2, <2>2
    <2>5. Begins(p, q) /\ Len(p) <= MaxPending
        BY <1>3, <1>7
    <2>6. Increasing(q)
        BY <1>7 DEF TableOK, IdsIncrease, Increasing
    <2>7. /\ handshake => p = a \o wire
          /\ ~handshake => p = pipeline /\ a = <<>>
        BY <1>2
    <2>8. q = queue'[user'] /\ acks' = a /\ enabled' = enabled
          /\ UNCHANGED <<handshake, greeting, final>>
        BY <1>4, <1>7
    <2>9. FillWritePipeline(enabled, p, q, stream, handshake, wire)
        BY <1>4
    <2> HIDE DEF q, p, a
    <2> QED
        BY <1>1, <2>1, <2>3, <2>4, <2>5, <2>6, <2>7, <2>8, <2>9, RemoteFilled
<1>9. RemoteTypes'
    <2>1. acks' \in Seq(Batch)
        BY <1>1, <1>4, RemoteTyped, TailOf DEF RemoteTypes
    <2>2. /\ enabled' \in BOOLEAN /\ handshake' \in BOOLEAN
          /\ greeting' \in {"none", "sent", "answered"} /\ late' \in Seq(Batch)
          /\ stray' \in SUBSET Write
          /\ final' \in Status \cup {NoStatus}
        BY <1>1, <1>4, RemoteTyped DEF RemoteTypes
    <2>3. reading' \in BOOLEAN
        BY <1>4
    <2> QED
        BY <1>8, <2>1, <2>2, <2>3 DEF RemoteTypes
<1>10. ServerKnows'
    <2>1. /\ Writes(acks)' \subseteq Elements(log)
          /\ acks' # <<>> =>
                 Crossed(user) \/ LastCommitIs(user, acks'[Len(acks')].write)
        BY <1>1, <1>4, AcksLeft
    <2>2. final' = "denied" /\ handshake' => Head(wire').write \in refused'
        BY <1>1, <1>4, <1>8, WireHead
    <2>3. Elements(log)' = Elements(log)
        BY <1>4 DEF Elements
    <2>4. UNCHANGED <<log, crossed, user, issued>>
        BY <1>4, <1>7
    <2> QED
        BY <1>4, <2>1, <2>2, <2>3, <2>4, KnownSame DEF ServerKnows
<1>11. LateStillQueued'
    <2>1. late' = <<>>
        BY <1>1, <1>2, <1>4 DEF LateStillQueued
    <2>2. Writes(late)' = {}
        BY <2>1 DEF Writes
    <2>3. stray' \subseteq Issued'
        BY <1>1, <1>4 DEF LateStillQueued, Issued, Elements
    <2> QED
        BY <2>1, <2>2, <2>3 DEF LateStillQueued
<1> QED
    BY <1>5, <1>6, <1>8, <1>9, <1>10, <1>11, WriteEnds

---------------------------------------------------------------------------
(* The stream closes with an error.                                        *)

\* The server has refused the first write it was sent.
LEMMA ClosesRejecting ==
    ASSUME IInv, pipeline # <<>>, handshake, final # NoStatus,
           EndWrite(Head(pipeline).id, "error"),
           FillWritePipeline(enabled, Tail(pipeline), queue'[user],
               InhibitBackoff(Fail(stream)), handshake, <<>>),
           Disconnected, Justified("error"),
           dropped \subseteq dropped', dropped' \in SUBSET Write,
           UNCHANGED <<enabled, log, crossed, refused, issued, orphans, faults>>
    PROVE  IInv'
<1>1. /\ TypeOK /\ TableOK /\ RemoteOK /\ ServerKnows /\ LateStillQueued
      /\ faults \in Nat /\ handshake \in BOOLEAN /\ enabled \in BOOLEAN
    BY DEF IInv, ServerOK, TypeOK
<1>2. /\ queue[user] # <<>> /\ Head(pipeline) = First
      /\ Begins(Tail(pipeline), Tail(queue[user]))
      /\ Tail(pipeline) \in Seq(Batch) /\ Tail(queue[user]) \in Seq(Batch)
      /\ Len(Tail(pipeline)) <= MaxPending
    BY <1>1, PipelineFirst
<1>3. EndWrite(First.id, "error")
    BY <1>2
<1>4. EndsWith("error")
    BY <1>1, <1>2, <1>3, EndWriteEnds DEF EndsWith
<1>5. /\ Ends /\ queue'[user] = Tail(queue[user]) /\ user' = user
      /\ user \in User /\ TableOK'
      /\ queue' \in [User -> Seq(Batch)]
    BY <1>1, <1>4, EndsLists, EndsKeep, TableTypes DEF EndsWith, Ends
<1>6. /\ RemoteOK' /\ pipeline' \in Seq(Batch) /\ stream' \in StreamType
      /\ wire' = <<>>
    <2> DEFINE q == queue'[user]
               p == Tail(pipeline)
               s == InhibitBackoff(Fail(stream))
    <2>1. q \in Seq(Batch) /\ p \in Seq(Batch) /\ Begins(p, q) /\ Len(p) <= MaxPending
        BY <1>2, <1>5
    <2>2. Increasing(q)
        BY <1>5 DEF TableOK, IdsIncrease, Increasing
    <2>3. StreamGood(s) /\ s.state = "Initial" /\ ~s.idle
        <3>1. stream \in StreamType /\ stream.asked \subseteq 0..stream.closes
            BY <1>1, RemoteFacts DEF StreamGood
        <3> QED
            BY <3>1, FailGood
    <2>4. ~IsStarted(s)
        BY <2>3 DEF IsStarted
    <2>5. enabled
        BY <1>1, RemoteFacts
    <2>6. q = queue'[user'] /\ FillWritePipeline(enabled, p, q, s, handshake, <<>>)
        BY <1>5
    <2> HIDE DEF q, p, s
    <2> QED
        BY <1>1, <2>1, <2>2, <2>3, <2>4, <2>5, <2>6, RemoteRefilled
<1>7. RemoteTypes'
    <2>1. wire' \in Seq(Batch)
        BY <1>6, EmptySeq
    <2> QED
        BY <1>1, <1>6, <2>1, DisconnectedTypes DEF RemoteTypes
<1>8. ServerKnows'
    <2>1. acks' = <<>> /\ final' = NoStatus
        BY DEF Disconnected
    <2>2. Writes(acks)' = {}
        BY <2>1 DEF Writes
    <2> QED
        BY <2>1, <2>2 DEF ServerKnows, NoStatus
<1>9. LateStillQueued'
    <2>1. late' = <<>>
        BY <1>1 DEF LateStillQueued, Disconnected
    <2>2. Writes(late)' = {}
        BY <2>1 DEF Writes
    <2>3. stray' \subseteq Issued'
        BY <1>1 DEF Disconnected, LateStillQueued, Issued, Elements
    <2> QED
        BY <2>1, <2>2, <2>3 DEF LateStillQueued
<1> QED
    BY <1>4, <1>6, <1>7, <1>8, <1>9, WriteEnds

\* Any other error: everything is sent again.
LEMMA ClosesRetrying ==
    ASSUME IInv, Quiet, Disconnected, wire' = <<>>,
           stream' = Needed(enabled, pipeline, Fail(stream)),
           UNCHANGED <<enabled, pipeline>>
    PROVE  IInv'
<1>1. /\ stream \in StreamType /\ stream.asked \subseteq 0..stream.closes
      /\ enabled \in BOOLEAN /\ pipeline \in Seq(Batch)
    BY RemoteFacts, RemoteTyped DEF IInv, StreamGood, RemoteTypes
<1>2. UNCHANGED <<enabled, user, queue, pipeline>>
    BY DEF Quiet
<1>3. RemoteOK' /\ stream' \in StreamType
    BY <1>1, <1>2, RemoteFails DEF IInv
<1> QED
    BY <1>1, <1>3, QuietClosed

\* Whether a close rejects the first write.
Rejects(status) ==
    pipeline # <<>> /\ handshake /\ IsPermanentWriteError(status)

LEMMA RejectsDenied ==
    ASSUME NEW status, Rejects(status)
    PROVE  status = "denied"
BY DEF Rejects, IsPermanentWriteError, IsPermanentError

LEMMA CloseCases ==
    ASSUME NEW status, OnWriteStreamClose(status)
    PROVE  /\ Disconnected
           /\ Rejects(status) =>
                  /\ EndWrite(Head(pipeline).id, "error")
                  /\ FillWritePipeline(enabled, Tail(pipeline), queue'[user],
                         InhibitBackoff(Fail(stream)), handshake, <<>>)
           /\ ~Rejects(status) =>
                  /\ stream' = Needed(enabled, pipeline, Fail(stream))
                  /\ wire' = <<>>
                  /\ UNCHANGED <<user, queue, next, callbacks, waiters, told,
                                 released, pipeline>>
BY DEF OnWriteStreamClose, Rejects, store, engine

LEMMA StepStreamFinish ==
    ASSUME IInv, StreamFinish
    PROVE  IInv'
<1>1. /\ OnWriteStreamClose(final) /\ final # NoStatus /\ acks = <<>>
      /\ UNCHANGED <<enabled, log, crossed, refused, dropped, issued, orphans, faults>>
      /\ refused \in SUBSET Write /\ dropped \in SUBSET Write /\ faults \in Nat
    BY DEF StreamFinish, server, IInv, TypeOK
<1>2. CASE Rejects(final)
    <2>1. final = "denied" /\ handshake /\ pipeline # <<>>
        BY <1>2, RejectsDenied DEF Rejects
    <2>2. pipeline = wire /\ wire # <<>>
        <3>1. pipeline = acks \o wire /\ wire \in Seq(Batch)
            BY <2>1, RemoteTyped DEF IInv, RemoteTypes, RemoteOK, WireMatchesPipeline
        <3> QED
            BY <1>1, <2>1, <3>1, ConcatEmptySeq
    <2>3. First.write \in refused
        <3>1. Head(pipeline) = First
            BY <2>1, PipelineFirst DEF IInv
        <3> QED
            BY <2>1, <2>2, <3>1 DEF IInv, ServerOK, ServerKnows
    <2>4. Justified("error")
        BY <2>3 DEF Justified
    <2>5. /\ Disconnected
          /\ EndWrite(Head(pipeline).id, "error")
          /\ FillWritePipeline(enabled, Tail(pipeline), queue'[user],
                 InhibitBackoff(Fail(stream)), handshake, <<>>)
        BY <1>1, <1>2, CloseCases
    <2>6. dropped \subseteq dropped' /\ dropped' \in SUBSET Write
        BY <1>1
    <2> QED
        BY <1>1, <2>1, <2>4, <2>5, <2>6, ClosesRejecting
<1>3. CASE ~Rejects(final)
    <2>1. /\ Disconnected /\ wire' = <<>>
          /\ stream' = Needed(enabled, pipeline, Fail(stream))
          /\ UNCHANGED <<user, queue, next, callbacks, waiters, told,
                         released, pipeline>>
        BY <1>1, <1>3, CloseCases
    <2>2. Quiet
        BY <1>1, <2>1 DEF Quiet
    <2> QED
        BY <1>1, <2>1, <2>2, ClosesRetrying
<1> QED
    BY <1>2, <1>3

LEMMA StepWriteFailsFirst ==
    ASSUME IInv, WriteFailsFirst
    PROVE  IInv'
<1>1. /\ OnWriteStreamClose(final) /\ final # NoStatus /\ acks # <<>>
      /\ dropped' = dropped \cup Writes(acks)
      /\ UNCHANGED <<enabled, log, crossed, refused, issued, orphans, faults>>
      /\ refused \in SUBSET Write /\ dropped \in SUBSET Write /\ faults \in Nat
      /\ acks \in Seq(Batch)
    BY DEF WriteFailsFirst, server, IInv, TypeOK
<1>2. dropped \subseteq dropped' /\ dropped' \in SUBSET Write
    <2>1. \A i \in 1..Len(acks) : acks[i].write \in Write
        BY <1>1, BatchesOf
    <2> QED
        BY <1>1, <2>1 DEF Writes
<1>3. /\ handshake /\ pipeline # <<>> /\ Head(acks) = First
      /\ First.write \in Elements(log)
      /\ Crossed(user) \/ LastQueued
    BY <1>1, AcksFirst
<1>4. First.write \in dropped'
    <2>1. 1 \in 1..Len(acks) /\ Head(acks) = acks[1]
        BY <1>1, TailOf
    <2> QED
        BY <1>1, <1>3, <2>1 DEF Writes
<1>5. CASE Rejects(final)
    <2>1. Justified("error")
        BY <1>3, <1>4 DEF Justified
    <2>2. /\ Disconnected
          /\ EndWrite(Head(pipeline).id, "error")
          /\ FillWritePipeline(enabled, Tail(pipeline), queue'[user],
                 InhibitBackoff(Fail(stream)), handshake, <<>>)
        BY <1>1, <1>5, CloseCases
    <2> QED
        BY <1>1, <1>2, <1>3, <2>1, <2>2, ClosesRejecting
<1>6. CASE ~Rejects(final)
    <2>1. /\ Disconnected /\ wire' = <<>>
          /\ stream' = Needed(enabled, pipeline, Fail(stream))
          /\ UNCHANGED <<user, queue, next, callbacks, waiters, told,
                         released, pipeline>>
        BY <1>1, <1>6, CloseCases
    <2>2. Quiet
        BY <1>1, <1>2, <2>1 DEF Quiet
    <2> QED
        BY <1>1, <2>1, <2>2, ClosesRetrying
<1> QED
    BY <1>5, <1>6

LEMMA StepConnectionLost ==
    ASSUME IInv, ConnectionLost
    PROVE  IInv'
<1>1. /\ OnWriteStreamClose("unavailable") /\ faults' = faults + 1
      /\ UNCHANGED <<enabled, log, crossed, refused, dropped, issued, orphans>>
      /\ refused \in SUBSET Write /\ dropped \in SUBSET Write /\ faults \in Nat
    BY DEF ConnectionLost, server, IInv, TypeOK
<1>2. ~Rejects("unavailable")
    BY RejectsDenied
<1>3. /\ Disconnected /\ wire' = <<>>
      /\ stream' = Needed(enabled, pipeline, Fail(stream))
      /\ UNCHANGED <<user, queue, next, callbacks, waiters, told,
                     released, pipeline>>
    BY <1>1, <1>2, CloseCases
<1>4. Quiet
    BY <1>1, <1>3 DEF Quiet
<1> QED
    BY <1>1, <1>3, <1>4, ClosesRetrying

---------------------------------------------------------------------------
(* Another user, and another process.                                      *)

\* The table is read again: its ids are smaller than the next one.
LEMMA TableReread ==
    ASSUME IInv, next' = LoadNextBatchId(queue), UNCHANGED <<queue, issued>>,
           \/ UNCHANGED <<callbacks, orphans>>
           \/ /\ callbacks' = [u \in User |-> {}]
              /\ orphans' = orphans \cup Pending
    PROVE  TableOK' /\ next' \in Nat \ {0}
<1>1. TypeOK /\ IdsIncrease /\ QueuesHoldIssued /\ CallbacksKept
    BY DEF IInv, TableOK
<1>2. /\ next' \in Nat \ {0}
      /\ \A u \in User : \A i \in 1..Len(queue[u]) : queue[u][i].id < next'
    BY <1>1, NextIdFresh
<1>3. IdsIncrease'
    BY <1>1, <1>2 DEF IdsIncrease
<1>4. QueuesHoldIssued'
    <2>1. queue' = queue /\ issued' = issued
          /\ \A u \in User : callbacks'[u] \subseteq callbacks[u]
        OBVIOUS
    <2>2. \A u \in User : Gone(u)' = Gone(u)
        BY DEF Gone
    <2>3. /\ \A u \in User :
                 /\ Len(queue'[u]) <= Len(issued'[u])
                 /\ \A i \in 1..Len(queue'[u]) :
                        queue'[u][i].write = issued'[u][Gone(u)' + i]
                 /\ \A i, j \in 1..Len(issued'[u]) :
                        issued'[u][i] = issued'[u][j] => i = j
                 /\ callbacks'[u] \subseteq Elements(queue'[u])
          /\ \A u, v \in User :
                 u # v => Elements(issued'[u]) \cap Elements(issued'[v]) = {}
        BY <1>1, <2>1, <2>2 DEF QueuesHoldIssued
    <2> QED
        BY <2>3 DEF QueuesHoldIssued, Elements
<1>5. CallbacksKept'
    <2>1. CASE UNCHANGED <<callbacks, orphans>>
        BY <1>1, <2>1 DEF CallbacksKept, Elements
    <2>2. CASE orphans' = orphans \cup Pending
        <3>1. ASSUME NEW u \in User, NEW b \in Elements(queue[u])
              PROVE  b.write \in Pending
            <4>1. PICK i \in 1..Len(queue[u]) : b = queue[u][i]
                BY DEF Elements
            <4> QED
                BY <4>1, PendingIs
        <3>2. \A u \in User : Elements(queue[u])' = Elements(queue[u])
            BY DEF Elements
        <3> QED
            BY <2>2, <3>1, <3>2 DEF CallbacksKept
    <2> QED
        BY <2>1, <2>2
<1> QED
    BY <1>2, <1>3, <1>4, <1>5 DEF TableOK

\* The rest of the invariant, when the table was read again.
LEMMA Reread ==
    ASSUME IInv, TableOK', next' \in Nat \ {0}, user' \in User,
           callbacks' \in [User -> SUBSET Batch], waiters' = {},
           orphans \subseteq orphans', orphans' \in SUBSET Write,
           faults' \in Nat, RemoteOK', RemoteTypes', ServerKnows',
           LateStillQueued',
           UNCHANGED <<queue, told, released, log, crossed, refused,
                       dropped, issued>>
    PROVE  IInv'
<1>1. TypeOK /\ OnlyIssued /\ LastCommitNewest /\ WaitsOK /\ PromisesOK
    BY DEF IInv, ServerOK
<1>2. TypeOK'
    <2>1. waiters' \in SUBSET [id : Nat, for : SUBSET Write]
        OBVIOUS
    <2>2. /\ queue' \in [User -> Seq(Batch)] /\ log' \in Seq(Write)
          /\ refused' \in SUBSET Write /\ dropped' \in SUBSET Write
          /\ crossed' \in SUBSET Write
          /\ issued' \in [User -> Seq(Write)]
          /\ told' \in [Write -> {"none", "ok", "error"}]
          /\ released' \in SUBSET SUBSET Write
        BY <1>1 DEF TypeOK
    <2> QED
        BY <2>1, <2>2 DEF TypeOK, RemoteTypes
<1>3. OnlyIssued'
    BY <1>1, OnlySame
<1>4. LastCommitNewest'
    BY <1>1, CommitSame
<1>5. WaitsOK'
    BY <1>1, WaitsSame
<1>6. PromisesOK'
    BY <1>1, PromisesSame
<1> QED
    BY <1>2, <1>3, <1>4, <1>5, <1>6 DEF IInv, ServerOK

LEMMA StepHandleCredentialChange ==
    ASSUME IInv, NEW u \in User, HandleCredentialChange(u)
    PROVE  IInv'
<1>1. /\ user' = u /\ next' = LoadNextBatchId(queue) /\ waiters' = {}
      /\ faults' = faults + 1
      /\ UNCHANGED <<queue, callbacks, told, released, enabled, log, crossed, refused,
                     dropped, issued, orphans>>
      /\ TypeOK /\ RemoteOK /\ ServerKnows /\ LateStillQueued /\ ServerOK
      /\ faults \in Nat
    BY DEF HandleCredentialChange, server, IInv, ServerOK, TypeOK
<1>2. TableOK' /\ next' \in Nat \ {0}
    BY <1>1, TableReread
<1>3. /\ callbacks' \in [User -> SUBSET Batch] /\ orphans \subseteq orphans'
      /\ orphans' \in SUBSET Write /\ faults' \in Nat
    BY <1>1 DEF TypeOK
<1>4. RemoteOK' /\ RemoteTypes' /\ ServerKnows' /\ LateStillQueued'
    <2>1. CASE enabled
        <3>1. RestartNetwork(queue[u])
            BY <2>1 DEF HandleCredentialChange
        <3>2. /\ RemoteOK' /\ Disconnected /\ wire' = <<>>
              /\ pipeline' \in Seq(Batch) /\ stream' \in StreamType
              /\ enabled' \in BOOLEAN
            BY <1>1, <2>1, <3>1, RemoteRestarts
        <3>3. wire' \in Seq(Batch)
            BY <3>2, EmptySeq
        <3>4. RemoteTypes'
            BY <1>1, <3>2, <3>3, DisconnectedTypes DEF RemoteTypes
        <3> QED
            BY <1>1, <3>2, <3>4, ClosedServer
    <2>2. CASE ~enabled
        <3>1. UNCHANGED <<pipeline, wire, stream, handshake, greeting, acks,
                          final, reading, late, stray>>
            BY <2>2 DEF HandleCredentialChange
        <3>2. RemoteTypes'
            BY <1>1, <3>1, RemoteTyped DEF RemoteTypes
        <3>3. pipeline = <<>>
            BY <1>1, <2>2 DEF RemoteOK, PipelineIsPrefix
        <3>4. PipelineIsPrefix'
            <4>1. Len(<<>>) = 0 /\ Len(queue[u]) \in Nat /\ MaxPending \in Nat
                BY <1>1, EmptySeq, TableTypes, PipelineAssumption
            <4> QED
                BY <1>1, <2>2, <3>1, <3>3, <4>1 DEF PipelineIsPrefix
        <3>5. StreamServesPipeline' /\ WireMatchesPipeline'
            BY <1>1, <3>1 DEF RemoteOK, StreamServesPipeline, WireMatchesPipeline
        <3>6. ServerKnows' /\ LateStillQueued'
            <4>1. acks = <<>> /\ ~handshake
                BY <1>1, <2>2 DEF RemoteOK, WireMatchesPipeline,
                                  StreamServesPipeline, IsOpen, IsStarted
            <4>2. Writes(acks)' = {}
                BY <3>1, <4>1 DEF Writes
            <4> QED
                BY <1>1, <3>1, <4>1, <4>2, LateSame DEF ServerKnows
        <3> QED
            BY <3>2, <3>4, <3>5, <3>6 DEF RemoteOK
    <2> QED
        BY <2>1, <2>2
<1> QED
    BY <1>1, <1>2, <1>3, <1>4, Reread

LEMMA StepRestart ==
    ASSUME IInv, Restart
    PROVE  IInv'
<1>1. /\ next' = LoadNextBatchId(queue) /\ callbacks' = [u \in User |-> {}]
      /\ waiters' = {} /\ orphans' = orphans \cup Pending /\ enabled' = TRUE
      /\ FillWritePipeline(TRUE, <<>>, queue[user], NewStream, FALSE, <<>>)
      /\ Disconnected /\ faults' = faults + 1
      /\ UNCHANGED <<user, queue, told, released, log, crossed, refused,
                     dropped, issued>>
      /\ TypeOK /\ TableOK /\ RemoteOK /\ ServerOK
      /\ faults \in Nat /\ user \in User /\ orphans \in SUBSET Write
    BY DEF Restart, server, IInv, TypeOK
<1>2. TableOK' /\ next' \in Nat \ {0}
    BY <1>1, TableReread
<1>3. /\ callbacks' \in [User -> SUBSET Batch] /\ orphans \subseteq orphans'
      /\ orphans' \in SUBSET Write /\ faults' \in Nat
    <2>1. \A w \in Pending : w \in Write
        BY <1>1, PendingIssued DEF TableOK
    <2> QED
        BY <1>1, <2>1
<1>4. /\ RemoteOK' /\ pipeline' \in Seq(Batch) /\ stream' \in StreamType
      /\ wire' = <<>>
    <2> DEFINE s == NewStream
    <2>1. StreamGood(s) /\ ~IsStarted(s) /\ ~s.idle
        BY DEF StreamGood, NewStream, StreamType, StreamState, IsStarted
    <2>2. FillWritePipeline(TRUE, <<>>, queue[user], s, FALSE, <<>>)
        BY <1>1
    <2> HIDE DEF s
    <2>3. /\ <<>> \in Seq(Batch) /\ queue[user] \in Seq(Batch)
          /\ Increasing(queue[user]) /\ Begins(<<>>, queue[user])
          /\ Len(<<>>) <= MaxPending
        BY <1>1, FromNothing
    <2>4. queue[user] = queue'[user'] /\ TRUE \in BOOLEAN /\ FALSE \in BOOLEAN
        BY <1>1
    <2> QED
        BY <1>1, <2>1, <2>2, <2>3, <2>4, RemoteRefilled
<1>5. RemoteTypes'
    <2>1. wire' \in Seq(Batch)
        BY <1>4, EmptySeq
    <2> QED
        BY <1>1, <1>4, <2>1, DisconnectedTypes DEF RemoteTypes
<1>6. ServerKnows' /\ LateStillQueued'
    BY <1>1, ClosedServer
<1> QED
    BY <1>1, <1>2, <1>3, <1>4, <1>5, <1>6, Reread

---------------------------------------------------------------------------
(* The theorems.                                                           *)

\* The invariant holds at the start: everything is empty.
LEMMA InitIInv == Init => IInv
<1> SUFFICES ASSUME Init PROVE IInv
    OBVIOUS
<1>1. /\ \A S : <<>> \in Seq(S)
      /\ Len(<<>>) = 0 /\ Elements(<<>>) = {} /\ Writes(<<>>) = {}
    BY EmptySeq DEF Elements, Writes
<1>2. /\ user \in User /\ queue = [u \in User |-> <<>>]
      /\ issued = [u \in User |-> <<>>] /\ callbacks = [u \in User |-> {}]
      /\ acks = <<>> /\ late = <<>> /\ log = <<>> /\ wire = <<>> /\ pipeline = <<>>
      /\ enabled = TRUE /\ handshake = FALSE /\ greeting = "none"
      /\ final = NoStatus /\ waiters = {} /\ released = {}
      /\ stray = {} /\ crossed = {}
      /\ told = [w \in Write |-> "none"]
    BY DEF Init
<1>3. /\ \A u \in User : queue[u] = <<>> /\ issued[u] = <<>> /\ callbacks[u] = {}
      /\ Len(<<>>) = 0 /\ 1..0 = {}
    BY <1>1, <1>2
<1>4. Issued = {}
    BY <1>1, <1>3 DEF Issued
<1>5. TypeOK
    <2>1. NewStream \in StreamType
        BY DEF NewStream, StreamType, StreamState
    <2>2. <<>> \in Seq(Batch) /\ <<>> \in Seq(Write)
        BY <1>1
    <2>3. /\ queue \in [User -> Seq(Batch)] /\ issued \in [User -> Seq(Write)]
          /\ callbacks \in [User -> SUBSET Batch]
          /\ told \in [Write -> {"none", "ok", "error"}]
        BY <1>2, <2>2
    <2>4. waiters \in SUBSET [id : Nat, for : SUBSET Write]
        BY <1>2
    <2>5. /\ pipeline \in Seq(Batch) /\ wire \in Seq(Batch) /\ acks \in Seq(Batch)
          /\ late \in Seq(Batch) /\ log \in Seq(Write)
        BY <1>2, <2>2
    <2>6. /\ stream = NewStream /\ next = 1 /\ faults = 0 /\ reading = FALSE
          /\ refused = {} /\ dropped = {} /\ orphans = {} /\ released = {}
        BY DEF Init
    <2>7. next \in Nat \ {0} /\ faults \in Nat
        BY <2>6
    <2>8. reading \in BOOLEAN
        BY <2>6
    <2>9. /\ refused \in SUBSET Write /\ dropped \in SUBSET Write
          /\ orphans \in SUBSET Write /\ released \in SUBSET SUBSET Write
        BY <2>6
    <2>10. stream \in StreamType
        BY <2>1, <2>6
    <2> QED
        BY <1>2, <2>3, <2>4, <2>5, <2>7, <2>8, <2>9,
           <2>10 DEF TypeOK
<1>6. TableOK
    <2>1. IdsIncrease
        BY <1>3 DEF IdsIncrease
    <2>2. QueuesHoldIssued
        BY <1>1, <1>3 DEF QueuesHoldIssued
    <2>3. CallbacksKept
        BY <1>1, <1>3 DEF CallbacksKept
    <2> QED
        BY <2>1, <2>2, <2>3 DEF TableOK
<1>7. RemoteOK
    <2>1. /\ stream.state = "Initial" /\ stream.closes = 0 /\ stream.asked = {}
          /\ stream.idle = FALSE
        BY DEF Init, NewStream
    <2>2. MaxPending \in Nat
        BY PipelineAssumption
    <2>3. PipelineIsPrefix
        BY <1>2, <1>3, <2>2 DEF PipelineIsPrefix
    <2>4. StreamServesPipeline
        BY <1>2, <2>1 DEF StreamServesPipeline, IsStarted, IsOpen
    <2>5. WireMatchesPipeline
        BY <1>2, <2>1 DEF WireMatchesPipeline, IsOpen, NoStatus
    <2> QED
        BY <2>3, <2>4, <2>5 DEF RemoteOK
<1>8. ServerOK
    <2>1. OnlyIssued
        BY <1>1, <1>2 DEF OnlyIssued
    <2>2. ServerKnows
        BY <1>1, <1>2 DEF ServerKnows, NoStatus
    <2>3. LateStillQueued
        BY <1>1, <1>2 DEF LateStillQueued
    <2>4. LastCommitNewest
        BY <1>2, <1>3 DEF LastCommitNewest
    <2> QED
        BY <2>1, <2>2, <2>3, <2>4 DEF ServerOK
<1>9. WaitsOK
    BY <1>2 DEF WaitsOK, WaitsKeyed, WaitsTruthful
<1>10. PromisesOK
    BY <1>4 DEF PromisesOK, NoWriteLost, AnswersTrue
<1> QED
    BY <1>5, <1>6, <1>7, <1>8, <1>9, <1>10 DEF IInv

\* Nothing happens.
LEMMA StutterIInv ==
    ASSUME IInv, UNCHANGED vars
    PROVE  IInv'
<1>1. /\ UNCHANGED <<user, queue, next, callbacks, waiters, told, released>>
      /\ UNCHANGED <<enabled, pipeline, stream, handshake>>
      /\ UNCHANGED <<greeting, wire, acks, final, reading, late, stray>>
      /\ UNCHANGED <<log, crossed, refused, dropped, issued, orphans, faults>>
    BY DEF vars, store, engine, connection, server
<1>2. Quiet
    BY <1>1 DEF Quiet, IInv, TypeOK
<1>3. RemoteTypes'
    BY <1>1, RemoteTyped DEF RemoteTypes, IInv
<1>4. RemoteOK'
    BY <1>1 DEF RemoteOK, IInv, PipelineIsPrefix, StreamServesPipeline,
                WireMatchesPipeline
<1>5. ServerKnows' /\ LateStillQueued'
    BY <1>1, KnowsSame, LateSame DEF IInv, ServerOK
<1> QED
    BY <1>2, <1>3, <1>4, <1>5, QuietStep

LEMMA NextIInv == IInv /\ [Next]_vars => IInv'
<1> SUFFICES ASSUME IInv, [Next]_vars PROVE IInv'
    OBVIOUS
<1>1. ASSUME NEW w \in Write, WriteMutations(w) PROVE IInv'
    BY <1>1, StepWriteMutations
<1>2. CASE RegisterPendingWritesCallback
    BY <1>2, StepRegister
<1>3. ASSUME NEW c \in stream.asked, CredentialsArrive(c) PROVE IInv'
    BY <1>3, StepCredentialsArrive
<1>4. ASSUME NEW c \in stream.asked, CredentialsFail(c) PROVE IInv'
    BY <1>4, StepCredentialsFail
<1>5. CASE HandshakeComplete
    BY <1>5, StepHandshakeComplete
<1>6. CASE MutationResult
    BY <1>6, StepMutationResult
<1>7. CASE StreamFinish
    BY <1>7, StepStreamFinish
<1>8. CASE WriteFailsFirst
    BY <1>8, StepWriteFailsFirst
<1>9. CASE ConnectionLost
    BY <1>9, StepConnectionLost
<1>10. CASE BackoffEnds
    BY <1>10, StepBackoffEnds
<1>11. CASE IdleElapsed
    BY <1>11, StepIdleElapsed
<1>12. CASE ConnectivityChange
    BY <1>12, StepConnectivityChange
<1>13. ASSUME NEW u \in User, HandleCredentialChange(u) PROVE IInv'
    BY <1>13, StepHandleCredentialChange
<1>14. CASE DisableNetwork
    BY <1>14, StepDisableNetwork
<1>15. CASE EnableNetwork
    BY <1>15, StepEnableNetwork
<1>16. CASE Restart
    BY <1>16, StepRestart
<1>17. CASE ServerGreets
    BY <1>17, StepServerGreets
<1>18. CASE ServerCommits
    BY <1>18, StepServerCommits
<1>19. CASE ServerRefuses
    BY <1>19, StepServerRefuses
<1>20. ASSUME NEW status \in Status, ServerAborts(status) PROVE IInv'
    BY <1>20, StepServerAborts
<1>21. CASE LateCommit
    BY <1>21, StepLateCommit
<1>22. CASE UNCHANGED vars
    BY <1>22, StutterIInv
<1>23. ASSUME NEW w \in stray, StrayCommit(w) PROVE IInv'
    BY <1>23, StepStrayCommit
<1> QED
    BY <1>1, <1>2, <1>3, <1>4, <1>5, <1>6, <1>7, <1>8, <1>9, <1>10, <1>11,
       <1>12, <1>13, <1>14, <1>15, <1>16, <1>17, <1>18, <1>19, <1>20, <1>21,
       <1>22, <1>23 DEF Next

LEMMA SpecIInv == Spec => []IInv
<1> QED
    BY InitIInv, NextIInv, PTL DEF Spec

\* Everything the parts of the write path know of each other holds in every
\* behaviour, and no HARD_ASSERT on the way of a write can fail: a result of
\* the server finds a pipeline, its batch has a row, the idle timer never
\* stops a stream that is needed, and a token finds the stream Starting.
THEOREM PipelineInvariant == Spec => []Inv
<1>1. IInv => Inv
    BY AssertionsFollow DEF IInv, Inv, TableOK, RemoteOK, ServerOK, WaitsOK
<1> QED
    BY <1>1, SpecIInv, PTL

\* Restarts of the process and of the stream, changes of the user, the network
\* switched off and refusals lose no write between the mutations table, the
\* pipeline and the wire: an issued write is queued, committed or refused.
THEOREM NoWriteLostHolds == Spec => []NoWriteLost
<1>1. IInv => NoWriteLost
    BY DEF IInv, PromisesOK
<1> QED
    BY <1>1, SpecIInv, PTL

\* What NotifyUser tells the app of a write is true, and it forgets no
\* callback but those of a process that has died.
THEOREM AnswersTrueHolds == Spec => []AnswersTrue
<1>1. IInv => AnswersTrue
    BY DEF IInv, PromisesOK
<1> QED
    BY <1>1, SpecIInv, PTL

\* When TriggerPendingWriteCallbacks answers a waitForPendingWrites, nothing
\* that was pending at the call is pending still.
THEOREM WaitsTruthfulHolds == Spec => []WaitsTruthful
<1>1. IInv => WaitsTruthful
    BY DEF IInv, WaitsOK
<1> QED
    BY <1>1, SpecIInv, PTL

\* However often the pipeline is sent again, and whatever the server still
\* takes from closed connections, once the queue of a user is empty the last
\* commit of the user is the newest write that was not refused: unless it has
\* taken a request of a connection older than one that it has greeted.
THEOREM NewestCommittedLastHolds == Spec => []NewestCommittedLast
<1>1. IInv => NewestCommittedLast
    <2>1. SUFFICES ASSUME IInv, NEW u \in User, queue[u] = <<>>,
                          ~Crossed(u), NEW i \in 1..Len(log)
                   PROVE  \/ log[i] \notin Elements(issued[u])
                          \/ \E j \in 1..Len(log) :
                                 j > i /\ log[j] \in Elements(issued[u])
                          \/ \A k \in 1..Len(issued[u]) :
                                 \/ issued[u][k] \in refused
                                 \/ \E m \in k..Len(issued[u]) :
                                        issued[u][m] = log[i]
        BY DEF NewestCommittedLast
    <2>2. Gone(u) = Len(issued[u])
        <3>1. Len(queue[u]) = 0 /\ Len(issued[u]) \in Nat
            BY <2>1, EmptySeq, TableTypes DEF IInv
        <3> QED
            BY <3>1 DEF Gone
    <2>3. CommitNewest(u, i)
        BY <2>1, CommitsAre DEF IInv, ServerOK
    <2> QED
        BY <2>1, <2>2, <2>3 DEF CommitNewest
<1> QED
    BY <1>1, SpecIInv, PTL
=============================================================================
