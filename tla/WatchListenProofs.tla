------------------------- MODULE WatchListenProofs -------------------------
(***************************************************************************)
(* Proofs about WatchListen, for any finite set of documents, any calls of *)
(* get() and listeners, and all bounds.                                    *)
(***************************************************************************)
EXTENDS WatchListen, SequenceTheorems, FiniteSetTheorems, FunctionTheorems,
        WellFoundedInduction, TLAPS

---------------------------------------------------------------------------
(* Lemmas about sequences.                                                 *)

LEMMA Appended ==
    ASSUME NEW S, NEW s \in Seq(S), NEW x \in S
    PROVE  /\ Append(s, x) \in Seq(S) /\ Len(s) \in Nat
           /\ s \o <<x>> = Append(s, x)
           /\ Len(Append(s, x)) = Len(s) + 1
           /\ DOMAIN s = 1..Len(s)
           /\ DOMAIN Append(s, x) = 1..Len(s) + 1
           /\ \A i \in 1..Len(s) : Append(s, x)[i] = s[i]
           /\ Append(s, x)[Len(s) + 1] = x
           /\ \A i \in 1..Len(s) + 1 : i \in 1..Len(s) \/ i = Len(s) + 1
<1>1. /\ Append(s, x) \in Seq(S) /\ Len(Append(s, x)) = Len(s) + 1
      /\ \A i \in 1..Len(s) : Append(s, x)[i] = s[i]
      /\ Append(s, x)[Len(s) + 1] = x
    BY AppendProperties
<1>2. /\ Len(s) \in Nat /\ DOMAIN s = 1..Len(s)
      /\ DOMAIN Append(s, x) = 1..Len(Append(s, x))
    BY <1>1, LenProperties
<1>3. \A i \in 1..Len(s) + 1 : i \in 1..Len(s) \/ i = Len(s) + 1
    BY <1>2
<1>4. s \o <<x>> = Append(s, x)
    BY AppendIsConcat
<1> QED
    BY <1>1, <1>2, <1>3, <1>4

LEMMA Tailed ==
    ASSUME NEW S, NEW s \in Seq(S), s # <<>>
    PROVE  /\ Tail(s) \in Seq(S) /\ Len(s) \in Nat /\ Len(s) >= 1
           /\ Head(s) = s[1] /\ Head(s) \in S
           /\ DOMAIN s = 1..Len(s)
           /\ DOMAIN Tail(s) = 1..Len(s) - 1
           /\ \A i \in 1..Len(s) - 1 : Tail(s)[i] = s[i + 1]
           /\ \A i \in 1..Len(s) - 1 : i + 1 \in 1..Len(s)
           /\ \A i \in 1..Len(s) : i = 1 \/ (i - 1 \in 1..Len(s) - 1
                                             /\ (i - 1) + 1 = i)
<1>1. /\ Head(s) \in S /\ Tail(s) \in Seq(S) /\ Len(Tail(s)) = Len(s) - 1
      /\ \A i \in 1..Len(Tail(s)) : Tail(s)[i] = s[i + 1]
    BY HeadTailProperties
<1>2. /\ Len(s) \in Nat /\ DOMAIN s = 1..Len(s) /\ DOMAIN Tail(s) = 1..Len(Tail(s))
    BY <1>1, LenProperties
<1>3. Len(s) # 0
    BY EmptySeq
<1>4. Head(s) = s[1]
    OBVIOUS
<1>5. \A i \in 1..Len(s) - 1 : i + 1 \in 1..Len(s)
    BY <1>2
<1>6. \A i \in 1..Len(s) : i = 1 \/ (i - 1 \in 1..Len(s) - 1 /\ (i - 1) + 1 = i)
    BY <1>2
<1> QED
    BY <1>1, <1>2, <1>3, <1>4, <1>5, <1>6

\* The places of s that hold an element of T; how many there are.
Places(s, T) == {i \in DOMAIN s : s[i] \in T}
Count(s, T) == Cardinality(Places(s, T))

LEMMA CountIs ==
    ASSUME NEW S, NEW s \in Seq(S), NEW T
    PROVE  /\ IsFiniteSet(Places(s, T)) /\ Count(s, T) \in Nat
           /\ Count(s, T) = 0 <=> \A i \in DOMAIN s : s[i] \notin T
           /\ Count(s, T) = 1 => \A i, j \in DOMAIN s :
                                     s[i] \in T /\ s[j] \in T => i = j
<1> DEFINE P == Places(s, T)
<1>1. DOMAIN s = 1..Len(s) /\ Len(s) \in Nat
    BY LenProperties
<1>2. IsFiniteSet(1..Len(s))
    BY <1>1, FS_Interval
<1>3. P \subseteq 1..Len(s)
    BY <1>1 DEF Places
<1>4. IsFiniteSet(P)
    BY <1>2, <1>3, FS_Subset
<1>5. Cardinality(P) \in Nat
    BY <1>4, FS_CardinalityType
<1>6. Cardinality(P) = 0 <=> P = {}
    BY <1>4, FS_EmptySet
<1>7. ASSUME Cardinality(P) = 1, NEW i \in P, NEW j \in P PROVE i = j
    <2>1. {i} \in SUBSET P /\ Cardinality({i}) = 1
        BY FS_Singleton
    <2>2. P = {i}
        BY <1>4, <1>7, <2>1, FS_Subset
    <2> QED
        BY <2>2
<1>8. P = {} <=> \A i \in DOMAIN s : s[i] \notin T
    BY DEF Places
<1> HIDE DEF P
<1>9. \A i \in DOMAIN s : s[i] \in T => i \in P
    BY DEF P, Places
<1> QED
    BY <1>4, <1>5, <1>6, <1>7, <1>8, <1>9 DEF Count, P

LEMMA CountAppend ==
    ASSUME NEW S, NEW s \in Seq(S), NEW x \in S, NEW T
    PROVE  Count(Append(s, x), T) = Count(s, T) + IF x \in T THEN 1 ELSE 0
<1> DEFINE n == Len(s)
           t == Append(s, x)
           P == Places(s, T)
<1>1. /\ n \in Nat /\ DOMAIN s = 1..n /\ DOMAIN t = 1..n + 1
      /\ \A i \in 1..n : t[i] = s[i] /\ t[n + 1] = x
      /\ t[n + 1] = x
      /\ \A i \in 1..n + 1 : i \in 1..n \/ i = n + 1
    BY Appended
<1> HIDE DEF t
<1>2. IsFiniteSet(P) /\ Cardinality(P) \in Nat
    BY CountIs DEF Count
<1>3. n + 1 \notin P /\ n + 1 \in 1..n + 1 /\ \A i \in 1..n : i \in 1..n + 1
    BY <1>1 DEF Places
<1>4. CASE x \in T
    <2>1. \A i : i \in Places(t, T) <=> i \in P \cup {n + 1}
        BY <1>1, <1>3, <1>4 DEF Places
    <2>2. Places(t, T) = P \cup {n + 1}
        BY <2>1
    <2> HIDE DEF P
    <2>3. Cardinality(P \cup {n + 1}) = Cardinality(P) + 1
        BY <1>2, <1>3, FS_AddElement
    <2> QED
        BY <1>4, <2>2, <2>3 DEF Count, P, t
<1>5. CASE x \notin T
    <2>1. \A i : i \in Places(t, T) <=> i \in P
        BY <1>1, <1>3, <1>5 DEF Places
    <2>2. Places(t, T) = P
        BY <2>1
    <2> QED
        BY <1>2, <1>5, <2>2 DEF Count, t
<1> QED
    BY <1>4, <1>5

LEMMA CountTail ==
    ASSUME NEW S, NEW s \in Seq(S), s # <<>>, NEW T
    PROVE  Count(Tail(s), T) = Count(s, T) - IF Head(s) \in T THEN 1 ELSE 0
<1> DEFINE n == Len(s)
           t == Tail(s)
           P == Places(s, T)
           Q == Places(t, T)
           f == [i \in P \ {1} |-> i - 1]
<1>1. /\ n \in Nat /\ Head(s) = s[1] /\ n >= 1
      /\ DOMAIN s = 1..n /\ DOMAIN t = 1..n - 1
      /\ \A i \in 1..n - 1 : t[i] = s[i + 1]
      /\ \A i \in 1..n - 1 : i + 1 \in 1..n
      /\ \A i \in 1..n : i = 1 \/ (i - 1 \in 1..n - 1 /\ (i - 1) + 1 = i)
    BY Tailed
<1> HIDE DEF t
<1>2. IsFiniteSet(P) /\ Cardinality(P) \in Nat
    BY CountIs DEF Count
<1>3. f \in [P \ {1} -> Q]
    <2>1. ASSUME NEW i \in P \ {1} PROVE i - 1 \in Q
        <3>1. i \in 1..n /\ s[i] \in T /\ i # 1
            BY <1>1 DEF Places
        <3>2. i - 1 \in 1..n - 1 /\ (i - 1) + 1 = i
            BY <1>1, <3>1
        <3>3. t[i - 1] = s[i]
            BY <1>1, <3>2
        <3> QED
            BY <1>1, <3>1, <3>2, <3>3 DEF Places
    <2> QED
        BY <2>1
<1>4. \A i, j \in P \ {1} : f[i] = f[j] => i = j
    <2>1. \A i \in P : i \in Nat
        BY <1>1 DEF Places
    <2> QED
        BY <2>1
<1>5. ASSUME NEW j \in Q PROVE \E i \in P \ {1} : f[i] = j
    <2>1. j \in 1..n - 1 /\ t[j] \in T
        BY <1>1 DEF Places
    <2>2. j + 1 \in 1..n /\ s[j + 1] \in T /\ j + 1 # 1 /\ (j + 1) - 1 = j
        BY <1>1, <2>1
    <2>3. j + 1 \in P \ {1}
        BY <1>1, <2>2 DEF Places
    <2> QED
        BY <2>2, <2>3
<1> HIDE DEF f
<1>6. f \in Bijection(P \ {1}, Q)
    BY <1>3, <1>4, <1>5, Fun_IsBij
<1>7. ExistsBijection(P \ {1}, Q)
    BY <1>6 DEF ExistsBijection
<1> HIDE DEF P, Q
<1>8. /\ IsFiniteSet(P \ {1})
      /\ Cardinality(P \ {1}) = IF 1 \in P THEN Cardinality(P) - 1
                                ELSE Cardinality(P)
    BY <1>2, FS_RemoveElement
<1>9. Cardinality(Q) = Cardinality(P \ {1})
    BY <1>7, <1>8, FS_Bijection
<1>10. 1 \in P <=> Head(s) \in T
    BY <1>1 DEF P, Places
<1> QED
    BY <1>2, <1>8, <1>9, <1>10 DEF Count, P, Q, t

---------------------------------------------------------------------------
(* Lemmas about requests and responses under way.                          *)

LEMMA RequestIs ==
    ASSUME NEW r \in Request
    PROVE  r.op \in {"watch", "unwatch"} /\ r.doc \in Doc
BY DEF Request

LEMMA RequestsAre ==
    ASSUME NEW d \in Doc
    PROVE  /\ Watch(d) \in Request /\ Watch(d).doc = d /\ Watch(d).op = "watch"
           /\ Unwatch(d) \in Request /\ Unwatch(d).doc = d
           /\ Unwatch(d).op = "unwatch"
BY DEF Request, Watch, Unwatch

LEMMA ResponseIs ==
    ASSUME NEW r \in Response
    PROVE  /\ r.kind \in {"added", "removed", "error", "snapshot", "current"}
           /\ r.kind = "current" => r.doc \in Doc /\ r.version \in Version
BY DEF Response

LEMMA ResponsesAre ==
    ASSUME NEW d \in Doc, NEW v \in Version,
           NEW k \in {"added", "removed", "error"}
    PROVE  /\ [kind |-> k, doc |-> d] \in Response
           /\ [kind |-> "snapshot", doc |-> NoDoc] \in Response
           /\ [kind |-> "current", doc |-> d, version |-> v] \in Response
BY DEF Response

\* The requests for d, and the responses to them.
For(d) == {r \in Request : r.doc = d}
To(d) == {r \in Response : Answers(r, d)}

LEMMA PlacesFor ==
    ASSUME NEW u \in Seq(Request), NEW d
    PROVE  /\ {i \in DOMAIN u : u[i].doc = d} = Places(u, For(d))
           /\ \A i \in DOMAIN u : u[i] \in For(d) <=> u[i].doc = d
<1>1. \A i \in DOMAIN u : u[i] \in Request
    BY LenProperties
<1>2. \A i \in DOMAIN u : u[i] \in For(d) <=> u[i].doc = d
    BY <1>1 DEF For
<1> QED
    BY <1>2 DEF Places

LEMMA PlacesTo ==
    ASSUME NEW w \in Seq(Response), NEW d
    PROVE  /\ {i \in DOMAIN w : /\ w[i].kind \in {"added", "removed", "error"}
                                /\ w[i].doc = d} = Places(w, To(d))
           /\ \A i \in DOMAIN w : w[i] \in To(d) <=> Answers(w[i], d)
<1>1. \A i \in DOMAIN w : w[i] \in Response
    BY LenProperties
<1>2. \A i \in DOMAIN w : w[i] \in To(d) <=> Answers(w[i], d)
    BY <1>1 DEF To
<1>3. \A i \in DOMAIN w : Answers(w[i], d) <=>
          /\ w[i].kind \in {"added", "removed", "error"} /\ w[i].doc = d
    BY DEF Answers
<1> QED
    BY <1>2, <1>3 DEF Places

\* A set of numbers with a bound has a largest one.
LEMMA HasLargest ==
    ASSUME NEW T \in SUBSET Nat, T # {}, NEW b \in Nat, \A n \in T : n <= b
    PROVE  \E n \in T : \A m \in T : m <= n
<1> DEFINE D == {b - n : n \in T}
<1>1. D \subseteq Nat /\ D # {}
    <2>1. \A n \in T : b - n \in Nat
        OBVIOUS
    <2> QED
        BY <2>1
<1>2. PICK x \in D : \A y \in D : ~ (<<y, x>> \in OpToRel(<, Nat))
    BY <1>1, NatLessThanWellFounded, WFMin
<1>3. \A y \in D : x <= y
    <2> HIDE DEF D
    <2>1. SUFFICES ASSUME NEW y \in D, y < x PROVE FALSE
        <3>1. x \in Nat /\ \A y \in D : y \in Nat
            BY <1>1
        <3> QED
            BY <3>1
    <2>2. <<y, x>> \in Nat \X Nat /\ <<y, x>>[1] < <<y, x>>[2]
        BY <1>1, <2>1
    <2>3. <<y, x>> \in {ss \in Nat \X Nat : ss[1] < ss[2]}
        BY <2>2
    <2> QED
        BY <1>2, <2>3 DEF OpToRel
<1>4. PICK n \in T : x = b - n
    OBVIOUS
<1>5. \A m \in T : m <= n
    BY <1>3, <1>4
<1> QED
    BY <1>5

\* What the server watches, from the requests u and what it has sent, v.
WatchedIn(u, v, d) ==
    LET R == {i \in DOMAIN u : u[i].doc = d}
    IN  IF R = {} THEN v # NotWatched
        ELSE u[CHOOSE i \in R : \A j \in R : j <= i].op = "watch"

\* The place of the last request for d.
Latest(u, d, i) ==
    /\ i \in DOMAIN u /\ u[i].doc = d
    /\ \A j \in DOMAIN u : u[j].doc = d => j <= i

LEMMA WatchedBy ==
    ASSUME NEW u \in Seq(Request), NEW v, NEW d
    PROVE  /\ \A i : Latest(u, d, i) => (WatchedIn(u, v, d) <=> u[i].op = "watch")
           /\ (\A i \in DOMAIN u : u[i].doc # d) =>
                  (WatchedIn(u, v, d) <=> v # NotWatched)
           /\ (\E i \in DOMAIN u : u[i].doc = d) => \E i : Latest(u, d, i)
<1> DEFINE R == {i \in DOMAIN u : u[i].doc = d}
<1>1. Len(u) \in Nat /\ DOMAIN u = 1..Len(u)
    BY LenProperties
<1>2. ASSUME NEW i, Latest(u, d, i)
      PROVE  WatchedIn(u, v, d) <=> u[i].op = "watch"
    <2>1. i \in R /\ \A j \in R : j <= i
        BY <1>2 DEF Latest
    <2>2. \A k \in R : (\A j \in R : j <= k) => k = i
        BY <1>1, <2>1
    <2>3. (CHOOSE k \in R : \A j \in R : j <= k) = i
        BY <2>1, <2>2
    <2> QED
        BY <2>1, <2>3 DEF WatchedIn
<1>3. ASSUME \A i \in DOMAIN u : u[i].doc # d
      PROVE  WatchedIn(u, v, d) <=> v # NotWatched
    <2>1. R = {}
        BY <1>3
    <2> QED
        BY <2>1 DEF WatchedIn
<1>4. ASSUME \E i \in DOMAIN u : u[i].doc = d
      PROVE  \E i : Latest(u, d, i)
    <2>1. R # {} /\ R \in SUBSET Nat /\ \A i \in R : i <= Len(u)
        BY <1>1, <1>4
    <2>2. PICK i \in R : \A j \in R : j <= i
        BY <1>1, <2>1, HasLargest
    <2> QED
        BY <2>2 DEF Latest
<1> QED
    BY <1>2, <1>3, <1>4

LEMMA WatchedAppend ==
    ASSUME NEW u \in Seq(Request), NEW r \in Request, NEW v, NEW d
    PROVE  WatchedIn(Append(u, r), v, d) <=>
               IF r.doc = d THEN r.op = "watch" ELSE WatchedIn(u, v, d)
<1> DEFINE n == Len(u)
           t == Append(u, r)
<1>1. /\ t \in Seq(Request) /\ n \in Nat /\ DOMAIN u = 1..n /\ DOMAIN t = 1..n + 1
      /\ \A i \in 1..n : t[i] = u[i]
      /\ t[n + 1] = r /\ \A i \in 1..n + 1 : i \in 1..n \/ i = n + 1
    BY Appended
<1> HIDE DEF n, t
<1>2. CASE r.doc = d
    <2>1. Latest(t, d, n + 1)
        BY <1>1, <1>2 DEF Latest
    <2>2. WatchedIn(t, v, d) <=> t[n + 1].op = "watch"
        BY <1>1, <2>1, WatchedBy
    <2> QED
        BY <1>1, <1>2, <2>2 DEF t
<1>3. CASE r.doc # d /\ \E i \in DOMAIN u : u[i].doc = d
    <2>1. PICK i : Latest(u, d, i)
        BY <1>3, WatchedBy
    <2>2. Latest(t, d, i) /\ t[i] = u[i]
        BY <1>1, <1>3, <2>1 DEF Latest
    <2>3. /\ WatchedIn(u, v, d) <=> u[i].op = "watch"
          /\ WatchedIn(t, v, d) <=> t[i].op = "watch"
        BY <1>1, <2>1, <2>2, WatchedBy
    <2> QED
        BY <1>3, <2>2, <2>3 DEF t
<1>4. CASE r.doc # d /\ \A i \in DOMAIN u : u[i].doc # d
    <2>1. \A i \in DOMAIN t : t[i].doc # d
        BY <1>1, <1>4
    <2>2. /\ WatchedIn(u, v, d) <=> v # NotWatched
          /\ WatchedIn(t, v, d) <=> v # NotWatched
        BY <1>1, <1>4, <2>1, WatchedBy
    <2> QED
        BY <1>4, <2>2 DEF t
<1> QED
    BY <1>2, <1>3, <1>4

\* The server takes a request, and what it has sent, v, becomes v2.
LEMMA WatchedTail ==
    ASSUME NEW u \in Seq(Request), u # <<>>, NEW v, NEW v2, NEW d,
           IF Head(u).doc = d THEN v2 # NotWatched <=> Head(u).op = "watch"
           ELSE v2 = v
    PROVE  WatchedIn(Tail(u), v2, d) <=> WatchedIn(u, v, d)
<1> DEFINE n == Len(u)
           t == Tail(u)
<1>1. /\ t \in Seq(Request) /\ n \in Nat /\ n >= 1 /\ Head(u) = u[1]
      /\ DOMAIN u = 1..n /\ DOMAIN t = 1..n - 1
      /\ \A i \in 1..n - 1 : t[i] = u[i + 1]
      /\ \A i \in 1..n - 1 : i + 1 \in 1..n
      /\ \A i \in 1..n : i = 1 \/ (i - 1 \in 1..n - 1 /\ (i - 1) + 1 = i)
    BY Tailed
<1> HIDE DEF n, t
<1>2. CASE \E i \in DOMAIN t : t[i].doc = d
    <2>1. PICK i : Latest(t, d, i)
        BY <1>1, <1>2, WatchedBy
    <2>2. Latest(u, d, i + 1)
        <3>1. i + 1 \in DOMAIN u /\ u[i + 1].doc = d /\ i \in 1..n - 1
            BY <1>1, <2>1 DEF Latest
        <3>2. ASSUME NEW j \in DOMAIN u, u[j].doc = d PROVE j <= i + 1
            <4>1. CASE j = 1
                BY <1>1, <3>1, <4>1
            <4>2. CASE j # 1
                <5>1. j - 1 \in DOMAIN t /\ t[j - 1] = u[j]
                    BY <1>1, <4>2
                <5>2. j - 1 <= i
                    BY <2>1, <3>2, <5>1 DEF Latest
                <5> QED
                    BY <1>1, <3>1, <5>2
            <4> QED
                BY <4>1, <4>2
        <3> QED
            BY <3>1, <3>2 DEF Latest
    <2>3. t[i] = u[i + 1]
        BY <1>1, <2>1 DEF Latest
    <2>4. /\ WatchedIn(u, v, d) <=> u[i + 1].op = "watch"
          /\ WatchedIn(t, v2, d) <=> t[i].op = "watch"
        BY <1>1, <2>1, <2>2, WatchedBy
    <2> QED
        BY <2>3, <2>4 DEF t
<1>3. CASE \A i \in DOMAIN t : t[i].doc # d
    <2>1. WatchedIn(t, v2, d) <=> v2 # NotWatched
        BY <1>1, <1>3, WatchedBy
    <2>2. \A j \in DOMAIN u : j # 1 => u[j].doc # d
        BY <1>1, <1>3
    <2>3. CASE Head(u).doc = d
        <3>1. Latest(u, d, 1)
            BY <1>1, <2>2, <2>3 DEF Latest
        <3>2. WatchedIn(u, v, d) <=> u[1].op = "watch"
            BY <3>1, WatchedBy
        <3> QED
            BY <1>1, <2>1, <2>3, <3>2 DEF t
    <2>4. CASE Head(u).doc # d
        <3>1. \A j \in DOMAIN u : u[j].doc # d
            BY <1>1, <2>2, <2>4
        <3>2. WatchedIn(u, v, d) <=> v # NotWatched
            BY <3>1, WatchedBy
        <3> QED
            BY <2>1, <2>4, <3>2 DEF t
    <2> QED
        BY <2>3, <2>4
<1> QED
    BY <1>2, <1>3

---------------------------------------------------------------------------
(* Lemmas about what is under way for a document d, listened to since      *)
(* version s: u are the requests, w the responses.                         *)

AskedIn(u, d) == \E i \in DOMAIN u : u[i].doc = d
After(w, i, d) == \E j \in DOMAIN w : j > i /\ Answers(w[j], d)
RejectedIn(w, d) == \E i \in DOMAIN w : w[i].kind = "error" /\ w[i].doc = d

TellsIn(w, i, d, s) ==
    /\ w[i].kind = "current" /\ w[i].doc = d /\ w[i].version >= s
    /\ ~After(w, i, d)

\* What was heard of d: whether it is current, its pending version and the one
\* in the cache.
HeardIn(H, p, c, d, s) ==
    d \in H => IF p # Nothing THEN p >= s ELSE c >= s

\* VersionsFresh, SnapshotsFresh, SentFresh and SentTold.
VersionsIn(u, w, d, s) ==
    \A i \in DOMAIN w :
        w[i].kind = "current" /\ w[i].doc = d =>
            w[i].version >= s \/ After(w, i, d) \/ AskedIn(u, d)

SnapshotsIn(u, w, H, p, c, d, s) ==
    \A k \in DOMAIN w :
        w[k].kind = "snapshot" =>
            \/ HeardIn(H, p, c, d, s) \/ AskedIn(u, d)
            \/ RejectedIn(w, d) \/ After(w, k, d)
            \/ \E i \in DOMAIN w : i < k /\ TellsIn(w, i, d, s)

SentIn(u, w, H, p, c, d, s, v) ==
    ~AskedIn(u, d) /\ v \in Version =>
        HeardIn(H, p, c, d, s) \/ \E i \in DOMAIN w : TellsIn(w, i, d, s)

ToldIn(w, d, v) ==
    \A i \in DOMAIN w :
        Answers(w[i], d) /\ ~After(w, i, d) =>
            (w[i].kind = "added" <=> v # NotWatched)

FreshIn(u, w, H, p, c, d, s, v) ==
    /\ VersionsIn(u, w, d, s)
    /\ SnapshotsIn(u, w, H, p, c, d, s)
    /\ SentIn(u, w, H, p, c, d, s, v)

\* A listen begins on an open stream: its request is the last one.
LEMMA FreshAsked ==
    ASSUME NEW u, NEW w, NEW H, NEW p, NEW c, NEW d, NEW s, NEW v, AskedIn(u, d)
    PROVE  FreshIn(u, w, H, p, c, d, s, v)
BY DEF FreshIn, VersionsIn, SnapshotsIn, SentIn

\* Nothing is under way, and nothing was heard.
LEMMA FreshEmpty ==
    ASSUME NEW u, NEW p, NEW c, NEW d, NEW s, NEW v
    PROVE  FreshIn(u, <<>>, {}, p, c, d, s, v) /\ ToldIn(<<>>, d, v)
<1>1. DOMAIN <<>> = {}
    OBVIOUS
<1>2. HeardIn({}, p, c, d, s)
    BY DEF HeardIn
<1> QED
    BY <1>1, <1>2 DEF FreshIn, VersionsIn, SnapshotsIn, SentIn, ToldIn

\* What is known of requests and responses when one response is added.
LEMMA AfterAppend ==
    ASSUME NEW w \in Seq(Response), NEW x \in Response, NEW d
    PROVE  /\ \A i \in DOMAIN w :
                  After(Append(w, x), i, d) <=> After(w, i, d) \/ Answers(x, d)
           /\ ~After(Append(w, x), Len(w) + 1, d)
           /\ RejectedIn(w, d) => RejectedIn(Append(w, x), d)
<1> DEFINE n == Len(w)
           t == Append(w, x)
<1>1. /\ n \in Nat /\ DOMAIN w = 1..n /\ DOMAIN t = 1..n + 1
      /\ \A i \in 1..n : t[i] = w[i]
      /\ t[n + 1] = x /\ \A i \in 1..n + 1 : i \in 1..n \/ i = n + 1
    BY Appended
<1> HIDE DEF n, t
<1>2. \A i \in 1..n : i \in 1..n + 1 /\ n + 1 > i /\ i \in Nat
    BY <1>1
<1>3. n + 1 \in 1..n + 1
    BY <1>1
<1>4. ASSUME NEW i \in DOMAIN w
      PROVE  After(t, i, d) <=> After(w, i, d) \/ Answers(x, d)
    BY <1>1, <1>2, <1>3 DEF After
<1>5. ~After(t, n + 1, d)
    BY <1>1 DEF After
<1>6. RejectedIn(w, d) => RejectedIn(t, d)
    BY <1>1, <1>2 DEF RejectedIn
<1> QED
    BY <1>4, <1>5, <1>6 DEF n, t

\* The server answers a request for d.
LEMMA FreshAnswer ==
    ASSUME NEW u, NEW w \in Seq(Response), NEW x \in Response, NEW H, NEW p,
           NEW c, NEW d, NEW s, NEW v, v \notin Version, Answers(x, d)
    PROVE  FreshIn(u, Append(w, x), H, p, c, d, s, v)
<1> DEFINE n == Len(w)
           t == Append(w, x)
<1>1. /\ n \in Nat /\ DOMAIN w = 1..n /\ DOMAIN t = 1..n + 1
      /\ \A i \in 1..n : t[i] = w[i]
      /\ t[n + 1] = x /\ \A i \in 1..n + 1 : i \in 1..n \/ i = n + 1
    BY Appended
<1>2. \A i \in DOMAIN w : After(t, i, d)
    BY AfterAppend
<1>3. x.kind # "current" /\ x.kind # "snapshot"
    BY DEF Answers
<1> HIDE DEF n, t
<1>4. VersionsIn(u, t, d, s)
    BY <1>1, <1>2, <1>3 DEF VersionsIn
<1>5. SnapshotsIn(u, t, H, p, c, d, s)
    BY <1>1, <1>2, <1>3 DEF SnapshotsIn
<1>6. SentIn(u, t, H, p, c, d, s, v)
    BY DEF SentIn
<1> QED
    BY <1>4, <1>5, <1>6 DEF FreshIn, t

\* A response that says nothing of d; a snapshot if it finds d fresh.
LEMMA FreshOther ==
    ASSUME NEW u, NEW u2, NEW w \in Seq(Response), NEW x \in Response, NEW H,
           NEW p, NEW c, NEW d, NEW s, NEW v,
           FreshIn(u, w, H, p, c, d, s, v), AskedIn(u, d) => AskedIn(u2, d),
           AskedIn(u2, d) => AskedIn(u, d),
           ~Answers(x, d), ~(x.kind = "current" /\ x.doc = d),
           x.kind = "snapshot" =>
               \/ HeardIn(H, p, c, d, s) \/ AskedIn(u, d) \/ RejectedIn(w, d)
               \/ \E i \in DOMAIN w : TellsIn(w, i, d, s)
    PROVE  FreshIn(u2, Append(w, x), H, p, c, d, s, v)
<1> DEFINE n == Len(w)
           t == Append(w, x)
<1>1. /\ n \in Nat /\ DOMAIN w = 1..n /\ DOMAIN t = 1..n + 1
      /\ \A i \in 1..n : t[i] = w[i]
      /\ t[n + 1] = x /\ \A i \in 1..n + 1 : i \in 1..n \/ i = n + 1
    BY Appended
<1>2. /\ \A i \in DOMAIN w : After(t, i, d) <=> After(w, i, d)
      /\ RejectedIn(w, d) => RejectedIn(t, d)
    BY AfterAppend
<1> HIDE DEF n, t
<1>3. \A i \in 1..n : i \in 1..n + 1 /\ i < n + 1
    BY <1>1
<1>4. \A i \in DOMAIN w : TellsIn(w, i, d, s) => TellsIn(t, i, d, s)
    BY <1>1, <1>2 DEF TellsIn
<1>5. VersionsIn(u2, t, d, s)
    <2>1. VersionsIn(u, w, d, s)
        BY DEF FreshIn
    <2> QED
        BY <1>1, <1>2, <2>1 DEF VersionsIn
<1>6. SnapshotsIn(u2, t, H, p, c, d, s)
    <2>1. SnapshotsIn(u, w, H, p, c, d, s)
        BY DEF FreshIn
    <2>2. SUFFICES ASSUME NEW k \in DOMAIN t, t[k].kind = "snapshot"
                   PROVE  \/ HeardIn(H, p, c, d, s) \/ AskedIn(u2, d)
                          \/ RejectedIn(t, d) \/ After(t, k, d)
                          \/ \E i \in DOMAIN t : i < k /\ TellsIn(t, i, d, s)
        BY DEF SnapshotsIn
    <2>3. CASE k \in 1..n
        <3>1. w[k].kind = "snapshot"
            BY <1>1, <2>2, <2>3
        <3>2. \/ HeardIn(H, p, c, d, s) \/ AskedIn(u, d)
              \/ RejectedIn(w, d) \/ After(w, k, d)
              \/ \E i \in DOMAIN w : i < k /\ TellsIn(w, i, d, s)
            BY <1>1, <2>1, <2>3, <3>1 DEF SnapshotsIn
        <3>3. ASSUME NEW i \in DOMAIN w, i < k, TellsIn(w, i, d, s)
              PROVE  i \in DOMAIN t /\ i < k /\ TellsIn(t, i, d, s)
            BY <1>1, <1>3, <1>4, <3>3
        <3> QED
            BY <1>1, <1>2, <2>3, <3>2, <3>3
    <2>4. CASE k = n + 1
        <3>1. ASSUME NEW i \in DOMAIN w, TellsIn(w, i, d, s)
              PROVE  i \in DOMAIN t /\ i < k /\ TellsIn(t, i, d, s)
            BY <1>1, <1>3, <1>4, <2>4, <3>1
        <3> QED
            BY <1>1, <1>2, <2>2, <2>4, <3>1
    <2> QED
        BY <1>1, <2>3, <2>4
<1>7. SentIn(u2, t, H, p, c, d, s, v)
    <2>1. SentIn(u, w, H, p, c, d, s, v)
        BY DEF FreshIn
    <2> QED
        BY <1>1, <1>3, <1>4, <2>1 DEF SentIn
<1> QED
    BY <1>5, <1>6, <1>7 DEF FreshIn, t

\* The server sends the version of d.
LEMMA FreshSends ==
    ASSUME NEW u, NEW w \in Seq(Response), NEW x \in Response, NEW H,
           NEW p, NEW c, NEW d, NEW s, NEW v, NEW v2,
           FreshIn(u, w, H, p, c, d, s, v),
           x.kind = "current", x.doc = d, x.version >= s
    PROVE  /\ FreshIn(u, Append(w, x), H, p, c, d, s, v2)
           /\ \E i \in DOMAIN Append(w, x) : TellsIn(Append(w, x), i, d, s)
<1> DEFINE n == Len(w)
           t == Append(w, x)
<1>1. /\ n \in Nat /\ DOMAIN w = 1..n /\ DOMAIN t = 1..n + 1
      /\ \A i \in 1..n : t[i] = w[i]
      /\ t[n + 1] = x /\ \A i \in 1..n + 1 : i \in 1..n \/ i = n + 1
    BY Appended
<1>2. ~Answers(x, d)
    BY DEF Answers
<1>3. /\ \A i \in DOMAIN w : After(t, i, d) <=> After(w, i, d)
      /\ RejectedIn(w, d) => RejectedIn(t, d)
      /\ ~After(t, n + 1, d)
    BY <1>2, AfterAppend
<1> HIDE DEF n, t
<1>4. \A i \in 1..n : i \in 1..n + 1 /\ i < n + 1
    BY <1>1
<1>5. \A i \in DOMAIN w : TellsIn(w, i, d, s) => TellsIn(t, i, d, s)
    BY <1>1, <1>3 DEF TellsIn
<1>6. n + 1 \in DOMAIN t /\ TellsIn(t, n + 1, d, s)
    BY <1>1, <1>3 DEF TellsIn
<1>7. VersionsIn(u, t, d, s)
    <2>1. VersionsIn(u, w, d, s)
        BY DEF FreshIn
    <2> QED
        BY <1>1, <1>3, <2>1 DEF VersionsIn
<1>8. SnapshotsIn(u, t, H, p, c, d, s)
    <2>1. SnapshotsIn(u, w, H, p, c, d, s)
        BY DEF FreshIn
    <2>2. SUFFICES ASSUME NEW k \in DOMAIN t, t[k].kind = "snapshot"
                   PROVE  \/ HeardIn(H, p, c, d, s) \/ AskedIn(u, d)
                          \/ RejectedIn(t, d) \/ After(t, k, d)
                          \/ \E i \in DOMAIN t : i < k /\ TellsIn(t, i, d, s)
        BY DEF SnapshotsIn
    <2>3. k \in 1..n /\ w[k].kind = "snapshot"
        BY <1>1, <2>2
    <2>4. \/ HeardIn(H, p, c, d, s) \/ AskedIn(u, d)
          \/ RejectedIn(w, d) \/ After(w, k, d)
          \/ \E i \in DOMAIN w : i < k /\ TellsIn(w, i, d, s)
        BY <1>1, <2>1, <2>3 DEF SnapshotsIn
    <2>5. ASSUME NEW i \in DOMAIN w, i < k, TellsIn(w, i, d, s)
          PROVE  i \in DOMAIN t /\ i < k /\ TellsIn(t, i, d, s)
        BY <1>1, <1>4, <1>5, <2>5
    <2> QED
        BY <1>1, <1>3, <2>3, <2>4, <2>5
<1>9. SentIn(u, t, H, p, c, d, s, v2)
    BY <1>6 DEF SentIn
<1> QED
    BY <1>6, <1>7, <1>8, <1>9 DEF FreshIn, t

\* What is known of responses when the first one is read.
LEMMA AfterTail ==
    ASSUME NEW w \in Seq(Response), w # <<>>, NEW d, NEW s
    PROVE  LET n == Len(w)
               t == Tail(w)
           IN  /\ \A i \in 1..n - 1 : After(t, i, d) <=> After(w, i + 1, d)
               /\ \A i \in 1..n - 1 : TellsIn(t, i, d, s) <=> TellsIn(w, i + 1, d, s)
               /\ RejectedIn(w, d) /\ ~(Head(w).kind = "error" /\ Head(w).doc = d)
                      => RejectedIn(t, d)
               /\ RejectedIn(t, d) => RejectedIn(w, d)
<1> DEFINE n == Len(w)
           t == Tail(w)
<1>1. /\ n \in Nat /\ Head(w) = w[1] /\ n >= 1
      /\ DOMAIN w = 1..n /\ DOMAIN t = 1..n - 1
      /\ \A i \in 1..n - 1 : t[i] = w[i + 1]
      /\ \A i \in 1..n - 1 : i + 1 \in 1..n
      /\ \A i \in 1..n : i = 1 \/ (i - 1 \in 1..n - 1 /\ (i - 1) + 1 = i)
    BY Tailed
<1> HIDE DEF n, t
<1>2. ASSUME NEW i \in 1..n - 1
      PROVE  After(t, i, d) <=> After(w, i + 1, d)
    <2>1. ASSUME NEW j \in DOMAIN t, j > i, Answers(t[j], d)
          PROVE  j + 1 \in DOMAIN w /\ j + 1 > i + 1 /\ Answers(w[j + 1], d)
        BY <1>1, <2>1
    <2>2. ASSUME NEW j \in DOMAIN w, j > i + 1, Answers(w[j], d)
          PROVE  j - 1 \in DOMAIN t /\ j - 1 > i /\ Answers(t[j - 1], d)
        <3>1. j # 1 /\ j \in 1..n
            BY <1>1, <2>2
        <3>2. j - 1 \in 1..n - 1 /\ (j - 1) + 1 = j
            BY <1>1, <3>1
        <3>3. t[j - 1] = w[j]
            BY <1>1, <3>2
        <3>4. j - 1 > i
            BY <1>1, <2>2, <3>1
        <3> QED
            BY <1>1, <2>2, <3>2, <3>3, <3>4
    <2> QED
        BY <2>1, <2>2 DEF After
<1>3. ASSUME NEW i \in 1..n - 1
      PROVE  TellsIn(t, i, d, s) <=> TellsIn(w, i + 1, d, s)
    BY <1>1, <1>2 DEF TellsIn
<1>4. ASSUME RejectedIn(w, d), ~(Head(w).kind = "error" /\ Head(w).doc = d)
      PROVE  RejectedIn(t, d)
    <2>1. PICK i \in DOMAIN w : w[i].kind = "error" /\ w[i].doc = d
        BY <1>4 DEF RejectedIn
    <2>2. i # 1
        BY <1>1, <1>4, <2>1
    <2>3. i - 1 \in DOMAIN t /\ t[i - 1] = w[i]
        BY <1>1, <2>2
    <2> QED
        BY <2>1, <2>3 DEF RejectedIn
<1>5. RejectedIn(t, d) => RejectedIn(w, d)
    BY <1>1 DEF RejectedIn
<1> QED
    BY <1>2, <1>3, <1>4, <1>5 DEF n, t

\* The first response is read.  If it tells d's version, d is fresh.
LEMMA FreshTail ==
    ASSUME NEW u, NEW w \in Seq(Response), w # <<>>, NEW H, NEW p, NEW c,
           NEW d, NEW s, NEW v, NEW H2, NEW p2, NEW c2,
           FreshIn(u, w, H, p, c, d, s, v),
           HeardIn(H, p, c, d, s) => HeardIn(H2, p2, c2, d, s),
           TellsIn(w, 1, d, s) => AskedIn(u, d) \/ HeardIn(H2, p2, c2, d, s),
           ~(Head(w).kind = "error" /\ Head(w).doc = d)
    PROVE  FreshIn(u, Tail(w), H2, p2, c2, d, s, v)
<1> DEFINE n == Len(w)
           t == Tail(w)
<1>1. /\ n \in Nat /\ Head(w) = w[1] /\ n >= 1
      /\ DOMAIN w = 1..n /\ DOMAIN t = 1..n - 1
      /\ \A i \in 1..n - 1 : t[i] = w[i + 1]
      /\ \A i \in 1..n - 1 : i + 1 \in 1..n
      /\ \A i \in 1..n : i = 1 \/ (i - 1 \in 1..n - 1 /\ (i - 1) + 1 = i)
    BY Tailed
<1>2. /\ \A i \in 1..n - 1 : After(t, i, d) <=> After(w, i + 1, d)
      /\ \A i \in 1..n - 1 : TellsIn(t, i, d, s) <=> TellsIn(w, i + 1, d, s)
      /\ RejectedIn(w, d) => RejectedIn(t, d)
    BY AfterTail
<1> HIDE DEF n, t
<1>3. VersionsIn(u, t, d, s)
    <2>1. VersionsIn(u, w, d, s)
        BY DEF FreshIn
    <2> QED
        BY <1>1, <1>2, <2>1 DEF VersionsIn
<1>4. ASSUME NEW i \in DOMAIN w, TellsIn(w, i, d, s)
      PROVE  \/ AskedIn(u, d) \/ HeardIn(H2, p2, c2, d, s)
             \/ i - 1 \in DOMAIN t /\ TellsIn(t, i - 1, d, s)
    <2>1. CASE i = 1
        BY <1>4, <2>1
    <2>2. CASE i # 1
        BY <1>1, <1>2, <1>4, <2>2
    <2> QED
        BY <2>1, <2>2
<1>5. SnapshotsIn(u, t, H2, p2, c2, d, s)
    <2>1. SnapshotsIn(u, w, H, p, c, d, s)
        BY DEF FreshIn
    <2>2. SUFFICES ASSUME NEW k \in DOMAIN t, t[k].kind = "snapshot"
                   PROVE  \/ HeardIn(H2, p2, c2, d, s) \/ AskedIn(u, d)
                          \/ RejectedIn(t, d) \/ After(t, k, d)
                          \/ \E i \in DOMAIN t : i < k /\ TellsIn(t, i, d, s)
        BY DEF SnapshotsIn
    <2>3. k + 1 \in DOMAIN w /\ w[k + 1].kind = "snapshot" /\ k \in 1..n - 1
        BY <1>1, <2>2
    <2>4. \/ HeardIn(H, p, c, d, s) \/ AskedIn(u, d)
          \/ RejectedIn(w, d) \/ After(w, k + 1, d)
          \/ \E i \in DOMAIN w : i < k + 1 /\ TellsIn(w, i, d, s)
        BY <2>1, <2>3 DEF SnapshotsIn
    <2>5. CASE \E i \in DOMAIN w : i < k + 1 /\ TellsIn(w, i, d, s)
        <3>1. PICK i \in DOMAIN w : i < k + 1 /\ TellsIn(w, i, d, s)
            BY <2>5
        <3>2. i - 1 < k
            BY <1>1, <2>3, <3>1
        <3> QED
            BY <1>4, <3>1, <3>2
    <2>6. CASE \/ HeardIn(H, p, c, d, s) \/ AskedIn(u, d)
               \/ RejectedIn(w, d) \/ After(w, k + 1, d)
        BY <1>2, <2>3, <2>6
    <2> QED
        BY <2>4, <2>5, <2>6
<1>6. SentIn(u, t, H2, p2, c2, d, s, v)
    <2>1. SentIn(u, w, H, p, c, d, s, v)
        BY DEF FreshIn
    <2> QED
        BY <1>4, <2>1 DEF SentIn
<1> QED
    BY <1>3, <1>5, <1>6 DEF FreshIn, t

\* The last response to d and what the server sends agree.
LEMMA ToldAppend ==
    ASSUME NEW w \in Seq(Response), NEW x \in Response, NEW d, NEW v, NEW v2,
           ToldIn(w, d, v),
           IF Answers(x, d) THEN x.kind = "added" <=> v2 # NotWatched
           ELSE v2 # NotWatched <=> v # NotWatched
    PROVE  ToldIn(Append(w, x), d, v2)
<1> DEFINE n == Len(w)
           t == Append(w, x)
<1>1. /\ n \in Nat /\ DOMAIN w = 1..n /\ DOMAIN t = 1..n + 1
      /\ \A i \in 1..n : t[i] = w[i]
      /\ t[n + 1] = x /\ \A i \in 1..n + 1 : i \in 1..n \/ i = n + 1
    BY Appended
<1>2. \A i \in DOMAIN w : After(t, i, d) <=> After(w, i, d) \/ Answers(x, d)
    BY AfterAppend
<1> HIDE DEF n, t
<1>3. ToldIn(t, d, v2)
    BY <1>1, <1>2 DEF ToldIn
<1> QED
    BY <1>3 DEF t

LEMMA ToldTail ==
    ASSUME NEW w \in Seq(Response), w # <<>>, NEW d, NEW v, ToldIn(w, d, v)
    PROVE  ToldIn(Tail(w), d, v)
<1> DEFINE n == Len(w)
           t == Tail(w)
<1>1. /\ DOMAIN w = 1..n /\ DOMAIN t = 1..n - 1
      /\ \A i \in 1..n - 1 : t[i] = w[i + 1]
      /\ \A i \in 1..n - 1 : i + 1 \in 1..n
    BY Tailed
<1>2. \A i \in 1..n - 1 : After(t, i, d) <=> After(w, i + 1, d)
    BY AfterTail
<1> HIDE DEF n, t
<1>3. ToldIn(t, d, v)
    BY <1>1, <1>2 DEF ToldIn
<1> QED
    BY <1>3 DEF t

LEMMA AskedAppend ==
    ASSUME NEW u \in Seq(Request), NEW r \in Request, NEW d
    PROVE  AskedIn(Append(u, r), d) <=> AskedIn(u, d) \/ r.doc = d
<1> DEFINE n == Len(u)
           t == Append(u, r)
<1>1. /\ n \in Nat /\ DOMAIN u = 1..n /\ DOMAIN t = 1..n + 1
      /\ \A i \in 1..n : t[i] = u[i]
      /\ t[n + 1] = r /\ \A i \in 1..n + 1 : i \in 1..n \/ i = n + 1
    BY Appended
<1> HIDE DEF n, t
<1>2. n + 1 \in 1..n + 1 /\ \A i \in 1..n : i \in 1..n + 1
    BY <1>1
<1>3. AskedIn(t, d) <=> AskedIn(u, d) \/ r.doc = d
    BY <1>1, <1>2 DEF AskedIn
<1> QED
    BY <1>3 DEF t

LEMMA AskedTail ==
    ASSUME NEW u \in Seq(Request), u # <<>>, NEW d
    PROVE  AskedIn(u, d) <=> AskedIn(Tail(u), d) \/ Head(u).doc = d
<1> DEFINE n == Len(u)
           t == Tail(u)
<1>1. /\ n \in Nat /\ n >= 1 /\ Head(u) = u[1]
      /\ DOMAIN u = 1..n /\ DOMAIN t = 1..n - 1
      /\ \A i \in 1..n - 1 : t[i] = u[i + 1]
      /\ \A i \in 1..n - 1 : i + 1 \in 1..n
      /\ \A i \in 1..n : i = 1 \/ (i - 1 \in 1..n - 1 /\ (i - 1) + 1 = i)
    BY Tailed
<1> HIDE DEF n, t
<1>2. 1 \in DOMAIN u
    BY <1>1
<1>3. ASSUME NEW i \in DOMAIN u, u[i].doc = d
      PROVE  AskedIn(t, d) \/ u[1].doc = d
    <2>1. CASE i = 1
        BY <1>3, <2>1
    <2>2. CASE i # 1
        <3>1. i - 1 \in DOMAIN t /\ t[i - 1] = u[i]
            BY <1>1, <2>2
        <3> QED
            BY <1>3, <3>1 DEF AskedIn
    <2> QED
        BY <2>1, <2>2
<1>4. ASSUME NEW i \in DOMAIN t, t[i].doc = d
      PROVE  AskedIn(u, d)
    <2>1. i + 1 \in DOMAIN u /\ u[i + 1].doc = d
        BY <1>1, <1>4
    <2> QED
        BY <2>1 DEF AskedIn
<1>5. AskedIn(u, d) <=> AskedIn(t, d) \/ u[1].doc = d
    BY <1>2, <1>3, <1>4 DEF AskedIn
<1> QED
    BY <1>1, <1>5 DEF t

---------------------------------------------------------------------------
(* Lemmas about the stream and the tracker of the online state.            *)

\* A stream that asks for a token exactly while it is starting.
StreamGood(s) ==
    /\ s \in StreamType
    /\ s.asked \subseteq 0..s.closes
    /\ s.closes \in s.asked <=> s.state = "Starting"

\* The fields of a stream.
LEMMA StreamFields ==
    ASSUME NEW s \in StreamType
    PROVE  /\ s.state \in StreamState /\ s.closes \in Nat
           /\ s.asked \in SUBSET Nat /\ s.idle \in BOOLEAN
           /\ s = [state |-> s.state, closes |-> s.closes, asked |-> s.asked,
                   idle |-> s.idle]
BY DEF StreamType

\* A stream that is closed has a close count of its own.
LEMMA FailGood ==
    ASSUME NEW s \in StreamType, s.asked \subseteq 0..s.closes
    PROVE  /\ StreamGood(Fail(s)) /\ Fail(s).state = "Error" /\ ~Fail(s).idle
           /\ StreamGood(InhibitBackoff(Fail(s)))
           /\ InhibitBackoff(Fail(s)).state = "Initial"
           /\ ~InhibitBackoff(Fail(s)).idle
<1> DEFINE n == s.closes + 1
<1>1. s.closes \in Nat /\ s.asked \in SUBSET Nat
    BY StreamFields
<1>2. n \in Nat /\ s.asked \subseteq 0..n /\ n \notin s.asked
    BY <1>1
<1> HIDE DEF n
<1>3. /\ Fail(s) \in StreamType /\ Fail(s).state = "Error"
      /\ Fail(s).closes = n /\ Fail(s).asked = s.asked
      /\ Fail(s).idle = FALSE
    BY <1>1, <1>2 DEF Fail, StreamType, StreamState, n
<1>4. /\ InhibitBackoff(Fail(s)) \in StreamType
      /\ InhibitBackoff(Fail(s)).state = "Initial"
      /\ InhibitBackoff(Fail(s)).closes = n
      /\ InhibitBackoff(Fail(s)).asked = s.asked
      /\ InhibitBackoff(Fail(s)).idle = FALSE
    BY <1>3 DEF InhibitBackoff, StreamType, StreamState
<1> QED
    BY <1>2, <1>3, <1>4 DEF StreamGood

LEMMA StopGood ==
    ASSUME NEW s, StreamGood(s), s.idle => IsOpen(s)
    PROVE  /\ StreamGood(Stop(s)) /\ ~IsStarted(Stop(s)) /\ ~Stop(s).idle
           /\ StreamGood(InhibitBackoff(Stop(s)))
           /\ InhibitBackoff(Stop(s)).state = "Initial"
           /\ ~InhibitBackoff(Stop(s)).idle
<1>1. /\ s \in StreamType /\ s.closes \in Nat /\ s.asked \in SUBSET Nat
      /\ s.asked \subseteq 0..s.closes /\ s.state \in StreamState
      /\ s.idle \in BOOLEAN
    BY StreamFields DEF StreamGood
<1>2. CASE IsStarted(s)
    <2> DEFINE n == s.closes + 1
               t == Stop(s)
    <2>1. n \in Nat /\ s.asked \subseteq 0..n /\ n \notin s.asked
        BY <1>1
    <2> HIDE DEF n
    <2>2. /\ t \in StreamType /\ t.state = "Initial"
          /\ t.closes = n /\ t.asked = s.asked
          /\ t.idle = FALSE
        BY <1>1, <1>2, <2>1 DEF Stop, StreamType, StreamState, n
    <2> HIDE DEF t
    <2>3. /\ InhibitBackoff(t) \in StreamType
          /\ InhibitBackoff(t).state = "Initial"
          /\ InhibitBackoff(t).closes = n
          /\ InhibitBackoff(t).asked = s.asked
          /\ InhibitBackoff(t).idle = FALSE
        BY <2>2 DEF InhibitBackoff, StreamType, StreamState
    <2>4. /\ StreamGood(t) /\ ~IsStarted(t) /\ ~t.idle
          /\ StreamGood(InhibitBackoff(t))
        BY <2>1, <2>2, <2>3 DEF StreamGood, IsStarted
    <2> QED
        BY <2>3, <2>4 DEF t
<1>3. CASE ~IsStarted(s)
    <2>1. Stop(s) = s /\ s.idle = FALSE /\ s.closes \notin s.asked
        BY <1>1, <1>3 DEF Stop, IsOpen, IsStarted, StreamGood
    <2>2. /\ InhibitBackoff(s) \in StreamType
          /\ InhibitBackoff(s).state = "Initial"
          /\ InhibitBackoff(s).closes = s.closes
          /\ InhibitBackoff(s).asked = s.asked
          /\ InhibitBackoff(s).idle = FALSE
        BY <1>1, <2>1 DEF InhibitBackoff, StreamType, StreamState
    <2> QED
        BY <1>1, <1>3, <2>1, <2>2 DEF StreamGood
<1> QED
    BY <1>2, <1>3

\* Starting a stream that is not started, or was in its backoff.
LEMMA StartGood ==
    ASSUME NEW s, StreamGood(s), ~IsStarted(s)
    PROVE  /\ StreamGood(Start(s)) /\ IsStarted(Start(s)) /\ ~IsOpen(Start(s))
           /\ Start(s).idle = s.idle
<1>1. /\ s \in StreamType /\ s.closes \in Nat /\ s.asked \in SUBSET Nat
      /\ s.asked \subseteq 0..s.closes /\ s.state \in StreamState
      /\ s.idle \in BOOLEAN /\ s.closes \notin s.asked
    BY StreamFields DEF StreamGood, IsStarted
<1>2. CASE s.state = "Error"
    <2>1. /\ Start(s) \in StreamType /\ Start(s).state = "Backoff"
          /\ Start(s).closes = s.closes /\ Start(s).asked = s.asked
          /\ Start(s).idle = s.idle
        BY <1>1, <1>2 DEF Start, StreamType, StreamState
    <2> QED
        BY <1>1, <2>1 DEF StreamGood, IsStarted, IsOpen
<1>3. CASE s.state # "Error"
    <2> DEFINE A == s.asked \cup {s.closes}
    <2>1. A \in SUBSET Nat /\ A \subseteq 0..s.closes /\ s.closes \in A
        BY <1>1
    <2> HIDE DEF A
    <2>2. /\ Start(s) \in StreamType /\ Start(s).state = "Starting"
          /\ Start(s).closes = s.closes /\ Start(s).asked = A
          /\ Start(s).idle = s.idle
        BY <1>1, <1>3, <2>1 DEF Start, StreamType, StreamState, A
    <2> QED
        BY <1>1, <2>1, <2>2 DEF StreamGood, IsStarted, IsOpen
<1> QED
    BY <1>2, <1>3

\* The idle timer is no concern of the state.
LEMMA IdleGood ==
    ASSUME NEW s, StreamGood(s)
    PROVE  /\ StreamGood(MarkIdle(s)) /\ MarkIdle(s).state = s.state
           /\ MarkIdle(s).idle => s.idle \/ IsOpen(s)
           /\ StreamGood(CancelIdleCheck(s))
           /\ CancelIdleCheck(s).state = s.state /\ ~CancelIdleCheck(s).idle
BY DEF StreamGood, MarkIdle, CancelIdleCheck, StreamType

\* The end of a backoff, a token that is used, and one that is not.
LEMMA BackoffGood ==
    ASSUME NEW s, StreamGood(s), s.state = "Backoff"
    PROVE  /\ StreamGood(BackoffElapsed(s)) /\ IsStarted(BackoffElapsed(s))
           /\ ~IsOpen(BackoffElapsed(s)) /\ BackoffElapsed(s).idle = s.idle
<1> DEFINE t == [s EXCEPT !.state = "Initial"]
<1>1. s \in StreamType /\ s.closes \notin s.asked /\ s.asked \subseteq 0..s.closes
    BY DEF StreamGood
<1>2. /\ t \in StreamType /\ t.state = "Initial" /\ t.closes = s.closes
      /\ t.asked = s.asked /\ t.idle = s.idle
    BY <1>1 DEF StreamType, StreamState
<1> HIDE DEF t
<1>3. StreamGood(t) /\ ~IsStarted(t)
    BY <1>1, <1>2 DEF StreamGood, IsStarted
<1>4. /\ StreamGood(Start(t)) /\ IsStarted(Start(t)) /\ ~IsOpen(Start(t))
      /\ Start(t).idle = t.idle
    BY <1>3, StartGood
<1> QED
    BY <1>2, <1>4 DEF BackoffElapsed, t

LEMMA AnsweredGood ==
    ASSUME NEW s, StreamGood(s), NEW c \in s.asked
    PROVE  /\ Answered(s, c) \in StreamType
           /\ Answered(s, c).asked \subseteq 0..Answered(s, c).closes
           /\ Answered(s, c).state = s.state /\ Answered(s, c).idle = s.idle
           /\ ~Current(s, c) => StreamGood(Answered(s, c))
           /\ Current(s, c) =>
                  LET t == OnStreamStart(Answered(s, c))
                  IN  /\ s.state = "Starting"
                      /\ StreamGood(t) /\ IsOpen(t) /\ t.idle = FALSE
<1> DEFINE A == s.asked \ {c}
           t == Answered(s, c)
<1>1. /\ s \in StreamType /\ s.closes \in Nat /\ s.asked \in SUBSET Nat
      /\ s.asked \subseteq 0..s.closes /\ s.state \in StreamState
      /\ s.idle \in BOOLEAN /\ (s.closes \in s.asked <=> s.state = "Starting")
    BY StreamFields DEF StreamGood
<1>2. A \in SUBSET Nat /\ A \subseteq 0..s.closes
    BY <1>1
<1>3. s.closes \in A <=> s.closes \in s.asked /\ s.closes # c
    OBVIOUS
<1> HIDE DEF A
<1>4. /\ t \in StreamType /\ t.state = s.state /\ t.closes = s.closes
      /\ t.asked = A /\ t.idle = s.idle
    BY <1>1, <1>2 DEF Answered, StreamType, A
<1>5. ~Current(s, c) => StreamGood(t)
    BY <1>1, <1>2, <1>3, <1>4 DEF StreamGood, Current
<1> HIDE DEF t
<1>6. ASSUME Current(s, c)
      PROVE  /\ s.state = "Starting" /\ StreamGood(OnStreamStart(t))
             /\ IsOpen(OnStreamStart(t)) /\ OnStreamStart(t).idle = FALSE
    <2>1. c = s.closes /\ s.state = "Starting"
        BY <1>1, <1>6 DEF Current
    <2>2. /\ OnStreamStart(t) \in StreamType /\ OnStreamStart(t).state = "Open"
          /\ OnStreamStart(t).closes = s.closes /\ OnStreamStart(t).asked = A
          /\ OnStreamStart(t).idle = FALSE
        BY <1>4 DEF OnStreamStart, StreamType, StreamState
    <2>3. s.closes \notin A
        BY <1>3, <2>1
    <2> QED
        BY <1>2, <2>1, <2>2, <2>3 DEF StreamGood, IsOpen
<1> QED
    BY <1>2, <1>4, <1>5, <1>6 DEF t

\* The tracker: the timer runs only while the state is unknown and nothing
\* has failed, and a client that is online has counted no failure.
TrackerGood(k) ==
    /\ k \in Tracker
    /\ k.timer => k.online = "Unknown" /\ k.failures = 0
    /\ k.online = "Online" => k.failures = 0

LEMMA TrackerSteps ==
    ASSUME NEW k, TrackerGood(k)
    PROVE  /\ \A o \in OnlineState :
                  TrackerGood(UpdateState(o)) /\ ~UpdateState(o).timer
           /\ TrackerGood(HandleWatchStreamStart(k))
           /\ TrackerGood(HandleWatchStreamFailure(k))
           /\ LET t == [k EXCEPT !.timer = FALSE, !.online = "Offline"]
              IN  TrackerGood(t) /\ ~t.timer
<1>1. /\ k \in [online : OnlineState, failures : 0..1, timer : BOOLEAN]
      /\ k.online \in OnlineState /\ k.failures \in {0, 1} /\ k.timer \in BOOLEAN
    BY DEF TrackerGood, Tracker, kMaxWatchStreamFailures
<1>2. \A o \in OnlineState : TrackerGood(UpdateState(o)) /\ ~UpdateState(o).timer
    BY DEF TrackerGood, Tracker, kMaxWatchStreamFailures, UpdateState
<1>3. TrackerGood(HandleWatchStreamStart(k))
    <2>1. CASE k.failures # 0
        BY <2>1 DEF HandleWatchStreamStart
    <2>2. CASE k.failures = 0
        BY <2>2 DEF HandleWatchStreamStart, TrackerGood, Tracker,
                    kMaxWatchStreamFailures, OnlineState
    <2> QED
        BY <2>1, <2>2
<1>4. TrackerGood(HandleWatchStreamFailure(k))
    <2>1. CASE k.online = "Online"
        <3> DEFINE t == [k EXCEPT !.online = "Unknown"]
        <3>1. k.failures = 0 /\ k.timer = FALSE
            BY <1>1, <2>1 DEF TrackerGood
        <3>2. /\ t \in [online : OnlineState, failures : 0..1, timer : BOOLEAN]
              /\ t.online = "Unknown" /\ t.failures = 0 /\ t.timer = FALSE
            BY <1>1, <3>1 DEF OnlineState
        <3>3. HandleWatchStreamFailure(k) = t
            BY <2>1 DEF HandleWatchStreamFailure
        <3> HIDE DEF t
        <3> QED
            BY <3>2, <3>3 DEF TrackerGood, Tracker, kMaxWatchStreamFailures
    <2>2. CASE k.online # "Online"
        <3> DEFINE t == [online |-> "Offline", failures |-> 1, timer |-> FALSE]
        <3> DEFINE n == IF k.failures < 1 THEN k.failures + 1 ELSE k.failures
        <3>1. n = 1
            BY <1>1
        <3> HIDE DEF n
        <3>2. HandleWatchStreamFailure(k) =
                  IF n >= 1
                  THEN [online |-> "Offline", failures |-> n, timer |-> FALSE]
                  ELSE [k EXCEPT !.failures = n]
            BY <2>2 DEF HandleWatchStreamFailure, kMaxWatchStreamFailures, n
        <3>3. HandleWatchStreamFailure(k) = t
            BY <3>1, <3>2
        <3>4. TrackerGood(t)
            BY DEF TrackerGood, Tracker, kMaxWatchStreamFailures, OnlineState
        <3> QED
            BY <3>3, <3>4
    <2> QED
        BY <2>1, <2>2
<1>5. LET t == [k EXCEPT !.timer = FALSE, !.online = "Offline"]
      IN  TrackerGood(t) /\ ~t.timer
    <2> DEFINE t == [k EXCEPT !.timer = FALSE, !.online = "Offline"]
    <2>1. /\ t \in [online : OnlineState, failures : 0..1, timer : BOOLEAN]
          /\ t.online = "Offline" /\ t.timer = FALSE
        BY <1>1 DEF OnlineState
    <2> HIDE DEF t
    <2>2. TrackerGood(t) /\ ~t.timer
        BY <2>1 DEF TrackerGood, Tracker, kMaxWatchStreamFailures
    <2> QED
        BY <2>2 DEF t
<1> QED
    BY <1>2, <1>3, <1>4, <1>5

---------------------------------------------------------------------------
(* Lemmas about the events and answers of a get() g, while the listeners   *)
(* in S are registered.                                                    *)

GetIn(v, a, g, S) ==
    /\ v \in Seq(Event) /\ a \in Seq(Event) /\ Len(a) <= 1
    /\ \A i \in DOMAIN v : v[i].from = "error" => i = Len(v) /\ g \notin S
    /\ \A i \in DOMAIN a : a[i].from = "error" => v = <<>> /\ g \notin S

LEMMA GetNew ==
    ASSUME NEW g, NEW S
    PROVE  GetIn(<<>>, <<>>, g, S)
BY DEF GetIn

LEMMA GetKeeps ==
    ASSUME NEW v, NEW a, NEW g, NEW S, NEW S2, GetIn(v, a, g, S), g \in S2 => g \in S
    PROVE  GetIn(v, a, g, S2)
BY DEF GetIn

\* An event for a listener; with an error it is gone.
LEMMA GetAppend ==
    ASSUME NEW v, NEW a, NEW g, NEW S, NEW S2, NEW x \in Event,
           GetIn(v, a, g, S), g \in S, x.from = "error" => g \notin S2
    PROVE  GetIn(Append(v, x), a, g, S2)
<1>1. v \in Seq(Event) /\ a \in Seq(Event) /\ Len(a) <= 1
    BY DEF GetIn
<1>2. /\ \A i \in DOMAIN v : v[i].from # "error"
      /\ \A i \in DOMAIN a : a[i].from # "error"
    BY DEF GetIn
<1>3. /\ Append(v, x) \in Seq(Event) /\ Len(Append(v, x)) = Len(v) + 1
      /\ DOMAIN v = 1..Len(v)
      /\ DOMAIN Append(v, x) = 1..Len(v) + 1
      /\ \A i \in 1..Len(v) : Append(v, x)[i] = v[i]
      /\ Append(v, x)[Len(v) + 1] = x
      /\ \A i \in 1..Len(v) + 1 : i \in 1..Len(v) \/ i = Len(v) + 1
    BY <1>1, Appended
<1>4. ASSUME NEW i \in DOMAIN Append(v, x), Append(v, x)[i].from = "error"
      PROVE  i = Len(Append(v, x)) /\ g \notin S2
    BY <1>2, <1>3, <1>4
<1> QED
    BY <1>1, <1>2, <1>3, <1>4 DEF GetIn

\* An event is delivered: only the first one is an answer.
LEMMA GetTail ==
    ASSUME NEW v, NEW a, NEW g, NEW S, GetIn(v, a, g, S), v # <<>>
    PROVE  /\ Head(v) \in Event
           /\ GetIn(Tail(v), a, g, S)
           /\ (\A i \in DOMAIN a : a[i].from = "error") =>
                  GetIn(Tail(v), Append(a, Head(v)), g, S)
<1>1. v \in Seq(Event) /\ a \in Seq(Event) /\ Len(a) <= 1
    BY DEF GetIn
<1>2. /\ \A i \in DOMAIN v : v[i].from = "error" => i = Len(v) /\ g \notin S
      /\ \A i \in DOMAIN a : a[i].from # "error"
    BY DEF GetIn
<1> DEFINE n == Len(v)
           t == Tail(v)
<1>3. /\ t \in Seq(Event) /\ n \in Nat /\ n >= 1
      /\ Head(v) = v[1] /\ Head(v) \in Event
      /\ DOMAIN v = 1..n /\ DOMAIN t = 1..n - 1
      /\ \A i \in 1..n - 1 : t[i] = v[i + 1]
      /\ \A i \in 1..n - 1 : i + 1 \in 1..n
    BY <1>1, Tailed
<1>4. Len(t) = n - 1
    BY <1>1, HeadTailProperties
<1> HIDE DEF n, t
<1>5. ASSUME NEW i \in DOMAIN t, t[i].from = "error"
      PROVE  i = Len(t) /\ g \notin S
    <2>1. i \in 1..n - 1 /\ i + 1 \in DOMAIN v /\ v[i + 1].from = "error"
        BY <1>3, <1>5
    <2>2. i + 1 = n /\ g \notin S
        BY <1>2, <2>1 DEF n
    <2> QED
        BY <1>3, <1>4, <2>1, <2>2
<1>6. GetIn(t, a, g, S)
    BY <1>1, <1>2, <1>3, <1>5 DEF GetIn
<1>7. ASSUME \A i \in DOMAIN a : a[i].from = "error"
      PROVE  GetIn(t, Append(a, Head(v)), g, S)
    <2>1. Len(a) \in Nat /\ DOMAIN a = 1..Len(a)
        BY <1>1, LenProperties
    <2>2. Len(a) = 0
        <3>1. Len(a) # 0 => 1 \in DOMAIN a
            BY <2>1
        <3> QED
            BY <1>2, <1>7, <3>1
    <2> DEFINE b == Append(a, Head(v))
    <2>3. b \in Seq(Event) /\ Len(b) = 1 /\ DOMAIN b = 1..1 /\ b[1] = v[1]
        BY <1>1, <1>3, <2>2, Appended
    <2> HIDE DEF b
    <2>4. ASSUME v[1].from = "error" PROVE t = <<>> /\ g \notin S
        <3>1. 1 = n /\ g \notin S
            BY <1>2, <1>3, <2>4 DEF n
        <3>2. Len(t) = 0
            BY <1>4, <3>1
        <3> QED
            BY <1>3, <3>1, <3>2, EmptySeq
    <2>5. \A i \in DOMAIN b : i = 1
        BY <2>3
    <2>6. GetIn(t, b, g, S)
        BY <1>3, <1>5, <2>3, <2>4, <2>5 DEF GetIn
    <2> QED
        BY <2>6 DEF b
<1> QED
    BY <1>3, <1>6, <1>7 DEF t

---------------------------------------------------------------------------
(* The inductive invariant, in four parts: the listeners; the stream and   *)
(* the tracker; the connection; what the views show.                       *)

ListenOK ==
    /\ queries \in [Doc -> SUBSET Listener]
    /\ raised \in SUBSET Get
    /\ muted \in SUBSET Get
    /\ doc \in [Listener -> Doc \cup {NoDoc}]
    /\ events \in [Get -> Seq(Event)]
    /\ answers \in [Get -> Seq(Event)]
    /\ targets = {d \in Doc : queries[d] # {}}
    /\ \A d \in Doc : \A l \in queries[d] : doc[l] = d
    /\ \A g \in Get :
           /\ GetIn(events[g], answers[g], g, Listening)
           /\ doc[g] = NoDoc =>
                  events[g] = <<>> /\ answers[g] = <<>> /\ g \notin muted

StreamOK ==
    /\ StreamGood(stream)
    /\ stream.idle => IsOpen(stream) /\ targets = {}
    /\ TrackerGood(tracker)
    /\ tracker.timer => IsStarted(stream)
    /\ enabled \in BOOLEAN /\ unarmed \in BOOLEAN /\ stray \in BOOLEAN
    /\ faults \in 0..MaxFaults

\* The count of the responses that are due, and the targets at the server.
Counted(d) == due[d] = Count(up, For(d)) + Count(down, To(d))
Agreed(d) ==
    RejectedIn(down, d) \/ (WatchedIn(up, sent[d], d) <=> d \in targets)

WireOK ==
    /\ up \in Seq(Request) /\ down \in Seq(Response)
    /\ sent \in [Doc -> Version \cup {Nothing, NotWatched}]
    /\ due \in [Doc -> Int]
    /\ heard \in SUBSET Doc
    /\ pending \in [Doc -> Version \cup {Nothing}]
    /\ version \in [Doc -> Version]
    /\ NoConnection
    /\ \A d \in Doc : ToldIn(down, d, sent[d])
    /\ IsOpen(stream) /\ ~stray => \A d \in Doc : Counted(d) /\ Agreed(d)

FreshOK ==
    /\ cache \in [Doc -> Version]
    /\ since \in [Doc -> Version]
    /\ current \subseteq targets
    /\ \A d \in Doc : since[d] <= version[d]
    /\ ~stray => \A d \in targets :
           FreshIn(up, down, heard, pending[d], cache[d], d, since[d], sent[d])
    /\ ~stray => \A d \in current :
           /\ cache[d] >= since[d]
           /\ pending[d] # Nothing => pending[d] >= since[d]

IInv == ListenOK /\ StreamOK /\ WireOK /\ FreshOK

LEMMA VersionFacts ==
    /\ Version \subseteq Int /\ \A v \in Version : v >= 0
    /\ Nothing \notin Version /\ NotWatched \notin Version
    /\ Nothing # NotWatched /\ NoDoc \notin Doc
BY WatchAssumption DEF Version, Nothing, NotWatched, NoDoc

\* A listener that is registered has a document.
LEMMA ListeningIs ==
    ASSUME ListenOK
    PROVE  /\ Listening \subseteq Listener
           /\ \A l \in Listening : doc[l] \in Doc /\ l \in queries[doc[l]]
           /\ \A d \in Doc : queries[d] \subseteq Listening
           /\ targets \subseteq Doc
           /\ \A l \in Listening : doc[l] \in targets
           /\ \A l : l \in Listening <=> \E d \in Doc : l \in queries[d]
<1>1. \A l : l \in Listening <=> \E d \in Doc : l \in queries[d]
    BY DEF Listening
<1>2. /\ queries \in [Doc -> SUBSET Listener]
      /\ targets = {d \in Doc : queries[d] # {}}
      /\ \A d \in Doc : \A l \in queries[d] : doc[l] = d
    BY DEF ListenOK
<1> QED
    BY <1>1, <1>2

---------------------------------------------------------------------------
(* Lemmas about the listeners.                                             *)

\* Who gets an event, and what it says.
LEMMA RaiseIs ==
    ASSUME NEW L, NEW e \in BOOLEAN, Raise(L, e), ListenOK,
           doc' \in [Listener -> Doc \cup {NoDoc}], cache' \in [Doc -> Version],
           \A g \in L \cap Get : doc'[g] \in Doc
    PROVE  /\ raised' \in SUBSET Get
           /\ events' \in [Get -> Seq(Event)]
           /\ \A g \in Get \ L : events'[g] = events[g]
           /\ \A g \in L \cap Get :
                  \E x \in Event : /\ events'[g] = Append(events[g], x)
                                   /\ x.from = "error" => e = TRUE
<1> DEFINE x(g) == [from |-> IF e THEN "error"
                             ELSE IF doc'[g] \in current' THEN "server"
                             ELSE "cache",
                    version |-> cache'[doc'[g]]]
<1>1. raised' = raised \cup (L \cap Get)
    BY DEF Raise
<1>2. events' = [g \in Get |-> IF g \in L THEN Append(events[g], x(g))
                               ELSE events[g]]
    BY DEF Raise
<1>3. raised' \in SUBSET Get
    BY <1>1 DEF ListenOK
<1>4. ASSUME NEW g \in L \cap Get
      PROVE  x(g) \in Event /\ (x(g).from = "error" => e = TRUE)
    <2>1. cache'[doc'[g]] \in Version
        OBVIOUS
    <2> QED
        BY <2>1 DEF Event
<1>5. \A g \in Get : events[g] \in Seq(Event)
    BY DEF ListenOK
<1> HIDE DEF x
<1>6. \A g \in L \cap Get : Append(events[g], x(g)) \in Seq(Event)
    <2>1. \A g \in L \cap Get : events[g] \in Seq(Event) /\ x(g) \in Event
        BY <1>4, <1>5
    <2> QED
        BY <2>1, AppendProperties
<1>7. /\ \A g \in Get \ L : events'[g] = events[g]
      /\ \A g \in L \cap Get : events'[g] = Append(events[g], x(g))
    BY <1>2
<1>8. events' \in [Get -> Seq(Event)]
    BY <1>2, <1>5, <1>6
<1> QED
    BY <1>3, <1>4, <1>7, <1>8

\* Registered listeners get an event that is no error.
LEMMA RaiseKeeps ==
    ASSUME NEW L, Raise(L, FALSE), ListenOK, L \subseteq Listening,
           cache' \in [Doc -> Version], UNCHANGED <<queries, doc, muted, answers,
                                                    targets>>
    PROVE  ListenOK'
<1>1. /\ Listening \subseteq Listener
      /\ \A l \in Listening : doc[l] \in Doc
    BY ListeningIs
<1>2. doc \in [Listener -> Doc \cup {NoDoc}] /\ doc' = doc
    BY DEF ListenOK
<1>3. \A g \in L \cap Get : doc'[g] \in Doc
    BY <1>1, <1>2
<1>4. /\ raised' \in SUBSET Get
      /\ events' \in [Get -> Seq(Event)]
      /\ \A g \in Get \ L : events'[g] = events[g]
      /\ \A g \in L \cap Get :
             \E x \in Event : /\ events'[g] = Append(events[g], x)
                              /\ x.from = "error" => FALSE = TRUE
    BY <1>2, <1>3, RaiseIs
<1>5. Listening' = Listening
    BY DEF Listening
<1>6. ASSUME NEW g \in Get
      PROVE  /\ GetIn(events'[g], answers'[g], g, Listening')
             /\ doc'[g] = NoDoc =>
                    events'[g] = <<>> /\ answers'[g] = <<>> /\ g \notin muted'
    <2>1. /\ GetIn(events[g], answers[g], g, Listening)
          /\ doc[g] = NoDoc =>
                 events[g] = <<>> /\ answers[g] = <<>> /\ g \notin muted
        BY DEF ListenOK
    <2>2. CASE g \in L
        <3>1. PICK x \in Event : /\ events'[g] = Append(events[g], x)
                                 /\ x.from # "error"
            BY <1>4, <2>2
        <3>2. GetIn(Append(events[g], x), answers[g], g, Listening)
            BY <2>1, <2>2, <3>1, GetAppend
        <3>3. doc[g] # NoDoc
            BY <1>1, <2>2, VersionFacts
        <3> QED
            BY <1>5, <3>1, <3>2, <3>3
    <2>3. CASE g \notin L
        BY <1>4, <1>5, <2>1, <2>3
    <2> QED
        BY <2>2, <2>3
<1> QED
    BY <1>4, <1>6 DEF ListenOK

\* The online state is told to the listeners.
LEMMA BroadcastKeeps ==
    ASSUME ListenOK, Broadcast, cache' \in [Doc -> Version],
           UNCHANGED <<queries, doc, muted, answers, targets>>
    PROVE  ListenOK' /\ current' \in {current, {}}
<1> DEFINE offline == tracker.online # "Offline" /\ tracker'.online = "Offline"
           L == {l \in Listening : /\ offline
                                   /\ l \notin raised \/ doc[l] \in current}
<1>1. current' = (IF offline THEN {} ELSE current) /\ Raise(L, FALSE)
    BY DEF Broadcast
<1>2. L \subseteq Listening
    OBVIOUS
<1> HIDE DEF L, offline
<1>3. ListenOK'
    BY <1>1, <1>2, RaiseKeeps
<1> QED
    BY <1>1, <1>3

\* Nothing happens to the listeners.
LEMMA ListenFrame ==
    ASSUME ListenOK, UNCHANGED <<listening, targets>>
    PROVE  ListenOK'
<1>1. UNCHANGED <<queries, raised, events, muted, doc, answers, targets>>
    BY DEF listening
<1>2. Listening' = Listening
    BY <1>1 DEF Listening
<1> QED
    BY <1>1, <1>2 DEF ListenOK

\* A listener is added.
LEMMA AddListens ==
    ASSUME IInv, NEW l \in Listener, NEW d \in Doc, AddQueryListener(l, d)
    PROVE  /\ ListenOK'
           /\ targets' = targets \cup {d}
           /\ d \in targets <=> queries[d] # {}
<1> DEFINE L == IF d \in current \/ tracker.online = "Offline" THEN {l} ELSE {}
<1>1. ListenOK /\ cache \in [Doc -> Version]
    BY DEF IInv, FreshOK
<1>2. /\ doc[l] = NoDoc /\ doc' = [doc EXCEPT ![l] = d]
      /\ queries' = [queries EXCEPT ![d] = @ \cup {l}]
      /\ cache' = cache /\ muted' = muted /\ answers' = answers
      /\ Raise(L, FALSE)
    BY DEF AddQueryListener
<1>3. /\ queries \in [Doc -> SUBSET Listener]
      /\ doc \in [Listener -> Doc \cup {NoDoc}]
      /\ targets = {e \in Doc : queries[e] # {}}
      /\ \A e \in Doc : \A k \in queries[e] : doc[k] = e
      /\ muted \in SUBSET Get /\ answers \in [Get -> Seq(Event)]
    BY <1>1 DEF ListenOK
<1>4. targets' = targets \cup {d} /\ (d \in targets <=> queries[d] # {})
    <2>1. d \in targets <=> queries[d] # {}
        BY <1>3
    <2>2. CASE queries[d] # {}
        BY <2>1, <2>2 DEF AddQueryListener
    <2>3. CASE queries[d] = {}
        BY <2>1, <2>3 DEF AddQueryListener
    <2> QED
        BY <2>1, <2>2, <2>3
<1> HIDE DEF L
<1>5. /\ queries' \in [Doc -> SUBSET Listener]
      /\ doc' \in [Listener -> Doc \cup {NoDoc}]
      /\ queries'[d] = queries[d] \cup {l} /\ doc'[l] = d
      /\ \A e \in Doc \ {d} : queries'[e] = queries[e]
      /\ \A k \in Listener \ {l} : doc'[k] = doc[k]
    BY <1>2, <1>3
<1>6. targets' = {e \in Doc : queries'[e] # {}}
    <2>1. \A e \in Doc : queries'[e] # {} <=> queries[e] # {} \/ e = d
        BY <1>5
    <2> QED
        BY <1>3, <1>4, <2>1
<1>7. \A e \in Doc : l \notin queries[e]
    BY <1>2, <1>3, VersionFacts
<1>8. \A e \in Doc : \A k \in queries'[e] : doc'[k] = e
    BY <1>3, <1>5, <1>7
<1>9. \A k : k \in Listening' => k \in Listening \/ k = l
    BY <1>5 DEF Listening
<1>10. L \subseteq {l}
    BY DEF L
<1>11. \A g \in L \cap Get : doc'[g] \in Doc
    BY <1>5, <1>10
<1>12. /\ raised' \in SUBSET Get
       /\ events' \in [Get -> Seq(Event)]
       /\ \A g \in Get \ L : events'[g] = events[g]
       /\ \A g \in L \cap Get :
              \E x \in Event : /\ events'[g] = Append(events[g], x)
                               /\ x.from = "error" => FALSE = TRUE
    BY <1>1, <1>2, <1>5, <1>11, RaiseIs
<1>13. ASSUME NEW g \in Get
       PROVE  /\ GetIn(events'[g], answers'[g], g, Listening')
              /\ doc'[g] = NoDoc =>
                     events'[g] = <<>> /\ answers'[g] = <<>> /\ g \notin muted'
    <2>1. /\ GetIn(events[g], answers[g], g, Listening)
          /\ doc[g] = NoDoc =>
                 events[g] = <<>> /\ answers[g] = <<>> /\ g \notin muted
        BY <1>1 DEF ListenOK
    <2>2. CASE g = l
        <3>1. events[g] = <<>> /\ answers[g] = <<>>
            BY <1>2, <2>1, <2>2
        <3>2. GetIn(<<>>, <<>>, g, {g}) /\ GetIn(<<>>, <<>>, g, Listening')
            BY GetNew
        <3>3. doc'[g] # NoDoc
            BY <1>5, <2>2, VersionFacts
        <3>4. CASE g \in L
            <4>1. PICK x \in Event : /\ events'[g] = Append(events[g], x)
                                     /\ x.from # "error"
                BY <1>12, <3>4
            <4>2. GetIn(Append(<<>>, x), <<>>, g, Listening')
                BY <3>2, <4>1, GetAppend
            <4> QED
                BY <1>2, <3>1, <3>3, <4>1, <4>2
        <3>5. CASE g \notin L
            BY <1>2, <1>12, <3>1, <3>2, <3>3, <3>5
        <3> QED
            BY <3>4, <3>5
    <2>3. CASE g # l
        <3>1. /\ events'[g] = events[g] /\ answers'[g] = answers[g]
              /\ g \in Listener /\ doc'[g] = doc[g]
            BY <1>2, <1>5, <1>10, <1>12, <2>3 DEF Listener
        <3>2. GetIn(events[g], answers[g], g, Listening')
            BY <1>9, <2>1, <2>3, GetKeeps
        <3> QED
            BY <1>2, <2>1, <3>1, <3>2
    <2> QED
        BY <2>2, <2>3
<1>14. muted' \in SUBSET Get /\ answers' \in [Get -> Seq(Event)]
    BY <1>2, <1>3
<1>15. ListenOK'
    BY <1>5, <1>6, <1>8, <1>12, <1>13, <1>14 DEF ListenOK
<1> QED
    BY <1>4, <1>15

\* Listeners of d are gone.
LEMMA FewerListen ==
    ASSUME ListenOK, NEW d \in Doc, NEW K \in SUBSET queries[d],
           queries' = [queries EXCEPT ![d] = K],
           targets' = IF K = {} THEN targets \ {d} ELSE targets,
           raised' \in SUBSET Get, muted' \in SUBSET muted,
           events' \in [Get -> Seq(Event)], UNCHANGED <<doc, answers>>,
           \A g \in Get : \/ events'[g] = events[g]
                          \/ /\ g \in queries[d] /\ g \notin K
                             /\ \E x \in Event : events'[g] = Append(events[g], x)
    PROVE  ListenOK'
<1>1. /\ queries \in [Doc -> SUBSET Listener]
      /\ doc \in [Listener -> Doc \cup {NoDoc}]
      /\ targets = {e \in Doc : queries[e] # {}}
      /\ \A e \in Doc : \A k \in queries[e] : doc[k] = e
      /\ muted \in SUBSET Get /\ answers \in [Get -> Seq(Event)]
    BY DEF ListenOK
<1>2. /\ queries' \in [Doc -> SUBSET Listener] /\ queries'[d] = K
      /\ \A e \in Doc \ {d} : queries'[e] = queries[e]
    BY <1>1
<1>3. targets' = {e \in Doc : queries'[e] # {}}
    <2>1. CASE K = {}
        BY <1>1, <1>2, <2>1
    <2>2. CASE K # {}
        BY <1>1, <1>2, <2>2
    <2> QED
        BY <2>1, <2>2
<1>4. \A e \in Doc : \A k \in queries'[e] : doc'[k] = e
    BY <1>1, <1>2
<1>5. \A k : k \in Listening' => k \in Listening
    BY <1>2 DEF Listening
<1>6. \A g \in queries[d] : g \in Listening /\ (g \in Listening' => g \in K)
    BY <1>1, <1>2 DEF Listening
<1>7. ASSUME NEW g \in Get
      PROVE  /\ GetIn(events'[g], answers'[g], g, Listening')
             /\ doc'[g] = NoDoc =>
                    events'[g] = <<>> /\ answers'[g] = <<>> /\ g \notin muted'
    <2>1. /\ GetIn(events[g], answers[g], g, Listening)
          /\ doc[g] = NoDoc =>
                 events[g] = <<>> /\ answers[g] = <<>> /\ g \notin muted
        BY DEF ListenOK
    <2>2. CASE events'[g] = events[g]
        <3>1. GetIn(events[g], answers[g], g, Listening')
            BY <1>5, <2>1, GetKeeps
        <3> QED
            BY <2>1, <2>2, <3>1
    <2>3. CASE /\ g \in queries[d] /\ g \notin K
               /\ \E x \in Event : events'[g] = Append(events[g], x)
        <3>1. PICK x \in Event : events'[g] = Append(events[g], x)
            BY <2>3
        <3>2. g \in Listening /\ g \notin Listening'
            BY <1>6, <2>3
        <3>3. GetIn(Append(events[g], x), answers[g], g, Listening')
            BY <2>1, <3>2, GetAppend
        <3>4. doc[g] # NoDoc
            BY <1>1, <2>3, VersionFacts
        <3> QED
            BY <3>1, <3>3, <3>4
    <2> QED
        BY <2>2, <2>3
<1>8. muted' \in SUBSET Get /\ doc' \in [Listener -> Doc \cup {NoDoc}]
    BY <1>1
<1> QED
    BY <1>1, <1>2, <1>3, <1>4, <1>7, <1>8 DEF ListenOK

\* A listener is removed.
LEMMA RemoveListens ==
    ASSUME IInv, NEW l \in Listener, RemoveQueryListener(l)
    PROVE  /\ ListenOK'
           /\ doc[l] \in Doc
           /\ queries[doc[l]] = {l} => doc[l] \in targets
<1> DEFINE d == doc[l]
<1>1. ListenOK
    BY DEF IInv
<1>2. /\ l \in muted \/ l \in Listening
      /\ muted' \in {muted, muted \ {l}}
      /\ queries' = [queries EXCEPT ![d] = @ \ {l}]
      /\ UNCHANGED <<raised, events, doc, answers>>
    BY DEF RemoveQueryListener
<1>3. d \in Doc
    <2>1. CASE l \in Listening
        BY <1>1, <2>1, ListeningIs
    <2>2. CASE l \in muted
        <3>1. l \in Get /\ doc[l] # NoDoc
            BY <1>1, <2>2 DEF ListenOK
        <3>2. doc[l] \in Doc \cup {NoDoc}
            BY <1>1 DEF ListenOK
        <3> QED
            BY <3>1, <3>2
    <2> QED
        BY <1>2, <2>1, <2>2
<1>4. /\ queries[d] = {l} => targets' = targets \ {d}
      /\ queries[d] # {l} => targets' = targets
    BY DEF RemoveQueryListener, StopListening
<1> HIDE DEF d
<1>5. queries \in [Doc -> SUBSET Listener] /\ targets = {e \in Doc : queries[e] # {}}
    BY <1>1 DEF ListenOK
<1> DEFINE K == queries[d] \ {l}
<1>6. K \in SUBSET queries[d] /\ queries' = [queries EXCEPT ![d] = K]
    BY <1>2
<1>7. targets' = IF K = {} THEN targets \ {d} ELSE targets
    <2>1. CASE queries[d] = {l}
        BY <1>4, <2>1
    <2>2. CASE queries[d] = {}
        BY <1>3, <1>4, <1>5, <2>2
    <2>3. CASE queries[d] # {l} /\ queries[d] # {}
        <3>1. K # {}
            BY <2>3
        <3> QED
            BY <1>4, <2>3, <3>1
    <2> QED
        BY <2>1, <2>2, <2>3
<1>8. /\ raised' \in SUBSET Get /\ muted' \in SUBSET muted
      /\ events' \in [Get -> Seq(Event)]
      /\ \A g \in Get : events'[g] = events[g]
    BY <1>1, <1>2 DEF ListenOK
<1> HIDE DEF K
<1>9. ListenOK'
    BY <1>1, <1>2, <1>3, <1>6, <1>7, <1>8, FewerListen
<1> QED
    BY <1>3, <1>5, <1>9 DEF d

\* An event is delivered.
LEMMA DeliverListens ==
    ASSUME IInv, NEW g \in Get, DeliverEvent(g)
    PROVE  ListenOK'
<1>1. ListenOK
    BY DEF IInv
<1>2. /\ events[g] # <<>> /\ events' = [events EXCEPT ![g] = Tail(events[g])]
      /\ \/ UNCHANGED <<answers, muted>>
         \/ /\ ~Muted(g) /\ muted' \in {muted, muted \cup {g}}
            /\ answers' = [answers EXCEPT ![g] = Append(answers[g], Head(events[g]))]
      /\ UNCHANGED <<queries, raised, doc, targets>>
    BY DEF DeliverEvent
<1>3. /\ events \in [Get -> Seq(Event)] /\ answers \in [Get -> Seq(Event)]
      /\ muted \in SUBSET Get
      /\ \A h \in Get :
           /\ GetIn(events[h], answers[h], h, Listening)
           /\ doc[h] = NoDoc =>
                  events[h] = <<>> /\ answers[h] = <<>> /\ h \notin muted
    BY <1>1 DEF ListenOK
<1>4. Listening' = Listening
    BY <1>2 DEF Listening
<1>5. /\ GetIn(Tail(events[g]), answers[g], g, Listening)
      /\ ~Muted(g) =>
             GetIn(Tail(events[g]), Append(answers[g], Head(events[g])), g, Listening)
    <2>1. /\ GetIn(Tail(events[g]), answers[g], g, Listening)
          /\ (\A i \in DOMAIN answers[g] : answers[g][i].from = "error") =>
                 GetIn(Tail(events[g]), Append(answers[g], Head(events[g])),
                       g, Listening)
        BY <1>2, <1>3, GetTail
    <2> QED
        BY <2>1 DEF Muted
<1>6. GetIn(events'[g], answers'[g], g, Listening)
    BY <1>2, <1>3, <1>5
<1>7. \A h \in Get \ {g} : events'[h] = events[h] /\ answers'[h] = answers[h]
    BY <1>2, <1>3
<1>8. \A h \in Get : GetIn(events'[h], answers'[h], h, Listening)
    BY <1>3, <1>6, <1>7
<1>9. \A h \in Get : events'[h] \in Seq(Event) /\ answers'[h] \in Seq(Event)
    BY <1>8 DEF GetIn
<1>10. events' \in [Get -> Seq(Event)] /\ answers' \in [Get -> Seq(Event)]
    <2>1. DOMAIN events' = Get /\ events' = [h \in Get |-> events'[h]]
        BY <1>2, <1>3
    <2>2. answers' = [h \in Get |-> answers'[h]]
        BY <1>2, <1>3
    <2> QED
        BY <1>9, <2>1, <2>2
<1>11. muted' \in SUBSET Get
    BY <1>2, <1>3
<1>12. ASSUME NEW h \in Get, doc'[h] = NoDoc
       PROVE  events'[h] = <<>> /\ answers'[h] = <<>> /\ h \notin muted'
    <2>1. h # g
        BY <1>2, <1>3, <1>12
    <2> QED
        BY <1>2, <1>3, <1>7, <1>12, <2>1
<1> QED
    BY <1>1, <1>2, <1>4, <1>8, <1>10, <1>11, <1>12 DEF ListenOK

\* A target is rejected: its listeners are gone.
LEMMA ErrorListens ==
    ASSUME IInv, ProcessTargetError
    PROVE  ListenOK'
<1> DEFINE d == Head(down).doc
<1>1. ListenOK /\ cache \in [Doc -> Version]
    BY DEF IInv, FreshOK
<1>2. UNCHANGED <<cache, doc, muted, answers>>
    BY DEF ProcessTargetError
<1>3. CASE d \notin targets
    BY <1>1, <1>2, <1>3, ListenFrame DEF ProcessTargetError, listening
<1>4. CASE d \in targets
    <2>1. /\ targets' = targets \ {d} /\ Raise(queries[d], TRUE)
          /\ queries' = [queries EXCEPT ![d] = {}]
        BY <1>4 DEF ProcessTargetError
    <2> HIDE DEF d
    <2>2. d \in Doc /\ \A l \in queries[d] : l \in Listening /\ doc[l] \in Doc
        BY <1>1, <1>4, ListeningIs
    <2>3. /\ doc' \in [Listener -> Doc \cup {NoDoc}] /\ cache' \in [Doc -> Version]
          /\ \A g \in queries[d] \cap Get : doc'[g] \in Doc
        BY <1>1, <1>2, <2>2 DEF ListenOK
    <2>4. /\ raised' \in SUBSET Get
          /\ events' \in [Get -> Seq(Event)]
          /\ \A g \in Get \ queries[d] : events'[g] = events[g]
          /\ \A g \in queries[d] \cap Get :
                 \E x \in Event : /\ events'[g] = Append(events[g], x)
                                  /\ x.from = "error" => TRUE = TRUE
        BY <1>1, <2>1, <2>3, RaiseIs
    <2>5. \A g \in Get : \/ events'[g] = events[g]
                         \/ /\ g \in queries[d] /\ g \notin {}
                            /\ \E x \in Event : events'[g] = Append(events[g], x)
        BY <2>4
    <2>6. {} \in SUBSET queries[d] /\ muted' \in SUBSET muted
        BY <1>2
    <2>7. targets' = IF {} = {} THEN targets \ {d} ELSE targets
        BY <2>1
    <2> QED
        BY <1>1, <1>2, <2>1, <2>2, <2>4, <2>5, <2>6, <2>7, FewerListen
<1> QED
    BY <1>3, <1>4

---------------------------------------------------------------------------
(* What each action does to the stream and the tracker.                    *)

LEMMA UnarmedIs ==
    ASSUME NEW r \in BOOLEAN, Unarmed(r)
    PROVE  unarmed' \in BOOLEAN
BY Zenon DEF Unarmed

LEMMA StreamFrame ==
    ASSUME StreamOK, UNCHANGED <<stream, targets, tracker, enabled, unarmed,
                                 stray, faults>>
    PROVE  StreamOK' /\ (IsOpen(stream') <=> IsOpen(stream))
BY DEF StreamOK

\* The stream has closed, and is started again if it is needed.
LEMMA CloseGood ==
    ASSUME NEW s, StreamGood(s), ~IsStarted(s), ~s.idle, TrackerGood(tracker),
           OnWatchStreamClose(s)
    PROVE  /\ StreamGood(stream') /\ ~IsOpen(stream') /\ ~stream'.idle
           /\ TrackerGood(tracker') /\ (tracker'.timer => IsStarted(stream'))
<1>1. CASE ShouldStartWatchStream(enabled, targets, s)
    <2>1. /\ stream' = Start(s)
          /\ tracker' = HandleWatchStreamStart(HandleWatchStreamFailure(tracker))
        BY <1>1 DEF OnWatchStreamClose
    <2>2. /\ StreamGood(Start(s)) /\ IsStarted(Start(s)) /\ ~IsOpen(Start(s))
          /\ Start(s).idle = s.idle
        BY StartGood
    <2>3. TrackerGood(HandleWatchStreamFailure(tracker))
        BY TrackerSteps
    <2>4. TrackerGood(HandleWatchStreamStart(HandleWatchStreamFailure(tracker)))
        BY <2>3, TrackerSteps
    <2> QED
        BY <2>1, <2>2, <2>4
<1>2. CASE ~ShouldStartWatchStream(enabled, targets, s)
    <2>1. stream' = s /\ tracker' = UpdateState("Unknown")
        BY <1>2 DEF OnWatchStreamClose
    <2>2. "Unknown" \in OnlineState
        BY DEF OnlineState
    <2>3. TrackerGood(tracker') /\ ~tracker'.timer
        BY <2>1, <2>2, TrackerSteps
    <2> QED
        BY <2>1, <2>3 DEF IsStarted, IsOpen
<1> QED
    BY <1>1, <1>2

LEMMA EnableGood ==
    ASSUME NEW s, NEW k, StreamGood(s), TrackerGood(k), Enable(s, k)
    PROVE  /\ StreamGood(stream') /\ (IsOpen(stream') <=> IsOpen(s))
           /\ stream'.idle = s.idle
           /\ TrackerGood(tracker') /\ (tracker'.timer => IsStarted(stream'))
<1>1. CASE ShouldStartWatchStream(TRUE, targets, s)
    <2>1. stream' = Start(s) /\ tracker' = HandleWatchStreamStart(k)
        BY <1>1 DEF Enable
    <2>2. ~IsStarted(s) /\ ~IsOpen(s)
        BY <1>1 DEF ShouldStartWatchStream, IsStarted, IsOpen
    <2>3. /\ StreamGood(Start(s)) /\ IsStarted(Start(s)) /\ ~IsOpen(Start(s))
          /\ Start(s).idle = s.idle
        BY <2>2, StartGood
    <2>4. TrackerGood(HandleWatchStreamStart(k))
        BY TrackerSteps
    <2> QED
        BY <2>1, <2>2, <2>3, <2>4
<1>2. CASE ~ShouldStartWatchStream(TRUE, targets, s)
    <2>1. stream' = s /\ tracker' = UpdateState("Unknown")
        BY <1>2 DEF Enable
    <2>2. "Unknown" \in OnlineState
        BY DEF OnlineState
    <2>3. TrackerGood(tracker') /\ ~tracker'.timer
        BY <2>1, <2>2, TrackerSteps
    <2> QED
        BY <2>1, <2>3
<1> QED
    BY <1>1, <1>2

LEMMA AddStream ==
    ASSUME IInv, NEW l \in Listener, NEW d \in Doc, AddQueryListener(l, d)
    PROVE  /\ StreamOK' /\ (IsOpen(stream') <=> IsOpen(stream))
           /\ IF d \notin targets /\ IsOpen(stream) THEN Send(<<Watch(d)>>)
              ELSE UNCHANGED <<up, due>>
<1>1. /\ StreamGood(stream) /\ TrackerGood(tracker)
      /\ stream.idle => IsOpen(stream) /\ targets = {}
      /\ tracker.timer => IsStarted(stream)
    BY DEF IInv, StreamOK
<1>2. targets' = targets \cup {d} /\ (d \in targets <=> queries[d] # {})
    BY AddListens
<1>3. UNCHANGED <<enabled, stray, faults>> /\ unarmed' \in BOOLEAN
    BY UnarmedIs DEF AddQueryListener
<1>4. /\ StreamGood(stream') /\ (stream'.idle => IsOpen(stream') /\ targets' = {})
      /\ TrackerGood(tracker') /\ (tracker'.timer => IsStarted(stream'))
      /\ IsOpen(stream') <=> IsOpen(stream)
      /\ IF d \notin targets /\ IsOpen(stream) THEN Send(<<Watch(d)>>)
         ELSE UNCHANGED <<up, due>>
    <2>1. CASE queries[d] # {}
        <3>1. UNCHANGED <<targets, stream, due, tracker, up>>
            BY <2>1 DEF AddQueryListener
        <3> QED
            BY <1>1, <1>2, <2>1, <3>1
    <2>2. CASE queries[d] = {} /\ ShouldStartWatchStream(enabled, targets', stream)
        <3>1. /\ stream' = Start(stream) /\ UNCHANGED <<due, up>>
              /\ tracker' = HandleWatchStreamStart(tracker)
            BY <2>2 DEF AddQueryListener
        <3>2. ~IsStarted(stream) /\ ~IsOpen(stream)
            BY <2>2 DEF ShouldStartWatchStream, IsStarted, IsOpen
        <3>3. /\ StreamGood(Start(stream)) /\ IsStarted(Start(stream))
              /\ ~IsOpen(Start(stream)) /\ Start(stream).idle = stream.idle
            BY <1>1, <3>2, StartGood
        <3>4. TrackerGood(HandleWatchStreamStart(tracker))
            BY <1>1, TrackerSteps
        <3> QED
            BY <1>1, <3>1, <3>2, <3>3, <3>4
    <2>3. CASE queries[d] = {} /\ ~ShouldStartWatchStream(enabled, targets', stream)
        <3>1. /\ tracker' = tracker
              /\ IF IsOpen(stream)
                 THEN Send(<<Watch(d)>>) /\ stream' = CancelIdleCheck(stream)
                 ELSE UNCHANGED <<due, up, stream>>
            BY <2>3 DEF AddQueryListener
        <3>2. CASE IsOpen(stream)
            <4>1. /\ StreamGood(stream') /\ stream'.state = stream.state
                  /\ ~stream'.idle
                BY <1>1, <3>1, <3>2, IdleGood
            <4> QED
                BY <1>1, <1>2, <2>3, <3>1, <3>2, <4>1 DEF IsOpen, IsStarted
        <3>3. CASE ~IsOpen(stream)
            BY <1>1, <3>1, <3>3
        <3> QED
            BY <3>2, <3>3
    <2> QED
        BY <2>1, <2>2, <2>3
<1> QED
    BY <1>3, <1>4 DEF IInv, StreamOK

LEMMA StopStream ==
    ASSUME IInv, NEW d \in targets, StopListening(d),
           UNCHANGED <<enabled, stray, faults>>
    PROVE  StreamOK' /\ (IsOpen(stream') <=> IsOpen(stream))
<1>1. /\ StreamGood(stream) /\ TrackerGood(tracker)
      /\ stream.idle => IsOpen(stream) /\ targets = {}
      /\ tracker.timer => IsStarted(stream)
    BY DEF IInv, StreamOK
<1>2. unarmed' \in BOOLEAN
    <2>1. Unarmed(targets' = {} /\ ~IsOpen(stream) /\ enabled)
        BY DEF StopListening
    <2> QED
        BY <2>1, Zenon DEF Unarmed
<1>3. /\ StreamGood(stream') /\ stream'.state = stream.state
      /\ stream'.idle => IsOpen(stream) /\ targets' = {}
    <2>1. /\ StreamGood(MarkIdle(stream)) /\ MarkIdle(stream).state = stream.state
          /\ MarkIdle(stream).idle => stream.idle \/ IsOpen(stream)
          /\ StreamGood(CancelIdleCheck(stream))
          /\ CancelIdleCheck(stream).state = stream.state
          /\ ~CancelIdleCheck(stream).idle
        BY <1>1, IdleGood
    <2>2. stream' = IF targets' = {} THEN MarkIdle(stream)
                    ELSE CancelIdleCheck(stream)
        BY DEF StopListening
    <2> QED
        BY <1>1, <2>1, <2>2
<1>4. TrackerGood(tracker') /\ (tracker'.timer => tracker.timer)
    <2>1. tracker' \in {tracker, UpdateState("Unknown")}
        BY DEF StopListening
    <2>2. TrackerGood(UpdateState("Unknown")) /\ ~UpdateState("Unknown").timer
        BY <1>1, TrackerSteps DEF OnlineState
    <2> QED
        BY <1>1, <2>1, <2>2
<1>5. /\ IsOpen(stream') <=> IsOpen(stream)
      /\ IsStarted(stream') <=> IsStarted(stream)
    BY <1>3 DEF IsOpen, IsStarted
<1> QED
    BY <1>1, <1>2, <1>3, <1>4, <1>5 DEF IInv, StreamOK

LEMMA RemoveStream ==
    ASSUME IInv, NEW l \in Listener, RemoveQueryListener(l)
    PROVE  StreamOK' /\ (IsOpen(stream') <=> IsOpen(stream))
<1>1. queries[doc[l]] = {l} => doc[l] \in targets
    BY RemoveListens
<1>2. UNCHANGED <<enabled, stray, faults>>
    BY DEF RemoveQueryListener
<1>3. CASE queries[doc[l]] = {l}
    <2>1. StopListening(doc[l])
        BY <1>3 DEF RemoveQueryListener
    <2> QED
        BY <1>1, <1>2, <1>3, <2>1, StopStream
<1>4. CASE queries[doc[l]] # {l}
    <2>1. UNCHANGED <<stream, targets, tracker, unarmed>>
        BY <1>4 DEF RemoveQueryListener
    <2> QED
        BY <1>2, <2>1, StreamFrame DEF IInv
<1> QED
    BY <1>3, <1>4

LEMMA ArriveStream ==
    ASSUME IInv, NEW c \in stream.asked, CredentialsArrive(c)
    PROVE  /\ StreamOK'
           /\ Current(stream, c) => ~IsOpen(stream) /\ IsOpen(stream')
           /\ ~Current(stream, c) => (IsOpen(stream') <=> IsOpen(stream))
<1>1. /\ StreamGood(stream) /\ TrackerGood(tracker)
      /\ stream.idle => IsOpen(stream) /\ targets = {}
      /\ tracker.timer => IsStarted(stream)
    BY DEF IInv, StreamOK
<1>2. UNCHANGED <<enabled, targets, tracker, unarmed, stray, faults>>
    BY DEF CredentialsArrive
<1>3. CASE Current(stream, c)
    <2> DEFINE t == OnStreamStart(Answered(stream, c))
    <2>1. stream' = t
        BY <1>3 DEF CredentialsArrive
    <2>2. stream.state = "Starting" /\ StreamGood(t) /\ IsOpen(t) /\ t.idle = FALSE
        BY <1>1, <1>3, AnsweredGood
    <2> HIDE DEF t
    <2> QED
        BY <1>1, <1>2, <1>3, <2>1, <2>2 DEF IInv, StreamOK, IsOpen, IsStarted
<1>4. CASE ~Current(stream, c)
    <2> DEFINE t == Answered(stream, c)
    <2>1. stream' = t
        BY <1>4 DEF CredentialsArrive
    <2>2. t.state = stream.state /\ t.idle = stream.idle /\ StreamGood(t)
        BY <1>1, <1>4, AnsweredGood
    <2> HIDE DEF t
    <2> QED
        BY <1>1, <1>2, <1>4, <2>1, <2>2 DEF IInv, StreamOK, IsOpen, IsStarted
<1> QED
    BY <1>3, <1>4

LEMMA FaultsStep ==
    ASSUME faults \in 0..MaxFaults, faults < MaxFaults, faults' = faults + 1
    PROVE  faults' \in 0..MaxFaults
BY WatchAssumption

LEMMA FailsStream ==
    ASSUME IInv, NEW s \in StreamType, s.asked \subseteq 0..s.closes, Fails(s)
    PROVE  StreamOK' /\ ~IsOpen(stream')
<1>1. TrackerGood(tracker) /\ faults \in 0..MaxFaults
    BY DEF IInv, StreamOK
<1>2. StreamGood(Fail(s)) /\ Fail(s).state = "Error" /\ ~Fail(s).idle
    BY FailGood
<1>3. ~IsStarted(Fail(s))
    BY <1>2 DEF IsStarted
<1>4. OnWatchStreamClose(Fail(s)) /\ UNCHANGED <<enabled, targets, stray>>
    BY DEF Fails
<1>5. /\ StreamGood(stream') /\ ~IsOpen(stream') /\ ~stream'.idle
      /\ TrackerGood(tracker') /\ (tracker'.timer => IsStarted(stream'))
    BY <1>1, <1>2, <1>3, <1>4, CloseGood
<1>6. unarmed' \in BOOLEAN
    BY UnarmedIs DEF Fails
<1>7. faults' \in 0..MaxFaults
    BY <1>1, FaultsStep DEF Fails
<1> QED
    BY <1>4, <1>5, <1>6, <1>7 DEF IInv, StreamOK

LEMMA CredentialsFailStream ==
    ASSUME IInv, NEW c \in stream.asked, CredentialsFail(c)
    PROVE  StreamOK' /\ ~IsOpen(stream')
<1>1. StreamGood(stream)
    BY DEF IInv, StreamOK
<1>2. /\ Answered(stream, c) \in StreamType
      /\ Answered(stream, c).asked \subseteq 0..Answered(stream, c).closes
    BY <1>1, AnsweredGood
<1>3. Fails(Answered(stream, c))
    BY DEF CredentialsFail
<1> QED
    BY <1>2, <1>3, FailsStream

LEMMA LostStream ==
    ASSUME IInv, ConnectionLost
    PROVE  StreamOK' /\ ~IsOpen(stream')
<1>1. stream \in StreamType /\ stream.asked \subseteq 0..stream.closes
    BY DEF IInv, StreamOK, StreamGood
<1> QED
    BY <1>1, FailsStream DEF ConnectionLost

LEMMA BackoffStream ==
    ASSUME IInv, BackoffEnds
    PROVE  StreamOK' /\ ~IsOpen(stream) /\ ~IsOpen(stream')
<1>1. StreamGood(stream)
    BY DEF IInv, StreamOK
<1>2. stream.state = "Backoff" /\ stream' = BackoffElapsed(stream)
    BY DEF BackoffEnds
<1>3. /\ StreamGood(stream') /\ IsStarted(stream') /\ ~IsOpen(stream')
      /\ stream'.idle = stream.idle
    BY <1>1, <1>2, BackoffGood
<1>4. UNCHANGED <<enabled, targets, tracker, unarmed, stray, faults>>
    BY DEF BackoffEnds
<1>5. stream.idle => IsOpen(stream) /\ targets = {}
    BY DEF IInv, StreamOK
<1>6. ~IsOpen(stream) /\ ~stream.idle
    BY <1>2, <1>5 DEF IsOpen
<1> QED
    BY <1>3, <1>4, <1>6 DEF IInv, StreamOK

LEMMA StopFacts ==
    ASSUME IInv
    PROVE  /\ StreamGood(Stop(stream)) /\ ~IsStarted(Stop(stream))
           /\ ~Stop(stream).idle /\ ~IsOpen(Stop(stream))
           /\ StreamGood(InhibitBackoff(Stop(stream)))
           /\ ~IsOpen(InhibitBackoff(Stop(stream)))
           /\ ~InhibitBackoff(Stop(stream)).idle
<1>1. StreamGood(stream) /\ (stream.idle => IsOpen(stream))
    BY DEF IInv, StreamOK
<1>2. /\ StreamGood(Stop(stream)) /\ ~IsStarted(Stop(stream)) /\ ~Stop(stream).idle
      /\ StreamGood(InhibitBackoff(Stop(stream)))
      /\ InhibitBackoff(Stop(stream)).state = "Initial"
      /\ ~InhibitBackoff(Stop(stream)).idle
    BY <1>1, StopGood
<1> QED
    BY <1>2 DEF IsOpen, IsStarted

LEMMA IdleStream ==
    ASSUME IInv, IdleElapsed
    PROVE  StreamOK' /\ ~IsOpen(stream')
<1>1. TrackerGood(tracker)
    BY DEF IInv, StreamOK
<1>2. OnWatchStreamClose(Stop(stream)) /\ UNCHANGED <<enabled, targets, stray, faults>>
    BY DEF IdleElapsed
<1>3. /\ StreamGood(stream') /\ ~IsOpen(stream') /\ ~stream'.idle
      /\ TrackerGood(tracker') /\ (tracker'.timer => IsStarted(stream'))
    BY <1>1, <1>2, StopFacts, CloseGood
<1>4. unarmed' \in BOOLEAN
    BY UnarmedIs DEF IdleElapsed
<1> QED
    BY <1>2, <1>3, <1>4 DEF IInv, StreamOK

LEMMA TimeoutStream ==
    ASSUME IInv, OnlineStateTimeout
    PROVE  StreamOK'
<1>1. TrackerGood(tracker)
    BY DEF IInv, StreamOK
<1>2. /\ tracker' = [tracker EXCEPT !.timer = FALSE, !.online = "Offline"]
      /\ UNCHANGED <<stream, enabled, targets, stray, faults>>
    BY DEF OnlineStateTimeout
<1>3. TrackerGood(tracker') /\ ~tracker'.timer
    BY <1>1, <1>2, TrackerSteps
<1>4. unarmed' \in BOOLEAN
    BY UnarmedIs DEF OnlineStateTimeout
<1> QED
    BY <1>2, <1>3, <1>4 DEF IInv, StreamOK

\* A response shows that the client is online.
LEMMA HearsStream ==
    ASSUME IInv, NEW k, Hears(k), targets' \subseteq targets,
           stray' \in BOOLEAN, UNCHANGED <<stream, enabled, faults>>
    PROVE  StreamOK'
<1>1. TrackerGood(tracker) /\ "Online" \in OnlineState
    BY DEF IInv, StreamOK, OnlineState
<1>2. tracker' = UpdateState("Online") /\ unarmed' = FALSE
    BY DEF Hears
<1>3. TrackerGood(tracker') /\ ~tracker'.timer
    BY <1>1, <1>2, TrackerSteps
<1>4. targets = {} => targets' = {}
    OBVIOUS
<1> QED
    BY <1>2, <1>3, <1>4 DEF IInv, StreamOK

LEMMA ConnectivityStream ==
    ASSUME IInv, ConnectivityChange
    PROVE  StreamOK' /\ ~IsOpen(stream')
<1> DEFINE s == InhibitBackoff(Stop(stream))
           k == UpdateState("Unknown")
<1>1. TrackerGood(tracker) /\ faults \in 0..MaxFaults /\ "Unknown" \in OnlineState
    BY DEF IInv, StreamOK, OnlineState
<1>2. Enable(s, k) /\ UNCHANGED <<enabled, targets, stray>>
    BY DEF ConnectivityChange
<1>3. StreamGood(s) /\ ~IsOpen(s) /\ ~s.idle
    BY StopFacts
<1>4. TrackerGood(k)
    BY <1>1, TrackerSteps
<1> HIDE DEF s, k
<1>5. /\ StreamGood(stream') /\ ~IsOpen(stream') /\ ~stream'.idle
      /\ TrackerGood(tracker') /\ (tracker'.timer => IsStarted(stream'))
    BY <1>2, <1>3, <1>4, EnableGood
<1>6. unarmed' \in BOOLEAN
    BY UnarmedIs DEF ConnectivityChange
<1>7. faults' \in 0..MaxFaults
    BY <1>1, FaultsStep DEF ConnectivityChange
<1> QED
    BY <1>2, <1>5, <1>6, <1>7 DEF IInv, StreamOK

LEMMA DisableStream ==
    ASSUME IInv, DisableNetwork
    PROVE  StreamOK' /\ ~IsOpen(stream')
<1>1. TrackerGood(tracker) /\ faults \in 0..MaxFaults /\ "Offline" \in OnlineState
    BY DEF IInv, StreamOK, OnlineState
<1>2. /\ stream' = Stop(stream) /\ tracker' = UpdateState("Offline")
      /\ enabled' = FALSE /\ UNCHANGED <<targets, stray>>
    BY DEF DisableNetwork
<1>3. TrackerGood(tracker') /\ ~tracker'.timer
    BY <1>1, <1>2, TrackerSteps
<1>4. StreamGood(stream') /\ ~IsOpen(stream') /\ ~stream'.idle
    BY <1>2, StopFacts
<1>5. unarmed' \in BOOLEAN
    BY UnarmedIs DEF DisableNetwork
<1>6. faults' \in 0..MaxFaults
    BY <1>1, FaultsStep DEF DisableNetwork
<1> QED
    BY <1>2, <1>3, <1>4, <1>5, <1>6 DEF IInv, StreamOK

LEMMA EnableStream ==
    ASSUME IInv, EnableNetwork
    PROVE  StreamOK' /\ (IsOpen(stream') <=> IsOpen(stream))
<1>1. /\ StreamGood(stream) /\ TrackerGood(tracker)
      /\ stream.idle => IsOpen(stream) /\ targets = {}
    BY DEF IInv, StreamOK
<1>2. Enable(stream, tracker) /\ enabled' = TRUE /\ UNCHANGED <<targets, stray, faults>>
    BY DEF EnableNetwork
<1>3. /\ StreamGood(stream') /\ (IsOpen(stream') <=> IsOpen(stream))
      /\ stream'.idle = stream.idle
      /\ TrackerGood(tracker') /\ (tracker'.timer => IsStarted(stream'))
    BY <1>1, <1>2, EnableGood
<1>4. unarmed' \in BOOLEAN
    BY UnarmedIs DEF EnableNetwork
<1> QED
    BY <1>1, <1>2, <1>3, <1>4 DEF IInv, StreamOK

---------------------------------------------------------------------------
(* What the client's own actions do to the connection and the views.       *)

LEMMA WireFrame ==
    ASSUME WireOK, UNCHANGED <<up, down, sent, due, heard, pending, version,
                               targets, stray>>,
           IsOpen(stream') <=> IsOpen(stream)
    PROVE  WireOK'
<1>1. /\ \A d \in Doc : Counted(d)' <=> Counted(d)
      /\ \A d \in Doc : Agreed(d)' <=> Agreed(d)
    BY DEF Counted, Agreed
<1>2. NoConnection'
    BY DEF WireOK, NoConnection
<1> QED
    BY <1>1, <1>2 DEF WireOK

LEMMA FreshFrame ==
    ASSUME FreshOK, UNCHANGED <<up, down, heard, pending, cache, since, sent,
                                version, targets, stray>>,
           current' \in {current, {}}
    PROVE  FreshOK'
<1>1. current' \subseteq current
    OBVIOUS
<1> QED
    BY <1>1 DEF FreshOK

\* What is fresh depends on the requests only by whether there is one.
LEMMA FreshSame ==
    ASSUME NEW u, NEW u2, NEW w, NEW H, NEW p, NEW c, NEW d, NEW s, NEW v,
           FreshIn(u, w, H, p, c, d, s, v), AskedIn(u, d) <=> AskedIn(u2, d)
    PROVE  FreshIn(u2, w, H, p, c, d, s, v)
BY DEF FreshIn, VersionsIn, SnapshotsIn, SentIn

\* The connection is gone.
LEMMA Disconnects ==
    ASSUME IInv, Disconnected, ~IsOpen(stream'), current' \in {current, {}},
           UNCHANGED <<targets, stray, cache, since, version>>
    PROVE  WireOK' /\ FreshOK'
<1>1. /\ up' = <<>> /\ down' = <<>> /\ sent' = [d \in Doc |-> NotWatched]
      /\ due' = [d \in Doc |-> 0] /\ heard' = {}
      /\ pending' = [d \in Doc |-> Nothing]
    BY DEF Disconnected
<1>2. /\ up' \in Seq(Request) /\ down' \in Seq(Response)
      /\ sent' \in [Doc -> Version \cup {Nothing, NotWatched}]
      /\ due' \in [Doc -> Int] /\ heard' \in SUBSET Doc
      /\ pending' \in [Doc -> Version \cup {Nothing}]
    BY <1>1
<1>3. version' \in [Doc -> Version]
    BY DEF IInv, WireOK
<1>4. NoConnection'
    BY <1>1 DEF NoConnection
<1>5. \A d \in Doc : ToldIn(down', d, sent'[d])
    BY <1>1, FreshEmpty
<1>6. WireOK'
    BY <1>2, <1>3, <1>4, <1>5 DEF WireOK
<1>7. \A d : FreshIn(up', down', heard', pending'[d], cache'[d], d, since'[d],
                     sent'[d])
    BY <1>1, FreshEmpty
<1>8. /\ cache \in [Doc -> Version] /\ since \in [Doc -> Version]
      /\ current \subseteq targets /\ targets \subseteq Doc
      /\ \A d \in Doc : since[d] <= version[d]
      /\ ~stray => \A d \in current : cache[d] >= since[d]
    BY DEF IInv, FreshOK, ListenOK
<1>9. \A d \in Doc : pending'[d] = Nothing
    BY <1>1
<1>10. current' \subseteq current
    OBVIOUS
<1>11. FreshOK'
    BY <1>7, <1>8, <1>9, <1>10 DEF FreshOK
<1> QED
    BY <1>6, <1>11

\* One request goes out, and a response is expected for it.
LEMMA SendOne ==
    ASSUME WireOK, NEW r \in Request, Send(<<r>>)
    PROVE  /\ up' = Append(up, r) /\ up' \in Seq(Request)
           /\ due' \in [Doc -> Int]
           /\ \A e \in Doc : due'[e] = due[e] + IF r.doc = e THEN 1 ELSE 0
<1>1. up \in Seq(Request) /\ due \in [Doc -> Int]
    BY DEF WireOK
<1>2. up' = Append(up, r) /\ up' \in Seq(Request)
    BY <1>1, Appended DEF Send
<1> DEFINE K(e) == {i \in DOMAIN <<r>> : <<r>>[i].doc = e}
<1>3. due' = [e \in Doc |-> due[e] + Cardinality(K(e))]
    BY DEF Send
<1>4. \A e \in Doc : K(e) = IF r.doc = e THEN {1} ELSE {}
    OBVIOUS
<1> HIDE DEF K
<1>5. Cardinality({1}) = 1 /\ Cardinality({}) = 0
    BY FS_Singleton, FS_EmptySet
<1>6. \A e \in Doc : Cardinality(K(e)) = IF r.doc = e THEN 1 ELSE 0
    BY <1>4, <1>5
<1> QED
    BY <1>1, <1>2, <1>3, <1>6

LEMMA SendKeeps ==
    ASSUME WireOK, NEW r \in Request, Send(<<r>>), IsOpen(stream), IsOpen(stream'),
           targets \subseteq Doc,
           targets' = IF r.op = "watch" THEN targets \cup {r.doc}
                      ELSE targets \ {r.doc},
           UNCHANGED <<down, sent, heard, pending, version, stray>>
    PROVE  /\ WireOK'
           /\ \A e : AskedIn(up', e) <=> AskedIn(up, e) \/ e = r.doc
<1>1. /\ up' = Append(up, r) /\ up' \in Seq(Request)
      /\ due' \in [Doc -> Int]
      /\ \A e \in Doc : due'[e] = due[e] + IF r.doc = e THEN 1 ELSE 0
    BY SendOne
<1>2. /\ up \in Seq(Request) /\ down \in Seq(Response) /\ due \in [Doc -> Int]
      /\ ~stray => \A e \in Doc : Counted(e) /\ Agreed(e)
    BY DEF WireOK
<1>3. ASSUME ~stray, NEW e \in Doc PROVE Counted(e)'
    <2>1. due[e] = Count(up, For(e)) + Count(down, To(e))
        BY <1>2, <1>3 DEF Counted
    <2>2. /\ Count(up, For(e)) \in Nat /\ Count(down, To(e)) \in Nat
          /\ Count(up', For(e)) = Count(up, For(e)) + IF r \in For(e) THEN 1 ELSE 0
        BY <1>1, <1>2, CountIs, CountAppend
    <2>3. r \in For(e) <=> r.doc = e
        BY DEF For
    <2>4. due'[e] = Count(up', For(e)) + Count(down, To(e))
        BY <1>1, <2>1, <2>2, <2>3
    <2> QED
        BY <2>4 DEF Counted
<1>4. ASSUME ~stray, NEW e \in Doc PROVE Agreed(e)'
    <2>1. RejectedIn(down, e) \/ (WatchedIn(up, sent[e], e) <=> e \in targets)
        BY <1>2, <1>4 DEF Agreed
    <2>2. WatchedIn(up', sent[e], e) <=>
              IF r.doc = e THEN r.op = "watch" ELSE WatchedIn(up, sent[e], e)
        BY <1>1, <1>2, WatchedAppend
    <2>3. RejectedIn(down, e) \/ (WatchedIn(up', sent[e], e) <=> e \in targets')
        BY <2>1, <2>2
    <2> QED
        BY <2>3 DEF Agreed
<1>5. NoConnection'
    BY DEF NoConnection
<1>6. \A e : AskedIn(up', e) <=> AskedIn(up, e) \/ e = r.doc
    BY <1>1, <1>2, AskedAppend
<1>7. WireOK'
    BY <1>1, <1>2, <1>3, <1>4, <1>5 DEF WireOK
<1> QED
    BY <1>6, <1>7

\* A listener is added, and with the first one of a document a target.
LEMMA AddWire ==
    ASSUME IInv, NEW l \in Listener, NEW d \in Doc, AddQueryListener(l, d)
    PROVE  WireOK' /\ FreshOK'
<1>1. /\ IsOpen(stream') <=> IsOpen(stream)
      /\ IF d \notin targets /\ IsOpen(stream) THEN Send(<<Watch(d)>>)
         ELSE UNCHANGED <<up, due>>
    BY AddStream
<1>2. /\ targets' = targets \cup {d}
      /\ d \in targets <=> queries[d] # {}
    BY AddListens
<1>3. /\ UNCHANGED <<down, sent, heard, pending, version, stray, current, cache>>
      /\ queries[d] # {} => since' = since
      /\ queries[d] = {} => since' = [since EXCEPT ![d] = version[d]]
    BY DEF AddQueryListener
<1>4. /\ WireOK /\ FreshOK /\ targets \subseteq Doc /\ NoConnection
      /\ version \in [Doc -> Version]
    BY DEF IInv, ListenOK, WireOK
<1>5. CASE d \in targets
    <2>1. UNCHANGED <<targets, up, due, since>>
        BY <1>1, <1>2, <1>3, <1>5
    <2> QED
        BY <1>1, <1>3, <1>4, <2>1, WireFrame, FreshFrame
<1>6. CASE d \notin targets
    <2>1. /\ since' \in [Doc -> Version] /\ since'[d] = version[d]
          /\ \A e \in Doc \ {d} : since'[e] = since[e]
        BY <1>2, <1>3, <1>4, <1>6 DEF FreshOK
    <2>2. /\ WireOK'
          /\ \A e \in targets : AskedIn(up', e) <=> AskedIn(up, e)
          /\ AskedIn(up', d) \/ ~IsOpen(stream)
        <3>1. CASE IsOpen(stream)
            <4>1. /\ Watch(d) \in Request /\ Watch(d).doc = d
                  /\ Watch(d).op = "watch"
                BY RequestsAre
            <4>2. Send(<<Watch(d)>>)
                BY <1>1, <1>6, <3>1
            <4>3. targets' = IF Watch(d).op = "watch"
                             THEN targets \cup {Watch(d).doc}
                             ELSE targets \ {Watch(d).doc}
                BY <1>2, <4>1
            <4>4. /\ WireOK'
                  /\ \A e : AskedIn(up', e) <=> AskedIn(up, e) \/ e = Watch(d).doc
                BY <1>1, <1>3, <1>4, <3>1, <4>1, <4>2, <4>3, SendKeeps
            <4> QED
                BY <1>6, <4>1, <4>4
        <3>2. CASE ~IsOpen(stream)
            <4>1. UNCHANGED <<up, due>>
                BY <1>1, <3>2
            <4>2. NoConnection'
                BY <1>3, <1>4, <3>2, <4>1 DEF NoConnection
            <4>3. WireOK'
                BY <1>1, <1>3, <1>4, <3>2, <4>1, <4>2 DEF WireOK
            <4> QED
                BY <3>2, <4>1, <4>3
        <3> QED
            BY <3>1, <3>2
    <2>3. ASSUME ~stray, NEW e \in targets'
          PROVE  FreshIn(up', down', heard', pending'[e], cache'[e], e, since'[e],
                         sent'[e])
        <3>1. CASE e = d
            <4>1. CASE AskedIn(up', d)
                BY <3>1, <4>1, FreshAsked
            <4>2. CASE ~IsOpen(stream)
                <5>1. down' = <<>> /\ heard' = {}
                    BY <1>3, <1>4, <4>2 DEF NoConnection
                <5> QED
                    BY <5>1, FreshEmpty
            <4> QED
                BY <2>2, <4>1, <4>2
        <3>2. CASE e # d
            <4>1. e \in targets /\ since'[e] = since[e]
                BY <1>2, <1>4, <2>1, <3>2
            <4>2. FreshIn(up, down, heard, pending[e], cache[e], e, since[e], sent[e])
                BY <1>4, <2>3, <4>1 DEF FreshOK
            <4>3. AskedIn(up, e) <=> AskedIn(up', e)
                BY <2>2, <4>1
            <4>4. FreshIn(up', down, heard, pending[e], cache[e], e, since[e], sent[e])
                BY <4>2, <4>3, FreshSame
            <4> QED
                BY <1>3, <4>1, <4>4
        <3> QED
            BY <3>1, <3>2
    <2>4. \A e \in current : e # d /\ e \in Doc /\ since'[e] = since[e]
        BY <1>4, <1>6, <2>1 DEF FreshOK
    <2>5. \A e \in Doc : since'[e] <= version[e]
        <3>1. version[d] \in Int
            BY <1>4, VersionFacts
        <3>2. version[d] <= version[d]
            BY <3>1
        <3> QED
            BY <1>4, <2>1, <3>2 DEF FreshOK
    <2>6. /\ cache \in [Doc -> Version] /\ current \subseteq targets
          /\ ~stray => \A e \in current :
                 /\ cache[e] >= since[e]
                 /\ pending[e] # Nothing => pending[e] >= since[e]
        BY <1>4 DEF FreshOK
    <2>7. ~stray' => \A e \in current' :
              /\ cache'[e] >= since'[e]
              /\ pending'[e] # Nothing => pending'[e] >= since'[e]
        BY <1>3, <2>4, <2>6
    <2>8. current' \subseteq targets' /\ cache' \in [Doc -> Version]
        BY <1>2, <1>3, <2>6
    <2>9. \A e \in Doc : since'[e] <= version'[e]
        BY <1>3, <2>5
    <2>10. ~stray' => \A e \in targets' :
               FreshIn(up', down', heard', pending'[e], cache'[e], e, since'[e],
                       sent'[e])
        BY <1>3, <2>3
    <2>11. FreshOK'
        BY <2>1, <2>7, <2>8, <2>9, <2>10 DEF FreshOK
    <2> QED
        BY <2>2, <2>11
<1> QED
    BY <1>5, <1>6

\* A listener is removed, and with the last one of a document the target.
LEMMA RemoveWire ==
    ASSUME IInv, NEW l \in Listener, RemoveQueryListener(l)
    PROVE  WireOK' /\ FreshOK'
<1> DEFINE d == doc[l]
<1>1. IsOpen(stream') <=> IsOpen(stream)
    BY RemoveStream
<1>2. d \in Doc /\ (queries[d] = {l} => d \in targets)
    BY RemoveListens
<1>3. UNCHANGED <<down, sent, heard, pending, version, stray, cache, since>>
    BY DEF RemoveQueryListener
<1>4. WireOK /\ FreshOK /\ targets \subseteq Doc /\ NoConnection
    BY DEF IInv, ListenOK, WireOK
<1>5. CASE queries[d] # {l}
    <2>1. UNCHANGED <<targets, up, due, current>>
        BY <1>5 DEF RemoveQueryListener
    <2> QED
        BY <1>1, <1>3, <1>4, <2>1, WireFrame, FreshFrame
<1>6. CASE queries[d] = {l}
    <2>1. /\ targets' = targets \ {d} /\ current' = current \ {d}
          /\ IF IsOpen(stream) THEN Send(<<Unwatch(d)>>) ELSE UNCHANGED <<up, due>>
        BY <1>6 DEF RemoveQueryListener, StopListening
    <2> HIDE DEF d
    <2>2. WireOK' /\ \A e \in targets' : AskedIn(up', e) <=> AskedIn(up, e)
        <3>1. CASE IsOpen(stream)
            <4>1. /\ Unwatch(d) \in Request /\ Unwatch(d).doc = d
                  /\ Unwatch(d).op = "unwatch"
                BY <1>2, RequestsAre
            <4>2. Send(<<Unwatch(d)>>)
                BY <2>1, <3>1
            <4>3. targets' = IF Unwatch(d).op = "watch"
                             THEN targets \cup {Unwatch(d).doc}
                             ELSE targets \ {Unwatch(d).doc}
                BY <2>1, <4>1
            <4>4. /\ WireOK'
                  /\ \A e : AskedIn(up', e) <=> AskedIn(up, e) \/ e = Unwatch(d).doc
                BY <1>1, <1>3, <1>4, <3>1, <4>1, <4>2, <4>3, SendKeeps
            <4> QED
                BY <2>1, <4>1, <4>4
        <3>2. CASE ~IsOpen(stream)
            <4>1. UNCHANGED <<up, due>>
                BY <2>1, <3>2
            <4>2. NoConnection'
                BY <1>3, <1>4, <3>2, <4>1 DEF NoConnection
            <4>3. WireOK'
                BY <1>1, <1>3, <1>4, <3>2, <4>1, <4>2 DEF WireOK
            <4> QED
                BY <4>1, <4>3
        <3> QED
            BY <3>1, <3>2
    <2>3. ASSUME ~stray, NEW e \in targets'
          PROVE  FreshIn(up', down', heard', pending'[e], cache'[e], e, since'[e],
                         sent'[e])
        <3>1. FreshIn(up, down, heard, pending[e], cache[e], e, since[e], sent[e])
            BY <1>4, <2>1, <2>3 DEF FreshOK
        <3>2. FreshIn(up', down, heard, pending[e], cache[e], e, since[e], sent[e])
            BY <2>2, <2>3, <3>1, FreshSame
        <3> QED
            BY <1>3, <3>2
    <2>4. current' \subseteq targets' /\ current' \subseteq current
        BY <1>4, <2>1 DEF FreshOK
    <2>5. FreshOK'
        BY <1>3, <1>4, <2>3, <2>4 DEF FreshOK
    <2> QED
        BY <2>2, <2>5
<1> QED
    BY <1>5, <1>6

\* SetToSeq has every element of the set.
LEMMA SetToSeqIs ==
    ASSUME NEW S, IsFiniteSet(S)
    PROVE  /\ SetToSeq(S) \in Seq(S)
           /\ \A x \in S : \E i \in DOMAIN SetToSeq(S) : SetToSeq(S)[i] = x
<1> DEFINE n == Cardinality(S)
           f == SetToSeq(S)
<1>1. n \in Nat /\ ExistsBijection(1..n, S)
    BY FS_CardinalityType
<1>2. \E g \in [1..n -> S] : IsInjective(g)
    BY <1>1 DEF ExistsBijection, Bijection, Injection
<1>3. f \in [1..n -> S] /\ IsInjective(f)
    BY <1>2 DEF SetToSeq
<1> HIDE DEF f, n
<1>4. f \in Injection(1..n, S)
    BY <1>3 DEF Injection
<1>5. Cardinality(1..n) = n
    BY <1>1, FS_Interval
<1>6. f \in Surjection(1..n, S)
    BY <1>4, <1>5, FS_Injection DEF n
<1>7. \A x \in S : \E i \in 1..n : f[i] = x
    BY <1>6 DEF Surjection
<1>8. f \in Seq(S) /\ DOMAIN f = 1..n
    BY <1>1, <1>3
<1> QED
    BY <1>7, <1>8 DEF f

\* A token arrives: every target is watched.
LEMMA ArriveWire ==
    ASSUME IInv, NEW c \in stream.asked, CredentialsArrive(c)
    PROVE  WireOK' /\ FreshOK'
<1>1. /\ Current(stream, c) => ~IsOpen(stream) /\ IsOpen(stream')
      /\ ~Current(stream, c) => (IsOpen(stream') <=> IsOpen(stream))
    BY ArriveStream
<1>2. UNCHANGED <<current, cache, since, targets, heard, pending, down, sent,
                  version, stray>>
    BY DEF CredentialsArrive, views
<1>3. WireOK /\ FreshOK /\ targets \subseteq Doc /\ NoConnection
    BY DEF IInv, ListenOK, WireOK
<1>4. CASE ~Current(stream, c)
    <2>1. UNCHANGED <<up, due>>
        BY <1>4 DEF CredentialsArrive
    <2> QED
        BY <1>1, <1>2, <1>3, <1>4, <2>1, WireFrame, FreshFrame
<1>5. CASE Current(stream, c)
    <2> DEFINE order == SetToSeq(targets)
               q == [i \in DOMAIN order |-> Watch(order[i])]
    <2>1. Send(q)
        BY <1>5 DEF CredentialsArrive
    <2>2. /\ up = <<>> /\ down = <<>> /\ heard = {}
          /\ \A d \in Doc : sent[d] = NotWatched /\ due[d] = 0
        BY <1>1, <1>3, <1>5 DEF NoConnection
    <2>3. IsFiniteSet(targets)
        BY <1>3, WatchAssumption, FS_Subset
    <2>4. /\ order \in Seq(targets)
          /\ \A x \in targets : \E i \in DOMAIN order : order[i] = x
        BY <2>3, SetToSeqIs
    <2> HIDE DEF order
    <2>5. Len(order) \in Nat /\ DOMAIN order = 1..Len(order)
        BY <2>4, LenProperties
    <2>6. \A i \in DOMAIN order : order[i] \in targets /\ order[i] \in Doc
        BY <1>3, <2>4
    <2>7. /\ DOMAIN q = DOMAIN order
          /\ \A i \in DOMAIN order : /\ q[i] \in Request /\ q[i].doc = order[i]
                                     /\ q[i].op = "watch"
        BY <2>6, RequestsAre
    <2>8. q \in [1..Len(order) -> Request]
        BY <2>5, <2>7
    <2> HIDE DEF q
    <2>9. q \in Seq(Request)
        BY <2>5, <2>8
    <2>10. up' = q
        BY <2>1, <2>2, <2>9, ConcatEmptySeq DEF Send
    <2>11. \A d \in Doc : due'[d] = Count(up', For(d))
        <3>1. due' = [d \in Doc |-> due[d] +
                        Cardinality({i \in DOMAIN q : q[i].doc = d})]
            BY <2>1 DEF Send
        <3>2. \A d \in Doc : {i \in DOMAIN q : q[i].doc = d} = Places(q, For(d))
            BY <2>9, PlacesFor
        <3>3. \A d \in Doc : Count(q, For(d)) \in Nat
            BY <2>9, CountIs
        <3>4. \A d \in Doc : due'[d] = 0 + Count(q, For(d))
            BY <2>2, <3>1, <3>2 DEF Count
        <3> QED
            BY <2>10, <3>3, <3>4
    <2>12. \A d \in Doc : Count(up', For(d)) \in Nat /\ Count(down', To(d)) = 0
        <3>1. down' = <<>> /\ down' \in Seq(Response) /\ DOMAIN <<>> = {}
            BY <1>2, <2>2
        <3>2. \A d \in Doc : Count(down', To(d)) = 0
            BY <3>1, CountIs
        <3> QED
            BY <2>9, <2>10, <3>2, CountIs
    <2>13. \A d \in Doc : Counted(d)'
        BY <2>11, <2>12 DEF Counted
    <2>14. due' \in [Doc -> Int]
        <3>1. \A d \in Doc : due'[d] \in Int
            BY <2>11, <2>12
        <3>2. due' = [d \in Doc |-> due'[d]]
            BY <2>1 DEF Send
        <3> QED
            BY <3>1, <3>2
    <2>15. ASSUME NEW d \in Doc
           PROVE  Agreed(d)'
        <3>1. sent'[d] = NotWatched
            BY <1>2, <2>2
        <3>2. CASE d \in targets
            <4>1. \E i \in DOMAIN q : q[i].doc = d
                BY <2>4, <2>7, <3>2
            <4>2. PICK i : Latest(q, d, i)
                BY <2>9, <4>1, WatchedBy
            <4>3. WatchedIn(q, sent'[d], d) <=> q[i].op = "watch"
                BY <2>9, <4>2, WatchedBy
            <4>4. WatchedIn(q, sent'[d], d)
                BY <2>7, <4>2, <4>3 DEF Latest
            <4> QED
                BY <1>2, <2>10, <3>2, <4>4 DEF Agreed
        <3>3. CASE d \notin targets
            <4>1. \A i \in DOMAIN q : q[i].doc # d
                BY <2>6, <2>7, <3>3
            <4>2. WatchedIn(q, sent'[d], d) <=> sent'[d] # NotWatched
                BY <2>9, <4>1, WatchedBy
            <4> QED
                BY <1>2, <2>10, <3>1, <3>3, <4>2 DEF Agreed
        <3> QED
            BY <3>2, <3>3
    <2>16. NoConnection'
        BY <1>1, <1>5 DEF NoConnection
    <2>17. WireOK'
        BY <1>2, <1>3, <2>9, <2>10, <2>13, <2>14, <2>15, <2>16 DEF WireOK
    <2>18. \A d : FreshIn(up', down', heard', pending'[d], cache'[d], d, since'[d],
                         sent'[d])
        BY <1>2, <2>2, FreshEmpty
    <2>19. FreshOK'
        BY <1>2, <1>3, <2>18 DEF FreshOK
    <2> QED
        BY <2>17, <2>19
<1> QED
    BY <1>4, <1>5

---------------------------------------------------------------------------
(* What the server's actions do to the connection and the views.           *)

LEMMA OpenIfUnderWay ==
    ASSUME WireOK
    PROVE  /\ up # <<>> => IsOpen(stream)
           /\ down # <<>> => IsOpen(stream)
           /\ \A d \in Doc : sent[d] # NotWatched => IsOpen(stream)
BY DEF WireOK, NoConnection

LEMMA WritesWire ==
    ASSUME IInv, NEW d \in Doc, ServerWrites(d)
    PROVE  WireOK' /\ FreshOK'
<1>1. /\ version[d] < MaxVersion /\ version' = [version EXCEPT ![d] = version[d] + 1]
      /\ UNCHANGED <<current, cache, since, targets, stream, due, heard, pending,
                     up, down, sent, stray>>
    BY DEF ServerWrites, views, aggregator, channel
<1>2. version \in [Doc -> Version] /\ WireOK /\ FreshOK
    BY DEF IInv, WireOK
<1>3. version[d] \in Int /\ version[d] + 1 \in Version
    BY <1>1, <1>2, WatchAssumption DEF Version
<1>4. /\ version' \in [Doc -> Version] /\ version'[d] = version[d] + 1
      /\ \A e \in Doc \ {d} : version'[e] = version[e]
    BY <1>1, <1>2, <1>3
<1>5. \A e \in Doc : since[e] <= version[e] /\ since[e] \in Int
    BY <1>2, VersionFacts DEF FreshOK
<1>6. since[d] <= version[d] + 1
    BY <1>3, <1>5
<1>7. \A e \in Doc : since'[e] <= version'[e]
    BY <1>1, <1>4, <1>5, <1>6
<1>8. /\ \A e \in Doc : Counted(e)' <=> Counted(e)
      /\ \A e \in Doc : Agreed(e)' <=> Agreed(e)
    BY <1>1 DEF Counted, Agreed
<1>9. NoConnection' /\ (IsOpen(stream') <=> IsOpen(stream))
    BY <1>1, <1>2 DEF WireOK, NoConnection
<1>10. WireOK'
    BY <1>1, <1>2, <1>4, <1>8, <1>9 DEF WireOK
<1>11. FreshOK'
    BY <1>1, <1>2, <1>7 DEF FreshOK
<1> QED
    BY <1>10, <1>11

\* The server answers the first request.
LEMMA TakesWire ==
    ASSUME IInv, up # <<>>, NEW k \in {"added", "removed", "error"},
           NEW s \in {Nothing, NotWatched}, Takes(k, s),
           k = "added" <=> s # NotWatched,
           k = "error" \/ (s # NotWatched <=> Head(up).op = "watch")
    PROVE  WireOK' /\ FreshOK'
<1> DEFINE r == Head(up)
           x == [kind |-> k, doc |-> r.doc]
<1>1. WireOK /\ FreshOK /\ targets \subseteq Doc /\ IsOpen(stream)
    <2>1. WireOK /\ FreshOK /\ targets \subseteq Doc
        BY DEF IInv, ListenOK
    <2> QED
        BY <2>1, OpenIfUnderWay
<1>2. /\ up \in Seq(Request) /\ down \in Seq(Response)
      /\ sent \in [Doc -> Version \cup {Nothing, NotWatched}]
      /\ \A d \in Doc : ToldIn(down, d, sent[d])
      /\ ~stray => \A d \in Doc : Counted(d) /\ Agreed(d)
    BY <1>1 DEF WireOK
<1>3. /\ down' = Append(down, x) /\ up' = Tail(up)
      /\ sent' = [sent EXCEPT ![r.doc] = s]
      /\ UNCHANGED <<current, cache, since, targets, stream, due, heard, pending,
                     version, stray>>
    BY DEF Takes, views, aggregator
<1>4. r \in Request /\ Tail(up) \in Seq(Request)
    BY <1>2, Tailed
<1> HIDE DEF r
<1>5. r.doc \in Doc
    BY <1>4, RequestIs
<1>6. x \in Response /\ x.kind = k /\ x.doc = r.doc
    BY <1>5 DEF Response
<1>7. \A d : Answers(x, d) <=> d = r.doc
    BY <1>6 DEF Answers
<1> HIDE DEF x
<1>8. /\ sent' \in [Doc -> Version \cup {Nothing, NotWatched}]
      /\ sent'[r.doc] = s /\ \A d \in Doc \ {r.doc} : sent'[d] = sent[d]
    BY <1>2, <1>3, <1>5
<1>9. down' \in Seq(Response)
    BY <1>2, <1>3, <1>6, Appended
<1>10. ASSUME NEW d \in Doc PROVE ToldIn(down', d, sent'[d])
    <2>1. ToldIn(down, d, sent[d])
        BY <1>2
    <2>2. IF Answers(x, d) THEN x.kind = "added" <=> sent'[d] # NotWatched
          ELSE sent'[d] # NotWatched <=> sent[d] # NotWatched
        BY <1>6, <1>7, <1>8
    <2>3. ToldIn(Append(down, x), d, sent'[d])
        BY <1>2, <1>6, <2>1, <2>2, ToldAppend
    <2> QED
        BY <1>3, <2>3
<1>11. ASSUME ~stray, NEW d \in Doc PROVE Counted(d)'
    <2>1. due[d] = Count(up, For(d)) + Count(down, To(d))
        BY <1>2, <1>11 DEF Counted
    <2>2. /\ Count(up, For(d)) \in Nat /\ Count(down, To(d)) \in Nat
          /\ Count(Tail(up), For(d)) =
                 Count(up, For(d)) - IF Head(up) \in For(d) THEN 1 ELSE 0
          /\ Count(Append(down, x), To(d)) =
                 Count(down, To(d)) + IF x \in To(d) THEN 1 ELSE 0
        BY <1>2, <1>6, CountIs, CountAppend, CountTail
    <2>3. (Head(up) \in For(d) <=> d = r.doc) /\ (x \in To(d) <=> d = r.doc)
        BY <1>4, <1>6, <1>7 DEF For, To, r
    <2>4. due'[d] = Count(up', For(d)) + Count(down', To(d))
        BY <1>3, <2>1, <2>2, <2>3
    <2> QED
        BY <2>4 DEF Counted
<1>12. ASSUME ~stray, NEW d \in Doc PROVE Agreed(d)'
    <2>1. RejectedIn(down, d) \/ (WatchedIn(up, sent[d], d) <=> d \in targets)
        BY <1>2, <1>12 DEF Agreed
    <2>2. RejectedIn(down, d) => RejectedIn(down', d)
        BY <1>2, <1>3, <1>6, AfterAppend
    <2>3. CASE d = r.doc /\ k = "error"
        <3>1. /\ Len(down) + 1 \in DOMAIN Append(down, x)
              /\ Append(down, x)[Len(down) + 1] = x
            BY <1>2, <1>6, Appended
        <3>2. RejectedIn(down', d)
            BY <1>3, <1>6, <2>3, <3>1 DEF RejectedIn
        <3> QED
            BY <3>2 DEF Agreed
    <2>4. CASE d # r.doc \/ k # "error"
        <3>1. IF Head(up).doc = d
              THEN sent'[d] # NotWatched <=> Head(up).op = "watch"
              ELSE sent'[d] = sent[d]
            BY <1>8, <2>4 DEF r
        <3>2. WatchedIn(Tail(up), sent'[d], d) <=> WatchedIn(up, sent[d], d)
            BY <1>2, <3>1, WatchedTail
        <3> QED
            BY <1>3, <2>1, <2>2, <3>2 DEF Agreed
    <2> QED
        BY <2>3, <2>4
<1>13. NoConnection' /\ (IsOpen(stream') <=> IsOpen(stream))
    BY <1>1, <1>3 DEF NoConnection
<1>14. WireOK'
    <2>1. /\ due' \in [Doc -> Int] /\ heard' \in SUBSET Doc
          /\ pending' \in [Doc -> Version \cup {Nothing}]
          /\ version' \in [Doc -> Version] /\ up' \in Seq(Request)
        BY <1>1, <1>3, <1>4 DEF WireOK
    <2> QED
        BY <1>3, <1>8, <1>9, <1>10, <1>11, <1>12, <1>13, <2>1 DEF WireOK
<1>15. ASSUME ~stray, NEW d \in targets
       PROVE  FreshIn(up', down', heard, pending[d], cache[d], d, since[d], sent'[d])
    <2>1. FreshIn(up, down, heard, pending[d], cache[d], d, since[d], sent[d])
        BY <1>1, <1>15 DEF FreshOK
    <2>2. d \in Doc
        BY <1>1
    <2>3. CASE d = r.doc
        <3>1. sent'[d] \notin Version
            BY <1>8, <2>3, VersionFacts
        <3>2. FreshIn(up', Append(down, x), heard, pending[d], cache[d], d,
                      since[d], sent'[d])
            BY <1>2, <1>6, <1>7, <2>3, <3>1, FreshAnswer
        <3> QED
            BY <1>3, <3>2
    <2>4. CASE d # r.doc
        <3>1. AskedIn(up, d) <=> AskedIn(Tail(up), d) \/ Head(up).doc = d
            BY <1>2, AskedTail
        <3>2. (AskedIn(up, d) => AskedIn(up', d)) /\ (AskedIn(up', d) => AskedIn(up, d))
            BY <1>3, <2>4, <3>1 DEF r
        <3>3. /\ ~Answers(x, d) /\ ~(x.kind = "current" /\ x.doc = d)
              /\ x.kind # "snapshot"
            BY <1>6, <1>7, <2>4
        <3>4. FreshIn(up', Append(down, x), heard, pending[d], cache[d], d,
                      since[d], sent[d])
            BY <1>2, <1>6, <2>1, <3>2, <3>3, FreshOther
        <3> QED
            BY <1>3, <1>8, <2>2, <2>4, <3>4
    <2> QED
        BY <2>3, <2>4
<1>16. FreshOK'
    BY <1>1, <1>3, <1>15 DEF FreshOK
<1> QED
    BY <1>14, <1>16

LEMMA ServerTakesWire ==
    ASSUME IInv, ServerTakes
    PROVE  WireOK' /\ FreshOK'
<1>1. up # <<>>
    BY DEF ServerTakes
<1>2. Nothing # NotWatched
    BY VersionFacts
<1>3. CASE Head(up).op = "watch" /\ Takes("added", Nothing)
    BY <1>1, <1>2, <1>3, TakesWire
<1>4. CASE Head(up).op = "unwatch" /\ Takes("removed", NotWatched)
    BY <1>1, <1>2, <1>4, TakesWire
<1> QED
    BY <1>3, <1>4 DEF ServerTakes

LEMMA ServerRejectsWire ==
    ASSUME IInv, ServerRejects
    PROVE  WireOK' /\ FreshOK'
<1>1. up # <<>> /\ Takes("error", NotWatched)
    BY DEF ServerRejects
<1> QED
    BY <1>1, TakesWire

\* What the server watches depends on what it has sent only by whether it
\* watches at all.
LEMMA WatchedSame ==
    ASSUME NEW u, NEW v, NEW v2, NEW d, v # NotWatched <=> v2 # NotWatched
    PROVE  WatchedIn(u, v, d) <=> WatchedIn(u, v2, d)
BY DEF WatchedIn

\* A version or a snapshot answers no request.
LEMMA SendsResponse ==
    ASSUME NEW w \in Seq(Response), NEW x \in Response,
           x.kind \in {"current", "snapshot"}
    PROVE  /\ Append(w, x) \in Seq(Response)
           /\ \A d : ~Answers(x, d)
           /\ \A d : Count(Append(w, x), To(d)) = Count(w, To(d))
           /\ \A d : RejectedIn(w, d) => RejectedIn(Append(w, x), d)
<1>1. \A d : ~Answers(x, d)
    BY DEF Answers
<1>2. ASSUME NEW d PROVE Count(Append(w, x), To(d)) = Count(w, To(d))
    <2>1. x \notin To(d)
        BY <1>1 DEF To
    <2>2. /\ Count(Append(w, x), To(d)) = Count(w, To(d)) + IF x \in To(d) THEN 1 ELSE 0
          /\ Count(w, To(d)) \in Nat
        BY CountAppend, CountIs
    <2> QED
        BY <2>1, <2>2
<1> QED
    BY <1>1, <1>2, AfterAppend, Appended

\* The server sends the version of d and, perhaps, a snapshot.
LEMMA ServerSendsWire ==
    ASSUME IInv, NEW d \in Doc, ServerSends(d)
    PROVE  WireOK' /\ FreshOK'
<1> DEFINE x == [kind |-> "current", doc |-> d, version |-> version[d]]
           y == [kind |-> "snapshot", doc |-> NoDoc]
           w == Append(down, x)
           all == \A e \in Doc : sent'[e] \in {NotWatched, version[e]}
<1>1. WireOK /\ FreshOK /\ targets \subseteq Doc
    BY DEF IInv, ListenOK
<1>2. /\ up \in Seq(Request) /\ down \in Seq(Response)
      /\ sent \in [Doc -> Version \cup {Nothing, NotWatched}]
      /\ version \in [Doc -> Version]
      /\ \A e \in Doc : ToldIn(down, e, sent[e])
      /\ IsOpen(stream) /\ ~stray => \A e \in Doc : Counted(e) /\ Agreed(e)
    BY <1>1 DEF WireOK
<1>3. /\ sent[d] # NotWatched /\ sent' = [sent EXCEPT ![d] = version[d]]
      /\ down' = down \o <<x>> \o IF all THEN <<y>> ELSE <<>>
      /\ UNCHANGED <<current, cache, since, targets, stream, due, heard, pending,
                     up, version, stray>>
    BY DEF ServerSends, views, aggregator
<1>4. IsOpen(stream)
    BY <1>1, <1>3, OpenIfUnderWay
<1>5. /\ x \in Response /\ x.kind = "current" /\ x.doc = d /\ x.version = version[d]
      /\ y \in Response /\ y.kind = "snapshot"
    BY <1>2 DEF Response
<1> HIDE DEF x, y
<1>6. /\ w \in Seq(Response) /\ down \o <<x>> = w
      /\ \A e : ~Answers(x, e)
      /\ \A e : Count(w, To(e)) = Count(down, To(e))
      /\ \A e : RejectedIn(down, e) => RejectedIn(w, e)
    BY <1>2, <1>5, SendsResponse, Appended
<1> HIDE DEF w
<1>7. /\ Append(w, y) \in Seq(Response) /\ w \o <<y>> = Append(w, y)
      /\ \A e : ~Answers(y, e)
      /\ \A e : Count(Append(w, y), To(e)) = Count(w, To(e))
      /\ \A e : RejectedIn(w, e) => RejectedIn(Append(w, y), e)
    BY <1>5, <1>6, SendsResponse, Appended
<1>8. /\ sent' \in [Doc -> Version \cup {Nothing, NotWatched}]
      /\ sent'[d] = version[d] /\ \A e \in Doc \ {d} : sent'[e] = sent[e]
    BY <1>2, <1>3
<1>9. \A e \in Doc : sent'[e] # NotWatched <=> sent[e] # NotWatched
    BY <1>2, <1>3, <1>8, VersionFacts
<1>10. down' = IF all THEN Append(w, y) ELSE w
    <2>1. CASE all
        BY <1>3, <1>6, <1>7, <2>1
    <2>2. CASE ~all
        <3>1. down' = w \o <<>>
            BY <1>3, <1>6, <2>2
        <3> QED
            BY <1>6, <2>2, <3>1, ConcatEmptySeq
    <2> QED
        BY <2>1, <2>2
<1> HIDE DEF all
<1>11. /\ down' \in Seq(Response)
       /\ \A e : Count(down', To(e)) = Count(down, To(e))
       /\ \A e : RejectedIn(down, e) => RejectedIn(down', e)
    BY <1>6, <1>7, <1>10
<1>12. ASSUME NEW e \in Doc PROVE ToldIn(down', e, sent'[e])
    <2>1. ToldIn(down, e, sent[e])
        BY <1>2
    <2>2. sent'[e] # NotWatched <=> sent[e] # NotWatched
        BY <1>9
    <2>3. ToldIn(w, e, sent'[e])
        BY <1>2, <1>5, <1>6, <2>1, <2>2, ToldAppend DEF w
    <2>4. ToldIn(Append(w, y), e, sent'[e])
        BY <1>5, <1>6, <1>7, <2>3, ToldAppend
    <2> QED
        BY <1>10, <2>3, <2>4
<1>13. ASSUME ~stray, NEW e \in Doc PROVE Counted(e)' /\ Agreed(e)'
    <2>1. Counted(e) /\ Agreed(e)
        BY <1>2, <1>4, <1>13
    <2>2. WatchedIn(up, sent'[e], e) <=> WatchedIn(up, sent[e], e)
        BY <1>9, WatchedSame
    <2> QED
        BY <1>3, <1>11, <2>1, <2>2 DEF Counted, Agreed
<1>14. NoConnection'
    BY <1>3, <1>4 DEF NoConnection
<1>15. WireOK'
    <2>1. /\ due' \in [Doc -> Int] /\ heard' \in SUBSET Doc
          /\ pending' \in [Doc -> Version \cup {Nothing}]
          /\ version' \in [Doc -> Version] /\ up' \in Seq(Request)
        BY <1>1, <1>3 DEF WireOK
    <2> QED
        BY <1>3, <1>8, <1>11, <1>12, <1>13, <1>14, <2>1 DEF WireOK
<1>16. ASSUME ~stray, NEW e \in targets
       PROVE  FreshIn(up, down', heard, pending[e], cache[e], e, since[e], sent'[e])
    <2>1. FreshIn(up, down, heard, pending[e], cache[e], e, since[e], sent[e])
        BY <1>1, <1>16 DEF FreshOK
    <2>2. e \in Doc
        BY <1>1
    <2>3. FreshIn(up, w, heard, pending[e], cache[e], e, since[e], sent'[e])
        <3>1. CASE e = d
            <4>1. since[d] <= version[d] /\ since[d] \in Int /\ version[d] \in Int
                BY <1>1, <1>2, VersionFacts DEF FreshOK
            <4>2. x.version >= since[e]
                BY <1>5, <3>1, <4>1
            <4> QED
                BY <1>2, <1>5, <2>1, <3>1, <4>2, FreshSends DEF w
        <3>2. CASE e # d
            <4>1. ~(x.kind = "current" /\ x.doc = e) /\ x.kind # "snapshot"
                BY <1>5, <3>2
            <4>2. FreshIn(up, w, heard, pending[e], cache[e], e, since[e], sent[e])
                BY <1>2, <1>5, <1>6, <2>1, <4>1, FreshOther DEF w
            <4> QED
                BY <1>8, <2>2, <3>2, <4>2
        <3> QED
            BY <3>1, <3>2
    <2>4. CASE all
        <3>1. sent'[e] \in {NotWatched, version[e]}
            BY <2>2, <2>4 DEF all
        <3>2. \/ HeardIn(heard, pending[e], cache[e], e, since[e])
              \/ AskedIn(up, e) \/ RejectedIn(w, e)
              \/ \E i \in DOMAIN w : TellsIn(w, i, e, since[e])
            <4>1. CASE sent'[e] = version[e]
                <5>1. sent'[e] \in Version
                    BY <1>2, <2>2, <4>1
                <5> QED
                    BY <2>3, <5>1 DEF FreshIn, SentIn
            <4>2. CASE sent'[e] = NotWatched /\ ~AskedIn(up, e)
                <5>1. sent[e] = NotWatched
                    BY <1>9, <2>2, <4>2
                <5>2. WatchedIn(up, sent[e], e) <=> sent[e] # NotWatched
                    BY <1>2, <4>2, WatchedBy DEF AskedIn
                <5>3. RejectedIn(down, e)
                    BY <1>2, <1>4, <1>16, <2>2, <5>1, <5>2 DEF Agreed
                <5> QED
                    BY <1>6, <5>3
            <4> QED
                BY <3>1, <4>1, <4>2
        <3>3. ~(y.kind = "current" /\ y.doc = e)
            BY <1>5
        <3>4. FreshIn(up, Append(w, y), heard, pending[e], cache[e], e, since[e],
                      sent'[e])
            BY <1>5, <1>6, <1>7, <2>3, <3>2, <3>3, FreshOther
        <3> QED
            BY <1>10, <2>4, <3>4
    <2>5. CASE ~all
        BY <1>10, <2>3, <2>5
    <2> QED
        BY <2>4, <2>5
<1>17. FreshOK'
    BY <1>1, <1>3, <1>16 DEF FreshOK
<1> QED
    BY <1>15, <1>17

---------------------------------------------------------------------------
(* What the responses do to the connection and the views.                  *)

LEMMA HearsIs ==
    ASSUME IInv, NEW k, Hears(k)
    PROVE  /\ down # <<>> /\ down' = Tail(down) /\ Head(down).kind = k
           /\ down \in Seq(Response) /\ down' \in Seq(Response)
           /\ Head(down) = down[1] /\ Head(down) \in Response
           /\ 1 \in DOMAIN down /\ IsOpen(stream)
           /\ \A d : Count(down', To(d)) =
                  Count(down, To(d)) - IF Head(down) \in To(d) THEN 1 ELSE 0
           /\ \A d : Count(down, To(d)) \in Nat /\ Count(up, For(d)) \in Nat
           /\ \A d : Head(down) \in To(d) <=> Answers(Head(down), d)
<1>1. WireOK /\ down # <<>> /\ down' = Tail(down) /\ Head(down).kind = k
    BY DEF IInv, Hears
<1>2. down \in Seq(Response) /\ up \in Seq(Request)
    BY <1>1 DEF WireOK
<1>3. IsOpen(stream)
    BY <1>1, OpenIfUnderWay
<1>4. /\ down' \in Seq(Response) /\ Head(down) = down[1] /\ Head(down) \in Response
      /\ Len(down) \in Nat /\ Len(down) >= 1 /\ DOMAIN down = 1..Len(down)
    BY <1>1, <1>2, Tailed
<1>5. 1 \in DOMAIN down
    BY <1>4
<1>6. \A d : /\ Count(down', To(d)) =
                    Count(down, To(d)) - IF Head(down) \in To(d) THEN 1 ELSE 0
             /\ Count(down, To(d)) \in Nat /\ Count(up, For(d)) \in Nat
    BY <1>1, <1>2, CountTail, CountIs
<1>7. \A d : Head(down) \in To(d) <=> Answers(Head(down), d)
    BY <1>4 DEF To
<1> QED
    BY <1>1, <1>2, <1>3, <1>4, <1>5, <1>6, <1>7

\* A response is read that rejects nothing.  The count goes on.
LEMMA HearsWire ==
    ASSUME IInv, NEW k, k # "error", Hears(k), due' \in [Doc -> Int],
           heard' \in SUBSET Doc, pending' \in [Doc -> Version \cup {Nothing}],
           \A d \in Doc :
               due'[d] = due[d] - IF Answers(Head(down), d) THEN 1 ELSE 0,
           UNCHANGED <<targets, stream, up, sent, version, stray>>
    PROVE  WireOK'
<1>1. /\ down # <<>> /\ down' = Tail(down) /\ Head(down).kind = k
      /\ down \in Seq(Response) /\ down' \in Seq(Response)
      /\ IsOpen(stream)
      /\ \A d : Count(down', To(d)) =
             Count(down, To(d)) - IF Head(down) \in To(d) THEN 1 ELSE 0
      /\ \A d : Count(down, To(d)) \in Nat /\ Count(up, For(d)) \in Nat
      /\ \A d : Head(down) \in To(d) <=> Answers(Head(down), d)
    BY HearsIs
<1>2. WireOK
    BY DEF IInv
<1>3. ASSUME NEW d \in Doc PROVE ToldIn(down', d, sent'[d])
    <2>1. ToldIn(down, d, sent[d])
        BY <1>2 DEF WireOK
    <2>2. ToldIn(Tail(down), d, sent[d])
        BY <1>1, <2>1, ToldTail
    <2> QED
        BY <1>1, <2>2
<1>4. ASSUME ~stray, NEW d \in Doc PROVE Counted(d)'
    <2>1. due[d] = Count(up, For(d)) + Count(down, To(d))
        BY <1>1, <1>2, <1>4 DEF WireOK, Counted
    <2>2. due'[d] = Count(up, For(d)) + Count(down', To(d))
        BY <1>1, <2>1
    <2> QED
        BY <2>2 DEF Counted
<1>5. ASSUME ~stray, NEW d \in Doc PROVE Agreed(d)'
    <2>1. RejectedIn(down, d) \/ (WatchedIn(up, sent[d], d) <=> d \in targets)
        BY <1>1, <1>2, <1>5 DEF WireOK, Agreed
    <2>2. ~(Head(down).kind = "error" /\ Head(down).doc = d)
        BY <1>1
    <2>3. RejectedIn(down, d) => RejectedIn(Tail(down), d)
        BY <1>1, <2>2, AfterTail
    <2> QED
        BY <1>1, <2>1, <2>3 DEF Agreed
<1>6. NoConnection'
    BY <1>1 DEF NoConnection
<1>7. up' \in Seq(Request) /\ version' \in [Doc -> Version]
      /\ sent' \in [Doc -> Version \cup {Nothing, NotWatched}]
    BY <1>2 DEF WireOK
<1> QED
    BY <1>1, <1>3, <1>4, <1>5, <1>6, <1>7 DEF WireOK

\* The response to a watch or an unwatch request.
LEMMA ConfirmedWire ==
    ASSUME IInv, NEW k \in {"added", "removed"}, Hears(k),
           due' = [due EXCEPT ![Head(down).doc] = @ - 1],
           heard' \subseteq heard, \A d \in heard : d # Head(down).doc => d \in heard',
           UNCHANGED <<current, cache, since, targets, stream, pending, up, sent,
                       version, stray>>
    PROVE  WireOK' /\ FreshOK'
<1>1. /\ down # <<>> /\ down' = Tail(down) /\ Head(down).kind = k
      /\ down \in Seq(Response) /\ Head(down) = down[1]
    BY HearsIs
<1>2. WireOK /\ FreshOK /\ targets \subseteq Doc
    BY DEF IInv, ListenOK
<1>3. /\ due \in [Doc -> Int] /\ heard \in SUBSET Doc
      /\ pending \in [Doc -> Version \cup {Nothing}]
    BY <1>2 DEF WireOK
<1>4. \A d : Answers(Head(down), d) <=> d = Head(down).doc
    BY <1>1 DEF Answers
<1>5. /\ due' \in [Doc -> Int]
      /\ \A d \in Doc : due'[d] = due[d] - IF Answers(Head(down), d) THEN 1 ELSE 0
    <2>1. \A d \in Doc : due'[d] = IF d = Head(down).doc THEN due[d] - 1 ELSE due[d]
        BY <1>3
    <2>2. due' \in [Doc -> Int]
        <3>1. due' = [d \in Doc |-> due'[d]]
            BY <1>3
        <3>2. \A d \in Doc : due'[d] \in Int
            BY <1>3, <2>1
        <3> QED
            BY <3>1, <3>2
    <2> QED
        BY <1>3, <1>4, <2>1, <2>2
<1>6. WireOK'
    <2>1. heard' \in SUBSET Doc /\ pending' \in [Doc -> Version \cup {Nothing}]
        BY <1>3
    <2> QED
        BY <1>5, <2>1, HearsWire
<1>7. ASSUME ~stray, NEW d \in targets
      PROVE  FreshIn(up, down', heard', pending[d], cache[d], d, since[d], sent[d])
    <2>1. FreshIn(up, down, heard, pending[d], cache[d], d, since[d], sent[d])
        BY <1>2, <1>7 DEF FreshOK
    <2>2. HeardIn(heard, pending[d], cache[d], d, since[d]) =>
              HeardIn(heard', pending[d], cache[d], d, since[d])
        BY DEF HeardIn
    <2>3. ~TellsIn(down, 1, d, since[d])
        BY <1>1 DEF TellsIn
    <2>4. ~(Head(down).kind = "error" /\ Head(down).doc = d)
        BY <1>1
    <2>5. FreshIn(up, Tail(down), heard', pending[d], cache[d], d, since[d], sent[d])
        BY <1>1, <2>1, <2>2, <2>3, <2>4, FreshTail
    <2> QED
        BY <1>1, <2>5
<1>8. FreshOK'
    BY <1>2, <1>7 DEF FreshOK
<1> QED
    BY <1>6, <1>8

LEMMA AddedWire ==
    ASSUME IInv, TargetAdded
    PROVE  WireOK' /\ FreshOK'
<1>1. /\ Hears("added") /\ due' = [due EXCEPT ![Head(down).doc] = @ - 1]
      /\ UNCHANGED <<current, cache, since, targets, stream, heard, pending, up,
                     sent, version, stray>>
    BY DEF TargetAdded, views
<1> QED
    BY <1>1, ConfirmedWire

LEMMA RemovedWire ==
    ASSUME IInv, TargetRemoved
    PROVE  WireOK' /\ FreshOK'
<1>1. /\ Hears("removed") /\ due' = [due EXCEPT ![Head(down).doc] = @ - 1]
      /\ heard' = IF due'[Head(down).doc] = 0 THEN heard \ {Head(down).doc}
                  ELSE heard
      /\ UNCHANGED <<current, cache, since, targets, stream, pending, up,
                     sent, version, stray>>
    BY DEF TargetRemoved, views
<1>2. /\ heard' \subseteq heard
      /\ \A d \in heard : d # Head(down).doc => d \in heard'
    BY <1>1
<1> QED
    BY <1>1, <1>2, ConfirmedWire

\* No response is due to an active target: none is under way.
LEMMA NoneDue ==
    ASSUME IInv, IsOpen(stream), ~stray, NEW d \in Doc
    PROVE  /\ due[d] = 0 => /\ ~AskedIn(up, d)
                            /\ \A i \in DOMAIN down : ~Answers(down[i], d)
                            /\ \A i : ~After(down, i, d)
                            /\ ~RejectedIn(down, d)
           /\ due[d] # 0 => \/ AskedIn(up, d)
                            \/ \E i \in DOMAIN down : Answers(down[i], d)
<1>1. /\ up \in Seq(Request) /\ down \in Seq(Response)
      /\ due[d] = Count(up, For(d)) + Count(down, To(d))
    BY DEF IInv, WireOK, Counted
<1>2. /\ Count(up, For(d)) \in Nat /\ Count(down, To(d)) \in Nat
      /\ Count(up, For(d)) = 0 <=> \A i \in DOMAIN up : up[i] \notin For(d)
      /\ Count(down, To(d)) = 0 <=> \A i \in DOMAIN down : down[i] \notin To(d)
    BY <1>1, CountIs
<1>3. /\ \A i \in DOMAIN up : up[i] \in For(d) <=> up[i].doc = d
      /\ \A i \in DOMAIN down : down[i] \in To(d) <=> Answers(down[i], d)
    BY <1>1, PlacesFor, PlacesTo
<1>4. due[d] = 0 <=> Count(up, For(d)) = 0 /\ Count(down, To(d)) = 0
    BY <1>1, <1>2
<1>5. AskedIn(up, d) <=> Count(up, For(d)) # 0
    BY <1>2, <1>3 DEF AskedIn
<1>6. (\E i \in DOMAIN down : Answers(down[i], d)) <=> Count(down, To(d)) # 0
    BY <1>2, <1>3
<1>7. ASSUME \A i \in DOMAIN down : ~Answers(down[i], d)
      PROVE  (\A i : ~After(down, i, d)) /\ ~RejectedIn(down, d)
    BY <1>7 DEF After, RejectedIn, Answers
<1> QED
    BY <1>4, <1>5, <1>6, <1>7

\* A document and that its target is current.
LEMMA CurrentWire ==
    ASSUME IInv, TargetCurrent
    PROVE  WireOK' /\ FreshOK'
<1> DEFINE d == Head(down).doc
           v == Head(down).version
<1>1. /\ Hears("current")
      /\ IF IsActiveTarget(d)
         THEN heard' = heard \cup {d} /\ pending' = [pending EXCEPT ![d] = v]
         ELSE UNCHANGED <<heard, pending>>
      /\ UNCHANGED <<current, cache, since, targets, stream, due, up, sent,
                     version, stray>>
    BY DEF TargetCurrent, views
<1>2. /\ down # <<>> /\ down' = Tail(down) /\ Head(down).kind = "current"
      /\ down \in Seq(Response) /\ Head(down) = down[1] /\ Head(down) \in Response
      /\ 1 \in DOMAIN down /\ IsOpen(stream)
    BY <1>1, HearsIs
<1>3. d \in Doc /\ v \in Version
    BY <1>2, ResponseIs
<1>4. WireOK /\ FreshOK /\ targets \subseteq Doc
    BY DEF IInv, ListenOK
<1>5. /\ due \in [Doc -> Int] /\ heard \in SUBSET Doc
      /\ pending \in [Doc -> Version \cup {Nothing}]
    BY <1>4 DEF WireOK
<1>6. ~IsActiveTarget(d) => UNCHANGED <<heard, pending>>
    BY <1>1
<1>7. IsActiveTarget(d) =>
          heard' = heard \cup {d} /\ pending' = [pending EXCEPT ![d] = v]
    BY <1>1
<1>8. down[1].kind = "current" /\ down[1].doc = d /\ down[1].version = v
    BY <1>2
<1> HIDE DEF d, v
<1>9. heard' \in SUBSET Doc /\ pending' \in [Doc -> Version \cup {Nothing}]
    BY <1>3, <1>5, <1>6, <1>7
<1>10. \A e : ~Answers(Head(down), e)
    BY <1>2 DEF Answers
<1>11. \A e \in Doc : due'[e] = due[e] - IF Answers(Head(down), e) THEN 1 ELSE 0
    BY <1>1, <1>5, <1>10
<1>12. WireOK'
    BY <1>1, <1>5, <1>9, <1>11, HearsWire
<1>13. ASSUME ~stray, IsActiveTarget(d)
       PROVE  v >= since[d]
    <2>1. d \in targets /\ due[d] = 0
        BY <1>13 DEF IsActiveTarget
    <2>2. ~AskedIn(up, d) /\ ~After(down, 1, d)
        BY <1>2, <1>3, <1>13, <2>1, NoneDue
    <2>3. VersionsIn(up, down, d, since[d])
        BY <1>4, <1>13, <2>1 DEF FreshOK, FreshIn
    <2> QED
        BY <1>2, <1>8, <2>2, <2>3 DEF VersionsIn
<1>14. v # Nothing
    BY <1>3, VersionFacts
<1>15. ASSUME ~stray, NEW e \in targets
       PROVE  FreshIn(up, down', heard', pending'[e], cache[e], e, since[e], sent[e])
    <2>1. FreshIn(up, down, heard, pending[e], cache[e], e, since[e], sent[e])
        BY <1>4, <1>15 DEF FreshOK
    <2>2. e \in Doc
        BY <1>4
    <2>3. HeardIn(heard, pending[e], cache[e], e, since[e]) =>
              HeardIn(heard', pending'[e], cache[e], e, since[e])
        <3>1. CASE ~IsActiveTarget(d)
            BY <1>6, <3>1
        <3>2. CASE IsActiveTarget(d) /\ e = d
            <4>1. pending'[e] = v
                BY <1>3, <1>5, <1>7, <3>2
            <4> QED
                BY <1>13, <1>14, <1>15, <3>2, <4>1 DEF HeardIn
        <3>3. CASE IsActiveTarget(d) /\ e # d
            <4>1. pending'[e] = pending[e] /\ (e \in heard' => e \in heard)
                BY <1>5, <1>7, <2>2, <3>3
            <4> QED
                BY <4>1 DEF HeardIn
        <3> QED
            BY <3>1, <3>2, <3>3
    <2>4. TellsIn(down, 1, e, since[e]) =>
              AskedIn(up, e) \/ HeardIn(heard', pending'[e], cache[e], e, since[e])
        <3>1. SUFFICES ASSUME TellsIn(down, 1, e, since[e])
                       PROVE  \/ AskedIn(up, e)
                              \/ HeardIn(heard', pending'[e], cache[e], e, since[e])
            OBVIOUS
        <3>2. e = d /\ ~After(down, 1, e)
            BY <1>8, <3>1 DEF TellsIn
        <3>3. CASE IsActiveTarget(d)
            <4>1. pending'[e] = v
                BY <1>3, <1>5, <1>7, <3>2, <3>3
            <4> QED
                BY <1>13, <1>14, <1>15, <3>2, <3>3, <4>1 DEF HeardIn
        <3>4. CASE ~IsActiveTarget(d)
            <4>1. due[d] # 0
                BY <1>15, <3>2, <3>4 DEF IsActiveTarget
            <4>2. AskedIn(up, d) \/ \E i \in DOMAIN down : Answers(down[i], d)
                BY <1>2, <1>3, <1>15, <4>1, NoneDue
            <4>3. ASSUME NEW i \in DOMAIN down, Answers(down[i], d)
                  PROVE  FALSE
                <5>1. i # 1
                    BY <1>2, <1>10, <4>3
                <5>2. DOMAIN down = 1..Len(down) /\ Len(down) \in Nat
                    BY <1>2, LenProperties
                <5>3. i > 1
                    BY <5>1, <5>2
                <5> QED
                    BY <3>2, <4>3, <5>3 DEF After
            <4> QED
                BY <3>2, <4>2, <4>3
        <3> QED
            BY <3>3, <3>4
    <2>5. ~(Head(down).kind = "error" /\ Head(down).doc = e)
        BY <1>2
    <2>6. FreshIn(up, Tail(down), heard', pending'[e], cache[e], e, since[e], sent[e])
        BY <1>2, <2>1, <2>3, <2>4, <2>5, FreshTail
    <2> QED
        BY <1>2, <2>6
<1>16. ASSUME ~stray, NEW e \in current
       PROVE  /\ cache[e] >= since[e]
              /\ pending'[e] # Nothing => pending'[e] >= since[e]
    <2>1. /\ cache[e] >= since[e] /\ e \in Doc
          /\ pending[e] # Nothing => pending[e] >= since[e]
        BY <1>4, <1>16 DEF FreshOK
    <2>2. CASE ~IsActiveTarget(d)
        BY <1>6, <2>1, <2>2
    <2>3. CASE IsActiveTarget(d) /\ e = d
        <3>1. pending'[e] = v
            BY <1>3, <1>5, <1>7, <2>3
        <3> QED
            BY <1>13, <1>16, <2>1, <2>3, <3>1
    <2>4. CASE IsActiveTarget(d) /\ e # d
        <3>1. pending'[e] = pending[e]
            BY <1>5, <1>7, <2>1, <2>4
        <3> QED
            BY <2>1, <3>1
    <2> QED
        BY <2>2, <2>3, <2>4
<1>17. FreshOK'
    BY <1>1, <1>4, <1>15, <1>16 DEF FreshOK
<1> QED
    BY <1>12, <1>17

\* A target is rejected.  If no other request for it is under way, client and
\* server agree again.
LEMMA ErrorWire ==
    ASSUME IInv, ProcessTargetError
    PROVE  WireOK' /\ FreshOK' /\ stray' \in BOOLEAN
<1> DEFINE d == Head(down).doc
<1>1. /\ Hears("error")
      /\ IF d \in targets
         THEN /\ targets' = targets \ {d} /\ due' = [due EXCEPT ![d] = 0]
              /\ heard' = heard \ {d} /\ current' = current \ {d}
         ELSE UNCHANGED <<targets, due, heard, current>>
      /\ UNCHANGED <<cache, since, stream, pending, up, sent, version>>
    BY DEF ProcessTargetError
<1>2. stray' = (stray \/ d \notin targets \/ due[d] # 1)
    BY DEF ProcessTargetError
<1>3. stray' \in BOOLEAN
    BY <1>2, Zenon
<1>4. ~stray' => ~stray /\ d \in targets /\ due[d] = 1
    BY <1>2, Zenon
<1>5. /\ down # <<>> /\ down' = Tail(down) /\ Head(down).kind = "error"
      /\ down \in Seq(Response) /\ down' \in Seq(Response) /\ Head(down) = down[1]
      /\ 1 \in DOMAIN down /\ IsOpen(stream)
      /\ \A e : Count(down', To(e)) =
             Count(down, To(e)) - IF Head(down) \in To(e) THEN 1 ELSE 0
      /\ \A e : Count(down, To(e)) \in Nat /\ Count(up, For(e)) \in Nat
      /\ \A e : Head(down) \in To(e) <=> Answers(Head(down), e)
    BY <1>1, HearsIs
<1>6. \A e : Answers(Head(down), e) <=> e = d
    BY <1>5 DEF Answers
<1>7. WireOK /\ FreshOK /\ targets \subseteq Doc
    BY DEF IInv, ListenOK
<1>8. /\ up \in Seq(Request) /\ due \in [Doc -> Int] /\ heard \in SUBSET Doc
      /\ \A e \in Doc : ToldIn(down, e, sent[e])
      /\ ~stray => \A e \in Doc : Counted(e) /\ Agreed(e)
    BY <1>5, <1>7 DEF WireOK
<1> HIDE DEF d
<1>9. due' \in [Doc -> Int] /\ heard' \in SUBSET Doc /\ heard' \subseteq heard
    BY <1>1, <1>8
<1>10. ASSUME NEW e \in Doc PROVE ToldIn(down', e, sent'[e])
    <2>1. ToldIn(Tail(down), e, sent[e])
        BY <1>5, <1>8, ToldTail
    <2> QED
        BY <1>1, <1>5, <2>1
<1>11. ASSUME ~stray'
       PROVE  /\ Count(up, For(d)) = 0 /\ Count(down, To(d)) = 1
              /\ d \in Doc /\ due' = [due EXCEPT ![d] = 0]
              /\ targets' = targets \ {d}
    <2>1. ~stray /\ d \in targets /\ due[d] = 1 /\ d \in Doc
        BY <1>4, <1>7, <1>11
    <2>2. due[d] = Count(up, For(d)) + Count(down, To(d))
        BY <1>8, <2>1 DEF Counted
    <2>3. Count(down, To(d)) # 0
        <3>1. down[1] \in To(d)
            BY <1>5, <1>6
        <3> QED
            BY <1>5, <3>1, CountIs
    <2> QED
        BY <1>1, <1>5, <2>1, <2>2, <2>3
<1>12. ASSUME ~stray', NEW e \in Doc PROVE Counted(e)'
    <2>1. Count(down', To(e)) = Count(down, To(e)) - IF e = d THEN 1 ELSE 0
        BY <1>5, <1>6
    <2>2. CASE e = d
        <3>1. due'[e] = 0
            BY <1>8, <1>11, <1>12, <2>2
        <3>2. 0 = Count(up, For(e)) + Count(down', To(e))
            BY <1>11, <1>12, <2>1, <2>2
        <3> QED
            BY <1>1, <3>1, <3>2 DEF Counted
    <2>3. CASE e # d
        <3>1. due'[e] = due[e]
            BY <1>8, <1>11, <1>12, <2>3
        <3>2. due[e] = Count(up, For(e)) + Count(down, To(e))
            BY <1>4, <1>8, <1>12 DEF Counted
        <3>3. Count(down', To(e)) = Count(down, To(e))
            BY <1>5, <2>1, <2>3
        <3> QED
            BY <1>1, <3>1, <3>2, <3>3 DEF Counted
    <2> QED
        BY <2>2, <2>3
<1>13. ASSUME ~stray', NEW e \in Doc PROVE Agreed(e)'
    <2>1. CASE e = d
        <3>1. \A i, j \in DOMAIN down : down[i] \in To(d) /\ down[j] \in To(d) => i = j
            BY <1>5, <1>11, <1>13, CountIs
        <3>2. \A i \in DOMAIN down : down[i] \in To(d) <=> Answers(down[i], d)
            BY <1>5, PlacesTo
        <3>3. Answers(down[1], d)
            BY <1>5, <1>6
        <3>4. ~After(down, 1, d)
            <4>1. SUFFICES ASSUME NEW j \in DOMAIN down, j > 1, Answers(down[j], d)
                           PROVE  FALSE
                BY DEF After
            <4>2. j = 1
                BY <1>5, <3>1, <3>2, <3>3, <4>1
            <4> QED
                BY <4>1, <4>2
        <3>5. down[1].kind = "added" <=> sent[d] # NotWatched
            BY <1>5, <1>8, <1>11, <1>13, <3>3, <3>4 DEF ToldIn
        <3>6. sent[d] = NotWatched
            BY <1>5, <3>5
        <3>7. \A i \in DOMAIN up : up[i].doc # d
            <4>1. \A i \in DOMAIN up : up[i] \notin For(d)
                BY <1>8, <1>11, <1>13, CountIs
            <4> QED
                BY <1>8, <4>1, PlacesFor
        <3>8. WatchedIn(up, sent[d], d) <=> sent[d] # NotWatched
            BY <1>8, <3>7, WatchedBy
        <3> QED
            BY <1>1, <1>11, <1>13, <2>1, <3>6, <3>8 DEF Agreed
    <2>2. CASE e # d
        <3>1. RejectedIn(down, e) \/ (WatchedIn(up, sent[e], e) <=> e \in targets)
            BY <1>4, <1>8, <1>13 DEF Agreed
        <3>2. ~(Head(down).kind = "error" /\ Head(down).doc = e)
            BY <2>2 DEF d
        <3>3. RejectedIn(down, e) => RejectedIn(Tail(down), e)
            BY <1>5, <3>2, AfterTail
        <3>4. e \in targets' <=> e \in targets
            BY <1>11, <1>13, <2>2
        <3> QED
            BY <1>1, <1>5, <3>1, <3>3, <3>4 DEF Agreed
    <2> QED
        BY <2>1, <2>2
<1>14. NoConnection'
    BY <1>1, <1>5 DEF NoConnection
<1>15. WireOK'
    <2>1. /\ up' \in Seq(Request) /\ version' \in [Doc -> Version]
          /\ sent' \in [Doc -> Version \cup {Nothing, NotWatched}]
          /\ pending' \in [Doc -> Version \cup {Nothing}]
        BY <1>1, <1>7 DEF WireOK
    <2> QED
        BY <1>5, <1>9, <1>10, <1>12, <1>13, <1>14, <2>1 DEF WireOK
<1>16. ASSUME ~stray', NEW e \in targets'
       PROVE  FreshIn(up, down', heard', pending[e], cache[e], e, since[e], sent[e])
    <2>1. ~stray /\ e \in targets /\ e # d
        BY <1>4, <1>11, <1>16
    <2>2. FreshIn(up, down, heard, pending[e], cache[e], e, since[e], sent[e])
        BY <1>7, <2>1 DEF FreshOK
    <2>3. HeardIn(heard, pending[e], cache[e], e, since[e]) =>
              HeardIn(heard', pending[e], cache[e], e, since[e])
        BY <1>9 DEF HeardIn
    <2>4. ~TellsIn(down, 1, e, since[e])
        BY <1>5 DEF TellsIn
    <2>5. ~(Head(down).kind = "error" /\ Head(down).doc = e)
        BY <2>1 DEF d
    <2>6. FreshIn(up, Tail(down), heard', pending[e], cache[e], e, since[e], sent[e])
        BY <1>5, <2>2, <2>3, <2>4, <2>5, FreshTail
    <2> QED
        BY <1>5, <2>6
<1>17. current' \subseteq targets' /\ current' \subseteq current
    BY <1>1, <1>7 DEF FreshOK
<1>18. FreshOK'
    <2>1. ~stray' => \A e \in current' :
              /\ cache'[e] >= since'[e]
              /\ pending'[e] # Nothing => pending'[e] >= since'[e]
        BY <1>1, <1>4, <1>7, <1>17 DEF FreshOK
    <2>2. ~stray' => \A e \in targets' :
              FreshIn(up', down', heard', pending'[e], cache'[e], e, since'[e],
                      sent'[e])
        BY <1>1, <1>16
    <2>3. /\ cache' \in [Doc -> Version] /\ since' \in [Doc -> Version]
          /\ \A e \in Doc : since'[e] <= version'[e]
        BY <1>1, <1>7 DEF FreshOK
    <2> QED
        BY <1>17, <2>1, <2>2, <2>3 DEF FreshOK
<1> QED
    BY <1>3, <1>15, <1>18

\* A global snapshot: what was heard of the targets goes to the views.
LEMMA SnapshotWire ==
    ASSUME IInv, RaiseWatchSnapshot
    PROVE  WireOK' /\ FreshOK'
<1> DEFINE active == {d \in Doc : IsActiveTarget(d)}
           synced == (current \ active) \cup (active \cap heard)
           fresh == [d \in Doc |->
                        IF pending[d] # Nothing THEN pending[d] ELSE cache[d]]
<1>1. /\ Hears("snapshot") /\ cache' = fresh /\ current' = synced
      /\ pending' = [d \in Doc |-> Nothing]
      /\ UNCHANGED <<since, targets, stream, due, heard, up, sent, version, stray>>
    BY DEF RaiseWatchSnapshot
<1>2. /\ down # <<>> /\ down' = Tail(down) /\ Head(down).kind = "snapshot"
      /\ down \in Seq(Response) /\ Head(down) = down[1]
      /\ 1 \in DOMAIN down /\ IsOpen(stream)
    BY <1>1, HearsIs
<1>3. WireOK /\ FreshOK /\ targets \subseteq Doc
    BY DEF IInv, ListenOK
<1>4. /\ due \in [Doc -> Int] /\ heard \in SUBSET Doc
      /\ pending \in [Doc -> Version \cup {Nothing}]
      /\ cache \in [Doc -> Version] /\ current \subseteq targets
    BY <1>3 DEF WireOK, FreshOK
<1>5. fresh \in [Doc -> Version]
    BY <1>4
<1>6. \A d \in Doc : fresh[d] = IF pending[d] # Nothing THEN pending[d] ELSE cache[d]
    OBVIOUS
<1>7. /\ synced \subseteq targets
      /\ \A d \in synced : d \in current \/ (d \in heard /\ due[d] = 0)
    BY <1>4 DEF IsActiveTarget
<1> HIDE DEF synced, fresh, active
<1>8. \A e : ~Answers(Head(down), e)
    BY <1>2 DEF Answers
<1>9. \A e \in Doc : due'[e] = due[e] - IF Answers(Head(down), e) THEN 1 ELSE 0
    BY <1>1, <1>4, <1>8
<1>10. WireOK'
    <2>1. /\ due' \in [Doc -> Int] /\ heard' \in SUBSET Doc
          /\ pending' \in [Doc -> Version \cup {Nothing}]
        BY <1>1, <1>4
    <2> QED
        BY <1>1, <1>9, <2>1, HearsWire
<1>11. ASSUME ~stray, NEW e \in targets
       PROVE  FreshIn(up, down', heard, Nothing, fresh[e], e, since[e], sent[e])
    <2>1. FreshIn(up, down, heard, pending[e], cache[e], e, since[e], sent[e])
        BY <1>3, <1>11 DEF FreshOK
    <2>2. HeardIn(heard, pending[e], cache[e], e, since[e]) =>
              HeardIn(heard, Nothing, fresh[e], e, since[e])
        BY <1>3, <1>6 DEF HeardIn
    <2>3. ~TellsIn(down, 1, e, since[e])
        BY <1>2 DEF TellsIn
    <2>4. ~(Head(down).kind = "error" /\ Head(down).doc = e)
        BY <1>2
    <2>5. FreshIn(up, Tail(down), heard, Nothing, fresh[e], e, since[e], sent[e])
        BY <1>2, <2>1, <2>2, <2>3, <2>4, FreshTail
    <2> QED
        BY <1>2, <2>5
<1>12. ASSUME ~stray, NEW e \in synced PROVE fresh[e] >= since[e]
    <2>1. e \in targets /\ e \in Doc
        BY <1>3, <1>7
    <2>2. CASE e \in current
        <3>1. /\ cache[e] >= since[e]
              /\ pending[e] # Nothing => pending[e] >= since[e]
            BY <1>3, <1>12, <2>2 DEF FreshOK
        <3> QED
            BY <1>6, <2>1, <3>1
    <2>3. CASE e \in heard /\ due[e] = 0
        <3>1. ~AskedIn(up, e) /\ ~After(down, 1, e) /\ ~RejectedIn(down, e)
            BY <1>2, <1>12, <2>1, <2>3, NoneDue
        <3>2. SnapshotsIn(up, down, heard, pending[e], cache[e], e, since[e])
            BY <1>3, <1>12, <2>1 DEF FreshOK, FreshIn
        <3>3. \A i \in DOMAIN down : ~(i < 1)
            <4>1. DOMAIN down = 1..Len(down) /\ Len(down) \in Nat
                BY <1>2, LenProperties
            <4> QED
                BY <4>1
        <3>4. HeardIn(heard, pending[e], cache[e], e, since[e])
            BY <1>2, <3>1, <3>2, <3>3 DEF SnapshotsIn
        <3> QED
            BY <1>6, <2>1, <2>3, <3>4 DEF HeardIn
    <2> QED
        BY <1>7, <1>12, <2>2, <2>3
<1>13. \A e \in Doc : pending'[e] = Nothing
    BY <1>1
<1>14. FreshOK'
    <2>1. ~stray' => \A e \in current' :
              /\ cache'[e] >= since'[e]
              /\ pending'[e] # Nothing => pending'[e] >= since'[e]
        BY <1>1, <1>3, <1>7, <1>12, <1>13
    <2>2. ~stray' => \A e \in targets' :
              FreshIn(up', down', heard', pending'[e], cache'[e], e, since'[e],
                      sent'[e])
        <3>1. \A e \in targets : pending'[e] = Nothing
            BY <1>3, <1>13
        <3> QED
            BY <1>1, <1>11, <3>1
    <2>3. /\ cache' \in [Doc -> Version] /\ since' \in [Doc -> Version]
          /\ \A e \in Doc : since'[e] <= version'[e]
        BY <1>1, <1>3, <1>5 DEF FreshOK
    <2>4. current' \subseteq targets'
        BY <1>1, <1>7
    <2> QED
        BY <2>1, <2>2, <2>3, <2>4 DEF FreshOK
<1> QED
    BY <1>10, <1>14

---------------------------------------------------------------------------
(* Every step keeps the invariant.                                         *)

LEMMA InitIInv == Init => IInv
<1> SUFFICES ASSUME Init PROVE IInv
    OBVIOUS
<1> USE DEF Init
<1>1. ListenOK
    <2>1. Listening = {}
        BY DEF Listening
    <2>2. \A g \in Get : GetIn(<<>>, <<>>, g, Listening)
        BY GetNew
    <2>3. \A g \in Get : events[g] = <<>> /\ answers[g] = <<>> /\ g \notin muted
        OBVIOUS
    <2>4. /\ queries \in [Doc -> SUBSET Listener] /\ raised \in SUBSET Get
          /\ muted \in SUBSET Get /\ doc \in [Listener -> Doc \cup {NoDoc}]
          /\ events \in [Get -> Seq(Event)] /\ answers \in [Get -> Seq(Event)]
        OBVIOUS
    <2>5. /\ targets = {d \in Doc : queries[d] # {}}
          /\ \A d \in Doc : \A l \in queries[d] : doc[l] = d
        OBVIOUS
    <2> QED
        BY <2>2, <2>3, <2>4, <2>5 DEF ListenOK
<1>2. StreamOK
    <2>1. /\ StreamGood(NewStream) /\ NewStream.idle = FALSE
        BY DEF StreamGood, NewStream, StreamType, StreamState
    <2>2. TrackerGood(UpdateState("Unknown")) /\ UpdateState("Unknown").timer = FALSE
        BY DEF TrackerGood, UpdateState, Tracker, OnlineState,
               kMaxWatchStreamFailures
    <2>3. stream = NewStream /\ tracker = UpdateState("Unknown")
        OBVIOUS
    <2>4. faults \in 0..MaxFaults
        BY WatchAssumption
    <2>5. enabled \in BOOLEAN /\ unarmed \in BOOLEAN /\ stray \in BOOLEAN
        OBVIOUS
    <2> QED
        BY <2>1, <2>2, <2>3, <2>4, <2>5 DEF StreamOK
<1>3. WireOK
    <2>1. /\ up \in Seq(Request) /\ down \in Seq(Response)
          /\ sent \in [Doc -> Version \cup {Nothing, NotWatched}]
          /\ due \in [Doc -> Int] /\ heard \in SUBSET Doc
          /\ pending \in [Doc -> Version \cup {Nothing}]
          /\ version \in [Doc -> Version]
        OBVIOUS
    <2>2. NoConnection
        BY DEF NoConnection
    <2>3. ~IsOpen(stream)
        BY DEF NewStream, IsOpen
    <2>4. \A d \in Doc : ToldIn(down, d, sent[d])
        BY FreshEmpty
    <2> QED
        BY <2>1, <2>2, <2>3, <2>4 DEF WireOK
<1>4. FreshOK
    <2>1. 0 \in Version
        BY WatchAssumption DEF Version
    <2>2. cache \in [Doc -> Version] /\ since \in [Doc -> Version]
        BY <2>1
    <2>3. \A d \in Doc : since[d] <= version[d]
        BY VersionFacts
    <2> QED
        BY <2>2, <2>3 DEF FreshOK
<1> QED
    BY <1>1, <1>2, <1>3, <1>4 DEF IInv

LEMMA AddStep ==
    ASSUME IInv, NEW l \in Listener, NEW d \in Doc, AddQueryListener(l, d)
    PROVE  IInv'
BY AddListens, AddStream, AddWire DEF IInv

LEMMA RemoveStep ==
    ASSUME IInv, NEW l \in Listener, RemoveQueryListener(l)
    PROVE  IInv'
BY RemoveListens, RemoveStream, RemoveWire DEF IInv

LEMMA DeliverStep ==
    ASSUME IInv, NEW g \in Get, DeliverEvent(g)
    PROVE  IInv'
<1>1. UNCHANGED <<current, cache, since, enabled, targets, stream, due, heard,
                  pending, tracker, up, down, sent, version, unarmed, stray, faults>>
    BY DEF DeliverEvent, views, aggregator, channel
<1>2. ListenOK'
    BY DeliverListens
<1>3. StreamOK' /\ (IsOpen(stream') <=> IsOpen(stream))
    BY <1>1, StreamFrame DEF IInv
<1>4. WireOK' /\ FreshOK'
    BY <1>1, <1>3, WireFrame, FreshFrame DEF IInv
<1> QED
    BY <1>2, <1>3, <1>4 DEF IInv

LEMMA ArriveStep ==
    ASSUME IInv, NEW c \in stream.asked, CredentialsArrive(c)
    PROVE  IInv'
<1>1. UNCHANGED <<listening, targets>>
    BY DEF CredentialsArrive
<1>2. ListenOK'
    BY <1>1, ListenFrame DEF IInv
<1> QED
    BY <1>2, ArriveStream, ArriveWire DEF IInv

\* The connection is gone, and the online state is told to the listeners.
LEMMA ClosedStep ==
    ASSUME IInv, StreamOK', ~IsOpen(stream'), Disconnected, Broadcast,
           UNCHANGED <<queries, doc, muted, answers, targets, stray, cache, since,
                       version>>
    PROVE  IInv'
<1>1. ListenOK /\ cache' \in [Doc -> Version]
    BY DEF IInv, FreshOK
<1>2. ListenOK' /\ current' \in {current, {}}
    BY <1>1, BroadcastKeeps
<1>3. WireOK' /\ FreshOK'
    BY <1>2, Disconnects
<1> QED
    BY <1>2, <1>3 DEF IInv

LEMMA CredentialsFailStep ==
    ASSUME IInv, NEW c \in stream.asked, CredentialsFail(c)
    PROVE  IInv'
<1>1. StreamOK' /\ ~IsOpen(stream')
    BY CredentialsFailStream
<1>2. /\ Disconnected /\ Broadcast
      /\ UNCHANGED <<queries, doc, muted, answers, targets, stray, cache, since,
                     version>>
    BY DEF CredentialsFail, Fails, OnWatchStreamClose
<1> QED
    BY <1>1, <1>2, ClosedStep

LEMMA LostStep ==
    ASSUME IInv, ConnectionLost
    PROVE  IInv'
<1>1. StreamOK' /\ ~IsOpen(stream')
    BY LostStream
<1>2. /\ Disconnected /\ Broadcast
      /\ UNCHANGED <<queries, doc, muted, answers, targets, stray, cache, since,
                     version>>
    BY DEF ConnectionLost, Fails, OnWatchStreamClose
<1> QED
    BY <1>1, <1>2, ClosedStep

LEMMA BackoffStep ==
    ASSUME IInv, BackoffEnds
    PROVE  IInv'
<1>1. UNCHANGED <<listening, current, cache, since, targets, due, heard, pending,
                  up, down, sent, version, stray>>
    BY DEF BackoffEnds, views, aggregator, channel
<1>2. StreamOK' /\ ~IsOpen(stream) /\ ~IsOpen(stream')
    BY BackoffStream
<1>3. ListenOK'
    BY <1>1, ListenFrame DEF IInv
<1>4. WireOK' /\ FreshOK'
    BY <1>1, <1>2, WireFrame, FreshFrame DEF IInv
<1> QED
    BY <1>2, <1>3, <1>4 DEF IInv

LEMMA IdleStep ==
    ASSUME IInv, IdleElapsed
    PROVE  IInv'
<1>1. StreamOK' /\ ~IsOpen(stream')
    BY IdleStream
<1>2. /\ Disconnected /\ Broadcast
      /\ UNCHANGED <<queries, doc, muted, answers, targets, stray, cache, since,
                     version>>
    BY DEF IdleElapsed, OnWatchStreamClose
<1> QED
    BY <1>1, <1>2, ClosedStep

\* The connection stays, and the online state is told to the listeners.
LEMMA ToldStep ==
    ASSUME IInv, StreamOK', IsOpen(stream') <=> IsOpen(stream), Broadcast,
           UNCHANGED <<queries, doc, muted, answers, cache, since, targets, due,
                       heard, pending, up, down, sent, version, stray>>
    PROVE  IInv'
<1>1. ListenOK /\ cache' \in [Doc -> Version]
    BY DEF IInv, FreshOK
<1>2. ListenOK' /\ current' \in {current, {}}
    BY <1>1, BroadcastKeeps
<1>3. WireOK' /\ FreshOK'
    BY <1>2, WireFrame, FreshFrame DEF IInv
<1> QED
    BY <1>2, <1>3 DEF IInv

LEMMA TimeoutStep ==
    ASSUME IInv, OnlineStateTimeout
    PROVE  IInv'
<1>1. StreamOK'
    BY TimeoutStream
<1>2. /\ Broadcast /\ stream' = stream
      /\ UNCHANGED <<queries, doc, muted, answers, cache, since, targets, due,
                     heard, pending, up, down, sent, version, stray>>
    BY DEF OnlineStateTimeout, aggregator, channel
<1> QED
    BY <1>1, <1>2, ToldStep

LEMMA EnableStep ==
    ASSUME IInv, EnableNetwork
    PROVE  IInv'
<1>1. StreamOK' /\ (IsOpen(stream') <=> IsOpen(stream))
    BY EnableStream
<1>2. /\ Broadcast
      /\ UNCHANGED <<queries, doc, muted, answers, cache, since, targets, due,
                     heard, pending, up, down, sent, version, stray>>
    BY DEF EnableNetwork, aggregator, channel
<1> QED
    BY <1>1, <1>2, ToldStep

LEMMA ConnectivityStep ==
    ASSUME IInv, ConnectivityChange
    PROVE  IInv'
<1>1. StreamOK' /\ ~IsOpen(stream')
    BY ConnectivityStream
<1>2. /\ Disconnected /\ Broadcast
      /\ UNCHANGED <<queries, doc, muted, answers, targets, stray, cache, since,
                     version>>
    BY DEF ConnectivityChange
<1> QED
    BY <1>1, <1>2, ClosedStep

LEMMA DisableStep ==
    ASSUME IInv, DisableNetwork
    PROVE  IInv'
<1>1. StreamOK' /\ ~IsOpen(stream')
    BY DisableStream
<1>2. /\ Disconnected /\ Broadcast
      /\ UNCHANGED <<queries, doc, muted, answers, targets, stray, cache, since,
                     version>>
    BY DEF DisableNetwork
<1> QED
    BY <1>1, <1>2, ClosedStep

LEMMA ChangeStep ==
    ASSUME IInv, OnWatchStreamChange
    PROVE  IInv'
<1>1. stray \in BOOLEAN
    BY DEF IInv, StreamOK
<1>2. CASE TargetAdded
    <2>1. /\ Hears("added") /\ UNCHANGED <<listening, enabled, targets, stream,
                                          stray, faults>>
        BY <1>2 DEF TargetAdded
    <2>2. ListenOK'
        BY <2>1, ListenFrame DEF IInv
    <2>3. StreamOK'
        BY <1>1, <2>1, HearsStream
    <2> QED
        BY <1>2, <2>2, <2>3, AddedWire DEF IInv
<1>3. CASE TargetRemoved
    <2>1. /\ Hears("removed") /\ UNCHANGED <<listening, enabled, targets, stream,
                                            stray, faults>>
        BY <1>3 DEF TargetRemoved
    <2>2. ListenOK'
        BY <2>1, ListenFrame DEF IInv
    <2>3. StreamOK'
        BY <1>1, <2>1, HearsStream
    <2> QED
        BY <1>3, <2>2, <2>3, RemovedWire DEF IInv
<1>4. CASE TargetCurrent
    <2>1. /\ Hears("current") /\ UNCHANGED <<listening, enabled, targets, stream,
                                            stray, faults>>
        BY <1>4 DEF TargetCurrent
    <2>2. ListenOK'
        BY <2>1, ListenFrame DEF IInv
    <2>3. StreamOK'
        BY <1>1, <2>1, HearsStream
    <2> QED
        BY <1>4, <2>2, <2>3, CurrentWire DEF IInv
<1>5. CASE ProcessTargetError
    <2>1. /\ Hears("error") /\ UNCHANGED <<enabled, stream, faults>>
          /\ targets' \subseteq targets
        BY <1>5 DEF ProcessTargetError
    <2>2. WireOK' /\ FreshOK' /\ stray' \in BOOLEAN
        BY <1>5, ErrorWire
    <2>3. StreamOK'
        BY <2>1, <2>2, HearsStream
    <2> QED
        BY <1>5, <2>2, <2>3, ErrorListens DEF IInv
<1>6. CASE RaiseWatchSnapshot
    <2>1. /\ Hears("snapshot")
          /\ UNCHANGED <<queries, doc, muted, answers, enabled, targets, stream,
                         stray, faults>>
        BY <1>6 DEF RaiseWatchSnapshot
    <2>2. WireOK' /\ FreshOK'
        BY <1>6, SnapshotWire
    <2>3. StreamOK'
        BY <1>1, <2>1, HearsStream
    <2>4. PICK L : L \subseteq Listening /\ Raise(L, FALSE)
        BY <1>6 DEF RaiseWatchSnapshot
    <2>5. ListenOK'
        BY <2>1, <2>2, <2>4, RaiseKeeps DEF IInv, FreshOK
    <2> QED
        BY <2>2, <2>3, <2>5 DEF IInv
<1> QED
    BY <1>2, <1>3, <1>4, <1>5, <1>6 DEF OnWatchStreamChange

LEMMA WritesStep ==
    ASSUME IInv, NEW d \in Doc, ServerWrites(d)
    PROVE  IInv'
<1>1. UNCHANGED <<listening, enabled, targets, stream, tracker, unarmed, stray,
                  faults>>
    BY DEF ServerWrites
<1>2. ListenOK' /\ StreamOK'
    BY <1>1, ListenFrame, StreamFrame DEF IInv
<1> QED
    BY <1>2, WritesWire DEF IInv

LEMMA TakesStep ==
    ASSUME IInv, ServerTakes
    PROVE  IInv'
<1>1. UNCHANGED <<listening, enabled, targets, stream, tracker, unarmed, stray,
                  faults>>
    BY DEF ServerTakes, Takes
<1>2. ListenOK' /\ StreamOK'
    BY <1>1, ListenFrame, StreamFrame DEF IInv
<1> QED
    BY <1>2, ServerTakesWire DEF IInv

LEMMA RejectsStep ==
    ASSUME IInv, ServerRejects
    PROVE  IInv'
<1>1. UNCHANGED <<listening, enabled, targets, stream, tracker, unarmed, stray>>
    BY DEF ServerRejects, Takes
<1>2. ListenOK'
    BY <1>1, ListenFrame DEF IInv
<1>3. faults' \in 0..MaxFaults
    BY FaultsStep DEF ServerRejects, IInv, StreamOK
<1>4. StreamOK'
    BY <1>1, <1>3 DEF IInv, StreamOK
<1> QED
    BY <1>2, <1>4, ServerRejectsWire DEF IInv

LEMMA SendsStep ==
    ASSUME IInv, NEW d \in Doc, ServerSends(d)
    PROVE  IInv'
<1>1. UNCHANGED <<listening, enabled, targets, stream, tracker, unarmed, stray,
                  faults>>
    BY DEF ServerSends
<1>2. ListenOK' /\ StreamOK'
    BY <1>1, ListenFrame, StreamFrame DEF IInv
<1> QED
    BY <1>2, ServerSendsWire DEF IInv

LEMMA StutterStep ==
    ASSUME IInv, UNCHANGED vars
    PROVE  IInv'
<1>1. UNCHANGED <<listening, current, cache, since, enabled, targets, stream, due,
                  heard, pending, tracker, up, down, sent, version, unarmed, stray,
                  faults>>
    BY DEF vars, views, aggregator, channel
<1>2. ListenOK' /\ StreamOK' /\ (IsOpen(stream') <=> IsOpen(stream))
    BY <1>1, ListenFrame, StreamFrame DEF IInv
<1>3. WireOK' /\ FreshOK'
    BY <1>1, <1>2, WireFrame, FreshFrame DEF IInv
<1> QED
    BY <1>2, <1>3 DEF IInv

LEMMA NextIInv == IInv /\ [Next]_vars => IInv'
<1> SUFFICES ASSUME IInv, [Next]_vars PROVE IInv'
    OBVIOUS
<1>1. CASE \E l \in Listener, d \in Doc : AddQueryListener(l, d)
    BY <1>1, AddStep
<1>2. CASE \E l \in Listener : RemoveQueryListener(l)
    BY <1>2, RemoveStep
<1>3. CASE \E g \in Get : DeliverEvent(g)
    BY <1>3, DeliverStep
<1>4. CASE \E c \in stream.asked : CredentialsArrive(c) \/ CredentialsFail(c)
    BY <1>4, ArriveStep, CredentialsFailStep
<1>5. CASE ConnectionLost \/ BackoffEnds \/ IdleElapsed \/ OnlineStateTimeout
    BY <1>5, LostStep, BackoffStep, IdleStep, TimeoutStep
<1>6. CASE OnWatchStreamChange
    BY <1>6, ChangeStep
<1>7. CASE ConnectivityChange \/ DisableNetwork \/ EnableNetwork
    BY <1>7, ConnectivityStep, DisableStep, EnableStep
<1>8. CASE \E d \in Doc : ServerWrites(d) \/ ServerSends(d)
    BY <1>8, WritesStep, SendsStep
<1>9. CASE ServerTakes \/ ServerRejects
    BY <1>9, TakesStep, RejectsStep
<1>10. CASE UNCHANGED vars
    BY <1>10, StutterStep
<1> QED
    BY <1>1, <1>2, <1>3, <1>4, <1>5, <1>6, <1>7, <1>8, <1>9, <1>10 DEF Next

LEMMA SpecIInv == Spec => []IInv
BY InitIInv, NextIInv, PTL DEF Spec

---------------------------------------------------------------------------
(* The invariants of the module follow.                                    *)

LEMMA IInvTypes == IInv => TypeOK /\ AssertionsHold
<1> SUFFICES ASSUME IInv PROVE TypeOK /\ AssertionsHold
    OBVIOUS
<1> USE DEF IInv, ListenOK, StreamOK, WireOK, FreshOK
<1>1. targets \in SUBSET Doc /\ current \in SUBSET Doc /\ stream \in StreamType
    BY DEF StreamGood
<1>2. tracker \in Tracker
    BY DEF TrackerGood
<1>3. TypeOK
    BY <1>1, <1>2 DEF TypeOK
<1>4. AssertionsHold
    BY DEF AssertionsHold, TrackerGood, StreamGood
<1> QED
    BY <1>3, <1>4

LEMMA IInvCounted == IInv => ResponsesCounted
<1> SUFFICES ASSUME IInv, IsOpen(stream), ~stray, NEW d \in Doc
             PROVE  due[d] = Cardinality({i \in DOMAIN up : up[i].doc = d}) +
                        Cardinality({i \in DOMAIN down :
                            /\ down[i].kind \in {"added", "removed", "error"}
                            /\ down[i].doc = d})
    BY DEF ResponsesCounted
<1>1. /\ up \in Seq(Request) /\ down \in Seq(Response)
      /\ due[d] = Count(up, For(d)) + Count(down, To(d))
    BY DEF IInv, WireOK, Counted
<1>2. {i \in DOMAIN up : up[i].doc = d} = Places(up, For(d))
    BY <1>1, PlacesFor
<1>3. {i \in DOMAIN down : /\ down[i].kind \in {"added", "removed", "error"}
                           /\ down[i].doc = d} = Places(down, To(d))
    BY <1>1, PlacesTo
<1> QED
    BY <1>1, <1>2, <1>3 DEF Count

LEMMA IInvListeners == IInv => ListenersKnown /\ AnsweredOnce
<1> SUFFICES ASSUME IInv PROVE ListenersKnown /\ AnsweredOnce
    OBVIOUS
<1>1. ListenOK
    BY DEF IInv
<1> QED
    BY <1>1 DEF ListenOK, GetIn, ListenersKnown, AnsweredOnce

LEMMA IInvFresh == IInv => SentTold /\ ViewsFresh /\ FreshWhenSynced
<1> SUFFICES ASSUME IInv PROVE SentTold /\ ViewsFresh /\ FreshWhenSynced
    OBVIOUS
<1>1. /\ \A d : Asked(d) <=> AskedIn(up, d)
      /\ \A d : Rejected(d) <=> RejectedIn(down, d)
      /\ \A i, d : AnswerAfter(i, d) <=> After(down, i, d)
    BY DEF Asked, AskedIn, Rejected, RejectedIn, AnswerAfter, After
<1>2. /\ \A d : HeardFresh(d) <=>
             HeardIn(heard, pending[d], cache[d], d, since[d])
      /\ \A i, d : Tells(i, d) <=> TellsIn(down, i, d, since[d])
    BY <1>1 DEF HeardFresh, HeardIn, Tells, TellsIn
<1>3. SentTold
    <2>1. \A d \in Doc : ToldIn(down, d, sent[d])
        BY DEF IInv, WireOK
    <2> QED
        BY <1>1, <2>1 DEF SentTold, ToldIn
<1>4. FreshOK
    BY DEF IInv
<1>5. ASSUME ~stray, NEW d \in targets
      PROVE  VersionsFresh(d) /\ SnapshotsFresh(d) /\ SentFresh(d)
    <2>1. /\ VersionsIn(up, down, d, since[d])
          /\ SnapshotsIn(up, down, heard, pending[d], cache[d], d, since[d])
          /\ SentIn(up, down, heard, pending[d], cache[d], d, since[d], sent[d])
        BY <1>4, <1>5 DEF FreshOK, FreshIn
    <2>2. VersionsFresh(d)
        BY <1>1, <2>1 DEF VersionsFresh, VersionsIn
    <2>3. SnapshotsFresh(d)
        BY <1>1, <1>2, <2>1 DEF SnapshotsFresh, SnapshotsIn
    <2>4. SentFresh(d)
        BY <1>1, <1>2, <2>1 DEF SentFresh, SentIn
    <2> QED
        BY <2>2, <2>3, <2>4
<1>6. ViewsFresh /\ FreshWhenSynced
    BY <1>4, <1>5 DEF FreshOK, ViewsFresh, FreshWhenSynced
<1> QED
    BY <1>3, <1>6

LEMMA IInvWatched == IInv => TargetsWatched
<1> SUFFICES ASSUME IInv, IsOpen(stream), ~stray, NEW d \in Doc, ~Rejected(d)
             PROVE  Watched(d) <=> d \in targets
    BY DEF TargetsWatched
<1>1. Agreed(d)
    BY DEF IInv, WireOK
<1>2. Watched(d) <=> WatchedIn(up, sent[d], d)
    BY DEF Watched, WatchedIn
<1>3. ~RejectedIn(down, d)
    BY DEF Rejected, RejectedIn
<1> QED
    BY <1>1, <1>2, <1>3 DEF Agreed

\* The types hold, no HARD_ASSERT of OnlineStateTracker, RemoteStore or Stream
\* can fail on the way of a read, outstanding_responses_ counts the responses
\* under way, and what is under way for a target fits the present listen.
THEOREM WatchInvariant == Spec => []Inv
<1>1. IInv => NoConnection
    BY DEF IInv, WireOK
<1>2. IInv => Inv
    BY <1>1, IInvTypes, IInvCounted, IInvListeners, IInvFresh DEF Inv
<1> QED
    BY <1>2, SpecIInv, PTL

\* Over listens, unlistens, lost connections and reconnects, the server watches
\* what RemoteStore has in listen_targets_, unless it has rejected a target.
THEOREM TargetsWatchedHolds == Spec => []TargetsWatched
BY IInvWatched, SpecIInv, PTL

\* A view that SyncEngine takes for in sync is no older than the listen: a late
\* answer to an earlier listen, which WatchChangeAggregator filters by
\* outstanding_responses_, is never shown for the present one.
THEOREM FreshWhenSyncedHolds == Spec => []FreshWhenSynced
BY IInvFresh, SpecIInv, PTL

\* The listener of a get() answers once, whatever else is queued for it before
\* it is removed.
THEOREM AnsweredOnceHolds == Spec => []AnsweredOnce
BY IInvListeners, SpecIInv, PTL
=============================================================================
