---------------------------- MODULE StreamProofs ----------------------------
(***************************************************************************)
(* Theorems about Stream, for every number of handlers, clients, chunks,   *)
(* connections, faults and cuts: types, the order of what one connection   *)
(* sends, that it leaves no hole in the text, and that a late client is    *)
(* never shown the watchdog's failure.                                     *)
(***************************************************************************)
EXTENDS Stream, FiniteSetTheorems, WellFoundedInduction, TLAPS

-----------------------------------------------------------------------------
(* Positions, places and the highest id. *)

\* A nonempty set of natural numbers has a least one.
LEMMA LeastOf ==
    ASSUME NEW S \in SUBSET Nat, S # {}
    PROVE  \E x \in S : \A y \in S : x <= y
<1> DEFINE R == {ss \in Nat \X Nat : ss[1] < ss[2]}
<1>1. \A x, y \in Nat : y < x => <<y, x>> \in R
  OBVIOUS
<1>2. IsWellFoundedOn(R, Nat)
  BY NatLessThanWellFounded DEF OpToRel
<1> HIDE DEF R
<1>3. PICK x \in S : \A y \in S : ~(<<y, x>> \in R)
  BY <1>2, WFMin
<1>4. ASSUME NEW y \in S PROVE x <= y
  <2>1. x \in Nat /\ y \in Nat /\ ~(<<y, x>> \in R)
    BY <1>3
  <2>2. ~(y < x)
    BY <1>1, <2>1
  <2> QED BY <2>1, <2>2
<1> QED BY <1>3, <1>4

\* A bounded nonempty set of natural numbers has a highest one.
LEMMA MaxOf ==
    ASSUME NEW N \in Nat, NEW S \in SUBSET (0..N), S # {}
    PROVE  Max(S) \in S /\ \A y \in S : Max(S) >= y
<1> DEFINE T == {N - m : m \in S}
<1>1. T \in SUBSET Nat /\ T # {}
  <2>1. \A m \in S : N - m \in Nat
    OBVIOUS
  <2> QED BY <2>1
<1>2. PICK x \in T : \A y \in T : x <= y
  <2> HIDE DEF T
  <2> QED BY <1>1, LeastOf
<1>3. PICK m \in S : x = N - m
  BY <1>2
<1>4. \A n \in S : m >= n
  <2>1. ASSUME NEW n \in S PROVE m >= n
    <3>1. N - m <= N - n
      BY <1>2, <1>3
    <3> QED BY <3>1
  <2> QED BY <2>1
<1> QED BY <1>3, <1>4 DEF Max

\* What Highest returns: a bound, and one of the ids it is given.
LEMMA HighestIs ==
    ASSUME NEW N \in Nat, NEW id \in 0..N, NEW s \in Seq(Message),
           \A i \in 1..Len(s) : s[i].id <= N
    PROVE  /\ Highest(id, s) \in 0..N
           /\ id <= Highest(id, s)
           /\ \A i \in 1..Len(s) : s[i].id <= Highest(id, s)
           /\ Highest(id, s) = id \/ \E i \in 1..Len(s) : Highest(id, s) = s[i].id
<1> DEFINE S == {id} \cup {m.id : m \in ToSet(s)}
<1>1. ASSUME NEW v \in S PROVE v \in 0..N /\ (v = id \/ \E i \in 1..Len(s) : v = s[i].id)
  <2>1. CASE v = id
    BY <2>1
  <2>2. CASE v \in {m.id : m \in ToSet(s)}
    <3>1. PICK i \in DOMAIN s : v = s[i].id
      BY <2>2 DEF ToSet
    <3>2. i \in 1..Len(s) /\ s[i] \in Message
      OBVIOUS
    <3> QED BY <3>1, <3>2 DEF Message
  <2> QED BY <2>1, <2>2
<1>2. \A i \in 1..Len(s) : s[i].id \in S
  BY DEF ToSet
<1>3. id \in S
  OBVIOUS
<1>4. Highest(id, s) = Max(S)
  BY DEF Highest
<1> HIDE DEF S
<1>5. Max(S) \in S /\ \A y \in S : Max(S) >= y
  BY <1>1, <1>3, MaxOf
<1>6. Max(S) \in 0..N /\ \A y \in S : y \in 0..N
  BY <1>1, <1>5
<1>7. \A y \in S : y <= Max(S)
  BY <1>5, <1>6
<1> QED BY <1>1, <1>2, <1>3, <1>4, <1>5, <1>6, <1>7

\* The number of positions of S before i.
Rank(i, S) == Cardinality({j \in S : j < i})

\* Ranks are below the size of the set and grow with the position.
LEMMA Ranks ==
    ASSUME NEW N \in Nat, NEW S \in SUBSET (1..N)
    PROVE  /\ IsFiniteSet(S) /\ Cardinality(S) \in Nat
           /\ \A i \in S : Rank(i, S) \in 0..(Cardinality(S) - 1)
           /\ \A i, j \in S : i < j => Rank(i, S) < Rank(j, S)
<1> DEFINE n == Cardinality(S)
<1>0. IsFiniteSet(S) /\ n \in Nat /\ S \subseteq Nat
  <2>1. IsFiniteSet(1..N)
    BY FS_Interval
  <2>2. IsFiniteSet(S)
    BY <2>1, FS_Subset
  <2>3. n \in Nat
    BY <2>2, FS_CardinalityType
  <2>4. S \subseteq Nat
    OBVIOUS
  <2> QED BY <2>2, <2>3, <2>4
<1>1. ASSUME NEW i \in S PROVE Rank(i, S) \in 0..(n - 1)
  <2> DEFINE U == {j \in S : j < i}
  <2>1. U \in SUBSET S /\ U # S
    BY <1>0
  <2>2. Cardinality(U) \in Nat /\ Cardinality(U) <= n /\ Cardinality(U) # n
    BY <1>0, <2>1, FS_Subset, FS_CardinalityType
  <2> HIDE DEF U, n
  <2> QED BY <1>0, <2>2 DEF Rank, U
<1>2. ASSUME NEW i \in S, NEW j \in S, i < j PROVE Rank(i, S) < Rank(j, S)
  <2> DEFINE U == {x \in S : x < i}
             V == {x \in S : x < j}
  <2>0. i \in Nat /\ j \in Nat /\ \A x \in S : x \in Nat
    BY <1>0
  <2>1. V \in SUBSET S /\ U \in SUBSET V /\ V # U
    <3>1. i \in V /\ i \notin U
      BY <1>2, <2>0
    <3>2. \A x \in U : x \in V
      BY <1>2, <2>0
    <3> QED BY <3>1, <3>2
  <2>2. IsFiniteSet(V)
    BY <1>0, <2>1, FS_Subset
  <2>3. Cardinality(U) <= Cardinality(V) /\ Cardinality(U) # Cardinality(V)
        /\ Cardinality(U) \in Nat /\ Cardinality(V) \in Nat
    BY <2>1, <2>2, FS_Subset, FS_CardinalityType
  <2> HIDE DEF U, V
  <2>4. Cardinality(U) < Cardinality(V)
    BY <2>3
  <2> QED BY <2>4 DEF Rank, U, V
<1> QED BY <1>0, <1>1, <1>2

\* Every place of a list built by positions is taken.
LEMMA Places ==
    ASSUME NEW N \in Nat, NEW S \in SUBSET (1..N), NEW k \in 1..Cardinality(S)
    PROVE  \E i \in S : Rank(i, S) = k - 1
<1> DEFINE n == Cardinality(S)
           T == 0..(n - 1)
           g == [i \in S |-> Rank(i, S)]
<1>0. /\ IsFiniteSet(S) /\ n \in Nat /\ n >= 1 /\ k - 1 \in T
      /\ \A i \in S : Rank(i, S) \in T
      /\ \A i, j \in S : i < j => Rank(i, S) < Rank(j, S)
  <2>1. IsFiniteSet(S) /\ n \in Nat
    BY Ranks
  <2>2. \A i \in S : Rank(i, S) \in T
    BY Ranks
  <2>3. \A i, j \in S : i < j => Rank(i, S) < Rank(j, S)
    BY Ranks
  <2>4. k \in 1..n
    OBVIOUS
  <2> HIDE DEF n
  <2>5. n >= 1 /\ k - 1 \in T
    BY <2>1, <2>4
  <2> QED BY <2>1, <2>2, <2>3, <2>5
<1>3. g \in Injection(S, T)
  <2>1. g \in [S -> T]
    BY <1>0
  <2>2. ASSUME NEW i \in S, NEW j \in S, g[i] = g[j] PROVE i = j
    <3>1. Rank(i, S) = Rank(j, S) /\ Rank(i, S) \in Nat
      BY <1>0, <2>2
    <3>2. ~(i < j) /\ ~(j < i)
      BY <1>0, <3>1
    <3> QED BY <3>2
  <2> HIDE DEF g
  <2> QED BY <2>1, <2>2 DEF Injection, IsInjective
<1>4. IsFiniteSet(T) /\ Cardinality(T) = n
  <2>1. 0 \in Int /\ n - 1 \in Int /\ ~(0 > n - 1)
    BY <1>0
  <2>2. Cardinality(T) = n - 1 - 0 + 1
    BY <2>1, FS_Interval
  <2> QED BY <1>0, <2>1, <2>2, FS_Interval
<1>5. g \in Surjection(S, T)
  BY <1>0, <1>3, <1>4, FS_Injection
<1>7. PICK i \in S : g[i] = k - 1
  <2> HIDE DEF g
  <2> QED BY <1>0, <1>5 DEF Surjection
<1> QED BY <1>7

\* Pick keeps the elements at the positions S, all of them and in order.
LEMMA PickIs ==
    ASSUME NEW D, NEW s \in Seq(D), NEW S \in SUBSET (1..Len(s))
    PROVE  /\ Pick(s, S) \in Seq(D)
           /\ \E place \in [1..Len(Pick(s, S)) -> S] :
                /\ \A k \in 1..Len(Pick(s, S)) : Pick(s, S)[k] = s[place[k]]
                /\ \A k, l \in 1..Len(Pick(s, S)) : k < l => place[k] < place[l]
                /\ \A i \in S : \E k \in 1..Len(Pick(s, S)) : place[k] = i
<1> DEFINE n == Cardinality(S)
           at(k) == CHOOSE i \in S : Rank(i, S) = k - 1
           place == [k \in 1..n |-> at(k)]
<1>0. /\ Len(s) \in Nat /\ n \in Nat
      /\ \A i \in S : Rank(i, S) \in 0..(n - 1)
      /\ \A i, j \in S : i < j => Rank(i, S) < Rank(j, S)
  <2>1. Len(s) \in Nat
    OBVIOUS
  <2>2. n \in Nat
    BY <2>1, Ranks
  <2>3. \A i \in S : Rank(i, S) \in 0..(n - 1)
    BY <2>1, Ranks
  <2>4. \A i, j \in S : i < j => Rank(i, S) < Rank(j, S)
    BY <2>1, Ranks
  <2> QED BY <2>1, <2>2, <2>3, <2>4
<1>1. ASSUME NEW k \in 1..n PROVE at(k) \in S /\ Rank(at(k), S) = k - 1
  BY <1>0, Places
<1>2. Pick(s, S) = [k \in 1..n |-> s[at(k)]]
  BY DEF Pick, Rank
<1> HIDE DEF at, n
<1>a. \A i \in S : i \in Nat /\ i \in 1..Len(s) /\ s[i] \in D
  OBVIOUS
<1>3. \A k \in 1..n : s[at(k)] \in D
  BY <1>1, <1>a
<1>4. Pick(s, S) \in Seq(D) /\ Len(Pick(s, S)) = n
  BY <1>0, <1>2, <1>3
<1>5. place \in [1..n -> S]
  BY <1>1
<1>6. \A k \in 1..n : Pick(s, S)[k] = s[place[k]] /\ place[k] = at(k)
  BY <1>2
<1>7. ASSUME NEW k \in 1..n, NEW l \in 1..n, k < l PROVE place[k] < place[l]
  <2>1. at(k) \in S /\ at(l) \in S /\ Rank(at(k), S) = k - 1 /\ Rank(at(l), S) = l - 1
    BY <1>1
  <2>2. at(k) \in Nat /\ at(l) \in Nat
    BY <1>a, <2>1
  <2>3. at(k) # at(l)
    BY <1>0, <1>7, <2>1
  <2>4. ~(at(l) < at(k))
    <3>1. ~(l - 1 < k - 1)
      BY <1>0, <1>7
    <3> QED BY <1>0, <2>1, <3>1
  <2>5. at(k) < at(l)
    BY <2>2, <2>3, <2>4
  <2> QED BY <1>6, <2>5
<1>8. ASSUME NEW i \in S PROVE \E k \in 1..n : place[k] = i
  <2> DEFINE k == Rank(i, S) + 1
  <2>1. k \in 1..n /\ Rank(i, S) = k - 1 /\ Rank(i, S) \in Nat
    BY <1>0
  <2> HIDE DEF k
  <2>2. at(k) \in S /\ Rank(at(k), S) = Rank(i, S)
    BY <1>1, <2>1
  <2>3. ~(i < at(k)) /\ ~(at(k) < i)
    <3>1. ~(Rank(i, S) < Rank(i, S))
      BY <2>1
    <3> QED BY <1>0, <2>2, <3>1
  <2>4. at(k) = i
    <3>1. at(k) \in Nat /\ i \in Nat
      BY <1>a, <2>2
    <3> QED BY <2>3, <3>1
  <2> QED BY <1>6, <2>1, <2>4
<1> HIDE DEF place
<1> QED BY <1>4, <1>5, <1>6, <1>7, <1>8

-----------------------------------------------------------------------------
(* The inductive invariant. *)

\* The ids of s grow, those that are given.
Rising(s) == \A i, j \in 1..Len(s) : i < j /\ s[i].id # 0 /\ s[j].id # 0 => s[i].id < s[j].id
Within(s, n) == \A i \in 1..Len(s) : s[i].id <= n

\* The log's ids are its positions, and nobody has an id that is not there.
Numbered ==
    /\ \A i \in 1..Len(log) : log[i].id = i
    /\ \A w \in Writers : writer[w].id <= Len(log)

\* A connection while the log has n entries: nothing is sent before the
\* replay, and afterwards growing ids, none above `last`.
Sound(r, n) ==
    /\ r \in Follower
    /\ r.last <= n /\ r.known <= n /\ Within(r.buf, n)
    /\ r.pc \in {"off", "replay"} => r.got = << >> /\ r.last = 0
    /\ r.pc # "replay" => r.buf = << >>
    /\ Rising(r.got) /\ Within(r.got, r.last)

Connections == \A x \in Followers : Sound(f[x], Len(log))

\* A handler that is busy has a chunk in hand, and chunks count from 1; the
\* terminal events are no chunks.
Busy ==
    /\ \A h \in Handlers :
        /\ writer[h].pc # "done"
        /\ writer[h].pc # "idle" => writer[h].ev.n # 0 /\ writer[h].ev = Chunk(writer[h].ev.n)
    /\ \A w \in Enders : writer[w].ev.n = 0

\* A client that comes after the answer gets it from the replay, which ends
\* its connection.
AnswerAhead(x) == \A i \in 1..Len(log) : log[i].ev = Terminal("completed") => log[i].id > f[x].since

Settled ==
    \A x \in Followers : f[x].late =>
        /\ Logged("completed")
        /\ ~dropped /\ AnswerAhead(x) =>
              /\ f[x].pc \in {"replay", "ended"}
              /\ \A i \in 1..Len(f[x].got) : f[x].got[i].ev.kind # "failed"

\* Written to the log, and not yet on the channel.
Pending(p) == \E w \in Writers : writer[w].pc = "publish" /\ writer[w].id = p
Published(n) == \E p \in 1..Len(log) : log[p].ev = Chunk(n) /\ ~Pending(p)

\* The event in a publisher's hand: no handler is further than one chunk
\* beyond the committed offset, and the owner of the partition is right there.
InHand ==
    /\ \A h \in Handlers : writer[h].pc # "idle" => writer[h].ev.n <= committed + 1
    /\ \A w \in Writers : writer[w].pc = "publish" =>
        /\ writer[w].id \in 1..Len(log)
        /\ log[writer[w].id].ev = writer[w].ev
        /\ \A v \in Writers : writer[v].pc = "publish" /\ writer[v].id = writer[w].id => v = w
    /\ writer[chunkOwner].pc = "idle" => next = committed + 1
    /\ writer[chunkOwner].pc # "idle" =>
          next = committed + 2 /\ writer[chunkOwner].ev.n = committed + 1

\* What is committed, marked as handled or about to be marked was published,
\* and the log has no hole.
Covered ==
    /\ \A n \in 1..committed : Published(n)
    /\ \A n \in inbox : Published(n)
    /\ \A h \in Handlers : writer[h].pc = "save" => Published(writer[h].ev.n)
    /\ \A p \in 1..Len(log) : \A n \in 1..(log[p].ev.n - 1) :
          \E q \in 1..(p - 1) : log[q].ev = Chunk(n)

\* Both hold until a call fails or a chunk is skipped.
Orderly == ~dropped => InHand /\ Covered

\* A live client has every chunk that was published; one that it lacks
\* although its id is not above `last` was overtaken on the channel.  What a
\* subscription keeps is in the log.
CaughtUp ==
    \A x \in Followers :
        /\ ~dropped => \A i \in 1..Len(f[x].buf) : f[x].buf[i].id # 0
        /\ f[x].pc = "live" /\ f[x].since = 0 /\ ~dropped /\ ~inverted =>
            \A p \in 1..Len(log) : log[p].ev.kind = "chunk" =>
                \/ \E j \in 1..Len(f[x].got) : f[x].got[j].ev = log[p].ev
                \/ Pending(p) /\ (p > f[x].last \/ p < top)

-----------------------------------------------------------------------------
(* What a connection does with the messages it is given. *)

\* What sending the messages s changes of the connection r, and what it leaves.
AfterSending(q, r, s, step, n) ==
    /\ q \in Follower
    /\ q.got = r.got \o s
    /\ q.last = Highest(r.last, s) /\ q.last <= n /\ q.known <= n
    /\ q.since = r.since /\ q.late = r.late /\ q.buf = r.buf
    /\ q.connects = r.connects
    /\ q.pc = IF Ends(s) THEN "ended" ELSE step

\* A connection that is sent the messages s.
LEMMA SentIs ==
    ASSUME NEW n \in Nat, NEW r \in Follower, r.last <= n, r.known <= n,
           NEW s \in Seq(Message), Within(s, n), NEW step \in {"off", "live"}
    PROVE  AfterSending(Sent(r, s, step), r, s, step, n)
<1> DEFINE a == Highest(r.last, s)
           b == Highest(r.known, s)
           e == Ends(s)
<1>1. a \in Nat /\ b \in Nat /\ a <= n /\ b <= n
  <2>1. r.last \in 0..n /\ r.known \in 0..n
    BY DEF Follower
  <2>2. a \in 0..n
    BY <2>1, HighestIs DEF Within
  <2>3. b \in 0..n
    BY <2>1, HighestIs DEF Within
  <2> QED BY <2>2, <2>3
<1>2. r.got \o s \in Seq(Message)
  BY DEF Follower
<1>3. Sent(r, s, step) = [r EXCEPT !.got = r.got \o s, !.last = a, !.known = b,
                                   !.told = r.told \/ e, !.pc = IF e THEN "ended" ELSE step]
  BY DEF Sent, Follower
<1>4. (r.told \/ e) \in BOOLEAN /\ (IF e THEN "ended" ELSE step) \in {"ended", "off", "live"}
  OBVIOUS
<1> DEFINE g == r.got \o s
           t == r.told \/ e
           c == IF e THEN "ended" ELSE step
<1> HIDE DEF a, b, e, g, t, c
<1>5. Sent(r, s, step) = [r EXCEPT !.got = g, !.last = a, !.known = b, !.told = t, !.pc = c]
  BY <1>3 DEF g, t, c
<1>6. g \in Seq(Message) /\ t \in BOOLEAN /\ c \in {"ended", "off", "live"}
  BY <1>2, <1>4 DEF g, t, c
<1>7. LET q == [r EXCEPT !.got = g, !.last = a, !.known = b, !.told = t, !.pc = c] IN
      /\ q \in Follower
      /\ q.got = g /\ q.last = a /\ q.known = b /\ q.pc = c
      /\ q.since = r.since /\ q.late = r.late /\ q.buf = r.buf /\ q.connects = r.connects
  BY <1>1, <1>6 DEF Follower
<1> QED BY <1>1, <1>5, <1>7 DEF AfterSending, g, a, b, e, c

\* Messages with growing ids above `last` keep what was sent in order.
LEMMA SentInOrder ==
    ASSUME NEW n \in Nat, NEW r \in Follower, r.last <= n, r.known <= n,
           Rising(r.got), Within(r.got, r.last),
           NEW s \in Seq(Message), Within(s, n), Rising(s),
           \A i \in 1..Len(s) : s[i].id # 0 => s[i].id > r.last,
           NEW step \in {"off", "live"}
    PROVE  /\ Rising(Sent(r, s, step).got)
           /\ Within(Sent(r, s, step).got, Sent(r, s, step).last)
<1> DEFINE a == Highest(r.last, s)
           g == r.got \o s
<1>1. Sent(r, s, step).got = g /\ Sent(r, s, step).last = a
  <2>1. AfterSending(Sent(r, s, step), r, s, step, n)
    BY SentIs
  <2> QED BY <2>1 DEF AfterSending
<1>2. a \in Nat /\ r.last <= a /\ \A i \in 1..Len(s) : s[i].id <= a
  <2>1. r.last \in 0..n
    BY DEF Follower
  <2> QED BY <2>1, HighestIs DEF Within
<1> HIDE DEF a
<1>3. /\ r.got \in Seq(Message) /\ r.last \in Nat
      /\ Len(g) = Len(r.got) + Len(s) /\ Len(r.got) \in Nat /\ Len(s) \in Nat
      /\ \A i \in 1..Len(g) : g[i] = IF i <= Len(r.got) THEN r.got[i] ELSE s[i - Len(r.got)]
  BY DEF Follower
<1>4. /\ \A i \in 1..Len(r.got) : r.got[i].id \in Nat
      /\ \A i \in 1..Len(s) : s[i].id \in Nat
  <2>1. /\ \A i \in 1..Len(r.got) : r.got[i] \in Message
        /\ \A i \in 1..Len(s) : s[i] \in Message
    BY <1>3
  <2> QED BY <2>1 DEF Message
<1> HIDE DEF g
<1>5. Within(g, a)
  BY <1>2, <1>3, <1>4, SMTT(60) DEF Within
<1>6. ASSUME NEW i \in 1..Len(g), NEW j \in 1..Len(g), i < j, g[i].id # 0, g[j].id # 0
      PROVE  g[i].id < g[j].id
  <2>1. CASE j <= Len(r.got)
    BY <1>3, <1>6, <2>1 DEF Rising
  <2>2. CASE i > Len(r.got)
    <3> DEFINE k == i - Len(r.got)
               l == j - Len(r.got)
    <3>0. /\ i \in Nat /\ j \in Nat /\ i < j /\ j <= Len(r.got) + Len(s) /\ i > Len(r.got)
          /\ Len(r.got) \in Nat /\ Len(s) \in Nat
      BY <1>3, <1>6, <2>2
    <3>1. k \in 1..Len(s) /\ l \in 1..Len(s) /\ k < l
      BY ONLY <3>0
    <3>2. g[i] = s[k] /\ g[j] = s[l]
      BY <1>3, <2>2, <3>0
    <3> HIDE DEF k, l
    <3> QED BY <1>6, <3>1, <3>2 DEF Rising
  <2>3. CASE i <= Len(r.got) /\ j > Len(r.got)
    <3> DEFINE l == j - Len(r.got)
    <3>1. l \in 1..Len(s) /\ g[j] = s[l]
      BY <1>3, <1>6, <2>3
    <3>2. i \in 1..Len(r.got) /\ g[i] = r.got[i]
      BY <1>3, <1>6, <2>3
    <3> HIDE DEF l
    <3>3. s[l].id > r.last /\ r.got[i].id <= r.last
      BY <1>6, <3>1, <3>2 DEF Within
    <3> QED BY <1>3, <1>4, <3>1, <3>2, <3>3
  <2> QED BY <1>3, <2>1, <2>2, <2>3
<1>7. Rising(g)
  BY <1>6 DEF Rising
<1> QED BY <1>1, <1>5, <1>7

\* Sound, but for what the subscription still keeps.
Underway(r, n) ==
    /\ r \in Follower
    /\ r.last <= n /\ r.known <= n /\ Within(r.buf, n)
    /\ Rising(r.got) /\ Within(r.got, r.last)

\* A list of one message.
LEMMA OneMessage ==
    ASSUME NEW m \in Message, NEW n \in Nat, m.id <= n
    PROVE  /\ <<m>> \in Seq(Message) /\ Len(<<m>>) = 1 /\ <<m>>[1] = m
           /\ Within(<<m>>, n) /\ Rising(<<m>>)
           /\ Ends(<<m>>) <=> IsFinal(m.ev)
<1>1. <<m>> \in Seq(Message) /\ Len(<<m>>) = 1 /\ <<m>>[1] = m
  OBVIOUS
<1>2. Within(<<m>>, n) /\ Rising(<<m>>)
  BY DEF Within, Rising
<1>3. ToSet(<<m>>) = {m}
  BY <1>1 DEF ToSet
<1>4. Ends(<<m>>) <=> IsFinal(m.ev)
  BY <1>3 DEF Ends
<1> QED BY <1>1, <1>2, <1>4

\* What a live connection does with a message from the channel.
LEMMA FollowIs ==
    ASSUME NEW n \in Nat, NEW r, Sound(r, n), r.pc = "live", NEW m \in Message, m.id <= n
    PROVE  LET q == Follow(r, m) IN
           /\ Sound(q, n) /\ q.since = r.since /\ q.late = r.late
           /\ IF PassedOver(r.last, m) THEN q = r
              ELSE /\ q.got = r.got \o <<m>> /\ q.last = Highest(r.last, <<m>>)
                   /\ q.pc = IF IsFinal(m.ev) THEN "ended" ELSE "live"
<1>1. CASE PassedOver(r.last, m)
  BY <1>1 DEF Follow
<1>2. CASE ~PassedOver(r.last, m)
  <2> DEFINE q == Sent(r, <<m>>, "live")
  <2>1. Follow(r, m) = q
    BY <1>2 DEF Follow
  <2>2. /\ r \in Follower /\ r.last <= n /\ r.known <= n
        /\ Rising(r.got) /\ Within(r.got, r.last) /\ r.buf = << >>
    BY DEF Sound
  <2>3. /\ <<m>> \in Seq(Message) /\ Len(<<m>>) = 1 /\ <<m>>[1] = m
        /\ Within(<<m>>, n) /\ Rising(<<m>>)
        /\ Ends(<<m>>) <=> IsFinal(m.ev)
    BY OneMessage
  <2>4. \A i \in 1..Len(<<m>>) : <<m>>[i].id # 0 => <<m>>[i].id > r.last
    <3>1. m.id # 0 => m.id > r.last
      BY <1>2, <2>2 DEF PassedOver, Message, Follower
    <3> QED BY <2>3, <3>1
  <2>5. /\ q \in Follower
        /\ q.got = r.got \o <<m>>
        /\ q.last = Highest(r.last, <<m>>) /\ q.last <= n /\ q.known <= n
        /\ q.since = r.since /\ q.late = r.late /\ q.buf = r.buf
        /\ q.pc = IF Ends(<<m>>) THEN "ended" ELSE "live"
    <3>1. AfterSending(q, r, <<m>>, "live", n)
      BY <2>2, <2>3, SentIs
    <3> QED BY <3>1 DEF AfterSending
  <2>6. Rising(q.got) /\ Within(q.got, q.last)
    BY <2>2, <2>3, <2>4, SentInOrder
  <2> HIDE DEF q
  <2>7. Within(q.buf, n) /\ q.buf = << >>
    BY <2>2, <2>5 DEF Within
  <2>8. Sound(q, n)
    BY <2>5, <2>6, <2>7 DEF Sound
  <2> QED BY <1>2, <2>1, <2>3, <2>5, <2>8
<1> QED BY <1>1, <1>2

\* Until the replay is over, the subscription keeps the message.
LEMMA KeepIs ==
    ASSUME NEW n \in Nat, NEW r, Sound(r, n), r.pc = "replay", NEW m \in Message, m.id <= n
    PROVE  LET q == [r EXCEPT !.buf = Append(r.buf, m)] IN
           /\ Sound(q, n) /\ q.since = r.since /\ q.late = r.late /\ q.pc = "replay"
           /\ q.got = r.got /\ q.buf = Append(r.buf, m)
<1> DEFINE b == Append(r.buf, m)
<1>1. r \in Follower /\ r.buf \in Seq(Message)
  BY DEF Sound, Follower
<1>2. b \in Seq(Message) /\ Within(b, n)
  <2>1. Within(r.buf, n)
    BY DEF Sound
  <2> QED BY <1>1, <2>1 DEF Within
<1> HIDE DEF b
<1>3. LET q == [r EXCEPT !.buf = b] IN
      /\ q \in Follower
      /\ q.buf = b /\ q.got = r.got /\ q.last = r.last /\ q.known = r.known /\ q.pc = r.pc
      /\ q.since = r.since /\ q.late = r.late
  BY <1>1, <1>2 DEF Follower
<1>4. Sound([r EXCEPT !.buf = b], n)
  BY <1>2, <1>3 DEF Sound
<1> QED BY <1>3, <1>4 DEF b

\* What a connection keeps of what it heard, while it is alive.
LEMMA HearIs ==
    ASSUME NEW n \in Nat, NEW r, Sound(r, n), NEW m \in Message, m.id <= n
    PROVE  LET q == Hear(r, m) IN
           /\ Sound(q, n) /\ q.since = r.since /\ q.late = r.late
           /\ r.pc = "replay" => q.pc = "replay" /\ q.buf = Append(r.buf, m)
           /\ r.pc = "live" =>
                IF PassedOver(r.last, m) THEN q = r
                ELSE /\ q.got = r.got \o <<m>> /\ q.last = Highest(r.last, <<m>>)
                     /\ q.pc = IF IsFinal(m.ev) THEN "ended" ELSE "live"
           /\ r.pc \notin {"live", "replay"} => q = r
<1>1. CASE r.pc = "live"
  <2>1. Hear(r, m) = Follow(r, m)
    BY <1>1 DEF Hear
  <2> QED BY <1>1, <2>1, FollowIs
<1>2. CASE r.pc = "replay"
  <2>1. Hear(r, m) = [r EXCEPT !.buf = Append(r.buf, m)]
    BY <1>2 DEF Hear
  <2> QED BY <1>2, <2>1, KeepIs
<1>3. CASE r.pc \notin {"live", "replay"}
  <2>1. Hear(r, m) = r
    BY <1>3 DEF Hear
  <2> QED BY <1>3, <2>1
<1> QED BY <1>1, <1>2, <1>3
\* The messages picked from a list whose ids are bounded are bounded.
LEMMA PickWithin ==
    ASSUME NEW n \in Nat, NEW s \in Seq(Message), Within(s, n), NEW S \in SUBSET (1..Len(s))
    PROVE  Pick(s, S) \in Seq(Message) /\ Within(Pick(s, S), n)
<1> DEFINE p == Pick(s, S)
<1>1. p \in Seq(Message)
  BY PickIs
<1>2. PICK place \in [1..Len(p) -> S] : \A k \in 1..Len(p) : p[k] = s[place[k]]
  BY PickIs
<1> HIDE DEF p
<1>3. ASSUME NEW k \in 1..Len(p) PROVE p[k].id <= n
  <2>1. place[k] \in S
    BY <1>2
  <2>2. place[k] \in 1..Len(s)
    BY <2>1
  <2> QED BY <1>2, <2>2 DEF Within
<1>4. Within(p, n)
  BY <1>3 DEF Within
<1> QED BY <1>1, <1>4 DEF p

\* Nothing is picked from no position.
LEMMA PickNone ==
    ASSUME NEW s
    PROVE  Pick(s, {}) = << >>
<1>1. Cardinality({}) = 0
  BY FS_EmptySet
<1>2. 1..0 = {}
  OBVIOUS
<1> QED BY <1>1, <1>2 DEF Pick

\* The end of the replay: a connection that goes live takes what was kept for
\* it in order, and one that ended takes nothing more.
LEMMA LiveIs ==
    ASSUME NEW n \in Nat, NEW r, Underway(r, n), r.pc \in {"live", "ended"}
    PROVE  LET q == Live(r) IN
           /\ Sound(q, n) /\ q.since = r.since /\ q.late = r.late
           /\ r.pc = "ended" => q.pc = "ended" /\ q.got = r.got
           /\ r.pc = "live" /\ Kept(r) = {} => q.pc = "live" /\ q.got = r.got /\ q.last = r.last
<1>0. /\ r \in Follower /\ r.last <= n /\ r.known <= n /\ Within(r.buf, n)
      /\ Rising(r.got) /\ Within(r.got, r.last) /\ r.buf \in Seq(Message)
  BY DEF Underway, Follower
<1>1. ASSUME NEW q \in Follower, q.last <= n, q.known <= n, q.pc \in {"live", "ended"},
             Rising(q.got), Within(q.got, q.last)
      PROVE  LET e == [q EXCEPT !.buf = << >>] IN
             /\ Sound(e, n) /\ e.since = q.since /\ e.late = q.late
             /\ e.pc = q.pc /\ e.got = q.got /\ e.last = q.last
  <2> DEFINE e == [q EXCEPT !.buf = << >>]
  <2>1. << >> \in Seq(Message) /\ Within(<< >>, n)
    BY DEF Within
  <2>2. /\ e \in Follower /\ e.buf = << >> /\ e.got = q.got /\ e.last = q.last
        /\ e.known = q.known /\ e.pc = q.pc /\ e.since = q.since /\ e.late = q.late
    BY <2>1 DEF Follower
  <2> HIDE DEF e
  <2>3. Sound(e, n)
    BY <1>1, <2>1, <2>2 DEF Sound
  <2> QED BY <2>2, <2>3 DEF e
<1>2. CASE r.pc = "ended"
  <2>1. Live(r) = [r EXCEPT !.buf = << >>]
    BY <1>2 DEF Live
  <2> QED BY <1>0, <1>1, <1>2, <2>1
<1>3. CASE r.pc = "live"
  <2> DEFINE K == UpToFinal(r.buf, Kept(r))
             s == Pick(r.buf, K)
             q == Sent(r, s, "live")
  <2>1. Live(r) = [q EXCEPT !.buf = << >>]
    BY <1>3 DEF Live
  <2>2. K \in SUBSET Kept(r) /\ K \in SUBSET (1..Len(r.buf))
    BY DEF UpToFinal, Kept
  <2>3. s \in Seq(Message) /\ Within(s, n)
    BY <1>0, <2>2, PickWithin
  <2>4. PICK place \in [1..Len(s) -> K] :
            /\ \A k \in 1..Len(s) : s[k] = r.buf[place[k]]
            /\ \A k, l \in 1..Len(s) : k < l => place[k] < place[l]
    BY <1>0, <2>2, PickIs
  <2>5. Kept(r) = {} => s = << >>
    BY <2>2, PickNone
  <2> HIDE DEF K, s
  <2>6. ASSUME NEW k \in 1..Len(s)
        PROVE  /\ place[k] \in 1..Len(r.buf) /\ s[k] = r.buf[place[k]] /\ s[k].id \in Nat
               /\ s[k].id # 0 => s[k].id > r.last
               /\ \A j \in 1..(place[k] - 1) : ~PassedOver(r.buf[j].id, s[k])
    <3>1. place[k] \in Kept(r) /\ s[k] = r.buf[place[k]]
      BY <2>2, <2>4
    <3>2. /\ place[k] \in 1..Len(r.buf) /\ ~PassedOver(r.last, s[k])
          /\ \A j \in 1..(place[k] - 1) : ~PassedOver(r.buf[j].id, s[k])
      BY <3>1 DEF Kept
    <3>3. s[k] \in Message
      BY <1>0, <3>1, <3>2
    <3>4. s[k].id \in Nat /\ r.last \in Nat
      BY <1>0, <3>3 DEF Message, Follower
    <3>5. s[k].id # 0 => s[k].id > r.last
      BY <3>2, <3>4 DEF PassedOver
    <3> QED BY <3>1, <3>2, <3>4, <3>5
  <2>7. ASSUME NEW k \in 1..Len(s), NEW l \in 1..Len(s), k < l, s[k].id # 0, s[l].id # 0
        PROVE  s[k].id < s[l].id
    <3>1. place[k] < place[l] /\ place[k] \in Nat /\ place[l] \in Nat /\ place[k] >= 1
      BY <2>4, <2>6, <2>7
    <3>2. place[k] \in 1..(place[l] - 1)
      BY <3>1
    <3>3. ~PassedOver(s[k].id, s[l])
      BY <2>6, <3>2
    <3>4. s[k].id \in Nat /\ s[l].id \in Nat
      BY <2>6
    <3> QED BY <2>7, <3>3, <3>4 DEF PassedOver
  <2>8. Rising(s) /\ \A i \in 1..Len(s) : s[i].id # 0 => s[i].id > r.last
    BY <2>6, <2>7 DEF Rising
  <2>9. /\ q \in Follower
        /\ q.got = r.got \o s
        /\ q.last = Highest(r.last, s) /\ q.last <= n /\ q.known <= n
        /\ q.since = r.since /\ q.late = r.late
        /\ q.pc = IF Ends(s) THEN "ended" ELSE "live"
    <3>1. AfterSending(q, r, s, "live", n)
      BY <1>0, <2>3, SentIs
    <3> QED BY <3>1 DEF AfterSending
  <2>10. Rising(q.got) /\ Within(q.got, q.last)
    BY <1>0, <2>3, <2>8, SentInOrder
  <2>11. s = << >> => q.got = r.got /\ q.last = r.last /\ q.pc = "live"
    <3> HAVE s = << >>
    <3>1. r.last \in 0..n /\ r.got \in Seq(Message) /\ Len(s) = 0
      BY <1>0 DEF Follower
    <3>2. ~Ends(s)
      BY <3>1 DEF Ends, ToSet
    <3>3. Highest(r.last, s) = r.last
      <4>1. Highest(r.last, s) = r.last \/ \E i \in 1..Len(s) : Highest(r.last, s) = s[i].id
        BY <2>3, <3>1, HighestIs DEF Within
      <4> QED BY <3>1, <4>1
    <3>4. r.got \o s = r.got
      BY <3>1
    <3> QED BY <2>9, <3>2, <3>3, <3>4
  <2> HIDE DEF q
  <2>12. q.pc \in {"live", "ended"}
    BY <2>9
  <2> DEFINE e == [q EXCEPT !.buf = << >>]
  <2>13. /\ Sound(e, n) /\ e.since = q.since /\ e.late = q.late
         /\ e.pc = q.pc /\ e.got = q.got /\ e.last = q.last
    BY <1>1, <2>9, <2>10, <2>12
  <2> HIDE DEF e
  <2> QED BY <1>3, <2>1, <2>5, <2>9, <2>11, <2>13 DEF e
<1> QED BY <1>2, <1>3

\* What a replay of the messages s makes of the connection r.
AfterReplay(q, r, s, step, n) ==
    /\ Underway(q, n) /\ q.since = r.since /\ q.late = r.late /\ q.buf = r.buf
    /\ q.got = s
    /\ \A i \in 1..Len(q.got) : q.got[i].id <= q.last
    /\ q.pc = IF Ends(s) THEN "ended" ELSE step

\* The replay sends the entries of the log g at the positions S.
LEMMA ReplayIs ==
    ASSUME NEW n \in Nat, NEW r, Sound(r, n), r.pc = "replay",
           NEW g \in Seq(Message), Len(g) = n, \A i \in 1..n : g[i].id = i,
           NEW S \in SUBSET (1..n), NEW step \in {"off", "live"}
    PROVE  AfterReplay(Sent(r, Pick(g, S), step), r, Pick(g, S), step, n)
<1> DEFINE s == Pick(g, S)
           q == Sent(r, s, step)
<1>0. /\ r \in Follower /\ r.last <= n /\ r.known <= n /\ Within(r.buf, n)
      /\ r.got = << >> /\ r.last = 0
  BY DEF Sound
<1>1. Within(g, n)
  BY DEF Within
<1>2. s \in Seq(Message) /\ Within(s, n)
  BY <1>1, PickWithin
<1>3. PICK place \in [1..Len(s) -> S] :
          /\ \A k \in 1..Len(s) : s[k] = g[place[k]]
          /\ \A k, l \in 1..Len(s) : k < l => place[k] < place[l]
  BY PickIs
<1> HIDE DEF s
<1>4. \A k \in 1..Len(s) : place[k] \in 1..n /\ s[k].id = place[k]
  <2> TAKE k \in 1..Len(s)
  <2>1. place[k] \in S /\ s[k] = g[place[k]]
    BY <1>3
  <2>2. place[k] \in 1..n
    BY <2>1
  <2> QED BY <2>1, <2>2
<1>5. Rising(s)
  BY <1>3, <1>4 DEF Rising
<1>6. \A i \in 1..Len(s) : s[i].id # 0 => s[i].id > r.last
  BY <1>0, <1>4
<1>7. Rising(r.got) /\ Within(r.got, r.last)
  BY <1>0 DEF Rising, Within
<1>8. /\ q \in Follower
      /\ q.got = r.got \o s
      /\ q.last = Highest(r.last, s) /\ q.last <= n /\ q.known <= n
      /\ q.since = r.since /\ q.late = r.late /\ q.buf = r.buf
      /\ q.pc = IF Ends(s) THEN "ended" ELSE step
  <2>1. r \in Follower /\ r.last <= n /\ r.known <= n
    BY <1>0
  <2>2. AfterSending(q, r, s, step, n)
    BY <1>2, <2>1, SentIs
  <2> QED BY <2>2 DEF AfterSending
<1>9. Rising(q.got) /\ Within(q.got, q.last)
  BY <1>0, <1>2, <1>5, <1>6, <1>7, SentInOrder
<1>10. r.got \o s = s
  BY <1>0, <1>2
<1> HIDE DEF q
<1>11. Underway(q, n)
  BY <1>0, <1>8, <1>9 DEF Underway
<1>12. AfterReplay(q, r, s, step, n)
  BY <1>8, <1>9, <1>10, <1>11 DEF AfterReplay, Within
<1> QED BY <1>12 DEF q, s

\* A client that went away keeps only what it was told.
LEMMA LeftIs ==
    ASSUME NEW n \in Nat, NEW r \in Follower, r.known <= n
    PROVE  LET q == Left(r) IN
           Sound(q, n) /\ q.pc = "off" /\ q.got = << >> /\ q.late = FALSE
<1> DEFINE q == Left(r)
<1>1. << >> \in Seq(Message) /\ Within(<< >>, n) /\ Rising(<< >>) /\ Within(<< >>, 0)
  BY DEF Within, Rising
<1>2. /\ q \in Follower /\ q.pc = "off" /\ q.buf = << >> /\ q.got = << >> /\ q.last = 0
      /\ q.late = FALSE /\ q.known = r.known
  BY <1>1 DEF Follower, Left
<1> HIDE DEF q
<1>3. Sound(q, n)
  BY <1>1, <1>2 DEF Sound
<1> QED BY <1>2, <1>3 DEF q
-----------------------------------------------------------------------------
(* Types and order are invariants. *)

Base == TypeOK /\ Numbered /\ Connections

\* The connections stay sound when each of them does.
LEMMA ConnectionsNext ==
    ASSUME \A x \in Followers : Sound(f'[x], Len(log'))
    PROVE  Connections'
BY DEF Connections, Sound, Rising, Within

\* A longer log leaves a connection sound.
LEMMA SoundGrows ==
    ASSUME NEW n \in Nat, NEW m \in Nat, n <= m, NEW r, Sound(r, n)
    PROVE  Sound(r, m)
<1>1. r.last \in Nat /\ r.known \in Nat /\ \A i \in 1..Len(r.buf) : r.buf[i].id \in Nat
  <2>1. r \in Follower
    BY DEF Sound
  <2>2. r.buf \in Seq(Message)
    BY <2>1 DEF Follower
  <2>3. \A i \in 1..Len(r.buf) : r.buf[i] \in Message
    BY <2>2
  <2> QED BY <2>1, <2>3 DEF Follower, Message
<1>2. Within(r.buf, n) /\ r.last <= n /\ r.known <= n
  BY DEF Sound
<1>3. Within(r.buf, m) /\ r.last <= m /\ r.known <= m
  BY <1>1, <1>2 DEF Within
<1> QED BY <1>3 DEF Sound

\* XADD gives the next number.
LEMMA NextIdIs ==
    ASSUME Base
    PROVE  Len(log) \in Nat /\ NextId = Len(log) + 1
<1>1. log \in Seq(Message) /\ \A i \in 1..Len(log) : log[i].id = i
  BY DEF Base, TypeOK, Numbered
<1>2. CASE log = << >>
  BY <1>1, <1>2 DEF NextId
<1>3. CASE log # << >>
  BY <1>1, <1>3 DEF NextId, Last
<1> QED BY <1>1, <1>2, <1>3

\* Quiet and Chunk are typed.
LEMMA Basics ==
    /\ Quiet \in Writer /\ Quiet.pc = "idle" /\ Quiet.id = 0
    /\ \A n \in 0..MaxChunks : Chunk(n) \in Events /\ Chunk(n).n = n /\ Chunk(n).kind = "chunk"
    /\ \A k \in {"completed", "failed"} :
          Terminal(k) \in Events /\ Terminal(k).n = 0 /\ Terminal(k).kind = k
    /\ \A h \in Handlers : h \in Writers /\ h \notin Enders
    /\ \A w \in Enders : w \in Writers
BY BoundsAssumption, HandlersAssumption DEF Quiet, Writer, Chunk, Terminal, Events, Writers, Enders

\* The initial state.
LEMMA BaseInit == Init => Base
<1> SUFFICES ASSUME Init PROVE Base
  OBVIOUS
<1>1. << >> \in Seq(Message) /\ Len(<< >>) = 0 /\ Len(log) = 0
  BY DEF Init
<1>2. Off \in Follower /\ Sound(Off, 0)
  <2>1. /\ Off \in Follower /\ Off.pc = "off" /\ Off.got = << >> /\ Off.last = 0
        /\ Off.known = 0 /\ Off.buf = << >>
    BY <1>1, BoundsAssumption DEF Off, Follower
  <2>2. Rising(<< >>) /\ Within(<< >>, 0)
    BY DEF Rising, Within
  <2> QED BY <2>1, <2>2 DEF Sound
<1>3. chunkOwner \in Handlers
  BY HandlersAssumption DEF Init
<1>4. TypeOK
  <2>1. writer \in [Writers -> Writer]
    BY Basics DEF Init
  <2>2. f \in [Followers -> Follower]
    BY <1>2 DEF Init
  <2>3. log \in Seq(Message) /\ inbox \subseteq 1..MaxChunks
    BY <1>1 DEF Init
  <2>4. /\ next \in 1..(MaxChunks + 1) /\ committed \in 0..MaxChunks
        /\ faults \in 0..MaxFaults /\ cuts \in 0..MaxCuts /\ top \in Nat
    BY BoundsAssumption DEF Init
  <2>5. inverted \in BOOLEAN /\ dropped \in BOOLEAN
    BY DEF Init
  <2> QED BY <1>3, <2>1, <2>2, <2>3, <2>4, <2>5 DEF TypeOK
<1>5. Numbered
  BY <1>1, Basics DEF Init, Numbered
<1>6. Connections
  BY <1>1, <1>2 DEF Init, Connections
<1> QED BY <1>4, <1>5, <1>6 DEF Base

\* A step that leaves the connections and the log alone keeps them sound.
LEMMA ConnectionsStay ==
    ASSUME Base, UNCHANGED <<log, f>>
    PROVE  Connections'
<1>1. \A x \in Followers : Sound(f'[x], Len(log'))
  BY DEF Base, Connections
<1> QED BY <1>1, ConnectionsNext

\* publish_token's XADD.
LEMMA XaddBase ==
    ASSUME Base, NEW w \in Writers, Xadd(w)
    PROVE  Base'
<1>0. /\ log \in Seq(Message) /\ Len(log) \in Nat /\ NextId = Len(log) + 1
      /\ writer \in [Writers -> Writer] /\ writer[w] \in Writer /\ writer[w].ev \in Events
  BY NextIdIs DEF Base, TypeOK, Writer
<1>1. CASE log' = Append(log, [id |-> NextId, ev |-> writer[w].ev])
           /\ writer' = [writer EXCEPT ![w].pc = "publish", ![w].id = NextId]
           /\ UNCHANGED <<faults, dropped>>
  <2>1. [id |-> NextId, ev |-> writer[w].ev] \in Message
    BY <1>0 DEF Message
  <2>2. /\ log' \in Seq(Message) /\ Len(log') = Len(log) + 1
        /\ \A i \in 1..Len(log) : log'[i] = log[i]
        /\ log'[Len(log) + 1] = [id |-> NextId, ev |-> writer[w].ev]
    BY <1>0, <1>1, <2>1
  <2>3. writer' \in [Writers -> Writer]
    <3>1. NextId \in Nat
      BY <1>0
    <3>2. [writer[w] EXCEPT !.pc = "publish", !.id = NextId] \in Writer
      BY <1>0, <3>1 DEF Writer
    <3> QED BY <1>0, <1>1, <3>2
  <2>4. Numbered'
    <3>1. ASSUME NEW i \in 1..Len(log') PROVE log'[i].id = i
      <4>1. CASE i \in 1..Len(log)
        BY <2>2, <4>1 DEF Base, Numbered
      <4>2. CASE i = Len(log) + 1
        BY <1>0, <2>2, <4>2
      <4> QED BY <1>0, <2>2, <4>1, <4>2
    <3>2. ASSUME NEW v \in Writers PROVE writer'[v].id <= Len(log')
      <4>1. writer[v].id <= Len(log) /\ writer[v].id \in Nat
        BY <1>0 DEF Base, Numbered, Writer
      <4>2. writer'[v].id = IF v = w THEN Len(log) + 1 ELSE writer[v].id
        BY <1>0, <1>1 DEF Writer
      <4> QED BY <1>0, <2>2, <4>1, <4>2
    <3> QED BY <3>1, <3>2 DEF Numbered
  <2>5. Connections'
    <3>1. f' = f
      BY DEF Xadd
    <3>2. ASSUME NEW x \in Followers PROVE Sound(f[x], Len(log) + 1)
      <4>1. Sound(f[x], Len(log))
        BY DEF Base, Connections
      <4> QED BY <1>0, <4>1, SoundGrows
    <3>3. \A x \in Followers : Sound(f'[x], Len(log'))
      BY <2>2, <3>1, <3>2
    <3> QED BY <3>3, ConnectionsNext
  <2>6. TypeOK'
    BY <1>1, <2>2, <2>3 DEF Base, TypeOK, Xadd, chunkVars
  <2> QED BY <2>4, <2>5, <2>6 DEF Base
<1>2. CASE Fault /\ dropped' = TRUE /\ UNCHANGED log
           /\ writer' = [writer EXCEPT ![w].pc = "publish", ![w].id = 0]
  <2>1. writer' \in [Writers -> Writer]
    BY <1>0, <1>2 DEF Writer
  <2>2. \A v \in Writers : writer'[v].id <= Len(log)
    BY <1>0, <1>2 DEF Base, Numbered, Writer
  <2>3. Numbered'
    BY <1>2, <2>2 DEF Base, Numbered
  <2>4. Connections'
    BY <1>2, ConnectionsStay DEF Xadd
  <2>5. TypeOK'
    BY <1>2, <2>1, BoundsAssumption DEF Base, TypeOK, Xadd, chunkVars, Fault
  <2> QED BY <2>3, <2>4, <2>5 DEF Base
<1> QED BY <1>1, <1>2 DEF Xadd
\* A step that leaves log and connections alone keeps the numbers when the
\* publishers' ids do not grow.
LEMMA NumbersStay ==
    ASSUME Base, UNCHANGED <<log, f>>,
           \A v \in Writers : writer'[v].id = writer[v].id \/ writer'[v].id = 0
    PROVE  Numbered' /\ Connections'
<1>1. Len(log) \in Nat
  BY DEF Base, TypeOK
<1>2. \A v \in Writers : writer'[v].id <= Len(log)
  BY <1>1 DEF Base, Numbered
<1>3. Numbered'
  BY <1>2 DEF Base, Numbered
<1> QED BY <1>3, ConnectionsStay

\* publish_token's PUBLISH.
LEMMA PublishBase ==
    ASSUME Base, NEW w \in Writers, Publish(w)
    PROVE  Base'
<1> DEFINE m == [id |-> writer[w].id, ev |-> writer[w].ev]
<1>0. /\ Len(log) \in Nat /\ writer \in [Writers -> Writer] /\ writer[w] \in Writer
      /\ f \in [Followers -> Follower] /\ top \in Nat
  BY DEF Base, TypeOK
<1>1. m \in Message /\ m.id <= Len(log) /\ m.id = writer[w].id
  BY <1>0 DEF Base, Numbered, Message, Writer
<1>2. writer' \in [Writers -> Writer]
      /\ \A v \in Writers : writer'[v].id = writer[v].id \/ writer'[v].id = 0
  <2>1. AfterPublish(w) \in {"save", "done"}
    BY DEF AfterPublish
  <2>2. writer' = [writer EXCEPT ![w].pc = AfterPublish(w), ![w].id = 0]
    BY DEF Publish
  <2>3. [writer[w] EXCEPT !.pc = AfterPublish(w), !.id = 0] \in Writer
        /\ [writer[w] EXCEPT !.pc = AfterPublish(w), !.id = 0].id = 0
    BY <1>0, <2>1 DEF Writer
  <2> QED BY <1>0, <2>2, <2>3
<1>3. log' = log /\ UNCHANGED <<chunkVars, cuts>>
  BY DEF Publish
<1>4. CASE /\ f' = [x \in Followers |-> Hear(f[x], m)]
           /\ top' = IF m.id > top THEN m.id ELSE top
           /\ inverted' = (inverted \/ (m.id # 0 /\ m.id < top))
           /\ UNCHANGED <<faults, dropped>>
  <2>1. ASSUME NEW x \in Followers PROVE Sound(f'[x], Len(log'))
    <3>1. Sound(f[x], Len(log))
      BY DEF Base, Connections
    <3> HIDE DEF m
    <3>2. Sound(Hear(f[x], m), Len(log))
      BY <1>0, <1>1, <3>1, HearIs
    <3> QED BY <1>3, <1>4, <3>2
  <2>2. Connections'
    BY <2>1, ConnectionsNext
  <2>3. \A x \in Followers : f'[x] \in Follower
    BY <2>1 DEF Sound
  <2>4. f' \in [Followers -> Follower]
    BY <1>4, <2>3
  <2>5. Numbered'
    <3>1. \A v \in Writers : writer'[v].id <= Len(log)
      BY <1>0, <1>2 DEF Base, Numbered
    <3> QED BY <1>3, <3>1 DEF Base, Numbered
  <2>6. top' \in Nat /\ inverted' \in BOOLEAN
    <3>1. m.id \in Nat
      BY <1>1 DEF Message
    <3>2. top' \in Nat
      BY <1>0, <1>4, <3>1
    <3>3. inverted' \in BOOLEAN
      BY <1>4
    <3> QED BY <3>2, <3>3
  <2>7. TypeOK'
    BY <1>2, <1>3, <1>4, <2>4, <2>6 DEF Base, TypeOK, chunkVars
  <2> QED BY <2>2, <2>5, <2>7 DEF Base
<1>5. CASE Fault /\ dropped' = TRUE /\ UNCHANGED <<f, top, inverted>>
  <2>1. Numbered' /\ Connections'
    BY <1>2, <1>3, <1>5, NumbersStay
  <2>2. TypeOK'
    BY <1>2, <1>3, <1>5, BoundsAssumption DEF Base, TypeOK, chunkVars, Fault
  <2> QED BY <2>1, <2>2 DEF Base
<1> QED BY <1>4, <1>5 DEF Publish

\* The consumer of the chunks and the terminal events.
LEMMA HandlersBase ==
    ASSUME Base, Busy, NEW h \in Handlers,
           Deliver(h) \/ SaveInbox(h) \/ HandlerRaises(h) \/ Rebalance(h)
    PROVE  Base'
<1>0. /\ writer \in [Writers -> Writer] /\ h \in Writers /\ writer[h] \in Writer
      /\ next \in 1..(MaxChunks + 1) /\ committed \in 0..MaxChunks /\ inbox \subseteq 1..MaxChunks
      /\ MaxChunks \in Nat
  BY BoundsAssumption DEF Base, TypeOK, Writers
<1>1. CASE Deliver(h)
  <2>1. next \in 1..MaxChunks /\ next' \in 1..(MaxChunks + 1)
    BY <1>0, <1>1 DEF Deliver
  <2>2. [pc |-> "append", ev |-> Chunk(next), id |-> 0] \in Writer
    BY <2>1, Basics DEF Writer
  <2>3. /\ writer' \in [Writers -> Writer] /\ committed' \in 0..MaxChunks
        /\ \A v \in Writers : writer'[v].id = writer[v].id \/ writer'[v].id = 0
    <3>1. CASE next \in inbox
      BY <1>0, <1>1, <2>1, <3>1 DEF Deliver
    <3>2. CASE next \notin inbox
      <4>1. /\ writer' = [writer EXCEPT ![h] = [pc |-> "append", ev |-> Chunk(next), id |-> 0]]
            /\ committed' = committed
        BY <1>1, <3>2 DEF Deliver
      <4> QED BY <1>0, <2>2, <4>1
    <3> QED BY <3>1, <3>2
  <2>4. UNCHANGED <<log, chunkOwner, inbox, f, faults, cuts, history>>
    BY <1>1 DEF Deliver
  <2>5. Numbered' /\ Connections'
    BY <2>3, <2>4, NumbersStay
  <2>6. TypeOK'
    BY <2>1, <2>3, <2>4 DEF Base, TypeOK, history
  <2> QED BY <2>5, <2>6 DEF Base
<1>2. CASE SaveInbox(h)
  <2>1. writer[h].pc = "save" /\ writer[h].ev.n \in 0..MaxChunks
    BY <1>0, <1>2 DEF SaveInbox, Writer, Events
  <2>2. /\ inbox' = inbox \cup {writer[h].ev.n} /\ writer' = [writer EXCEPT ![h] = Quiet]
        /\ committed' = IF h = chunkOwner THEN writer[h].ev.n ELSE committed
        /\ UNCHANGED <<log, chunkOwner, next, f, faults, cuts, history>>
    BY <1>2 DEF SaveInbox
  <2>3. /\ writer' \in [Writers -> Writer] /\ committed' \in 0..MaxChunks
        /\ \A v \in Writers : writer'[v].id = writer[v].id \/ writer'[v].id = 0
    BY <1>0, <2>1, <2>2, Basics
  <2>4. writer[h].ev.n # 0
    BY <2>1 DEF Busy
  <2>5. inbox' \subseteq 1..MaxChunks
    <3>1. writer[h].ev.n \in 1..MaxChunks
      BY <1>0, <2>1, <2>4
    <3> QED BY <1>0, <2>2, <3>1
  <2>6. Numbered' /\ Connections'
    BY <2>2, <2>3, NumbersStay
  <2>7. TypeOK'
    BY <2>2, <2>3, <2>5 DEF Base, TypeOK, history
  <2> QED BY <2>6, <2>7 DEF Base
<1>3. CASE HandlerRaises(h)
  <2>1. /\ writer' = [writer EXCEPT ![h] = Quiet] /\ dropped' = TRUE /\ Fault
        /\ UNCHANGED <<log, chunkOwner, committed, inbox, f, cuts, top, inverted>>
    BY <1>3 DEF HandlerRaises
  <2>2. next' \in 1..(MaxChunks + 1)
    BY <1>0, <1>3 DEF HandlerRaises
  <2>3. /\ writer' \in [Writers -> Writer]
        /\ \A v \in Writers : writer'[v].id = writer[v].id \/ writer'[v].id = 0
    BY <1>0, <2>1, Basics
  <2>4. Numbered' /\ Connections'
    BY <2>1, <2>3, NumbersStay
  <2>5. TypeOK'
    BY <2>1, <2>2, <2>3, BoundsAssumption DEF Base, TypeOK, Fault
  <2> QED BY <2>4, <2>5 DEF Base
<1>4. CASE Rebalance(h)
  <2>1. /\ chunkOwner' = h /\ next' = committed + 1 /\ Fault
        /\ UNCHANGED <<log, writer, committed, inbox, f, cuts, history>>
    BY <1>4 DEF Rebalance
  <2>2. Numbered' /\ Connections'
    BY <2>1, NumbersStay
  <2>3. TypeOK'
    BY <1>0, <2>1, BoundsAssumption DEF Base, TypeOK, Fault, history
  <2> QED BY <2>2, <2>3 DEF Base
<1> QED BY <1>1, <1>2, <1>3, <1>4
\* The terminal events.
LEMMA EndBase ==
    ASSUME Base, NEW w \in Writers, End(w)
    PROVE  Base'
<1>0. writer \in [Writers -> Writer] /\ writer[w] \in Writer
  BY DEF Base, TypeOK
<1>1. PICK k \in Endings(w) : writer' = [writer EXCEPT ![w].pc = "append", ![w].ev = Terminal(k)]
  BY DEF End
<1>2. UNCHANGED <<log, chunkVars, f, faults, cuts, history>>
  BY DEF End
<1>3. Terminal(k) \in Events
  BY Basics DEF Endings
<1>4. [writer[w] EXCEPT !.pc = "append", !.ev = Terminal(k)] \in Writer
      /\ [writer[w] EXCEPT !.pc = "append", !.ev = Terminal(k)].id = writer[w].id
  BY <1>0, <1>3 DEF Writer
<1>5. writer' \in [Writers -> Writer] /\ \A v \in Writers : writer'[v].id = writer[v].id
  BY <1>0, <1>1, <1>4
<1>6. Numbered' /\ Connections'
  BY <1>2, <1>5, NumbersStay
<1>7. TypeOK'
  BY <1>2, <1>5 DEF Base, TypeOK, chunkVars, history
<1> QED BY <1>6, <1>7 DEF Base

\* The rows of a replay are positions of the log.
LEMMA RowsAre ==
    ASSUME NEW since
    PROVE  Rows(since) \in SUBSET (1..Len(log))
BY DEF Rows, UpToFinal, Retained

\* A client connects.
LEMMA ConnectIs ==
    ASSUME Base, NEW x \in Followers, Connect(x)
    PROVE  /\ Sound(f'[x], Len(log))
           /\ f'[x].pc = "replay" /\ f'[x].buf = << >> /\ f'[x].got = << >>
           /\ f'[x].late = Logged("completed")
<1> DEFINE r == f[x]
           l == Logged("completed")
           q == [r EXCEPT !.pc = "replay", !.since = r.known, !.last = 0, !.got = << >>,
                          !.late = l, !.connects = r.connects + 1]
<1>1. Sound(r, Len(log)) /\ r \in Follower /\ Len(log) \in Nat
  BY DEF Base, TypeOK, Connections
<1>2. r.pc = "off" /\ r.connects < MaxConnects /\ r.buf = << >> /\ r.known <= Len(log)
  BY <1>1 DEF Connect, Sound
<1>3. f'[x] = q
  <2>1. f \in [Followers -> Follower]
    BY DEF Base, TypeOK
  <2>2. f' = [f EXCEPT ![x] = q]
    BY DEF Connect, Listening
  <2> HIDE DEF q
  <2> QED BY <2>1, <2>2
<1>4. l \in BOOLEAN
  BY DEF Logged
<1>5. r.connects + 1 \in 0..MaxConnects /\ r.known \in Nat /\ << >> \in Seq(Message)
  BY <1>1, <1>2, BoundsAssumption DEF Follower
<1> HIDE DEF l, r
<1>6. /\ q \in Follower /\ q.pc = "replay" /\ q.buf = r.buf /\ q.got = << >> /\ q.last = 0
      /\ q.late = l /\ q.known = r.known
  BY <1>1, <1>4, <1>5 DEF Follower
<1> HIDE DEF q
<1>7. Sound(q, Len(log))
  <2>1. Rising(<< >>) /\ Within(<< >>, 0) /\ Within(<< >>, Len(log))
    BY DEF Rising, Within
  <2> QED BY <1>1, <1>2, <1>6, <2>1 DEF Sound
<1> QED BY <1>2, <1>3, <1>6, <1>7 DEF l

\* A replay that reads the log, and one that fails.
LEMMA ReplayStep ==
    ASSUME Base, NEW x \in Followers, Replay(x)
    PROVE  /\ Sound(f'[x], Len(log)) /\ f'[x].since = f[x].since /\ f'[x].late = f[x].late
           /\ f'[x].pc \in {"live", "ended"}
           /\ ~dropped' =>
                LET s == Pick(log, Rows(f[x].since))
                    q == Sent(f[x], s, "live") IN
                /\ f'[x] = Live(q) /\ Underway(q, Len(log)) /\ q.got = s /\ q.buf = f[x].buf
                /\ q.pc = IF Ends(s) THEN "ended" ELSE "live"
                /\ q.since = f[x].since /\ q.late = f[x].late
                /\ q.last <= Len(log)
                /\ \A i \in 1..Len(s) : s[i].id <= q.last
<1> DEFINE n == Len(log)
           r == f[x]
           S == Rows(r.since)
           s == Pick(log, S)
<1>1. Sound(r, n) /\ r \in Follower /\ n \in Nat /\ log \in Seq(Message) /\ r.pc = "replay"
      /\ \A i \in 1..n : log[i].id = i
  BY DEF Base, TypeOK, Numbered, Connections, Replay
<1>2. f \in [Followers -> Follower]
  BY DEF Base, TypeOK
<1>3. CASE f' = [f EXCEPT ![x] = Live(Sent(f[x], s, "live"))] /\ UNCHANGED <<faults, dropped>>
  <2> DEFINE q == Sent(r, s, "live")
  <2>1. S \in SUBSET (1..n)
    BY RowsAre
  <2> HIDE DEF r, S, n
  <2>2. /\ Underway(q, n) /\ q.since = r.since /\ q.late = r.late /\ q.buf = r.buf
        /\ q.got = s
        /\ \A i \in 1..Len(q.got) : q.got[i].id <= q.last
        /\ q.pc = IF Ends(s) THEN "ended" ELSE "live"
    <3>1. Len(log) = n
      BY DEF n
    <3>2. AfterReplay(q, r, s, "live", n)
      BY <1>1, <2>1, <3>1, ReplayIs
    <3> QED BY <3>2 DEF AfterReplay
  <2>3. q.pc \in {"live", "ended"} /\ q.last <= n
    BY <2>2 DEF Underway
  <2>4. f'[x] = Live(q)
    BY <1>2, <1>3 DEF r
  <2> HIDE DEF q, s
  <2>5. Sound(Live(q), n) /\ Live(q).since = q.since /\ Live(q).late = q.late
    BY <1>1, <2>2, <2>3, LiveIs
  <2>6. Live(q).pc \in {"live", "ended"}
    <3>1. q \in Follower
      BY <2>2 DEF Underway
    <3>2. Live(q) \in Follower
      BY <2>5 DEF Sound
    <3>3. CASE q.pc = "ended"
      BY <1>1, <2>2, <3>3, LiveIs
    <3>4. CASE q.pc = "live"
      BY <3>1, <3>4 DEF Live, Sent, Follower
    <3> QED BY <2>3, <3>3, <3>4
  <2> QED BY <2>2, <2>3, <2>4, <2>5, <2>6 DEF q, s, S, r, n
<1>4. CASE Fault /\ dropped' = TRUE /\ f' = [f EXCEPT ![x] = Live([f[x] EXCEPT !.pc = "live"])]
  <2> DEFINE q == [r EXCEPT !.pc = "live"]
  <2> HIDE DEF r, n
  <2>1. /\ q \in Follower /\ q.pc = "live" /\ q.last = r.last /\ q.known = r.known
        /\ q.buf = r.buf /\ q.got = r.got /\ q.since = r.since /\ q.late = r.late
    BY <1>1 DEF Follower
  <2>2. f'[x] = Live(q)
    BY <1>2, <1>4 DEF r
  <2> HIDE DEF q
  <2>3. Underway(q, n)
    BY <1>1, <2>1 DEF Underway, Sound
  <2>4. Sound(Live(q), n) /\ Live(q).since = q.since /\ Live(q).late = q.late
    BY <1>1, <2>1, <2>3, LiveIs
  <2>5. Live(q).pc \in {"live", "ended"}
    BY <2>1 DEF Live, Sent, Follower
  <2> QED BY <1>4, <2>1, <2>2, <2>4, <2>5 DEF r, n
<1> QED BY <1>3, <1>4 DEF Replay
\* A client that goes away.
LEMMA CutIs ==
    ASSUME Base, NEW x \in Followers, ReplayCut(x) \/ Cut(x)
    PROVE  Sound(f'[x], Len(log)) /\ f'[x].pc = "off" /\ f'[x].got = << >> /\ f'[x].late = FALSE
<1> DEFINE n == Len(log)
           r == f[x]
<1>1. Sound(r, n) /\ r \in Follower /\ n \in Nat /\ log \in Seq(Message)
      /\ \A i \in 1..n : log[i].id = i
  BY DEF Base, TypeOK, Numbered, Connections
<1>2. f \in [Followers -> Follower]
  BY DEF Base, TypeOK
<1>3. CASE Cut(x)
  <2>1. f'[x] = Left(r)
    BY <1>2, <1>3 DEF Cut
  <2>2. r.known <= n
    BY <1>1 DEF Sound
  <2> HIDE DEF r, n
  <2> QED BY <1>1, <2>1, <2>2, LeftIs DEF n
<1>4. CASE ReplayCut(x)
  <2> DEFINE rows == Rows(r.since)
  <2>1. PICK b : f' = [f EXCEPT ![x] = Left(Sent(f[x], Pick(log, {i \in rows : i <= b}), "off"))]
    BY <1>4 DEF ReplayCut
  <2> DEFINE S == {i \in rows : i <= b}
             q == Sent(r, Pick(log, S), "off")
  <2>2. S \in SUBSET (1..n) /\ r.pc = "replay"
    BY <1>4, RowsAre DEF ReplayCut
  <2>3. f'[x] = Left(q)
    BY <1>2, <2>1
  <2> HIDE DEF r, S, n
  <2>4. Underway(q, n)
    <3>1. Len(log) = n
      BY DEF n
    <3>2. AfterReplay(q, r, Pick(log, S), "off", n)
      BY <1>1, <2>2, <3>1, ReplayIs
    <3> QED BY <3>2 DEF AfterReplay
  <2>5. q \in Follower /\ q.known <= n
    BY <2>4 DEF Underway
  <2> HIDE DEF q
  <2> QED BY <1>1, <2>3, <2>5, LeftIs DEF n
<1> QED BY <1>3, <1>4

\* The steps of the connections.
LEMMA FollowersBase ==
    ASSUME Base, NEW x \in Followers,
           Connect(x) \/ Replay(x) \/ ReplayCut(x) \/ Cut(x)
    PROVE  Base'
<1>1. f \in [Followers -> Follower]
  BY DEF Base, TypeOK
<1>2. UNCHANGED <<log, writer, chunkVars, top, inverted>>
  BY DEF Connect, Replay, ReplayCut, Cut, history
<1>3. \E q : f' = [f EXCEPT ![x] = q]
  BY DEF Connect, Replay, ReplayCut, Cut
<1>4. Sound(f'[x], Len(log))
  BY ConnectIs, ReplayStep, CutIs
<1>5. ASSUME NEW y \in Followers PROVE Sound(f'[y], Len(log'))
  <2>1. Sound(f[y], Len(log))
    BY DEF Base, Connections
  <2>2. y # x => f'[y] = f[y]
    BY <1>1, <1>3
  <2> QED BY <1>2, <1>4, <2>1, <2>2
<1>6. Connections'
  BY <1>5, ConnectionsNext
<1>7. f' \in [Followers -> Follower]
  <2>1. \A y \in Followers : f'[y] \in Follower
    BY <1>5 DEF Sound
  <2> QED BY <1>1, <1>3, <2>1
<1>8. Numbered'
  BY <1>2 DEF Base, Numbered
<1>9. faults' \in 0..MaxFaults /\ cuts' \in 0..MaxCuts /\ dropped' \in BOOLEAN
  <2>1. faults' = faults \/ Fault
    BY DEF Connect, Replay, ReplayCut, Cut
  <2>2. cuts' = cuts \/ (cuts < MaxCuts /\ cuts' = cuts + 1)
    BY DEF Connect, Replay, ReplayCut, Cut
  <2>3. dropped' = dropped \/ dropped' = TRUE
    BY DEF Connect, Replay, ReplayCut, Cut, history
  <2>4. faults' \in 0..MaxFaults /\ cuts' \in 0..MaxCuts
    BY <2>1, <2>2, BoundsAssumption DEF Base, TypeOK, Fault
  <2>5. dropped' \in BOOLEAN
    BY <2>3 DEF Base, TypeOK
  <2> QED BY <2>4, <2>5
<1>10. TypeOK'
  BY <1>2, <1>7, <1>9 DEF Base, TypeOK, chunkVars
<1> QED BY <1>6, <1>8, <1>10 DEF Base

\* What a publisher has in hand changes with its step.
LEMMA BusyNext ==
    ASSUME Base, Busy, [Next]_vars
    PROVE  Busy'
<1>0. /\ writer \in [Writers -> Writer] /\ next \in 1..(MaxChunks + 1)
      /\ \A h \in Handlers : h \in Writers /\ h \notin Enders
      /\ \A w \in Enders : w \in Writers /\ w \notin Handlers
  BY Basics DEF Base, TypeOK
<1>1. ASSUME NEW w \in Writers, Xadd(w) \/ Publish(w) PROVE Busy'
  <2>1. /\ \A v \in Writers : writer'[v].ev = writer[v].ev
        /\ \A v \in Writers : v # w => writer'[v] = writer[v]
        /\ writer[w].pc # "idle"
    <3>0. writer[w] \in Writer
      BY <1>0
    <3>1. \E p, d : writer' = [writer EXCEPT ![w].pc = p, ![w].id = d]
      <4>1. CASE Xadd(w)
        BY <4>1 DEF Xadd
      <4>2. CASE Publish(w)
        BY <4>2 DEF Publish
      <4> QED BY <1>1, <4>1, <4>2
    <3>2. writer[w].pc # "idle"
      BY <1>1 DEF Xadd, Publish
    <3> QED BY <1>0, <3>0, <3>1, <3>2 DEF Writer
  <2>2. w \in Handlers => writer'[w].pc \in {"publish", "save"}
    BY <1>0, <1>1 DEF Xadd, Publish, Writer, AfterPublish
  <2>3. ASSUME NEW h \in Handlers
        PROVE  /\ writer'[h].pc # "done"
               /\ writer'[h].pc # "idle" => writer'[h].ev.n # 0 /\ writer'[h].ev = Chunk(writer'[h].ev.n)
    <3>1. CASE h # w
      BY <1>0, <2>1, <3>1 DEF Busy
    <3>2. CASE h = w
      BY <1>0, <2>1, <2>2, <3>2 DEF Busy
    <3> QED BY <3>1, <3>2
  <2>4. \A v \in Enders : writer'[v].ev.n = 0
    BY <1>0, <2>1 DEF Busy
  <2> QED BY <2>3, <2>4 DEF Busy
<1>2. ASSUME NEW w \in Writers, End(w) PROVE Busy'
  <2>1. PICK k \in Endings(w) : writer' = [writer EXCEPT ![w].pc = "append", ![w].ev = Terminal(k)]
    BY <1>2 DEF End
  <2>2. w \in Enders /\ Terminal(k).n = 0
    BY <1>2, Basics DEF End, Endings
  <2>3. /\ \A v \in Writers : v # w => writer'[v] = writer[v]
        /\ writer'[w].ev = Terminal(k)
    BY <1>0, <2>1 DEF Writer
  <2> QED BY <1>0, <2>2, <2>3 DEF Busy
<1>3. ASSUME NEW h \in Handlers, Deliver(h) PROVE Busy'
  <2>1. next \in Nat /\ next # 0 /\ Chunk(next).n = next
    BY <1>0, BoundsAssumption DEF Chunk
  <2>2. /\ \A v \in Writers : v # h => writer'[v] = writer[v]
        /\ writer'[h] = writer[h] \/ writer'[h] = [pc |-> "append", ev |-> Chunk(next), id |-> 0]
    BY <1>0, <1>3 DEF Deliver
  <2> QED BY <1>0, <2>1, <2>2 DEF Busy
<1>4. ASSUME NEW h \in Handlers, SaveInbox(h) \/ HandlerRaises(h) PROVE Busy'
  <2>1. /\ \A v \in Writers : v # h => writer'[v] = writer[v]
        /\ writer'[h].pc = "idle"
    BY <1>0, <1>4, Basics DEF SaveInbox, HandlerRaises
  <2> QED BY <1>0, <2>1 DEF Busy
<1>5. CASE UNCHANGED writer
  BY <1>5 DEF Busy
<1>6. ASSUME NEW h \in Handlers, Rebalance(h) PROVE UNCHANGED writer
  BY <1>6 DEF Rebalance
<1>7. ASSUME NEW x \in Followers, Connect(x) \/ Replay(x) \/ ReplayCut(x) \/ Cut(x)
      PROVE  UNCHANGED writer
  BY <1>7 DEF Connect, Replay, ReplayCut, Cut
<1> QED BY <1>1, <1>2, <1>3, <1>4, <1>5, <1>6, <1>7
        DEF Next, WriterStep, HandlerStep, vars

\* A step keeps types and order.
LEMMA BaseNext ==
    ASSUME Base, Busy, [Next]_vars
    PROVE  Base'
<1>1. ASSUME NEW w \in Writers, WriterStep(w) PROVE Base'
  BY <1>1, XaddBase, PublishBase, EndBase DEF WriterStep
<1>2. ASSUME NEW h \in Handlers, HandlerStep(h) \/ HandlerRaises(h) \/ Rebalance(h) PROVE Base'
  BY <1>2, HandlersBase DEF HandlerStep
<1>3. ASSUME NEW x \in Followers, Connect(x) \/ Replay(x) \/ ReplayCut(x) \/ Cut(x) PROVE Base'
  BY <1>3, FollowersBase
<1>4. CASE UNCHANGED vars
  <2>1. UNCHANGED <<log, writer, chunkVars, f, faults, cuts, history>>
    BY <1>4 DEF vars
  <2>2. Numbered' /\ Connections'
    BY <2>1, NumbersStay
  <2>3. TypeOK'
    BY <2>1 DEF Base, TypeOK, chunkVars, history
  <2> QED BY <2>2, <2>3 DEF Base
<1> QED BY <1>1, <1>2, <1>3, <1>4 DEF Next

\* Base is an invariant.
LEMMA BaseInvariant == Spec => [](Base /\ Busy)
<1>1. Init => Base /\ Busy
  <2>1. Init => Busy
    <3> SUFFICES ASSUME Init PROVE Busy
      OBVIOUS
    <3>1. \A w \in Writers : writer[w] = Quiet
      BY DEF Init
    <3>2. Quiet.ev.n = 0 /\ Quiet.pc = "idle"
      BY DEF Quiet, Chunk
    <3> QED BY <3>1, <3>2, Basics DEF Busy
  <2> QED BY <2>1, BaseInit
<1>2. Base /\ Busy /\ [Next]_vars => (Base /\ Busy)'
  BY BaseNext, BusyNext
<1> QED BY <1>1, <1>2, PTL DEF Spec

\* The state keeps its types: the log, the publishers, the partition and the
\* connections (stream_service.py).
THEOREM StreamTypes == Spec => []TypeOK
<1>1. Base => TypeOK
  BY DEF Base
<1> QED BY <1>1, BaseInvariant, PTL

\* One connection never sends an event twice or out of order: the ids only
\* grow over replay, what was buffered meanwhile and the live channel
\* (stream_service.py:197-204, 220-226).
THEOREM SentOnce == Spec => []InOrderOnce
<1>1. Base => InOrderOnce
  <2> SUFFICES ASSUME Base, NEW x \in Followers PROVE Rising(f[x].got)
    BY DEF InOrderOnce, Rising
  <2> QED BY DEF Base, Connections, Sound
<1> QED BY <1>1, BaseInvariant, PTL
-----------------------------------------------------------------------------
(* The real outcome. *)

\* The entries of the log stay, and so does a dropped call.
LEMMA LogGrows ==
    ASSUME Base, [Next]_vars
    PROVE  /\ Len(log) \in Nat /\ Len(log') \in Nat /\ Len(log) <= Len(log')
           /\ \A i \in 1..Len(log) : log'[i] = log[i]
           /\ dropped => dropped'
           /\ inverted => inverted'
<1>0. log \in Seq(Message) /\ Len(log) \in Nat
  BY DEF Base, TypeOK
<1>1. ASSUME NEW w \in Writers, Xadd(w)
      PROVE  /\ Len(log') \in Nat /\ Len(log) <= Len(log')
             /\ \A i \in 1..Len(log) : log'[i] = log[i]
  <2>1. [id |-> NextId, ev |-> writer[w].ev] \in Message
    BY NextIdIs DEF Base, TypeOK, Message, Writer
  <2>2. CASE log' = Append(log, [id |-> NextId, ev |-> writer[w].ev])
    BY <1>0, <2>1, <2>2
  <2>3. CASE log' = log
    BY <1>0, <2>3
  <2> QED BY <1>1, <2>2, <2>3 DEF Xadd
<1>2. (\E w \in Writers : Xadd(w)) \/ UNCHANGED log
  BY DEF Next, WriterStep, HandlerStep, Publish, End, Deliver, SaveInbox, HandlerRaises, Rebalance,
         Connect, Replay, ReplayCut, Cut, vars
<1>3. /\ dropped => dropped'
      /\ inverted => inverted'
  <2>1. ASSUME NEW w \in Writers, WriterStep(w)
        PROVE  (dropped => dropped') /\ (inverted => inverted')
    <3>1. CASE Xadd(w)
      BY <3>1 DEF Xadd
    <3>2. CASE Publish(w)
      <4>1. UNCHANGED dropped \/ dropped' = TRUE
        BY <3>2 DEF Publish
      <4>2. \/ inverted' = (inverted \/ (writer[w].id # 0 /\ writer[w].id < top))
            \/ UNCHANGED inverted
        BY <3>2 DEF Publish
      <4>3. inverted => inverted'
        <5> DEFINE late == writer[w].id # 0 /\ writer[w].id < top
        <5>1. inverted' = (inverted \/ late) \/ inverted' = inverted
          BY <4>2
        <5>2. late \in BOOLEAN /\ inverted \in BOOLEAN
          BY DEF Base, TypeOK
        <5> HIDE DEF late
        <5> QED BY <5>1, <5>2
      <4>4. dropped => dropped'
        BY <4>1
      <4> QED BY <4>3, <4>4
    <3>3. CASE End(w)
      BY <3>3 DEF End, history
    <3> QED BY <2>1, <3>1, <3>2, <3>3 DEF WriterStep
  <2>2. ASSUME NEW h \in Handlers, HandlerStep(h) \/ HandlerRaises(h) \/ Rebalance(h)
        PROVE  (dropped => dropped') /\ (inverted => inverted')
    BY <2>2 DEF HandlerStep, Deliver, SaveInbox, HandlerRaises, Rebalance, history
  <2>3. ASSUME NEW x \in Followers, Connect(x) \/ Replay(x) \/ ReplayCut(x) \/ Cut(x)
        PROVE  (dropped => dropped') /\ (inverted => inverted')
    BY <2>3 DEF Connect, Replay, ReplayCut, Cut, history
  <2> QED BY <2>1, <2>2, <2>3 DEF Next, vars, history
<1> QED BY <1>0, <1>1, <1>2, <1>3

\* What one step does to a connection.
LEMMA Moves ==
    ASSUME Base, [Next]_vars, NEW x \in Followers
    PROVE  \/ f'[x] = f[x]
           \/ \E w \in Writers : Publish(w)
                  /\ f'[x] = Hear(f[x], [id |-> writer[w].id, ev |-> writer[w].ev])
           \/ Connect(x) \/ Replay(x) \/ ReplayCut(x) \/ Cut(x)
<1>0. f \in [Followers -> Follower]
  BY DEF Base, TypeOK
<1>1. ASSUME NEW w \in Writers, Publish(w)
      PROVE  f'[x] = f[x] \/ f'[x] = Hear(f[x], [id |-> writer[w].id, ev |-> writer[w].ev])
  BY <1>0, <1>1 DEF Publish
<1>2. ASSUME NEW y \in Followers, Connect(y) \/ Replay(y) \/ ReplayCut(y) \/ Cut(y), y # x
      PROVE  f'[x] = f[x]
  <2>1. \E q : f' = [f EXCEPT ![y] = q]
    BY <1>2 DEF Connect, Replay, ReplayCut, Cut
  <2> QED BY <1>0, <1>2, <2>1
<1>3. \/ UNCHANGED f
      \/ \E w \in Writers : Publish(w)
      \/ \E y \in Followers : Connect(y) \/ Replay(y) \/ ReplayCut(y) \/ Cut(y)
  BY DEF Next, WriterStep, HandlerStep, Xadd, End, Deliver, SaveInbox, HandlerRaises, Rebalance, vars
<1> QED BY <1>1, <1>2, <1>3

\* The rows are those retained up to the first terminal event.
LEMMA RowsEnd ==
    ASSUME Base, NEW since, NEW t \in Retained(since), IsFinal(log[t].ev)
    PROVE  \E i \in Rows(since) : IsFinal(log[i].ev)
<1> DEFINE F == {i \in Retained(since) : IsFinal(log[i].ev)}
<1>1. Retained(since) \in SUBSET Nat
  BY DEF Retained
<1>2. F \in SUBSET Nat /\ t \in F
  BY <1>1
<1>3. PICK i \in F : \A j \in F : i <= j
  <2> HIDE DEF F
  <2> QED BY <1>2, LeastOf
<1>4. \A j \in Retained(since) : j < i => ~IsFinal(log[j].ev)
  <2> SUFFICES ASSUME NEW j \in Retained(since), j < i, IsFinal(log[j].ev) PROVE FALSE
    OBVIOUS
  <2>1. j \in F /\ i \in Nat /\ j \in Nat
    BY <1>2, <1>3
  <2>2. i <= j
    BY <1>3, <2>1
  <2> QED BY <2>1, <2>2
<1> QED BY <1>3, <1>4 DEF Rows, UpToFinal

\* A replay ends the connection exactly when a row is terminal.
LEMMA ReplayEnds ==
    ASSUME Base, NEW since
    PROVE  Ends(Pick(log, Rows(since))) <=> \E i \in Rows(since) : IsFinal(log[i].ev)
<1> DEFINE s == Pick(log, Rows(since))
<1>1. log \in Seq(Message) /\ Rows(since) \in SUBSET (1..Len(log))
  BY RowsAre DEF Base, TypeOK
<1>2. s \in Seq(Message)
  BY <1>1, PickIs
<1>3. PICK place \in [1..Len(s) -> Rows(since)] :
          /\ \A k \in 1..Len(s) : s[k] = log[place[k]]
          /\ \A i \in Rows(since) : \E k \in 1..Len(s) : place[k] = i
  BY <1>1, PickIs
<1> HIDE DEF s
<1>4. Ends(s) <=> \E k \in 1..Len(s) : IsFinal(s[k].ev)
  BY <1>2 DEF Ends, ToSet
<1> QED BY <1>3, <1>4 DEF s

\* When the answer lies ahead, the replay ends with it and shows no failure.
LEMMA AnswerReplayed ==
    ASSUME Base, NEW since, Logged("completed"),
           \A i \in 1..Len(log) : log[i].ev = Terminal("completed") => log[i].id > since
    PROVE  LET s == Pick(log, Rows(since)) IN
           Ends(s) /\ \A k \in 1..Len(s) : s[k].ev.kind # "failed"
<1> DEFINE s == Pick(log, Rows(since))
<1>0. log \in Seq(Message) /\ Rows(since) \in SUBSET (1..Len(log))
  BY RowsAre DEF Base, TypeOK
<1>1. PICK t \in 1..Len(log) : log[t].ev = Terminal("completed")
  BY DEF Logged
<1>2. log[t].id > since /\ log[t].ev.kind = "completed"
  BY <1>1, Basics
<1>3. /\ t \in Retained(since)
      /\ \A i \in Retained(since) : log[i].ev.kind # "failed"
  BY <1>1, <1>2 DEF Retained
<1>4. IsFinal(log[t].ev)
  BY <1>2 DEF IsFinal
<1>5. Ends(s)
  BY <1>3, <1>4, RowsEnd, ReplayEnds
<1>6. Rows(since) \subseteq Retained(since)
  BY DEF Rows, UpToFinal
<1>7. PICK place \in [1..Len(s) -> Rows(since)] : \A k \in 1..Len(s) : s[k] = log[place[k]]
  BY <1>0, PickIs
<1> HIDE DEF s
<1>8. \A k \in 1..Len(s) : s[k].ev.kind # "failed"
  BY <1>3, <1>6, <1>7
<1> QED BY <1>5, <1>8 DEF s

\* A step keeps a late client with the replay.
LEMMA SettledNext ==
    ASSUME Base, Base', Settled, [Next]_vars
    PROVE  Settled'
<1> SUFFICES ASSUME NEW x \in Followers, f'[x].late
             PROVE  /\ Logged("completed")'
                    /\ ~dropped' /\ AnswerAhead(x)' =>
                          /\ f'[x].pc \in {"replay", "ended"}
                          /\ \A i \in 1..Len(f'[x].got) : f'[x].got[i].ev.kind # "failed"
  BY DEF Settled
<1>0. /\ Len(log) \in Nat /\ Len(log') \in Nat /\ Len(log) <= Len(log')
      /\ \A i \in 1..Len(log) : i \in 1..Len(log') /\ log'[i] = log[i]
      /\ dropped => dropped'
  BY LogGrows
<1>1. Logged("completed") => Logged("completed")'
  BY <1>0 DEF Logged
<1>2. ASSUME f'[x].since = f[x].since, AnswerAhead(x)' PROVE AnswerAhead(x)
  BY <1>0, <1>2 DEF AnswerAhead
<1>3. CASE f'[x] = f[x]
  BY <1>0, <1>1, <1>2, <1>3 DEF Settled
<1>s. Sound(f[x], Len(log)) /\ Sound(f'[x], Len(log'))
  BY DEF Base, Connections, Sound, Within, Rising
<1>4. ASSUME NEW w \in Writers, Publish(w),
             f'[x] = Hear(f[x], [id |-> writer[w].id, ev |-> writer[w].ev])
      PROVE  /\ f[x].late /\ f'[x].since = f[x].since
             /\ f[x].pc = "replay" => f'[x].pc = "replay"
             /\ f[x].pc = "ended" => f'[x] = f[x]
  <2> DEFINE m == [id |-> writer[w].id, ev |-> writer[w].ev]
  <2>1. m \in Message /\ m.id <= Len(log)
    BY DEF Base, TypeOK, Numbered, Message, Writer
  <2> HIDE DEF m
  <2>2. f'[x] = Hear(f[x], m)
    BY <1>4 DEF m
  <2>3. LET q == Hear(f[x], m) IN
        /\ q.since = f[x].since /\ q.late = f[x].late
        /\ f[x].pc = "replay" => q.pc = "replay"
        /\ f[x].pc \notin {"live", "replay"} => q = f[x]
    <3> HIDE DEF Base
    <3>1. Len(log) \in Nat /\ Sound(f[x], Len(log))
      BY <1>0, <1>s
    <3> QED BY <2>1, <3>1, HearIs
  <2> QED BY <2>2, <2>3
<1>5. CASE \E w \in Writers : Publish(w)
                  /\ f'[x] = Hear(f[x], [id |-> writer[w].id, ev |-> writer[w].ev])
  <2>1. /\ f[x].late /\ f'[x].since = f[x].since
        /\ f[x].pc = "replay" => f'[x].pc = "replay"
        /\ f[x].pc = "ended" => f'[x] = f[x]
    BY <1>4, <1>5
  <2>2. f'[x].pc = "replay" => f'[x].got = << >>
    BY <1>s DEF Sound
  <2>3. Logged("completed")'
    BY <1>1, <2>1 DEF Settled
  <2>4. ASSUME ~dropped', AnswerAhead(x)'
        PROVE  /\ f'[x].pc \in {"replay", "ended"}
               /\ \A i \in 1..Len(f'[x].got) : f'[x].got[i].ev.kind # "failed"
    <3>1. /\ f[x].pc \in {"replay", "ended"}
          /\ \A i \in 1..Len(f[x].got) : f[x].got[i].ev.kind # "failed"
      BY <1>0, <1>2, <2>1, <2>4 DEF Settled
    <3> QED BY <2>1, <2>2, <3>1
  <2> QED BY <2>3, <2>4
<1>6. CASE Connect(x)
  <2>1. f'[x].late = Logged("completed") /\ f'[x].pc = "replay" /\ f'[x].got = << >>
    BY <1>6, ConnectIs
  <2> QED BY <1>1, <2>1
<1>7. CASE Replay(x)
  <2> DEFINE s == Pick(log, Rows(f[x].since))
             q == Sent(f[x], s, "live")
  <2>1. f[x].late /\ f'[x].since = f[x].since
    BY <1>7, ReplayStep
  <2>2. Logged("completed")'
    BY <1>1, <2>1 DEF Settled
  <2>3. ASSUME ~dropped', AnswerAhead(x)'
        PROVE  /\ f'[x].pc \in {"replay", "ended"}
               /\ \A i \in 1..Len(f'[x].got) : f'[x].got[i].ev.kind # "failed"
    <3>1. AnswerAhead(x) /\ Logged("completed")
      BY <1>2, <2>1, <2>3 DEF Settled
    <3>2. Ends(s) /\ \A k \in 1..Len(s) : s[k].ev.kind # "failed"
      BY <3>1, AnswerReplayed DEF AnswerAhead
    <3>3. f'[x] = Live(q) /\ Underway(q, Len(log)) /\ q.got = s
          /\ q.pc = IF Ends(s) THEN "ended" ELSE "live"
      BY <1>7, <2>3, ReplayStep
    <3> HIDE DEF q, s
    <3>4. Live(q).pc = "ended" /\ Live(q).got = s
      BY <1>0, <3>2, <3>3, LiveIs
    <3> QED BY <3>2, <3>3, <3>4
  <2> QED BY <2>2, <2>3
<1>8. CASE ReplayCut(x) \/ Cut(x)
  BY <1>8, CutIs
<1> QED BY <1>3, <1>5, <1>6, <1>7, <1>8, Moves

\* The real outcome: a client that comes after the answer was logged, ahead of
\* its own position, is never told that the turn failed, whatever the watchdog
\* published before (stream_service.py:111-142).
THEOREM OutcomeIsReal == Spec => []RealOutcome
<1>1. Init => Settled
  BY DEF Init, Settled, Off
<1>2. Base /\ Busy /\ Settled /\ [Next]_vars => Settled'
  BY BaseNext, SettledNext
<1>3. Settled => RealOutcome
  BY DEF Settled, RealOutcome, AnswerAhead
<1> QED BY <1>1, <1>2, <1>3, BaseInvariant, PTL DEF Spec
-----------------------------------------------------------------------------
(* The chunks, from the partition to the log. *)

\* What was published stays published while the log only grows and no entry
\* becomes pending again.
LEMMA PublishedStays ==
    ASSUME Base, Len(log') \in Nat, Len(log) <= Len(log'),
           \A i \in 1..Len(log) : log'[i] = log[i],
           \A p \in 1..Len(log) : Pending(p)' => Pending(p),
           NEW n, Published(n)
    PROVE  Published(n)'
<1>1. PICK p \in 1..Len(log) : log[p].ev = Chunk(n) /\ ~Pending(p)
  BY DEF Published
<1>2. Len(log) \in Nat
  BY DEF Base, TypeOK
<1>3. p \in 1..Len(log') /\ log'[p].ev = Chunk(n) /\ ~Pending(p)'
  BY <1>1, <1>2
<1> QED BY <1>3 DEF Published, Chunk

\* XADD of the event in hand.
LEMMA XaddOrderly ==
    ASSUME Base, Busy, InHand, Covered, NEW w \in Writers, Xadd(w), ~dropped'
    PROVE  InHand' /\ Covered'
<1> DEFINE N == Len(log)
           e == [id |-> NextId, ev |-> writer[w].ev]
<1>0. /\ N \in Nat /\ NextId = N + 1 /\ log \in Seq(Message)
      /\ writer \in [Writers -> Writer] /\ committed \in Nat /\ chunkOwner \in Handlers
      /\ \A h \in Handlers : h \in Writers
      /\ \A v \in Writers : v \in Handlers \/ v \in Enders
  BY NextIdIs, Basics DEF Base, TypeOK, Writers
<1>1. /\ writer[w].pc = "append" /\ log' = Append(log, e)
      /\ writer' = [writer EXCEPT ![w].pc = "publish", ![w].id = NextId]
      /\ UNCHANGED chunkVars
  BY DEF Xadd
<1>2. e \in Message /\ e.ev = writer[w].ev
  BY <1>0 DEF Message, Writer
<1>3. /\ Len(log') = N + 1 /\ log'[N + 1] = e
      /\ \A i \in 1..N : log'[i] = log[i]
  BY <1>0, <1>1, <1>2
<1>4. /\ \A v \in Writers : v # w => writer'[v] = writer[v]
      /\ writer'[w].pc = "publish" /\ writer'[w].id = N + 1 /\ writer'[w].ev = writer[w].ev
  BY <1>0, <1>1 DEF Writer
<1> HIDE DEF e
<1>5. ASSUME NEW p \in 1..N PROVE Pending(p)' => Pending(p)
  BY <1>0, <1>4 DEF Pending
<1>6. ASSUME NEW n, Published(n) PROVE Published(n)'
  <2>1. Len(log') \in Nat /\ Len(log) <= Len(log')
    BY <1>0, <1>3
  <2> QED BY <1>3, <1>5, <1>6, <2>1, PublishedStays
<1>7. chunkOwner' = chunkOwner /\ next' = next /\ committed' = committed /\ inbox' = inbox
  BY <1>1 DEF chunkVars
<1>8. InHand'
  <2>1. ASSUME NEW h \in Handlers, writer'[h].pc # "idle"
        PROVE  writer'[h].ev.n <= committed' + 1
    <3>1. CASE h = w
      BY <1>0, <1>1, <1>4, <1>7, <3>1 DEF InHand
    <3>2. CASE h # w
      BY <1>0, <1>4, <1>7, <2>1, <3>2 DEF InHand
    <3> QED BY <3>1, <3>2
  <2>2. ASSUME NEW v \in Writers, writer'[v].pc = "publish"
        PROVE  /\ writer'[v].id \in 1..Len(log')
               /\ log'[writer'[v].id].ev = writer'[v].ev
               /\ v # w => writer'[v].id # N + 1
    <3>1. CASE v = w
      BY <1>0, <1>2, <1>3, <1>4, <3>1
    <3>2. CASE v # w
      <4>1. writer'[v] = writer[v] /\ writer[v].pc = "publish"
        BY <1>4, <2>2, <3>2
      <4>2. writer[v].id \in 1..N /\ log[writer[v].id].ev = writer[v].ev
        BY <4>1 DEF InHand
      <4> QED BY <1>0, <1>3, <4>1, <4>2
    <3> QED BY <3>1, <3>2
  <2>3. ASSUME NEW v \in Writers, NEW u \in Writers,
               writer'[v].pc = "publish", writer'[u].pc = "publish", writer'[v].id = writer'[u].id
        PROVE  v = u
    <3>1. CASE v = w \/ u = w
      BY <1>4, <2>2, <2>3, <3>1
    <3>2. CASE v # w /\ u # w
      BY <1>4, <2>3, <3>2 DEF InHand
    <3> QED BY <3>1, <3>2
  <2>4. /\ writer'[chunkOwner].pc = "idle" <=> writer[chunkOwner].pc = "idle"
        /\ writer'[chunkOwner].ev = writer[chunkOwner].ev
    BY <1>0, <1>1, <1>4
  <2>5. /\ writer'[chunkOwner'].pc = "idle" => next' = committed' + 1
        /\ writer'[chunkOwner'].pc # "idle" =>
              next' = committed' + 2 /\ writer'[chunkOwner'].ev.n = committed' + 1
    BY <1>7, <2>4 DEF InHand
  <2> QED BY <2>1, <2>2, <2>3, <2>5 DEF InHand
<1>9. Covered'
  <2>1. \A n \in 1..committed' : Published(n)'
    BY <1>6, <1>7 DEF Covered
  <2>2. \A n \in inbox' : Published(n)'
    BY <1>6, <1>7 DEF Covered
  <2>3. ASSUME NEW h \in Handlers, writer'[h].pc = "save" PROVE Published(writer[h].ev.n)'
    <3>1. h # w /\ writer'[h] = writer[h]
      BY <1>0, <1>4, <2>3
    <3>2. PICK n : n = writer[h].ev.n
      OBVIOUS
    <3>3. Published(n)
      BY <2>3, <3>1, <3>2 DEF Covered
    <3>4. Published(n)'
      BY <1>6, <3>3
    <3>5. writer'[h].ev.n = n
      BY <3>1, <3>2
    <3> QED BY <3>4, <3>5 DEF Published
  <2>4. ASSUME NEW p \in 1..Len(log'), NEW n \in 1..(log'[p].ev.n - 1)
        PROVE  \E q \in 1..(p - 1) : log'[q].ev = Chunk(n)
    <3>1. CASE p \in 1..N
      BY <1>0, <1>3, <2>4, <3>1, SMTT(60) DEF Covered
    <3>2. CASE p = N + 1
      <4>1. n \in 1..(writer[w].ev.n - 1)
        BY <1>2, <1>3, <2>4, <3>2
      <4>2. writer[w].ev.n \in Nat
        BY <1>0 DEF Writer, Events
      <4>3. w \in Handlers
        BY <1>0, <4>1 DEF Busy
      <4>4. writer[w].ev.n <= committed + 1
        BY <1>1, <4>3 DEF InHand
      <4>5. n \in 1..committed
        BY <1>0, <4>1, <4>2, <4>4
      <4>6. PICK q \in 1..N : log[q].ev = Chunk(n)
        BY <4>5 DEF Covered, Published
      <4> QED BY <1>0, <1>3, <3>2, <4>6
    <3> QED BY <1>0, <1>3, <3>1, <3>2
  <2> QED BY <2>1, <2>2, <2>3, <2>4 DEF Covered
<1> QED BY <1>8, <1>9
\* PUBLISH: the entry is pending no more.
LEMMA PublishOrderly ==
    ASSUME Base, Busy, InHand, Covered, NEW w \in Writers, Publish(w), ~dropped'
    PROVE  InHand' /\ Covered'
<1> DEFINE N == Len(log)
<1>0. /\ N \in Nat
      /\ writer \in [Writers -> Writer] /\ committed \in Nat /\ chunkOwner \in Handlers
      /\ \A h \in Handlers : h \in Writers
  BY Basics DEF Base, TypeOK
<1>1. /\ writer[w].pc = "publish" /\ log' = log
      /\ writer' = [writer EXCEPT ![w].pc = AfterPublish(w), ![w].id = 0]
      /\ UNCHANGED chunkVars
  BY DEF Publish
<1>2. /\ \A v \in Writers : v # w => writer'[v] = writer[v]
      /\ writer'[w].pc = AfterPublish(w) /\ writer'[w].ev = writer[w].ev
  BY <1>0, <1>1 DEF Writer
<1>3. AfterPublish(w) \in {"save", "done"} /\ (w \in Handlers => AfterPublish(w) = "save")
  BY DEF AfterPublish
<1>4. ASSUME NEW p \in 1..N PROVE Pending(p)' => Pending(p) /\ p # writer[w].id
  <2> SUFFICES ASSUME NEW v \in Writers, writer'[v].pc = "publish", writer'[v].id = p
               PROVE  Pending(p) /\ p # writer[w].id
    BY DEF Pending
  <2>1. v # w /\ writer'[v] = writer[v]
    BY <1>2, <1>3
  <2>2. Pending(p)
    BY <2>1 DEF Pending
  <2>3. writer[v].id # writer[w].id
    BY <1>1, <2>1 DEF InHand
  <2> QED BY <2>1, <2>2, <2>3
<1>5. ASSUME NEW n, Published(n) PROVE Published(n)'
  <2>1. Len(log') \in Nat /\ Len(log) <= Len(log') /\ \A i \in 1..Len(log) : log'[i] = log[i]
    BY <1>0, <1>1
  <2> QED BY <1>4, <1>5, <2>1, PublishedStays
<1>6. chunkOwner' = chunkOwner /\ next' = next /\ committed' = committed /\ inbox' = inbox
  BY <1>1 DEF chunkVars
<1>7. InHand'
  <2>1. ASSUME NEW h \in Handlers, writer'[h].pc # "idle"
        PROVE  writer'[h].ev.n <= committed' + 1
    <3>1. writer[h].pc # "idle" /\ writer'[h].ev = writer[h].ev
      BY <1>0, <1>1, <1>2, <2>1
    <3> QED BY <1>6, <3>1 DEF InHand
  <2>2. ASSUME NEW v \in Writers, writer'[v].pc = "publish"
        PROVE  v # w /\ writer'[v] = writer[v]
    BY <1>2, <1>3, <2>2
  <2>3. \A v \in Writers : writer'[v].pc = "publish" =>
            /\ writer'[v].id \in 1..Len(log')
            /\ log'[writer'[v].id].ev = writer'[v].ev
            /\ \A u \in Writers : writer'[u].pc = "publish" /\ writer'[u].id = writer'[v].id => u = v
    <3>1. log' = log
      BY <1>1
    <3>2. ASSUME NEW v \in Writers, writer'[v].pc = "publish"
          PROVE  writer'[v].id \in 1..Len(log') /\ log'[writer'[v].id].ev = writer'[v].ev
      BY <2>2, <3>1, <3>2 DEF InHand
    <3>3. ASSUME NEW v \in Writers, NEW u \in Writers, writer'[v].pc = "publish",
                 writer'[u].pc = "publish", writer'[u].id = writer'[v].id
          PROVE  u = v
      BY <2>2, <3>3 DEF InHand
    <3> QED BY <3>2, <3>3
  <2>4. /\ writer'[chunkOwner].pc = "idle" <=> writer[chunkOwner].pc = "idle"
        /\ writer'[chunkOwner].ev = writer[chunkOwner].ev
    BY <1>0, <1>1, <1>2, <1>3
  <2>5. /\ writer'[chunkOwner'].pc = "idle" => next' = committed' + 1
        /\ writer'[chunkOwner'].pc # "idle" =>
              next' = committed' + 2 /\ writer'[chunkOwner'].ev.n = committed' + 1
    BY <1>6, <2>4 DEF InHand
  <2> QED BY <2>1, <2>3, <2>5 DEF InHand
<1>8. Covered'
  <2>1. \A n \in 1..committed' : Published(n)'
    BY <1>5, <1>6 DEF Covered
  <2>2. \A n \in inbox' : Published(n)'
    BY <1>5, <1>6 DEF Covered
  <2>3. ASSUME NEW h \in Handlers, writer'[h].pc = "save" PROVE Published(writer[h].ev.n)'
    <3>1. PICK n : n = writer[h].ev.n
      OBVIOUS
    <3>2. writer'[h].ev.n = n
      BY <1>0, <1>2, <3>1
    <3>3. Published(n)'
      <4>1. CASE h = w
        <5>1. writer[w].id \in 1..N /\ log[writer[w].id].ev = Chunk(n)
          BY <1>1, <3>1, <4>1 DEF InHand, Busy
        <5>2. PICK p \in 1..N : p = writer[w].id
          BY <5>1
        <5>3. ~Pending(p)' /\ log'[p].ev = Chunk(n) /\ p \in 1..Len(log')
          BY <1>1, <1>4, <5>1, <5>2
        <5> QED BY <5>3 DEF Published, Chunk
      <4>2. CASE h # w
        <5>1. writer[h].pc = "save"
          BY <1>0, <1>2, <2>3, <4>2
        <5>2. Published(n)
          BY <3>1, <5>1 DEF Covered
        <5> QED BY <1>5, <5>2
      <4> QED BY <4>1, <4>2
    <3> QED BY <3>2, <3>3 DEF Published
  <2>4. \A p \in 1..Len(log') : \A n \in 1..(log'[p].ev.n - 1) :
            \E q \in 1..(p - 1) : log'[q].ev = Chunk(n)
    BY <1>1 DEF Covered
  <2> QED BY <2>1, <2>2, <2>3, <2>4 DEF Covered
<1> QED BY <1>7, <1>8

\* A step that publishes nothing leaves the pending entries as they are.
LEMMA PendingSame ==
    ASSUME Base, UNCHANGED log,
           \A v \in Writers : /\ writer[v].pc # "publish" => writer'[v].pc # "publish"
                              /\ writer[v].pc = "publish" => writer'[v] = writer[v]
    PROVE  /\ \A p \in 1..Len(log) : Pending(p)' => Pending(p)
           /\ \A n : Published(n) => Published(n)'
           /\ InHand => \A v \in Writers : writer'[v].pc = "publish" =>
                /\ writer'[v].id \in 1..Len(log')
                /\ log'[writer'[v].id].ev = writer'[v].ev
                /\ \A u \in Writers : writer'[u].pc = "publish" /\ writer'[u].id = writer'[v].id => u = v
           /\ Covered => \A p \in 1..Len(log') : \A n \in 1..(log'[p].ev.n - 1) :
                  \E q \in 1..(p - 1) : log'[q].ev = Chunk(n)
<1>1. \A p \in 1..Len(log) : Pending(p)' => Pending(p)
  BY DEF Pending
<1>2. ASSUME NEW n, Published(n) PROVE Published(n)'
  <2>1. Len(log') \in Nat /\ Len(log) <= Len(log') /\ \A i \in 1..Len(log) : log'[i] = log[i]
    BY DEF Base, TypeOK
  <2> QED BY <1>1, <1>2, <2>1, PublishedStays
<1>3. InHand => \A v \in Writers : writer'[v].pc = "publish" =>
                /\ writer'[v].id \in 1..Len(log')
                /\ log'[writer'[v].id].ev = writer'[v].ev
                /\ \A u \in Writers : writer'[u].pc = "publish" /\ writer'[u].id = writer'[v].id => u = v
  BY DEF InHand
<1>4. Covered => \A p \in 1..Len(log') : \A n \in 1..(log'[p].ev.n - 1) :
                  \E q \in 1..(p - 1) : log'[q].ev = Chunk(n)
  BY DEF Covered
<1> QED BY <1>1, <1>2, <1>3, <1>4

\* The partition's next chunk: one that is marked as handled is skipped.
LEMMA DeliverOrderly ==
    ASSUME Base, Busy, InHand, Covered, NEW h \in Handlers, Deliver(h)
    PROVE  InHand' /\ Covered'
<1>0. /\ writer \in [Writers -> Writer] /\ committed \in Nat /\ next \in Nat
      /\ \A g \in Handlers : g \in Writers
  BY Basics, BoundsAssumption DEF Base, TypeOK
<1>1. /\ h = chunkOwner /\ writer[h].pc = "idle" /\ next' = next + 1 /\ next = committed + 1
      /\ UNCHANGED <<log, chunkOwner, inbox>>
  BY DEF Deliver, InHand
<1>2. CASE next \in inbox
  <2>1. committed' = next /\ writer' = writer
    BY <1>2 DEF Deliver
  <2>2. \A n : Published(n) => Published(n)'
    BY <1>1, <2>1, PendingSame
  <2>3. \A v \in Writers : writer'[v].pc = "publish" =>
            /\ writer'[v].id \in 1..Len(log')
            /\ log'[writer'[v].id].ev = writer'[v].ev
            /\ \A u \in Writers : writer'[u].pc = "publish" /\ writer'[u].id = writer'[v].id => u = v
    BY <1>1, <2>1, PendingSame
  <2>4. ASSUME NEW g \in Handlers, writer'[g].pc # "idle" PROVE writer'[g].ev.n <= committed' + 1
    <3>1. writer[g].ev.n \in Nat /\ writer[g].ev.n <= committed + 1
      BY <1>0, <2>1, <2>4 DEF InHand, Writer, Events
    <3> QED BY <1>0, <1>1, <2>1, <3>1
  <2>5. InHand'
    BY <1>0, <1>1, <2>1, <2>3, <2>4 DEF InHand
  <2>6. \A n \in 1..committed' : Published(n)'
    <3> SUFFICES ASSUME NEW n \in 1..committed' PROVE Published(n)
      BY <2>2
    <3>1. n \in 1..committed \/ n = next
      BY <1>0, <1>1, <2>1
    <3> QED BY <1>2, <3>1 DEF Covered
  <2>7. \A p \in 1..Len(log') : \A n \in 1..(log'[p].ev.n - 1) :
            \E q \in 1..(p - 1) : log'[q].ev = Chunk(n)
    BY <1>1 DEF Covered
  <2>8. ASSUME NEW g \in Handlers, writer'[g].pc = "save" PROVE Published(writer[g].ev.n)'
    <3>1. PICK n : n = writer[g].ev.n
      OBVIOUS
    <3>2. Published(n)' /\ writer'[g].ev.n = n
      BY <2>1, <2>2, <2>8, <3>1 DEF Covered
    <3> QED BY <3>2 DEF Published
  <2>9. \A n \in inbox' : Published(n)'
    BY <1>1, <2>2 DEF Covered
  <2> QED BY <2>5, <2>6, <2>7, <2>8, <2>9 DEF Covered
<1>3. CASE next \notin inbox
  <2>1. /\ writer' = [writer EXCEPT ![h] = [pc |-> "append", ev |-> Chunk(next), id |-> 0]]
        /\ committed' = committed
    BY <1>3 DEF Deliver
  <2>2. /\ \A v \in Writers : v # h => writer'[v] = writer[v]
        /\ writer'[h].pc = "append" /\ writer'[h].ev.n = next
    BY <1>0, <2>1 DEF Chunk
  <2>3. \A n : Published(n) => Published(n)'
    BY <1>0, <1>1, <2>2, PendingSame
  <2>4. \A v \in Writers : writer'[v].pc = "publish" =>
            /\ writer'[v].id \in 1..Len(log')
            /\ log'[writer'[v].id].ev = writer'[v].ev
            /\ \A u \in Writers : writer'[u].pc = "publish" /\ writer'[u].id = writer'[v].id => u = v
    BY <1>0, <1>1, <2>2, PendingSame
  <2>5. ASSUME NEW g \in Handlers, writer'[g].pc # "idle" PROVE writer'[g].ev.n <= committed' + 1
    BY <1>0, <1>1, <2>1, <2>2, <2>5 DEF InHand
  <2>6. InHand'
    <3>1. chunkOwner' = h /\ next' = committed' + 2 /\ writer'[h].ev.n = committed' + 1
      BY <1>0, <1>1, <2>1, <2>2
    <3> QED BY <2>2, <2>4, <2>5, <3>1 DEF InHand
  <2>7. \A n \in 1..committed' : Published(n)'
    BY <2>1, <2>3 DEF Covered
  <2>8. \A p \in 1..Len(log') : \A n \in 1..(log'[p].ev.n - 1) :
            \E q \in 1..(p - 1) : log'[q].ev = Chunk(n)
    BY <1>1 DEF Covered
  <2>9. ASSUME NEW g \in Handlers, writer'[g].pc = "save" PROVE Published(writer[g].ev.n)'
    <3>1. PICK n : n = writer[g].ev.n
      OBVIOUS
    <3>2. g # h /\ writer'[g] = writer[g]
      BY <1>0, <2>2, <2>9
    <3>3. Published(n)' /\ writer'[g].ev.n = n
      BY <2>3, <2>9, <3>1, <3>2 DEF Covered
    <3> QED BY <3>3 DEF Published
  <2>10. \A n \in inbox' : Published(n)'
    BY <1>1, <2>3 DEF Covered
  <2> QED BY <2>6, <2>7, <2>8, <2>9, <2>10 DEF Covered
<1> QED BY <1>2, <1>3
\* Marking a chunk as handled, and committing it if the partition is still ours.
LEMMA SaveOrderly ==
    ASSUME Base, Busy, InHand, Covered, NEW h \in Handlers, SaveInbox(h)
    PROVE  InHand' /\ Covered'
<1>0. /\ writer \in [Writers -> Writer] /\ committed \in Nat /\ next \in Nat
      /\ chunkOwner \in Handlers /\ \A g \in Handlers : g \in Writers
  BY Basics, BoundsAssumption DEF Base, TypeOK
<1>1. /\ writer[h].pc = "save" /\ inbox' = inbox \cup {writer[h].ev.n}
      /\ committed' = IF h = chunkOwner THEN writer[h].ev.n ELSE committed
      /\ writer' = [writer EXCEPT ![h] = Quiet]
      /\ UNCHANGED <<log, chunkOwner, next>>
  BY DEF SaveInbox
<1>2. /\ \A v \in Writers : v # h => writer'[v] = writer[v]
      /\ writer'[h].pc = "idle"
  BY <1>0, <1>1, Basics
<1>3. \A n : Published(n) => Published(n)'
  BY <1>0, <1>1, <1>2, PendingSame
<1>4. \A v \in Writers : writer'[v].pc = "publish" =>
            /\ writer'[v].id \in 1..Len(log')
            /\ log'[writer'[v].id].ev = writer'[v].ev
            /\ \A u \in Writers : writer'[u].pc = "publish" /\ writer'[u].id = writer'[v].id => u = v
  BY <1>0, <1>1, <1>2, PendingSame
<1>5. PICK m : m = writer[h].ev.n
  OBVIOUS
<1>6. Published(m)
  BY <1>1, <1>5 DEF Covered
<1>7. h = chunkOwner => m = committed + 1 /\ next = committed + 2
  BY <1>1, <1>5 DEF InHand
<1>8. /\ h = chunkOwner => committed' = committed + 1
      /\ h # chunkOwner => committed' = committed
  BY <1>1, <1>5, <1>7
<1>9. InHand'
  <2>1. ASSUME NEW g \in Handlers, writer'[g].pc # "idle" PROVE writer'[g].ev.n <= committed' + 1
    <3>1. g # h /\ writer'[g] = writer[g]
      BY <1>0, <1>2, <2>1
    <3>2. writer[g].ev.n \in Nat /\ writer[g].ev.n <= committed + 1
      BY <1>0, <2>1, <3>1 DEF InHand, Writer, Events
    <3> QED BY <1>0, <1>8, <3>1, <3>2
  <2>2. CASE h = chunkOwner
    <3>1. next' = committed' + 1 /\ writer'[chunkOwner'].pc = "idle"
      BY <1>0, <1>1, <1>2, <1>7, <1>8, <2>2
    <3> QED BY <1>4, <2>1, <3>1 DEF InHand
  <2>3. CASE h # chunkOwner
    <3>1. writer'[chunkOwner] = writer[chunkOwner] /\ chunkOwner' = chunkOwner
          /\ next' = next /\ committed' = committed
      BY <1>0, <1>1, <1>2, <1>8, <2>3
    <3>2. /\ writer'[chunkOwner'].pc = "idle" => next' = committed' + 1
          /\ writer'[chunkOwner'].pc # "idle" =>
                next' = committed' + 2 /\ writer'[chunkOwner'].ev.n = committed' + 1
      BY <3>1 DEF InHand
    <3> QED BY <1>4, <2>1, <3>2 DEF InHand
  <2> QED BY <2>2, <2>3
<1>10. Covered'
  <2>1. \A n \in 1..committed' : Published(n)'
    <3> SUFFICES ASSUME NEW n \in 1..committed' PROVE Published(n)
      BY <1>3
    <3>1. n \in 1..committed \/ n = m
      BY <1>0, <1>7, <1>8
    <3> QED BY <1>6, <3>1 DEF Covered
  <2>2. \A n \in inbox' : Published(n)'
    BY <1>1, <1>3, <1>5, <1>6 DEF Covered
  <2>3. ASSUME NEW g \in Handlers, writer'[g].pc = "save" PROVE Published(writer[g].ev.n)'
    <3>1. PICK n : n = writer[g].ev.n
      OBVIOUS
    <3>2. g # h /\ writer'[g] = writer[g]
      BY <1>0, <1>2, <2>3
    <3>3. Published(n)' /\ writer'[g].ev.n = n
      BY <1>3, <2>3, <3>1, <3>2 DEF Covered
    <3> QED BY <3>3 DEF Published
  <2>4. \A p \in 1..Len(log') : \A n \in 1..(log'[p].ev.n - 1) :
            \E q \in 1..(p - 1) : log'[q].ev = Chunk(n)
    BY <1>1 DEF Covered
  <2> QED BY <2>1, <2>2, <2>3, <2>4 DEF Covered
<1> QED BY <1>9, <1>10

\* A step that only moves the partition, a terminal event or a connection.
LEMMA IdleOrderly ==
    ASSUME Base, Busy, InHand, Covered,
           \/ UNCHANGED <<log, writer, chunkVars>>
           \/ \E w \in Writers : End(w)
           \/ \E h \in Handlers : Rebalance(h)
    PROVE  InHand' /\ Covered'
<1>0. /\ writer \in [Writers -> Writer] /\ committed \in Nat /\ next \in Nat
      /\ chunkOwner \in Handlers /\ \A g \in Handlers : g \in Writers /\ g \notin Enders
  BY Basics, BoundsAssumption DEF Base, TypeOK
<1>1. /\ UNCHANGED <<log, committed, inbox>>
      /\ \A g \in Handlers : writer'[g] = writer[g]
      /\ \A v \in Writers : /\ writer[v].pc # "publish" => writer'[v].pc # "publish"
                            /\ writer[v].pc = "publish" => writer'[v] = writer[v]
  <2>1. CASE UNCHANGED <<log, writer, chunkVars>>
    BY <2>1 DEF chunkVars
  <2>2. ASSUME NEW w \in Writers, End(w)
        PROVE  /\ UNCHANGED <<log, committed, inbox>>
               /\ \A v \in Writers : v # w => writer'[v] = writer[v]
               /\ writer[w].pc = "idle" /\ writer'[w].pc = "append" /\ w \in Enders
    <3>1. PICK k \in Endings(w) : writer' = [writer EXCEPT ![w].pc = "append", ![w].ev = Terminal(k)]
      BY <2>2 DEF End
    <3> QED BY <1>0, <2>2, <3>1 DEF End, Writer, chunkVars
  <2>3. ASSUME NEW h \in Handlers, Rebalance(h) PROVE UNCHANGED <<log, writer, committed, inbox>>
    BY <2>3 DEF Rebalance
  <2>4. ASSUME NEW w \in Writers, End(w)
        PROVE  /\ UNCHANGED <<log, committed, inbox>>
               /\ \A g \in Handlers : writer'[g] = writer[g]
               /\ \A v \in Writers : /\ writer[v].pc # "publish" => writer'[v].pc # "publish"
                                     /\ writer[v].pc = "publish" => writer'[v] = writer[v]
    BY <1>0, <2>2, <2>4
  <2> QED BY <2>1, <2>3, <2>4
<1>2. \A n : Published(n) => Published(n)'
  BY <1>1, PendingSame
<1>3. \A v \in Writers : writer'[v].pc = "publish" =>
            /\ writer'[v].id \in 1..Len(log')
            /\ log'[writer'[v].id].ev = writer'[v].ev
            /\ \A u \in Writers : writer'[u].pc = "publish" /\ writer'[u].id = writer'[v].id => u = v
  BY <1>1, PendingSame
<1>4. /\ chunkOwner' \in Handlers
      /\ writer'[chunkOwner'].pc = "idle" => next' = committed' + 1
      /\ writer'[chunkOwner'].pc # "idle" =>
            next' = committed' + 2 /\ writer'[chunkOwner'].ev.n = committed' + 1
  <2>1. CASE UNCHANGED <<chunkOwner, next>>
    BY <1>0, <1>1, <2>1 DEF InHand
  <2>2. ASSUME NEW h \in Handlers, Rebalance(h)
        PROVE  chunkOwner' = h /\ writer'[h].pc = "idle" /\ next' = committed' + 1
    BY <1>1, <2>2 DEF Rebalance
  <2>3. (\E h \in Handlers : Rebalance(h)) \/ UNCHANGED <<chunkOwner, next>>
    BY DEF End, chunkVars
  <2> QED BY <2>1, <2>2, <2>3
<1>5. InHand'
  <2>1. \A g \in Handlers : writer'[g].pc # "idle" => writer'[g].ev.n <= committed' + 1
    BY <1>1 DEF InHand
  <2> QED BY <1>3, <1>4, <2>1 DEF InHand
<1>6. Covered'
  <2>1. /\ \A n \in 1..committed' : Published(n)'
        /\ \A n \in inbox' : Published(n)'
    BY <1>1, <1>2 DEF Covered
  <2>2. ASSUME NEW g \in Handlers, writer'[g].pc = "save" PROVE Published(writer[g].ev.n)'
    <3>1. PICK n : n = writer[g].ev.n
      OBVIOUS
    <3>2. Published(n)' /\ writer'[g].ev.n = n
      BY <1>1, <1>2, <2>2, <3>1 DEF Covered
    <3> QED BY <3>2 DEF Published
  <2>3. \A p \in 1..Len(log') : \A n \in 1..(log'[p].ev.n - 1) :
            \E q \in 1..(p - 1) : log'[q].ev = Chunk(n)
    BY <1>1 DEF Covered
  <2> QED BY <2>1, <2>2, <2>3 DEF Covered
<1> QED BY <1>5, <1>6

\* Every step keeps the chunks in line until a call fails.
LEMMA OrderlyNext ==
    ASSUME Base, Busy, Orderly, [Next]_vars
    PROVE  Orderly'
<1> SUFFICES ASSUME ~dropped' PROVE InHand' /\ Covered'
  BY DEF Orderly
<1>0. InHand /\ Covered
  BY LogGrows DEF Orderly
<1>1. ASSUME NEW w \in Writers, WriterStep(w) PROVE InHand' /\ Covered'
  BY <1>0, <1>1, XaddOrderly, PublishOrderly, IdleOrderly DEF WriterStep
<1>2. ASSUME NEW h \in Handlers, HandlerStep(h) \/ Rebalance(h) PROVE InHand' /\ Covered'
  BY <1>0, <1>2, DeliverOrderly, SaveOrderly, IdleOrderly DEF HandlerStep
<1>3. ASSUME NEW h \in Handlers, HandlerRaises(h) PROVE FALSE
  BY <1>3 DEF HandlerRaises
<1>4. ASSUME NEW x \in Followers, Connect(x) \/ Replay(x) \/ ReplayCut(x) \/ Cut(x)
      PROVE  UNCHANGED <<log, writer, chunkVars>>
  BY <1>4 DEF Connect, Replay, ReplayCut, Cut
<1>5. CASE UNCHANGED <<log, writer, chunkVars>>
  BY <1>0, <1>5, IdleOrderly
<1> QED BY <1>1, <1>2, <1>3, <1>4, <1>5 DEF Next, vars
-----------------------------------------------------------------------------
(* No hole in what a client is sent. *)

\* The text so far, of one connection.
Whole(s) ==
    \A i \in 1..Len(s) : \A n \in 1..(s[i].ev.n - 1) : \E j \in 1..(i - 1) : s[j].ev = Chunk(n)

\* The list s holds the entries of the log at the positions S, one after the
\* other.
Lists(s, S) ==
    \E place \in [1..Len(s) -> S] :
        /\ \A k \in 1..Len(s) : s[k] = log[place[k]]
        /\ \A k, l \in 1..Len(s) : k < l => place[k] < place[l]
        /\ \A i \in S : \E k \in 1..Len(s) : place[k] = i

\* The rows of a replay are sent one after the other.
LEMMA RowsPicked ==
    ASSUME Base, NEW since
    PROVE  Lists(Pick(log, Rows(since)), Rows(since))
<1>1. PICK S : S = Rows(since)
  OBVIOUS
<1>2. log \in Seq(Message) /\ S \in SUBSET (1..Len(log))
  BY <1>1, RowsAre DEF Base, TypeOK
<1>3. \E place \in [1..Len(Pick(log, S)) -> S] :
                /\ \A k \in 1..Len(Pick(log, S)) : Pick(log, S)[k] = log[place[k]]
                /\ \A k, l \in 1..Len(Pick(log, S)) : k < l => place[k] < place[l]
                /\ \A i \in S : \E k \in 1..Len(Pick(log, S)) : place[k] = i
  BY <1>2, PickIs
<1>4. Lists(Pick(log, S), S)
  BY <1>3 DEF Lists
<1> QED BY <1>1, <1>4

\* From the start of the turn the replay leaves no hole.
LEMMA ReplayWhole ==
    ASSUME Base, Covered
    PROVE  Whole(Pick(log, Rows(0)))
<1> DEFINE s == Pick(log, Rows(0))
<1>0. log \in Seq(Message) /\ Rows(0) \in SUBSET (1..Len(log)) /\ Len(log) \in Nat
  BY RowsAre DEF Base, TypeOK
<1>1. s \in Seq(Message)
  BY <1>0, PickIs
<1>2. PICK place \in [1..Len(s) -> Rows(0)] :
          /\ \A k \in 1..Len(s) : s[k] = log[place[k]]
          /\ \A k, l \in 1..Len(s) : k < l => place[k] < place[l]
          /\ \A i \in Rows(0) : \E k \in 1..Len(s) : place[k] = i
  <2>1. Lists(s, Rows(0))
    BY RowsPicked
  <2> HIDE DEF s
  <2> QED BY <2>1 DEF Lists
<1> HIDE DEF s
<1>3. ASSUME NEW i \in 1..Len(s), NEW n \in 1..(s[i].ev.n - 1)
      PROVE  \E j \in 1..(i - 1) : s[j].ev = Chunk(n)
  <2>1. PICK p \in Rows(0) : p = place[i] /\ s[i] = log[p]
    BY <1>2
  <2>2. p \in 1..Len(log) /\ n \in 1..(log[p].ev.n - 1)
    BY <1>0, <2>1
  <2>3. PICK q \in 1..(p - 1) : log[q].ev = Chunk(n)
    BY <2>2 DEF Covered
  <2>4. q \in 1..Len(log) /\ q < p /\ log[q].id = q /\ q > 0
    BY <1>0, <2>2 DEF Base, Numbered
  <2>5. log[q].ev.kind = "chunk"
    BY <2>3 DEF Chunk
  <2>6. q \in Retained(0)
    BY <2>4, <2>5 DEF Retained
  <2>7. \A j \in Retained(0) : j < q => ~IsFinal(log[j].ev)
    <3> TAKE j \in Retained(0)
    <3>1. j \in Nat
      BY <1>0 DEF Retained
    <3>2. j < q => j < p
      BY <2>2, <2>4, <3>1
    <3> QED BY <2>1, <3>2 DEF Rows, UpToFinal
  <2>8. q \in Rows(0)
    BY <2>6, <2>7 DEF Rows, UpToFinal
  <2>9. PICK k \in 1..Len(s) : place[k] = q
    BY <1>2, <2>8
  <2>10. k < i
    <3>1. k \in Nat /\ i \in Nat
      BY <1>1
    <3>2. ~(i < k)
      BY <1>2, <2>1, <2>2, <2>4, <2>9
    <3>3. k # i
      BY <2>1, <2>2, <2>4, <2>9
    <3> QED BY <3>1, <3>2, <3>3
  <2>11. k \in 1..(i - 1) /\ s[k].ev = Chunk(n)
    BY <1>1, <1>2, <2>3, <2>9, <2>10
  <2> QED BY <2>11
<1>4. Whole(s)
  BY <1>3 DEF Whole
<1> QED BY <1>4 DEF s

\* From the start of the turn a replay that does not end the connection sends
\* the whole log, which has only chunks.
LEMMA ReplayAll ==
    ASSUME Base, ~Ends(Pick(log, Rows(0)))
    PROVE  Rows(0) = 1..Len(log)
<1>1. \A i \in 1..Len(log) : log[i].id > 0
  BY DEF Base, Numbered
<1>2. \A t \in Retained(0) : ~IsFinal(log[t].ev)
  BY RowsEnd, ReplayEnds
<1>3. \A i \in 1..Len(log) : log[i].ev.kind # "completed"
  <2> SUFFICES ASSUME NEW i \in 1..Len(log), log[i].ev.kind = "completed" PROVE FALSE
    OBVIOUS
  <2>1. i \in Retained(0) /\ IsFinal(log[i].ev)
    BY <1>1 DEF Retained, IsFinal
  <2> QED BY <1>2, <2>1
<1>4. Retained(0) = 1..Len(log)
  BY <1>1, <1>3 DEF Retained
<1> QED BY <1>2, <1>4 DEF Rows, UpToFinal

\* What is buffered during such a replay was sent by it.
LEMMA NothingKept ==
    ASSUME NEW r \in Follower, NEW n \in Nat, n <= r.last, Within(r.buf, n),
           \A i \in 1..Len(r.buf) : r.buf[i].id # 0
    PROVE  Kept(r) = {}
<1>1. r.last \in Nat /\ \A i \in 1..Len(r.buf) : r.buf[i] \in Message
  BY DEF Follower
<1>2. \A i \in 1..Len(r.buf) : PassedOver(r.last, r.buf[i])
  BY <1>1 DEF PassedOver, Within, Message
<1> QED BY <1>2 DEF Kept

\* The step of the replay.
LEMMA ReplayCaughtUp ==
    ASSUME Base, Base', Covered, NEW x \in Followers, Replay(x), f[x].since = 0, ~dropped',
           \A i \in 1..Len(f[x].buf) : f[x].buf[i].id # 0
    PROVE  /\ Whole(f'[x].got)
           /\ f'[x].pc = "live" =>
                \A p \in 1..Len(log) : \E j \in 1..Len(f'[x].got) : f'[x].got[j].ev = log[p].ev
<1> DEFINE s == Pick(log, Rows(0))
           q == Sent(f[x], s, "live")
           n == Len(log)
<1>0. log \in Seq(Message) /\ n \in Nat /\ Rows(0) \in SUBSET (1..n)
      /\ \A i \in 1..n : log[i].id = i
  BY RowsAre DEF Base, TypeOK, Numbered
<1>1. /\ f'[x] = Live(q) /\ Underway(q, n) /\ q.got = s /\ q.buf = f[x].buf
      /\ q.pc = IF Ends(s) THEN "ended" ELSE "live"
      /\ \A i \in 1..Len(s) : s[i].id <= q.last
  BY ReplayStep
<1>2. Whole(s)
  BY ReplayWhole
<1>3. CASE Ends(s)
  <2>1. q.pc = "ended"
    BY <1>1, <1>3
  <2> HIDE DEF q, s, n
  <2>2. Live(q).pc = "ended" /\ Live(q).got = q.got
    BY <1>0, <1>1, <2>1, LiveIs
  <2> QED BY <1>1, <1>2, <2>2
<1>4. CASE ~Ends(s)
  <2>1. Rows(0) = 1..n
    BY <1>4, ReplayAll
  <2>2. PICK place \in [1..Len(s) -> Rows(0)] :
            /\ \A k \in 1..Len(s) : s[k] = log[place[k]]
            /\ \A i \in Rows(0) : \E k \in 1..Len(s) : place[k] = i
    <3>1. Lists(s, Rows(0))
      BY RowsPicked
    <3> HIDE DEF s
    <3> QED BY <3>1 DEF Lists
  <2>3. \A p \in 1..n : \E k \in 1..Len(s) : s[k] = log[p]
    <3> TAKE p \in 1..n
    <3>1. PICK k \in 1..Len(s) : place[k] = p
      BY <2>1, <2>2
    <3> QED BY <2>2, <3>1
  <2> HIDE DEF q, s
  <2>4. q \in Follower /\ q.pc = "live" /\ q.last \in Nat /\ Within(q.buf, n)
    BY <1>1, <1>4 DEF Underway, Follower
  <2>5. n <= q.last
    <3>1. CASE n = 0
      BY <2>4, <3>1
    <3>2. CASE n > 0
      <4>1. n \in 1..n /\ log[n].id = n
        BY <1>0, <3>2
      <4>2. PICK k \in 1..Len(s) : s[k] = log[n]
        BY <2>3, <4>1
      <4> QED BY <1>1, <4>1, <4>2
    <3> QED BY <1>0, <3>1, <3>2
  <2>6. Kept(q) = {}
    <3>1. \A i \in 1..Len(q.buf) : q.buf[i].id # 0
      BY <1>1
    <3> HIDE DEF n
    <3> QED BY <1>0, <2>4, <2>5, <3>1, NothingKept
  <2>7. Live(q).got = q.got
    <3> HIDE DEF n
    <3> QED BY <1>0, <1>1, <2>4, <2>6, LiveIs
  <2> QED BY <1>1, <1>2, <2>3, <2>7
<1> QED BY <1>3, <1>4
\* A message that is sent to a live client: the text stays whole, because
\* every chunk before this one was published and the client has it.
LEMMA SentWhole ==
    ASSUME Base, Busy, InHand, Covered, CaughtUp, ~dropped, ~inverted,
           NEW x \in Followers, f[x].pc = "live", f[x].since = 0, Whole(f[x].got),
           NEW w \in Writers, writer[w].pc = "publish",
           NEW m \in Message, m.ev = writer[w].ev
    PROVE  Whole(f[x].got \o <<m>>)
<1> DEFINE g == f[x].got
           h == g \o <<m>>
           L == Len(g)
<1>0. g \in Seq(Message) /\ L \in Nat /\ committed \in Nat
      /\ writer[w].ev.n \in Nat /\ \A v \in Writers : v \in Handlers \/ v \in Enders
  <2>1. f[x] \in Follower /\ writer[w] \in Writer /\ committed \in Nat
    BY DEF Base, TypeOK
  <2>2. g \in Seq(Message)
    BY <2>1 DEF Follower
  <2> QED BY <2>1, <2>2 DEF Writer, Events, Writers
<1>1. /\ Len(h) = L + 1 /\ h[L + 1] = m
      /\ \A i \in 1..L : h[i] = g[i]
  BY <1>0
<1> HIDE DEF h
<1>2. ASSUME NEW i \in 1..Len(h), NEW n \in 1..(h[i].ev.n - 1)
      PROVE  \E j \in 1..(i - 1) : h[j].ev = Chunk(n)
  <2>1. CASE i \in 1..L
    <3>1. PICK j \in 1..(i - 1) : g[j].ev = Chunk(n)
      BY <1>1, <1>2, <2>1 DEF Whole
    <3>2. j \in 1..L
      BY <1>0, <2>1
    <3> QED BY <1>1, <3>1, <3>2
  <2>2. CASE i = L + 1
    <3>1. n \in 1..(writer[w].ev.n - 1)
      BY <1>1, <1>2, <2>2
    <3>2. w \in Handlers
      BY <1>0, <3>1 DEF Busy
    <3>3. writer[w].ev.n <= committed + 1
      BY <3>2 DEF InHand
    <3>4. n \in 1..committed
      BY <1>0, <3>1, <3>3
    <3>5. PICK p \in 1..Len(log) : log[p].ev = Chunk(n) /\ ~Pending(p)
      BY <3>4 DEF Covered, Published
    <3>6. PICK j \in 1..L : g[j].ev = log[p].ev
      BY <3>5 DEF CaughtUp, Chunk
    <3>7. j \in 1..(i - 1) /\ h[j].ev = Chunk(n)
      BY <1>0, <1>1, <2>2, <3>5, <3>6
    <3> QED BY <3>7
  <2> QED BY <1>0, <1>1, <2>1, <2>2
<1> QED BY <1>2 DEF Whole, h

\* PUBLISH, as a live client from the start of the turn sees it.
LEMMA PublishCaughtUp ==
    ASSUME Base, Busy, InHand, Covered, CaughtUp, ~dropped, ~inverted,
           NEW w \in Writers, Publish(w), ~dropped', ~inverted',
           NEW x \in Followers, f[x].pc = "live", f[x].since = 0, Whole(f[x].got),
           f'[x] = Hear(f[x], [id |-> writer[w].id, ev |-> writer[w].ev])
    PROVE  /\ Whole(f'[x].got)
           /\ f'[x].pc = "live" =>
                \A p \in 1..Len(log) : log[p].ev.kind = "chunk" =>
                    \/ \E j \in 1..Len(f'[x].got) : f'[x].got[j].ev = log[p].ev
                    \/ Pending(p)' /\ (p > f'[x].last \/ p < top')
<1> DEFINE m == [id |-> writer[w].id, ev |-> writer[w].ev]
           n == Len(log)
<1>0. /\ n \in Nat /\ top \in Nat /\ writer \in [Writers -> Writer]
      /\ Sound(f[x], n)
  BY DEF Base, TypeOK, Connections
<1>1. /\ writer[w].pc = "publish"
      /\ writer' = [writer EXCEPT ![w].pc = AfterPublish(w), ![w].id = 0]
      /\ top' = IF m.id > top THEN m.id ELSE top
      /\ inverted' = (inverted \/ (m.id # 0 /\ m.id < top))
  BY DEF Publish
<1>2. m \in Message /\ m.id = writer[w].id /\ m.ev = writer[w].ev
      /\ m.id \in 1..n /\ log[m.id].ev = m.ev
  BY <1>0, <1>1 DEF InHand, Message, Writer
<1> HIDE DEF m
<1>3. m.id >= top
  <2>1. inverted' = (inverted \/ (m.id # 0 /\ m.id < top))
    BY <1>1
  <2>2. ~(m.id # 0 /\ m.id < top)
    <3> DEFINE late == m.id # 0 /\ m.id < top
    <3>1. late \in BOOLEAN /\ inverted' = (inverted \/ late)
      BY <2>1
    <3> HIDE DEF late
    <3>2. ~late
      BY <3>1
    <3> QED BY <3>2 DEF late
  <2> QED BY <1>0, <1>2, <2>2
<1>4. top' = m.id
  BY <1>0, <1>1, <1>2, <1>3
<1>5. ASSUME NEW p \in 1..n, Pending(p), p # m.id PROVE Pending(p)'
  <2>1. PICK v \in Writers : writer[v].pc = "publish" /\ writer[v].id = p
    BY <1>5 DEF Pending
  <2>2. v # w /\ writer'[v] = writer[v]
    BY <1>0, <1>1, <1>2, <1>5, <2>1
  <2> QED BY <2>1, <2>2 DEF Pending
<1>6. f[x] \in Follower /\ f[x].last \in Nat /\ f[x].last <= n /\ f[x].got \in Seq(Message)
  BY <1>0 DEF Sound, Follower
<1>7. f'[x] = Hear(f[x], m)
  BY DEF m
<1>8. m.id <= n /\ n \in Nat
  BY <1>0, <1>2
<1>9. ASSUME NEW p \in 1..n, log[p].ev.kind = "chunk",
             ~\E j \in 1..Len(f[x].got) : f[x].got[j].ev = log[p].ev
      PROVE  Pending(p) /\ (p > f[x].last \/ p < m.id)
  <2>1. Pending(p) /\ (p > f[x].last \/ p < top)
    BY <1>9 DEF CaughtUp
  <2> QED BY <1>0, <1>2, <1>3, <2>1
<1>10. CASE PassedOver(f[x].last, m)
  <2>1. f'[x] = f[x]
    <3>1. Hear(f[x], m) = Follow(f[x], m)
      BY DEF Hear
    <3> HIDE DEF n
    <3>2. Follow(f[x], m) = f[x]
      BY <1>0, <1>2, <1>8, <1>10, FollowIs
    <3> QED BY <1>7, <3>1, <3>2
  <2>2. ASSUME NEW p \in 1..n, log[p].ev.kind = "chunk",
               ~\E j \in 1..Len(f[x].got) : f[x].got[j].ev = log[p].ev
        PROVE  Pending(p)' /\ (p > f[x].last \/ p < top')
    <3>1. Pending(p) /\ (p > f[x].last \/ p < m.id)
      BY <1>9, <2>2
    <3>2. p # m.id
      BY <1>2, <1>6, <1>10, <3>1 DEF PassedOver
    <3> QED BY <1>4, <1>5, <3>1, <3>2
  <2> QED BY <2>1, <2>2
<1>11. CASE ~PassedOver(f[x].last, m)
  <2> DEFINE g == f[x].got \o <<m>>
             a == Highest(f[x].last, <<m>>)
  <2>1. f'[x].got = g /\ f'[x].last = a
    <3>1. Hear(f[x], m) = Follow(f[x], m)
      BY DEF Hear
    <3> HIDE DEF n
    <3>2. Follow(f[x], m).got = g /\ Follow(f[x], m).last = a
      BY <1>0, <1>2, <1>8, <1>11, FollowIs
    <3> QED BY <1>7, <3>1, <3>2
  <2>2. Whole(g)
    BY <1>1, <1>2, SentWhole
  <2>3. a \in Nat /\ (a = f[x].last \/ a = m.id)
    <3>1. /\ <<m>> \in Seq(Message) /\ Len(<<m>>) = 1 /\ <<m>>[1] = m /\ Within(<<m>>, n)
      BY <1>2, <1>8, OneMessage
    <3>2. f[x].last \in 0..n
      BY <1>0, <1>6
    <3>3. a \in 0..n /\ (a = f[x].last \/ \E i \in 1..Len(<<m>>) : a = <<m>>[i].id)
      BY <1>0, <3>1, <3>2, HighestIs DEF Within
    <3> QED BY <1>0, <3>1, <3>3
  <2> HIDE DEF a
  <2>4. /\ Len(g) = Len(f[x].got) + 1 /\ Len(f[x].got) \in Nat /\ g[Len(g)] = m
        /\ \A i \in 1..Len(f[x].got) : g[i] = f[x].got[i]
    BY <1>2, <1>6
  <2> HIDE DEF g
  <2>5. ASSUME NEW p \in 1..n, log[p].ev.kind = "chunk",
               ~\E j \in 1..Len(g) : g[j].ev = log[p].ev
        PROVE  Pending(p)' /\ (p > a \/ p < top')
    <3>1. ~\E j \in 1..Len(f[x].got) : f[x].got[j].ev = log[p].ev
      BY <2>4, <2>5, SMTT(60)
    <3>2. Pending(p) /\ (p > f[x].last \/ p < m.id)
      BY <1>9, <2>5, <3>1
    <3>3. p # m.id
      <4>1. Len(g) \in 1..Len(g)
        BY <2>4
      <4> QED BY <1>2, <2>4, <2>5, <4>1
    <3>4. p > a \/ p < m.id
      BY <1>2, <1>6, <2>3, <3>2, <3>3
    <3> QED BY <1>4, <1>5, <3>2, <3>3, <3>4
  <2> QED BY <2>1, <2>2, <2>5
<1> QED BY <1>10, <1>11
\* An entry stays pending until its own publisher publishes it, and only that
\* moves the top of the channel.
LEMMA PendingKept ==
    ASSUME Base, [Next]_vars, ~\E w \in Writers : Publish(w)
    PROVE  /\ \A p : Pending(p) => Pending(p)'
           /\ top' = top
<1>0. writer \in [Writers -> Writer] /\ \A h \in Handlers : h \in Writers
  BY Basics DEF Base, TypeOK
<1>1. ASSUME NEW v \in Writers, writer[v].pc = "publish" PROVE writer'[v] = writer[v]
  <2>1. ASSUME NEW w \in Writers, Xadd(w) \/ End(w) PROVE writer'[v] = writer[v]
    <3>1. w # v
      BY <1>1, <2>1 DEF Xadd, End
    <3>2. CASE Xadd(w)
      BY <1>0, <3>1, <3>2 DEF Xadd
    <3>3. CASE End(w)
      <4>1. PICK k \in Endings(w) : writer' = [writer EXCEPT ![w].pc = "append", ![w].ev = Terminal(k)]
        BY <3>3 DEF End
      <4> QED BY <1>0, <3>1, <4>1
    <3> QED BY <2>1, <3>2, <3>3
  <2>2. ASSUME NEW h \in Handlers, Deliver(h) \/ SaveInbox(h) \/ HandlerRaises(h) \/ Rebalance(h)
        PROVE  writer'[v] = writer[v]
    <3>1. UNCHANGED writer \/ \E q : writer[h].pc # "publish" /\ writer' = [writer EXCEPT ![h] = q]
      BY <2>2 DEF Deliver, SaveInbox, HandlerRaises, Rebalance
    <3> QED BY <1>0, <1>1, <3>1
  <2>3. ASSUME NEW x \in Followers, Connect(x) \/ Replay(x) \/ ReplayCut(x) \/ Cut(x)
        PROVE  UNCHANGED writer
    BY <2>3 DEF Connect, Replay, ReplayCut, Cut
  <2> QED BY <2>1, <2>2, <2>3 DEF Next, WriterStep, HandlerStep, vars
<1>2. top' = top
  BY DEF Next, WriterStep, HandlerStep, Xadd, End, Deliver, SaveInbox, HandlerRaises, Rebalance,
         Connect, Replay, ReplayCut, Cut, vars, history
<1>3. \A p : Pending(p) => Pending(p)'
  BY <1>1 DEF Pending
<1> QED BY <1>2, <1>3

\* An entry that XADD appends is pending.
LEMMA AppendedPends ==
    ASSUME Base, [Next]_vars, ~dropped', NEW p \in 1..Len(log'), p \notin 1..Len(log)
    PROVE  p > Len(log) /\ Pending(p)'
<1>0. Len(log) \in Nat /\ NextId = Len(log) + 1 /\ writer \in [Writers -> Writer] /\ log \in Seq(Message)
  BY NextIdIs DEF Base, TypeOK
<1>1. PICK w \in Writers : Xadd(w)
  <2>1. (\E w \in Writers : Xadd(w)) \/ UNCHANGED log
    BY DEF Next, WriterStep, HandlerStep, Publish, End, Deliver, SaveInbox, HandlerRaises, Rebalance,
           Connect, Replay, ReplayCut, Cut, vars
  <2> QED BY <2>1
<1>2. /\ log' = Append(log, [id |-> NextId, ev |-> writer[w].ev])
      /\ writer' = [writer EXCEPT ![w].pc = "publish", ![w].id = NextId]
  BY <1>1 DEF Xadd
<1>3. Len(log') = Len(log) + 1
  BY <1>0, <1>2
<1>4. p = NextId /\ p > Len(log)
  BY <1>0, <1>3
<1>5. writer'[w].pc = "publish" /\ writer'[w].id = NextId
  BY <1>0, <1>2 DEF Writer
<1> QED BY <1>4, <1>5 DEF Pending

\* Every step keeps the clients caught up and what they were sent whole.
LEMMA CaughtUpNext ==
    ASSUME Base, Base', Busy, Orderly, CaughtUp, NoGap, [Next]_vars
    PROVE  CaughtUp' /\ NoGap'
<1>0. /\ Len(log) \in Nat /\ Len(log') \in Nat /\ Len(log) <= Len(log')
      /\ \A i \in 1..Len(log) : i \in 1..Len(log') /\ log'[i] = log[i]
      /\ dropped => dropped'
      /\ inverted => inverted'
  BY LogGrows
<1>s. ASSUME NEW x \in Followers PROVE Sound(f[x], Len(log)) /\ Sound(f'[x], Len(log'))
  BY DEF Base, Connections, Sound, Within, Rising
<1>n. ASSUME NEW x \in Followers, f[x].since = 0, ~dropped, ~inverted PROVE Whole(f[x].got)
  BY <1>n DEF NoGap, Whole
<1>b. ASSUME NEW x \in Followers, ~dropped'
      PROVE  \A i \in 1..Len(f'[x].buf) : f'[x].buf[i].id # 0
  <2>0. ~dropped /\ InHand /\ \A i \in 1..Len(f[x].buf) : f[x].buf[i].id # 0
    BY <1>0, <1>b DEF Orderly, CaughtUp
  <2>1. CASE f'[x] = f[x]
    BY <2>0, <2>1
  <2>2. CASE f'[x].buf = << >>
    BY <2>2
  <2>3. ASSUME NEW w \in Writers, Publish(w),
               f'[x] = Hear(f[x], [id |-> writer[w].id, ev |-> writer[w].ev]), f[x].pc = "replay"
        PROVE  \A i \in 1..Len(f'[x].buf) : f'[x].buf[i].id # 0
    <3> DEFINE m == [id |-> writer[w].id, ev |-> writer[w].ev]
    <3>1. m \in Message /\ m.id <= Len(log) /\ m.id # 0
      <4>1. writer[w] \in Writer /\ writer[w].id \in 1..Len(log)
        BY <2>0, <2>3 DEF Base, TypeOK, InHand, Publish
      <4> QED BY <1>0, <4>1 DEF Message, Writer
    <3> HIDE DEF m
    <3>2. f'[x] = Hear(f[x], m)
      BY <2>3 DEF m
    <3>3. f'[x].buf = Append(f[x].buf, m)
      <4>1. Hear(f[x], m) = [f[x] EXCEPT !.buf = Append(f[x].buf, m)]
        BY <2>3 DEF Hear
      <4>2. f[x] \in Follower
        BY DEF Base, TypeOK
      <4> QED BY <3>2, <4>1, <4>2 DEF Follower
    <3>4. f[x].buf \in Seq(Message)
      BY DEF Base, TypeOK, Follower
    <3> QED BY <2>0, <3>1, <3>3, <3>4
  <2>4. f'[x].pc # "replay" => f'[x].buf = << >>
    BY <1>s DEF Sound
  <2>5. CASE \E w \in Writers : Publish(w)
                  /\ f'[x] = Hear(f[x], [id |-> writer[w].id, ev |-> writer[w].ev])
    <3>1. PICK w \in Writers : Publish(w)
                  /\ f'[x] = Hear(f[x], [id |-> writer[w].id, ev |-> writer[w].ev])
      BY <2>5
    <3>2. CASE f[x].pc = "live"
      <4>1. f'[x].pc # "replay"
        <5>1. f[x] \in Follower
          BY DEF Base, TypeOK
        <5> QED BY <3>1, <3>2, <5>1 DEF Hear, Follow, Sent, Follower
      <4> QED BY <2>2, <2>4, <4>1
    <3>3. CASE f[x].pc \notin {"live", "replay"}
      <4>1. f'[x] = f[x]
        BY <3>1, <3>3 DEF Hear
      <4> QED BY <2>1, <4>1
    <3>4. CASE f[x].pc = "replay"
      BY <2>3, <3>1, <3>4
    <3> QED BY <3>2, <3>3, <3>4
  <2>6. CASE Connect(x)
    BY <2>2, <2>6, ConnectIs
  <2>7. CASE Replay(x)
    BY <2>2, <2>4, <2>7, ReplayStep
  <2>8. CASE ReplayCut(x) \/ Cut(x)
    BY <2>2, <2>4, <2>8, CutIs
  <2> QED BY <2>1, <2>5, <2>6, <2>7, <2>8, Moves
<1>1. ASSUME NEW x \in Followers, f'[x].since = 0, ~dropped', ~inverted'
      PROVE  /\ Whole(f'[x].got)
             /\ f'[x].pc = "live" =>
                  \A p \in 1..Len(log') : log'[p].ev.kind = "chunk" =>
                      \/ \E j \in 1..Len(f'[x].got) : f'[x].got[j].ev = log'[p].ev
                      \/ Pending(p)' /\ (p > f'[x].last \/ p < top')
  <2>0. ~dropped /\ ~inverted /\ InHand /\ Covered
    BY <1>0, <1>1 DEF Orderly
  <2>e. ASSUME f'[x].got = << >> PROVE Whole(f'[x].got)
    BY <2>e DEF Whole
  <2>p. ASSUME NEW w \in Writers, Publish(w)
        PROVE  log' = log /\ f'[x] = Hear(f[x], [id |-> writer[w].id, ev |-> writer[w].ev])
    <3>1. f \in [Followers -> Follower]
      BY DEF Base, TypeOK
    <3> QED BY <1>1, <2>p, <3>1 DEF Publish
  <2>1. CASE f'[x] = f[x] /\ ~\E w \in Writers : Publish(w)
    <3>1. Whole(f'[x].got)
      BY <1>1, <1>n, <2>0, <2>1
    <3>2. ASSUME f'[x].pc = "live", NEW p \in 1..Len(log'), log'[p].ev.kind = "chunk"
          PROVE  \/ \E j \in 1..Len(f'[x].got) : f'[x].got[j].ev = log'[p].ev
                 \/ Pending(p)' /\ (p > f'[x].last \/ p < top')
      <4>1. CASE p \in 1..Len(log)
        <5>1. \/ \E j \in 1..Len(f[x].got) : f[x].got[j].ev = log[p].ev
              \/ Pending(p) /\ (p > f[x].last \/ p < top)
          BY <1>0, <1>1, <2>0, <2>1, <3>2, <4>1 DEF CaughtUp
        <5>2. top' = top /\ (Pending(p) => Pending(p)')
          BY <2>1, PendingKept
        <5> QED BY <1>0, <2>1, <4>1, <5>1, <5>2
      <4>2. CASE p \notin 1..Len(log)
        <5>1. p > Len(log) /\ Pending(p)'
          BY <1>1, <4>2, AppendedPends
        <5>2. f[x].last <= Len(log) /\ f[x].last \in Nat
          BY <1>s DEF Sound, Follower
        <5>3. p > f[x].last
          BY <1>0, <5>1, <5>2
        <5> QED BY <2>1, <5>1, <5>3
      <4> QED BY <4>1, <4>2
    <3> QED BY <3>1, <3>2
  <2>2. ASSUME NEW w \in Writers, Publish(w)
        PROVE  /\ Whole(f'[x].got)
               /\ f'[x].pc = "live" =>
                    \A p \in 1..Len(log) : log[p].ev.kind = "chunk" =>
                        \/ \E j \in 1..Len(f'[x].got) : f'[x].got[j].ev = log[p].ev
                        \/ Pending(p)' /\ (p > f'[x].last \/ p < top')
    <3> DEFINE m == [id |-> writer[w].id, ev |-> writer[w].ev]
    <3>1. m \in Message /\ m.id <= Len(log)
      BY DEF Base, TypeOK, Numbered, Message, Writer
    <3> HIDE DEF m
    <3>2. f'[x] = Hear(f[x], m)
      BY <2>2, <2>p DEF m
    <3>3. f'[x].since = f[x].since
      <4>0. Len(log) \in Nat /\ Sound(f[x], Len(log))
        BY <1>0, <1>s
      <4>1. Hear(f[x], m).since = f[x].since
        BY <3>1, <4>0, HearIs
      <4> QED BY <3>2, <4>1
    <3>4. CASE f[x].pc = "live"
      BY <1>1, <1>n, <2>0, <2>2, <2>p, <3>3, <3>4, PublishCaughtUp
    <3>5. CASE f[x].pc = "replay"
      <4>1. f'[x].pc = "replay"
        <5>1. f[x] \in Follower
          BY DEF Base, TypeOK
        <5> QED BY <3>2, <3>5, <5>1 DEF Hear, Follower
      <4>2. f'[x].got = << >>
        BY <1>s, <4>1 DEF Sound
      <4> QED BY <2>e, <4>1, <4>2
    <3>6. CASE f[x].pc \notin {"live", "replay"}
      <4>1. f'[x] = f[x]
        BY <3>2, <3>6 DEF Hear
      <4> QED BY <1>1, <1>n, <2>0, <3>6, <4>1
    <3> QED BY <3>4, <3>5, <3>6
  <2>3. CASE Connect(x)
    BY <2>3, <2>e, ConnectIs
  <2>4. CASE Replay(x)
    <3>1. log' = log
      BY <2>4 DEF Replay
    <3>2. f[x].since = 0
      BY <1>1, <2>4, ReplayStep
    <3>3. \A i \in 1..Len(f[x].buf) : f[x].buf[i].id # 0
      BY <2>0 DEF CaughtUp
    <3>4. /\ Whole(f'[x].got)
          /\ f'[x].pc = "live" =>
               \A p \in 1..Len(log) : \E j \in 1..Len(f'[x].got) : f'[x].got[j].ev = log[p].ev
      BY <1>1, <2>0, <2>4, <3>2, <3>3, ReplayCaughtUp
    <3> QED BY <3>1, <3>4
  <2>5. CASE ReplayCut(x) \/ Cut(x)
    BY <2>5, <2>e, CutIs
  <2>6. CASE \E w \in Writers : Publish(w)
    <3>1. PICK w \in Writers : Publish(w)
      BY <2>6
    <3> QED BY <2>2, <2>p, <3>1
  <2> QED BY <2>1, <2>3, <2>4, <2>5, <2>6, Moves
<1>2. CaughtUp'
  BY <1>1, <1>b DEF CaughtUp
<1>3. NoGap'
  BY <1>1 DEF NoGap, Whole
<1> QED BY <1>2, <1>3

\* No hole in the streamed text: what a client that follows a turn from its
\* start is sent has every chunk before each chunk, over replay, buffer and
\* live channel and with every redelivery after a rebalance, as long as no call
\* failed and no publisher overtook another between log and channel
\* (stream_service.py:197-226, consumers.py:142-190).
THEOREM TextHasNoHole == Spec => []NoGap
<1> DEFINE I == Orderly /\ CaughtUp /\ NoGap
<1>1. Init => I
  <2> SUFFICES ASSUME Init PROVE I
    OBVIOUS
  <2>0. /\ \A w \in Writers : writer[w].pc = "idle"
        /\ \A h \in Handlers : h \in Writers
        /\ log = << >> /\ Len(log) = 0 /\ committed = 0 /\ inbox = {} /\ next = 1
        /\ chunkOwner \in Handlers
    BY Basics, HandlersAssumption DEF Init
  <2>1. InHand
    BY <2>0 DEF InHand
  <2>2. Covered
    BY <2>0 DEF Covered
  <2>3. \A x \in Followers : f[x].pc = "off" /\ f[x].buf = << >> /\ f[x].got = << >>
    BY DEF Init, Off
  <2>4. CaughtUp /\ NoGap
    BY <2>3 DEF CaughtUp, NoGap
  <2> QED BY <2>1, <2>2, <2>4 DEF Orderly
<1>2. Base /\ Busy /\ I /\ [Next]_vars => I'
  BY BaseNext, OrderlyNext, CaughtUpNext
<1> QED BY <1>1, <1>2, BaseInvariant, PTL DEF Spec
=============================================================================
