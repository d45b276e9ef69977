------------------------------ MODULE ChatProofs ------------------------------
(***************************************************************************)
(* Theorems about Chat, for any rate, window, page and number of           *)
(* connections and messages: its types, the limiter of ChatGateway, and    *)
(* that a client who pages back through the history misses nothing.        *)
(***************************************************************************)
EXTENDS Chat, FiniteSetTheorems, SequenceTheorems, TLAPS

-----------------------------------------------------------------------------
(* Milliseconds.                                                             *)

\* Ms rounds down.
LEMMA MsOf ==
    ASSUME NEW t \in Nat
    PROVE  Ms(t) \in Nat /\ Ms(t) <= t
  <1> DEFINE q == t \div Sub
  <1>0. Sub \in Nat \ {0}
    BY ConstantsAssumption
  <1>1. q \in Int /\ t % Sub \in 0..Sub - 1 /\ t = Sub * q + (t % Sub)
    BY <1>0, Z3
  <1> HIDE DEF q
  <1>2. ASSUME q < 0 PROVE FALSE
    <2>1. Sub * q <= -Sub
      BY <1>0, <1>1, <1>2, Z3
    <2> QED BY <1>0, <1>1, <2>1
  <1>3. ASSUME q >= 0 PROVE q <= Sub * q
    BY <1>0, <1>1, <1>3, Z3
  <1>4. q >= 0 /\ q <= t
    BY <1>0, <1>1, <1>2, <1>3
  <1> QED BY <1>1, <1>4 DEF Ms, q

\* Later times do not have earlier milliseconds.
LEMMA MsGrows ==
    ASSUME NEW t \in Nat
    PROVE  Ms(t) <= Ms(t + 1)
  <1> DEFINE q == t \div Sub
             p == (t + 1) \div Sub
  <1>0. Sub \in Nat \ {0}
    BY ConstantsAssumption
  <1>1. q \in Int /\ t % Sub \in 0..Sub - 1 /\ t = Sub * q + (t % Sub)
    BY <1>0, Z3
  <1>2. p \in Int /\ (t + 1) % Sub \in 0..Sub - 1 /\ t + 1 = Sub * p + ((t + 1) % Sub)
    BY <1>0, Z3
  <1> HIDE DEF q, p
  <1>3. ASSUME p < q PROVE FALSE
    <2>1. Sub * (p + 1) <= Sub * q
      BY <1>0, <1>1, <1>2, <1>3, Z3
    <2>2. Sub * (p + 1) = Sub * p + Sub
      BY <1>0, <1>2, Z3
    <2>3. Sub * p \in Int /\ Sub * q \in Int
      BY <1>0, <1>1, <1>2, Z3
    <2> QED BY <1>0, <1>1, <1>2, <2>1, <2>2, <2>3
  <1> QED BY <1>1, <1>2, <1>3 DEF Ms, q, p

-----------------------------------------------------------------------------
(* The limiter.                                                              *)

\* What recentSends holds of a connection: times of sends that passed, and all of
\* those that are not older than the window, as long as the connection is open.
Remembered(s) ==
    /\ DOMAIN recent[s] \subseteq DOMAIN accepted[s]
    /\ \A k \in DOMAIN recent[s] : recent[s][k] = accepted[s][k]
    /\ Cardinality(DOMAIN recent[s]) <= RateMax
    /\ socket[s] = "open" =>
        \A k \in DOMAIN accepted[s] :
            k \in DOMAIN recent[s] \/ accepted[s][k] <= Ms(now) - Window
    /\ socket[s] = "new" => accepted[s] = <<>>
    /\ socket[s] = "closed" => recent[s] = NoSends

\* Sends are recorded as time goes on.
InOrder(s) ==
    \A k \in DOMAIN accepted[s] :
        /\ accepted[s][k] <= Ms(now)
        /\ \A j \in DOMAIN accepted[s] : j <= k => accepted[s][j] <= accepted[s][k]

\* No RateMax + 1 sends lie within the window.
Spread(s) ==
    \A k \in DOMAIN accepted[s] :
        k + RateMax \in DOMAIN accepted[s]
        => accepted[s][k + RateMax] - accepted[s][k] >= Window

Limiter(s) == Remembered(s) /\ InOrder(s) /\ Spread(s)

\* The types the limiter needs.
Basic ==
    /\ now \in Times
    /\ socket \in [Sockets -> {"new", "open", "closed"}]
    /\ DOMAIN recent = Sockets /\ DOMAIN accepted = Sockets
    /\ \A s \in Sockets : accepted[s] \in Seq(Times)

LimiterInv == Basic /\ \A s \in Sockets : Limiter(s)

LEMMA LimiterInit == Init => LimiterInv
  <1> SUFFICES ASSUME Init PROVE LimiterInv
    OBVIOUS
  <1>1. Basic
    BY ConstantsAssumption, EmptySeq DEF Init, Basic, Times
  <1>2. \A s \in Sockets : recent[s] = NoSends /\ accepted[s] = <<>> /\ socket[s] = "new"
    BY DEF Init
  <1>3. DOMAIN NoSends = {} /\ DOMAIN <<>> = {} /\ Cardinality({}) = 0
    BY FS_EmptySet DEF NoSends
  <1>4. RateMax \in Nat
    BY ConstantsAssumption
  <1> QED BY <1>1, <1>2, <1>3, <1>4 DEF LimiterInv, Limiter, Remembered, InOrder, Spread

\* What is needed to know of Fresh.
LEMMA FreshSends ==
    ASSUME LimiterInv, NEW s \in Sockets
    PROVE  /\ Ms(now) \in Nat
           /\ DOMAIN accepted[s] = 1..Len(accepted[s]) /\ Len(accepted[s]) \in Nat
           /\ \A k \in DOMAIN accepted[s] : accepted[s][k] \in Nat
           /\ DOMAIN Fresh(s) = {k \in DOMAIN recent[s] : accepted[s][k] > Ms(now) - Window}
           /\ \A k \in DOMAIN Fresh(s) : Fresh(s)[k] = accepted[s][k]
           /\ IsFiniteSet(DOMAIN recent[s]) /\ IsFiniteSet(DOMAIN Fresh(s))
           /\ Cardinality(DOMAIN recent[s]) \in Nat
           /\ Cardinality(DOMAIN Fresh(s)) \in Nat
           /\ Cardinality(DOMAIN Fresh(s)) <= Cardinality(DOMAIN recent[s])
           /\ socket[s] = "open" =>
                DOMAIN Fresh(s) = {k \in DOMAIN accepted[s] : accepted[s][k] > Ms(now) - Window}
  <1>1. Ms(now) \in Nat
    BY MsOf, ConstantsAssumption DEF LimiterInv, Basic, Times
  <1>2. accepted[s] \in Seq(Times) /\ Times \subseteq Nat
    BY ConstantsAssumption DEF LimiterInv, Basic, Times
  <1>3. /\ DOMAIN accepted[s] = 1..Len(accepted[s]) /\ Len(accepted[s]) \in Nat
        /\ \A k \in DOMAIN accepted[s] : accepted[s][k] \in Nat
    BY <1>2, LenProperties, ElementOfSeq
  <1>4. Remembered(s)
    BY DEF LimiterInv, Limiter
  <1>5. DOMAIN Fresh(s) = {k \in DOMAIN recent[s] : accepted[s][k] > Ms(now) - Window}
    BY <1>4 DEF Fresh, Remembered
  <1>6. \A k \in DOMAIN Fresh(s) : Fresh(s)[k] = accepted[s][k]
    BY <1>4, <1>5 DEF Fresh, Remembered
  <1>7. IsFiniteSet(DOMAIN accepted[s])
    BY <1>3, FS_Interval
  <1>8. IsFiniteSet(DOMAIN recent[s]) /\ Cardinality(DOMAIN recent[s]) \in Nat
    BY <1>4, <1>7, FS_Subset, FS_CardinalityType DEF Remembered
  <1>9. /\ IsFiniteSet(DOMAIN Fresh(s)) /\ Cardinality(DOMAIN Fresh(s)) \in Nat
        /\ Cardinality(DOMAIN Fresh(s)) <= Cardinality(DOMAIN recent[s])
    BY <1>5, <1>8, FS_Subset, FS_CardinalityType
  <1>10. ASSUME socket[s] = "open"
         PROVE  DOMAIN Fresh(s) = {k \in DOMAIN accepted[s] :
                                        accepted[s][k] > Ms(now) - Window}
    <2>1. Window \in Nat
      BY ConstantsAssumption
    <2>2. \A k \in DOMAIN accepted[s] :
            accepted[s][k] > Ms(now) - Window => k \in DOMAIN recent[s]
      BY <1>1, <1>3, <1>4, <1>10, <2>1 DEF Remembered
    <2> QED BY <1>4, <1>5, <2>2 DEF Remembered
  <1> QED BY <1>1, <1>3, <1>5, <1>6, <1>8, <1>9, <1>10

\* A connection that is left as it is keeps what the limiter knows of it.
LEMMA LimiterKept ==
    ASSUME LimiterInv, NEW s \in Sockets, now' \in Times, Ms(now) <= Ms(now'),
           accepted'[s] = accepted[s],
           recent'[s] \in {recent[s], Fresh(s)},
           socket'[s] = socket[s] \/ (socket[s] = "new" /\ socket'[s] = "open")
    PROVE  Limiter(s)'
  <1>1. Ms(now) \in Nat /\ Window \in Nat /\ RateMax \in Nat
    BY FreshSends, ConstantsAssumption
  <1>m. Ms(now') \in Nat
    <2>1. now' \in Nat
      BY ConstantsAssumption DEF Times
    <2> QED BY <2>1, MsOf
  <1>n. Ms(now)' = Ms(now')
    BY DEF Ms
  <1>2. Limiter(s)
    BY DEF LimiterInv
  <1>3. /\ \A k \in DOMAIN accepted[s] : accepted[s][k] \in Nat
        /\ DOMAIN accepted[s] = 1..Len(accepted[s])
        /\ Len(accepted[s]) \in Nat
    BY FreshSends
  <1>4. /\ DOMAIN recent'[s] \subseteq DOMAIN accepted[s]
        /\ \A k \in DOMAIN recent'[s] : recent'[s][k] = accepted[s][k]
        /\ Cardinality(DOMAIN recent'[s]) <= RateMax
    <2>1. CASE recent'[s] = recent[s]
      BY <1>2, <2>1 DEF Limiter, Remembered
    <2>2. CASE recent'[s] = Fresh(s)
      <3>1. DOMAIN Fresh(s) \subseteq DOMAIN recent[s]
        BY FreshSends
      <3>2. \A k \in DOMAIN Fresh(s) : Fresh(s)[k] = accepted[s][k]
        BY FreshSends
      <3>3. /\ Cardinality(DOMAIN Fresh(s)) \in Nat
            /\ Cardinality(DOMAIN recent[s]) \in Nat
            /\ Cardinality(DOMAIN Fresh(s)) <= Cardinality(DOMAIN recent[s])
        BY FreshSends
      <3>4. /\ DOMAIN recent[s] \subseteq DOMAIN accepted[s]
            /\ Cardinality(DOMAIN recent[s]) <= RateMax
        BY <1>2 DEF Limiter, Remembered
      <3>5. Cardinality(DOMAIN Fresh(s)) <= RateMax
        BY <1>1, <3>3, <3>4
      <3> QED BY <2>2, <3>1, <3>2, <3>4, <3>5
    <2> QED BY <2>1, <2>2
  <1>5. ASSUME socket[s] = "open", NEW k \in DOMAIN accepted[s]
        PROVE  k \in DOMAIN recent'[s] \/ accepted[s][k] <= Ms(now) - Window
    <2>0. accepted[s][k] \in Nat
      BY <1>3
    <2>1. CASE recent'[s] = recent[s]
      BY <1>2, <1>5, <2>1 DEF Limiter, Remembered
    <2>2. CASE recent'[s] = Fresh(s)
      <3>1. DOMAIN Fresh(s) = {j \in DOMAIN accepted[s] : accepted[s][j] > Ms(now) - Window}
        BY <1>5, FreshSends
      <3> QED BY <1>1, <2>0, <2>2, <3>1
    <2> QED BY <2>1, <2>2
  <1>6. ASSUME socket'[s] = "open", NEW k \in DOMAIN accepted[s]
        PROVE  k \in DOMAIN recent'[s] \/ accepted[s][k] <= Ms(now') - Window
    <2>0. accepted[s][k] \in Nat
      BY <1>3
    <2>1. CASE socket[s] = "open"
      BY <1>1, <1>m, <1>5, <2>0, <2>1
    <2>2. CASE socket[s] = "new"
      <3>1. accepted[s] = <<>>
        BY <1>2, <2>2 DEF Limiter, Remembered
      <3> QED BY <3>1
    <2> QED BY <1>6, <2>1, <2>2
  <1>7. socket'[s] = "closed" => recent'[s] = NoSends
    <2> SUFFICES ASSUME socket'[s] = "closed" PROVE recent'[s] = NoSends
      OBVIOUS
    <2>1. recent[s] = NoSends
      BY <1>2 DEF Limiter, Remembered
    <2>2. Fresh(s) = NoSends
      BY <2>1 DEF Fresh, NoSends
    <2> QED BY <2>1, <2>2
  <1>8. Remembered(s)'
    <2>1. socket'[s] = "new" => accepted[s] = <<>>
      BY <1>2 DEF Limiter, Remembered
    <2> QED BY <1>n, <1>4, <1>6, <1>7, <2>1 DEF Remembered
  <1>9. InOrder(s)'
    <2>1. InOrder(s)
      BY <1>2 DEF Limiter
    <2>2. ASSUME NEW k \in DOMAIN accepted[s] PROVE accepted[s][k] <= Ms(now')
      <3>1. accepted[s][k] <= Ms(now) /\ accepted[s][k] \in Nat
        BY <1>3, <2>1 DEF InOrder
      <3> QED BY <1>1, <1>m, <3>1
    <2> QED BY <1>n, <2>1, <2>2 DEF InOrder
  <1>10. Spread(s)'
    BY <1>2 DEF Limiter, Spread
  <1> QED BY <1>8, <1>9, <1>10 DEF Limiter

\* A send that passes keeps the rate, wherever the window lies: if the send RateMax
\* before were within the window, so were all since, and the limiter were full.
LEMMA SendLimited ==
    ASSUME LimiterInv, NEW s \in Sockets, Send(s)
    PROVE  Limiter(s)' /\ accepted'[s] \in Seq(Times)
  <1>a. /\ \A k \in DOMAIN accepted[s] : accepted[s][k] \in Nat
        /\ DOMAIN accepted[s] = 1..Len(accepted[s])
        /\ Len(accepted[s]) \in Nat
    BY FreshSends
  <1>b. Ms(now) \in Nat
    BY FreshSends
  <1>c. \A k \in DOMAIN Fresh(s) : Fresh(s)[k] = accepted[s][k]
    BY FreshSends
  <1>d. IsFiniteSet(DOMAIN Fresh(s)) /\ Cardinality(DOMAIN Fresh(s)) \in Nat
    BY FreshSends
  <1>e. socket[s] = "open" =>
            DOMAIN Fresh(s) = {k \in DOMAIN accepted[s] : accepted[s][k] > Ms(now) - Window}
    BY FreshSends
  <1> DEFINE n == Len(accepted[s]) + 1
             t == Ms(now)
             old == accepted[s]
             new == accepted'[s]
  <1>1. t \in Nat /\ Window \in Nat /\ RateMax \in Nat /\ n \in Nat \ {0}
    BY <1>a, <1>b, ConstantsAssumption
  <1>2. t \in Times
    BY <1>1, MsOf, ConstantsAssumption DEF LimiterInv, Basic, Times
  <1>3. old \in Seq(Times) /\ new = Append(old, t)
    BY DEF Send, LimiterInv, Basic
  <1>4. DOMAIN old = 1..n - 1 /\ \A k \in 1..n - 1 : old[k] \in Nat
    <2>1. 1..n - 1 = 1..Len(accepted[s])
      BY <1>a
    <2> QED BY <1>a, <2>1
  <1>5. new \in Seq(Times) /\ DOMAIN new = 1..n /\ new[n] = t
        /\ \A k \in 1..n - 1 : new[k] = old[k]
    BY <1>2, <1>3, <1>4
  <1> HIDE DEF new, old, t, n
  <1>6. \A k \in 1..n - 1 : old[k] <= t /\ \A j \in 1..n - 1 : j <= k => old[j] <= old[k]
    BY <1>4 DEF LimiterInv, Limiter, InOrder, old, t
  <1>7. socket[s] = "open" /\ socket' = socket /\ now' = now
    BY DEF Send
  <1>8. DOMAIN Fresh(s) = {k \in 1..n - 1 : old[k] > t - Window}
    BY <1>4, <1>7, <1>e DEF old, t
  <1>9. Cardinality(DOMAIN Fresh(s)) \in Nat /\ Cardinality(DOMAIN Fresh(s)) < RateMax
    BY <1>1, <1>d DEF Send, Full
  <1>10. InOrder(s)'
    <2>1. Ms(now)' = t
      BY <1>7 DEF Ms, t
    <2>2. ASSUME NEW k \in 1..n PROVE new[k] <= t
      BY <1>1, <1>5, <1>6
    <2>3. ASSUME NEW k \in 1..n, NEW j \in 1..n, j <= k PROVE new[j] <= new[k]
      <3>1. CASE k = n
        BY <1>1, <1>5, <2>2, <3>1
      <3>2. CASE k \in 1..n - 1
        BY <1>1, <1>5, <1>6, <2>3, <3>2
      <3> QED BY <1>1, <3>1, <3>2
    <2> QED BY <1>5, <2>1, <2>2, <2>3 DEF InOrder, new
  <1>11. Spread(s)'
    <2> SUFFICES ASSUME NEW k \in 1..n, k + RateMax \in 1..n
                 PROVE  new[k + RateMax] - new[k] >= Window
      BY <1>5 DEF Spread, new
    <2>1. CASE k + RateMax < n
      <3>1. k \in 1..n - 1 /\ k + RateMax \in 1..n - 1
        BY <1>1, <2>1
      <3>2. Spread(s)
        BY DEF LimiterInv, Limiter
      <3>3. old[k + RateMax] - old[k] >= Window
        BY <1>4, <3>1, <3>2 DEF Spread, old
      <3> QED BY <1>5, <3>1, <3>3
    <2>2. CASE k + RateMax = n
      <3>0. RateMax > 0 /\ k \in 1..n - 1
        BY <1>1, <1>9, <2>2
      <3>1. ASSUME old[k] > t - Window PROVE FALSE
        <4>1. \A j \in k..n - 1 : old[j] > t - Window
          BY <1>1, <1>4, <1>6, <3>0, <3>1
        <4>2. k..n - 1 \subseteq DOMAIN Fresh(s)
          BY <1>1, <1>8, <3>0, <4>1
        <4>3. Cardinality(k..n - 1) = RateMax
          <5>1. k \in Int /\ n - 1 \in Int /\ n - 1 - k + 1 = RateMax /\ k <= n - 1
            BY <1>1, <2>2, <3>0
          <5> QED BY <5>1, FS_Interval
        <4>4. Cardinality(k..n - 1) <= Cardinality(DOMAIN Fresh(s))
          BY <1>d, <4>2, FS_Subset
        <4> QED BY <1>1, <1>9, <4>3, <4>4
      <3> QED BY <1>1, <1>4, <1>5, <2>2, <3>0, <3>1
    <2> QED BY <1>1, <2>1, <2>2
  <1>12. Remembered(s)'
    <2>1. recent'[s] = [k \in DOMAIN Fresh(s) \cup {n} |-> IF k = n THEN t ELSE Fresh(s)[k]]
      BY DEF Send, LimiterInv, Basic, n, t
    <2>2. DOMAIN recent'[s] = DOMAIN Fresh(s) \cup {n} /\ n \notin DOMAIN Fresh(s)
      BY <1>1, <1>8, <2>1
    <2>3. Cardinality(DOMAIN recent'[s]) = Cardinality(DOMAIN Fresh(s)) + 1
      BY <1>d, <2>2, FS_AddElement
    <2>4. Cardinality(DOMAIN recent'[s]) <= RateMax
      BY <1>1, <1>9, <2>3
    <2>5. DOMAIN recent'[s] \subseteq 1..n
      BY <1>1, <1>8, <2>2
    <2>6. \A k \in DOMAIN recent'[s] : recent'[s][k] = new[k]
      <3> SUFFICES ASSUME NEW k \in DOMAIN recent'[s] PROVE recent'[s][k] = new[k]
        OBVIOUS
      <3>1. CASE k = n
        BY <1>5, <2>1, <2>2, <3>1
      <3>2. CASE k \in DOMAIN Fresh(s) /\ k # n
        <4>1. recent'[s][k] = Fresh(s)[k]
          BY <2>1, <3>2
        <4>2. k \in 1..n - 1 /\ Fresh(s)[k] = old[k]
          BY <1>8, <1>c, <3>2 DEF old
        <4> QED BY <1>5, <4>1, <4>2
      <3> QED BY <2>2, <3>1, <3>2
    <2>7. \A k \in 1..n : k \in DOMAIN recent'[s] \/ new[k] <= t - Window
      BY <1>1, <1>4, <1>5, <1>8, <2>2
    <2> QED BY <1>5, <1>7, <2>4, <2>5, <2>6, <2>7 DEF Remembered, new, t
  <1> QED BY <1>5, <1>10, <1>11, <1>12 DEF Limiter, new

LEMMA LimiterNext == LimiterInv /\ [Next]_vars => LimiterInv'
  <1> SUFFICES ASSUME LimiterInv, [Next]_vars PROVE LimiterInv'
    OBVIOUS
  <1>0. now \in Nat /\ Ms(now) <= Ms(now)
    BY MsOf, ConstantsAssumption DEF LimiterInv, Basic, Times
  <1>1. ASSUME UNCHANGED <<now, socket, recent, accepted>> PROVE LimiterInv'
    BY <1>0, <1>1, LimiterKept DEF LimiterInv, Basic
  <1>2. CASE Tick
    BY <1>0, <1>2, MsGrows, LimiterKept, ConstantsAssumption DEF Tick, LimiterInv, Basic, Times
  <1>3. ASSUME NEW s \in Sockets, Connect(s) PROVE LimiterInv'
    BY <1>0, <1>3, LimiterKept DEF Connect, LimiterInv, Basic
  <1>4. ASSUME NEW s \in Sockets, Disconnect(s) PROVE LimiterInv'
    <2>1. \A u \in Sockets \ {s} : Limiter(u)'
      BY <1>0, <1>4, LimiterKept DEF Disconnect, LimiterInv, Basic
    <2>2. recent'[s] = NoSends /\ socket'[s] = "closed" /\ accepted' = accepted /\ now' = now
      BY <1>4 DEF Disconnect, LimiterInv, Basic
    <2>3. DOMAIN NoSends = {} /\ Cardinality({}) = 0 /\ RateMax \in Nat
      BY FS_EmptySet, ConstantsAssumption DEF NoSends
    <2>4. Limiter(s)'
      BY <2>2, <2>3 DEF LimiterInv, Limiter, Remembered, InOrder, Spread
    <2>5. Basic'
      BY <1>4 DEF Disconnect, LimiterInv, Basic
    <2> QED BY <2>1, <2>4, <2>5 DEF LimiterInv
  <1>5. ASSUME NEW s \in Sockets, Send(s) PROVE LimiterInv'
    <2>1. \A u \in Sockets \ {s} : Limiter(u)'
      BY <1>0, <1>5, LimiterKept DEF Send, LimiterInv, Basic
    <2>2. Limiter(s)' /\ accepted'[s] \in Seq(Times)
      BY <1>5, SendLimited
    <2>3. Basic'
      BY <1>5, <2>2 DEF Send, LimiterInv, Basic
    <2> QED BY <2>1, <2>2, <2>3 DEF LimiterInv
  <1>6. ASSUME NEW s \in Sockets, Refuse(s) PROVE LimiterInv'
    BY <1>0, <1>6, LimiterKept DEF Refuse, LimiterInv, Basic
  <1>7. CASE UNCHANGED vars
    BY <1>1, <1>7 DEF vars
  <1>8. ASSUME NEW s \in Sockets, LeaveChat(s) \/ JoinChat(s) \/ LoadHistory(s)
        PROVE  LimiterInv'
    BY <1>1, <1>8 DEF LeaveChat, JoinChat, LoadHistory
  <1>9. ASSUME NEW m \in DOMAIN messages, Write(m) \/ Reject(m) \/ Store(m) \/ Tell(m) \/ Purge(m)
        PROVE  LimiterInv'
    BY <1>1, <1>9 DEF Write, Reject, Store, Tell, Purge, Stage
  <1> QED BY <1>2, <1>3, <1>4, <1>5, <1>6, <1>7, <1>8, <1>9 DEF Next

\* The limiter is exact for every rate and window, however many connections send and
\* whenever they do: no RateMax + 1 sends of a connection pass within the window, and
\* none is refused while fewer than RateMax are in it.
THEOREM LimiterIsExact == Spec => []RateExact
  <1>1. LimiterInv => RateExact
    <2> SUFFICES ASSUME LimiterInv PROVE RateExact
      OBVIOUS
    <2>1. NeverTooMany
      BY DEF LimiterInv, Limiter, Spread, NeverTooMany
    <2>2. NeverTooStrict
      <3> SUFFICES ASSUME NEW s \in Sockets, socket[s] = "open", Full(s)
                   PROVE  Cardinality({k \in DOMAIN accepted[s] :
                                accepted[s][k] > Ms(now) - Window}) >= RateMax
        BY DEF NeverTooStrict
      <3> QED BY FreshSends DEF Full
    <2> QED BY <2>1, <2>2 DEF RateExact
  <1> QED BY <1>1, LimiterInit, LimiterNext, PTL DEF Spec

-----------------------------------------------------------------------------
(* The history: what a client who pages back has reached.                    *)

\* Messages whose time is not set again, and that nobody sees before they are so.
Settled == {m \in DOMAIN messages : messages[m].stage \in {"stored", "told", "gone"}}

\* Another message of the same millisecond has been seen.
TwinSeen(s, m) ==
    \E k \in DOMAIN messages \ {m} :
        k \in client[s].seen /\ Ms(messages[k].at) = Ms(messages[m].at)

\* The next page is to bring it, or one after that.
Ahead(s, m) ==
    /\ client[s].state = "more"
    /\ client[s].cursor \in Visible =>
            messages[m].at < Sub * Ms(messages[client[s].cursor].at)

ClientOK(s) ==
    /\ client[s].seen \subseteq Settled
    /\ client[s].cursor = 0 \/ client[s].cursor \in client[s].seen
    /\ client[s].state = "new" => client[s].cursor = 0
    /\ client[s].state # "new" =>
        /\ s \in room
        /\ \A m \in DOMAIN messages : messages[m].stage = "told" =>
                m \in client[s].seen \/ TwinSeen(s, m) \/ Ahead(s, m)

Rows ==
    /\ room \subseteq Sockets /\ client \in [Sockets -> Client]
    /\ messages \in Seq(Message) /\ Len(messages) <= MaxSent
    /\ \A s \in Sockets : Len(accepted[s]) <= Len(messages)

HistoryInv == Rows /\ \A s \in Sockets : ClientOK(s)

\* What is remembered of the sends of a connection is a function.
SendsOK == \A s \in Sockets : recent[s] = [k \in DOMAIN recent[s] |-> recent[s][k]]

\* Of two times that a millisecond's start does not part.
LEMMA SameMs ==
    ASSUME NEW a \in Nat, NEW b \in Nat, a <= b, ~(a < Sub * Ms(b))
    PROVE  Ms(a) = Ms(b)
  <1> DEFINE q == a \div Sub
             p == b \div Sub
  <1>0. Sub \in Nat \ {0}
    BY ConstantsAssumption
  <1>1. q \in Int /\ a % Sub \in 0..Sub - 1 /\ a = Sub * q + (a % Sub)
    BY <1>0, Z3
  <1>2. p \in Int /\ b % Sub \in 0..Sub - 1 /\ b = Sub * p + (b % Sub)
    BY <1>0, Z3
  <1>3. ~(a < Sub * p)
    BY DEF Ms
  <1> HIDE DEF q, p
  <1>4. Sub * p \in Int /\ Sub * q \in Int
    BY <1>0, <1>1, <1>2, Z3
  <1>5. ASSUME q < p PROVE FALSE
    <2>1. Sub * (q + 1) <= Sub * p
      BY <1>0, <1>1, <1>2, <1>5, Z3
    <2>2. Sub * (q + 1) = Sub * q + Sub
      BY <1>0, <1>1, Z3
    <2> QED BY <1>0, <1>1, <1>3, <1>4, <2>1, <2>2
  <1>6. ASSUME p < q PROVE FALSE
    <2>1. Sub * (p + 1) <= Sub * q
      BY <1>0, <1>1, <1>2, <1>6, Z3
    <2>2. Sub * (p + 1) = Sub * p + Sub
      BY <1>0, <1>2, Z3
    <2> QED BY <1>0, <1>1, <1>2, <1>4, <2>1, <2>2
  <1>7. q = p
    BY <1>1, <1>2, <1>5, <1>6
  <1> QED BY <1>7 DEF Ms, q, p

LEMMA MessagesAre ==
    ASSUME Rows
    PROVE  /\ DOMAIN messages = 1..Len(messages) /\ Len(messages) \in Nat
           /\ \A m \in DOMAIN messages : messages[m] \in Message /\ messages[m].at \in Nat
           /\ Visible \subseteq Settled /\ Settled \subseteq DOMAIN messages
           /\ IsFiniteSet(Visible) /\ 0 \notin DOMAIN messages
           /\ DOMAIN messages \subseteq Numbers
  <1>1. messages \in Seq(Message) /\ Len(messages) <= MaxSent
    BY DEF Rows
  <1>2. /\ DOMAIN messages = 1..Len(messages) /\ Len(messages) \in Nat
        /\ \A m \in DOMAIN messages : messages[m] \in Message
    BY <1>1, LenProperties, ElementOfSeq
  <1>3. \A m \in DOMAIN messages : messages[m].at \in Nat
    BY <1>2, ConstantsAssumption DEF Message, Times
  <1>4. Visible \subseteq Settled /\ Settled \subseteq DOMAIN messages
    BY DEF Visible, Settled
  <1>5. IsFiniteSet(Visible)
    <2>1. Visible \subseteq 1..Len(messages)
      BY <1>2 DEF Visible
    <2>2. 1 \in Int /\ Len(messages) \in Int
      BY <1>2
    <2>3. IsFiniteSet(1..Len(messages))
      BY <2>2, FS_Interval
    <2> QED BY <2>1, <2>3, FS_Subset
  <1>6. DOMAIN messages \subseteq Numbers
    BY <1>1, <1>2, ConstantsAssumption DEF Numbers
  <1> QED BY <1>2, <1>3, <1>4, <1>5, <1>6

\* A step that shows nobody a message leaves a client where it is.
LEMMA ClientKept ==
    ASSUME Rows, NEW s \in Sockets, ClientOK(s), client'[s] = client[s],
           s \in room => s \in room',
           DOMAIN messages \subseteq DOMAIN messages', 0 \notin DOMAIN messages',
           \A m \in Settled :
                /\ messages'[m].at = messages[m].at
                /\ messages'[m].stage \in {"stored", "told", "gone"}
                /\ messages'[m].stage = "told" => messages[m].stage = "told"
                /\ messages'[m].stage \in {"stored", "told"} =>
                        messages[m].stage \in {"stored", "told"},
           \A m \in DOMAIN messages' :
                messages'[m].stage = "told" => m \in Settled
    PROVE  ClientOK(s)'
  <1>1. PICK c : c = client[s]
    OBVIOUS
  <1>2. c.seen \subseteq Settled /\ Settled \subseteq DOMAIN messages
    BY <1>1, MessagesAre DEF ClientOK
  <1>3. c.seen \subseteq Settled'
    BY <1>2 DEF Settled
  <1>4. ASSUME c.state # "new", NEW m \in DOMAIN messages', messages'[m].stage = "told"
        PROVE  m \in c.seen \/ TwinSeen(s, m)' \/ Ahead(s, m)'
    <2>1. m \in Settled /\ messages[m].stage = "told" /\ messages'[m].at = messages[m].at
      BY <1>4
    <2>2. m \in c.seen \/ TwinSeen(s, m) \/ Ahead(s, m)
      BY <1>1, <1>2, <1>4, <2>1 DEF ClientOK
    <2>3. ASSUME TwinSeen(s, m) PROVE TwinSeen(s, m)'
      <3>1. PICK k \in DOMAIN messages \ {m} :
                k \in c.seen /\ Ms(messages[k].at) = Ms(messages[m].at)
        BY <1>1, <2>3 DEF TwinSeen
      <3>2. k \in DOMAIN messages' \ {m} /\ messages'[k].at = messages[k].at
        BY <1>2, <3>1
      <3>3. Ms(messages'[k].at) = Ms(messages'[m].at)
        BY <2>1, <3>1, <3>2
      <3>4. \E j \in DOMAIN messages' \ {m} :
                j \in client'[s].seen /\ Ms(messages'[j].at) = Ms(messages'[m].at)
        BY <1>1, <3>1, <3>2, <3>3
      <3> QED BY <3>4 DEF TwinSeen, Ms
    <2>4. ASSUME Ahead(s, m), m \notin c.seen PROVE Ahead(s, m)'
      <3>1. c.state = "more"
        BY <1>1, <2>4 DEF Ahead
      <3>2. ASSUME c.cursor \in Visible'
            PROVE  messages'[m].at < Sub * Ms(messages'[c.cursor].at)
        <4>1. c.cursor \in DOMAIN messages' /\ messages'[c.cursor].stage \in {"stored", "told"}
          BY <3>2 DEF Visible
        <4>2. c.cursor \in Settled
          <5>1. c.cursor = 0 \/ c.cursor \in c.seen
            BY <1>1 DEF ClientOK
          <5>2. c.cursor # 0
            BY <4>1
          <5> QED BY <1>2, <5>1, <5>2
        <4>3. c.cursor \in Visible /\ messages'[c.cursor].at = messages[c.cursor].at
          BY <1>2, <4>1, <4>2 DEF Visible
        <4>4. messages[m].at < Sub * Ms(messages[c.cursor].at)
          BY <1>1, <2>4, <4>3 DEF Ahead
        <4> QED BY <2>1, <4>3, <4>4
      <3>3. client'[s].cursor \in Visible' =>
                messages'[m].at < Sub * Ms(messages'[client'[s].cursor].at)
        BY <1>1, <3>2
      <3> QED BY <1>1, <3>1, <3>3 DEF Ahead, Ms
    <2> QED BY <2>2, <2>3, <2>4
  <1>5. /\ client'[s].seen \subseteq Settled'
        /\ client'[s].cursor = 0 \/ client'[s].cursor \in client'[s].seen
        /\ client'[s].state = "new" => client'[s].cursor = 0
        /\ client'[s].state # "new" => s \in room'
    BY <1>1, <1>3 DEF ClientOK
  <1> QED BY <1>1, <1>4, <1>5 DEF ClientOK

\* The message that is told is seen by who is in the room.
LEMMA TellKept ==
    ASSUME Rows, NEW s \in Sockets, ClientOK(s), NEW m \in DOMAIN messages, Tell(m)
    PROVE  ClientOK(s)'
  <1>1. PICK c : c = client[s]
    OBVIOUS
  <1>2. c.seen \subseteq Settled /\ Settled \subseteq DOMAIN messages /\ 0 \notin DOMAIN messages
    BY <1>1, MessagesAre DEF ClientOK
  <1>3. messages[m] \in Message /\ messages \in Seq(Message)
    BY MessagesAre DEF Rows
  <1>4. /\ DOMAIN messages' = DOMAIN messages /\ messages[m].stage = "stored"
        /\ messages'[m].stage = "told" /\ messages'[m].at = messages[m].at
        /\ \A k \in DOMAIN messages : k # m => messages'[k] = messages[k]
        /\ room' = room
    BY <1>3 DEF Tell, Stage, Message
  <1>5. client'[s] = IF s \in room THEN [c EXCEPT !.seen = @ \cup {m}] ELSE c
    BY <1>1 DEF Tell
  <1>6. c \in Client
    BY <1>1 DEF Rows
  <1>7. PICK c2 : c2 = client'[s]
    OBVIOUS
  <1>8. /\ c2.state = c.state /\ c2.cursor = c.cursor
        /\ s \in room => c2.seen = c.seen \cup {m}
        /\ s \notin room => c2.seen = c.seen
    BY <1>5, <1>6, <1>7 DEF Client
  <1>9. c2.seen \subseteq Settled'
    <2>1. m \in Settled' /\ Settled \subseteq Settled'
      BY <1>4 DEF Settled
    <2> QED BY <1>2, <1>8, <2>1
  <1>10. ASSUME c2.state # "new", NEW k \in DOMAIN messages', messages'[k].stage = "told"
         PROVE  k \in c2.seen \/ TwinSeen(s, k)' \/ Ahead(s, k)'
    <2>0. s \in room
      BY <1>1, <1>8, <1>10 DEF ClientOK
    <2>1. CASE k = m
      BY <1>8, <2>0, <2>1
    <2>2. CASE k # m
      <3>1. k \in DOMAIN messages /\ messages[k].stage = "told" /\ messages'[k] = messages[k]
        BY <1>4, <1>10, <2>2
      <3>2. k \in c.seen \/ TwinSeen(s, k) \/ Ahead(s, k)
        BY <1>1, <1>8, <1>10, <3>1 DEF ClientOK
      <3>3. ASSUME TwinSeen(s, k) PROVE TwinSeen(s, k)'
        <4>1. PICK j \in DOMAIN messages \ {k} :
                j \in c.seen /\ Ms(messages[j].at) = Ms(messages[k].at)
          BY <1>1, <3>3 DEF TwinSeen
        <4>2. messages'[j].at = messages[j].at /\ j \in DOMAIN messages' \ {k}
          BY <1>4, <4>1
        <4>3. Ms(messages'[j].at) = Ms(messages'[k].at) /\ j \in client'[s].seen
          BY <1>7, <1>8, <2>0, <3>1, <4>1, <4>2
        <4> QED BY <4>2, <4>3 DEF TwinSeen, Ms
      <3>4. ASSUME Ahead(s, k) PROVE Ahead(s, k)'
        <4>1. \A j \in DOMAIN messages : messages'[j].at = messages[j].at
          BY <1>4
        <4>2. Visible' = Visible
          BY <1>4 DEF Visible
        <4>3. /\ c.state = "more"
              /\ c.cursor \in Visible => messages[k].at < Sub * Ms(messages[c.cursor].at)
          BY <1>1, <3>4 DEF Ahead
        <4>4. c.cursor \in Visible' => messages'[k].at < Sub * Ms(messages'[c.cursor].at)
          <5>1. c.cursor \in Visible => messages'[c.cursor].at = messages[c.cursor].at
            BY <4>1 DEF Visible
          <5> QED BY <3>1, <4>2, <4>3, <5>1
        <4>5. client'[s].cursor = c.cursor /\ client'[s].state = "more"
          BY <1>7, <1>8, <4>3
        <4> QED BY <4>4, <4>5 DEF Ahead, Ms
      <3> QED BY <1>8, <3>2, <3>3, <3>4
    <2> QED BY <2>1, <2>2
  <1>11. /\ c2.cursor = 0 \/ c2.cursor \in c2.seen
         /\ c2.state = "new" => c2.cursor = 0
         /\ c2.state # "new" => s \in room'
    BY <1>1, <1>4, <1>8 DEF ClientOK
  <1> QED BY <1>7, <1>9, <1>10, <1>11 DEF ClientOK

\* A page that is loaded: what it does not bring was reached before, or is older than
\* it, or of the millisecond of its oldest message.
LEMMA PageKept ==
    ASSUME Rows, NEW s \in Sockets, ClientOK(s), LoadHistory(s)
    PROVE  ClientOK(s)' /\ client'[s] \in Client
  <1>1. PICK c : c = client[s]
    OBVIOUS
  <1>2. PICK S : S = Older(c.cursor)
    OBVIOUS
  <1>3. PICK P \in SUBSET S :
            /\ IsPage(P, S)
            /\ \E q \in IF P = {} THEN {0}
                        ELSE {p \in P : \A m \in P : messages[p].at <= messages[m].at} :
                client' = [client EXCEPT ![s] =
                            [state |-> IF HasMore(S) THEN "more" ELSE "all",
                             seen |-> @.seen \cup P, cursor |-> q]]
    BY <1>1, <1>2 DEF LoadHistory
  <1>4. PICK q \in IF P = {} THEN {0}
                   ELSE {p \in P : \A m \in P : messages[p].at <= messages[m].at} :
            client' = [client EXCEPT ![s] =
                        [state |-> IF HasMore(S) THEN "more" ELSE "all",
                         seen |-> @.seen \cup P, cursor |-> q]]
    BY <1>3
  <1>5. PICK c2 : c2 = client'[s]
    OBVIOUS
  <1>6. /\ c2.state = IF HasMore(S) THEN "more" ELSE "all"
        /\ c2.seen = c.seen \cup P /\ c2.cursor = q
    BY <1>1, <1>4, <1>5 DEF Rows
  <1>7. messages' = messages /\ room' = room /\ s \in room /\ c.state # "all" /\ c \in Client
    BY <1>1 DEF LoadHistory, Rows
  <1>8. /\ Visible \subseteq Settled /\ Settled \subseteq DOMAIN messages
        /\ IsFiniteSet(Visible) /\ 0 \notin DOMAIN messages /\ DOMAIN messages \subseteq Numbers
        /\ \A m \in DOMAIN messages : messages[m].at \in Nat
    BY MessagesAre
  <1>9. S \subseteq Visible
    BY <1>2 DEF Older
  <1>10. IsFiniteSet(S) /\ Cardinality(S) \in Nat /\ IsFiniteSet(P) /\ Cardinality(P) \in Nat
    BY <1>8, <1>9, FS_Subset, FS_CardinalityType
  <1>11. Limit \in Nat \ {0}
    BY ConstantsAssumption
  <1>12. /\ \A p \in P, m \in S \ P : messages[p].at >= messages[m].at
         /\ Cardinality(P) = IF Cardinality(S) > Limit THEN Limit ELSE Cardinality(S)
    BY <1>3 DEF IsPage
  <1>13. ASSUME HasMore(S) PROVE P # {} /\ q \in P
    <2>1. Cardinality(P) # 0
      BY <1>11, <1>12, <1>13 DEF HasMore
    <2>2. P # {}
      BY <2>1, FS_EmptySet
    <2> QED BY <1>4, <2>2
  <1>14. ASSUME ~HasMore(S) PROVE P = S
    <2>1. Cardinality(P) = Cardinality(S)
      BY <1>10, <1>11, <1>12, <1>14 DEF HasMore
    <2> QED BY <1>10, <2>1, FS_Subset
  <1>15. ASSUME NEW m \in DOMAIN messages, messages[m].stage = "told"
         PROVE  m \in c2.seen \/ TwinSeen(s, m)' \/ Ahead(s, m)'
    <2>0. m \in Visible
      BY <1>15 DEF Visible
    <2>1. CASE m \in P
      BY <1>6, <2>1
    <2>2. CASE m \in S /\ m \notin P
      <3>1. HasMore(S)
        BY <1>14, <2>2
      <3>2. q \in P /\ c2.state = "more"
        BY <1>6, <1>13, <3>1
      <3>3. messages[q].at >= messages[m].at /\ messages[q].at \in Nat /\ messages[m].at \in Nat
        BY <1>8, <1>9, <1>12, <2>2, <3>2
      <3>4. CASE messages[m].at < Sub * Ms(messages[q].at)
        <4>1. Ahead(s, m)'
          <5>1. c2.cursor = q
            BY <1>6
          <5>2. messages'[m].at < Sub * Ms(messages'[q].at)
            BY <1>7, <3>4
          <5> QED BY <1>5, <3>2, <5>1, <5>2 DEF Ahead, Ms
        <4> QED BY <4>1
      <3>5. CASE ~(messages[m].at < Sub * Ms(messages[q].at))
        <4>1. Ms(messages[m].at) = Ms(messages[q].at)
          BY <3>3, <3>5, SameMs
        <4>2. q \in DOMAIN messages' \ {m} /\ q \in client'[s].seen
          BY <1>5, <1>6, <1>7, <1>8, <1>9, <2>2, <3>2
        <4>3. TwinSeen(s, m)'
          BY <1>7, <4>1, <4>2 DEF TwinSeen, Ms
        <4> QED BY <4>3
      <3> QED BY <3>4, <3>5
    <2>3. CASE m \notin S
      <3>1. c.cursor \in Visible /\ ~(messages[m].at < Sub * Ms(messages[c.cursor].at))
        BY <1>2, <2>0, <2>3 DEF Older
      <3>2. c.state = "more"
        <4>1. c.cursor # 0
          BY <1>8, <3>1
        <4>2. c.state # "new"
          BY <1>1, <4>1 DEF ClientOK
        <4> QED BY <1>7, <4>2 DEF Client
      <3>3. m \in c.seen \/ TwinSeen(s, m)
        BY <1>1, <1>15, <3>1, <3>2 DEF ClientOK, Ahead
      <3>4. ASSUME TwinSeen(s, m) PROVE TwinSeen(s, m)'
        <4>1. PICK k \in DOMAIN messages \ {m} :
                k \in c.seen /\ Ms(messages[k].at) = Ms(messages[m].at)
          BY <1>1, <3>4 DEF TwinSeen
        <4>2. k \in client'[s].seen
          BY <1>5, <1>6, <4>1
        <4> QED BY <1>7, <4>1, <4>2 DEF TwinSeen, Ms
      <3> QED BY <1>6, <3>3, <3>4
    <2> QED BY <2>1, <2>2, <2>3
  <1>16. c2.seen \subseteq Settled'
    <2>1. Settled' = Settled
      BY <1>7 DEF Settled
    <2> QED BY <1>1, <1>6, <1>8, <1>9, <2>1 DEF ClientOK
  <1>17. c2.state # "new" /\ (c2.cursor = 0 \/ c2.cursor \in c2.seen)
    BY <1>4, <1>6
  <1>18. ClientOK(s)'
    BY <1>5, <1>7, <1>15, <1>16, <1>17 DEF ClientOK
  <1>19. client'[s] \in Client
    <2>1. c2.seen \in SUBSET Numbers
      BY <1>6, <1>7, <1>8, <1>9 DEF Client
    <2>2. q \in Nat
      BY <1>4, <1>8, <1>9, ConstantsAssumption DEF Numbers
    <2>3. client'[s] = [state |-> IF HasMore(S) THEN "more" ELSE "all",
                        seen |-> c.seen \cup P, cursor |-> q]
      BY <1>1, <1>4 DEF Rows
    <2> QED BY <1>5, <1>6, <2>1, <2>2, <2>3 DEF Client
  <1> QED BY <1>18, <1>19

\* The messages that a step of one of them leaves: the others are as they were.
LEMMA MessageStep ==
    ASSUME Rows, NEW m \in DOMAIN messages, now \in Times,
           Write(m) \/ Reject(m) \/ Store(m) \/ Tell(m) \/ Purge(m)
    PROVE  /\ messages' \in Seq(Message) /\ Len(messages') = Len(messages)
           /\ DOMAIN messages' = DOMAIN messages
           /\ UNCHANGED <<room, accepted>>
           /\ \A k \in DOMAIN messages : k # m => messages'[k] = messages[k]
           /\ \/ /\ messages[m].stage \in {"checking", "writing"}
                 /\ messages'[m].stage \in {"writing", "stored", "gone"}
              \/ /\ messages[m].stage \in {"stored", "told"}
                 /\ messages'[m].at = messages[m].at
                 /\ messages'[m].stage = "gone" \/ Tell(m)
  <1>1. messages \in Seq(Message) /\ messages[m] \in Message
    BY MessagesAre DEF Rows
  <1>2. ASSUME NEW from, NEW to \in Stages, Stage(m, from, to)
        PROVE  /\ messages[m].stage = from
               /\ messages' = [messages EXCEPT ![m] = [messages[m] EXCEPT !.stage = to]]
               /\ [messages[m] EXCEPT !.stage = to] \in Message
               /\ messages'[m].at = messages[m].at /\ messages'[m].stage = to
               /\ UNCHANGED <<room, accepted>>
    BY <1>1, <1>2 DEF Stage, Message
  <1>3. ASSUME NEW row \in Message, messages' = [messages EXCEPT ![m] = row]
        PROVE  /\ messages' \in Seq(Message) /\ Len(messages') = Len(messages)
               /\ DOMAIN messages' = DOMAIN messages
               /\ messages'[m] = row
               /\ \A k \in DOMAIN messages : k # m => messages'[k] = messages[k]
    BY <1>1, <1>3, ExceptSeq
  <1>4. CASE Write(m)
    <2>1. [at |-> now, stage |-> "writing"] \in Message
      BY DEF Message, Stages
    <2>2. /\ messages' = [messages EXCEPT ![m] = [at |-> now, stage |-> "writing"]]
          /\ messages[m].stage = "checking" /\ UNCHANGED <<room, accepted>>
      BY <1>4 DEF Write
    <2> QED BY <1>3, <2>1, <2>2
  <1>5. CASE Reject(m)
    <2>1. messages[m].stage \in {"checking", "writing"} /\ Stage(m, messages[m].stage, "gone")
          /\ "gone" \in Stages
      BY <1>5 DEF Reject, Stages
    <2> QED BY <1>2, <1>3, <2>1
  <1>6. CASE Store(m)
    <2>1. Stage(m, "writing", "stored") /\ "stored" \in Stages
      BY <1>6 DEF Store, Stages
    <2> QED BY <1>2, <1>3, <2>1
  <1>7. CASE Tell(m)
    <2>1. Stage(m, "stored", "told") /\ "told" \in Stages
      BY <1>7 DEF Tell, Stages
    <2> QED BY <1>2, <1>3, <1>7, <2>1
  <1>8. CASE Purge(m)
    <2>1. Stage(m, "told", "gone") /\ "gone" \in Stages
      BY <1>8 DEF Purge, Stages
    <2> QED BY <1>2, <1>3, <2>1
  <1> QED BY <1>4, <1>5, <1>6, <1>7, <1>8

\* A client that asks for nothing, and has seen nothing.
LEMMA NewClientOK ==
    ASSUME NEW s \in Sockets, client'[s] = NewClient
    PROVE  ClientOK(s)' /\ NewClient \in Client
  <1>1. /\ NewClient.seen = {} /\ NewClient.state = "new" /\ NewClient.cursor = 0
        /\ NewClient \in Client
    BY DEF NewClient, Client
  <1> QED BY <1>1 DEF ClientOK

LEMMA SeenStays ==
    ASSUME HistoryInv, UNCHANGED <<messages, client>>, room \subseteq room'
    PROVE  \A s \in Sockets : ClientOK(s)'
  <1> SUFFICES ASSUME NEW s \in Sockets PROVE ClientOK(s)'
    OBVIOUS
  <1>1. Rows /\ ClientOK(s)
    BY DEF HistoryInv
  <1>2. DOMAIN messages' = DOMAIN messages /\ 0 \notin DOMAIN messages
    BY <1>1, MessagesAre
  <1> QED BY <1>1, <1>2, ClientKept DEF Settled

LEMMA HistoryInit == ASSUME Init PROVE HistoryInv
  <1>1. NewClient \in Client
    BY DEF NewClient, Client
  <1>2. <<>> \in Seq(Message) /\ Len(<<>>) = 0 /\ DOMAIN <<>> = {}
    BY EmptySeq
  <1>3. Rows
    BY <1>1, <1>2, ConstantsAssumption DEF Rows, Init
  <1>4. ASSUME NEW s \in Sockets PROVE ClientOK(s)
    <2>1. client[s].seen = {} /\ client[s].cursor = 0 /\ client[s].state = "new"
      BY DEF Init, NewClient
    <2> QED BY <2>1 DEF ClientOK
  <1> QED BY <1>3, <1>4 DEF HistoryInv

LEMMA HistoryNext == ASSUME LimiterInv, HistoryInv, [Next]_vars PROVE HistoryInv'
  <1>0. /\ Rows /\ \A s \in Sockets : ClientOK(s)
        /\ room \subseteq Sockets /\ client \in [Sockets -> Client]
        /\ messages \in Seq(Message) /\ Len(messages) <= MaxSent
        /\ \A s \in Sockets : Len(accepted[s]) <= Len(messages)
        /\ now \in Times
    BY DEF HistoryInv, Rows, LimiterInv, Basic
  <1>1. ASSUME UNCHANGED <<messages, client, accepted>>, room \subseteq room',
               room' \subseteq Sockets
        PROVE  HistoryInv'
    BY <1>0, <1>1, SeenStays DEF HistoryInv, Rows
  <1>2. CASE UNCHANGED vars \/ Tick
    BY <1>0, <1>1, <1>2 DEF vars, Tick
  <1>3. ASSUME NEW s \in Sockets, Connect(s) \/ JoinChat(s) \/ Refuse(s) PROVE HistoryInv'
    BY <1>0, <1>1, <1>3 DEF Connect, JoinChat, Refuse
  <1>4. ASSUME NEW s \in Sockets, Disconnect(s) \/ LeaveChat(s) PROVE HistoryInv'
    <2>1. /\ messages' = messages /\ accepted' = accepted /\ room' = room \ {s}
          /\ client' = [client EXCEPT ![s] = NewClient]
      BY <1>4 DEF Disconnect, LeaveChat
    <2>2. client'[s] = NewClient
      BY <1>0, <2>1
    <2>3. ClientOK(s)' /\ NewClient \in Client
      BY <2>2, NewClientOK
    <2>4. ASSUME NEW u \in Sockets, u # s PROVE ClientOK(u)'
      <3>1. client'[u] = client[u] /\ (u \in room => u \in room')
        BY <1>0, <2>1, <2>4
      <3>2. DOMAIN messages' = DOMAIN messages /\ 0 \notin DOMAIN messages
        BY <1>0, <2>1, MessagesAre
      <3> QED BY <1>0, <2>1, <3>1, <3>2, ClientKept DEF Settled
    <2>5. Rows'
      BY <1>0, <2>1, <2>3 DEF Rows
    <2> QED BY <2>3, <2>4, <2>5 DEF HistoryInv
  <1>5. ASSUME NEW s \in Sockets, Send(s) PROVE HistoryInv'
    <2> DEFINE row == [at |-> 0, stage |-> "checking"]
    <2>1. /\ messages' = Append(messages, row) /\ Len(messages) < MaxSent
          /\ accepted' = [accepted EXCEPT ![s] = Append(@, Ms(now))]
          /\ UNCHANGED <<room, client>>
      BY <1>5 DEF Send
    <2>2. row \in Message
      BY ConstantsAssumption DEF Message, Stages, Times
    <2>3. Len(messages) \in Nat /\ DOMAIN messages = 1..Len(messages)
      BY <1>0, MessagesAre
    <2> HIDE DEF row
    <2>4. /\ messages' \in Seq(Message) /\ Len(messages') = Len(messages) + 1
          /\ DOMAIN messages' = 1..Len(messages) + 1
          /\ messages'[Len(messages) + 1] = row
          /\ \A m \in 1..Len(messages) : messages'[m] = messages[m]
      BY <1>0, <2>1, <2>2, <2>3
    <2>5. \A u \in Sockets : Len(accepted'[u]) <= Len(messages')
      <3>1. \A u \in Sockets : accepted[u] \in Seq(Times) /\ Len(accepted[u]) \in Nat
        BY LenProperties DEF LimiterInv, Basic
      <3>2. Ms(now) \in Times
        <4>1. now \in Nat
          BY <1>0, ConstantsAssumption DEF Times
        <4>2. Ms(now) \in Nat /\ Ms(now) <= now
          BY <4>1, MsOf
        <4> QED BY <1>0, <4>1, <4>2, ConstantsAssumption DEF Times
      <3>3. Len(Append(accepted[s], Ms(now))) = Len(accepted[s]) + 1
        BY <3>1, <3>2
      <3>4. accepted'[s] = Append(accepted[s], Ms(now))
            /\ \A u \in Sockets : u # s => accepted'[u] = accepted[u]
        BY <2>1 DEF LimiterInv, Basic
      <3> QED BY <1>0, <2>3, <2>4, <3>1, <3>3, <3>4
    <2>6. Rows'
      BY <1>0, <2>1, <2>3, <2>4, <2>5, ConstantsAssumption DEF Rows
    <2>7. ASSUME NEW u \in Sockets PROVE ClientOK(u)'
      <3>1. DOMAIN messages \subseteq DOMAIN messages' /\ 0 \notin DOMAIN messages'
        BY <2>3, <2>4
      <3>2. \A m \in Settled : messages'[m] = messages[m]
        BY <2>3, <2>4 DEF Settled
      <3>3. \A m \in DOMAIN messages' : messages'[m].stage = "told" => m \in Settled
        <4>1. row.stage = "checking"
          BY DEF row
        <4> QED BY <2>3, <2>4, <4>1 DEF Settled
      <3> QED BY <1>0, <2>1, <3>1, <3>2, <3>3, ClientKept DEF Settled
    <2> QED BY <2>6, <2>7 DEF HistoryInv
  <1>6. ASSUME NEW s \in Sockets, LoadHistory(s) PROVE HistoryInv'
    <2>1. ClientOK(s)' /\ client'[s] \in Client
      BY <1>0, <1>6, PageKept
    <2>2. /\ UNCHANGED <<room, accepted, messages>>
          /\ \A u \in Sockets : u # s => client'[u] = client[u]
          /\ client' \in [Sockets -> Client]
      BY <1>0, <1>6, <2>1 DEF LoadHistory
    <2>3. ASSUME NEW u \in Sockets, u # s PROVE ClientOK(u)'
      <3>1. client'[u] = client[u]
        BY <2>2, <2>3
      <3>2. DOMAIN messages' = DOMAIN messages /\ 0 \notin DOMAIN messages
        BY <1>0, <2>2, MessagesAre
      <3> QED BY <1>0, <2>2, <3>1, <3>2, ClientKept DEF Settled
    <2>4. Rows'
      BY <1>0, <2>2 DEF Rows
    <2> QED BY <2>1, <2>3, <2>4 DEF HistoryInv
  <1>7. ASSUME NEW m \in DOMAIN messages,
               Write(m) \/ Reject(m) \/ Store(m) \/ Tell(m) \/ Purge(m)
        PROVE  HistoryInv'
    <2>1. /\ messages' \in Seq(Message) /\ Len(messages') = Len(messages)
          /\ DOMAIN messages' = DOMAIN messages
          /\ UNCHANGED <<room, accepted>>
          /\ \A k \in DOMAIN messages : k # m => messages'[k] = messages[k]
          /\ \/ /\ messages[m].stage \in {"checking", "writing"}
                /\ messages'[m].stage \in {"writing", "stored", "gone"}
             \/ /\ messages[m].stage \in {"stored", "told"}
                /\ messages'[m].at = messages[m].at
                /\ messages'[m].stage = "gone" \/ Tell(m)
      BY <1>0, <1>7, MessageStep
    <2>2. CASE Tell(m)
      <3>1. client' \in [Sockets -> Client]
        <4>1. client' = [s \in Sockets |-> IF s \in room THEN [client[s] EXCEPT !.seen = @ \cup {m}]
                                           ELSE client[s]]
          BY <2>2 DEF Tell
        <4>2. m \in Numbers
          BY <1>0, MessagesAre
        <4>3. ASSUME NEW s \in Sockets PROVE [client[s] EXCEPT !.seen = @ \cup {m}] \in Client
          <5>1. client[s] \in Client
            BY <1>0
          <5> QED BY <4>2, <5>1 DEF Client
        <4> QED BY <1>0, <4>1, <4>3
      <3>2. Rows'
        BY <1>0, <2>1, <3>1 DEF Rows
      <3> QED BY <1>0, <2>2, <3>2, TellKept DEF HistoryInv
    <2>3. CASE ~Tell(m)
      <3>1. client' = client
        BY <1>7, <2>3 DEF Write, Reject, Store, Purge
      <3>2. Rows'
        BY <1>0, <2>1, <3>1 DEF Rows
      <3>3. 0 \notin DOMAIN messages'
        BY <1>0, <2>1, MessagesAre
      <3>4. ASSUME NEW s \in Sockets PROVE ClientOK(s)'
        BY <1>0, <2>1, <2>3, <3>1, <3>3, ClientKept DEF Settled
      <3> QED BY <3>2, <3>4 DEF HistoryInv
    <2> QED BY <2>2, <2>3
  <1> QED BY <1>2, <1>3, <1>4, <1>5, <1>6, <1>7 DEF Next

LEMMA SendsInit == ASSUME Init PROVE SendsOK
  <1>1. \A s \in Sockets : recent[s] = NoSends
    BY DEF Init
  <1> QED BY <1>1 DEF SendsOK, NoSends

LEMMA SendsNext == ASSUME LimiterInv, SendsOK, [Next]_vars PROVE SendsOK'
  <1>0. DOMAIN recent = Sockets
    BY DEF LimiterInv, Basic
  <1>1. CASE UNCHANGED recent
    BY <1>1 DEF SendsOK
  <1>3. ASSUME NEW s \in Sockets, Send(s) PROVE SendsOK'
    <2>1. /\ recent'[s] = [k \in DOMAIN Fresh(s) \cup {Len(accepted[s]) + 1} |->
                            IF k = Len(accepted[s]) + 1 THEN Ms(now) ELSE Fresh(s)[k]]
          /\ \A u \in Sockets : u # s => recent'[u] = recent[u]
      BY <1>0, <1>3 DEF Send
    <2> QED BY <2>1 DEF SendsOK
  <1>4. ASSUME NEW s \in Sockets, Refuse(s) PROVE SendsOK'
    <2>1. recent'[s] = Fresh(s) /\ \A u \in Sockets : u # s => recent'[u] = recent[u]
      BY <1>0, <1>4 DEF Refuse
    <2> QED BY <2>1 DEF SendsOK, Fresh
  <1>5. ASSUME NEW s \in Sockets, Disconnect(s) PROVE SendsOK'
    <2>1. recent'[s] = NoSends /\ \A u \in Sockets : u # s => recent'[u] = recent[u]
      BY <1>0, <1>5 DEF Disconnect
    <2> QED BY <2>1 DEF SendsOK, NoSends
  <1> QED BY <1>1, <1>3, <1>4, <1>5
          DEF Next, vars, Tick, Connect, LeaveChat, JoinChat, LoadHistory,
              Write, Reject, Store, Tell, Purge, Stage

\* What the limiter and the history keep, together.
THEOREM ChatHolds == Spec => [](LimiterInv /\ HistoryInv /\ SendsOK)
  <1>1. Init => LimiterInv /\ HistoryInv /\ SendsOK
    BY LimiterInit, HistoryInit, SendsInit
  <1>2. LimiterInv /\ HistoryInv /\ SendsOK /\ [Next]_vars => (LimiterInv /\ HistoryInv /\ SendsOK)'
    BY LimiterNext, HistoryNext, SendsNext
  <1> QED BY <1>1, <1>2, PTL DEF Spec

\* NothingMissed: who has paged back to the first page has seen every message that was
\* told, or one of the same millisecond, for pages of any length.
THEOREM PagingMissesNothing == Spec => []NothingMissed
  <1>1. HistoryInv => NothingMissed
    <2> SUFFICES ASSUME HistoryInv, NEW s \in Sockets, client[s].state = "all",
                        NEW m \in DOMAIN messages, messages[m].stage = "told",
                        m \notin client[s].seen
                 PROVE  TwinSeen(s, m)
      BY DEF NothingMissed, TwinSeen
    <2>1. ClientOK(s)
      BY DEF HistoryInv
    <2> QED BY <2>1 DEF ClientOK, Ahead
  <1> QED BY <1>1, ChatHolds, PTL

\* TypeOK: in particular the limiter never remembers more than RateMax sends, and none
\* of a connection that is closed.
THEOREM ChatTypeCorrect == Spec => []TypeOK
  <1>1. LimiterInv /\ HistoryInv /\ SendsOK => TypeOK
    <2> SUFFICES ASSUME LimiterInv, HistoryInv, SendsOK PROVE TypeOK
      OBVIOUS
    <2>1. Rows /\ Basic
      BY DEF LimiterInv, HistoryInv
    <2>2. ASSUME NEW s \in Sockets
          PROVE  /\ recent[s] \in Partial(Numbers, Times) /\ accepted[s] \in Seq(Times)
                 /\ Cardinality(DOMAIN recent[s]) <= RateMax
                 /\ socket[s] = "closed" => recent[s] = NoSends
      <3>1. Remembered(s)
        BY DEF LimiterInv, Limiter
      <3>2. /\ accepted[s] \in Seq(Times) /\ Len(accepted[s]) \in Nat
            /\ DOMAIN accepted[s] = 1..Len(accepted[s]) /\ Len(accepted[s]) <= Len(messages)
            /\ \A k \in DOMAIN accepted[s] : accepted[s][k] \in Times
        BY <2>1, LenProperties, ElementOfSeq DEF Basic, Rows
      <3>3. Len(messages) \in Nat /\ Len(messages) <= MaxSent
        BY <2>1, MessagesAre DEF Rows
      <3>4. DOMAIN accepted[s] \subseteq Numbers
        BY <3>2, <3>3, ConstantsAssumption DEF Numbers
      <3>5. DOMAIN recent[s] \in SUBSET Numbers
            /\ \A k \in DOMAIN recent[s] : recent[s][k] \in Times
        BY <3>1, <3>2, <3>4 DEF Remembered
      <3>6. recent[s] = [k \in DOMAIN recent[s] |-> recent[s][k]]
        BY DEF SendsOK
      <3>7. recent[s] \in [DOMAIN recent[s] -> Times]
        BY <3>5, <3>6
      <3>8. recent[s] \in Partial(Numbers, Times)
        BY <3>5, <3>7 DEF Partial
      <3> QED BY <3>1, <3>2, <3>8 DEF Remembered
    <2> QED BY <2>1, <2>2 DEF TypeOK, Basic, Rows
  <1> QED BY <1>1, ChatHolds, PTL
=============================================================================
