---------------------------- MODULE AccessProofs ----------------------------
(***************************************************************************)
(* For every rate, refill and set of keys: the limiter is a bucket that is *)
(* refilled all the time, and it keeps its rate in every period.  The      *)
(* second is not inductive by itself: what is left in the bucket must not  *)
(* exceed what the period has not used up (Spent).                         *)
(*                                                                         *)
(* For any connections, people and names: the handlers use the limiter as  *)
(* it is meant to be used, so what holds of the limiter holds of the       *)
(* server; whoever is served under a name registered it.  The invariant    *)
(* says of every request under way what was already established for it.    *)
(***************************************************************************)
EXTENDS Access, TLAPS

\* The limiter by itself.

Credit(k) == IF k \in buckets THEN Refilled(k) ELSE Full

Spent == \A k \in Key : \A i \in DOMAIN taken[k] :
  (Len(taken[k]) - i + 1) * Unit + Credit(k) <= Full + (clock - taken[k][i]) * Refill

RlInv == RlTypeOK /\ Spent

-----------------------------------------------------------------------------
\* Arithmetic.

LEMMA ProductIsInt == \A a, b \in Int : a * b \in Int
OBVIOUS

LEMMA FullIsNat == Full \in Nat /\ Full >= Unit
<1> Rate \in Nat \ {0} /\ Unit \in Nat \ {0}
  BY LimiterAssumption
<1> QED  BY DEF Full

LEMMA ProductIsNat == \A x, y \in Nat : x * y \in Nat
OBVIOUS

LEMMA OneMore == \A x, y \in Int : (x + 1) * y = x * y + y
OBVIOUS

\* A bucket never holds more than its capacity, nor less than it held.
LEMMA RefilledIs ==
  ASSUME RlTypeOK, NEW k \in Key
  PROVE  /\ Refilled(k) \in 0..Full /\ Credit(k) \in 0..Full
         /\ tokens[k] <= Refilled(k)
<1>1. (clock - last[k]) \in Nat /\ tokens[k] \in 0..Full
  BY DEF RlTypeOK
<1>2. (clock - last[k]) * Refill \in Nat
  BY <1>1, ProductIsNat, LimiterAssumption
<1> QED  BY <1>1, <1>2, FullIsNat DEF Refilled, Capped, Credit

\* In a tick a bucket gains what a tick is worth, as far as it is not full.
LEMMA TickRefills ==
  ASSUME RlTypeOK, Tick, NEW k \in Key
  PROVE  Credit(k)' = Capped(Credit(k) + Refill) /\ Credit(k)' <= Credit(k) + Refill
<1> DEFINE d == clock - last[k]
<1>1. d \in Nat /\ tokens[k] \in 0..Full /\ Refill \in Nat
  BY LimiterAssumption DEF RlTypeOK
<1>2. d * Refill \in Nat /\ (d + 1) * Refill = d * Refill + Refill
  BY <1>1, ProductIsNat, OneMore
<1>3. clock' = clock + 1 /\ UNCHANGED <<buckets, tokens, last>>
  BY DEF Tick
<1>4. clock' - last'[k] = d + 1
  BY <1>1, <1>3 DEF RlTypeOK
<1> HIDE DEF d
<1>5. Refilled(k)' = Capped(tokens[k] + d * Refill + Refill)
  BY <1>1, <1>2, <1>3, <1>4 DEF Refilled, Capped, Full
<1>6. Refilled(k) = Capped(tokens[k] + d * Refill)
  BY DEF Refilled, d
<1>7. Refilled(k)' = Capped(Refilled(k) + Refill)
  BY <1>1, <1>2, <1>5, <1>6, FullIsNat DEF Capped
<1>8. Credit(k) \in 0..Full
  BY RefilledIs
<1>9. Credit(k)' = Capped(Credit(k) + Refill)
  BY <1>1, <1>3, <1>7, FullIsNat DEF Credit, Capped, Full
<1> QED  BY <1>1, <1>8, <1>9, FullIsNat DEF Capped

-----------------------------------------------------------------------------
\* Preservation.

LEMMA RlInitInv == RlInit => RlInv
<1> SUFFICES ASSUME RlInit PROVE RlInv
  OBVIOUS
<1>1. RlTypeOK
  BY FullIsNat DEF RlInit, RlTypeOK
<1>2. Spent
  BY DEF RlInit, Spent
<1> QED  BY <1>1, <1>2 DEF RlInv

\* What a call leaves in the bucket: a token less if it was admitted.
LEMMA AllowLeaves ==
  ASSUME RlTypeOK, NEW k \in Key, Allow(k)
  PROVE  /\ Credit(k)' = IF Admits(k) THEN Credit(k) - Unit ELSE Credit(k)
         /\ Admits(k) <=> Credit(k) >= Unit
         /\ tokens'[k] \in 0..Full
         /\ \A j \in Key \ {k} : Credit(j)' = Credit(j)
<1>1. Credit(k) \in 0..Full /\ Unit \in Nat /\ Full \in Nat /\ Full >= Unit /\ Refill \in Nat
  BY RefilledIs, FullIsNat, LimiterAssumption
<1>2. Admits(k) <=> Credit(k) >= Unit
  BY <1>1 DEF Admits, Credit
<1>3. /\ tokens'[k] = IF Admits(k) THEN Credit(k) - Unit ELSE Credit(k)
      /\ last'[k] = clock /\ clock' = clock /\ k \in buckets' /\ clock \in Nat
  BY DEF Allow, RlTypeOK, Credit
<1>4. tokens'[k] \in 0..Full
  BY <1>1, <1>2, <1>3
<1>5. (clock' - last'[k]) * Refill = 0
  BY <1>1, <1>3
<1>6. Credit(k)' = tokens'[k]
  <2>1. Credit(k)' = Capped(tokens'[k] + (clock' - last'[k]) * Refill)
    BY <1>3 DEF Credit, Refilled, Capped, Full
  <2> QED  BY <1>1, <1>4, <1>5, <2>1 DEF Capped
<1>7. ASSUME NEW j \in Key, j # k PROVE Credit(j)' = Credit(j)
  BY <1>7 DEF Allow, RlTypeOK, Credit, Refilled, Capped, Full
<1> QED  BY <1>2, <1>3, <1>4, <1>6, <1>7

LEMMA AllowTypes ==
  ASSUME RlTypeOK, NEW k \in Key, Allow(k)
  PROVE  RlTypeOK'
<1>1. tokens'[k] \in 0..Full
  BY AllowLeaves
<1>2. clock' = clock /\ buckets' = buckets \cup {k} /\ clock \in 0..clock
  BY DEF Allow, RlTypeOK
<1>3. tokens' \in [Key -> 0..Full] /\ last' \in [Key -> 0..clock]
  BY <1>1, <1>2 DEF Allow, RlTypeOK
<1>4. taken' \in [Key -> Seq(0..clock)] /\ \A j \in Key \ {k} : taken'[j] = taken[j]
  BY <1>2 DEF Allow, RlTypeOK
<1> QED  BY <1>2, <1>3, <1>4 DEF RlTypeOK, Full

LEMMA AllowSpent ==
  ASSUME RlInv, NEW k \in Key, Allow(k)
  PROVE  Spent'
<1>1. RlTypeOK /\ Spent /\ RlTypeOK'
  BY AllowTypes DEF RlInv
<1>2. clock' = clock /\ clock \in Nat
  BY DEF Allow, RlInv, RlTypeOK
<1> SUFFICES ASSUME NEW j \in Key, NEW i \in DOMAIN taken'[j]
             PROVE  (Len(taken'[j]) - i + 1) * Unit + Credit(j)'
                       <= Full + (clock - taken'[j][i]) * Refill
  BY <1>2 DEF Spent, Full
<1>3. CASE j # k
  <2>1. taken'[j] = taken[j] /\ Credit(j)' = Credit(j)
    BY <1>1, <1>3, AllowLeaves DEF Allow, RlTypeOK
  <2> QED  BY <1>1, <2>1 DEF Spent
<1>4. CASE j = k /\ ~Admits(k)
  <2>1. taken'[j] = taken[j] /\ Credit(j)' = Credit(j)
    BY <1>1, <1>4, AllowLeaves DEF Allow, RlTypeOK
  <2> QED  BY <1>1, <2>1 DEF Spent
<1>5. CASE j = k /\ Admits(k)
  <2> DEFINE n == Len(taken[k])
  <2>1. /\ taken'[k] = Append(taken[k], clock) /\ taken[k] \in Seq(0..clock)
        /\ Credit(k)' = Credit(k) - Unit /\ Credit(k) \in 0..Full
        /\ Unit \in Nat /\ Full \in Nat /\ Refill \in Nat
    BY <1>1, <1>5, AllowLeaves, RefilledIs, FullIsNat, LimiterAssumption DEF Allow, RlTypeOK
  <2>2. Len(taken'[k]) = n + 1 /\ n \in Nat /\ i \in 1..(n + 1) /\ taken'[k][n + 1] = clock
    BY <1>5, <2>1
  <2>3. CASE i = n + 1
    <3>1. (n + 1 - i + 1) * Unit = Unit /\ (clock - clock) * Refill = 0
      BY <1>2, <2>1, <2>2, <2>3
    <3> QED  BY <1>5, <2>1, <2>2, <2>3, <3>1
  <2>4. CASE i # n + 1
    <3>1. i \in 1..n /\ taken'[k][i] = taken[k][i]
      BY <2>1, <2>2, <2>4
    <3>2. (n - i + 1) * Unit + Credit(k) <= Full + (clock - taken[k][i]) * Refill
      BY <1>1, <2>1, <3>1 DEF Spent
    <3>3. (n + 1 - i + 1) * Unit = (n - i + 1) * Unit + Unit
      BY <2>1, <2>2, OneMore
    <3>4. n - i + 1 \in Int /\ clock - taken[k][i] \in Int
      BY <1>2, <2>1, <2>2, <3>1
    <3>5. (n - i + 1) * Unit \in Int /\ (clock - taken[k][i]) * Refill \in Int
      BY <2>1, <3>4, ProductIsInt
    <3> HIDE DEF n
    <3> QED  BY <1>5, <2>1, <2>2, <3>1, <3>2, <3>3, <3>5
  <2> QED  BY <2>3, <2>4
<1> QED  BY <1>3, <1>4, <1>5

LEMMA DropInv ==
  ASSUME RlInv, NEW K \in SUBSET Key, Drop(K)
  PROVE  RlInv'
<1>1. RlTypeOK /\ clock' = clock /\ clock \in Nat
  BY DEF RlInv, RlTypeOK, Drop
<1>2. RlTypeOK'
  <2>1. tokens' \in [Key -> 0..Full] /\ last' \in [Key -> 0..clock]
    BY <1>1, FullIsNat DEF Drop, RlTypeOK
  <2>2. /\ buckets' = buckets \ K /\ buckets' \in SUBSET Key
        /\ taken' = [k \in Key |-> IF k \in K THEN <<>> ELSE taken[k]]
    BY <1>1 DEF Drop, RlTypeOK
  <2>3. taken' \in [Key -> Seq(0..clock)]
    <3>1. <<>> \in Seq(0..clock) /\ taken \in [Key -> Seq(0..clock)]
      BY <1>1 DEF RlTypeOK
    <3> QED  BY <2>2, <3>1
  <2>4. \A k \in Key \ buckets' : taken'[k] = <<>>
    BY <1>1, <2>2 DEF RlTypeOK
  <2> QED  BY <1>1, <2>1, <2>2, <2>3, <2>4 DEF RlTypeOK, Full
<1>3. ASSUME NEW k \in Key PROVE taken'[k] = <<>> \/ (taken'[k] = taken[k] /\ k \notin K)
  BY <1>1 DEF Drop, RlTypeOK
<1>4. ASSUME NEW k \in Key \ K PROVE Credit(k)' = Credit(k)
  BY <1>1, <1>4 DEF Drop, RlTypeOK, Credit, Refilled, Capped, Full
<1>5. Spent'
  BY <1>1, <1>3, <1>4 DEF Spent, RlInv, Full
<1> QED  BY <1>2, <1>5 DEF RlInv

LEMMA TickInv == RlInv /\ Tick => RlInv'
<1> SUFFICES ASSUME RlInv, Tick PROVE RlInv'
  OBVIOUS
<1>1. RlTypeOK /\ clock' = clock + 1 /\ UNCHANGED <<buckets, tokens, last, taken>>
  BY DEF RlInv, Tick
<1>2. 0..clock \subseteq 0..clock'
  BY <1>1 DEF RlTypeOK
<1>3. RlTypeOK'
  BY <1>1, <1>2 DEF RlTypeOK, Full
<1>4. ASSUME NEW k \in Key, NEW i \in DOMAIN taken[k]
      PROVE  (Len(taken[k]) - i + 1) * Unit + Credit(k)'
                <= Full + (clock' - taken[k][i]) * Refill
  <2> DEFINE n == (Len(taken[k]) - i + 1) * Unit
             d == clock - taken[k][i]
  <2>1. n + Credit(k) <= Full + d * Refill
    BY <1>1 DEF Spent, RlInv
  <2>2. Credit(k)' <= Credit(k) + Refill /\ Credit(k) \in 0..Full
    BY <1>1, TickRefills, RefilledIs
  <2>3. Len(taken[k]) \in Nat /\ i \in Nat /\ taken[k][i] \in 0..clock /\ clock \in Nat
    BY <1>1 DEF RlTypeOK
  <2>4. Unit \in Nat /\ Refill \in Nat /\ Full \in Nat
    BY FullIsNat, LimiterAssumption
  <2>5. n \in Int /\ d \in Nat /\ d * Refill \in Int
    BY <2>3, <2>4
  <2>6. (d + 1) * Refill = d * Refill + Refill /\ clock' - taken[k][i] = d + 1
    BY <1>1, <2>3, <2>4, <2>5, OneMore
  <2>7. Credit(k)' \in Int
    BY <1>3, <2>4, RefilledIs, FullIsNat DEF RlTypeOK, Credit, Refilled, Capped, Full
  <2> HIDE DEF n, d
  <2>8. n + Credit(k)' <= Full + (d + 1) * Refill
    BY <2>1, <2>2, <2>4, <2>5, <2>6, <2>7
  <2> QED  BY <2>6, <2>8 DEF n
<1>5. Spent'
  BY <1>1, <1>4 DEF Spent, Full
<1> QED  BY <1>3, <1>5 DEF RlInv

LEMMA RlNextInv == RlInv /\ [RlNext]_rlVars => RlInv'
<1> SUFFICES ASSUME RlInv, [RlNext]_rlVars PROVE RlInv'
  OBVIOUS
<1>1. ASSUME NEW k \in Key, Allow(k) PROVE RlInv'
  BY <1>1, AllowTypes, AllowSpent DEF RlInv
<1>2. CASE UNCHANGED rlVars
  BY <1>2 DEF rlVars, RlInv, RlTypeOK, Spent, Credit, Refilled, Capped, Full
<1> QED  BY <1>1, <1>2, TickInv, DropInv DEF RlNext

\* What a period has used up and what is left in the bucket bound what is admitted.
LEMMA RlInvKeepsRate == RlInv => RateKept
<1> SUFFICES ASSUME RlInv, NEW k \in Key, NEW i \in DOMAIN taken[k]
             PROVE  (Len(taken[k]) - i + 1) * Unit <= Full + (clock - taken[k][i]) * Refill
  BY DEF RateKept
<1>1. Credit(k) \in 0..Full /\ Full \in Nat
  BY RefilledIs, FullIsNat DEF RlInv
<1>2. (Len(taken[k]) - i + 1) * Unit + Credit(k) <= Full + (clock - taken[k][i]) * Refill
  BY DEF RlInv, Spent
<1>3. Len(taken[k]) \in Nat /\ i \in Nat /\ taken[k][i] \in Nat /\ clock \in Nat
      /\ Unit \in Nat /\ Refill \in Nat
  BY LimiterAssumption DEF RlInv, RlTypeOK
<1>4. Len(taken[k]) - i + 1 \in Int /\ clock - taken[k][i] \in Int
  BY <1>3
<1>5. (Len(taken[k]) - i + 1) * Unit \in Int /\ (clock - taken[k][i]) * Refill \in Int
  BY <1>3, <1>4, ProductIsInt
<1> QED  BY <1>1, <1>2, <1>5

-----------------------------------------------------------------------------
\* The limiter implements the bucket that is refilled all the time.

LEMMA BucketInit == RlInit => Bucket!TbInit
BY DEF RlInit, Bucket!TbInit

LEMMA BucketStep == RlInv /\ [RlNext]_rlVars => [Bucket!TbNext]_(Bucket!tbVars)
<1> DEFINE credit == [k \in Key |-> IF k \in buckets THEN Refilled(k) ELSE Full]
<1> SUFFICES ASSUME RlInv, [RlNext]_rlVars PROVE [Bucket!TbNext]_(Bucket!tbVars)
  OBVIOUS
<1>1. /\ RlTypeOK /\ RlInv'
      /\ credit = [k \in Key |-> Credit(k)] /\ credit' = [k \in Key |-> Credit(k)']
  BY RlNextInv DEF RlInv, Credit, Full
<1>2. \A k \in Key : credit[k] = Credit(k) /\ credit'[k] = Credit(k)'
  BY <1>1
<1> HIDE DEF credit
<1>3. ASSUME NEW k \in Key, Allow(k) PROVE Bucket!TbNext
  <2>1. answer' = <<k, Admits(k)>>
    BY <1>3 DEF Allow
  <2>2. CASE Admits(k)
    <3>1. credit[k] >= Unit /\ answer' = <<k, TRUE>>
      BY <1>1, <1>2, <1>3, <2>1, <2>2, AllowLeaves
    <3>2. credit' = [credit EXCEPT ![k] = @ - Unit]
      BY <1>1, <1>2, <1>3, <2>2, AllowLeaves
    <3>3. Bucket!Admit(k)
      BY <3>1, <3>2 DEF Bucket!Admit, credit
    <3> QED  BY <3>3 DEF Bucket!TbNext
  <2>3. CASE ~Admits(k)
    <3>1. credit[k] < Unit /\ answer' = <<k, FALSE>>
      <4>1. Credit(k) \in Int /\ Unit \in Int /\ ~(Credit(k) >= Unit)
        BY <1>1, <1>3, <2>3, AllowLeaves, RefilledIs, FullIsNat, LimiterAssumption
      <4>2. Credit(k) < Unit
        BY <4>1
      <4>3. Admits(k) = FALSE
        BY <2>3 DEF Admits
      <4>4. credit[k] < Unit
        BY <1>2, <1>3, <4>2
      <4>5. answer' = <<k, FALSE>>
        BY <2>1, <4>3, Zenon
      <4> QED  BY <4>4, <4>5
    <3>2. credit' = credit
      BY <1>1, <1>2, <1>3, <2>3, AllowLeaves
    <3>3. Bucket!Deny(k)
      BY <3>1, <3>2 DEF Bucket!Deny, credit
    <3> QED  BY <3>3 DEF Bucket!TbNext
  <2> QED  BY <2>2, <2>3
<1>4. ASSUME NEW K \in SUBSET Key, Drop(K) PROVE Bucket!TbNext
  <2>1. \A k \in Key : Credit(k)' = IF k \in K THEN Full ELSE Credit(k)
    BY <1>1, <1>4 DEF Drop, RlTypeOK, Credit, Refilled, Capped, Full
  <2>2. credit' = [k \in Key |-> IF k \in K THEN Full ELSE credit[k]] /\ answer' = answer
    BY <1>1, <1>2, <1>4, <2>1 DEF Drop
  <2>3. Bucket!Restore(K)
    BY <2>2 DEF Bucket!Restore, credit
  <2> QED  BY <2>3 DEF Bucket!TbNext
<1>5. ASSUME Tick PROVE Bucket!TbNext
  <2>1. \A k \in Key : Credit(k)' = Capped(Credit(k) + Refill)
    BY <1>1, <1>5, TickRefills
  <2>2. credit' = [k \in Key |-> Capped(credit[k] + Refill)] /\ answer' = answer
    BY <1>1, <1>2, <1>5, <2>1 DEF Tick
  <2>3. Bucket!Grow
    BY <2>2 DEF Bucket!Grow, Bucket!Atmost, Capped, credit
  <2> QED  BY <2>3 DEF Bucket!TbNext
<1>6. ASSUME UNCHANGED rlVars PROVE UNCHANGED Bucket!tbVars
  <2>1. \A k \in Key : Credit(k)' = Credit(k)
    BY <1>6 DEF rlVars, Credit, Refilled, Capped, Full
  <2> QED  BY <1>1, <1>6, <2>1 DEF rlVars, Bucket!tbVars, credit
<1> QED  BY <1>3, <1>4, <1>5, <1>6 DEF RlNext

-----------------------------------------------------------------------------
\* rate_limiter.py: the buckets are well-formed after every sequence of calls.
THEOREM LimiterTypeCorrect == RlSpec => []RlTypeOK
<1>1. RlInv => RlTypeOK
  BY DEF RlInv
<1> QED  BY <1>1, RlInitInv, RlNextInv, PTL DEF RlSpec

\* allow: between any two calls of a key that its bucket admits there are no more than a
\* full bucket and the refill of the time between them.
THEOREM LimiterKeepsRate == RlSpec => []RateKept
<1> QED  BY RlInitInv, RlNextInv, RlInvKeepsRate, PTL DEF RlSpec

\* The refill on demand answers as a continuous one would.
THEOREM LimiterIsBucket == RlSpec => RefillsContinuously
<1> QED  BY RlInitInv, RlNextInv, BucketInit, BucketStep, PTL
         DEF RlSpec, RefillsContinuously, Bucket!TbSpec

-----------------------------------------------------------------------------
\* The handlers.

\* What a handler knows at each statement.
LocalsOK == \A c \in Conn :
  /\ h[c].pc \in {"lookup", "insert", "session", "answer"} => h[c].name \in Name
  /\ h[c].pc \in {"session", "answer"} => users[h[c].name] = Who[c]
  /\ h[c].pc \in {"answer", "validate", "delete"} =>
       h[c].token \in DOMAIN sessions /\ sessions[h[c].token].by = Who[c]

AcInv == AcTypeOK /\ LocalsOK /\ ServedIsOwner /\ SessionsHaveOwner

allVars == <<acVars, rlVars>>

-----------------------------------------------------------------------------
LEMMA AcInitInv == AcInit => AcInv
<1> SUFFICES ASSUME AcInit PROVE AcInv
  OBVIOUS
<1>1. \A c \in Conn : h[c] = [Idle(Nobody) EXCEPT !.pc = "new"]
  BY DEF AcInit
<1>2. AcTypeOK
  <2>1. [Idle(Nobody) EXCEPT !.pc = "new"] \in Handler
    BY DEF Idle, Handler
  <2>2. h \in [Conn -> Handler] /\ sessions = <<>> /\ Len(sessions) = 0 /\ sessions \in Seq(Row)
    BY <1>1, <2>1 DEF AcInit
  <2>3. \A c \in Conn : h[c].token = 0 /\ h[c].name = Nobody /\ 0 \in 0..Len(sessions)
    BY <1>1, <2>2 DEF Idle
  <2>4. crashes \in 0..MaxCrash /\ open \subseteq Conn /\ users \in [Name -> Person \cup {Nobody}]
    BY AccessAssumption DEF AcInit
  <2> QED  BY <2>2, <2>3, <2>4 DEF AcTypeOK
<1> QED  BY <1>1, <1>2, AccessAssumption DEF AcInit, AcInv, LocalsOK, ServedIsOwner,
                                       SessionsHaveOwner, Idle

\* A handler that goes back to its loop, or out of it, knows nothing of a request.
LEMMA IdleInv ==
  ASSUME AcInv, NEW c \in Conn, NEW u \in Name \cup {Nobody},
         NEW pc \in {"new", "recv", "finally", "ended"},
         u # Nobody => users'[u] = Who[c],
         h' = [h EXCEPT ![c] = [Idle(u) EXCEPT !.pc = pc]],
         users' = users, sessions' = sessions, open' \subseteq Conn, crashes' \in 0..MaxCrash
  PROVE  AcInv'
<1>1. [Idle(u) EXCEPT !.pc = pc] \in Handler
  BY DEF Idle, Handler
<1>2. AcTypeOK'
  BY <1>1 DEF AcInv, AcTypeOK, Idle
<1>3. LocalsOK'
  BY DEF AcInv, AcTypeOK, LocalsOK, Idle
<1>4. ServedIsOwner' /\ SessionsHaveOwner'
  BY AccessAssumption DEF AcInv, AcTypeOK, ServedIsOwner, SessionsHaveOwner, Idle
<1> QED  BY <1>2, <1>3, <1>4 DEF AcInv

\* A frame that is admitted starts a request of which the handler knows nothing yet.
LEMMA FrameInv ==
  ASSUME AcInv, NEW c \in Conn, NEW kind, NEW next, Frame(c, kind, next),
         next \in Handler, next.username = h[c].username,
         next.pc \in {"recv", "lookup", "validate", "delete"},
         next.token \in 0..Len(sessions),
         next.pc = "recv" => next.name = Nobody /\ next.token = 0,
         next.pc = "lookup" => next.name \in Name,
         next.pc \in {"validate", "delete"} =>
           next.token \in DOMAIN sessions /\ sessions[next.token].by = Who[c]
  PROVE  AcInv'
<1>1. UNCHANGED <<users, sessions, open, crashes>>
  BY DEF Frame, tables
<1>2. h' = h \/ h' = [h EXCEPT ![c] = next]
  BY DEF Frame
<1>3. CASE h' = h
  BY <1>1, <1>3 DEF AcInv, AcTypeOK, LocalsOK, ServedIsOwner, SessionsHaveOwner
<1>4. CASE h' = [h EXCEPT ![c] = next]
  <2>1. AcTypeOK'
    BY <1>1, <1>4 DEF AcInv, AcTypeOK
  <2>2. LocalsOK'
    BY <1>1, <1>4 DEF AcInv, AcTypeOK, LocalsOK
  <2>3. ServedIsOwner' /\ SessionsHaveOwner'
    BY <1>1, <1>4 DEF AcInv, AcTypeOK, ServedIsOwner, SessionsHaveOwner
  <2> QED  BY <2>1, <2>2, <2>3 DEF AcInv
<1> QED  BY <1>2, <1>3, <1>4

\* In its loop a handler knows nothing of a request.
LEMMA RecvKnowsNothing ==
  ASSUME AcTypeOK, NEW c \in Conn, h[c].pc = "recv"
  PROVE  h[c].name = Nobody /\ h[c].token = 0 /\ h[c].token \in 0..Len(sessions)
<1>1. \A d \in Conn : /\ h[d].token \in 0..Len(sessions)
                      /\ h[d].pc \in {"new", "recv", "finally", "ended"} =>
                           h[d].name = Nobody /\ h[d].token = 0
  BY Zenon DEF AcTypeOK
<1> QED  BY <1>1

LEMMA InputInv ==
  ASSUME AcInv, NEW c \in Conn, Input(c)
  PROVE  AcInv'
<1>0. h[c] \in Handler /\ h \in [Conn -> Handler]
  BY DEF AcInv, AcTypeOK
<1>1. CASE Connect(c)
  <2>1. h' = [h EXCEPT ![c].pc = "recv"] /\ open' = open \cup {c} /\ h[c].pc = "new"
        /\ UNCHANGED <<users, sessions, crashes>>
    BY <1>1 DEF Connect, tables
  <2>2. AcTypeOK'
    BY <1>0, <2>1 DEF AcInv, AcTypeOK, Handler
  <2>3. LocalsOK' /\ ServedIsOwner' /\ SessionsHaveOwner'
    BY <1>0, <2>1 DEF AcInv, AcTypeOK, LocalsOK, ServedIsOwner, SessionsHaveOwner, Handler
  <2> QED  BY <2>2, <2>3 DEF AcInv
<1>2. CASE Close(c)
  BY <1>2 DEF Close, tables, AcInv, AcTypeOK, LocalsOK, ServedIsOwner, SessionsHaveOwner
<1>3. CASE Other(c)
  <2>1. h[c].pc = "recv"
    BY <1>3 DEF Other, Frame
  <2>2. h[c].name = Nobody /\ h[c].token = 0 /\ h[c].token \in 0..Len(sessions)
    BY <2>1, RecvKnowsNothing DEF AcInv
  <2> QED  BY <1>0, <1>3, <2>1, <2>2, FrameInv DEF Other
<1>4. ASSUME NEW u \in Name, Register(c, u) \/ Login(c, u) PROVE AcInv'
  <2>0. h[c].pc = "recv"
    BY <1>4 DEF Register, Login, Frame
  <2>1. h[c].token = 0 /\ h[c].token \in 0..Len(sessions)
    BY <2>0, RecvKnowsNothing DEF AcInv
  <2>2. /\ [h[c] EXCEPT !.pc = "lookup", !.name = u, !.register = TRUE] \in Handler
        /\ [h[c] EXCEPT !.pc = "lookup", !.name = u] \in Handler
    BY <1>0 DEF Handler
  <2>3. CASE Register(c, u)
    <3> DEFINE next == [h[c] EXCEPT !.pc = "lookup", !.name = u, !.register = TRUE]
    <3>1. next.username = h[c].username /\ next.pc = "lookup" /\ next.token = h[c].token
          /\ next.name = u
      BY <1>0 DEF Handler
    <3>2. Frame(c, "register", next) /\ next \in Handler
      BY <2>2, <2>3 DEF Register
    <3> HIDE DEF next
    <3> QED  BY <2>1, <3>1, <3>2, FrameInv
  <2>4. CASE Login(c, u)
    <3> DEFINE next == [h[c] EXCEPT !.pc = "lookup", !.name = u]
    <3>1. next.username = h[c].username /\ next.pc = "lookup" /\ next.token = h[c].token
          /\ next.name = u
      BY <1>0 DEF Handler
    <3>2. Frame(c, "login", next) /\ next \in Handler
      BY <2>2, <2>4 DEF Login
    <3> HIDE DEF next
    <3> QED  BY <2>1, <3>1, <3>2, FrameInv
  <2> QED  BY <1>4, <2>3, <2>4
<1>5. ASSUME NEW i \in 1..MaxToken, NEW pc \in {"validate", "delete"}, NEW kind, i \in Tokens(c),
             Frame(c, kind, [h[c] EXCEPT !.pc = pc, !.token = i])
      PROVE  AcInv'
  <2> DEFINE next == [h[c] EXCEPT !.pc = pc, !.token = i]
  <2>1. i \in DOMAIN sessions /\ sessions[i].by = Who[c] /\ i \in 0..Len(sessions) /\ i \in Nat
    BY <1>5 DEF Tokens, AcInv, AcTypeOK
  <2>2. next \in Handler /\ next.username = h[c].username /\ next.pc = pc /\ next.token = i
    BY <1>0, <2>1 DEF Handler
  <2>3. Frame(c, kind, next)
    BY <1>5
  <2> HIDE DEF next
  <2> QED  BY <2>1, <2>2, <2>3, FrameInv
<1> QED  BY <1>1, <1>2, <1>3, <1>4, <1>5 DEF Input, Reauth, Logout

-----------------------------------------------------------------------------
\* The statements of a request.

LEMMA LookupInv == ASSUME AcInv, NEW c \in Conn, Lookup(c) PROVE AcInv'
<1>1. /\ h[c].pc = "lookup" /\ h[c].name \in Name /\ h[c] \in Handler /\ Who[c] \in Person
      /\ UNCHANGED <<users, sessions, open, crashes>>
  BY AccessAssumption DEF Lookup, Statement, tables, AcInv, AcTypeOK, LocalsOK
<1>2. CASE h' = [h EXCEPT ![c] = [h[c] EXCEPT !.pc = "insert"]]
  <2>1. AcTypeOK'
    BY <1>1, <1>2 DEF AcInv, AcTypeOK, Handler
  <2> QED  BY <1>1, <1>2, <2>1
           DEF AcInv, AcTypeOK, LocalsOK, ServedIsOwner, SessionsHaveOwner, Handler
<1>3. CASE h' = [h EXCEPT ![c] = [h[c] EXCEPT !.pc = "session"]] /\ users[h[c].name] = Who[c]
  <2>1. AcTypeOK'
    BY <1>1, <1>3 DEF AcInv, AcTypeOK, Handler
  <2> QED  BY <1>1, <1>3, <2>1
           DEF AcInv, AcTypeOK, LocalsOK, ServedIsOwner, SessionsHaveOwner, Handler
<1>4. CASE h' = [h EXCEPT ![c] = Refused(c)]
  BY <1>1, <1>4, IdleInv DEF Refused, AcInv, AcTypeOK, ServedIsOwner, Handler
<1> QED  BY <1>2, <1>3, <1>4 DEF Lookup

LEMMA CreateUserInv == ASSUME AcInv, NEW c \in Conn, CreateUser(c) PROVE AcInv'
<1>1. /\ h[c].pc = "insert" /\ h[c].name \in Name /\ h[c] \in Handler /\ Who[c] \in Person
      /\ UNCHANGED <<sessions, open, crashes>>
  BY AccessAssumption DEF CreateUser, Statement, AcInv, AcTypeOK, LocalsOK
<1>2. CASE users[h[c].name] = Nobody
  <2>1. users' = [users EXCEPT ![h[c].name] = Who[c]] /\ h' = [h EXCEPT ![c].pc = "session"]
    BY <1>2 DEF CreateUser
  <2>2. \A u \in Name : users[u] # Nobody => users'[u] = users[u]
    BY <1>1, <1>2, <2>1 DEF AcInv, AcTypeOK
  <2>3. \A d \in Conn : Who[d] # Nobody
    BY AccessAssumption
  <2>4. ASSUME NEW i \in DOMAIN sessions
        PROVE  sessions[i].by # Nobody /\ sessions[i].name \in Name
    <3>1. sessions[i] \in Row
      BY DEF AcInv, AcTypeOK
    <3> QED  BY <3>1, AccessAssumption DEF Row
  <2>5. AcTypeOK'
    BY <1>1, <2>1 DEF AcInv, AcTypeOK, Handler
  <2>6. LocalsOK'
    BY <1>1, <2>1, <2>2, <2>3 DEF AcInv, AcTypeOK, LocalsOK, Handler
  <2>7. ServedIsOwner'
    BY <1>1, <2>1, <2>2, <2>3 DEF AcInv, AcTypeOK, ServedIsOwner, Handler
  <2>8. SessionsHaveOwner'
    BY <1>1, <2>2, <2>4 DEF AcInv, AcTypeOK, SessionsHaveOwner
  <2> QED  BY <2>5, <2>6, <2>7, <2>8 DEF AcInv
<1>3. CASE users[h[c].name] # Nobody
  <2>1. users' = users /\ h' = [h EXCEPT ![c] = [Idle(h[c].username) EXCEPT !.pc = "finally"]]
    BY <1>3 DEF CreateUser
  <2> QED  BY <1>1, <2>1, IdleInv DEF AcInv, AcTypeOK, ServedIsOwner, Handler
<1> QED  BY <1>2, <1>3

LEMMA CreateSessionInv ==
  ASSUME AcInv, clock \in Nat, NEW c \in Conn, CreateSession(c)
  PROVE  AcInv'
<1> DEFINE row == [name |-> h[c].name, by |-> Who[c], live |-> TRUE,
                   expires |-> clock + Ttl, told |-> FALSE]
           n == Len(sessions) + 1
<1>1. /\ h[c].pc = "session" /\ h[c].name \in Name /\ h[c] \in Handler /\ Who[c] \in Person
      /\ users[h[c].name] = Who[c] /\ sessions \in Seq(Row) /\ h \in [Conn -> Handler]
      /\ UNCHANGED <<users, open, crashes>>
  BY AccessAssumption DEF CreateSession, Statement, AcInv, AcTypeOK, LocalsOK
<1>2. row \in Row /\ row.name = h[c].name /\ row.by = Who[c]
  BY <1>1, AccessAssumption DEF Row
<1>3. /\ sessions' = Append(sessions, row)
      /\ h' = [h EXCEPT ![c] = [h[c] EXCEPT !.pc = "answer", !.token = Len(sessions')]]
  BY DEF CreateSession
<1> HIDE DEF row
<1>4. /\ sessions' \in Seq(Row) /\ Len(sessions') = n /\ n \in Nat /\ sessions'[n] = row
      /\ DOMAIN sessions' = 1..n /\ DOMAIN sessions = 1..(n - 1)
      /\ \A i \in DOMAIN sessions : i \in DOMAIN sessions' /\ sessions'[i] = sessions[i]
  BY <1>1, <1>2, <1>3
<1>0. \A t \in 0..Len(sessions) : t \in 0..n
  BY <1>1
<1> HIDE DEF n
<1>5. h' = [h EXCEPT ![c] = [h[c] EXCEPT !.pc = "answer", !.token = n]]
  BY <1>3, <1>4
<1>6. AcTypeOK'
  <2>1. [h[c] EXCEPT !.pc = "answer", !.token = n] \in Handler
    BY <1>1, <1>4 DEF Handler
  <2>2. \A d \in Conn : h[d].token \in 0..n
    <3>1. \A d \in Conn : h[d].token \in 0..Len(sessions)
      BY Zenon DEF AcInv, AcTypeOK
    <3> QED  BY <1>0, <3>1
  <2>3. h' \in [Conn -> Handler]
    BY <1>1, <1>5, <2>1
  <2>4. \A d \in Conn : h'[d].token \in 0..n
    BY <1>1, <1>4, <1>5, <2>2 DEF Handler
  <2>5. \A d \in Conn : h'[d].pc \in {"new", "recv", "finally", "ended"} =>
                           h'[d].name = Nobody /\ h'[d].token = 0
    <3>1. \A d \in Conn : h[d].pc \in {"new", "recv", "finally", "ended"} =>
                            h[d].name = Nobody /\ h[d].token = 0
      BY Zenon DEF AcInv, AcTypeOK
    <3>2. h'[c].pc = "answer" /\ \A d \in Conn \ {c} : h'[d] = h[d]
      BY <1>1, <1>5 DEF Handler
    <3> QED  BY <3>1, <3>2
  <2> QED  BY <1>1, <1>4, <2>3, <2>4, <2>5 DEF AcInv, AcTypeOK
<1>7. LocalsOK'
  <2>1. ASSUME NEW d \in Conn, d # c
        PROVE  h'[d] = h[d]
    BY <1>1, <1>5, <2>1
  <2>2. h'[c].pc = "answer" /\ h'[c].name = h[c].name /\ h'[c].token = n
    BY <1>1, <1>5 DEF Handler
  <2>3. n \in DOMAIN sessions' /\ sessions'[n].by = Who[c]
    <3>1. Len(sessions) + 1 \in 1..(Len(sessions) + 1)
      BY <1>1
    <3> QED  BY <1>2, <1>4, <3>1 DEF n
  <2>4. ASSUME NEW d \in Conn, d # c, h'[d].pc \in {"answer", "validate", "delete"}
        PROVE  h'[d].token \in DOMAIN sessions' /\ sessions'[h'[d].token].by = Who[d]
    BY <1>4, <2>1, <2>4 DEF AcInv, LocalsOK
  <2>5. ASSUME NEW d \in Conn, d # c
        PROVE  /\ h'[d].pc \in {"lookup", "insert", "session", "answer"} => h'[d].name \in Name
               /\ h'[d].pc \in {"session", "answer"} => users'[h'[d].name] = Who[d]
    BY <1>1, <2>1, <2>5 DEF AcInv, LocalsOK
  <2> QED  BY <1>1, <2>2, <2>3, <2>4, <2>5 DEF LocalsOK
<1>8. ServedIsOwner'
  BY <1>1, <1>5 DEF AcInv, AcTypeOK, ServedIsOwner, Handler
<1>9. SessionsHaveOwner'
  <2>1. ASSUME NEW i \in DOMAIN sessions' PROVE users'[sessions'[i].name] = sessions'[i].by
    <3>1. CASE i \in DOMAIN sessions
      BY <1>1, <1>4, <3>1 DEF AcInv, SessionsHaveOwner
    <3>2. CASE i = n
      BY <1>1, <1>2, <1>4, <3>2
    <3> QED  BY <1>4, <3>1, <3>2
  <2> QED  BY <2>1 DEF SessionsHaveOwner
<1> QED  BY <1>6, <1>7, <1>8, <1>9 DEF AcInv

LEMMA ValidateInv == ASSUME AcInv, NEW c \in Conn, Validate(c) PROVE AcInv'
<1> DEFINE s == sessions[h[c].token]
<1>1. /\ h[c].pc = "validate" /\ h[c] \in Handler /\ h \in [Conn -> Handler]
      /\ s \in Row /\ s.by = Who[c] /\ users[s.name] = s.by
      /\ UNCHANGED <<users, sessions, open, crashes>>
  BY DEF Validate, Statement, tables, AcInv, AcTypeOK, LocalsOK, SessionsHaveOwner
<1>2. s.name \in Name
  BY <1>1 DEF Row
<1>3. CASE h' = [h EXCEPT ![c] = [h[c] EXCEPT !.pc = "answer", !.name = s.name]]
  <2> HIDE DEF s
  <2>1. [h[c] EXCEPT !.pc = "answer", !.name = s.name] \in Handler
    BY <1>1, <1>2 DEF Handler
  <2>2. AcTypeOK'
    BY <1>1, <1>3, <2>1 DEF AcInv, AcTypeOK, Handler
  <2> QED  BY <1>1, <1>2, <1>3, <2>2
           DEF AcInv, AcTypeOK, LocalsOK, ServedIsOwner, SessionsHaveOwner, Handler
<1>4. CASE h' = [h EXCEPT ![c] = Refused(c)]
  BY <1>1, <1>4, IdleInv DEF Refused, AcInv, AcTypeOK, ServedIsOwner, Handler
<1> QED  BY <1>3, <1>4 DEF Validate

\* Answer and Delete change a flag of a row that has an owner and keeps it.
LEMMA FlagInv ==
  ASSUME AcInv, NEW i \in DOMAIN sessions, NEW row \in Row,
         row.name = sessions[i].name, row.by = sessions[i].by,
         sessions' = [sessions EXCEPT ![i] = row]
  PROVE  /\ sessions' \in Seq(Row) /\ Len(sessions') = Len(sessions)
         /\ DOMAIN sessions' = DOMAIN sessions
         /\ \A j \in DOMAIN sessions : /\ sessions'[j].by = sessions[j].by
                                       /\ sessions'[j].name = sessions[j].name
BY DEF AcInv, AcTypeOK

LEMMA IdleFlagInv ==
  ASSUME AcInv, NEW c \in Conn, NEW u \in Name \cup {Nobody},
         NEW pc \in {"recv", "finally"}, u # Nobody => users[u] = Who[c],
         NEW i \in DOMAIN sessions, NEW row \in Row,
         row.name = sessions[i].name, row.by = sessions[i].by,
         sessions' = [sessions EXCEPT ![i] = row],
         h' = [h EXCEPT ![c] = [Idle(u) EXCEPT !.pc = pc]],
         users' = users, open' = open, crashes' = crashes
  PROVE  AcInv'
<1>1. /\ sessions' \in Seq(Row) /\ Len(sessions') = Len(sessions)
      /\ DOMAIN sessions' = DOMAIN sessions
      /\ \A j \in DOMAIN sessions : /\ sessions'[j].by = sessions[j].by
                                    /\ sessions'[j].name = sessions[j].name
  BY FlagInv
<1>2. [Idle(u) EXCEPT !.pc = pc] \in Handler
  BY DEF Idle, Handler
<1>3. AcTypeOK'
  BY <1>1, <1>2 DEF AcInv, AcTypeOK, Idle
<1>4. LocalsOK'
  BY <1>1 DEF AcInv, AcTypeOK, LocalsOK, Idle
<1>5. ServedIsOwner' /\ SessionsHaveOwner'
  BY <1>1 DEF AcInv, AcTypeOK, ServedIsOwner, SessionsHaveOwner, Idle
<1> QED  BY <1>3, <1>4, <1>5 DEF AcInv

LEMMA AnswerInv == ASSUME AcInv, NEW c \in Conn, Answer(c) PROVE AcInv'
<1> DEFINE i == h[c].token
           row == [sessions[i] EXCEPT !.told = TRUE]
<1>1. /\ h[c].pc = "answer" /\ h[c] \in Handler /\ h[c].name \in Name
      /\ users[h[c].name] = Who[c] /\ i \in DOMAIN sessions /\ sessions[i] \in Row
      /\ UNCHANGED <<users, open, crashes>>
  BY DEF Answer, Statement, AcInv, AcTypeOK, LocalsOK
<1>2. row \in Row /\ row.name = sessions[i].name /\ row.by = sessions[i].by
  BY <1>1 DEF Row
<1>3. CASE c \in open
  <2>1. /\ sessions' = [sessions EXCEPT ![i] = row]
        /\ h' = [h EXCEPT ![c] = [Idle(h[c].name) EXCEPT !.pc = "recv"]]
    BY <1>3 DEF Answer, Idle
  <2> HIDE DEF i, row
  <2> QED  BY <1>1, <1>2, <2>1, IdleFlagInv
<1>4. CASE c \notin open
  <2>1. h' = [h EXCEPT ![c] = Refused(c)] /\ sessions' = sessions
    BY <1>4 DEF Answer
  <2> QED  BY <1>1, <2>1, IdleInv DEF Refused, AcInv, AcTypeOK, ServedIsOwner, Handler
<1> QED  BY <1>3, <1>4

LEMMA DeleteInv == ASSUME AcInv, NEW c \in Conn, Delete(c) PROVE AcInv'
<1> DEFINE i == h[c].token
           row == [sessions[i] EXCEPT !.live = FALSE]
<1>1. /\ h[c].pc = "delete" /\ h[c] \in Handler
      /\ i \in DOMAIN sessions /\ sessions[i] \in Row
      /\ h[c].username # Nobody => users[h[c].username] = Who[c]
      /\ UNCHANGED <<users, open, crashes>>
  BY DEF Delete, Statement, AcInv, AcTypeOK, LocalsOK, ServedIsOwner
<1>2. row \in Row /\ row.name = sessions[i].name /\ row.by = sessions[i].by
  BY <1>1 DEF Row
<1>3. /\ sessions' = [sessions EXCEPT ![i] = row]
      /\ h' = [h EXCEPT ![c] = [Idle(h[c].username) EXCEPT !.pc = "finally"]]
  BY DEF Delete
<1>4. h[c].username \in Name \cup {Nobody}
  BY <1>1 DEF Handler
<1> HIDE DEF i, row
<1> QED  BY <1>1, <1>2, <1>3, <1>4, IdleFlagInv

LEMMA FinishInv == ASSUME AcInv, NEW c \in Conn, Finish(c) PROVE AcInv'
BY IdleInv DEF Finish, tables, AcInv, AcTypeOK

LEMMA CrashInv == AcInv /\ Crash => AcInv'
<1> SUFFICES ASSUME AcInv, Crash PROVE AcInv'
  OBVIOUS
<1>1. /\ h' = [c \in Conn |-> IF h[c].pc = "new" THEN h[c]
                                                ELSE [Idle(Nobody) EXCEPT !.pc = "ended"]]
      /\ open' = {} /\ crashes' \in 0..MaxCrash /\ UNCHANGED <<users, sessions>>
  BY AccessAssumption DEF Crash, tables, AcInv, AcTypeOK
<1>2. [Idle(Nobody) EXCEPT !.pc = "ended"] \in Handler
  BY DEF Idle, Handler
<1>3. h' \in [Conn -> Handler]
  BY <1>1, <1>2 DEF AcInv, AcTypeOK
<1>4. \A c \in Conn : h'[c] = h[c] \/ h'[c] = [Idle(Nobody) EXCEPT !.pc = "ended"]
  BY <1>1
<1>5. AcTypeOK'
  <2>1. /\ [Idle(Nobody) EXCEPT !.pc = "ended"].token = 0
        /\ [Idle(Nobody) EXCEPT !.pc = "ended"].name = Nobody
        /\ sessions \in Seq(Row) /\ 0 \in 0..Len(sessions)
    BY DEF Idle, AcInv, AcTypeOK
  <2>2. \A c \in Conn : /\ h[c].token \in 0..Len(sessions)
                        /\ h[c].pc \in {"new", "recv", "finally", "ended"} =>
                             h[c].name = Nobody /\ h[c].token = 0
    BY DEF AcInv, AcTypeOK
  <2>3. \A c \in Conn : /\ h'[c].token \in 0..Len(sessions)
                        /\ h'[c].pc \in {"new", "recv", "finally", "ended"} =>
                             h'[c].name = Nobody /\ h'[c].token = 0
    BY <1>4, <2>1, <2>2
  <2> QED  BY <1>1, <1>3, <2>3 DEF AcInv, AcTypeOK
<1>6. LocalsOK' /\ ServedIsOwner' /\ SessionsHaveOwner'
  BY <1>1, <1>4 DEF AcInv, AcTypeOK, LocalsOK, ServedIsOwner, SessionsHaveOwner, Idle
<1> QED  BY <1>5, <1>6 DEF AcInv

-----------------------------------------------------------------------------
\* Every step of a handler is a call of the limiter or leaves it alone.

LEMMA RateKeyIsKey == ASSUME AcInv, NEW c \in Conn PROVE RateKey(c) \in Key
<1>1. h[c].username \in Name \cup {Nobody} /\ Peer[c] \in Key /\ Name \subseteq Key
  BY AccessAssumption DEF AcInv, AcTypeOK, Handler
<1> QED  BY <1>1 DEF RateKey

LEMMA FrameLimits ==
  ASSUME AcInv, NEW c \in Conn, NEW kind, NEW next, Frame(c, kind, next)
  PROVE  RlNext
<1>1. RateKey(c) \in Key
  BY RateKeyIsKey
<1>2. Allow(RateKey(c))
  BY DEF Frame
<1> QED  BY <1>1, <1>2 DEF RlNext

LEMMA AcLimits == AcInv /\ [AcNext]_allVars => [RlNext]_rlVars
<1> SUFFICES ASSUME AcInv, [AcNext]_allVars PROVE [RlNext]_rlVars
  OBVIOUS
<1>1. CASE UNCHANGED allVars
  BY <1>1 DEF allVars
<1>2. CASE Time
  BY <1>2 DEF Time, RlNext
<1>3. CASE Crash
  <2>1. Drop(Key)
    BY <1>3 DEF Crash
  <2> QED  BY <2>1 DEF RlNext
<1>4. ASSUME NEW c \in Conn, Input(c) PROVE [RlNext]_rlVars
  <2>1. CASE Connect(c) \/ Close(c)
    BY <2>1 DEF Connect, Close
  <2>2. CASE Other(c)
    BY <2>2, FrameLimits DEF Other
  <2>3. ASSUME NEW u \in Name, Register(c, u) \/ Login(c, u) PROVE RlNext
    BY <2>3, FrameLimits DEF Register, Login
  <2>4. ASSUME NEW i \in 1..MaxToken, Reauth(c, i) \/ Logout(c, i) PROVE RlNext
    BY <2>4, FrameLimits DEF Reauth, Logout
  <2> QED  BY <1>4, <2>1, <2>2, <2>3, <2>4 DEF Input
<1>5. ASSUME NEW c \in Conn, Resume(c) PROVE [RlNext]_rlVars
  <2>1. CASE Finish(c)
    <3>1. Drop({h[c].username, Peer[c]} \cap Key)
      BY <2>1 DEF Finish
    <3> QED  BY <3>1 DEF RlNext
  <2> QED  BY <1>5, <2>1 DEF Resume, Lookup, CreateUser, CreateSession, Validate, Answer,
                           Delete, Statement
<1> QED  BY <1>1, <1>2, <1>3, <1>4, <1>5 DEF AcNext

LEMMA AcNextInv == RlInv /\ AcInv /\ [AcNext]_allVars => AcInv'
<1> SUFFICES ASSUME RlInv, AcInv, [AcNext]_allVars PROVE AcInv'
  OBVIOUS
<1>1. clock \in Nat
  BY DEF RlInv, RlTypeOK
<1>2. CASE UNCHANGED acVars
  BY <1>2 DEF acVars, AcInv, AcTypeOK, LocalsOK, ServedIsOwner, SessionsHaveOwner
<1>3. ASSUME NEW c \in Conn, Resume(c) PROVE AcInv'
  BY <1>1, <1>3, LookupInv, CreateUserInv, CreateSessionInv, ValidateInv, AnswerInv,
     DeleteInv, FinishInv DEF Resume
<1> QED  BY <1>2, <1>3, InputInv, CrashInv DEF AcNext, Time, allVars

\* The invariant, together with that of the limiter.
LEMMA AccessInvariant == AcSpec => [](RlInv /\ AcInv)
<1>1. AcInit => RlInv /\ AcInv
  BY AcInitInv, RlInitInv DEF AcInit
<1>2. RlInv /\ AcInv /\ [AcNext]_<<acVars, rlVars>> => RlInv' /\ AcInv'
  BY AcNextInv, AcLimits, RlNextInv DEF allVars
<1> QED  BY <1>1, <1>2, PTL DEF AcSpec

-----------------------------------------------------------------------------
\* ws_server.handle asks the limiter for every frame and resets it when a connection ends
\* or the process does: it makes no other use of it.
THEOREM AccessUsesLimiter == AcSpec => RlSpec
<1>1. AcInit => RlInit
  BY DEF AcInit
<1>2. RlInv /\ AcInv /\ [AcNext]_<<acVars, rlVars>> => [RlNext]_rlVars
  BY AcLimits DEF allVars
<1> QED  BY <1>1, <1>2, AccessInvariant, PTL DEF AcSpec, RlSpec

\* handle: whatever the connections send and whenever they end, no bucket admits more
\* frames in a period than its capacity and the refill of the period.
THEOREM AccessKeepsRate == AcSpec => []RateKept
<1> QED  BY AccessUsesLimiter, LimiterKeepsRate, PTL

\* auth.py, ws_server.handle: the rows and the locals of the handlers are well-formed.
THEOREM AccessTypeCorrect == AcSpec => []AcTypeOK
<1>1. AcInv => AcTypeOK
  BY DEF AcInv
<1> QED  BY <1>1, AccessInvariant, PTL

\* auth.login, auth.validate_token: who is served under a name registered it.
THEOREM ServedUsersAreOwners == AcSpec => []ServedIsOwner
<1>1. AcInv => ServedIsOwner
  BY DEF AcInv
<1> QED  BY <1>1, AccessInvariant, PTL

\* db/users.py: every session opens the account of the person it was issued to.
THEOREM SessionsBelongToOwners == AcSpec => []SessionsHaveOwner
<1>1. AcInv => SessionsHaveOwner
  BY DEF AcInv
<1> QED  BY <1>1, AccessInvariant, PTL
=============================================================================
