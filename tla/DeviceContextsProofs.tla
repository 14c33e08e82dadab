------------------------ MODULE DeviceContextsProofs ------------------------
(***************************************************************************)
(* Lemmas about the operators of DeviceContexts.                           *)
(***************************************************************************)
EXTENDS DeviceContexts, SequenceTheorems, NaturalsInduction, WellFoundedInduction, TLAPS

SubscriptionMap == [Ip -> [Service -> Subscription]]

\* The scans end at the first index, which there is.
LEMMA FirstOfIs ==
    ASSUME NEW S, NEW q \in Seq(S), NEW X, NEW k \in DOMAIN q, q[k] \in X,
           \A j \in DOMAIN q : q[j] \in X => k <= j
    PROVE  FirstOf(q, X) = q[k]
<1> DEFINE P(i) == q[i] \in X /\ \A j \in DOMAIN q : q[j] \in X => i <= j
           m == CHOOSE i \in DOMAIN q : P(i)
<1>1. m \in DOMAIN q /\ P(m)
  <2>1. \E i \in DOMAIN q : P(i)
      OBVIOUS
  <2> QED
      BY <2>1
<1>2. FirstOf(q, X) = q[m]
    BY DEF FirstOf
<1> HIDE DEF m
<1>3. m <= k /\ k <= m /\ m \in Nat /\ k \in Nat
    BY <1>1, LenProperties
<1> QED
    BY <1>2, <1>3

LEMMA FirstIndex ==
    ASSUME NEW S, NEW q \in Seq(S), NEW X, Range(q) \cap X # {}
    PROVE  \E k \in DOMAIN q : /\ q[k] \in X
                               /\ \A j \in DOMAIN q : q[j] \in X => k <= j
<1> DEFINE I == {i \in DOMAIN q : q[i] \in X}
           Less == {ss \in Nat \X Nat : ss[1] < ss[2]}
<1>1. I # {} /\ I \subseteq Nat
    BY LenProperties DEF Range
<1>2. IsWellFoundedOn(Less, Nat)
    BY NatLessThanWellFounded, Zenon DEF OpToRel
<1> HIDE DEF I, Less
<1>3. PICK i \in I : \A j \in I : ~(<<j, i>> \in Less)
    BY <1>1, <1>2, WFMin
<1>4. ASSUME NEW j \in I
      PROVE  i <= j
  <2>1. j < i => <<j, i>> \in Less
      BY <1>1 DEF Less
  <2> QED
      BY <1>1, <1>3, <2>1
<1> QED
    BY <1>3, <1>4 DEF I

\* A non-empty sequence with an element in X has a first such element
\* (the scans over device->contexts of device.c end at it).
LEMMA FirstOfInRange ==
    ASSUME NEW S, NEW q \in Seq(S), NEW X, Range(q) \cap X # {}
    PROVE  FirstOf(q, X) \in Range(q) \cap X
<1>1. PICK k \in DOMAIN q : /\ q[k] \in X
                            /\ \A j \in DOMAIN q : q[j] \in X => k <= j
    BY FirstIndex
<1>2. FirstOf(q, X) = q[k]
    BY <1>1, FirstOfIs
<1> QED
    BY <1>1, <1>2 DEF Range

\* dlr_device_get_context returns one of the contexts.
LEMMA PreferredInRange ==
    ASSUME NEW q \in Seq(Ip), q # <<>>
    PROVE  Preferred(q) \in Range(q) /\ Preferred(q) \in Ip
<1>1. q[1] \in Range(q)
    BY DEF Range
<1>2. Range(q) \subseteq Ip
    BY DEF Range
<1> QED
    BY <1>1, <1>2, FirstOfInRange DEF Preferred

\* The contexts of a device of which one is removed: the others stay, once
\* each (g_ptr_array_remove_index in prv_server_unavailable_cb).
LEMMA RemoveOne ==
    ASSUME NEW q \in Seq(Ip), NEW i \in DOMAIN q, IsInjective(q)
    PROVE  /\ RemoveAt(q, i) \in Seq(Ip)
           /\ Len(RemoveAt(q, i)) = Len(q) - 1
           /\ Range(RemoveAt(q, i)) = Range(q) \ {q[i]}
           /\ IsInjective(RemoveAt(q, i))
           /\ \A j \in 1 .. Len(q) - 1 :
                 RemoveAt(q, i)[j] = IF j < i THEN q[j] ELSE q[j + 1]
<1> DEFINE r == RemoveAt(q, i)
           n == Len(q)
<1>1. n \in Nat /\ DOMAIN q = 1 .. n /\ i \in 1 .. n
    BY LenProperties
<1>2. \A j \in 1 .. n : q[j] \in Ip
    BY <1>1
<1> DEFINE before == SubSeq(q, 1, i - 1)
           after == SubSeq(q, i + 1, n)
<1>3. /\ before \in Seq(Ip)
      /\ Len(before) = i - 1
      /\ \A j \in 1 .. i - 1 : before[j] = q[j]
    BY <1>1, <1>2, SubSeqProperties
<1>4. /\ after \in Seq(Ip)
      /\ Len(after) = n - i
      /\ \A j \in 1 .. n - i : after[j] = q[i + j]
    BY <1>1, <1>2, SubSeqProperties
<1>5. /\ r \in Seq(Ip)
      /\ Len(r) = n - 1
      /\ \A j \in 1 .. n - 1 : r[j] = IF j < i THEN q[j] ELSE q[j + 1]
  <2>1. r = before \o after
      BY DEF RemoveAt
  <2> HIDE DEF r, before, after
  <2>2. /\ r \in Seq(Ip)
        /\ Len(r) = Len(before) + Len(after)
        /\ \A j \in 1 .. Len(before) + Len(after) :
              r[j] = IF j <= Len(before) THEN before[j]
                     ELSE after[j - Len(before)]
      BY <1>3, <1>4, <2>1, ConcatProperties
  <2>3. Len(r) = n - 1
      BY <1>1, <1>3, <1>4, <2>2
  <2>4. ASSUME NEW j \in 1 .. n - 1
        PROVE  r[j] = IF j < i THEN q[j] ELSE q[j + 1]
    <3>1. CASE j < i
        BY <1>1, <1>3, <1>4, <2>2, <3>1
    <3>2. CASE ~(j < i)
      <4>1. r[j] = after[j - (i - 1)]
          BY <1>1, <1>3, <1>4, <2>2, <3>2
      <4>2. j - (i - 1) \in 1 .. n - i
          BY <1>1, <3>2
      <4>3. after[j - (i - 1)] = q[i + (j - (i - 1))]
          BY <1>4, <4>2
      <4>4. i + (j - (i - 1)) = j + 1
          BY <1>1
      <4> QED
          BY <3>2, <4>1, <4>3, <4>4
    <3> QED
        BY <3>1, <3>2
  <2> QED
      BY <2>2, <2>3, <2>4
<1> HIDE DEF r, before, after, n
<1>6. DOMAIN r = 1 .. n - 1
    BY <1>5, LenProperties
<1>7. \A a, b \in 1 .. n : q[a] = q[b] => a = b
    BY <1>1 DEF IsInjective
<1>8. IsInjective(r)
    BY <1>1, <1>5, <1>6, <1>7 DEF IsInjective
<1>9. Range(r) \subseteq Range(q) \ {q[i]}
  <2> SUFFICES ASSUME NEW j \in 1 .. n - 1
               PROVE  r[j] \in Range(q) /\ r[j] # q[i]
      BY <1>6 DEF Range
  <2> DEFINE k == IF j < i THEN j ELSE j + 1
  <2>1. k \in 1 .. n /\ k # i /\ r[j] = q[k]
      BY <1>1, <1>5
  <2> HIDE DEF k
  <2>2. q[k] # q[i]
      BY <1>1, <1>7, <2>1
  <2> QED
      BY <1>1, <2>1, <2>2 DEF Range
<1>10. Range(q) \ {q[i]} \subseteq Range(r)
  <2> SUFFICES ASSUME NEW k \in 1 .. n, k # i
               PROVE  q[k] \in Range(r)
      BY <1>1 DEF Range
  <2>1. CASE k < i
      <3>1. k \in 1 .. n - 1 /\ r[k] = q[k]
          BY <1>1, <1>5, <2>1
      <3> QED
          BY <1>6, <3>1 DEF Range
  <2>2. CASE k > i
      <3>1. k - 1 \in 1 .. n - 1 /\ r[k - 1] = q[k]
          BY <1>1, <1>5, <2>2
      <3> QED
          BY <1>6, <3>1 DEF Range
  <2> QED
      BY <1>1, <2>1, <2>2
<1> QED
    BY <1>5, <1>8, <1>9, <1>10 DEF r, n

\* The first element of X stays so when another one is removed.
LEMMA FirstOfKept ==
    ASSUME NEW q \in Seq(Ip), NEW i \in DOMAIN q, IsInjective(q), NEW X,
           Range(q) \cap X # {}, FirstOf(q, X) # q[i]
    PROVE  FirstOf(RemoveAt(q, i), X) = FirstOf(q, X)
<1>1. PICK k \in DOMAIN q : /\ q[k] \in X
                            /\ \A j \in DOMAIN q : q[j] \in X => k <= j
    BY FirstIndex
<1>2. FirstOf(q, X) = q[k] /\ k # i
    BY <1>1, FirstOfIs
<1>3. PICK r : r = RemoveAt(q, i)
    OBVIOUS
<1>4. PICK n \in Nat : n = Len(q) /\ DOMAIN q = 1 .. n
    BY LenProperties
<1>5. /\ r \in Seq(Ip) /\ DOMAIN r = 1 .. n - 1
      /\ \A j \in 1 .. n - 1 : r[j] = IF j < i THEN q[j] ELSE q[j + 1]
  <2>1. /\ r \in Seq(Ip) /\ Len(r) = n - 1
        /\ \A j \in 1 .. n - 1 : r[j] = IF j < i THEN q[j] ELSE q[j + 1]
      BY <1>3, <1>4, RemoveOne
  <2> QED
      BY <2>1, LenProperties
<1>6. PICK h \in 1 .. n - 1 : h = IF k < i THEN k ELSE k - 1
    BY <1>2, <1>4
<1>7. r[h] = q[k]
    BY <1>2, <1>4, <1>5, <1>6
<1>8. ASSUME NEW j \in 1 .. n - 1, r[j] \in X
      PROVE  h <= j
  <2>1. CASE j < i
      BY <1>1, <1>4, <1>5, <1>6, <1>8, <2>1
  <2>2. CASE ~(j < i)
    <3>1. k <= j + 1
        BY <1>1, <1>4, <1>5, <1>8, <2>2
    <3> QED
        BY <1>2, <1>4, <1>6, <2>2, <3>1
  <2> QED
      BY <2>1, <2>2
<1>9. FirstOf(r, X) = r[h]
    BY <1>1, <1>5, <1>7, <1>8, FirstOfIs
<1> QED
    BY <1>2, <1>3, <1>7, <1>9

\* The preferred context stays so when another one is removed.
LEMMA PreferredKept ==
    ASSUME NEW q \in Seq(Ip), NEW i \in DOMAIN q, IsInjective(q),
           q[i] # Preferred(q)
    PROVE  Preferred(RemoveAt(q, i)) = Preferred(q)
<1>1. PICK r : r = RemoveAt(q, i)
    OBVIOUS
<1>2. Range(r) = Range(q) \ {q[i]}
    BY <1>1, RemoveOne
<1>3. CASE Range(q) \cap Loopback # {}
  <2>1. Preferred(q) = FirstOf(q, Loopback)
      BY <1>3 DEF Preferred
  <2>2. FirstOf(r, Loopback) = FirstOf(q, Loopback)
      BY <1>1, <1>3, <2>1, FirstOfKept
  <2>3. Range(r) \cap Loopback # {}
      BY <1>2, <1>3, <2>1, FirstOfInRange
  <2> QED
      BY <1>1, <2>1, <2>2, <2>3 DEF Preferred
<1>4. CASE Range(q) \cap Loopback = {}
  <2>1. Preferred(q) = q[1] /\ i # 1
      BY <1>4 DEF Preferred
  <2>2. r[1] = q[1]
    <3>1. PICK n \in Nat : n = Len(q) /\ DOMAIN q = 1 .. n
        BY LenProperties
    <3>2. 1 \in 1 .. n - 1 /\ 1 < i
        BY <2>1, <3>1
    <3> QED
        BY <1>1, <3>1, <3>2, RemoveOne
  <2>3. Range(r) \cap Loopback = {}
      BY <1>2, <1>4
  <2> QED
      BY <1>1, <2>1, <2>2, <2>3 DEF Preferred
<1> QED
    BY <1>3, <1>4

-----------------------------------------------------------------------------
(***************************************************************************)
(* The subscription records keep their types.                              *)
(***************************************************************************)

LEMMA FreshType == Fresh \in [Service -> Subscription]
BY DEF Fresh, Subscription

LEMMA SubscribeServicesType ==
    ASSUME NEW c \in [Service -> Subscription]
    PROVE  SubscribeServices(c) \in [Service -> Subscription]
<1>1. ASSUME NEW r \in Subscription
      PROVE  [r EXCEPT !.flag = TRUE, !.live = TRUE, !.notify = @ + 1,
                       !.handlers = @ + 1] \in Subscription
  <2>1. r.notify + 1 \in Nat /\ r.handlers + 1 \in Nat
      BY DEF Subscription
  <2> QED
      BY <2>1 DEF Subscription
<1> QED
    BY <1>1 DEF SubscribeServices

LEMMA UnsubscribeServicesType ==
    ASSUME NEW c \in [Service -> Subscription]
    PROVE  UnsubscribeServices(c) \in [Service -> Subscription]
<1>1. \A n \in Nat : Decrement(n) \in Nat
    BY DEF Decrement
<1> QED
    BY <1>1 DEF UnsubscribeServices, Subscription

LEMMA SubscribePreferredType ==
    ASSUME NEW q \in Seq(Ip), NEW S \in SubscriptionMap
    PROVE  SubscribePreferred(q, S) \in SubscriptionMap
BY SubscribeServicesType DEF SubscribePreferred, SubscriptionMap

LEMMA SubscribeContextType ==
    ASSUME NEW q \in Seq(Ip), NEW S \in SubscriptionMap
    PROVE  SubscribeContext(q, S) \in SubscriptionMap
<1>1. \A ip : [S EXCEPT ![ip] = UnsubscribeServices(@)] \in SubscriptionMap
    BY UnsubscribeServicesType DEF SubscriptionMap
<1> QED
    BY <1>1, SubscribePreferredType DEF SubscribeContext

LEMMA RunHandlersType ==
    ASSUME NEW r \in Subscription, NEW n \in Nat
    PROVE  RunHandlers(r, n) \in Subscription
<1> DEFINE armed == IF r.retry THEN 1 ELSE 0
           giveUps == (n + armed) \div 2
<1>1. giveUps \in Nat
    OBVIOUS
<1> HIDE DEF giveUps
<1>2. (IF r.notify > giveUps THEN r.notify - giveUps ELSE 0) \in Nat
    BY <1>1 DEF Subscription
<1> USE DEF giveUps
<1> QED
    BY <1>2 DEF RunHandlers, Subscription

LEMMA LoseSubscriptionType ==
    ASSUME NEW c \in [Service -> Subscription], NEW p \in Service
    PROVE  LoseSubscription(c, p) \in [Service -> Subscription]
<1> SUFFICES ASSUME NEW s \in Service
             PROVE  LoseSubscription(c, p)[s] \in Subscription
    BY DEF LoseSubscription
<1> DEFINE r == IF s = p THEN [c[s] EXCEPT !.live = FALSE] ELSE c[s]
<1>1. r \in Subscription
    BY DEF Subscription
<1>2. r.handlers \in Nat
    BY <1>1 DEF Subscription
<1> HIDE DEF r
<1>3. RunHandlers(r, r.handlers) \in Subscription
    BY <1>1, <1>2, RunHandlersType
<1> QED
    BY <1>1, <1>3 DEF LoseSubscription, r

LEMMA ReEnableType ==
    ASSUME NEW c \in [Service -> Subscription], NEW s \in Service
    PROVE  ReEnable(c, s) \in [Service -> Subscription]
BY DEF ReEnable, Subscription
=============================================================================
