---- MODULE UserQuotaProofs ----
(***************************************************************************)
(* Proofs about UserQuota, for any users, calls, limits and ratios.         *)
(***************************************************************************)
EXTENDS UserQuota, FiniteSetTheorems, TLAPS

----
(* What the operators return. *)

\* A purge returns a part of the window, no longer than the window was.
LEMMA PurgeShortens ==
    ASSUME NEW q \in Seq(Ages), NEW w \in Nat
    PROVE  Purge(q, w) \in Seq(Ages) /\ Len(Purge(q, w)) <= Len(q)
<1>0. Len(q) \in Nat
  OBVIOUS
<1>1. IsFiniteSet(1..Len(q)) /\ Cardinality(1..Len(q)) = Len(q)
  <2>1. 1 \in Int /\ Len(q) \in Int
    BY <1>0
  <2>2. Cardinality(1..Len(q)) = IF 1 > Len(q) THEN 0 ELSE Len(q) - 1 + 1
    BY <2>1, FS_Interval
  <2> QED
    BY <1>0, <2>1, <2>2, FS_Interval
<1>2. Expired(q, w) \subseteq 1..Len(q)
  BY DEF Expired
<1>3. Cardinality(Expired(q, w)) \in Nat
  BY <1>1, <1>2, FS_Subset, FS_CardinalityType
<1> QED
  BY <1>3 DEF Purge

\* A ratio is brought into its range and a quota is a whole number of tokens.
LEMMA QuotaIsNatural ==
    ASSUME NEW n \in Nat, NEW r \in Int
    PROVE  Quota(n, Clamp(r)) \in Nat
<1>1. Clamp(r) \in Nat
  BY AmountsAreNatural DEF Clamp, Least
<1>2. ASSUME NEW k \in Nat PROVE n * k \in Nat
  BY <1>2, SMT
<1>3. n * Clamp(r) \in Nat
  BY <1>1, <1>2
<1> QED
  BY <1>3, AmountsAreNatural DEF Quota

\* The table is a sequence of rows, and a row for each id makes it one.
LEMMA RowsAreRows ==
    ASSUME TypeOK
    PROVE  DOMAIN rows = 1..Len(rows) /\ Len(rows) \in Nat /\ \A i \in DOMAIN rows : rows[i] \in Row
<1> QED
  BY DEF TypeOK

LEMMA RowByRow ==
    ASSUME TypeOK, NEW t \in [DOMAIN rows -> Row]
    PROVE  t \in Seq(Row)
<1>1. t \in [1..Len(rows) -> Row] /\ Len(rows) \in Nat
  BY RowsAreRows
<1> QED
  BY <1>1

\* A call that passes its checks adds one to what its user has in flight.
LEMMA AdmissionCounts ==
    ASSUME TypeOK, NEW c \in Calls, NEW u \in Users, calls[c] = Idle,
           calls' = [calls EXCEPT ![c] = u], NEW v \in Users
    PROVE  /\ v = u => Cardinality(InFlight(v)') = Cardinality(InFlight(v)) + 1
           /\ v # u => InFlight(v)' = InFlight(v)
<1>1. IsFiniteSet(InFlight(u))
  BY CallsAreFinite, FS_Subset DEF InFlight
<1>2. c \notin InFlight(u)
  BY IdleIsNoUser DEF InFlight
<1>3. InFlight(u)' = InFlight(u) \union {c}
  BY DEF InFlight, TypeOK
<1>4. v # u => InFlight(v)' = InFlight(v)
  BY IdleIsNoUser DEF InFlight, TypeOK
<1> QED
  BY <1>1, <1>2, <1>3, <1>4, FS_AddElement

\* A call that ends takes one away.
LEMMA EndCounts ==
    ASSUME TypeOK, NEW c \in Calls, calls[c] # Idle,
           calls' = [calls EXCEPT ![c] = Idle], NEW v \in Users
    PROVE  /\ v = calls[c] => Cardinality(InFlight(v)') = Cardinality(InFlight(v)) - 1
           /\ v # calls[c] => InFlight(v)' = InFlight(v)
<1>1. IsFiniteSet(InFlight(v))
  BY CallsAreFinite, FS_Subset DEF InFlight
<1>2. CASE v = calls[c]
  <2>1. c \in InFlight(v)
    BY <1>2 DEF InFlight
  <2>2. InFlight(v)' = InFlight(v) \ {c}
    BY <1>2, IdleIsNoUser DEF InFlight, TypeOK
  <2> QED
    BY <1>1, <1>2, <2>1, <2>2, FS_RemoveElement
<1>3. CASE v # calls[c]
  BY <1>3, IdleIsNoUser DEF InFlight, TypeOK
<1> QED
  BY <1>2, <1>3

\* No user has more in flight than the service handles.
LEMMA InFlightIsBounded ==
    ASSUME NEW u \in Users
    PROVE  /\ Cardinality(InFlight(u)) \in Nat
           /\ Cardinality(Calls) \in Nat
           /\ Cardinality(InFlight(u)) <= Cardinality(Calls)
<1>1. InFlight(u) \subseteq Calls
  BY DEF InFlight
<1> QED
  BY <1>1, CallsAreFinite, FS_Subset, FS_CardinalityType

----
(* Types. *)

LEMMA InitTypes == Init => TypeOK
<1> QED
  BY IdleIsNoUser DEF Init, TypeOK, Empty, Ages

LEMMA TypesStay == TypeOK /\ [Next]_vars => TypeOK'
<1> SUFFICES ASSUME TypeOK, [Next]_vars PROVE TypeOK'
  OBVIOUS
<1>1. ASSUME NEW c \in Calls, NEW u \in Users, Ask(c, u) PROVE TypeOK'
  <2>1. Purge(rpm[u], Minute) \in Seq(Ages) /\ Purge(rpd[u], Day) \in Seq(Ages)
    BY PurgeShortens, WindowsAreOrdered DEF TypeOK
  <2>2. rpm' \in [Users -> Seq(Ages)] /\ rpd' \in [Users -> Seq(Ages)]
    BY <1>1, <2>1 DEF Ask, TypeOK
  <2>3. calls' \in [Calls -> Users \union {Idle}]
    BY <1>1 DEF Ask, TypeOK
  <2> QED
    BY <1>1, <2>2, <2>3 DEF Ask, TypeOK
<1>2. ASSUME NEW c \in Calls, NEW t \in Tokens, Served(c, t) PROVE TypeOK'
  <2>1. calls[c] \in Users /\ t \in Nat /\ Cap \in Nat
    BY <1>2, AmountsAreNatural, CapIsNatural DEF Served, TypeOK
  <2>2. rpm' \in [Users -> Seq(Ages)] /\ rpd' \in [Users -> Seq(Ages)]
    BY <1>2, <2>1, WindowsAreOrdered DEF Served, TypeOK, Ages
  <2>3. rows' \in Seq(Row)
    <3>1. ASSUME NEW i \in DOMAIN rows
          PROVE  [rows[i] EXCEPT !.borrowed = Least(Cap, @ + t)] \in Row
      BY <2>1, RowsAreRows DEF Row, Least
    <3>2. rows' \in [DOMAIN rows -> Row]
      BY <1>2, <3>1, RowsAreRows DEF Served, Charge
    <3> QED
      BY <3>2, RowByRow
  <2>4. over' \in [Users -> Nat] /\ calls' \in [Calls -> Users \union {Idle}]
    BY <1>2, <2>1 DEF Served, TypeOK
  <2> QED
    BY <2>2, <2>3, <2>4 DEF TypeOK
<1>3. ASSUME NEW c \in Calls, Unrecorded(c) PROVE TypeOK'
  BY <1>3 DEF Unrecorded, TypeOK
<1>4. ASSUME NEW u \in Users, NEW url \in Urls, NEW n \in Usages, Heartbeat(u, url, n) PROVE TypeOK'
  <2>1. n \in Nat
    BY AmountsAreNatural
  <2>2. rows' \in Seq(Row)
    <3>1. ASSUME NEW i \in Existing(u, url), rows' = [rows EXCEPT ![i].usage = n]
          PROVE  rows' \in Seq(Row)
      <4>1. i \in DOMAIN rows
        BY DEF Existing, RowsOf
      <4>2. [rows[i] EXCEPT !.usage = n] \in Row
        BY <2>1, <4>1, RowsAreRows DEF Row
      <4>3. rows' \in [DOMAIN rows -> Row]
        BY <3>1, <4>2, RowsAreRows
      <4> QED
        BY <4>3, RowByRow
    <3>2. NewRow(u, url, n) \in Row
      BY <2>1, CapIsNatural DEF NewRow, Row
    <3>3. Append(rows, NewRow(u, url, n)) \in Seq(Row)
      BY <3>2 DEF TypeOK
    <3> QED
      BY <1>4, <3>1, <3>3 DEF Heartbeat, Upsert
  <2> QED
    BY <1>4, <2>2 DEF Heartbeat, TypeOK
<1>5. ASSUME NEW u \in Users, NEW r \in Ratios, SetRatio(u, r) PROVE TypeOK'
  <2>1. ASSUME NEW i \in DOMAIN rows
        PROVE  [rows[i] EXCEPT !.max = Quota(rows[i].usage, Clamp(r))] \in Row
    <3>1. rows[i] \in Row /\ rows[i].usage \in Nat /\ r \in Int
      BY RowsAreRows, AmountsAreNatural DEF Row
    <3>2. Quota(rows[i].usage, Clamp(r)) \in Nat
      BY <3>1, QuotaIsNatural
    <3> QED
      BY <3>1, <3>2 DEF Row
  <2>2. rows' \in Seq(Row)
    <3>1. rows' \in [DOMAIN rows -> Row]
      BY <1>5, <2>1, RowsAreRows DEF SetRatio
    <3> QED
      BY <3>1, RowByRow
  <2> QED
    BY <1>5, <2>2 DEF SetRatio, TypeOK
<1>6. ASSUME NEW u \in Users, NEW url \in Urls, SetUrl(u, url) PROVE TypeOK'
  <2>1. rows' \in Seq(Row)
    <3>1. ASSUME NEW i \in DOMAIN rows PROVE [rows[i] EXCEPT !.url = url] \in Row
      BY RowsAreRows DEF Row
    <3>2. rows' \in [DOMAIN rows -> Row]
      BY <1>6, <3>1, RowsAreRows DEF SetUrl
    <3> QED
      BY <3>2, RowByRow
  <2> QED
    BY <1>6, <2>1 DEF SetUrl, TypeOK
<1>7. CASE Tick
  <2>1. ASSUME NEW q \in Seq(Ages) PROVE Older(q) \in Seq(Ages)
    BY <2>1, WindowsAreOrdered DEF Older, Ages, Least
  <2> QED
    BY <1>7, <2>1 DEF Tick, TypeOK
<1>8. CASE Restart
  BY <1>8 DEF Restart, TypeOK, Empty, Ages
<1>9. CASE UNCHANGED vars
  BY <1>9 DEF vars, TypeOK
<1> QED
  BY <1>1, <1>2, <1>3, <1>4, <1>5, <1>6, <1>7, <1>8, <1>9
  DEF Next, Asking, Serving, Ending, Beating, Administering

\* Rows, windows, calls and the history keep their types, whatever the limits
\* and ratios; in particular no quota becomes negative.
THEOREM TypeCorrect == Spec => []TypeOK
<1> QED
  BY InitTypes, TypesStay, PTL DEF Spec

----
(***************************************************************************)
(* The excess of calls over the limits.  RateOvershoot counts what a window *)
(* holds together with what is on its way to it, and that sum is inductive: *)
(* a call adds to the one when it is admitted, which it is only below the   *)
(* limit, and moves from the other to the one when it is answered.          *)
(***************************************************************************)

LEMMA InitRate == Init => RateOvershoot
<1> SUFFICES ASSUME Init, NEW u \in Users
             PROVE  /\ Len(rpm[u]) + Cardinality(InFlight(u)) < RPM + Cardinality(Calls)
                    /\ Len(rpd[u]) + Cardinality(InFlight(u)) < RPD + Cardinality(Calls)
  BY DEF RateOvershoot
<1>1. Len(rpm[u]) = 0 /\ Len(rpd[u]) = 0
  BY DEF Init, Empty
<1>2. InFlight(u) = {}
  BY IdleIsNoUser DEF Init, InFlight
<1> QED
  BY <1>1, <1>2, FS_EmptySet, InFlightIsBounded, LimitsArePositive, CallsAreFinite

LEMMA Shortened ==
    ASSUME NEW a \in Nat, NEW b \in Nat, NEW k \in Nat, NEW n \in Nat, a <= b, b + k < n
    PROVE  a + k < n
<1> QED
  OBVIOUS

LEMMA RateStays == TypeOK /\ RateOvershoot /\ [Next]_vars => RateOvershoot'
<1> SUFFICES ASSUME TypeOK, RateOvershoot, [Next]_vars, NEW v \in Users
             PROVE  (/\ Len(rpm[v]) + Cardinality(InFlight(v)) < RPM + Cardinality(Calls)
                     /\ Len(rpd[v]) + Cardinality(InFlight(v)) < RPD + Cardinality(Calls))'
  BY DEF RateOvershoot
<1> DEFINE Bounded ==
      /\ Len(rpm[v]) + Cardinality(InFlight(v)) < RPM + Cardinality(Calls)
      /\ Len(rpd[v]) + Cardinality(InFlight(v)) < RPD + Cardinality(Calls)
<1>a. /\ Bounded
      /\ rpm[v] \in Seq(Ages) /\ rpd[v] \in Seq(Ages)
      /\ Len(rpm[v]) \in Nat /\ Len(rpd[v]) \in Nat
      /\ Cardinality(InFlight(v)) \in Nat /\ Cardinality(Calls) \in Nat
      /\ Cardinality(InFlight(v)) <= Cardinality(Calls)
      /\ RPM \in Nat /\ RPD \in Nat
  BY InFlightIsBounded, LimitsArePositive DEF RateOvershoot, TypeOK
<1>1. ASSUME NEW c \in Calls, NEW u \in Users, Ask(c, u) PROVE Bounded'
  <2>1. CASE u # v
    <3>1. rpm'[v] = rpm[v] /\ rpd'[v] = rpd[v]
      BY <1>1, <2>1 DEF Ask, TypeOK
    <3>2. InFlight(v)' = InFlight(v)
      <4>1. CASE calls' = calls
        BY <4>1 DEF InFlight
      <4>2. CASE calls' = [calls EXCEPT ![c] = u]
        BY <1>1, <2>1, <4>2, AdmissionCounts DEF Ask
      <4> QED
        BY <1>1, <4>1, <4>2 DEF Ask
    <3> QED
      BY <1>a, <3>1, <3>2
  <2>2. CASE u = v
    <3>1. rpm'[v] = Purge(rpm[v], Minute) /\ rpd'[v] = Purge(rpd[v], Day)
      BY <1>1, <2>2 DEF Ask, TypeOK
    <3>2. /\ Len(rpm'[v]) \in Nat /\ Len(rpm'[v]) <= Len(rpm[v])
          /\ Len(rpd'[v]) \in Nat /\ Len(rpd'[v]) <= Len(rpd[v])
      <4>1. Len(Purge(rpm[v], Minute)) <= Len(rpm[v]) /\ Purge(rpm[v], Minute) \in Seq(Ages)
        BY <1>a, PurgeShortens, WindowsAreOrdered
      <4>2. Len(Purge(rpd[v], Day)) <= Len(rpd[v]) /\ Purge(rpd[v], Day) \in Seq(Ages)
        BY <1>a, PurgeShortens, WindowsAreOrdered
      <4> QED
        BY <3>1, <4>1, <4>2
    <3>3. CASE WithinRate(u)
      <4>1. Len(rpm'[v]) < RPM /\ Len(rpd'[v]) < RPD
        BY <2>2, <3>3 DEF WithinRate
      <4>2. Cardinality(InFlight(v)') <= Cardinality(Calls) /\ Cardinality(InFlight(v)') \in Nat
        BY InFlightIsBounded, CallsAreFinite, FS_Subset, FS_CardinalityType DEF InFlight
      <4> QED
        BY <1>a, <3>2, <4>1, <4>2
    <3>4. CASE ~WithinRate(u)
      <4>1. Cardinality(InFlight(v))' = Cardinality(InFlight(v))
        BY <1>1, <3>4 DEF Ask, InFlight
      <4>2. RPM + Cardinality(Calls) \in Nat /\ RPD + Cardinality(Calls) \in Nat
        BY <1>a
      <4>3. /\ Len(rpm'[v]) + Cardinality(InFlight(v)) < RPM + Cardinality(Calls)
            /\ Len(rpd'[v]) + Cardinality(InFlight(v)) < RPD + Cardinality(Calls)
        BY <1>a, <3>2, <4>2, Shortened
      <4> QED
        BY <4>1, <4>3
    <3> QED
      BY <3>3, <3>4
  <2> QED
    BY <2>1, <2>2
<1>2. ASSUME NEW c \in Calls, NEW t \in Tokens, Served(c, t) PROVE Bounded'
  <2>1. calls[c] \in Users /\ calls' = [calls EXCEPT ![c] = Idle] /\ calls[c] # Idle
    BY <1>2 DEF Served, TypeOK
  <2>2. CASE v = calls[c]
    <3>1. rpm'[v] = Append(rpm[v], 0) /\ rpd'[v] = Append(rpd[v], 0)
      BY <1>2, <2>1, <2>2 DEF Served, TypeOK
    <3>2. Len(rpm'[v]) = Len(rpm[v]) + 1 /\ Len(rpd'[v]) = Len(rpd[v]) + 1
      BY <1>a, <3>1
    <3>3. Cardinality(InFlight(v)') = Cardinality(InFlight(v)) - 1
      BY <2>1, <2>2, EndCounts
    <3> QED
      BY <1>a, <3>2, <3>3
  <2>3. CASE v # calls[c]
    <3>1. rpm'[v] = rpm[v] /\ rpd'[v] = rpd[v]
      BY <1>2, <2>1, <2>3 DEF Served, TypeOK
    <3>2. InFlight(v)' = InFlight(v)
      BY <2>1, <2>3, EndCounts
    <3> QED
      BY <1>a, <3>1, <3>2
  <2> QED
    BY <2>2, <2>3
<1>3. ASSUME NEW c \in Calls, Unrecorded(c) PROVE Bounded'
  <2>1. calls' = [calls EXCEPT ![c] = Idle] /\ calls[c] # Idle /\ rpm' = rpm /\ rpd' = rpd
    BY <1>3 DEF Unrecorded
  <2>2. \/ Cardinality(InFlight(v)') = Cardinality(InFlight(v)) - 1
        \/ InFlight(v)' = InFlight(v)
    BY <2>1, EndCounts
  <2> QED
    BY <1>a, <2>1, <2>2
<1>4. CASE rpm' = rpm /\ rpd' = rpd /\ calls' = calls
  BY <1>a, <1>4 DEF InFlight
<1>5. CASE Tick
  <2>1. rpm'[v] = Older(rpm[v]) /\ rpd'[v] = Older(rpd[v]) /\ InFlight(v)' = InFlight(v)
    BY <1>5 DEF Tick, InFlight
  <2>2. ASSUME NEW q \in Seq(Ages) PROVE Len(Older(q)) = Len(q)
    BY <2>2 DEF Older
  <2> QED
    BY <1>a, <2>1, <2>2
<1>6. CASE Restart
  <2>1. Len(rpm'[v]) = 0 /\ Len(rpd'[v]) = 0
    BY <1>6 DEF Restart, Empty
  <2>2. InFlight(v)' = {}
    BY <1>6, IdleIsNoUser DEF Restart, InFlight
  <2> QED
    BY <1>a, <2>1, <2>2, FS_EmptySet, LimitsArePositive, CallsAreFinite
<1> QED
  BY <1>1, <1>2, <1>3, <1>4, <1>5, <1>6
  DEF Next, Asking, Serving, Ending, Beating, Administering, Heartbeat, SetRatio, SetUrl, vars

\* However many calls overlap, a window and what is on its way to it exceed
\* the limit by less than the number of calls the service handles at once.
THEOREM RateExcessBounded == Spec => []RateOvershoot
<1>1. Init => TypeOK /\ RateOvershoot
  BY InitTypes, InitRate
<1>2. TypeOK /\ RateOvershoot /\ [Next]_vars => (TypeOK /\ RateOvershoot)'
  BY TypesStay, RateStays
<1> QED
  BY <1>1, <1>2, PTL DEF Spec

----
(***************************************************************************)
(* The excess over the quota.  While a user's quota is exhausted no call of *)
(* theirs is admitted, so what is recorded then was in flight before.       *)
(***************************************************************************)

\* A step that leaves quota and borrowing of a user's rows alone, or adds rows
\* without a quota, does not exhaust the user.
LEMMA NotExhaustedBy ==
    ASSUME NEW v \in Users,
           \A i \in DOMAIN rows' :
              rows'[i].user = v =>
                \/ rows'[i].max = 0
                \/ /\ i \in DOMAIN rows
                   /\ rows[i].user = v
                   /\ rows'[i].max = rows[i].max
                   /\ rows'[i].borrowed = rows[i].borrowed
    PROVE  Exhausted(v)' => Exhausted(v)
<1> QED
  BY DEF Exhausted, RowsOf

LEMMA QuotaStays == TypeOK /\ QuotaOvershoot /\ [Next]_vars => QuotaOvershoot'
<1> SUFFICES ASSUME TypeOK, QuotaOvershoot, [Next]_vars, NEW v \in Users, Exhausted(v)'
             PROVE  over'[v] + Cardinality(InFlight(v)') <= Cardinality(Calls)
  BY DEF QuotaOvershoot
<1> DEFINE Goal == over'[v] + Cardinality(InFlight(v)') <= Cardinality(Calls)
<1>a. /\ over[v] \in Nat /\ Cardinality(Calls) \in Nat
      /\ Cardinality(InFlight(v)) \in Nat
      /\ Cardinality(InFlight(v)) <= Cardinality(Calls)
      /\ Exhausted(v) => over[v] + Cardinality(InFlight(v)) <= Cardinality(Calls)
  BY InFlightIsBounded DEF TypeOK, QuotaOvershoot
<1>b. Cardinality(InFlight(v)') \in Nat /\ Cardinality(InFlight(v)') <= Cardinality(Calls)
  BY InFlightIsBounded, CallsAreFinite, FS_Subset, FS_CardinalityType DEF InFlight
<1>c. ASSUME rows' = rows PROVE Exhausted(v)
  BY <1>c, NotExhaustedBy
<1>1. ASSUME NEW c \in Calls, NEW u \in Users, Ask(c, u) PROVE Goal
  <2>1. Exhausted(v) /\ u # v /\ over' = over
    BY <1>1, <1>c DEF Ask
  <2>2. InFlight(v)' = InFlight(v)
    <3>1. CASE calls' = calls
      BY <3>1 DEF InFlight
    <3>2. CASE calls' = [calls EXCEPT ![c] = u]
      BY <1>1, <2>1, <3>2, AdmissionCounts DEF Ask
    <3> QED
      BY <1>1, <3>1, <3>2 DEF Ask
  <2> QED
    BY <1>a, <2>1, <2>2
<1>2. ASSUME NEW c \in Calls, NEW t \in Tokens, Served(c, t) PROVE Goal
  <2>1. calls[c] \in Users /\ calls' = [calls EXCEPT ![c] = Idle] /\ calls[c] # Idle
    BY <1>2 DEF Served, TypeOK
  <2>2. CASE v = calls[c]
    <3>1. over'[v] = IF Exhausted(v) THEN over[v] + 1 ELSE 0
      BY <1>2, <2>1, <2>2 DEF Served, TypeOK
    <3>2. Cardinality(InFlight(v)') = Cardinality(InFlight(v)) - 1
      BY <2>1, <2>2, EndCounts
    <3>3. CASE Exhausted(v)
      BY <1>a, <3>1, <3>2, <3>3
    <3>4. CASE ~Exhausted(v)
      BY <1>b, <3>1, <3>4
    <3> QED
      BY <3>3, <3>4
  <2>3. CASE v # calls[c]
    <3>1. over'[v] = over[v]
      BY <1>2, <2>1, <2>3 DEF Served, TypeOK
    <3>2. InFlight(v)' = InFlight(v)
      BY <2>1, <2>3, EndCounts
    <3>3. Exhausted(v)
      BY <1>2, <2>3, NotExhaustedBy, RowsAreRows DEF Served, Charge, Row
    <3> QED
      BY <1>a, <3>1, <3>2, <3>3
  <2> QED
    BY <2>2, <2>3
<1>3. ASSUME NEW c \in Calls, Unrecorded(c) PROVE Goal
  <2>1. /\ calls' = [calls EXCEPT ![c] = Idle] /\ calls[c] # Idle
        /\ over' = over /\ Exhausted(v)
    BY <1>3, <1>c DEF Unrecorded
  <2>2. \/ Cardinality(InFlight(v)') = Cardinality(InFlight(v)) - 1
        \/ InFlight(v)' = InFlight(v)
    BY <2>1, EndCounts
  <2> QED
    BY <1>a, <2>1, <2>2
<1>4. ASSUME NEW u \in Users, NEW url \in Urls, NEW n \in Usages, Heartbeat(u, url, n) PROVE Goal
  <2>1. Exhausted(v)
    <3>1. ASSUME NEW i \in Existing(u, url), rows' = [rows EXCEPT ![i].usage = n]
          PROVE  Exhausted(v)
      BY <3>1, NotExhaustedBy, RowsAreRows DEF Existing, RowsOf, Row
    <3>2. CASE rows' = Append(rows, NewRow(u, url, n))
      BY <3>2, NotExhaustedBy, RowsAreRows DEF NewRow, TypeOK
    <3> QED
      BY <1>4, <3>1, <3>2 DEF Heartbeat, Upsert
  <2>2. over' = over /\ InFlight(v)' = InFlight(v)
    BY <1>4 DEF Heartbeat, InFlight
  <2> QED
    BY <1>a, <2>1, <2>2
<1>5. ASSUME NEW u \in Users, NEW r \in Ratios, SetRatio(u, r) PROVE Goal
  <2>1. InFlight(v)' = InFlight(v)
    BY <1>5 DEF SetRatio, InFlight
  <2>2. CASE u = v
    BY <1>5, <1>a, <2>1, <2>2 DEF SetRatio, TypeOK
  <2>3. CASE u # v
    <3>1. over'[v] = over[v]
      BY <1>5, <2>3 DEF SetRatio, TypeOK
    <3>2. Exhausted(v)
      BY <1>5, <2>3, NotExhaustedBy, RowsAreRows DEF SetRatio, Row
    <3> QED
      BY <1>a, <2>1, <3>1, <3>2
  <2> QED
    BY <2>2, <2>3
<1>6. ASSUME NEW u \in Users, NEW url \in Urls, SetUrl(u, url) PROVE Goal
  <2>1. over' = over /\ InFlight(v)' = InFlight(v)
    BY <1>6 DEF SetUrl, InFlight
  <2>2. Exhausted(v)
    BY <1>6, NotExhaustedBy, RowsAreRows DEF SetUrl, Row
  <2> QED
    BY <1>a, <2>1, <2>2
<1>7. CASE rows' = rows /\ calls' = calls /\ over' = over
  BY <1>7, <1>a, <1>c DEF InFlight
<1>8. CASE Restart
  <2>1. InFlight(v)' = {} /\ over' = over /\ Exhausted(v)
    BY <1>8, <1>c, IdleIsNoUser DEF Restart, InFlight
  <2> QED
    BY <1>a, <2>1, FS_EmptySet
<1> QED
  BY <1>1, <1>2, <1>3, <1>4, <1>5, <1>6, <1>7, <1>8
  DEF Next, Asking, Serving, Ending, Beating, Administering, Tick, vars

\* A user whose quota is exhausted is served no more than the calls that were
\* in flight when it ran out, whatever else happens meanwhile.
THEOREM QuotaExcessBounded == Spec => []QuotaOvershoot
<1>1. Init => TypeOK /\ QuotaOvershoot
  BY InitTypes DEF Init, QuotaOvershoot, Exhausted, RowsOf
<1>2. TypeOK /\ QuotaOvershoot /\ [Next]_vars => (TypeOK /\ QuotaOvershoot)'
  BY TypesStay, QuotaStays
<1> QED
  BY <1>1, <1>2, PTL DEF Spec

----
(* What is borrowed stays borrowed. *)

LEMMA BorrowingStays ==
    ASSUME TypeOK, [Next]_vars, NEW i \in DOMAIN rows
    PROVE  i \in DOMAIN rows' /\ rows'[i].user = rows[i].user /\ rows'[i].borrowed >= rows[i].borrowed
<1> DEFINE Kept == i \in DOMAIN rows' /\ rows'[i].user = rows[i].user /\ rows'[i].borrowed >= rows[i].borrowed
<1>a. /\ rows[i] \in Row /\ rows[i].borrowed \in Nat /\ rows[i].borrowed <= Cap /\ Cap \in Nat
      /\ DOMAIN rows = 1..Len(rows) /\ rows \in Seq(Row)
  <2>1. rows[i] \in Row /\ DOMAIN rows = 1..Len(rows)
    BY RowsAreRows
  <2>2. Cap \in Nat
    BY CapIsNatural
  <2>3. rows[i].borrowed \in 0..Cap
    BY <2>1 DEF Row
  <2>4. rows \in Seq(Row)
    BY DEF TypeOK
  <2> QED
    BY <2>1, <2>2, <2>3, <2>4
<1>1. ASSUME NEW c \in Calls, NEW t \in Tokens, Served(c, t) PROVE Kept
  <2>1. t \in Nat
    BY AmountsAreNatural
  <2>2. /\ i \in DOMAIN rows'
        /\ rows'[i] = IF rows[i].user = calls[c]
                        THEN [rows[i] EXCEPT !.borrowed = Least(Cap, @ + t)] ELSE rows[i]
    BY <1>1 DEF Served, Charge
  <2>3. Least(Cap, rows[i].borrowed + t) >= rows[i].borrowed
    BY <1>a, <2>1 DEF Least
  <2> QED
    BY <1>a, <2>2, <2>3 DEF Row
<1>2. ASSUME NEW u \in Users, NEW url \in Urls, NEW n \in Usages, Heartbeat(u, url, n) PROVE Kept
  <2>1. ASSUME NEW j \in Existing(u, url), rows' = [rows EXCEPT ![j].usage = n] PROVE Kept
    BY <1>a, <2>1 DEF Row
  <2>2. CASE rows' = Append(rows, NewRow(u, url, n))
    <3>1. i \in DOMAIN rows' /\ rows'[i] = rows[i]
      BY <1>a, <2>2
    <3> QED
      BY <1>a, <3>1
  <2> QED
    BY <1>2, <2>1, <2>2 DEF Heartbeat, Upsert
<1>3. ASSUME NEW u \in Users, NEW r \in Ratios, SetRatio(u, r) PROVE Kept
  BY <1>a, <1>3 DEF SetRatio, Row
<1>4. ASSUME NEW u \in Users, NEW url \in Urls, SetUrl(u, url) PROVE Kept
  BY <1>a, <1>4 DEF SetUrl, Row
<1>5. CASE rows' = rows
  BY <1>a, <1>5
<1> QED
  BY <1>1, <1>2, <1>3, <1>4, <1>5
  DEF Next, Asking, Serving, Ending, Beating, Administering, Ask, Unrecorded, Tick, Restart, vars

\* No heartbeat, ratio, URL, tick or restart gives back what was borrowed.
THEOREM BorrowedNeverFalls == Spec => BorrowingIsKept
<1>1. TypeOK /\ [Next]_vars =>
        [\A i \in DOMAIN rows :
           i \in DOMAIN rows' /\ rows'[i].user = rows[i].user /\ rows'[i].borrowed >= rows[i].borrowed]_vars
  BY BorrowingStays
<1> QED
  BY <1>1, TypeCorrect, PTL DEF Spec, BorrowingIsKept
====
