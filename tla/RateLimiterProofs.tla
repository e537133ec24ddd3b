------------------------- MODULE RateLimiterProofs -------------------------
(***************************************************************************)
(* Theorems about the limiter, for any addresses, limit and window.  The   *)
(* counter forgets every window but the running one, so the invariant is   *)
(* about the history: some of an address's grants opened a window, two of  *)
(* these are a window apart, and any MaxRequests grants in a row hold one. *)
(* A stretch of (k + 1) * MaxRequests grants thus holds k + 1 of them, and *)
(* lasts k windows.                                                        *)
(*                                                                         *)
(* g stands for the n grants of an address, count and since for its        *)
(* counter and the start of its window, opened for the grants that opened  *)
(* a window.                                                               *)
(***************************************************************************)
EXTENDS RateLimiter, WellFoundedInduction, TLAPS

USE LimiterAssumption

\* The index of the grant that opened the window.
Opener(n, count) == n - count + 1

\* The counter counts the last grants, the first of which dates the window.
CountInv(g, n, count, since) ==
  /\ count <= n
  /\ count = 0 => n = 0
  /\ count > 0 => g[Opener(n, count)] = since

\* Grants are in the order of time and none is in the future.
TimeInv(g, n, now) ==
  /\ \A i \in 1 .. n : g[i] <= now
  /\ \A i, j \in 1 .. n : i <= j => g[i] <= g[j]

\* The running window was opened last; the grants that opened one are a window
\* apart, and no MaxRequests grants in a row do without one.
OpenedInv(g, n, count, opened) ==
  /\ \A o \in opened : o \in 1 .. n /\ o <= Opener(n, count)
  /\ count > 0 => Opener(n, count) \in opened
  /\ \A o, p \in opened : o < p => g[p] - g[o] >= Window
  /\ \A i \in 1 .. n : i + MaxRequests <= n + 1 =>
        \E o \in opened : i <= o /\ o < i + MaxRequests

AddressInv(g, n, count, since, now) ==
  /\ CountInv(g, n, count, since)
  /\ TimeInv(g, n, now)
  /\ \E opened \in SUBSET Nat : OpenedInv(g, n, count, opened)

\* The invariant for one address.
InvOf(ip) ==
  AddressInv(grants[ip], Len(grants[ip]), hits[ip].count, hits[ip].windowStart, clock)

IInv == TypeOK /\ \A ip \in Addresses : InvOf(ip)

----------------------------------------------------------------------------
(* Facts about one address, whatever the state.                            *)

\* `next` is what n grants g become with one more, now.
Extends(next, g, n, now) ==
  next[n + 1] = now /\ \A i \in 1 .. n : next[i] = g[i] /\ g[i] \in Nat

\* The first request of a window comes a window after all that opened one.
LEMMA OpenedByTheFirst ==
  ASSUME NEW g, NEW next, NEW n \in Nat, NEW now \in Nat,
         NEW count \in 0 .. MaxRequests, NEW since \in Nat,
         NEW opened \in SUBSET Nat, OpenedInv(g, n, count, opened),
         CountInv(g, n, count, since), TimeInv(g, n, now), Extends(next, g, n, now),
         count = 0 \/ now - since >= Window
  PROVE  OpenedInv(next, n + 1, 1, opened \cup {n + 1})
<1> DEFINE both == opened \cup {n + 1}
<1>1. \A o \in opened : o \in 1 .. n /\ count > 0
  BY DEF OpenedInv, CountInv
<1>2. Opener(n + 1, 1) = n + 1
  BY DEF Opener
<1>3. \A o \in both : o \in 1 .. n + 1 /\ o <= n + 1
  BY <1>1
<1>4. ASSUME NEW o \in both, NEW p \in both, o < p
      PROVE  next[p] - next[o] >= Window
  <2>1. o \in opened /\ o \in 1 .. n /\ next[o] = g[o] /\ g[o] \in Nat
    BY <1>1, <1>4 DEF Extends
  <2>2. CASE p \in opened
    BY <1>1, <1>4, <2>1, <2>2 DEF OpenedInv, Extends
  <2>3. CASE p = n + 1
    <3>1. o <= n - count + 1 /\ count > 0
      BY <1>1, <2>1 DEF OpenedInv, Opener
    <3>2. g[n - count + 1] = since /\ n - count + 1 \in 1 .. n
      BY <3>1 DEF CountInv, Opener
    <3>3. g[o] <= since
      BY <2>1, <3>1, <3>2 DEF TimeInv
    <3>4. next[p] = now /\ now - since >= Window
      BY <2>3, <3>1 DEF Extends
    <3>5. QED
      BY <2>1, <3>3, <3>4
  <2>4. QED
    BY <1>4, <2>2, <2>3
<1>5. ASSUME NEW i \in 1 .. n + 1, i + MaxRequests <= n + 1 + 1
      PROVE  \E o \in both : i <= o /\ o < i + MaxRequests
  <2>1. CASE i + MaxRequests <= n + 1
    <3>1. i \in 1 .. n
      BY <2>1
    <3>2. QED
      BY <2>1, <3>1 DEF OpenedInv
  <2>2. CASE i + MaxRequests = n + 2
    BY <2>2
  <2>3. QED
    BY <1>5, <2>1, <2>2
<1>6. QED
  BY <1>2, <1>3, <1>4, <1>5 DEF OpenedInv

\* A request counted in the running window leaves them as they are.
LEMMA OpenedBefore ==
  ASSUME NEW g, NEW next, NEW n \in Nat, NEW now \in Nat,
         NEW count \in 1 .. MaxRequests - 1, count <= n,
         NEW opened \in SUBSET Nat, OpenedInv(g, n, count, opened),
         Extends(next, g, n, now)
  PROVE  OpenedInv(next, n + 1, count + 1, opened)
<1>1. \A o \in opened : o \in 1 .. n /\ o <= n - count + 1
  BY DEF OpenedInv, Opener
<1>2. n - count + 1 \in opened
  BY DEF OpenedInv, Opener
<1>3. Opener(n + 1, count + 1) = n - count + 1
  BY DEF Opener
<1>4. \A o, p \in opened : o < p => next[p] - next[o] >= Window
  BY <1>1 DEF OpenedInv, Extends
<1>5. ASSUME NEW i \in 1 .. n + 1, i + MaxRequests <= n + 1 + 1
      PROVE  \E o \in opened : i <= o /\ o < i + MaxRequests
  <2>1. CASE i + MaxRequests <= n + 1
    <3>1. i \in 1 .. n
      BY <2>1
    <3>2. QED
      BY <2>1, <3>1 DEF OpenedInv
  <2>2. CASE i + MaxRequests = n + 2
    BY <1>2, <2>2
  <2>3. QED
    BY <1>5, <2>1, <2>2
<1>6. QED
  BY <1>1, <1>2, <1>3, <1>4, <1>5 DEF OpenedInv

\* The invariant of an address survives a grant that opens a window or counts in
\* the running one.
LEMMA Extended ==
  ASSUME NEW g, NEW next, NEW n \in Nat, NEW now \in Nat,
         NEW count \in 0 .. MaxRequests, NEW since \in Nat,
         NEW count2 \in Nat, NEW since2 \in Nat,
         AddressInv(g, n, count, since, now), Extends(next, g, n, now),
         \/ /\ count = 0 \/ now - since >= Window
            /\ count2 = 1 /\ since2 = now
         \/ /\ count > 0 /\ count < MaxRequests
            /\ count2 = count + 1 /\ since2 = since
  PROVE  AddressInv(next, n + 1, count2, since2, now)
<1>1. CountInv(g, n, count, since) /\ TimeInv(g, n, now)
  BY DEF AddressInv
<1>2. CountInv(next, n + 1, count2, since2)
  <2>1. count2 >= 1 /\ count2 <= n + 1 /\ count2 <= MaxRequests
    BY <1>1 DEF CountInv
  <2>2. next[n + 1 - count2 + 1] = since2
    <3>1. CASE count2 = 1 /\ since2 = now
      BY <3>1 DEF Extends
    <3>2. CASE count > 0 /\ count2 = count + 1 /\ since2 = since
      <4>1. g[n - count + 1] = since /\ n - count + 1 \in 1 .. n
        BY <1>1, <3>2 DEF CountInv, Opener
      <4>2. n + 1 - count2 + 1 = n - count + 1
        BY <3>2
      <4>3. QED
        BY <3>2, <4>1, <4>2 DEF Extends
    <3>3. QED
      BY <3>1, <3>2
  <2>3. QED
    BY <2>1, <2>2 DEF CountInv, Opener
<1>3. TimeInv(next, n + 1, now)
  <2>1. \A i \in 1 .. n + 1 : next[i] <= now
    BY <1>1 DEF TimeInv, Extends
  <2>2. \A i, j \in 1 .. n + 1 : i <= j => next[i] <= next[j]
    <3> TAKE i, j \in 1 .. n + 1
    <3>1. CASE j = n + 1
      BY <2>1, <3>1 DEF Extends
    <3>2. CASE j # n + 1
      BY <1>1, <3>2 DEF TimeInv, Extends
    <3>3. QED
      BY <3>1, <3>2
  <2>3. QED
    BY <2>1, <2>2 DEF TimeInv
<1>4. \E opened \in SUBSET Nat : OpenedInv(next, n + 1, count2, opened)
  <2>1. PICK opened \in SUBSET Nat : OpenedInv(g, n, count, opened)
    BY DEF AddressInv
  <2>2. CASE (count = 0 \/ now - since >= Window) /\ count2 = 1
    <3>1. OpenedInv(next, n + 1, 1, opened \cup {n + 1})
      BY <1>1, <2>1, <2>2, OpenedByTheFirst
    <3>2. opened \cup {n + 1} \in SUBSET Nat
      OBVIOUS
    <3>3. QED
      BY <2>2, <3>1, <3>2
  <2>3. CASE count > 0 /\ count < MaxRequests /\ count2 = count + 1
    <3>1. count \in 1 .. MaxRequests - 1 /\ count <= n
      BY <1>1, <2>3 DEF CountInv
    <3>2. OpenedInv(next, n + 1, count + 1, opened)
      BY <2>1, <3>1, OpenedBefore
    <3>3. QED
      BY <2>3, <3>2
  <2>4. QED
    BY <2>2, <2>3
<1>5. QED
  BY <1>2, <1>3, <1>4 DEF AddressInv

\* Time that passes changes nothing.
LEMMA Later ==
  ASSUME NEW g, NEW n \in Nat, NEW count, NEW since, NEW now \in Nat,
         \A i \in 1 .. n : g[i] \in Nat,
         NEW later \in Nat, now <= later, AddressInv(g, n, count, since, now)
  PROVE  AddressInv(g, n, count, since, later)
<1>1. TimeInv(g, n, later)
  BY DEF AddressInv, TimeInv
<1>2. QED
  BY <1>1 DEF AddressInv

\* Any set of numbers has a least one: what an induction over k windows needs.
LEMMA LeastNat ==
  ASSUME NEW T \in SUBSET Nat, T # {}
  PROVE  \E k \in T : \A j \in T : k <= j
<1> DEFINE Less == OpToRel(<, Nat)
<1>1. Less = {pair \in Nat \X Nat : pair[1] < pair[2]}
  BY Zenon DEF OpToRel
<1>2. IsWellFoundedOn(Less, Nat)
  BY NatLessThanWellFounded, Zenon
<1> HIDE DEF Less
<1>3. PICK k \in T : \A j \in T : <<j, k>> \notin Less
  BY <1>2, WFMin
<1>4. \A j \in T : ~(j < k)
  BY <1>1, <1>3
<1>5. QED
  BY <1>4

\* Of k + 1 runs of MaxRequests grants, one after the other, the last holds a
\* grant that comes k windows after one in the first.
LEMMA OpenedEach ==
  ASSUME NEW g, NEW n \in Nat, NEW count, NEW opened \in SUBSET Nat,
         \A i \in 1 .. n : g[i] \in Nat, OpenedInv(g, n, count, opened),
         NEW i \in 1 .. n, NEW k \in Nat, i + (k + 1) * MaxRequests <= n + 1
  PROVE  \E o, p \in 1 .. n :
           /\ i <= o /\ p < i + (k + 1) * MaxRequests
           /\ g[p] - g[o] >= k * Window
<1> DEFINE Holds(m) ==
      i + (m + 1) * MaxRequests <= n + 1 =>
        \E o, p \in opened :
          /\ i <= o
          /\ i + m * MaxRequests <= p /\ p < i + (m + 1) * MaxRequests
          /\ g[p] - g[o] >= m * Window
<1>1. \A o \in opened : o \in 1 .. n /\ g[o] \in Nat
  BY DEF OpenedInv
<1>2. ASSUME NEW j \in 1 .. n, j + MaxRequests <= n + 1
      PROVE  \E o \in opened : j <= o /\ o < j + MaxRequests
  BY <1>2 DEF OpenedInv
<1>3. Holds(0)
  <2> SUFFICES ASSUME i + MaxRequests <= n + 1
               PROVE  \E o \in opened : i <= o /\ o < i + MaxRequests
    BY <1>1
  <2>1. QED
    BY <1>2
<1>4. ASSUME NEW m \in Nat, Holds(m)
      PROVE  Holds(m + 1)
  <2> DEFINE j == i + (m + 1) * MaxRequests
             wide == m * Window
  <2>1. /\ j \in Nat /\ wide \in Nat
        /\ i + (m + 1 + 1) * MaxRequests = j + MaxRequests
        /\ (m + 1) * Window = wide + Window
        /\ i <= j
    OBVIOUS
  <2> HIDE DEF j, wide
  <2> SUFFICES ASSUME j + MaxRequests <= n + 1
               PROVE  \E o, p \in opened :
                        /\ i <= o /\ j <= p /\ p < j + MaxRequests
                        /\ g[p] - g[o] >= wide + Window
    BY <2>1 DEF j
  <2>2. PICK o, q \in opened : i <= o /\ q < j /\ g[q] - g[o] >= wide
    BY <1>4, <2>1 DEF j, wide
  <2>3. PICK p \in opened : j <= p /\ p < j + MaxRequests
    <3>1. j \in 1 .. n
      BY <2>1
    <3>2. QED
      BY <1>2, <3>1
  <2>4. g[p] - g[q] >= Window
    BY <1>1, <2>1, <2>2, <2>3 DEF OpenedInv
  <2>5. g[p] - g[o] >= wide + Window
    BY <1>1, <2>1, <2>2, <2>4
  <2>6. QED
    BY <2>2, <2>3, <2>5
<1>5. Holds(k)
  <2> DEFINE fails == {m \in Nat : ~Holds(m)}
  <2> HIDE DEF Holds
  <2>1. SUFFICES ASSUME fails # {}
                 PROVE  FALSE
    OBVIOUS
  <2>2. PICK m \in fails : \A l \in fails : m <= l
    BY <2>1, LeastNat
  <2>3. m - 1 \in Nat /\ Holds(m - 1)
    BY <1>3, <2>2
  <2>4. QED
    BY <1>4, <2>2, <2>3
<1>6. QED
  BY <1>1, <1>5

\* The first and the last of (k + 1) * MaxRequests grants are k windows apart.
LEMMA Spread ==
  ASSUME NEW g, NEW n \in Nat, NEW count, NEW since, NEW now,
         \A i \in 1 .. n : g[i] \in Nat, AddressInv(g, n, count, since, now),
         NEW i \in 1 .. n, NEW k \in Nat, i + (k + 1) * MaxRequests <= n + 1
  PROVE  g[i + (k + 1) * MaxRequests - 1] - g[i] >= k * Window
<1> DEFINE last == i + (k + 1) * MaxRequests - 1
           wide == k * Window
<1>1. last \in 1 .. n /\ wide \in Nat
  <2>1. (k + 1) * MaxRequests \in Nat /\ (k + 1) * MaxRequests >= 1
    OBVIOUS
  <2>2. QED
    BY <2>1
<1>2. PICK opened \in SUBSET Nat : OpenedInv(g, n, count, opened)
  BY DEF AddressInv
<1>3. PICK o, p \in 1 .. n : i <= o /\ p <= last /\ g[p] - g[o] >= wide
  BY <1>2, OpenedEach
<1> HIDE DEF last, wide
<1>4. g[i] <= g[o] /\ g[p] <= g[last]
  BY <1>1, <1>3 DEF AddressInv, TimeInv
<1>5. g[last] - g[i] >= wide
  BY <1>1, <1>3, <1>4
<1>6. QED
  BY <1>5 DEF last, wide

----------------------------------------------------------------------------
(* The invariant of the limiter.                                           *)

\* Nothing was let through yet.
LEMMA NothingGranted ==
  ASSUME NEW since, NEW now
  PROVE  AddressInv(<<>>, Len(<<>>), 0, since, now)
<1>1. Len(<<>>) = 0
  OBVIOUS
<1>2. CountInv(<<>>, 0, 0, since)
  BY DEF CountInv
<1>3. TimeInv(<<>>, 0, now) /\ OpenedInv(<<>>, 0, 0, {})
  BY DEF TimeInv, OpenedInv
<1>4. QED
  BY <1>1, <1>2, <1>3 DEF AddressInv

LEMMA LimiterInit == Init => IInv
<1> SUFFICES ASSUME Init
             PROVE  IInv
  OBVIOUS
<1>1. TypeOK
  BY DEF Init, NoEntry, TypeOK
<1>2. ASSUME NEW ip \in Addresses
      PROVE  InvOf(ip)
  <2>1. grants[ip] = <<>> /\ hits[ip].count = 0
    BY DEF Init, NoEntry
  <2>2. QED
    BY <2>1, NothingGranted DEF InvOf
<1>3. QED
  BY <1>1, <1>2 DEF IInv

LEMMA StateFacts ==
  ASSUME TypeOK, NEW ip \in Addresses
  PROVE  /\ grants[ip] \in Seq(0 .. MaxClock) /\ Len(grants[ip]) \in Nat
         /\ \A i \in 1 .. Len(grants[ip]) : grants[ip][i] \in Nat
         /\ hits[ip].count \in 0 .. MaxRequests
         /\ hits[ip].windowStart \in 0 .. MaxClock
         /\ clock \in 0 .. MaxClock
BY DEF TypeOK

\* What a request that is let through does.
LEMMA LetThrough ==
  ASSUME IInv, NEW c \in Callers, NEW ip, ip = AddressOf[c],
         OpenWindow(c) \/ CountHit(c)
  PROVE  \E count2 \in 0 .. MaxRequests, since2 \in 0 .. MaxClock :
           /\ Let(c, [count |-> count2, windowStart |-> since2])
           /\ AddressInv(Append(grants[ip], clock), Len(grants[ip]) + 1,
                         count2, since2, clock)
<1> DEFINE count == hits[ip].count
           since == hits[ip].windowStart
<1>1. ip \in Addresses /\ TypeOK /\ AddressInv(grants[ip], Len(grants[ip]), count, since, clock)
  BY DEF IInv, InvOf
<1>2. /\ grants[ip] \in Seq(0 .. MaxClock) /\ Len(grants[ip]) \in Nat
      /\ \A i \in 1 .. Len(grants[ip]) : grants[ip][i] \in Nat
      /\ count \in 0 .. MaxRequests /\ since \in 0 .. MaxClock
      /\ clock \in 0 .. MaxClock
  BY <1>1, StateFacts
<1>3. Extends(Append(grants[ip], clock), grants[ip], Len(grants[ip]), clock)
  BY <1>2 DEF Extends
<1>4. CASE OpenWindow(c)
  <2>1. /\ count = 0 \/ clock - since >= Window
        /\ Let(c, [count |-> 1, windowStart |-> clock])
    BY <1>4 DEF OpenWindow, WindowOver, HitsOf
  <2>2. AddressInv(Append(grants[ip], clock), Len(grants[ip]) + 1, 1, clock, clock)
    <3>1. PICK count2, since2 \in Nat : count2 = 1 /\ since2 = clock
      BY <1>2
    <3>2. clock \in Nat /\ since \in Nat
      BY <1>2
    <3>3. AddressInv(Append(grants[ip], clock), Len(grants[ip]) + 1, count2, since2, clock)
      BY <1>1, <1>2, <1>3, <2>1, <3>1, <3>2, Extended, Zenon
    <3>4. QED
      BY <3>1, <3>3
  <2>3. 1 \in 0 .. MaxRequests
    OBVIOUS
  <2>4. QED
    BY <1>2, <2>1, <2>2, <2>3
<1>5. CASE CountHit(c)
  <2>1. /\ count > 0 /\ count < MaxRequests
        /\ Let(c, [hits[ip] EXCEPT !.count = @ + 1])
    BY <1>2, <1>5 DEF CountHit, WindowOver, BelowLimit, HitsOf
  <2>2. [hits[ip] EXCEPT !.count = @ + 1] = [count |-> count + 1, windowStart |-> since]
    BY <1>1 DEF TypeOK
  <2>3. AddressInv(Append(grants[ip], clock), Len(grants[ip]) + 1, count + 1, since, clock)
    <3>1. PICK count2 \in Nat : count2 = count + 1
      BY <1>2
    <3>2. clock \in Nat /\ since \in Nat
      BY <1>2
    <3>3. AddressInv(Append(grants[ip], clock), Len(grants[ip]) + 1, count2, since, clock)
      BY <1>1, <1>2, <1>3, <2>1, <3>1, <3>2, Extended, Zenon
    <3>4. QED
      BY <3>1, <3>3
  <2>4. count + 1 \in 0 .. MaxRequests
    BY <1>2, <2>1
  <2>5. QED
    BY <1>2, <2>1, <2>2, <2>3, <2>4
<1>6. QED
  BY <1>4, <1>5

LEMMA LimiterNext == IInv /\ [Next]_vars => IInv'
<1> SUFFICES ASSUME IInv, [Next]_vars
             PROVE  IInv'
  OBVIOUS
<1>1. ASSUME NEW c \in Callers, OpenWindow(c) \/ CountHit(c)
      PROVE  IInv'
  <2> DEFINE ip == AddressOf[c]
  <2> ip \in Addresses
    OBVIOUS
  <2>1. PICK count2 \in 0 .. MaxRequests, since2 \in 0 .. MaxClock :
          /\ Let(c, [count |-> count2, windowStart |-> since2])
          /\ AddressInv(Append(grants[ip], clock), Len(grants[ip]) + 1,
                        count2, since2, clock)
    BY <1>1, LetThrough
  <2>2. /\ hits' = [hits EXCEPT ![ip] = [count |-> count2, windowStart |-> since2]]
        /\ reply' = [reply EXCEPT ![c] = "ok"]
        /\ grants' = [grants EXCEPT ![ip] = Append(@, clock)]
        /\ clock' = clock
    BY <2>1 DEF Let
  <2>3. /\ grants[ip] \in Seq(0 .. MaxClock) /\ clock \in 0 .. MaxClock
    BY StateFacts DEF IInv
  <2>4. /\ Append(grants[ip], clock) \in Seq(0 .. MaxClock)
        /\ Len(Append(grants[ip], clock)) = Len(grants[ip]) + 1
    BY <2>3
  <2>5. TypeOK'
    BY <2>2, <2>4 DEF IInv, TypeOK
  <2>6. InvOf(ip)'
    <3>1. /\ grants'[ip] = Append(grants[ip], clock)
          /\ hits'[ip].count = count2 /\ hits'[ip].windowStart = since2
      BY <2>2 DEF IInv, TypeOK
    <3>2. QED
      BY <2>1, <2>2, <2>4, <3>1 DEF InvOf
  <2>7. ASSUME NEW a \in Addresses \ {ip}
        PROVE  InvOf(a)'
    <3>1. grants'[a] = grants[a] /\ hits'[a] = hits[a]
      BY <2>2 DEF IInv, TypeOK
    <3>2. QED
      BY <2>2, <3>1 DEF IInv, InvOf
  <2>8. QED
    BY <2>5, <2>6, <2>7 DEF IInv
<1>2. ASSUME NEW c \in Callers, Refuse(c)
      PROVE  IInv'
  BY <1>2 DEF Refuse, IInv, TypeOK, InvOf
<1>3. CASE Tick
  <2>1. UNCHANGED <<hits, grants, reply>> /\ clock' = clock + 1 /\ TypeOK'
    BY <1>3 DEF Tick, IInv, TypeOK
  <2>2. ASSUME NEW a \in Addresses
        PROVE  InvOf(a)'
    <3>1. /\ clock \in Nat /\ clock' \in Nat /\ clock <= clock'
          /\ Len(grants[a]) \in Nat
          /\ \A i \in 1 .. Len(grants[a]) : grants[a][i] \in Nat
      BY <2>1, StateFacts DEF IInv, TypeOK
    <3>2. AddressInv(grants[a], Len(grants[a]), hits[a].count, hits[a].windowStart, clock')
      BY <3>1, Later DEF IInv, InvOf
    <3>3. QED
      BY <2>1, <3>2 DEF InvOf
  <2>3. QED
    BY <2>1, <2>2 DEF IInv
<1>4. CASE Restart
  <2>1. TypeOK' /\ \A a \in Addresses : hits'[a].count = 0 /\ grants'[a] = <<>>
    BY <1>4 DEF Restart, NoEntry, IInv, TypeOK
  <2>2. ASSUME NEW a \in Addresses
        PROVE  InvOf(a)'
    BY <2>1, NothingGranted DEF InvOf
  <2>3. QED
    BY <2>1, <2>2 DEF IInv
<1>5. CASE UNCHANGED vars
  BY <1>5 DEF vars, IInv, TypeOK, InvOf
<1>6. QED
  BY <1>1, <1>2, <1>3, <1>4, <1>5 DEF Next

LEMMA LimiterIInv == Spec => []IInv
BY LimiterInit, LimiterNext, PTL DEF Spec

----------------------------------------------------------------------------
\* A counter never passes the limit (rateLimiter.ts:17-26).
THEOREM LimiterTypeOK == Spec => []TypeOK
<1>1. IInv => TypeOK
  BY DEF IInv
<1>2. QED
  BY <1>1, LimiterIInv, PTL

\* No (k + 1) * MaxRequests requests of one address pass within k windows, for
\* any k (rateLimiter.ts:17-26).
THEOREM LimiterRate == Spec => []RateIsBounded
<1>1. IInv => RateIsBounded
  <2> SUFFICES ASSUME IInv, NEW ip \in Addresses,
                      NEW k \in 1 .. Len(grants[ip]), NEW i \in 1 .. Len(grants[ip]),
                      i + (k + 1) * MaxRequests <= Len(grants[ip]) + 1
               PROVE  grants[ip][i + (k + 1) * MaxRequests - 1] - grants[ip][i]
                        >= k * Window
    BY DEF RateIsBounded
  <2>1. /\ Len(grants[ip]) \in Nat
        /\ \A j \in 1 .. Len(grants[ip]) : grants[ip][j] \in Nat
        /\ AddressInv(grants[ip], Len(grants[ip]), hits[ip].count,
                      hits[ip].windowStart, clock)
    BY StateFacts DEF IInv, InvOf
  <2>2. k \in Nat
    BY <2>1
  <2>3. QED
    BY <2>1, <2>2, Spread
<1>2. QED
  BY <1>1, LimiterIInv, PTL

\* Whoever is turned away shares an address that was let through MaxRequests times
\* within the last window (rateLimiter.ts:18-23).
THEOREM LimiterFair == Spec => []LimitedOnlyByItsAddress
<1>1. IInv => LimitedOnlyByItsAddress
  <2> SUFFICES ASSUME IInv, NEW c \in Callers, Limited(c), NEW ip, ip = AddressOf[c]
               PROVE  /\ Len(grants[ip]) >= MaxRequests
                      /\ clock - grants[ip][Len(grants[ip]) - MaxRequests + 1] < Window
    BY DEF LimitedOnlyByItsAddress
  <2>1. ip \in Addresses
    OBVIOUS
  <2>2. /\ CountInv(grants[ip], Len(grants[ip]), hits[ip].count, hits[ip].windowStart)
        /\ hits[ip].count \in 0 .. MaxRequests
    BY <2>1, StateFacts DEF IInv, InvOf, AddressInv
  <2>3. /\ hits[ip].count = MaxRequests
        /\ hits[ip].windowStart \in 0 .. MaxClock /\ clock \in 0 .. MaxClock
        /\ clock - hits[ip].windowStart < Window
    BY <2>1, <2>2, StateFacts DEF IInv, Limited, WindowOver, BelowLimit, HitsOf
  <2>4. QED
    BY <2>2, <2>3 DEF CountInv, Opener
<1>2. QED
  BY <1>1, LimiterIInv, PTL
=============================================================================
