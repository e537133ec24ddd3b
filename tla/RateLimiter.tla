---------------------------- MODULE RateLimiter ----------------------------
(***************************************************************************)
(* The limiter of the anonymous route GET /v1/compute/sample: one counter  *)
(* and one window start per IP address, in the memory of the process.      *)
(* FixedWindowRateLimiter.allow runs without interruption.  The address is *)
(* that of the connection (index.ts:102 sets no trustProxy): callers who   *)
(* come through one proxy, as Fly's http_service is, have one address and  *)
(* one counter between them.                                               *)
(***************************************************************************)
EXTENDS Integers, Sequences

CONSTANTS
  Callers,      \* who sends requests
  Addresses,
  AddressOf,    \* request.ip of each caller: the far end of the connection
  MaxRequests,
  Window,       \* windowMs
  MaxClock      \* bound on the clock

ASSUME LimiterAssumption ==
  /\ AddressOf \in [Callers -> Addresses]
  /\ MaxRequests \in Nat \ {0}
  /\ Window \in Nat \ {0}
  /\ MaxClock \in Nat

VARIABLES
  clock,        \* Date.now(), never stepped back
  hits,         \* [count, windowStart] of each address; count 0: no entry
  reply,        \* the last answer to each caller
  grants        \* history: when each address was let through since the start

vars == <<clock, hits, reply, grants>>

NoEntry == [count |-> 0, windowStart |-> 0]

Init ==
  /\ clock = 0
  /\ hits = [ip \in Addresses |-> NoEntry]
  /\ reply = [c \in Callers |-> "none"]
  /\ grants = [ip \in Addresses |-> <<>>]

----------------------------------------------------------------------------
\* A bug that ends a window one unit early.
WindowOverEarly(entry, now) ==
  entry.count = 0 \/ now - entry.windowStart >= Window - 1

WindowOver(entry, now) ==
  entry.count = 0 \/ now - entry.windowStart >= Window

\* A bug that lets one request too many through.
BelowLimitInclusive(entry) == entry.count <= MaxRequests

BelowLimit(entry) == entry.count < MaxRequests

\* A bug that keeps one counter for all addresses.
HitsOfAll(ip) == hits[CHOOSE a \in Addresses : TRUE]

HitsOf(ip) == hits[ip]

Let(c, entry) ==
  /\ hits' = [hits EXCEPT ![AddressOf[c]] = entry]
  /\ reply' = [reply EXCEPT ![c] = "ok"]
  /\ grants' = [grants EXCEPT ![AddressOf[c]] = Append(@, clock)]
  /\ UNCHANGED clock

OpenWindow(c) ==
  /\ WindowOver(HitsOf(AddressOf[c]), clock)
  /\ Let(c, [count |-> 1, windowStart |-> clock])

CountHit(c) ==
  LET entry == HitsOf(AddressOf[c]) IN
  /\ ~WindowOver(entry, clock)
  /\ BelowLimit(entry)
  /\ Let(c, [entry EXCEPT !.count = @ + 1])

\* 429
Limited(c) ==
  LET entry == HitsOf(AddressOf[c]) IN
  ~WindowOver(entry, clock) /\ ~BelowLimit(entry)

Refuse(c) ==
  /\ Limited(c)
  /\ reply' = [reply EXCEPT ![c] = "rate_limited"]
  /\ UNCHANGED <<clock, hits, grants>>

\* The process ends and starts again, with no counter.
Restart ==
  /\ hits' = [ip \in Addresses |-> NoEntry]
  /\ grants' = [ip \in Addresses |-> <<>>]
  /\ UNCHANGED <<clock, reply>>

Tick ==
  /\ clock < MaxClock
  /\ clock' = clock + 1
  /\ UNCHANGED <<hits, reply, grants>>

Next ==
  \/ \E c \in Callers : OpenWindow(c) \/ CountHit(c) \/ Refuse(c)
  \/ Restart
  \/ Tick

Spec == Init /\ [][Next]_vars

----------------------------------------------------------------------------
(* Properties.                                                             *)

TypeOK ==
  /\ clock \in 0 .. MaxClock
  /\ hits \in [Addresses -> [count : 0 .. MaxRequests, windowStart : 0 .. MaxClock]]
  /\ reply \in [Callers -> {"none", "ok", "rate_limited"}]
  /\ grants \in [Addresses -> Seq(0 .. MaxClock)]

\* In the long run an address gets no more than MaxRequests requests per window
\* through: the first and the last of (k + 1) * MaxRequests grants in a row are k
\* windows apart. A burst can use the end of one window and the start of the next,
\* whence the one more; it cannot do so again and again (rateLimiter.ts:17-26).
\* It is a bound for one life of the process, as a restart forgets the counts.
RateIsBounded ==
  \A ip \in Addresses :
    \A k, i \in 1 .. Len(grants[ip]) :
      i + (k + 1) * MaxRequests <= Len(grants[ip]) + 1 =>
        grants[ip][i + (k + 1) * MaxRequests - 1] - grants[ip][i] >= k * Window

\* A caller is turned away only when those who share its address were between
\* them let through MaxRequests times within the last window: no other address's
\* traffic, no earlier window and no earlier life of the process counts against
\* it (rateLimiter.ts:18-23).  It says nothing of callers behind one proxy, who do
\* use up each other's requests (sample.ts:51, index.ts:102).
LimitedOnlyByItsAddress ==
  \A c \in Callers :
    LET times == grants[AddressOf[c]] IN
    Limited(c) =>
      /\ Len(times) >= MaxRequests
      /\ clock - times[Len(times) - MaxRequests + 1] < Window
=============================================================================
