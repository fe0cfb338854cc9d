----------------------------- MODULE RateLimit -----------------------------
(***************************************************************************)
(* The fixed-window limiter in Redis and the middleware in front of the    *)
(* handlers, which asks it for one key after the other: the address, and   *)
(* on the auth routes the e-mail of the request too.  Counting and reading *)
(* the time to live are one transaction; setting it is a second command,   *)
(* which may fail or never come.                                           *)
(***************************************************************************)
EXTENDS Integers, Sequences, FiniteSets

CONSTANTS LimitKeys,    \* the keys of one scope
          KeyLists,     \* the lists of keys a request may be counted under
          Limit,        \* requests a window admits
          LimitCalls,   \* requests at once
          MaxCount      \* bound: a counter's value

\* A request is counted under one key at least (ratelimit.go:45-61).
ASSUME RateLimitAssumption ==
  /\ KeyLists \subseteq Seq(LimitKeys) \ {<<>>}
  /\ Limit \in Nat /\ MaxCount \in Nat
  /\ IsFiniteSet(LimitCalls)

VARIABLES counter,     \* counter[k]: 0 when there is no key
          hasTTL,      \* the keys with a time to live
          limited,     \* what each request is doing
          failClosed,  \* the scope refuses when Redis does not answer
          served       \* history: requests each counter has let in, in this life

limitVars == <<counter, hasTTL, limited, failClosed, served>>

\* todo: the keys left; count: the value INCR returned for the first of them;
\* counted (history): the keys whose counter, still in this life, it is part of.
LimitCall ==
  [step: {"idle", "ask", "expire", "decide", "refused"},
   todo: Seq(LimitKeys), count: 0 .. MaxCount, counted: SUBSET LimitKeys]
IdleLimitCall == [step |-> "idle", todo |-> <<>>, count |-> 0, counted |-> {}]

RateLimitTypeOK ==
  /\ counter \in [LimitKeys -> 0 .. MaxCount]
  /\ hasTTL \subseteq LimitKeys
  /\ limited \in [LimitCalls -> LimitCall]
  /\ failClosed \in BOOLEAN
  /\ served \in [LimitKeys -> Nat]

RateLimitInit ==
  /\ counter = [k \in LimitKeys |-> 0]
  /\ hasTTL = {}
  /\ limited = [c \in LimitCalls |-> IdleLimitCall]
  /\ failClosed \in BOOLEAN
  /\ served = [k \in LimitKeys |-> 0]

LimitAt(c, step) == limited[c].step = step
LimitBecomes(c, call) == limited' = [limited EXCEPT ![c] = call]

\* The request goes on to the handler, let in under these keys.
Serve(c, keys) ==
  /\ LimitBecomes(c, IdleLimitCall)
  /\ served' = [k \in LimitKeys |-> IF k \in keys THEN served[k] + 1 ELSE served[k]]

-----------------------------------------------------------------------------
ArriveLimited(c, keys) ==
  /\ LimitAt(c, "idle")
  /\ LimitBecomes(c, [IdleLimitCall EXCEPT !.step = "ask", !.todo = keys])
  /\ UNCHANGED <<counter, hasTTL, failClosed, served>>

\* INCR and TTL in one transaction; a counter without a time to live gets one
\* before the request is decided.
Count(c) ==
  /\ LimitAt(c, "ask")
  /\ LET k == Head(limited[c].todo)
     IN  /\ counter[k] < MaxCount
         /\ counter' = [counter EXCEPT ![k] = @ + 1]
         /\ LimitBecomes(c, [limited[c] EXCEPT
              !.step = IF k \in hasTTL THEN "decide" ELSE "expire",
              !.count = counter[k] + 1,
              !.counted = @ \cup {k}])
  /\ UNCHANGED <<hasTTL, failClosed, served>>

\* EXPIRE does nothing when the key has expired meanwhile.
SetExpiry(c) ==
  /\ LimitAt(c, "expire")
  /\ LET k == Head(limited[c].todo)
     IN  hasTTL' = IF counter[k] > 0 THEN hasTTL \cup {k} ELSE hasTTL
  /\ LimitBecomes(c, [limited[c] EXCEPT !.step = "decide"])
  /\ UNCHANGED <<counter, failClosed, served>>

\* Fault: the request that finds the counter at the limit is let in too.
LimitAllowsOneMore(c) == limited[c].count <= Limit + 1

LimitAllows(c) == limited[c].count <= Limit

\* All keys must allow; the next is asked only then.
Decide(c) ==
  /\ LimitAt(c, "decide")
  /\ IF ~LimitAllows(c)
     THEN LimitBecomes(c, [limited[c] EXCEPT !.step = "refused"]) /\ UNCHANGED served
     ELSE IF Len(limited[c].todo) > 1
     THEN /\ LimitBecomes(c, [limited[c] EXCEPT !.step = "ask", !.todo = Tail(@),
                                                !.count = 0])
          /\ UNCHANGED served
     ELSE Serve(c, limited[c].counted)
  /\ UNCHANGED <<counter, hasTTL, failClosed>>

\* Redis does not answer, whether or not it has counted: the auth routes answer
\* 503, the others stop asking and serve, let in by this key or not.
LimiterFails(c) ==
  /\ LimitAt(c, "ask") \/ LimitAt(c, "expire")
  /\ IF failClosed
     THEN LimitBecomes(c, IdleLimitCall) /\ UNCHANGED served
     ELSE Serve(c, limited[c].counted \ {Head(limited[c].todo)})
  /\ \/ UNCHANGED counter
     \/ /\ LimitAt(c, "ask")
        /\ LET k == Head(limited[c].todo)
           IN  counter[k] < MaxCount /\ counter' = [counter EXCEPT ![k] = @ + 1]
  /\ UNCHANGED <<hasTTL, failClosed>>

\* The answer has been given, or the process has ended.
LimitCallEnds(c) ==
  /\ ~LimitAt(c, "idle")
  /\ LimitBecomes(c, IdleLimitCall)
  /\ UNCHANGED <<counter, hasTTL, failClosed, served>>

\* A window ends: its counter starts a new life.
WindowEnds(k) ==
  /\ k \in hasTTL
  /\ counter' = [counter EXCEPT ![k] = 0]
  /\ hasTTL' = hasTTL \ {k}
  /\ served' = [served EXCEPT ![k] = 0]
  /\ limited' = [c \in LimitCalls |-> [limited[c] EXCEPT !.counted = @ \ {k}]]
  /\ UNCHANGED failClosed

RateLimitNext ==
  \/ \E c \in LimitCalls :
       \/ \E keys \in KeyLists : ArriveLimited(c, keys)
       \/ Count(c) \/ SetExpiry(c) \/ Decide(c) \/ LimiterFails(c) \/ LimitCallEnds(c)
  \/ \E k \in LimitKeys : WindowEnds(k)

RateLimitSpec == RateLimitInit /\ [][RateLimitNext]_limitVars

-----------------------------------------------------------------------------
\* No window serves more requests than the limit, however many are counted at
\* once and whichever commands fail; and nobody is refused by a counter that
\* will not expire, even after the request that should have set its time to
\* live has died in between.
LimitHolds ==
  /\ \A k \in LimitKeys : served[k] <= Limit
  /\ \A c \in LimitCalls :
       (LimitAt(c, "refused") /\ Head(limited[c].todo) \in limited[c].counted)
         => Head(limited[c].todo) \in hasTTL
=============================================================================
