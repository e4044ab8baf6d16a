---------------------------- MODULE GatewayLimits ----------------------------
(***************************************************************************)
(* The limits of the realtime gateway that depend on time: ReplayCache and *)
(* the expiry of session tokens in echoweave/auth.py, consume_budget and   *)
(* the eviction of idle hosts in echoweave/app.py.                         *)
(*                                                                         *)
(* Time is the integer `now`.  One host is followed; MaxTime ends a        *)
(* behaviour.                                                              *)
(***************************************************************************)
EXTENDS Integers, FiniteSets, Functions

CONSTANTS Token, Expiry,    \* session tokens and their exp claims
          Skew,             \* session_token_clock_skew_seconds
          MaxEntries,       \* session_replay_cache_entries
          Burst, Rate,      \* capacity and refill of a bucket
          Stale,            \* idle time after which a host is forgotten: 120 s
          MaxTime

ASSUME LimitsAssumption ==
  /\ Expiry \in [Token -> Nat] /\ Skew \in Nat /\ MaxEntries \in Nat \ {0}
  /\ Burst \in Nat /\ Rate \in Nat /\ Stale \in Nat /\ MaxTime \in Nat
  \* A host that is forgotten would have a full bucket anyway.  This is so with
  \* the defaults, and config.py does not enforce it.
  /\ Stale * Rate >= Burst

VARIABLES
  now,
  entries,      \* ReplayCache._entries
  uses,         \* history: when each token was consumed
  bucket,       \* the host's budget and updated_at, or Forgotten
  open,         \* the host has an open connection
  admitted      \* history: what was let through since each time

limitVars == <<now, entries, uses, bucket, open, admitted>>

Forgotten == [budget |-> -1, at |-> -1]
Time == 0 .. MaxTime

LimitsTypeOK ==
  /\ now \in Time
  /\ DOMAIN entries \subseteq Token /\ \A t \in DOMAIN entries : entries[t] \in Nat
  /\ uses \in [Token -> SUBSET Time]
  /\ bucket \in [budget : 0 .. Burst, at : Time] \cup {Forgotten}
  /\ open \in BOOLEAN
  /\ admitted \in [Time -> Nat]

LimitsInit ==
  /\ now = 0
  /\ entries = << >>
  /\ uses = [t \in Token |-> {}]
  /\ bucket = Forgotten
  /\ open = FALSE
  /\ admitted = [s \in Time |-> 0]

Tick ==
  /\ now < MaxTime
  /\ now' = now + 1
  /\ UNCHANGED <<entries, uses, bucket, open, admitted>>

-----------------------------------------------------------------------------
(* Session tokens                                                          *)

Lesser(a, b) == IF a < b THEN a ELSE b
Greater(a, b) == IF a < b THEN b ELSE a

\* _decode_token, as far as it depends on time
Valid(t) == Expiry[t] >= now - Skew

\* Mutant: an entry is dropped at its expiry.
LiveBefore == Restrict(entries, {t \in DOMAIN entries : entries[t] > now})

\* ReplayCache.consume drops what has expired before it looks
Live == Restrict(entries, {t \in DOMAIN entries : entries[t] >= now})

\* verify_session_token with consume=True
ConsumeToken(t) ==
  /\ Valid(t)
  /\ t \notin DOMAIN Live
  /\ Cardinality(DOMAIN Live) < MaxEntries
  /\ entries' = [u \in DOMAIN Live \cup {t} |->
                   IF u = t THEN Greater(Expiry[t], now + Skew) ELSE Live[u]]
  /\ uses' = [uses EXCEPT ![t] = @ \cup {now}]
  /\ UNCHANGED <<now, bucket, open, admitted>>

RefuseToken(t) ==
  /\ Valid(t)
  /\ t \in DOMAIN Live \/ Cardinality(DOMAIN Live) >= MaxEntries
  /\ entries' = Live
  /\ UNCHANGED <<now, uses, bucket, open, admitted>>

-----------------------------------------------------------------------------
(* Token buckets                                                           *)

HostConnects ==
  /\ ~open
  /\ open' = TRUE
  /\ bucket' = IF bucket = Forgotten THEN [budget |-> Burst, at |-> now] ELSE bucket
  /\ UNCHANGED <<now, entries, uses, admitted>>

HostLeaves ==
  /\ open
  /\ open' = FALSE
  /\ UNCHANGED <<now, entries, uses, bucket, admitted>>

\* The eviction that the admission of another host triggers.
EvictHost ==
  /\ ~open /\ bucket # Forgotten /\ now - bucket.at > Stale
  /\ bucket' = Forgotten
  /\ UNCHANGED <<now, entries, uses, open, admitted>>

\* consume_budget: a refusal also writes the refilled budget
Consume(amount) ==
  LET budget == Lesser(Burst, bucket.budget + (now - bucket.at) * Rate)
      allowed == amount <= budget
  IN /\ open
     /\ bucket' = [budget |-> IF allowed THEN budget - amount ELSE budget, at |-> now]
     /\ admitted' = [s \in Time |-> IF allowed /\ s <= now THEN admitted[s] + amount
                                                          ELSE admitted[s]]
     /\ UNCHANGED <<now, entries, uses, open>>

LimitsNext ==
  \/ Tick
  \/ \E t \in Token : ConsumeToken(t) \/ RefuseToken(t)
  \/ HostConnects \/ HostLeaves \/ EvictHost
  \/ \E amount \in 1 .. Burst + 1 : Consume(amount)

LimitsSpec == LimitsInit /\ [][LimitsNext]_limitVars

-----------------------------------------------------------------------------

\* "A token is consumed once": while it has not expired it starts one session,
\* also when the cache is full or is being purged.  After exp, while the clock skew
\* is still granted, the entry is gone and the code takes the token again
\* (ReplayCache.consume, _decode_token).
TokenIsUsedOnce ==
  \A t \in Token : Cardinality({s \in uses[t] : s <= Expiry[t]}) <= 1

\* In every window a host gets at most its burst and the refill of the window,
\* whatever it does about connecting, leaving and being forgotten (consume_budget,
\* the eviction under connection_lock).
RateIsBounded ==
  \A s \in 0 .. now : admitted[s] <= Burst + Rate * (now - s)

LimitsHold == LimitsTypeOK /\ TokenIsUsedOnce /\ RateIsBounded

=============================================================================
