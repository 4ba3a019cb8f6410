------------------------------ MODULE RateLimit ------------------------------
(***************************************************************************)
(* The limiter in front of the API, for one of its keys: a counter in Redis  *)
(* that all processes share and whose window begins with its first request,  *)
(* and a counter in the memory of each process, which takes over while Redis *)
(* does not answer. A tick of the clock is the time a Redis command may take.*)
(***************************************************************************)
EXTENDS Naturals

CONSTANTS
  Processes,  \* API processes
  Limit,      \* requests of one window
  Window,     \* its length
  Pause,      \* how long a process leaves Redis alone after a failure
  Horizon,    \* where the clock stops
  Budget      \* how often each event may happen

LimitEvents == {"arrive", "fault"}
Shared == "redis"
Never == Horizon + Window + 1

\* What the constants have to be.
LimitConstants ==
  /\ Shared \notin Processes
  /\ Limit \in Nat \ {0} /\ Window \in Nat \ {0} /\ Pause \in Nat /\ Horizon \in Nat
  /\ \A e \in LimitEvents : Budget[e] \in Nat

VARIABLES
  now,
  required,  \* RATE_LIMIT_REDIS_REQUIRED
  key,       \* the counter in Redis: its number, its count, when it expires
  memory,    \* per process: the counter in its memory
  avoid,     \* per process: redisUnavailableUntil
  calls,     \* requests that wait for a Redis command
  refused,   \* history: the 429 answers: by which counter, until when
  orphans,   \* history: Redis counters whose expiry was never set
  left       \* what remains of Budget

limitState == <<now, required, key, memory, avoid, calls, refused, orphans>>

Takes(e) == left[e] > 0 /\ left' = [left EXCEPT ![e] = @ - 1]

Unused == [of |-> 0, count |-> 0, until |-> 0]
Gone(counter) == counter.count = 0 \/ counter.until <= now

-----------------------------------------------------------------------------
(* createRateLimiter: what follows from a count. A counter is named by where  *)
(* it is kept and its number.                                              *)

Judge(place, counter, wait) ==
  refused' = IF counter.count <= Limit THEN refused
             ELSE refused \union {[by |-> place, of |-> counter.of, until |-> now + wait]}

Counted(c, until) ==
  IF Gone(c) THEN [c EXCEPT !.of = @ + 1, !.count = 1, !.until = until] ELSE [c EXCEPT !.count = @ + 1]

\* incrementMemory, in one go.
IncrementMemory(p) ==
  /\ memory' = [memory EXCEPT ![p] = Counted(@, now + Window)]
  /\ Judge(p, memory'[p], memory'[p].until - now)

\* A request comes to a process.
Ask(p) ==
  /\ Takes("arrive")
  /\ IF now >= avoid[p]
     THEN /\ calls' = calls \union {[proc |-> p, id |-> left["arrive"], at |-> "incr", since |-> now,
                                     got |-> key]}
          /\ UNCHANGED <<memory, refused>>
     ELSE IncrementMemory(p) /\ UNCHANGED calls
  /\ UNCHANGED <<now, required, key, avoid, orphans>>

-----------------------------------------------------------------------------
(* incrementRedis: INCR, PEXPIRE for the first one, PTTL. *)

\* The next command of a call.
Then(r, step) == calls' = (calls \ {r}) \union {[r EXCEPT !.at = step, !.since = now]}

Increments(r, step) ==
  /\ r.at = "incr" /\ key' = Counted(key, Never)
  /\ calls' = (calls \ {r}) \union {[r EXCEPT !.at = step, !.since = now, !.got = key']}
  /\ UNCHANGED <<now, required, memory, avoid, refused, orphans, left>>

IncrUnexpiring(r) ==  \* faulty variant: the first request is not told apart
  Increments(r, "ttl")

Incr(r) == Increments(r, IF Gone(key) THEN "expire" ELSE "ttl")

Expire(r) ==
  /\ r.at = "expire" /\ key' = [key EXCEPT !.until = now + Window] /\ Then(r, "ttl")
  /\ UNCHANGED <<now, required, memory, avoid, refused, orphans, left>>

\* The request is judged by the count that it got; a counter without an expiry,
\* or one that is gone by now, is taken for a new one.
Ttl(r) ==
  /\ r.at = "ttl" /\ calls' = calls \ {r}
  /\ Judge(Shared, r.got, IF Gone(key) \/ key.until = Never THEN Window ELSE key.until - now)
  /\ UNCHANGED <<now, required, key, memory, avoid, orphans, left>>

\* The expiry of a counter is lost with the call that was to set it.
Orphans(lost) == {r.got.of : r \in {q \in lost : q.at = "expire"}}

\* A command fails, executed or not, and Redis is left alone for a while. The
\* request is counted in memory, or is answered with 503.
RedisFails(r) ==
  /\ Takes("fault") /\ calls' = calls \ {r}
  /\ \/ UNCHANGED key /\ orphans' = orphans \union Orphans({r})
     \/ r.at = "incr" /\ key' = Counted(key, Never)
        /\ orphans' = IF Gone(key) THEN orphans \union {key'.of} ELSE orphans
     \/ r.at = "expire" /\ key' = [key EXCEPT !.until = now + Window] /\ UNCHANGED orphans
  /\ avoid' = [avoid EXCEPT ![r.proc] = now + Pause]
  /\ IF required THEN UNCHANGED <<memory, refused>> ELSE IncrementMemory(r.proc)
  /\ UNCHANGED <<now, required>>

\* A process restarts: its memory begins anew, its requests are not answered.
Restart(p) ==
  LET lost == {r \in calls : r.proc = p}
  IN /\ Takes("fault") /\ calls' = calls \ lost /\ orphans' = orphans \union Orphans(lost)
     /\ memory' = [memory EXCEPT ![p].count = 0]
     /\ avoid' = [avoid EXCEPT ![p] = 0]
     /\ UNCHANGED <<now, required, key, refused>>

Tick ==
  /\ now < Horizon /\ \A r \in calls : r.since = now
  /\ now' = now + 1
  /\ UNCHANGED <<required, key, memory, avoid, calls, refused, orphans, left>>

Command(r) == Incr(r) \/ Expire(r) \/ Ttl(r)

LimitInit ==
  /\ now = 0 /\ required \in BOOLEAN
  /\ key = Unused /\ memory = [p \in Processes |-> Unused]
  /\ avoid = [p \in Processes |-> 0]
  /\ calls = {} /\ refused = {} /\ orphans = {} /\ left = Budget

LimitNext ==
  \/ \E p \in Processes : Ask(p) \/ Restart(p)
  \/ \E r \in calls : Command(r) \/ RedisFails(r)
  \/ Tick

-----------------------------------------------------------------------------
\* Whoever is refused and waits as long as the answer says finds the counter
\* gone that refused him, give or take the time of a command, however many go on
\* trying meanwhile; but if the expiry of that counter was lost.
RefusalEnds ==
  \A a \in refused :
    LET c == IF a.by = Shared THEN key ELSE memory[a.by]
    IN now > a.until /\ ~(a.by = Shared /\ a.of \in orphans) => c.of # a.of \/ Gone(c)
=============================================================================
