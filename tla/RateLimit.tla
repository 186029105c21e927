----------------------------- MODULE RateLimit -----------------------------
(***************************************************************************)
(* The rate limiter of one API key (api/rate_limiter.py): a bucket for     *)
(* bursts and one for the sustained rate, consumed one after the other by  *)
(* a script that Redis runs in one step.  Requests are interchangeable: a  *)
(* count of those waiting for each bucket's answer is all that is kept.    *)
(* Times are counted from the present, so that behaviours have no end.     *)
(***************************************************************************)
EXTENDS Integers, FiniteSets

CONSTANTS
    Null,
    Limit, Window,   \* of each bucket: tokens, and its life in ticks
    MaxWaiting       \* requests in flight

Buckets == {"rps", "rpm"}

RateLimitAssumption ==
    /\ Limit \in [Buckets -> Nat \ {0}] /\ Window \in [Buckets -> Nat \ {0}]
    /\ MaxWaiting \in Nat
    /\ Null \notin [tokens : Int, left : Int]

VARIABLES
    bucket,       \* the Redis keys: [tokens, left], left being the TTL; or Null
    waiting,      \* requests whose answer from a bucket is outstanding
    granted,      \* history: the tokens of the last window, each with its age
    refused,      \* history: buckets that refused since the last tick
    promised      \* history: for each bucket, the waits refused callers were told

rateVars == <<bucket, waiting, granted, refused, promised>>

Init ==
    /\ bucket = [b \in Buckets |-> Null] /\ waiting = [b \in Buckets |-> 0]
    /\ granted = [b \in Buckets |-> {}]
    /\ refused = {} /\ promised = [b \in Buckets |-> {}]

(* ---------------------- the script, for one bucket --------------------- *)

Grants(b) == bucket[b] # Null => bucket[b].tokens > 0

Fresh(b) == [tokens |-> Limit[b], left |-> Window[b]]

(* A first request creates the bucket; the others leave its expiry alone.  *)
Taken_Renews(b) ==
    [tokens |-> (IF bucket[b] = Null THEN Limit[b] ELSE bucket[b].tokens) - 1,
     left   |-> Window[b]]

Taken(b) ==
    [(IF bucket[b] = Null THEN Fresh(b) ELSE bucket[b]) EXCEPT !.tokens = @ - 1]

(* A token is told from the others of its tick by its place among them.    *)
GivenNow(b) == {token \in granted[b] : token.age = 0}
NewToken(b) == [age |-> 0, nth |-> Cardinality(GivenNow(b)) + 1]

TakeToken(b) ==
    /\ Grants(b)
    /\ bucket' = [bucket EXCEPT ![b] = Taken(b)]
    /\ granted' = [granted EXCEPT ![b] = @ \union {NewToken(b)}]

(* ------------------------------- requests ------------------------------ *)

Arrive ==
    /\ waiting["rps"] + waiting["rpm"] < MaxWaiting
    /\ waiting' = [waiting EXCEPT !["rps"] = @ + 1]
    /\ UNCHANGED <<bucket, granted, refused, promised>>

(* Past the burst bucket a request goes on to the other one.               *)
MoveOn(b) ==
    waiting' = IF b = "rps" THEN [waiting EXCEPT !["rps"] = @ - 1, !["rpm"] = @ + 1]
               ELSE [waiting EXCEPT !["rpm"] = @ - 1]

Admit(b) ==
    /\ waiting[b] > 0
    /\ TakeToken(b) /\ MoveOn(b)
    /\ UNCHANGED <<refused, promised>>

(* A refused request is told when the bucket expires, exactly here, though *)
(* Redis rounds TTL to the nearest second; what it took from the burst     *)
(* bucket before is not given back.                                        *)
Refuse(b) ==
    /\ waiting[b] > 0 /\ ~Grants(b)
    /\ refused' = refused \union {b}
    /\ promised' = [promised EXCEPT ![b] = @ \union {bucket[b].left}]
    /\ waiting' = [waiting EXCEPT ![b] = @ - 1]
    /\ UNCHANGED <<bucket, granted>>

(* retry_on_timeout: the answer is lost and the script runs again.         *)
AnswerLost(b) ==
    /\ waiting[b] > 0
    /\ TakeToken(b)
    /\ UNCHANGED <<waiting, refused, promised>>

(* Redis cannot be reached: the request passes without a token.            *)
FailOpen(b) ==
    /\ waiting[b] > 0
    /\ MoveOn(b)
    /\ UNCHANGED <<bucket, granted, refused, promised>>

Aged(tokens) == {[token EXCEPT !.age = @ + 1] : token \in tokens}

Tick ==
    /\ bucket' = [b \in Buckets |->
                     IF bucket[b] = Null \/ bucket[b].left = 1 THEN Null
                     ELSE [bucket[b] EXCEPT !.left = @ - 1]]
    /\ granted' = [b \in Buckets |->
                     Aged({token \in granted[b] : token.age < Window[b] - 1})]
    /\ refused' = {}
    /\ promised' = [b \in Buckets |-> {wait - 1 : wait \in promised[b] \ {0}}]
    /\ UNCHANGED waiting

Next ==
    \/ Arrive \/ Tick
    \/ \E b \in Buckets : Admit(b) \/ Refuse(b) \/ AnswerLost(b) \/ FailOpen(b)

(* ------------------------------ properties ----------------------------- *)

TypeOK ==
    /\ \A b \in Buckets :
          /\ bucket[b] # Null => bucket[b] \in [tokens : 0..(Limit[b] - 1), left : 1..Window[b]]
          /\ granted[b] \subseteq [age : 0..(Window[b] - 1), nth : Nat \ {0}]
          /\ promised[b] \subseteq 0..Window[b]
    /\ waiting \in [Buckets -> 0..MaxWaiting] /\ refused \subseteq Buckets

GivenLately(b) == Cardinality(granted[b])

(* The windows are fixed, not rolling, yet a bucket gives less than twice  *)
(* its limit in any stretch as long as its window, wherever that begins.   *)
RateBounded == \A b \in Buckets : GivenLately(b) < 2 * Limit[b]

(* Nobody is refused who kept to the rate: behind a refusal are as many    *)
(* tokens as the limit, given within the last window.                      *)
RefusedOnlyWhenSpent == \A b \in refused : GivenLately(b) >= Limit[b]

(* The wait a refusal names is honest: once it is over, the bucket that    *)
(* refused is gone.  (Of the exact time left: the caller reads it rounded  *)
(* to the second, and may come up to half a second early.)                 *)
ResetIsHonest ==
    \A b \in Buckets : 0 \in promised[b] => bucket[b] = Null \/ bucket[b].left = Window[b]

RateIsHonest == RateBounded /\ RefusedOnlyWhenSpent /\ ResetIsHonest
=============================================================================
